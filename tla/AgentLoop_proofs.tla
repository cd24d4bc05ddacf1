-------------------------- MODULE AgentLoop_proofs --------------------------
(***************************************************************************)
(* Proofs about AgentLoop, for any number of requests and views: its       *)
(* types, what a request begins after it was stopped, and consent to the   *)
(* other provider.                                                         *)
(***************************************************************************)
EXTENDS AgentLoop, FiniteSetTheorems, WellFoundedInduction, TLAPS

-----------------------------------------------------------------------------
(* The state of one request                                                *)

(* Nothing to account for: no signal, or nothing begun since.              *)
Clean(s) == s.heedless \/ (s.late = 0 /\ s.looks = 0)

(* The series of reads a stopped request may have behind it at each place. *)
LooksAt(p) ==
  IF p \in {"tried", "running", "smart"} THEN 1
  ELSE IF p \in {"listed", "guess", "stage", "loop"} THEN 2
  ELSE IF p \in {"sources", "round", "reading", "planning", "phase", "last", "over"} THEN 3
  ELSE 0
Looking(s) ==
  /\ s.stopped /\ s.late = 0 /\ s.mode # "answer"
  /\ s.looks <= LooksAt(s.at)
  /\ s.at = "last" => s.call = "barred"

(* Places where the next command that begins after the stop, if any, is    *)
(* the retry of a phase in the stack.                                      *)
Spent == {"phase", "sub", "retry", "over"}
Retrying(s) ==
  /\ s.stopped /\ s.looks = 0 /\ s.mode # "answer"
  /\ s.at \in Spent /\ s.late + Len(s.subs) <= MaxDepth + 1

LateInv(s) == Clean(s) \/ Looking(s) \/ Retrying(s)

InRounds == {"model", "repair", "offer", "asked", "refused", "sent", "checked", "tried", "running",
             "smart", "listed", "guess", "sources"}
InChain == {"batch", "link", "linking"}
InStages == {"stage", "precheck", "direct"}
InPhase == {"main", "sub", "retry"}

(* What is left of the bounds at each place                                *)
BoundsInv(r, s) ==
  /\ s.round <= MaxSteps[r]
  /\ s.at \in InRounds \/ (s.at = "paneAsk" /\ s.mode # "chain") => s.round < MaxSteps[r]
  /\ s.stage <= MaxParts[r] /\ s.phase <= MaxParts[r] /\ s.reads <= MaxReads[r]
  /\ s.at \in InPhase \cup {"linking"} \/ (s.at = "paneAsk" /\ s.mode = "chain") => s.phase < MaxParts[r]
  /\ s.mode \in {"stages", "intents"} /\ s.at \notin {"stage", "over"} => s.stage < MaxParts[r]
  /\ Len(s.subs) <= MaxDepth

ModeInv(s) ==
  /\ s.mode = "chain" => s.at \in InChain \cup {"paneAsk", "over"}
  /\ s.at \in InChain => s.mode = "chain"
  /\ s.at \in {"routing", "shortcut", "new", "ended"} => s.mode = "single"
  /\ s.mode = "answer" => s.at \in InPhase \cup {"phase"}
  /\ s.at \in InStages => s.mode \in {"stages", "intents"}

StackInv(s) == s.at = "sub" => s.subs # <<>>

Inv(r, s) == LateInv(s) /\ BoundsInv(r, s) /\ ModeInv(s) /\ StackInv(s)
Sound(r, s) == s \in Request /\ Inv(r, s)

-----------------------------------------------------------------------------
(* Updates of a record                                                     *)

LEMMA Updated ==
  ASSUME NEW s \in Request
  PROVE  /\ \A x \in Running \cup {"new", "ended"} : [s EXCEPT !.at = x] \in Request
         /\ \A x \in {"single", "stages", "intents", "chain", "answer"} : [s EXCEPT !.mode = x] \in Request
         /\ \A x \in {"none", "running", "deaf", "cancelled", "barred"} : [s EXCEPT !.call = x] \in Request
         /\ \A x \in Nat : [s EXCEPT !.round = x] \in Request
         /\ \A x \in 0..MaxStrikes : [s EXCEPT !.strikes = x] \in Request
         /\ \A x \in Nat : [s EXCEPT !.stage = x] \in Request
         /\ \A x \in Nat : [s EXCEPT !.phase = x] \in Request
         /\ \A x \in Seq(0..2) : [s EXCEPT !.subs = x] \in Request
         /\ \A x \in BOOLEAN : [s EXCEPT !.gated = x] \in Request
         /\ \A x \in BOOLEAN : [s EXCEPT !.stopped = x] \in Request
         /\ \A x \in Nat : [s EXCEPT !.reads = x] \in Request
         /\ \A x \in 0..MaxLate : [s EXCEPT !.late = x] \in Request
         /\ \A x \in 0..MaxLooks : [s EXCEPT !.looks = x] \in Request
         /\ \A x \in BOOLEAN : [s EXCEPT !.heedless = x] \in Request
  BY DEF Request

LEMMA FieldTypes ==
  ASSUME NEW s \in Request
  PROVE  /\ s.at \in Running \cup {"new", "ended"}
         /\ s.mode \in {"single", "stages", "intents", "chain", "answer"}
         /\ s.call \in {"none", "running", "deaf", "cancelled", "barred"}
         /\ s.round \in Nat /\ s.strikes \in 0..MaxStrikes
         /\ s.stage \in Nat /\ s.phase \in Nat
         /\ s.subs \in Seq(0..2) /\ Len(s.subs) \in Nat
         /\ s.gated \in BOOLEAN /\ s.stopped \in BOOLEAN
         /\ s.reads \in Nat /\ s.late \in 0..MaxLate /\ s.looks \in 0..MaxLooks /\ s.heedless \in BOOLEAN
  BY DEF Request

LEMMA Constants ==
  /\ MaxStrikes \in Nat \ {0} /\ MaxDepth \in Nat /\ MaxLate \in Nat
  /\ MaxLate = MaxDepth + 2 /\ MaxLooks = 4
  /\ \A r \in Requests : MaxSteps[r] \in Nat /\ MaxParts[r] \in Nat /\ MaxReads[r] \in Nat /\ ViewOf[r] \in Views
  /\ <<>> \in Seq(0..2) /\ Len(<<>>) = 0
  BY AgentAssumption DEF MaxLate, MaxLooks

(* What most updates leave alone                                           *)
Same(s, t) ==
  t.mode = s.mode /\ t.round = s.round /\ t.stage = s.stage /\ t.phase = s.phase /\ t.reads \in {0, s.reads}
Keeps(s, t) ==
  /\ t.late = s.late /\ t.looks = s.looks /\ t.stopped = s.stopped /\ t.heedless = s.heedless
  /\ t.subs = s.subs

LEMMA ToFields ==
  ASSUME NEW s \in Request, NEW p \in Running
  PROVE  LET t == To(s, p) IN t \in Request /\ t.at = p /\ Same(s, t) /\ Keeps(s, t)
<1>1. To(s, p) \in Request
  BY Updated DEF To
<1>2. QED
  BY <1>1 DEF To, Request, Same, Keeps

LEMMA CallFields ==
  ASSUME NEW s \in Request, NEW p \in Running
  PROVE  LET t == Call(s, p)
         IN /\ t \in Request /\ t.at = p /\ Same(s, t) /\ Keeps(s, t)
            /\ s.stopped => t.call = "barred"
<1>1. Call(s, p) \in Request
  BY Updated, FieldTypes DEF Call
<1>2. QED
  BY <1>1 DEF Call, Request, Same, Keeps

LEMMA BegunType ==
  ASSUME NEW s \in Request
  PROVE  /\ Begun(s) \in 0..MaxLate /\ Begun(s) <= s.late + 1
         /\ ~s.stopped \/ s.heedless => Begun(s) = s.late
  BY FieldTypes, Constants DEF Begun, Counts

LEMMA DeafFields ==
  ASSUME NEW s \in Request, NEW p \in Running
  PROVE  LET t == DeafCall(s, p)
         IN /\ t \in Request /\ t.at = p /\ Same(s, t)
            /\ t.late = Begun(s) /\ t.looks = s.looks
            /\ t.stopped = s.stopped /\ t.heedless = s.heedless /\ t.subs = s.subs
<1>1. DeafCall(s, p) \in Request
  BY BegunType, Updated, FieldTypes DEF DeafCall
<1>2. QED
  BY <1>1 DEF DeafCall, Request, Same

LEMMA LookedType ==
  ASSUME NEW s \in Request, NEW p
  PROVE  /\ Looked(s, p) \in 0..MaxLooks /\ Looked(s, p) <= s.looks + 1
         /\ ~s.stopped \/ s.heedless => Looked(s, p) = s.looks
         /\ s.at = p /\ s.looks # 0 => Looked(s, p) = s.looks
  BY FieldTypes, Constants DEF Looked, Counts

LEMMA ReadFields ==
  ASSUME NEW s \in Request, NEW p \in Running
  PROVE  LET t == Read(s, p)
         IN /\ t \in Request /\ t.at = p /\ t.reads = s.reads + 1 /\ t.looks = Looked(s, p)
            /\ t.mode = s.mode /\ t.round = s.round /\ t.stage = s.stage /\ t.phase = s.phase
            /\ t.late = s.late /\ t.stopped = s.stopped /\ t.heedless = s.heedless /\ t.subs = s.subs
<1>1. Read(s, p) \in Request
  <2>1. s.reads + 1 \in Nat
    BY FieldTypes
  <2>2. QED
    BY <2>1, LookedType, Updated DEF Read
<1>2. QED
  BY <1>1 DEF Read, Request

LEMMA HeedlessFields ==
  ASSUME NEW s \in Request, NEW p \in Running
  PROVE  LET t == HeedlessCall(s, p)
         IN /\ t \in Request /\ t.at = p /\ Same(s, t)
            /\ t.late = s.late /\ t.looks = s.looks /\ t.stopped = s.stopped /\ t.subs = s.subs
            /\ t.heedless = (s.heedless \/ s.stopped)
<1>1. HeedlessCall(s, p) \in Request
  BY Updated, FieldTypes DEF HeedlessCall
<1>2. QED
  BY <1>1 DEF HeedlessCall, Request, Same

LEMMA IdleFields ==
  ASSUME NEW s \in Request
  PROVE  /\ Idle(s) \in Request /\ Idle(s).at = s.at /\ Same(s, Idle(s)) /\ Keeps(s, Idle(s))
<1>1. Idle(s) \in Request
  BY Updated DEF Idle
<1>2. QED
  BY <1>1 DEF Idle, Request, Same, Keeps

LEMMA StrikeFields ==
  ASSUME NEW s \in Request
  PROVE  LET t == Strike(s)
         IN t \in Request /\ t.at = s.at /\ t.call = s.call /\ Same(s, t) /\ Keeps(s, t)
<1>1. Strike(s) \in Request
  <2>1. (IF s.strikes < MaxStrikes THEN s.strikes + 1 ELSE s.strikes) \in 0..MaxStrikes
    BY FieldTypes, Constants
  <2>2. QED
    BY <2>1, Updated DEF Strike
<1>2. QED
  BY <1>1 DEF Strike, Request, Same, Keeps

LEMMA ContinueFields ==
  ASSUME NEW s \in Request
  PROVE  LET t == Continue(s)
         IN /\ t \in Request /\ t.at = "round" /\ Keeps(s, t) /\ t.reads = s.reads
            /\ t.mode = s.mode /\ t.round = s.round + 1 /\ t.stage = s.stage /\ t.phase = s.phase
<1>1. Continue(s) \in Request
  <2>1. "round" \in Running /\ s.round + 1 \in Nat
    BY FieldTypes DEF Running, Between
  <2>2. QED
    BY <2>1, Updated DEF Continue
<1>2. QED
  BY <1>1 DEF Continue, Request, Keeps

LEMMA OverFields ==
  ASSUME NEW s \in Request
  PROVE  LET t == Over(s)
         IN /\ t \in Request /\ t.at = "over" /\ t.mode = "single" /\ t.round = 0 /\ t.subs = <<>>
            /\ t.stage = 0 /\ t.phase = 0 /\ t.reads = s.reads
            /\ t.late = s.late /\ t.looks = s.looks /\ t.stopped = s.stopped /\ t.heedless = s.heedless
<1>1. Over(s) \in Request
  <2>1. /\ "over" \in Running /\ 0 \in Nat /\ 0 \in 0..MaxStrikes
        /\ <<>> \in Seq(0..2) /\ FALSE \in BOOLEAN
    BY Constants DEF Running, Between
  <2>2. QED
    BY <2>1, Updated DEF Over
<1>2. QED
  BY <1>1 DEF Over, Request

LEMMA NextStageFields ==
  ASSUME NEW s \in Request
  PROVE  LET t == NextStage(s)
         IN /\ t \in Request /\ t.at = "stage" /\ t.mode = s.mode /\ t.round = 0 /\ Keeps(s, t)
            /\ t.stage = s.stage + 1 /\ t.phase = 0 /\ t.reads = s.reads
<1>1. NextStage(s) \in Request
  <2>1. /\ "stage" \in Running /\ 0 \in Nat /\ 0 \in 0..MaxStrikes
        /\ s.stage + 1 \in Nat /\ FALSE \in BOOLEAN
    BY FieldTypes, Constants DEF Running, Between
  <2>2. QED
    BY <2>1, Updated DEF NextStage
<1>2. QED
  BY <1>1 DEF NextStage, Request, Keeps

-----------------------------------------------------------------------------
(* Sound states go to sound states                                         *)

(* r may go to any of S.                                                   *)
Fine(r, S) == \A t \in S : Sound(r, t) /\ t.at \in Running \ {"sent"}

LEMMA LooksType == \A p : LooksAt(p) \in 0..3
  BY DEF LooksAt

LEMMA LooksFew ==
  ASSUME NEW s \in Request, Looking(s)
  PROVE  s.looks \in 0..3 /\ \A n \in 0..3 : LooksAt(s.at) <= n => s.looks <= n
<1>1. LooksAt(s.at) \in 0..3
  BY LooksType
<1>2. s.looks \in Nat /\ s.looks <= LooksAt(s.at)
  BY FieldTypes, Constants DEF Looking
<1>3. QED
  BY <1>1, <1>2

(* Where a stop leaves nothing to read and no phase to retry               *)
LEMMA Fresh ==
  ASSUME NEW s \in Request, LateInv(s),
         ~s.stopped \/ s.mode = "answer" \/ (LooksAt(s.at) = 0 /\ s.at \notin Spent)
  PROVE  Clean(s)
  BY FieldTypes, Constants DEF LateInv, Clean, Looking, Retrying

LEMMA CleanKept ==
  ASSUME NEW s, NEW t, Clean(s), Keeps(s, t)
  PROVE  Clean(t) /\ LateInv(t)
  BY DEF Clean, Keeps, LateInv

(* What may be over: as little as the property allows                      *)
Ended(s) ==
  \/ Clean(s)
  \/ s.stopped /\ s.late = 0 /\ s.looks <= 3
  \/ s.stopped /\ s.looks = 0 /\ s.late <= MaxDepth + 1

LEMMA LateEnds ==
  ASSUME NEW s \in Request, LateInv(s)
  PROVE  Ended(s)
<1>1. CASE Clean(s)
  BY <1>1 DEF Ended
<1>2. CASE Looking(s)
  BY <1>2, LooksType, FieldTypes, Constants DEF Ended, Looking
<1>3. CASE Retrying(s)
  BY <1>3, FieldTypes, Constants DEF Ended, Retrying
<1>4. QED
  BY <1>1, <1>2, <1>3 DEF LateInv

LEMMA OverEnds ==
  ASSUME NEW r \in Requests, NEW s \in Request, s.reads <= MaxReads[r], Ended(s)
  PROVE  Fine(r, {Over(s)})
<1> DEFINE t == Over(s)
<1>1. /\ t \in Request /\ t.at = "over" /\ t.mode = "single" /\ t.round = 0 /\ t.subs = <<>>
      /\ t.stage = 0 /\ t.phase = 0 /\ t.reads = s.reads
      /\ t.late = s.late /\ t.looks = s.looks /\ t.stopped = s.stopped /\ t.heedless = s.heedless
  BY OverFields
<1> HIDE DEF t
<1>2. LateInv(t)
  <2>1. CASE Clean(s)
    BY <1>1, <2>1 DEF Clean, LateInv
  <2>2. CASE s.stopped /\ s.late = 0 /\ s.looks <= 3
    <3>1. Looking(t)
      BY <1>1, <2>2 DEF Looking, LooksAt
    <3>2. QED
      BY <3>1 DEF LateInv
  <2>3. CASE s.stopped /\ s.looks = 0 /\ s.late <= MaxDepth + 1
    <3>1. t.late + Len(t.subs) <= MaxDepth + 1
      BY <1>1, <2>3, FieldTypes, Constants
    <3>2. QED
      BY <1>1, <2>3, <3>1 DEF Retrying, Spent, LateInv
  <2>4. QED
    BY <2>1, <2>2, <2>3 DEF Ended
<1>3. BoundsInv(r, t)
  BY <1>1, Constants DEF BoundsInv, InRounds, InPhase
<1>4. ModeInv(t) /\ StackInv(t)
  BY <1>1 DEF ModeInv, StackInv, InChain, InStages
<1>5. QED
  BY <1>1, <1>2, <1>3, <1>4 DEF Fine, Sound, Inv, Running, Between, t

LEMMA OverFine ==
  ASSUME NEW r \in Requests, NEW s, Sound(r, s)
  PROVE  Fine(r, {Over(s)})
  BY OverEnds, LateEnds DEF Sound, Inv, BoundsInv

LEMMA LoopEndsFine ==
  ASSUME NEW r \in Requests, NEW s, Sound(r, s), s.at \notin {"stage", "over"},
         Clean(s) \/ (LooksAt(s.at) <= 2 /\ s.at \notin Spent), NEW b
  PROVE  Fine(r, {LoopEnds(s, b)})
<1>1. CASE ~(b /\ s.mode \in {"stages", "intents"})
  BY <1>1, OverFine DEF LoopEnds
<1>2. CASE b /\ s.mode \in {"stages", "intents"}
  <2> DEFINE t == NextStage(s)
  <2>1. s \in Request /\ s.stage < MaxParts[r] /\ s.reads <= MaxReads[r]
    BY <1>2 DEF Sound, Inv, BoundsInv
  <2>2. /\ t \in Request /\ t.at = "stage" /\ t.mode = s.mode /\ t.round = 0 /\ Keeps(s, t)
        /\ t.stage = s.stage + 1 /\ t.phase = 0 /\ t.reads = s.reads
    BY <2>1, NextStageFields
  <2> HIDE DEF t
  <2>3. LateInv(t)
    <3>1. CASE Clean(s)
      BY <2>2, <3>1, CleanKept
    <3>2. CASE Looking(s) /\ LooksAt(s.at) <= 2
      <4>1. t.looks <= 2
        BY <2>1, <2>2, <3>2, LooksFew DEF Keeps
      <4>2. Looking(t)
        BY <2>2, <3>2, <4>1 DEF Looking, LooksAt, Keeps
      <4>3. QED
        BY <4>2 DEF LateInv
    <3>3. QED
      BY <3>1, <3>2 DEF Sound, Inv, LateInv, Retrying
  <2>4. BoundsInv(r, t)
    BY <2>1, <2>2, FieldTypes, Constants DEF Sound, Inv, BoundsInv, Keeps, InRounds, InPhase
  <2>5. ModeInv(t) /\ StackInv(t)
    BY <1>2, <2>2 DEF ModeInv, StackInv, InChain, InStages
  <2>6. QED
    BY <1>2, <2>2, <2>3, <2>4, <2>5 DEF LoopEnds, Fine, Sound, Inv, Running, Between, t
<1>3. QED
  BY <1>1, <1>2

(* p is a place to which s can go, as far as its bounds are concerned.     *)
Room(r, s, p) ==
  /\ p \in InRounds \/ (p = "paneAsk" /\ s.mode # "chain") => s.round < MaxSteps[r]
  /\ p \in InPhase \cup {"linking"} \/ (p = "paneAsk" /\ s.mode = "chain") => s.phase < MaxParts[r]
  /\ s.mode \in {"stages", "intents"} /\ p \notin {"stage", "over"} => s.stage < MaxParts[r]
  /\ p = "sub" => s.subs # <<>>
  /\ s.mode = "chain" => p \in InChain \cup {"paneAsk"}
  /\ p \in InChain => s.mode = "chain"
  /\ p \in {"routing", "shortcut"} => s.mode = "single"
  /\ s.mode = "answer" => p \in InPhase \cup {"phase"}
  /\ p \in InStages => s.mode \in {"stages", "intents"}

LEMMA RoomBounds ==
  ASSUME NEW r \in Requests, NEW s, Sound(r, s), NEW p \in Running, Room(r, s, p),
         NEW t, t.at = p, t.mode = s.mode, t.round = s.round, t.stage = s.stage, t.phase = s.phase,
         t.reads <= MaxReads[r], t.subs = s.subs
  PROVE  BoundsInv(r, t) /\ ModeInv(t) /\ StackInv(t)
  BY DEF Sound, Inv, BoundsInv, ModeInv, StackInv, Room, Running, Asking, Thinking, Calling, Reading, Between

LEMMA SameBounds ==
  ASSUME NEW r \in Requests, NEW s, Sound(r, s), NEW p \in Running, Room(r, s, p),
         NEW t, t.at = p, Same(s, t), t.subs = s.subs
  PROVE  BoundsInv(r, t) /\ ModeInv(t) /\ StackInv(t)
<1>1. t.reads <= MaxReads[r]
  BY Constants DEF Same, Sound, Inv, BoundsInv
<1>2. QED
  BY <1>1, RoomBounds DEF Same

LEMMA LastFine ==
  ASSUME NEW r \in Requests, NEW s, Sound(r, s), s.mode \notin {"chain", "answer"},
         s.at \notin {"stage", "over"} \cup Spent
  PROVE  Fine(r, {Call(s, "last")})
<1> DEFINE t == Call(s, "last")
<1>1. s \in Request /\ "last" \in Running \ {"sent"}
  BY DEF Sound, Running, Calling
<1>2. /\ t \in Request /\ t.at = "last" /\ Same(s, t) /\ Keeps(s, t)
      /\ s.stopped => t.call = "barred"
  BY <1>1, CallFields
<1> HIDE DEF t
<1>3. LateInv(t)
  <2>1. CASE Clean(s)
    BY <1>2, <2>1, CleanKept
  <2>2. CASE Looking(s)
    <3>1. t.looks <= 3
      BY <1>1, <1>2, <2>2, LooksFew DEF Keeps
    <3>2. Looking(t)
      BY <1>2, <2>2, <3>1 DEF Looking, LooksAt, Keeps, Same
    <3>3. QED
      BY <3>2 DEF LateInv
  <2>3. QED
    BY <2>1, <2>2 DEF Sound, Inv, LateInv, Retrying
<1>4. Room(r, s, "last")
  BY DEF Room, Sound, Inv, BoundsInv, InRounds, InPhase, InChain, InStages
<1>5. BoundsInv(r, t) /\ ModeInv(t) /\ StackInv(t)
  BY <1>1, <1>2, <1>4, SameBounds DEF Keeps
<1>6. QED
  BY <1>1, <1>2, <1>3, <1>5 DEF Fine, Sound, Inv, t

LEMMA ContinueFine ==
  ASSUME NEW r \in Requests, NEW s, Sound(r, s), s.mode # "chain", s.at \in InRounds \cup {"paneAsk"}
  PROVE  Fine(r, {Continue(s)})
<1> DEFINE t == Continue(s)
<1>1. s \in Request
  BY DEF Sound
<1>2. /\ t \in Request /\ t.at = "round" /\ Keeps(s, t) /\ t.reads = s.reads
      /\ t.mode = s.mode /\ t.round = s.round + 1 /\ t.stage = s.stage /\ t.phase = s.phase
  BY <1>1, ContinueFields
<1> HIDE DEF t
<1>3. LateInv(t)
  <2>1. CASE Clean(s)
    BY <1>2, <2>1, CleanKept
  <2>2. CASE Looking(s)
    <3>1. t.looks <= 3
      BY <1>1, <1>2, <2>2, LooksFew DEF Keeps
    <3>2. Looking(t)
      BY <1>2, <2>2, <3>1 DEF Looking, LooksAt, Keeps
    <3>3. QED
      BY <3>2 DEF LateInv
  <2>3. QED
    BY <2>1, <2>2 DEF Sound, Inv, LateInv, Retrying, Spent, InRounds
<1>4. BoundsInv(r, t)
  BY <1>1, <1>2, FieldTypes, Constants DEF Sound, Inv, BoundsInv, Keeps, InRounds, InPhase
<1>5. ModeInv(t) /\ StackInv(t)
  BY <1>2 DEF Sound, Inv, ModeInv, StackInv, InChain, InStages, InRounds, InPhase
<1>6. QED
  BY <1>2, <1>3, <1>4, <1>5 DEF Fine, Sound, Inv, Running, Between, t

LEMMA StrikeSound ==
  ASSUME NEW r \in Requests, NEW s, Sound(r, s)
  PROVE  Sound(r, Strike(s)) /\ Strike(s).at = s.at /\ Strike(s).mode = s.mode
<1> DEFINE t == Strike(s)
<1>1. t \in Request /\ t.at = s.at /\ t.call = s.call /\ Same(s, t) /\ Keeps(s, t)
  BY StrikeFields DEF Sound
<1> HIDE DEF t
<1>2. LateInv(t)
  BY <1>1 DEF Sound, Inv, LateInv, Clean, Looking, Retrying, Same, Keeps
<1>3. BoundsInv(r, t) /\ ModeInv(t) /\ StackInv(t)
  BY <1>1, Constants DEF Sound, Inv, BoundsInv, ModeInv, StackInv, Same, Keeps
<1>4. QED
  BY <1>1, <1>2, <1>3 DEF Sound, Inv, Same, t

LEMMA IdleBounds ==
  ASSUME NEW r \in Requests, NEW s, Sound(r, s)
  PROVE  /\ Idle(s) \in Request /\ Idle(s).at = s.at /\ Idle(s).mode = s.mode
         /\ BoundsInv(r, Idle(s)) /\ ModeInv(Idle(s)) /\ StackInv(Idle(s))
<1> DEFINE t == Idle(s)
<1>1. t \in Request /\ t.at = s.at /\ Same(s, t) /\ Keeps(s, t)
  BY IdleFields DEF Sound
<1> HIDE DEF t
<1>2. BoundsInv(r, t) /\ ModeInv(t) /\ StackInv(t)
  BY <1>1, Constants DEF Sound, Inv, BoundsInv, ModeInv, StackInv, Same, Keeps
<1>3. QED
  BY <1>1, <1>2 DEF Same, t

LEMMA IdleSound ==
  ASSUME NEW r \in Requests, NEW s, Sound(r, s), s.at # "last" \/ Clean(s)
  PROVE  Sound(r, Idle(s)) /\ Idle(s).at = s.at /\ Idle(s).mode = s.mode
<1> DEFINE t == Idle(s)
<1>1. t \in Request /\ t.at = s.at /\ Same(s, t) /\ Keeps(s, t)
  BY IdleFields DEF Sound
<1>2. BoundsInv(r, t) /\ ModeInv(t) /\ StackInv(t)
  BY IdleBounds
<1> HIDE DEF t
<1>3. LateInv(t)
  BY <1>1 DEF Sound, Inv, LateInv, Clean, Looking, Retrying, Same, Keeps
<1>4. QED
  BY <1>1, <1>2, <1>3 DEF Sound, Inv, Same, t

(* From the place of s a stop leaves no more to p than p allows.           *)
Onward(s, p) == LooksAt(s.at) <= LooksAt(p) /\ (s.at \in Spent => p \in Spent)

LEMMA ToFine ==
  ASSUME NEW r \in Requests, NEW s, Sound(r, s), NEW p \in Running \ {"sent", "last"}, Room(r, s, p),
         Clean(s) \/ Onward(s, p)
  PROVE  Fine(r, {To(s, p), Call(s, p)})
<1>1. ASSUME NEW t \in Request, t.at = p, Same(s, t), Keeps(s, t)
      PROVE  Sound(r, t)
  <2>1. LateInv(t)
    <3>1. CASE Clean(s)
      BY <1>1, <3>1, CleanKept
    <3>2. CASE Looking(s) /\ Onward(s, p)
      <4>1. t.looks <= LooksAt(p)
        BY <1>1, <3>2, LooksType, FieldTypes, Constants DEF Looking, Onward, Keeps
      <4>2. Looking(t)
        BY <1>1, <3>2, <4>1 DEF Looking, Keeps, Same
      <4>3. QED
        BY <4>2 DEF LateInv
    <3>3. CASE Retrying(s) /\ Onward(s, p)
      BY <1>1, <3>3 DEF LateInv, Retrying, Onward, Keeps, Same
    <3>4. QED
      BY <3>1, <3>2, <3>3 DEF Sound, Inv, LateInv
  <2>2. BoundsInv(r, t) /\ ModeInv(t) /\ StackInv(t)
    BY <1>1, SameBounds DEF Keeps
  <2>3. QED
    BY <1>1, <2>1, <2>2 DEF Sound, Inv
<1>2. s \in Request
  BY DEF Sound
<1>3. QED
  BY <1>1, <1>2, ToFields, CallFields DEF Fine

LEMMA HeedlessFine ==
  ASSUME NEW r \in Requests, NEW s, Sound(r, s), NEW p \in Running \ {"sent"}, Room(r, s, p)
  PROVE  Fine(r, {HeedlessCall(s, p)})
<1> DEFINE t == HeedlessCall(s, p)
<1>1. s \in Request
  BY DEF Sound
<1>2. /\ t \in Request /\ t.at = p /\ Same(s, t)
      /\ t.late = s.late /\ t.looks = s.looks /\ t.stopped = s.stopped /\ t.subs = s.subs
      /\ t.heedless = (s.heedless \/ s.stopped)
  BY <1>1, HeedlessFields
<1> HIDE DEF t
<1>3. LateInv(t)
  <2>1. CASE s.stopped
    BY <1>2, <2>1 DEF LateInv, Clean
  <2>2. CASE ~s.stopped
    BY <1>1, <1>2, <2>2, Fresh DEF Sound, Inv, LateInv, Clean
  <2>3. QED
    BY <2>1, <2>2
<1>4. BoundsInv(r, t) /\ ModeInv(t) /\ StackInv(t)
  BY <1>2, SameBounds
<1>5. QED
  BY <1>2, <1>3, <1>4 DEF Fine, Sound, Inv, t

(* A series of reads begins where less was read before, or goes on.        *)
LEMMA ReadsFine ==
  ASSUME NEW r \in Requests, NEW s, Sound(r, s), NEW p \in Reading, Room(r, s, p),
         s.at = p \/ LooksAt(s.at) < LooksAt(p), s.at \notin Spent, s.mode # "answer"
  PROVE  Fine(r, Reads(r, s, p))
<1> SUFFICES ASSUME s.reads < MaxReads[r]
             PROVE  Fine(r, {Read(s, p)})
  BY DEF Reads, Fine
<1> DEFINE t == Read(s, p)
<1>1. s \in Request /\ p \in Running \ {"sent", "last"} /\ LooksAt(p) \in 1..3
  BY DEF Sound, Running, Calling, Reading, LooksAt
<1>2. /\ t \in Request /\ t.at = p /\ t.reads = s.reads + 1 /\ t.looks = Looked(s, p)
      /\ t.mode = s.mode /\ t.round = s.round /\ t.stage = s.stage /\ t.phase = s.phase
      /\ t.late = s.late /\ t.stopped = s.stopped /\ t.heedless = s.heedless /\ t.subs = s.subs
  BY <1>1, ReadFields
<1> HIDE DEF t
<1>3. LateInv(t)
  <2>1. CASE s.heedless
    BY <1>2, <2>1 DEF LateInv, Clean
  <2>2. CASE ~s.stopped
    <3>1. Clean(s) /\ Looked(s, p) = s.looks
      BY <1>1, <2>2, Fresh, LookedType DEF Sound, Inv
    <3>2. QED
      BY <1>2, <3>1 DEF LateInv, Clean
  <2>3. CASE ~s.heedless /\ s.stopped
    <3>1. s.late = 0 /\ (s.looks = 0 \/ s.looks <= LooksAt(s.at))
      BY <2>3 DEF Sound, Inv, LateInv, Clean, Looking, Retrying
    <3>2. Looked(s, p) <= LooksAt(p)
      <4>1. /\ s.looks \in Nat /\ Looked(s, p) \in Nat /\ Looked(s, p) <= s.looks + 1
            /\ s.at = p /\ s.looks # 0 => Looked(s, p) = s.looks
        BY <1>1, LookedType, FieldTypes, Constants
      <4>2. LooksAt(s.at) \in 0..3 /\ LooksAt(p) \in 1..3
        BY <1>1, LooksType
      <4>3. QED
        BY <3>1, <4>1, <4>2
    <3>3. Looking(t)
      BY <1>1, <1>2, <2>3, <3>1, <3>2 DEF Looking
    <3>4. QED
      BY <3>3 DEF LateInv
  <2>4. QED
    BY <1>1, <2>1, <2>2, <2>3, FieldTypes
<1>4. BoundsInv(r, t) /\ ModeInv(t) /\ StackInv(t)
  <2>1. t.reads <= MaxReads[r]
    BY <1>1, <1>2, FieldTypes, Constants
  <2>2. QED
    BY <1>1, <1>2, <2>1, RoomBounds
<1>5. QED
  BY <1>1, <1>2, <1>3, <1>4 DEF Fine, Sound, Inv, t

LEMMA FailedFine ==
  ASSUME NEW r \in Requests, NEW s, Sound(r, s), s.at \in {"smart", "listed", "guess"}
  PROVE  Fine(r, Failed(r, s))
<1> DEFINE t == Strike(s)
<1>1. s.mode \notin {"chain", "answer"}
  BY DEF Sound, Inv, ModeInv, InChain, InPhase
<1>2. Sound(r, t) /\ t.at = s.at /\ t.mode = s.mode
  BY StrikeSound
<1> HIDE DEF t
<1>3. Fine(r, {Over(t)}) /\ Fine(r, {Call(t, "last")}) /\ Fine(r, {Continue(t)})
  BY <1>1, <1>2, OverFine, LastFine, ContinueFine DEF InRounds, Spent
<1>4. Room(r, t, "sources")
  BY <1>1, <1>2 DEF Room, Sound, Inv, BoundsInv, InRounds, InPhase, InChain, InStages
<1>5. Fine(r, Reads(r, t, "sources"))
  BY <1>1, <1>2, <1>4, ReadsFine DEF Reading, LooksAt, Spent
<1>6. QED
  BY <1>3, <1>5 DEF Failed, Fine, t

-----------------------------------------------------------------------------
(* Every step of a running request                                         *)

Moves(r) ==
  /\ req[r].at \in Running
  /\ \E t : /\ Sound(r, t) /\ t.at \in Running
            /\ req' = [req EXCEPT ![r] = t]
            /\ t.at = "sent" => req[r].at = "sent" \/ r \in yes' \/ ViewOf[r] \in externalConsent
  /\ UNCHANGED <<runDepth, alone>>
  /\ \/ UNCHANGED question
     \/ \E q \in {"directory", "plan"} : question' = [question EXCEPT ![ViewOf[r]] = @ \cup {q}]
  /\ \/ UNCHANGED <<externalConsent, yes>>
     \/ externalConsent' = externalConsent \cup {ViewOf[r]} /\ yes' = yes \cup {r}
  /\ ChoiceTypeOK => ChoiceTypeOK'

LEMMA StepMoves ==
  ASSUME NEW r \in Requests, req[r].at \in Running, NEW S, Fine(r, S)
  PROVE  /\ Step(r, S) => Moves(r)
         /\ Goes(r, S) /\ Ask(r) /\ CanAsk => Moves(r)
         /\ \A v \in Views : Goes(r, S) /\ Answer(v, r) => Moves(r)
<1>1. Goes(r, S) /\ (ChoiceTypeOK => ChoiceTypeOK') => Moves(r)
  BY DEF Goes, Moves, Fine, loopVars, historyVars
<1>2. UNCHANGED choiceVars => (ChoiceTypeOK => ChoiceTypeOK')
  BY DEF choiceVars, ChoiceTypeOK
<1>3. Ask(r) /\ CanAsk => (ChoiceTypeOK => ChoiceTypeOK')
  BY DEF Ask, CanAsk, ChoiceTypeOK
<1>4. \A v \in Views : Answer(v, r) => (ChoiceTypeOK => ChoiceTypeOK')
  BY DEF Answer, ChoiceTypeOK
<1>5. QED
  BY <1>1, <1>2, <1>3, <1>4 DEF Step

LEMMA ChainFine ==
  ASSUME NEW r \in Requests, NEW s, Sound(r, s), s.mode = "single", s.at \in {"routing", "new"},
         NEW p \in {"batch", "link"}
  PROVE  Fine(r, {[s EXCEPT !.mode = "chain", !.at = p]})
<1> DEFINE t == [s EXCEPT !.mode = "chain", !.at = p]
<1>1. s \in Request /\ p \in Running
  BY DEF Sound, Running, Asking, Between
<1>2. t \in Request
  BY <1>1, Updated
<1>3. /\ t.at = p /\ t.mode = "chain" /\ t.round = s.round /\ t.stage = s.stage /\ t.phase = s.phase
      /\ t.reads = s.reads /\ Keeps(s, t)
  BY <1>1 DEF Request, Keeps
<1> HIDE DEF t
<1>4. LateInv(t)
  BY <1>1, <1>3, Fresh, CleanKept DEF Sound, Inv, LooksAt, Spent
<1>5. BoundsInv(r, t) /\ ModeInv(t) /\ StackInv(t)
  BY <1>1, <1>3
  DEF Sound, Inv, BoundsInv, ModeInv, StackInv, Keeps, InRounds, InChain, InStages, InPhase
<1>6. QED
  BY <1>1, <1>2, <1>3, <1>4, <1>5 DEF Fine, Sound, Inv, t

LEMMA RouteMoves ==
  ASSUME NEW r \in Requests, Sound(r, req[r]), Route(r)
  PROVE  Moves(r)
<1> DEFINE s == req[r]
           Chained == {[s EXCEPT !.mode = "chain", !.at = p] : p \in {"batch", "link"}}
           S == {Over(s), To(s, "loop")} \cup Chained \cup Shortcuts(s)
<1> USE DEF Running, Asking, Thinking, Calling, Reading, Between
<1>1. s.at = "routing" /\ s.mode = "single"
  BY DEF Route, Sound, Inv, ModeInv
<1>2. Fine(r, {Over(s)}) /\ Fine(r, {To(s, "loop")}) /\ Fine(r, Chained) /\ Fine(r, Shortcuts(s))
  <2>1. Room(r, s, "loop") /\ Room(r, s, "shortcut")
    BY <1>1 DEF Room, InRounds, InPhase, InChain, InStages
  <2>2. Fine(r, {To(s, "loop")}) /\ Fine(r, {Call(s, "shortcut")})
    BY <1>1, <2>1, ToFine DEF Onward, LooksAt, Spent, Fine
  <2>3. Fine(r, {HeedlessCall(s, "shortcut")})
    BY <1>1, <2>1, HeedlessFine
  <2>4. Fine(r, Chained)
    <3>1. ASSUME NEW p \in {"batch", "link"}
          PROVE  Fine(r, {[s EXCEPT !.mode = "chain", !.at = p]})
      BY <1>1, ChainFine
    <3>2. QED
      BY <3>1 DEF Fine
  <2>5. QED
    BY <2>2, <2>3, <2>4, OverFine DEF Fine, Shortcuts
<1>3. Fine(r, S)
  BY <1>2 DEF Fine
<1>4. CASE Step(r, S)
  BY <1>1, <1>3, <1>4, StepMoves
<1>5. CASE /\ req' = [req EXCEPT ![r] = Over(s)]
           /\ question' = [question EXCEPT ![ViewOf[r]] = @ \cup {"directory"}]
           /\ UNCHANGED <<choiceVars, runDepth, externalConsent, historyVars>>
  BY <1>1, <1>2, <1>5 DEF Moves, Fine, historyVars, choiceVars, ChoiceTypeOK
<1>6. QED
  BY <1>4, <1>5 DEF Route

LEMMA ShortcutMoves ==
  ASSUME NEW r \in Requests, Sound(r, req[r]), ShortcutReturns(r)
  PROVE  Moves(r)
<1> DEFINE s == Idle(req[r])
           u == [s EXCEPT !.stage = @ + 1]
<1> USE DEF Running, Asking, Thinking, Calling, Reading, Between
<1>1. req[r].at = "shortcut" /\ s.at = "shortcut" /\ s.mode = "single" /\ Sound(r, s) /\ s \in Request
  BY IdleSound DEF ShortcutReturns, Sound, Inv, ModeInv
<1> HIDE DEF s
<1>2. Fine(r, {Over(s), To(s, "loop")})
  BY <1>1, OverFine, ToFine DEF Fine, Room, InRounds, InPhase, InChain, InStages, Onward, LooksAt, Spent
<1>3. CASE s.stage < MaxParts[r]
  <2>1. u \in Request
    <3>1. s.stage + 1 \in Nat
      BY <1>1, FieldTypes
    <3>2. QED
      BY <1>1, <3>1, Updated
  <2>2. /\ u.at = "shortcut" /\ u.mode = "single" /\ u.round = s.round /\ u.phase = s.phase
        /\ u.stage = s.stage + 1 /\ u.reads = s.reads /\ Keeps(s, u)
    BY <1>1 DEF Request, Keeps
  <2> HIDE DEF u
  <2>3. Sound(r, u)
    <3>1. LateInv(u)
      BY <1>1, <2>2, Fresh, CleanKept DEF Sound, Inv, LooksAt, Spent
    <3>2. u.stage <= MaxParts[r]
      BY <1>1, <1>3, <2>2, FieldTypes, Constants
    <3>3. BoundsInv(r, u) /\ ModeInv(u) /\ StackInv(u)
      BY <1>1, <2>2, <3>2
      DEF Sound, Inv, BoundsInv, ModeInv, StackInv, Keeps, InRounds, InChain, InStages, InPhase
    <3>4. QED
      BY <2>1, <3>1, <3>3 DEF Sound, Inv
  <2>4. Room(r, u, "shortcut")
    BY <2>2 DEF Room, InRounds, InPhase, InChain, InStages
  <2>5. Fine(r, Shortcuts(u))
    <3>1. Onward(u, "shortcut") /\ "shortcut" \in Running \ {"sent", "last"}
      BY <2>2 DEF Onward, LooksAt, Spent
    <3>2. Fine(r, {To(u, "shortcut"), Call(u, "shortcut")})
      BY <2>3, <2>4, <3>1, ToFine
    <3>3. Fine(r, {HeedlessCall(u, "shortcut")})
      BY <2>3, <2>4, <3>1, HeedlessFine
    <3>4. QED
      BY <3>2, <3>3 DEF Fine, Shortcuts
  <2>6. Fine(r, {Over(s), To(s, "loop")} \cup Shortcuts(u))
    BY <1>2, <2>5 DEF Fine
  <2>7. QED
    BY <1>1, <1>3, <2>6, StepMoves DEF ShortcutReturns, s, u
<1>4. CASE ~(s.stage < MaxParts[r])
  BY <1>1, <1>2, <1>4, StepMoves DEF ShortcutReturns, s
<1>5. QED
  BY <1>3, <1>4

LEMMA DispatchedFine ==
  ASSUME NEW r \in Requests, NEW s, Sound(r, s), s.at \in {"stage", "precheck"}, s.stage < MaxParts[r]
  PROVE  Fine(r, Dispatched(s))
<1>1. s.mode \in {"stages", "intents"}
  BY DEF Sound, Inv, ModeInv, InStages
<1>2. Fine(r, {To(s, "loop")})
  BY <1>1, ToFine
  DEF Fine, Room, InRounds, InPhase, InChain, InStages, Onward, LooksAt, Spent, Running, Between
<1>3. Fine(r, {HeedlessCall(s, "direct")})
  BY <1>1, HeedlessFine DEF Room, InRounds, InPhase, InChain, InStages, Running, Calling
<1>4. QED
  BY <1>2, <1>3 DEF Fine, Dispatched

LEMMA NextStageFine ==
  ASSUME NEW r \in Requests, NEW s, Sound(r, s), s.at \in {"precheck", "direct"}
  PROVE  Fine(r, {NextStage(s)})
<1>1. s.mode \in {"stages", "intents"}
  BY DEF Sound, Inv, ModeInv, InStages
<1>2. QED
  BY <1>1, LoopEndsFine DEF LoopEnds, LooksAt, Spent

LEMMA StageMoves ==
  ASSUME NEW r \in Requests, Sound(r, req[r]), Stage(r)
  PROVE  Moves(r)
<1> DEFINE s == req[r]
<1>1. s.at = "stage" /\ s.mode \in {"stages", "intents"} /\ s.at \in Running
  BY DEF Stage, Sound, Inv, ModeInv, InStages, Running, Between
<1>2. CASE (s.mode = "intents" /\ s.stopped) \/ s.stage = MaxParts[r]
  BY <1>1, <1>2, OverFine, StepMoves DEF Stage
<1>3. CASE ~((s.mode = "intents" /\ s.stopped) \/ s.stage = MaxParts[r])
  <2>1. s.stage < MaxParts[r]
    BY <1>3, FieldTypes, Constants DEF Sound, Inv, BoundsInv
  <2>2. Room(r, s, "precheck") /\ "precheck" \in Running \ {"sent", "last"}
    BY <1>1, <2>1 DEF Room, InRounds, InPhase, InChain, InStages, Running, Calling
  <2>3. s.mode = "intents" => Clean(s)
    BY <1>3, Fresh DEF Sound, Inv
  <2>4. Fine(r, {StageCall(s, "precheck")})
    BY <1>1, <2>3, <2>2, ToFine, HeedlessFine DEF StageCall, Fine
  <2>5. Fine(r, {StageCall(s, "precheck")} \cup Dispatched(s))
    BY <1>1, <2>1, <2>4, DispatchedFine DEF Fine
  <2>6. QED
    BY <1>1, <1>3, <2>5, StepMoves DEF Stage
<1>4. QED
  BY <1>2, <1>3

LEMMA PrecheckMoves ==
  ASSUME NEW r \in Requests, Sound(r, req[r]), PrecheckReturns(r) \/ DirectReturns(r)
  PROVE  Moves(r)
<1> DEFINE s == Idle(req[r])
<1>1. /\ req[r].at \in {"precheck", "direct"} /\ s.at = req[r].at /\ Sound(r, s)
      /\ req[r].at \in Running
  BY IdleSound DEF PrecheckReturns, DirectReturns, Running, Calling
<1>2. s.stage < MaxParts[r]
  BY <1>1 DEF Sound, Inv, BoundsInv, ModeInv, InStages
<1> HIDE DEF s
<1>3. Fine(r, {Over(s), NextStage(s)})
  BY <1>1, OverFine, NextStageFine DEF Fine
<1>4. CASE PrecheckReturns(r)
  <2>1. s.at = "precheck"
    BY <1>1, <1>4 DEF PrecheckReturns
  <2>2. Fine(r, {Over(s), NextStage(s)} \cup Dispatched(s))
    BY <1>1, <1>2, <1>3, <2>1, DispatchedFine DEF Fine
  <2>3. QED
    BY <1>1, <1>4, <2>2, StepMoves DEF PrecheckReturns, s
<1>5. CASE DirectReturns(r)
  BY <1>1, <1>3, <1>5, StepMoves DEF DirectReturns, s
<1>6. QED
  BY <1>4, <1>5

(* A place of the rounds, or none of a chain                               *)
LEMMA NotChained ==
  ASSUME NEW r \in Requests, NEW s, Sound(r, s), s.at \notin InChain \cup {"paneAsk", "over"}
  PROVE  s.mode # "chain"
  BY DEF Sound, Inv, ModeInv

LEMMA RoundsFine ==
  ASSUME NEW r \in Requests, NEW s, Sound(r, s), s.at \in InRounds, NEW p \in InRounds \ {"sent"},
         Clean(s) \/ Onward(s, p)
  PROVE  Fine(r, {To(s, p), Call(s, p)})
<1>1. p \in Running \ {"sent", "last"}
  BY DEF InRounds, Running, Asking, Thinking, Calling, Reading, Between
<1>2. Room(r, s, p)
  BY NotChained DEF Room, Sound, Inv, BoundsInv, ModeInv, InRounds, InPhase, InChain, InStages
<1>3. QED
  BY <1>1, <1>2, ToFine

(* What precedes the look-ups of a round begins nothing of its own.        *)
LEMMA RoundClean ==
  ASSUME NEW r \in Requests, NEW s, Sound(r, s),
         s.at \in {"model", "repair", "offer", "asked", "refused", "sent", "checked"}
  PROVE  Clean(s)
  BY Fresh DEF Sound, Inv, LooksAt, Spent

LEMMA WithTheModelFine ==
  ASSUME NEW r \in Requests, NEW s, Sound(r, s), s.at \in {"loop", "reading"}
  PROVE  Fine(r, WithTheModel(s))
<1>1. s.mode \notin {"chain", "answer"}
  BY DEF Sound, Inv, ModeInv, InChain, InPhase
<1>2. Fine(r, {To(s, "planning"), To(s, "round")})
  BY <1>1, ToFine
  DEF Fine, Room, Sound, Inv, BoundsInv, InRounds, InPhase, InChain, InStages, Onward, LooksAt, Spent,
      Running, Thinking, Between
<1>3. Fine(r, {Over(s)}) /\ Fine(r, {Call(s, "last")})
  BY <1>1, OverFine, LastFine DEF Spent
<1>4. QED
  BY <1>2, <1>3 DEF Fine, WithTheModel

LEMMA EnterLoopMoves ==
  ASSUME NEW r \in Requests, Sound(r, req[r]), EnterLoop(r)
  PROVE  Moves(r)
<1> DEFINE s == req[r]
           t == [s EXCEPT !.mode = "intents", !.at = "stage"]
           S == Reads(r, s, "reading") \cup WithTheModel(s)
<1>1. s.at = "loop" /\ s.at \in Running /\ s \in Request /\ s.mode \notin {"chain", "answer"}
  BY DEF EnterLoop, Sound, Inv, ModeInv, Running, Between, InChain, InPhase
<1>2. Fine(r, Reads(r, s, "reading"))
  <2>1. Room(r, s, "reading")
    BY <1>1 DEF Room, Sound, Inv, BoundsInv, InRounds, InPhase, InChain, InStages
  <2>2. QED
    BY <1>1, <2>1, ReadsFine DEF Reading, LooksAt, Spent
<1>3. Fine(r, S)
  BY <1>1, <1>2, WithTheModelFine DEF Fine
<1>4. CASE s.mode = "single"
  <2>1. t \in Request
    BY <1>1, Updated DEF Running, Between
  <2>2. /\ t.at = "stage" /\ t.mode = "intents" /\ t.round = s.round /\ t.stage = s.stage
        /\ t.phase = s.phase /\ t.reads = s.reads /\ Keeps(s, t)
    BY <1>1 DEF Request, Keeps
  <2> HIDE DEF t
  <2>3. LateInv(t)
    <3>1. CASE Clean(s)
      BY <2>2, <3>1, CleanKept
    <3>2. CASE Looking(s)
      BY <1>1, <2>2, <3>2 DEF LateInv, Looking, LooksAt, Keeps
    <3>3. QED
      BY <1>1, <3>1, <3>2 DEF Sound, Inv, LateInv, Retrying, Spent
  <2>4. BoundsInv(r, t) /\ ModeInv(t) /\ StackInv(t)
    BY <1>1, <2>2
    DEF Sound, Inv, BoundsInv, ModeInv, StackInv, Keeps, InRounds, InChain, InStages, InPhase
  <2>5. Fine(r, S \cup {t})
    BY <1>3, <2>1, <2>2, <2>3, <2>4 DEF Fine, Sound, Inv, Running, Between
  <2>6. QED
    BY <1>1, <1>4, <2>5, StepMoves DEF EnterLoop, t
<1>5. CASE s.mode # "single"
  BY <1>1, <1>3, <1>5, StepMoves DEF EnterLoop
<1>6. QED
  BY <1>4, <1>5

LEMMA FileReadMoves ==
  ASSUME NEW r \in Requests, Sound(r, req[r]), FileRead(r)
  PROVE  Moves(r)
<1> DEFINE s == req[r]
<1>1. s.at = "reading" /\ s.at \in Running /\ s.mode \notin {"chain", "answer"}
  BY DEF FileRead, Sound, Inv, ModeInv, Running, Calling, Reading, InChain, InPhase
<1>2. Fine(r, Reads(r, s, "reading"))
  <2>1. Room(r, s, "reading")
    BY <1>1 DEF Room, Sound, Inv, BoundsInv, InRounds, InPhase, InChain, InStages
  <2>2. QED
    BY <1>1, <2>1, ReadsFine DEF Reading, Spent
<1>3. Fine(r, WithTheModel(Idle(s)))
  BY <1>1, IdleSound, WithTheModelFine
<1>4. Fine(r, Reads(r, s, "reading") \cup WithTheModel(Idle(s)))
  BY <1>2, <1>3 DEF Fine
<1>5. QED
  BY <1>1, <1>4, StepMoves DEF FileRead

LEMMA RoundMoves ==
  ASSUME NEW r \in Requests, Sound(r, req[r]), Round(r)
  PROVE  Moves(r)
<1> DEFINE s == req[r]
<1>1. s.at = "round" /\ s.at \in Running /\ s \in Request /\ s.mode # "chain"
  BY NotChained DEF Round, Sound, Running, Between, InChain
<1>2. CASE s.stopped
  BY <1>1, <1>2, OverFine, StepMoves DEF Round
<1>3. ~s.stopped => Clean(s)
  BY Fresh DEF Sound, Inv
<1>4. CASE ~s.stopped /\ s.round = MaxSteps[r]
  <2>1. Fine(r, LoopEndsAnyhow(s))
    BY <1>1, <1>4, <1>3, LoopEndsFine DEF LoopEndsAnyhow, Fine, Spent
  <2>2. QED
    BY <1>1, <1>4, <2>1, StepMoves DEF Round
<1>5. CASE ~s.stopped /\ s.round # MaxSteps[r]
  <2>1. s.round < MaxSteps[r]
    BY <1>1, <1>5, FieldTypes, Constants DEF Sound, Inv, BoundsInv
  <2>2. Room(r, s, "model")
    BY <1>1, <2>1 DEF Room, Sound, Inv, BoundsInv, ModeInv, InRounds, InPhase, InChain, InStages
  <2>3. Fine(r, {To(s, "model")})
    BY <1>5, <1>3, <2>2, ToFine DEF Fine, Running, Thinking
  <2>4. QED
    BY <1>1, <1>5, <2>3, StepMoves DEF Round
<1>6. QED
  BY <1>1, <1>2, <1>4, <1>5, FieldTypes

LEMMA ModelMoves ==
  ASSUME NEW r \in Requests, Sound(r, req[r]), ModelReplies(r)
  PROVE  Moves(r)
<1> DEFINE s == req[r]
<1>1. s.at = "model" /\ s.at \in Running /\ s.at \in InRounds /\ s.at \notin {"stage", "over"} \cup Spent
      /\ s.mode \notin {"chain", "answer"} /\ Clean(s)
  BY RoundClean DEF ModelReplies, Running, Thinking, InRounds, InChain, InPhase, Spent, Sound, Inv, ModeInv
<1>2. Fine(r, {To(s, "checked")}) /\ Fine(r, {To(s, "repair")})
  BY <1>1, RoundsFine DEF InRounds, Fine
<1>3. Fine(r, LoopEndsAnyhow(s)) /\ Fine(r, {Continue(s)}) /\ Fine(r, {Call(s, "last")})
  BY <1>1, LoopEndsFine, ContinueFine, LastFine DEF LoopEndsAnyhow, Fine
<1>4. Fine(r, LoopEndsAnyhow(s) \cup {Continue(s), Call(s, "last"), To(s, "checked"), To(s, "repair")})
  BY <1>2, <1>3 DEF Fine
<1>5. QED
  BY <1>1, <1>4, StepMoves DEF ModelReplies

LEMMA RepairedMoves ==
  ASSUME NEW r \in Requests, Sound(r, req[r]), Repaired(r)
  PROVE  Moves(r)
<1> DEFINE s == req[r]
           Offers == {[s EXCEPT !.at = "offer", !.gated = g] : g \in BOOLEAN}
<1>1. s.at = "repair" /\ s.at \in Running /\ s.at \in InRounds /\ s.at \notin {"stage", "over"} \cup Spent
      /\ s \in Request /\ Clean(s)
  BY RoundClean DEF Repaired, Running, Thinking, InRounds, Spent, Sound
<1>2. Fine(r, {To(s, "checked")}) /\ Fine(r, {Over(s)}) /\ Fine(r, {LoopEnds(s, TRUE)})
  BY <1>1, RoundsFine, OverFine, LoopEndsFine DEF InRounds, Fine
<1>3. ASSUME NEW g \in BOOLEAN
      PROVE  Fine(r, {[s EXCEPT !.at = "offer", !.gated = g]})
  <2> DEFINE t == [s EXCEPT !.at = "offer", !.gated = g]
  <2>1. t \in Request
    BY <1>1, Updated DEF Running, Between
  <2>2. t.at = "offer" /\ Same(s, t) /\ Keeps(s, t)
    BY <1>1 DEF Request, Same, Keeps
  <2> HIDE DEF t
  <2>3. Room(r, s, "offer") /\ "offer" \in Running \ {"sent"}
    BY <1>1, NotChained
    DEF Room, Sound, Inv, BoundsInv, ModeInv, InRounds, InPhase, InChain, InStages, Running, Between
  <2>4. LateInv(t)
    BY <1>1, <2>2, CleanKept
  <2>5. BoundsInv(r, t) /\ ModeInv(t) /\ StackInv(t)
    BY <2>2, <2>3, SameBounds DEF Keeps
  <2>6. QED
    BY <2>1, <2>2, <2>3, <2>4, <2>5 DEF Fine, Sound, Inv, t
<1>4. Fine(r, {Over(s), LoopEnds(s, TRUE), To(s, "checked")} \cup Offers)
  BY <1>2, <1>3 DEF Fine
<1>5. QED
  BY <1>1, <1>4, StepMoves DEF Repaired

LEMMA NoOfferMoves ==
  ASSUME NEW r \in Requests, Sound(r, req[r]), req[r].at \in {"offer", "sent"}, NoOffer(r, req[r])
  PROVE  Moves(r)
<1>1. req[r].at \in Running /\ req[r].at \in InRounds /\ Clean(req[r])
  BY RoundClean DEF Running, Thinking, Between, InRounds
<1>2. Fine(r, {To(req[r], "refused")}) /\ Fine(r, {Over(req[r])})
  BY <1>1, RoundsFine, OverFine DEF InRounds, Fine
<1>3. QED
  BY <1>1, <1>2, StepMoves DEF NoOffer

LEMMA SentSound ==
  ASSUME NEW r \in Requests, NEW s, Sound(r, s), s.at \in {"offer", "asked"}
  PROVE  Sound(r, Sent(s)) /\ Sent(s).at \in {"over", "sent"}
<1>1. CASE s.stopped
  BY <1>1, OverFine, OverFields DEF Sent, Fine, Sound
<1>2. CASE ~s.stopped
  <2> DEFINE t == To(s, "sent")
  <2>1. t \in Request /\ t.at = "sent" /\ Same(s, t) /\ Keeps(s, t)
    BY ToFields DEF Running, Thinking, Sound
  <2> HIDE DEF t
  <2>2. Room(r, s, "sent") /\ "sent" \in Running
    BY NotChained
    DEF Room, Sound, Inv, BoundsInv, ModeInv, InRounds, InPhase, InChain, InStages, Running, Thinking
  <2>3. LateInv(t)
    BY <2>1, RoundClean, CleanKept
  <2>4. BoundsInv(r, t) /\ ModeInv(t) /\ StackInv(t)
    BY <2>1, <2>2, SameBounds DEF Keeps
  <2>5. QED
    BY <1>2, <2>1, <2>3, <2>4 DEF Sent, Sound, Inv, t
<1>3. QED
  BY <1>1, <1>2 DEF Sound, Request

LEMMA OfferMoves ==
  ASSUME NEW r \in Requests, Sound(r, req[r]), Offer(r)
  PROVE  Moves(r)
<1> DEFINE s == req[r]
<1>1. s.at = "offer" /\ s.at \in Running /\ s.at \in InRounds /\ Clean(s)
  BY RoundClean DEF Offer, Running, Between, InRounds
<1>2. CASE NoOffer(r, s)
  BY <1>1, <1>2, NoOfferMoves
<1>3. CASE ViewOf[r] \in externalConsent /\ Step(r, {Sent(s)})
  <2>1. Sound(r, Sent(s)) /\ Sent(s).at \in Running
    BY <1>1, SentSound DEF Running, Thinking, Between
  <2>2. QED
    BY <1>1, <1>3, <2>1 DEF Moves, Step, Goes, loopVars, historyVars, choiceVars, ChoiceTypeOK
<1>4. CASE CanAsk /\ Ask(r) /\ Goes(r, {To(s, "asked")})
  <2>1. Fine(r, {To(s, "asked")})
    BY <1>1, RoundsFine DEF InRounds, Fine
  <2>2. QED
    BY <1>1, <1>4, <2>1, StepMoves
<1>5. QED
  BY <1>2, <1>3, <1>4 DEF Offer

LEMMA ExternalMoves ==
  ASSUME NEW r \in Requests, Sound(r, req[r]), ExternalReplies(r)
  PROVE  Moves(r)
<1> DEFINE s == req[r]
<1>1. s.at = "sent" /\ s.at \in Running /\ s.at \in InRounds /\ s.at \notin {"stage", "over"} \cup Spent
      /\ Clean(s)
  BY RoundClean DEF ExternalReplies, Running, Thinking, InRounds, Spent
<1>2. Fine(r, {Over(s)}) /\ Fine(r, {LoopEnds(s, TRUE)}) /\ Fine(r, {To(s, "checked")})
  BY <1>1, OverFine, LoopEndsFine, RoundsFine DEF InRounds, Fine
<1>3. Fine(r, {Over(s), LoopEnds(s, TRUE), To(s, "checked")})
  BY <1>2 DEF Fine
<1>4. QED
  BY <1>1, <1>3, NoOfferMoves, StepMoves DEF ExternalReplies

LEMMA SpawnFine ==
  ASSUME NEW r \in Requests, NEW s, Sound(r, s), ~s.stopped,
         s.mode = "chain" => s.at \in {"link", "paneAsk"} /\ s.phase < MaxParts[r],
         s.mode # "chain" => s.at \in {"checked", "tried", "paneAsk"}
  PROVE  Fine(r, Spawn(s))
<1> DEFINE t == Spawned(s)
<1>1. s \in Request /\ Begun(s) = s.late /\ Clean(s)
  BY BegunType, Fresh DEF Sound, Inv
<1>2. CASE s.mode = "chain"
  <2>1. t = [s EXCEPT !.at = "link", !.phase = s.phase + 1, !.late = Begun(s)]
    BY <1>2 DEF Spawned
  <2>2. "link" \in Running /\ s.phase + 1 \in Nat /\ Begun(s) \in 0..MaxLate
    BY <1>1, FieldTypes, BegunType DEF Running, Between
  <2>3. t \in Request
    <3> DEFINE a == [s EXCEPT !.at = "link"]
               b == [a EXCEPT !.phase = s.phase + 1]
    <3>1. a \in Request
      BY <1>1, <2>2, Updated
    <3>2. b \in Request
      BY <2>2, <3>1, Updated
    <3>3. [b EXCEPT !.late = Begun(s)] \in Request
      BY <2>2, <3>2, Updated
    <3>4. QED
      BY <2>1, <3>3
  <2>4. /\ t.at = "link" /\ t.mode = s.mode /\ t.round = s.round /\ t.stage = s.stage
        /\ t.phase = s.phase + 1 /\ t.reads = s.reads /\ Keeps(s, t)
    BY <1>1, <2>1 DEF Request, Keeps
  <2> HIDE DEF t
  <2>5. LateInv(t)
    BY <1>1, <2>4, CleanKept
  <2>6. t.phase <= MaxParts[r]
    BY <1>1, <1>2, <2>4, FieldTypes, Constants
  <2>7. BoundsInv(r, t) /\ ModeInv(t) /\ StackInv(t)
    BY <1>2, <2>4, <2>6
    DEF Sound, Inv, BoundsInv, ModeInv, StackInv, Keeps, InRounds, InChain, InStages, InPhase
  <2>8. QED
    BY <2>2, <2>3, <2>4, <2>5, <2>7, OverFine DEF Fine, Sound, Inv, Spawn, t
<1>3. CASE s.mode # "chain"
  <2> DEFINE u == Continue(s)
  <2>1. Sound(r, u) /\ u.at = "round"
    BY <1>1, <1>3, ContinueFine, ContinueFields DEF Fine, InRounds
  <2>2. u.late = s.late
    BY <1>1, ContinueFields DEF Keeps
  <2>3. t = [u EXCEPT !.late = Begun(s)]
    BY <1>3 DEF Spawned
  <2> HIDE DEF u
  <2>4. [u EXCEPT !.late = u.late] = u
    BY <2>1 DEF Sound, Request
  <2>5. t = u
    BY <1>1, <2>2, <2>3, <2>4
  <2>6. QED
    BY <2>1, <2>5, OverFine DEF Fine, Spawn, Running, Between
<1>4. QED
  BY <1>2, <1>3

LEMMA RunInPaneFine ==
  ASSUME NEW r \in Requests, NEW s, Sound(r, s), s.at \in {"link", "checked", "tried"},
         s.mode = "chain" => s.at = "link" /\ s.phase < MaxParts[r],
         s.mode # "chain" => s.at \in {"checked", "tried"}
  PROVE  Fine(r, RunInPane(s))
<1>1. CASE s.stopped
  BY <1>1, OverFine DEF RunInPane
<1>2. CASE ~s.stopped
  <2>1. "paneAsk" \in Running \ {"sent", "last"} /\ Clean(s)
    BY <1>2, Fresh DEF Running, Asking, Sound, Inv
  <2>2. Room(r, s, "paneAsk")
    BY DEF Room, Sound, Inv, BoundsInv, ModeInv, InRounds, InPhase, InChain, InStages
  <2>3. Fine(r, {To(s, "paneAsk")})
    BY <2>1, <2>2, ToFine DEF Fine
  <2>4. Fine(r, Spawn(s))
    BY <1>2, SpawnFine
  <2>5. QED
    BY <1>2, <2>3, <2>4 DEF RunInPane, Fine
<1>3. QED
  BY <1>1, <1>2 DEF Sound, Request

LEMMA DecidedFine ==
  ASSUME NEW r \in Requests, NEW s, Sound(r, s), s.at \in {"checked", "tried"}
  PROVE  Fine(r, Decided(s))
<1>1. s.mode # "chain" /\ s.at \in InRounds
  BY NotChained DEF InChain, InRounds
<1>2. Fine(r, {Continue(s)}) /\ Fine(r, {Over(s)})
  BY <1>1, ContinueFine, OverFine
<1>3. Fine(r, {Continue(Strike(s))})
  BY <1>1, StrikeSound, ContinueFine
<1>4. Fine(r, {Call(s, "running")})
  <2>1. "running" \in InRounds \ {"sent"} /\ Onward(s, "running")
    BY DEF InRounds, Onward, LooksAt, Spent
  <2>2. QED
    BY <1>1, <2>1, RoundsFine DEF Fine
<1>5. Fine(r, RunInPane(s))
  BY <1>1, RunInPaneFine
<1>6. QED
  BY <1>2, <1>3, <1>4, <1>5 DEF Fine, Decided

LEMMA CheckedMoves ==
  ASSUME NEW r \in Requests, Sound(r, req[r]), Checked(r)
  PROVE  Moves(r)
<1> DEFINE s == [req[r] EXCEPT !.gated = FALSE]
<1>1. req[r].at = "checked" /\ req[r] \in Request /\ req[r].at \in Running
  BY DEF Checked, Sound, Running, Between
<1>2. s \in Request
  BY <1>1, Updated
<1>3. s.at = "checked" /\ Same(req[r], s) /\ Keeps(req[r], s)
  BY <1>1 DEF Request, Same, Keeps
<1> HIDE DEF s
<1>4. Sound(r, s)
  <2>1. LateInv(s)
    BY <1>1, <1>3, RoundClean, CleanKept
  <2>2. BoundsInv(r, s) /\ ModeInv(s) /\ StackInv(s)
    BY <1>1, <1>3, Constants DEF Sound, Inv, BoundsInv, ModeInv, StackInv, Same, Keeps
  <2>3. QED
    BY <1>2, <2>1, <2>2 DEF Sound, Inv
<1>5. Room(r, s, "tried") /\ s.mode # "answer"
  BY <1>3, <1>4, NotChained DEF Room, Sound, Inv, BoundsInv, ModeInv, InRounds, InPhase, InChain, InStages
<1>6. Fine(r, Reads(r, s, "tried"))
  BY <1>3, <1>4, <1>5, ReadsFine DEF Reading, LooksAt, Spent
<1>7. Fine(r, Reads(r, s, "tried") \cup Decided(s))
  BY <1>3, <1>4, <1>6, DecidedFine DEF Fine
<1>8. QED
  BY <1>1, <1>7, StepMoves DEF Checked, s

LEMMA TriedMoves ==
  ASSUME NEW r \in Requests, Sound(r, req[r]), Tried(r)
  PROVE  Moves(r)
<1>1. req[r].at = "tried" /\ req[r].at \in Running
  BY DEF Tried, Running, Calling, Reading
<1>2. Fine(r, Decided(Idle(req[r])))
  BY <1>1, IdleSound, DecidedFine
<1>3. QED
  BY <1>1, <1>2, StepMoves DEF Tried

(* A success may end the loop, or reset the strikes and take a round.      *)
LEMMA SucceededFine ==
  ASSUME NEW r \in Requests, NEW s, Sound(r, s), s.at \in {"running", "listed"}
  PROVE  Fine(r, Succeeded(s))
<1> DEFINE u == [s EXCEPT !.strikes = 0]
<1>1. s \in Request /\ s.at \in InRounds /\ s.mode # "chain"
  BY DEF Sound, Inv, ModeInv, InChain, InRounds
<1>2. u \in Request
  <2>1. 0 \in 0..MaxStrikes
    BY Constants
  <2>2. QED
    BY <1>1, <2>1, Updated
<1>3. u.at = s.at /\ u.call = s.call /\ Same(s, u) /\ Keeps(s, u)
  BY <1>1 DEF Request, Same, Keeps
<1> HIDE DEF u
<1>4. Sound(r, u)
  <2>1. LateInv(u)
    BY <1>3 DEF Sound, Inv, LateInv, Clean, Looking, Retrying, Same, Keeps
  <2>2. BoundsInv(r, u) /\ ModeInv(u) /\ StackInv(u)
    BY <1>3, Constants DEF Sound, Inv, BoundsInv, ModeInv, StackInv, Same, Keeps
  <2>3. QED
    BY <1>2, <2>1, <2>2 DEF Sound, Inv
<1>5. Fine(r, {Continue(u)})
  BY <1>1, <1>3, <1>4, ContinueFine DEF Same
<1>6. Fine(r, {LoopEnds(s, TRUE)})
  <2>1. s.at \notin {"stage", "over"} /\ s.at \notin Spent /\ LooksAt(s.at) <= 2
    BY DEF Spent, LooksAt
  <2>2. QED
    BY <2>1, LoopEndsFine
<1>7. QED
  BY <1>5, <1>6 DEF Fine, Succeeded, u

LEMMA RunningMoves ==
  ASSUME NEW r \in Requests, Sound(r, req[r]), RunningReturns(r)
  PROVE  Moves(r)
<1> DEFINE s == Idle(req[r])
<1>1. req[r].at = "running" /\ req[r].at \in Running /\ s.at = "running" /\ Sound(r, s)
  BY IdleSound DEF RunningReturns, Running, Calling
<1> HIDE DEF s
<1>2. Fine(r, Succeeded(s)) /\ Fine(r, {Over(s)})
  BY <1>1, SucceededFine, OverFine
<1>3. Fine(r, {To(s, "smart")})
  <2>1. "smart" \in InRounds \ {"sent"} /\ s.at \in InRounds /\ Onward(s, "smart")
    BY <1>1 DEF InRounds, Onward, LooksAt, Spent
  <2>2. QED
    BY <1>1, <2>1, RoundsFine DEF Fine
<1>4. QED
  BY <1>1, <1>2, <1>3, StepMoves DEF RunningReturns, s

LEMMA LooksUpFine ==
  ASSUME NEW r \in Requests, NEW s, Sound(r, s), s.at \in {"smart", "listed"}
  PROVE  Fine(r, Reads(r, s, "listed")) /\ Fine(r, {To(s, "guess")})
<1>1. s.mode \notin {"chain", "answer"} /\ s.at \in InRounds
  BY DEF Sound, Inv, ModeInv, InChain, InPhase, InRounds
<1>2. Room(r, s, "listed")
  BY <1>1 DEF Room, Sound, Inv, BoundsInv, InRounds, InPhase, InChain, InStages
<1>3. Fine(r, Reads(r, s, "listed"))
  BY <1>1, <1>2, ReadsFine DEF Reading, LooksAt, Spent
<1>4. "guess" \in InRounds \ {"sent"} /\ Onward(s, "guess")
  BY DEF InRounds, Onward, LooksAt, Spent
<1>5. QED
  BY <1>1, <1>3, <1>4, RoundsFine DEF Fine

LEMMA SmartMoves ==
  ASSUME NEW r \in Requests, Sound(r, req[r]), SmartFallback(r)
  PROVE  Moves(r)
<1> DEFINE s == req[r]
<1>1. s.at = "smart" /\ s.at \in Running /\ s.mode \notin {"chain", "answer"}
  BY DEF SmartFallback, Running, Between, Sound, Inv, ModeInv, InChain, InPhase
<1>2. Fine(r, Reads(r, s, "listed")) /\ Fine(r, {To(s, "guess")})
  BY <1>1, LooksUpFine
<1>3. Fine(r, Failed(r, s)) /\ Fine(r, {Call(s, "last")})
  BY <1>1, FailedFine, LastFine DEF Spent
<1>4. Fine(r, Failed(r, s) \cup Reads(r, s, "listed") \cup {Call(s, "last")})
  BY <1>2, <1>3 DEF Fine
<1>5. QED
  BY <1>1, <1>2, <1>4, StepMoves DEF SmartFallback

LEMMA ListingMoves ==
  ASSUME NEW r \in Requests, Sound(r, req[r]), ListingReturns(r)
  PROVE  Moves(r)
<1> DEFINE s == Idle(req[r])
           S == Reads(r, req[r], "listed") \cup Failed(r, s) \cup Succeeded(s)
<1>1. req[r].at = "listed" /\ req[r].at \in Running /\ s.at = "listed" /\ Sound(r, s)
  BY IdleSound DEF ListingReturns, Running, Calling, Reading
<1> HIDE DEF s
<1>2. Fine(r, Failed(r, s)) /\ Fine(r, Succeeded(s))
  BY <1>1, FailedFine, SucceededFine
<1>3. Fine(r, Reads(r, req[r], "listed")) /\ Fine(r, {To(s, "guess")})
  BY <1>1, LooksUpFine
<1>4. Fine(r, S)
  BY <1>2, <1>3 DEF Fine
<1>5. QED
  BY <1>1, <1>3, <1>4, StepMoves DEF ListingReturns, s

LEMMA SourceMoves ==
  ASSUME NEW r \in Requests, Sound(r, req[r]), SourceRead(r)
  PROVE  Moves(r)
<1> DEFINE s == req[r]
<1>1. s.at = "sources" /\ s.at \in Running /\ s.mode \notin {"chain", "answer"}
  BY DEF SourceRead, Running, Calling, Reading, Sound, Inv, ModeInv, InChain, InPhase
<1>2. Fine(r, Reads(r, s, "sources"))
  <2>1. Room(r, s, "sources")
    BY <1>1 DEF Room, Sound, Inv, BoundsInv, InRounds, InPhase, InChain, InStages
  <2>2. QED
    BY <1>1, <2>1, ReadsFine DEF Reading, Spent
<1>3. Fine(r, {Continue(Idle(s))})
  BY <1>1, IdleSound, ContinueFine DEF InRounds
<1>4. Fine(r, Reads(r, s, "sources") \cup {Continue(Idle(s))})
  BY <1>2, <1>3 DEF Fine
<1>5. QED
  BY <1>1, <1>4, StepMoves DEF SourceRead

LEMMA LastMoves ==
  ASSUME NEW r \in Requests, Sound(r, req[r]), LastReturns(r)
  PROVE  Moves(r)
<1> DEFINE s == Idle(req[r])
<1>1. req[r].at = "last" /\ req[r].at \in Running
  BY DEF LastReturns, Running, Calling
<1>2. CASE Clean(req[r])
  <2>1. Sound(r, s) /\ s.at = "last" /\ Clean(s)
    BY <1>1, <1>2, IdleSound, IdleFields, CleanKept DEF Sound
  <2> HIDE DEF s
  <2>2. \A b : Fine(r, {LoopEnds(s, b)})
    BY <2>1, LoopEndsFine DEF Spent
  <2>3. QED
    BY <1>1, <2>2, StepMoves DEF LastReturns, s
<1>3. CASE Looking(req[r])
  <2>1. Results(req[r]) = {"cancelled"}
    BY <1>1, <1>3 DEF Looking, Results
  <2>2. s \in Request /\ s.reads <= MaxReads[r] /\ Ended(s)
    <3>1. Ended(req[r])
      BY LateEnds DEF Sound, Inv
    <3>2. Keeps(req[r], s)
      BY IdleFields DEF Sound
    <3>3. QED
      BY <3>1, <3>2, IdleBounds DEF Ended, Clean, Keeps, BoundsInv
  <2> HIDE DEF s
  <2>3. Fine(r, {LoopEnds(s, "cancelled" = "ok")})
    BY <2>2, OverEnds DEF LoopEnds
  <2>4. QED
    BY <1>1, <2>1, <2>3, StepMoves DEF LastReturns, s
<1>4. QED
  BY <1>1, <1>2, <1>3 DEF Sound, Inv, LateInv, Retrying, Spent

-----------------------------------------------------------------------------
(* Plans                                                                   *)

(* A phase whose stack was changed and that has not moved yet              *)
Nearly(r, s) == s \in Request /\ (Clean(s) \/ Retrying(s)) /\ BoundsInv(r, s) /\ ModeInv(s)

LEMMA NearlyThere ==
  ASSUME NEW r \in Requests, NEW s, Sound(r, s),
         s.at \in {"main", "sub", "retry"} \/ (s.at = "phase" /\ ~Stopped(s))
  PROVE  Nearly(r, s) /\ (s.at \in {"phase", "main"} => Clean(s))
<1>1. CASE s.at = "phase"
  BY <1>1, Fresh DEF Nearly, Sound, Inv, Stopped
<1>2. CASE s.at # "phase"
  <2>1. Looking(s) => Clean(s)
    BY <1>2, FieldTypes, Constants DEF Sound, Looking, LooksAt, Clean
  <2>2. QED
    BY <1>2, <2>1 DEF Nearly, Sound, Inv, LateInv, Retrying, Spent
<1>3. QED
  BY <1>1, <1>2

LEMMA PhaseReturnsFine ==
  ASSUME NEW r \in Requests, NEW s, Nearly(r, s), s.at \in {"phase", "main", "sub", "retry"},
         s.phase < MaxParts[r]
  PROVE  Fine(r, {PhaseReturns(s)})
<1>1. s \in Request /\ s.mode # "chain"
  BY DEF Nearly, ModeInv, InChain
<1>2. CASE s.subs = <<>>
  <2> DEFINE t == [s EXCEPT !.at = "phase", !.phase = s.phase + 1]
  <2>1. "phase" \in Running /\ s.phase + 1 \in Nat
    BY <1>1, FieldTypes DEF Running, Between
  <2>2. t \in Request
    BY <1>1, <2>1, Updated
  <2>3. /\ t.at = "phase" /\ t.mode = s.mode /\ t.round = s.round /\ t.stage = s.stage
        /\ t.phase = s.phase + 1 /\ t.reads = s.reads /\ Keeps(s, t)
    BY <1>1 DEF Request, Keeps
  <2>4. t = PhaseReturns(s)
    BY <1>2 DEF PhaseReturns
  <2> HIDE DEF t
  <2>5. LateInv(t)
    BY <2>3, CleanKept DEF Nearly, LateInv, Retrying, Keeps, Spent
  <2>6. t.phase <= MaxParts[r]
    BY <1>1, <2>3, FieldTypes, Constants
  <2>7. BoundsInv(r, t) /\ ModeInv(t) /\ StackInv(t)
    BY <1>1, <2>3, <2>6
    DEF Nearly, BoundsInv, ModeInv, StackInv, Keeps, InRounds, InChain, InStages, InPhase
  <2>8. QED
    BY <2>1, <2>2, <2>3, <2>4, <2>5, <2>7 DEF Fine, Sound, Inv
<1>3. CASE s.subs # <<>>
  <2> DEFINE t == To(s, "sub")
  <2>1. t \in Request /\ t.at = "sub" /\ Same(s, t) /\ Keeps(s, t) /\ "sub" \in Running
    BY <1>1, ToFields DEF Running, Between
  <2>2. t = PhaseReturns(s)
    BY <1>3 DEF PhaseReturns
  <2> HIDE DEF t
  <2>3. LateInv(t)
    BY <2>1, CleanKept DEF Nearly, LateInv, Retrying, Keeps, Same, Spent
  <2>4. BoundsInv(r, t) /\ ModeInv(t) /\ StackInv(t)
    BY <1>1, <1>3, <2>1, Constants
    DEF Nearly, BoundsInv, ModeInv, StackInv, Keeps, Same, InRounds, InChain, InStages, InPhase
  <2>5. QED
    BY <2>1, <2>2, <2>3, <2>4 DEF Fine, Sound, Inv
<1>4. QED
  BY <1>2, <1>3

LEMMA RetryFine ==
  ASSUME NEW r \in Requests, NEW s, Nearly(r, s), s.at \in {"main", "sub"},
         s.phase < MaxParts[r], Clean(s) \/ s.late + Len(s.subs) <= MaxDepth
  PROVE  Fine(r, {Retry(s)})
<1> DEFINE t == Retry(s)
<1>1. s \in Request /\ s.mode # "chain" /\ "retry" \in Running \ {"sent"}
  BY DEF Nearly, ModeInv, InChain, Running, Calling
<1>2. /\ t \in Request /\ t.at = "retry" /\ Same(s, t) /\ t.subs = s.subs /\ t.stopped = s.stopped
      /\ t.looks = s.looks
  BY <1>1, HeedlessFields, DeafFields DEF Retry
<1>3. LateInv(t)
  <2>1. CASE s.mode = "answer"
    <3>1. t.late = s.late /\ t.heedless = (s.heedless \/ s.stopped)
      BY <1>1, <2>1, HeedlessFields DEF Retry
    <3>2. QED
      BY <1>1, <1>2, <2>1, <3>1, FieldTypes DEF Nearly, LateInv, Clean, Retrying
  <2>2. CASE s.mode # "answer"
    <3>1. t.late = Begun(s) /\ t.heedless = s.heedless
      BY <1>1, <2>2, DeafFields DEF Retry
    <3>2. /\ Len(s.subs) \in Nat /\ s.late \in Nat /\ Begun(s) \in Nat /\ Begun(s) <= s.late + 1
          /\ ~s.stopped \/ s.heedless => Begun(s) = s.late
      BY <1>1, FieldTypes, Constants, BegunType
    <3> HIDE DEF t
    <3>3. CASE s.heedless
      BY <3>1, <3>3 DEF LateInv, Clean
    <3>4. CASE ~s.stopped
      BY <1>2, <3>1, <3>2, <3>4 DEF Nearly, LateInv, Clean, Retrying
    <3>5. CASE s.stopped /\ ~s.heedless
      <4>1. s.looks = 0 /\ s.late + Len(s.subs) <= MaxDepth
        <5>1. Len(s.subs) <= MaxDepth
          BY DEF Nearly, BoundsInv
        <5>2. QED
          BY <3>2, <3>5, <5>1 DEF Nearly, Clean, Retrying
      <4>2. t.late + Len(t.subs) <= MaxDepth + 1
        BY <1>2, <3>1, <3>2, <4>1, Constants
      <4>3. QED
        BY <1>2, <2>2, <3>5, <4>1, <4>2 DEF LateInv, Retrying, Spent, Same
    <3>6. QED
      BY <1>1, <3>3, <3>4, <3>5, FieldTypes
  <2>3. QED
    BY <2>1, <2>2
<1> HIDE DEF t
<1>4. BoundsInv(r, t) /\ ModeInv(t) /\ StackInv(t)
  BY <1>1, <1>2, Constants
  DEF Nearly, BoundsInv, ModeInv, StackInv, Same, InRounds, InChain, InStages, InPhase
<1>5. QED
  BY <1>1, <1>2, <1>3, <1>4 DEF Fine, Sound, Inv, t

LEMMA PhaseCallFine ==
  ASSUME NEW r \in Requests, NEW s, Sound(r, s), s.at \in {"phase", "sub"}, s.phase < MaxParts[r], ~Stopped(s)
  PROVE  Fine(r, {PhaseCall(s)})
<1>1. s \in Request /\ s.mode # "chain" /\ "main" \in Running \ {"sent", "last"}
  BY DEF Sound, Inv, ModeInv, InChain, Running, Calling
<1>2. Room(r, s, "main")
  BY <1>1 DEF Room, Sound, Inv, BoundsInv, ModeInv, InRounds, InPhase, InChain, InStages
<1>3. Clean(s)
  BY <1>1, Fresh DEF Sound, Inv, Stopped
<1>4. QED
  BY <1>1, <1>2, <1>3, HeedlessFine, ToFine DEF PhaseCall, Fine

LEMMA PlannedMoves ==
  ASSUME NEW r \in Requests, Sound(r, req[r]), Planned(r)
  PROVE  Moves(r)
<1> DEFINE s == req[r]
<1>1. s.at = "planning" /\ s.at \in Running /\ s \in Request /\ s.mode # "chain"
  BY NotChained DEF Planned, Sound, Running, Thinking, InChain
<1>2. Fine(r, {To(s, "phase")})
  BY <1>1, ToFine
  DEF Fine, Room, Sound, Inv, BoundsInv, ModeInv, InRounds, InPhase, InChain, InStages, Onward, LooksAt,
      Spent, Running, Between
<1>3. Fine(r, {Over(s)})
  BY OverFine
<1>4. CASE Step(r, {To(s, "phase")})
  BY <1>1, <1>2, <1>4, StepMoves
<1>5. CASE /\ req' = [req EXCEPT ![r] = Over(s)]
           /\ question' = [question EXCEPT ![ViewOf[r]] = @ \cup {"plan"}]
           /\ UNCHANGED <<choiceVars, runDepth, externalConsent, historyVars>>
  BY <1>1, <1>3, <1>5 DEF Moves, Fine, historyVars, choiceVars, ChoiceTypeOK
<1>6. QED
  BY <1>4, <1>5 DEF Planned

LEMMA PhaseMoves ==
  ASSUME NEW r \in Requests, Sound(r, req[r]), Phase(r)
  PROVE  Moves(r)
<1> DEFINE s == req[r]
<1>1. s.at = "phase" /\ s.at \in Running
  BY DEF Phase, Running, Between
<1>2. CASE Stopped(s)
  BY <1>1, <1>2, OverFine, StepMoves DEF Phase
<1>3. CASE ~Stopped(s)
  <2>1. Nearly(r, s) /\ Clean(s)
    BY <1>1, <1>3, NearlyThere
  <2>2. Fine(r, LoopEndsAnyhow(s))
    BY <1>1, <2>1, LoopEndsFine DEF LoopEndsAnyhow, Fine
  <2>3. CASE s.phase < MaxParts[r]
    <3>1. Fine(r, {PhaseReturns(s)}) /\ Fine(r, {PhaseCall(s)})
      BY <1>1, <1>3, <2>1, <2>3, PhaseReturnsFine, PhaseCallFine
    <3>2. Fine(r, LoopEndsAnyhow(s) \cup {PhaseReturns(s), PhaseCall(s)})
      BY <2>2, <3>1 DEF Fine
    <3>3. QED
      BY <1>1, <1>3, <2>3, <3>2, StepMoves DEF Phase
  <2>4. CASE ~(s.phase < MaxParts[r])
    BY <1>1, <1>3, <2>2, <2>4, StepMoves DEF Phase
  <2>5. QED
    BY <2>3, <2>4
<1>4. QED
  BY <1>2, <1>3

LEMMA PreparedFine ==
  ASSUME NEW r \in Requests, NEW s, Sound(r, s), s.at = "main"
  PROVE  Fine(r, Prepared(s))
<1>1. s \in Request /\ s.mode # "chain" /\ s.phase < MaxParts[r] /\ Nearly(r, s) /\ Clean(s)
  BY NearlyThere DEF Sound, Inv, BoundsInv, ModeInv, InChain, InPhase
<1>2. Fine(r, {Retry(s)})
  BY <1>1, RetryFine
<1>3. ASSUME NEW n \in 1..2, Len(s.subs) < MaxDepth
      PROVE  Fine(r, {[s EXCEPT !.at = "sub", !.subs = <<n>> \o s.subs]})
  <2> DEFINE q == <<n>> \o s.subs
             t == [s EXCEPT !.at = "sub", !.subs = q]
  <2>1. "sub" \in Running /\ s.subs \in Seq(0..2) /\ <<n>> \in Seq(0..2)
    BY <1>1, FieldTypes DEF Running, Between
  <2>2. q \in Seq(0..2) /\ Len(q) = Len(s.subs) + 1 /\ q # <<>>
    BY <2>1
  <2> HIDE DEF q
  <2>3. t \in Request
    BY <1>1, <2>1, <2>2, Updated
  <2>4. /\ t.at = "sub" /\ Same(s, t) /\ t.subs = q /\ t.late = s.late /\ t.looks = s.looks
        /\ t.heedless = s.heedless
    BY <1>1 DEF Request, Same
  <2> HIDE DEF t
  <2>5. LateInv(t)
    BY <1>1, <2>4 DEF LateInv, Clean
  <2>6. Len(q) <= MaxDepth
    BY <1>1, <1>3, <2>2, FieldTypes, Constants
  <2>7. BoundsInv(r, t) /\ ModeInv(t) /\ StackInv(t)
    BY <1>1, <2>2, <2>4, <2>6, Constants
    DEF Nearly, BoundsInv, ModeInv, StackInv, Same, InRounds, InChain, InStages, InPhase
  <2>8. QED
    BY <2>1, <2>3, <2>4, <2>5, <2>7 DEF Fine, Sound, Inv, t, q
<1>4. QED
  BY <1>2, <1>3 DEF Fine, Prepared

LEMMA MainMoves ==
  ASSUME NEW r \in Requests, Sound(r, req[r]), MainReturns(r)
  PROVE  Moves(r)
<1> DEFINE s == Idle(req[r])
<1>1. req[r].at = "main" /\ req[r].at \in Running /\ s.at = "main" /\ Sound(r, s)
  BY IdleSound DEF MainReturns, Running, Calling
<1> HIDE DEF s
<1>2. Fine(r, {PhaseReturns(s)}) /\ Fine(r, Prepared(s))
  BY <1>1, NearlyThere, PhaseReturnsFine, PreparedFine DEF Sound, Inv, BoundsInv, InPhase
<1>3. Fine(r, {PhaseReturns(s)} \cup Prepared(s)) /\ Fine(r, {PhaseReturns(s)} \cup {})
  BY <1>2 DEF Fine
<1>4. QED
  BY <1>1, <1>3, StepMoves DEF MainReturns, s

LEMMA SubMoves ==
  ASSUME NEW r \in Requests, Sound(r, req[r]), SubPhase(r)
  PROVE  Moves(r)
<1> DEFINE s == req[r]
           popped == [s EXCEPT !.subs = Tail(s.subs)]
           next == [s EXCEPT !.subs = <<Head(s.subs) - 1>> \o Tail(s.subs)]
<1>1. /\ s.at = "sub" /\ s.at \in Running /\ s \in Request /\ s.phase < MaxParts[r]
      /\ s.subs \in Seq(0..2) /\ s.subs # <<>> /\ s.mode # "chain"
  BY NotChained, FieldTypes
  DEF SubPhase, Sound, Inv, BoundsInv, StackInv, InChain, InPhase, Running, Between
<1>2. /\ Head(s.subs) \in 0..2 /\ Tail(s.subs) \in Seq(0..2)
      /\ Len(Tail(s.subs)) + 1 = Len(s.subs) /\ Len(Tail(s.subs)) \in Nat
  BY <1>1
<1>3. popped \in Request
  BY <1>1, <1>2, Updated
<1>4. /\ popped.at = s.at /\ Same(s, popped) /\ popped.late = s.late /\ popped.heedless = s.heedless
      /\ popped.looks = s.looks /\ popped.stopped = s.stopped /\ popped.subs = Tail(s.subs)
  BY <1>1 DEF Request, Same
<1> HIDE DEF popped
<1>5. Nearly(r, popped) /\ (Clean(popped) \/ popped.late + Len(popped.subs) <= MaxDepth)
  <2>1. Clean(s) \/ Retrying(s)
    BY <1>1, NearlyThere DEF Nearly
  <2>2. Clean(s) => Clean(popped)
    BY <1>4 DEF Clean
  <2>3. Retrying(s) => Retrying(popped) /\ popped.late + Len(popped.subs) <= MaxDepth
    <3>1. SUFFICES ASSUME Retrying(s)
                   PROVE  Retrying(popped) /\ popped.late + Len(popped.subs) <= MaxDepth
      OBVIOUS
    <3>2. s.late \in Nat /\ Len(s.subs) \in Nat /\ MaxDepth \in Nat
      BY <1>1, FieldTypes, Constants
    <3>3. popped.late + Len(popped.subs) <= MaxDepth
      BY <1>2, <1>4, <3>1, <3>2 DEF Retrying
    <3>4. popped.late + Len(popped.subs) <= MaxDepth + 1
      BY <1>2, <1>4, <3>2, <3>3
    <3>5. Retrying(popped)
      BY <1>4, <3>1, <3>4 DEF Retrying, Same
    <3>6. QED
      BY <3>3, <3>5
  <2>4. Len(popped.subs) <= MaxDepth
    BY <1>2, <1>4, Constants DEF Sound, Inv, BoundsInv
  <2>5. BoundsInv(r, popped) /\ ModeInv(popped)
    BY <1>1, <1>4, <2>4, Constants DEF Sound, Inv, BoundsInv, ModeInv, Same
  <2>6. QED
    BY <1>3, <2>1, <2>2, <2>3, <2>5 DEF Nearly
<1>6. Fine(r, {Retry(popped)}) /\ Fine(r, {PhaseReturns(popped)})
  BY <1>1, <1>4, <1>5, RetryFine, PhaseReturnsFine DEF Same
<1>7. CASE Head(s.subs) # 0
  <2> DEFINE q == <<Head(s.subs) - 1>> \o Tail(s.subs)
  <2>1. Head(s.subs) - 1 \in 0..2 /\ <<Head(s.subs) - 1>> \in Seq(0..2)
    BY <1>2, <1>7
  <2>2. q \in Seq(0..2) /\ Len(q) = Len(s.subs) /\ q # <<>>
    BY <1>1, <1>2, <2>1
  <2> HIDE DEF q
  <2>3. next \in Request
    BY <1>1, <2>2, Updated DEF q
  <2>4. /\ next.at = s.at /\ Same(s, next) /\ next.late = s.late /\ next.heedless = s.heedless
        /\ next.looks = s.looks /\ next.stopped = s.stopped /\ next.subs = q
    BY <1>1 DEF Request, Same, q
  <2> HIDE DEF next
  <2>5. Sound(r, next)
    <3>1. Clean(s) \/ Retrying(s)
      BY <1>1, NearlyThere DEF Nearly
    <3>2. LateInv(next)
      BY <2>2, <2>4, <3>1 DEF LateInv, Clean, Retrying, Same
    <3>3. BoundsInv(r, next) /\ ModeInv(next) /\ StackInv(next)
      BY <1>1, <2>2, <2>4, Constants DEF Sound, Inv, BoundsInv, ModeInv, StackInv, Same
    <3>4. QED
      BY <2>3, <3>2, <3>3 DEF Sound, Inv
  <2>6. Fine(r, {To(next, "sub")})
    <3>1. Room(r, next, "sub") /\ "sub" \in Running
      BY <1>1, <2>2, <2>4, <2>5
      DEF Room, Sound, Inv, BoundsInv, ModeInv, Same, InRounds, InPhase, InChain, InStages, Running, Between
    <3>2. Onward(next, "sub") /\ "sub" \notin {"sent", "last"}
      BY <1>1, <2>4, LooksType DEF Onward, LooksAt, Spent
    <3>3. Fine(r, {To(next, "sub"), Call(next, "sub")})
      BY <2>5, <3>1, <3>2, ToFine
    <3>4. QED
      BY <3>3 DEF Fine
  <2>7. CASE ~Stopped(s)
    <3>1. Fine(r, {PhaseCall(next)})
      BY <1>1, <2>4, <2>5, <2>7, PhaseCallFine DEF Stopped, Same
    <3>2. Fine(r, {PhaseCall(next), To(next, "sub")})
      BY <2>6, <3>1 DEF Fine
    <3>3. QED
      BY <1>1, <1>7, <2>7, <3>2, StepMoves DEF SubPhase, next
  <2>8. CASE Stopped(s)
    BY <1>1, <1>6, <1>7, <2>8, StepMoves DEF SubPhase, popped
  <2>9. QED
    BY <2>7, <2>8
<1>8. CASE Head(s.subs) = 0
  BY <1>1, <1>6, <1>8, StepMoves DEF SubPhase, popped
<1>9. QED
  BY <1>7, <1>8

LEMMA RetryMoves ==
  ASSUME NEW r \in Requests, Sound(r, req[r]), RetryReturns(r)
  PROVE  Moves(r)
<1>1. req[r].at = "retry" /\ req[r].at \in Running /\ Idle(req[r]).at = "retry" /\ Sound(r, Idle(req[r]))
  BY IdleSound DEF RetryReturns, Running, Calling
<1>2. Fine(r, {PhaseReturns(Idle(req[r]))})
  BY <1>1, NearlyThere, PhaseReturnsFine DEF Sound, Inv, BoundsInv, InPhase
<1>3. QED
  BY <1>1, <1>2, StepMoves DEF RetryReturns

-----------------------------------------------------------------------------
(* Chains, the person                                                      *)

LEMMA LinkMoves ==
  ASSUME NEW r \in Requests, Sound(r, req[r]), Link(r)
  PROVE  Moves(r)
<1> DEFINE s == req[r]
<1>1. s.at = "link" /\ s.at \in Running /\ s.mode = "chain" /\ s \in Request
  BY DEF Link, Sound, Inv, ModeInv, InChain, Running, Between
<1>2. Fine(r, {Over(s)})
  BY OverFine
<1>3. CASE s.stopped \/ s.phase = MaxParts[r]
  BY <1>1, <1>2, <1>3, StepMoves DEF Link
<1>4. CASE ~(s.stopped \/ s.phase = MaxParts[r])
  <2>1. s.phase < MaxParts[r]
    BY <1>1, <1>4, FieldTypes, Constants DEF Sound, Inv, BoundsInv
  <2>2. Room(r, s, "linking")
    BY <1>1, <2>1 DEF Room, Sound, Inv, BoundsInv, InRounds, InPhase, InChain, InStages
  <2>3. Fine(r, {Call(s, "linking")})
    BY <1>1, <2>2, ToFine DEF Fine, Onward, LooksAt, Spent, Running, Calling
  <2>4. Fine(r, RunInPane(s))
    BY <1>1, <2>1, RunInPaneFine
  <2>5. Fine(r, {Over(s), Call(s, "linking")} \cup RunInPane(s))
    BY <1>2, <2>3, <2>4 DEF Fine
  <2>6. QED
    BY <1>1, <1>4, <2>5, StepMoves DEF Link
<1>5. QED
  BY <1>3, <1>4

LEMMA LinkReturnsMoves ==
  ASSUME NEW r \in Requests, Sound(r, req[r]), LinkReturns(r)
  PROVE  Moves(r)
<1> DEFINE s == Idle(req[r])
           t == [s EXCEPT !.at = "link", !.phase = s.phase + 1]
<1>1. /\ req[r].at = "linking" /\ req[r].at \in Running /\ s.at = "linking" /\ Sound(r, s)
      /\ s \in Request /\ s.mode = "chain" /\ s.phase < MaxParts[r]
  BY IdleSound DEF LinkReturns, Running, Calling, Sound, Inv, BoundsInv, ModeInv, InChain
<1> HIDE DEF s
<1>2. "link" \in Running /\ s.phase + 1 \in Nat
  BY <1>1, FieldTypes DEF Running, Between
<1>3. t \in Request
  BY <1>1, <1>2, Updated
<1>4. /\ t.at = "link" /\ t.mode = s.mode /\ t.round = s.round /\ t.stage = s.stage
      /\ t.phase = s.phase + 1 /\ t.reads = s.reads /\ Keeps(s, t)
  BY <1>1 DEF Request, Keeps
<1> HIDE DEF t
<1>5. Inv(r, t)
  <2>1. LateInv(t)
    BY <1>1, <1>4, Fresh, CleanKept DEF Sound, Inv, LooksAt, Spent
  <2>2. t.phase <= MaxParts[r]
    BY <1>1, <1>4, FieldTypes, Constants
  <2>3. BoundsInv(r, t) /\ ModeInv(t) /\ StackInv(t)
    BY <1>1, <1>4, <2>2
    DEF Sound, Inv, BoundsInv, ModeInv, StackInv, Keeps, InRounds, InChain, InStages, InPhase
  <2>4. QED
    BY <2>1, <2>3 DEF Inv
<1>6. Fine(r, {Over(s)}) /\ Fine(r, {Over(s), t})
  BY <1>1, <1>2, <1>3, <1>4, <1>5, OverFine DEF Fine, Sound
<1>7. QED
  BY <1>1, <1>6, StepMoves DEF LinkReturns, s, t

LEMMA ConsentMoves ==
  ASSUME NEW r \in Requests, Sound(r, req[r]), Consent(r)
  PROVE  Moves(r)
<1> DEFINE s == req[r]
<1>1. s \in Request /\ Fine(r, {Over(s)})
  BY OverFine DEF Sound
<1>2. CASE ConsentToBatch(r)
  <2>1. s.at = "batch" /\ s.at \in Running /\ s.mode = "chain"
    BY <1>2 DEF ConsentToBatch, Sound, Inv, ModeInv, InChain, Running, Asking
  <2>2. Fine(r, {To(s, "link")})
    BY <2>1, ToFine
    DEF Fine, Room, Sound, Inv, BoundsInv, InRounds, InPhase, InChain, InStages, Onward, LooksAt, Spent,
        Running, Between
  <2>3. Fine(r, {Over(s), To(s, "link")})
    BY <1>1, <2>2 DEF Fine
  <2>4. QED
    BY <1>2, <2>1, <2>3, StepMoves DEF ConsentToBatch
<1>3. CASE ConsentToPane(r)
  <2>1. s.at = "paneAsk" /\ s.at \in Running
    BY <1>3 DEF ConsentToPane, Running, Asking
  <2>2. CASE s.stopped
    BY <1>1, <1>3, <2>1, <2>2, StepMoves DEF ConsentToPane
  <2>3. CASE ~s.stopped
    <3>1. Fine(r, Spawn(s))
      BY <2>1, <2>3, SpawnFine DEF Sound, Inv, BoundsInv
    <3>2. Fine(r, {Over(s)} \cup Spawn(s))
      BY <1>1, <3>1 DEF Fine
    <3>3. QED
      BY <1>3, <2>1, <2>3, <3>2, StepMoves DEF ConsentToPane
  <2>4. QED
    BY <1>1, <2>2, <2>3, FieldTypes
<1>4. QED
  BY <1>2, <1>3 DEF Consent

LEMMA AnswersMove ==
  ASSUME NEW r \in Requests, NEW v \in Views, Sound(r, req[r]), Answers(v, r)
  PROVE  Moves(r)
<1> DEFINE s == req[r]
<1>1. Fine(r, {Over(s)}) /\ s \in Request
  BY OverFine DEF Sound
<1>2. CASE AnswerOffer(v, r)
  <2>1. s.at = "asked" /\ s.at \in Running /\ s.at \in InRounds /\ Clean(s)
    BY <1>2, RoundClean DEF AnswerOffer, Running, Asking, InRounds
  <2>2. CASE /\ Answer(v, r)
             /\ req' = [req EXCEPT ![r] = Sent(s)]
             /\ externalConsent' = externalConsent \cup {ViewOf[r]}
             /\ yes' = yes \cup {r}
             /\ UNCHANGED <<runDepth, question, alone>>
    <3>1. Sound(r, Sent(s)) /\ Sent(s).at \in Running
      BY <2>1, SentSound DEF Running, Thinking, Between
    <3>2. r \in yes' /\ (ChoiceTypeOK => ChoiceTypeOK')
      BY <2>2 DEF Answer, ChoiceTypeOK
    <3>3. QED
      BY <2>1, <2>2, <3>1, <3>2 DEF Moves
  <2>3. CASE Answer(v, r) /\ Goes(r, {Over(s)})
    BY <1>1, <2>1, <2>3, StepMoves
  <2>4. CASE /\ CanAsk
             /\ dialog' = [dialog EXCEPT ![v] = NoRequest, ![owner] = r]
             /\ UNCHANGED owner
             /\ Goes(r, {To(s, "refused")})
    <3>1. Fine(r, {To(s, "refused")})
      BY <2>1, RoundsFine DEF InRounds, Fine
    <3>2. ChoiceTypeOK => ChoiceTypeOK'
      BY <2>4 DEF ChoiceTypeOK, CanAsk
    <3>3. QED
      BY <2>1, <2>4, <3>1, <3>2 DEF Goes, Moves, Fine, loopVars, historyVars
  <2>5. QED
    BY <1>2, <2>2, <2>3, <2>4 DEF AnswerOffer
<1>3. CASE AnswerRefused(v, r)
  <2>1. s.at = "refused" /\ s.at \in Running /\ s.at \in InRounds /\ Clean(s)
    BY <1>3, RoundClean DEF AnswerRefused, Running, Asking, InRounds
  <2>2. Fine(r, {Over(s), To(s, "checked")})
    BY <1>1, <2>1, RoundsFine DEF InRounds, Fine
  <2>3. QED
    BY <1>3, <2>1, <2>2, StepMoves DEF AnswerRefused
<1>4. CASE AnswerGuess(v, r)
  <2>1. s.at = "guess" /\ s.at \in Running /\ s.mode \notin {"chain", "answer"}
    BY <1>4 DEF AnswerGuess, Running, Asking, Sound, Inv, ModeInv, InChain, InPhase
  <2>2. Fine(r, Failed(r, s)) /\ Fine(r, {Call(s, "last")})
    BY <2>1, FailedFine, LastFine DEF Spent
  <2>3. Fine(r, Failed(r, s) \cup {Call(s, "last")})
    BY <2>2 DEF Fine
  <2>4. QED
    BY <1>4, <2>1, <2>3, StepMoves DEF AnswerGuess
<1>5. QED
  BY <1>2, <1>3, <1>4 DEF Answers

LEMMA StopMoves ==
  ASSUME NEW r \in Requests, Sound(r, req[r]), Stop(r)
  PROVE  Moves(r)
<1> DEFINE s == req[r]
           t == [s EXCEPT !.stopped = TRUE, !.call = IF s.call = "running" THEN "cancelled" ELSE s.call]
<1>1. s \in Request /\ s.at \in Running
  BY DEF Stop, Sound
<1>2. t \in Request
  BY <1>1, Updated, FieldTypes
<1>3. /\ t.at = s.at /\ Same(s, t) /\ t.late = s.late /\ t.looks = s.looks
      /\ t.heedless = s.heedless /\ t.subs = s.subs
  BY <1>1 DEF Request, Same
<1>4. Step(r, {t})
  BY DEF Stop
<1> HIDE DEF t
<1>5. Sound(r, t)
  <2>1. Clean(s)
    BY <1>1, Fresh DEF Stop, Sound, Inv
  <2>2. LateInv(t)
    BY <1>3, <2>1 DEF LateInv, Clean
  <2>3. BoundsInv(r, t) /\ ModeInv(t) /\ StackInv(t)
    BY <1>3, Constants DEF Sound, Inv, BoundsInv, ModeInv, StackInv, Same
  <2>4. QED
    BY <1>2, <2>2, <2>3 DEF Sound, Inv
<1>6. QED
  BY <1>1, <1>3, <1>4, <1>5
  DEF Step, Goes, Moves, choiceVars, loopVars, historyVars, ChoiceTypeOK

LEMMA WorkMoves ==
  ASSUME NEW r \in Requests, Sound(r, req[r]), LoopStep(r) \/ PlanStep(r) \/ ChainStep(r)
  PROVE  Moves(r)
<1>1. CASE LoopStep(r)
  BY <1>1, RouteMoves, ShortcutMoves, StageMoves, PrecheckMoves, EnterLoopMoves, FileReadMoves, RoundMoves,
     ModelMoves, RepairedMoves, OfferMoves, ExternalMoves, CheckedMoves, TriedMoves, RunningMoves,
     SmartMoves, ListingMoves, SourceMoves, LastMoves
  DEF LoopStep
<1>2. CASE PlanStep(r)
  BY <1>2, PlannedMoves, PhaseMoves, MainMoves, SubMoves, RetryMoves DEF PlanStep
<1>3. CASE ChainStep(r)
  BY <1>3, LinkMoves, LinkReturnsMoves DEF ChainStep
<1>4. QED
  BY <1>1, <1>2, <1>3

-----------------------------------------------------------------------------
(* The loops                                                               *)

(* The depth of a loop counts the requests it runs, so that it is 0 only   *)
(* between them.                                                           *)
DepthInv == \A v \in Views : runDepth[v] = Cardinality(Active(v))

(* Of two requests of a loop that overlap neither is alone.                *)
AloneInv ==
  \A r \in alone :
    /\ req[r].at \in Running
    /\ \A q \in Requests : q # r /\ ViewOf[q] = ViewOf[r] => req[q].at \notin Running

(* What a loop was allowed, the one request that is alone was allowed.     *)
ConsentInv == \A r \in alone : ViewOf[r] \in externalConsent => r \in yes

SoundInv == \A r \in Requests : Sound(r, req[r])

(* The inductive invariant.                                                *)
IInv == TypeOK /\ SoundInv /\ DepthInv /\ AloneInv /\ ConsentInv

LEMMA ActiveFinite == \A v : IsFiniteSet(Active(v)) /\ Cardinality(Active(v)) \in Nat /\ (Cardinality(Active(v)) = 0 <=> Active(v) = {})
<1> TAKE v
<1>1. IsFiniteSet(Active(v))
  BY AgentAssumption, FS_Subset DEF Active
<1>2. QED
  BY <1>1, FS_CardinalityType, FS_EmptySet

LEMMA MovesKeep ==
  ASSUME IInv, NEW r \in Requests, Moves(r)
  PROVE  IInv'
<1> USE DEF IInv
<1>1. PICK t : /\ Sound(r, t) /\ t.at \in Running
               /\ req' = [req EXCEPT ![r] = t]
  BY DEF Moves
<1>2. req \in [Requests -> Request] /\ t \in Request /\ ViewOf[r] \in Views
  BY <1>1, Constants DEF TypeOK, Sound
<1>3. req'[r] = t /\ \A q \in Requests : q # r => req'[q] = req[q]
  BY <1>1, <1>2
<1>4. \A q \in Requests : req'[q].at \in Running <=> req[q].at \in Running
  BY <1>1, <1>3 DEF Moves
<1>5. SoundInv'
  BY <1>1, <1>3 DEF SoundInv, Sound, Inv, LateInv, Clean, Looking, Retrying, BoundsInv, ModeInv, StackInv
<1>6. TypeOK'
  <2>1. ChoiceTypeOK' /\ runDepth' \in [Views -> Nat] /\ alone' \subseteq Requests
    BY DEF TypeOK, Moves
  <2>2. req' \in [Requests -> Request]
    BY <1>1, <1>2
  <2>3. \A q \in Requests : /\ req'[q].round <= MaxSteps[q] /\ Len(req'[q].subs) <= MaxDepth
                             /\ req'[q].stage <= MaxParts[q] /\ req'[q].phase <= MaxParts[q]
                             /\ req'[q].reads <= MaxReads[q]
    BY <1>1, <1>3 DEF TypeOK, Sound, Inv, BoundsInv
  <2>4. externalConsent' \subseteq Views /\ yes' \subseteq Requests
    BY <1>2 DEF TypeOK, Moves
  <2>5. question' \in [Views -> SUBSET {"directory", "plan"}]
    BY <1>2 DEF TypeOK, Moves
  <2>6. QED
    BY <2>1, <2>2, <2>3, <2>4, <2>5 DEF TypeOK
<1>7. DepthInv'
  <2>1. \A v : Active(v)' = Active(v)
    BY <1>4 DEF Active
  <2>2. QED
    BY <2>1 DEF DepthInv, Moves
<1>8. AloneInv'
  BY <1>4 DEF AloneInv, Moves, TypeOK
<1>9. ConsentInv'
  <2>1. CASE UNCHANGED <<externalConsent, yes>>
    BY <2>1 DEF ConsentInv, Moves
  <2>2. CASE externalConsent' = externalConsent \cup {ViewOf[r]} /\ yes' = yes \cup {r}
    <3>1. \A q \in alone : ViewOf[q] = ViewOf[r] => q = r
      BY DEF AloneInv, Moves
    <3>2. QED
      BY <2>2, <3>1 DEF ConsentInv, Moves
  <2>3. QED
    BY <2>1, <2>2 DEF Moves
<1>10. QED
  BY <1>5, <1>6, <1>7, <1>8, <1>9

LEMMA NewSound ==
  ASSUME NEW r \in Requests
  PROVE  /\ Sound(r, New) /\ New.at = "new"
         /\ Sound(r, [New EXCEPT !.at = "ended"]) /\ [New EXCEPT !.at = "ended"].at = "ended"
<1> DEFINE t == [New EXCEPT !.at = "ended"]
<1>1. /\ New \in Request /\ New.at = "new" /\ New.mode = "single" /\ New.round = 0 /\ New.subs = <<>>
      /\ New.late = 0 /\ New.looks = 0 /\ New.reads = 0 /\ New.stage = 0 /\ New.phase = 0
  BY Constants DEF New, Request, Running
<1>2. t \in Request
  BY <1>1, Updated
<1>3. t.at = "ended" /\ Same(New, t) /\ Keeps(New, t)
  BY <1>1 DEF Request, Same, Keeps
<1> HIDE DEF t
<1>4. Inv(r, New) /\ Inv(r, t)
  BY <1>1, <1>3, Constants
  DEF Inv, LateInv, Clean, BoundsInv, ModeInv, StackInv, Same, Keeps, InRounds, InChain, InStages, InPhase
<1>5. QED
  BY <1>1, <1>2, <1>3, <1>4 DEF Sound, t

LEMMA EntriesSound ==
  ASSUME NEW r \in Requests, NEW s, Sound(r, s), s.at = "new", NEW asked \in SUBSET {"directory", "plan"},
         NEW e \in Entries(s, asked)
  PROVE  Sound(r, e.to) /\ e.to.at \in Running \ {"sent"} /\ e.left \in SUBSET {"directory", "plan"}
<1> DEFINE staged == [s EXCEPT !.mode = "stages", !.at = "stage"]
           answer == [s EXCEPT !.mode = "answer", !.at = "phase"]
<1> USE DEF Running, Asking, Thinking, Calling, Reading, Between
<1>1. s \in Request /\ s.mode = "single"
  BY DEF Sound, Inv, ModeInv
<1>2. ASSUME NEW t, NEW m, NEW p, t = [s EXCEPT !.mode = m, !.at = p],
             <<m, p>> \in {<<"stages", "stage">>, <<"answer", "phase">>}
      PROVE  Fine(r, {t})
  <2>1. (m = "stages" /\ p = "stage") \/ (m = "answer" /\ p = "phase")
    BY <1>2
  <2>2. t \in Request
    BY <1>1, <1>2, <2>1, Updated
  <2>3. /\ t.at = p /\ t.mode = m /\ t.round = s.round /\ t.stage = s.stage /\ t.phase = s.phase
        /\ t.reads = s.reads /\ Keeps(s, t)
    BY <1>1, <1>2 DEF Request, Keeps
  <2>4. LateInv(t)
    BY <1>1, <2>3, Fresh, CleanKept DEF Sound, Inv, LooksAt, Spent
  <2>5. BoundsInv(r, t) /\ ModeInv(t) /\ StackInv(t)
    BY <1>1, <2>1, <2>3
    DEF Sound, Inv, BoundsInv, ModeInv, StackInv, Keeps, InRounds, InChain, InStages, InPhase
  <2>6. Inv(r, t)
    BY <2>4, <2>5 DEF Inv
  <2>7. QED
    BY <2>1, <2>2, <2>3, <2>6 DEF Fine, Sound
<1>3. Fine(r, {staged}) /\ Fine(r, {answer})
  BY <1>2
<1>4. \A p \in {"batch", "link"} : Fine(r, {[s EXCEPT !.mode = "chain", !.at = p]})
  BY <1>1, ChainFine
<1>5. Fine(r, {Over(s)}) /\ Fine(r, {To(s, "routing")}) /\ Fine(r, {HeedlessCall(s, "last")})
  <2>1. Room(r, s, "routing") /\ Room(r, s, "last")
    BY <1>1 DEF Room, InRounds, InPhase, InChain, InStages
  <2>2. Fine(r, {To(s, "routing")})
    BY <2>1, ToFine DEF Fine, Onward, LooksAt, Spent
  <2>3. Fine(r, {HeedlessCall(s, "last")})
    BY <2>1, HeedlessFine
  <2>4. QED
    BY <2>2, <2>3, OverFine
<1>6. Fine(r, {e.to}) /\ e.left \in SUBSET {"directory", "plan"}
  <2> DEFINE Free == {staged, [s EXCEPT !.mode = "chain", !.at = "batch"],
                      [s EXCEPT !.mode = "chain", !.at = "link"]}
             Directed == {Over(s), HeedlessCall(s, "last")}
             Planning == {answer, To(s, "routing")}
  <2>1. Fine(r, Free) /\ Fine(r, Directed) /\ Fine(r, Planning)
    BY <1>3, <1>4, <1>5 DEF Fine
  <2> HIDE DEF staged, answer
  <2>2. CASE e \in {[to |-> t, left |-> asked] : t \in Free}
    <3> HIDE DEF Free
    <3>1. PICK t \in Free : e = [to |-> t, left |-> asked]
      BY <2>2
    <3>2. e.to = t /\ e.left = asked
      BY <3>1
    <3>3. QED
      BY <2>1, <3>2 DEF Fine
  <2>3. CASE e \in {[to |-> t, left |-> asked \ {"directory"}] : t \in Directed}
    <3> HIDE DEF Directed
    <3>1. QED
      BY <2>1, <2>3 DEF Fine
  <2>4. CASE e \in {[to |-> t, left |-> {}] : t \in Planning}
    <3> HIDE DEF Planning
    <3>1. QED
      BY <2>1, <2>4 DEF Fine
  <2>5. QED
    BY <2>2, <2>3, <2>4 DEF Entries, staged, answer
<1>7. QED
  BY <1>6 DEF Fine

LEMMA BeginKeeps ==
  ASSUME IInv, NEW r \in Requests, Begin(r)
  PROVE  IInv'
<1> USE DEF IInv
<1> DEFINE v == ViewOf[r]
<1>1. /\ req[r].at = "new" /\ req[r].at \notin Running /\ v \in Views
      /\ req \in [Requests -> Request] /\ Sound(r, req[r]) /\ r \notin alone
  BY Constants DEF Begin, Running, Asking, Thinking, Calling, Reading, Between, TypeOK, SoundInv, AloneInv
<1>2. PICK e \in Entries(req[r], question[v]) :
         /\ req' = [req EXCEPT ![r] = e.to]
         /\ question' = [question EXCEPT ![v] = e.left]
  BY DEF Begin
<1>3. Sound(r, e.to) /\ e.to.at \in Running /\ e.left \in SUBSET {"directory", "plan"}
  BY <1>1, <1>2, EntriesSound DEF TypeOK
<1>4. /\ runDepth' = [runDepth EXCEPT ![v] = @ + 1]
      /\ externalConsent' = IF runDepth[v] = 0 THEN externalConsent \ {v} ELSE externalConsent
      /\ alone' = IF Active(v) = {} THEN alone \cup {r} ELSE alone \ Active(v)
      /\ yes' = yes /\ owner' = owner /\ dialog' = dialog
  BY DEF Begin, choiceVars
<1>5. req'[r] = e.to /\ \A q \in Requests : q # r => req'[q] = req[q]
  BY <1>1, <1>2
<1>6. SoundInv'
  BY <1>3, <1>5 DEF SoundInv, Sound, Inv, LateInv, Clean, Looking, Retrying, BoundsInv, ModeInv, StackInv
<1>7. Active(v)' = Active(v) \cup {r} /\ r \notin Active(v) /\ \A w \in Views \ {v} : Active(w)' = Active(w)
  BY <1>1, <1>3, <1>5 DEF Active
<1>8. TypeOK'
  <2>1. /\ ChoiceTypeOK' /\ runDepth' \in [Views -> Nat] /\ externalConsent' \subseteq Views
        /\ question' \in [Views -> SUBSET {"directory", "plan"}]
    BY <1>1, <1>2, <1>3, <1>4 DEF TypeOK, ChoiceTypeOK
  <2>2. alone' \subseteq Requests /\ yes' \subseteq Requests
    BY <1>4 DEF TypeOK
  <2>3. req' \in [Requests -> Request]
    BY <1>1, <1>2, <1>3 DEF Sound
  <2>4. \A q \in Requests : /\ req'[q].round <= MaxSteps[q] /\ Len(req'[q].subs) <= MaxDepth
                             /\ req'[q].stage <= MaxParts[q] /\ req'[q].phase <= MaxParts[q]
                             /\ req'[q].reads <= MaxReads[q]
    BY <1>3, <1>5 DEF TypeOK, Sound, Inv, BoundsInv
  <2>5. QED
    BY <2>1, <2>2, <2>3, <2>4 DEF TypeOK
<1>9. DepthInv'
  <2>1. Cardinality(Active(v)') = Cardinality(Active(v)) + 1
    BY <1>7, ActiveFinite, FS_AddElement
  <2>2. QED
    BY <1>1, <1>4, <1>7, <2>1 DEF DepthInv, TypeOK
<1>10. Active(v) = {} <=> runDepth[v] = 0
  BY <1>1, ActiveFinite DEF DepthInv
<1>11. \A q \in alone : q \in Requests /\ (q \in Active(v) <=> ViewOf[q] = v)
  BY DEF AloneInv, Active, TypeOK
<1>12. CASE Active(v) = {}
  <2>1. alone' = alone \cup {r} /\ externalConsent' = externalConsent \ {v}
    BY <1>4, <1>10, <1>12
  <2>2. \A q \in alone : ViewOf[q] # v
    BY <1>11, <1>12
  <2>3. \A q \in Requests : q # r /\ ViewOf[q] = v => req'[q].at \notin Running
    BY <1>5, <1>12 DEF Active
  <2>4. AloneInv'
    BY <1>3, <1>5, <2>1, <2>2, <2>3, <1>11 DEF AloneInv
  <2>5. ConsentInv'
    BY <1>4, <2>1 DEF ConsentInv
  <2>6. QED
    BY <1>6, <1>8, <1>9, <2>4, <2>5
<1>13. CASE Active(v) # {}
  <2>1. alone' = alone \ Active(v) /\ externalConsent' = externalConsent
    BY <1>4, <1>10, <1>13
  <2>2. \A q \in alone' : q \in alone /\ ViewOf[q] # v /\ q # r
    BY <1>11, <2>1
  <2>3. AloneInv'
    BY <1>5, <1>11, <2>2 DEF AloneInv
  <2>4. ConsentInv'
    BY <1>4, <2>1 DEF ConsentInv
  <2>5. QED
    BY <1>6, <1>8, <1>9, <2>3, <2>4
<1>14. QED
  BY <1>12, <1>13

LEMMA CloseKeeps ==
  ASSUME IInv, NEW r \in Requests, Close(r)
  PROVE  IInv'
<1> USE DEF IInv
<1> DEFINE v == ViewOf[r]
           t == [New EXCEPT !.at = "ended"]
<1>1. /\ req[r].at \in Running /\ v \in Views /\ req \in [Requests -> Request]
      /\ req' = [req EXCEPT ![r] = t]
      /\ runDepth' = [runDepth EXCEPT ![v] = @ - 1]
      /\ alone' = alone \ {r} /\ yes' = yes \ {r}
      /\ externalConsent' = externalConsent /\ question' = question
      /\ owner' = owner /\ dialog' = dialog
  BY Constants DEF Close, Running, Between, TypeOK, choiceVars
<1>2. Sound(r, t) /\ t.at = "ended" /\ t.at \notin Running
  BY NewSound DEF Running, Asking, Thinking, Calling, Reading, Between
<1> HIDE DEF t
<1>3. req'[r] = t /\ \A q \in Requests : q # r => req'[q] = req[q]
  BY <1>1
<1>4. SoundInv'
  BY <1>2, <1>3 DEF SoundInv, Sound, Inv, LateInv, Clean, Looking, Retrying, BoundsInv, ModeInv, StackInv
<1>5. Active(v)' = Active(v) \ {r} /\ r \in Active(v) /\ \A w \in Views \ {v} : Active(w)' = Active(w)
  BY <1>1, <1>2, <1>3 DEF Active
<1>6. Cardinality(Active(v)') = Cardinality(Active(v)) - 1 /\ Cardinality(Active(v)) \in Nat \ {0}
  BY <1>5, ActiveFinite, FS_RemoveElement
<1>7. DepthInv'
  BY <1>1, <1>5, <1>6 DEF DepthInv, TypeOK
<1>8. TypeOK'
  <2>1. runDepth' \in [Views -> Nat]
    BY <1>1, <1>6 DEF TypeOK, DepthInv
  <2>2. req' \in [Requests -> Request]
    BY <1>1, <1>2 DEF Sound
  <2>3. \A q \in Requests : /\ req'[q].round <= MaxSteps[q] /\ Len(req'[q].subs) <= MaxDepth
                             /\ req'[q].stage <= MaxParts[q] /\ req'[q].phase <= MaxParts[q]
                             /\ req'[q].reads <= MaxReads[q]
    BY <1>2, <1>3 DEF TypeOK, Sound, Inv, BoundsInv
  <2>4. QED
    BY <1>1, <2>1, <2>2, <2>3 DEF TypeOK, ChoiceTypeOK
<1>9. AloneInv'
  BY <1>1, <1>2, <1>3 DEF AloneInv, TypeOK
<1>10. ConsentInv'
  BY <1>1 DEF ConsentInv
<1>11. QED
  BY <1>4, <1>7, <1>8, <1>9, <1>10

LEMMA ViewKeeps ==
  ASSUME IInv, NEW v \in Views, ViewStep(v)
  PROVE  IInv'
<1>1. UNCHANGED <<req, runDepth, externalConsent, question, alone, yes>>
  BY DEF ViewStep, loopVars, historyVars
<1>2. ChoiceTypeOK'
  BY DEF IInv, TypeOK, ViewStep, ChoiceViewStep, Claim, Release, Unmount, ChoiceTypeOK
<1>3. QED
  BY <1>1, <1>2 DEF IInv, TypeOK, SoundInv, Sound, Inv, LateInv, Clean, Looking, Retrying, BoundsInv, ModeInv,
     StackInv, DepthInv, Active, AloneInv, ConsentInv

LEMMA InvStep == IInv /\ [Next]_vars => IInv'
<1> SUFFICES ASSUME IInv, [Next]_vars
             PROVE  IInv'
  OBVIOUS
<1>1. CASE UNCHANGED vars
  BY <1>1 DEF vars, loopVars, historyVars, choiceVars, IInv, TypeOK, ChoiceTypeOK, SoundInv, Sound, Inv,
     LateInv, Clean, Looking, Retrying, BoundsInv, ModeInv, StackInv, DepthInv, Active, AloneInv, ConsentInv
<1>2. ASSUME NEW r \in Requests, Begin(r) \/ Stop(r) \/ CodeStep(r) \/ Consent(r)
      PROVE  IInv'
  <2>1. Sound(r, req[r])
    BY DEF IInv, SoundInv
  <2>2. QED
    BY <1>2, <2>1, BeginKeeps, CloseKeeps, StopMoves, WorkMoves, ConsentMoves, MovesKeep DEF CodeStep
<1>3. ASSUME NEW v \in Views, NEW r \in Requests, Answers(v, r)
      PROVE  IInv'
  BY <1>3, AnswersMove, MovesKeep DEF IInv, SoundInv
<1>4. QED
  BY <1>1, <1>2, <1>3, ViewKeeps DEF Next

LEMMA InvInit == Init => IInv
<1> SUFFICES ASSUME Init
             PROVE  IInv
  OBVIOUS
<1>1. \A r \in Requests : Sound(r, req[r]) /\ req[r].at \notin Running
  BY NewSound DEF Init, Running, Asking, Thinking, Calling, Reading, Between
<1>2. TypeOK
  BY <1>1 DEF Init, TypeOK, ChoiceInit, ChoiceTypeOK, Sound, Inv, BoundsInv
<1>3. \A v : Active(v) = {}
  BY <1>1 DEF Active
<1>4. DepthInv
  BY <1>3, FS_EmptySet DEF DepthInv, Init
<1>5. QED
  BY <1>1, <1>2, <1>4 DEF IInv, SoundInv, AloneInv, ConsentInv, Init

(* Every state the loops reach has the invariant.                          *)
THEOREM AgentInvariant == Spec => []IInv
  BY InvInit, InvStep, PTL DEF Spec

(* Every variable keeps its type: rounds, stages, phases and the stack of  *)
(* phases stay within their bounds, and the depth of a loop is a number.   *)
THEOREM AgentTypeCorrect == Spec => []TypeOK
  BY AgentInvariant, PTL DEF IInv

(* However a stop falls, a request that looks at its signal begins one     *)
(* more command, and one for each phase that waited for prerequisites; or  *)
(* it reads, in three series at most, and begins nothing else.             *)
THEOREM LittleBegins == Spec => []LittleAfterStop
<1>1. IInv => LittleAfterStop
  <2>1. \A s \in Request : LateInv(s) => Ended(s)
    BY LateEnds
  <2>2. QED
    BY <2>1, FieldTypes, Constants DEF IInv, SoundInv, Sound, Inv, Ended, Clean, LittleAfterStop
<1>2. QED
  BY <1>1, AgentInvariant, PTL

(* A request that no other of its loop overlapped goes to the other        *)
(* provider only after its own dialog was answered with yes.               *)
THEOREM ConsentIsOwn == Spec => AskedWhenAlone
<1> DEFINE OneStep == \A r \in Requests :
       req[r].at # "sent" /\ req'[r].at = "sent" => r \in yes' \/ r \notin alone'
<1>1. IInv /\ [Next]_vars => [OneStep]_vars
  <2> SUFFICES ASSUME IInv, [Next]_vars, NEW q \in Requests, req[q].at # "sent", req'[q].at = "sent",
                      q \in alone'
               PROVE  q \in yes'
    BY DEF OneStep
  <2>1. req \in [Requests -> Request]
    BY DEF IInv, TypeOK
  <2>2. ASSUME NEW r \in Requests, Moves(r)
        PROVE  q \in yes'
    <3>1. q = r
      BY <2>1, <2>2 DEF Moves
    <3>2. req'[r].at = "sent" => req[r].at = "sent" \/ r \in yes' \/ ViewOf[r] \in externalConsent
      BY <2>1, <2>2 DEF Moves
    <3>3. QED
      BY <2>2, <3>1, <3>2 DEF Moves, IInv, ConsentInv
  <2>3. ASSUME NEW r \in Requests, Begin(r)
        PROVE  req'[r].at # "sent"
    <3>1. PICK e \in Entries(req[r], question[ViewOf[r]]) : req' = [req EXCEPT ![r] = e.to]
      BY <2>3 DEF Begin
    <3>2. e.to.at # "sent"
      <4>1. question[ViewOf[r]] \in SUBSET {"directory", "plan"}
        BY Constants DEF IInv, TypeOK
      <4>2. QED
        BY <2>3, <3>1, <4>1, EntriesSound DEF Begin, IInv, SoundInv
    <3>3. QED
      BY <2>1, <3>1, <3>2
  <2>4. ASSUME NEW r \in Requests, Close(r)
        PROVE  req'[r].at # "sent"
    BY <2>1, <2>4, NewSound DEF Close
  <2>5. ASSUME NEW r \in Requests, Begin(r) \/ Close(r)
        PROVE  FALSE
    <3>1. q # r
      BY <2>3, <2>4, <2>5
    <3>2. PICK t : req' = [req EXCEPT ![r] = t]
      BY <2>5 DEF Begin, Close
    <3>3. QED
      BY <2>1, <3>1, <3>2
  <2>6. ASSUME NEW r \in Requests, Stop(r) \/ LoopStep(r) \/ PlanStep(r) \/ ChainStep(r) \/ Consent(r)
        PROVE  q \in yes'
    BY <2>2, <2>6, StopMoves, WorkMoves, ConsentMoves DEF IInv, SoundInv
  <2>7. ASSUME NEW v \in Views, NEW r \in Requests, Answers(v, r)
        PROVE  q \in yes'
    BY <2>2, <2>7, AnswersMove DEF IInv, SoundInv
  <2>8. ASSUME NEW v \in Views, ViewStep(v)
        PROVE  FALSE
    BY <2>8 DEF ViewStep
  <2>9. CASE UNCHANGED vars
    BY <2>9 DEF vars
  <2>10. QED
    BY <2>5, <2>6, <2>7, <2>8, <2>9 DEF Next, CodeStep
<1>2. QED
  BY <1>1, AgentInvariant, PTL DEF Spec, AskedWhenAlone

-----------------------------------------------------------------------------
(* Every step leaves a request less to do                                  *)

WholeOf(p) == LeftOf(Whole, p, 2)
StretchOf(p) == LeftOf(Stretch, p, 1)
InRoundOf(p) == LeftOf(InRound, p, 0)

(* WorkLeft goes down, said with the fields of the request                 *)
LevelsLower(s, t) ==
  \E d \in 1..(MaxDepth + 1) :
    /\ LevelLeft(t, d) < LevelLeft(s, d)
    /\ \A c \in 1..(d - 1) : LevelLeft(t, c) = LevelLeft(s, c)
InStageLower(s, t) ==
  \/ StretchOf(t.at) < StretchOf(s.at)
  \/ /\ StretchOf(t.at) = StretchOf(s.at)
     /\ \/ t.round > s.round
        \/ t.round = s.round /\ t.phase > s.phase
        \/ /\ t.round = s.round /\ t.phase = s.phase
           /\ \/ InRoundOf(t.at) < InRoundOf(s.at)
              \/ InRoundOf(t.at) = InRoundOf(s.at) /\ {s.at, t.at} \cap Reading = {} /\ LevelsLower(s, t)
Lower(s, t) ==
  \/ WholeOf(t.at) < WholeOf(s.at)
  \/ /\ WholeOf(t.at) = WholeOf(s.at)
     /\ \/ t.stopped /\ ~s.stopped
        \/ /\ t.stopped = s.stopped
           /\ \/ s.mode = "single" /\ t.mode # "single"
              \/ /\ (s.mode = "single") = (t.mode = "single")
                 /\ t.stage > s.stage \/ (t.stage = s.stage /\ InStageLower(s, t))

(* The next of what is read one after another                              *)
ReadOn(s, t) ==
  /\ s.at \in Reading /\ t.at = s.at /\ t.stopped = s.stopped /\ t.mode = s.mode
  /\ t.stage = s.stage /\ t.round = s.round /\ t.phase = s.phase /\ t.reads = s.reads + 1

LEMMA PlacesLeft ==
  /\ WholeOf("new") = 3 /\ WholeOf("over") = 1 /\ WholeOf("ended") = 0
  /\ \A p \in Running \ {"over"} : WholeOf(p) = 2
  /\ \A p \in Running \cup {"new", "ended"} :
       WholeOf(p) \in Nat /\ StretchOf(p) \in Nat /\ InRoundOf(p) \in Nat
  BY DEF WholeOf, StretchOf, InRoundOf, LeftOf, Whole, Stretch, InRound, Running, Asking, Thinking,
     Calling, Reading, Between

LEMMA LevelTypes ==
  ASSUME NEW s \in Request, NEW d \in 1..(MaxDepth + 1)
  PROVE  LevelLeft(s, d) \in Nat
<1>1. s.subs \in Seq(0..2) /\ Len(s.subs) \in Nat /\ d \in Nat \ {0}
  BY FieldTypes, Constants
<1>2. LeftOf(InPhaseCall, s.at, 0) \in Nat
  BY DEF LeftOf, InPhaseCall
<1>3. CASE d <= Len(s.subs)
  <2>1. Len(s.subs) + 1 - d \in 1..Len(s.subs)
    BY <1>1, <1>3
  <2>2. s.subs[Len(s.subs) + 1 - d] \in 0..2
    BY <1>1, <2>1
  <2>3. QED
    BY <1>3, <2>2 DEF LevelLeft
<1>4. CASE ~(d <= Len(s.subs))
  BY <1>2, <1>4 DEF LevelLeft
<1>5. QED
  BY <1>3, <1>4

(* The counts of WorkLeft, one by one                                      *)
ReadsLeft(r, s) == IF s.at \in Reading THEN MaxReads[r] - s.reads ELSE 0
LEMMA WorkLeftCounts ==
  ASSUME NEW r \in Requests, NEW s \in Request
  PROVE  LET w == WorkLeft(r, s)
         IN /\ DOMAIN w = 1..(10 + MaxDepth)
            /\ w[1] = WholeOf(s.at) /\ w[2] = (IF s.stopped THEN 0 ELSE 1)
            /\ w[3] = (IF s.mode = "single" THEN 1 ELSE 0) /\ w[4] = MaxParts[r] - s.stage
            /\ w[5] = StretchOf(s.at) /\ w[6] = MaxSteps[r] - s.round
            /\ w[7] = MaxParts[r] - s.phase /\ w[8] = InRoundOf(s.at) /\ w[9] = ReadsLeft(r, s)
            /\ \A d \in 1..(MaxDepth + 1) : w[9 + d] = LevelLeft(s, d)
<1>1. 9 + MaxDepth + 1 = 10 + MaxDepth /\ \A i \in 1..9 : i \in 1..(9 + MaxDepth + 1)
  BY Constants
<1>2. \A d \in 1..(MaxDepth + 1) :
        9 + d \in 1..(9 + MaxDepth + 1) /\ ~(9 + d <= 9) /\ 9 + d - 9 = d
  BY Constants
<1>3. QED
  BY <1>1, <1>2 DEF WorkLeft, WholeOf, StretchOf, InRoundOf, ReadsLeft

(* Two tuples of counts, the first nine of which are looked at one by one  *)
LEMMA LessAt ==
  ASSUME NEW a, NEW b, DOMAIN b = 1..(10 + MaxDepth),
         NEW j \in 1..(10 + MaxDepth), a[j] < b[j], \A i \in 1..(j - 1) : a[i] = b[i]
  PROVE  Less(a, b)
  BY DEF Less

LEMMA LowerIsLess ==
  ASSUME NEW r \in Requests, NEW s \in Request, NEW t \in Request, Lower(s, t) \/ ReadOn(s, t),
         t.reads <= MaxReads[r]
  PROVE  Less(WorkLeft(r, t), WorkLeft(r, s))
<1> DEFINE a == WorkLeft(r, t)
           b == WorkLeft(r, s)
<1>1. /\ a[1] = WholeOf(t.at) /\ a[2] = (IF t.stopped THEN 0 ELSE 1)
      /\ a[3] = (IF t.mode = "single" THEN 1 ELSE 0) /\ a[4] = MaxParts[r] - t.stage
      /\ a[5] = StretchOf(t.at) /\ a[6] = MaxSteps[r] - t.round
      /\ a[7] = MaxParts[r] - t.phase /\ a[8] = InRoundOf(t.at) /\ a[9] = ReadsLeft(r, t)
  BY WorkLeftCounts
<1>2. DOMAIN b = 1..(10 + MaxDepth)
  BY WorkLeftCounts
<1>3. /\ b[1] = WholeOf(s.at) /\ b[2] = (IF s.stopped THEN 0 ELSE 1)
      /\ b[3] = (IF s.mode = "single" THEN 1 ELSE 0) /\ b[4] = MaxParts[r] - s.stage
      /\ b[5] = StretchOf(s.at) /\ b[6] = MaxSteps[r] - s.round
      /\ b[7] = MaxParts[r] - s.phase /\ b[8] = InRoundOf(s.at) /\ b[9] = ReadsLeft(r, s)
  BY WorkLeftCounts
<1>4. \A d \in 1..(MaxDepth + 1) : a[9 + d] = LevelLeft(t, d) /\ b[9 + d] = LevelLeft(s, d)
  BY WorkLeftCounts
<1> SUFFICES Less(a, b)
  OBVIOUS
<1> HIDE DEF a, b
<1>5. /\ MaxParts[r] \in Nat /\ MaxSteps[r] \in Nat /\ MaxReads[r] \in Nat /\ MaxDepth \in Nat
      /\ s.stage \in Nat /\ t.stage \in Nat /\ s.round \in Nat /\ t.round \in Nat
      /\ s.phase \in Nat /\ t.phase \in Nat /\ s.stopped \in BOOLEAN /\ t.stopped \in BOOLEAN
      /\ s.reads \in Nat /\ t.reads \in Nat
  BY FieldTypes, Constants
<1>6. /\ 1..0 = {} /\ 1..1 = {1} /\ 1..2 = {1, 2} /\ 1..3 = {1, 2, 3} /\ 1..4 = {1, 2, 3, 4}
      /\ 1..5 = {1, 2, 3, 4, 5} /\ 1..6 = {1, 2, 3, 4, 5, 6} /\ 1..7 = {1, 2, 3, 4, 5, 6, 7}
      /\ 1..8 = {1, 2, 3, 4, 5, 6, 7, 8} /\ 1..9 = {1, 2, 3, 4, 5, 6, 7, 8, 9}
      /\ 1..9 \subseteq 1..(10 + MaxDepth)
  BY <1>5
<1>7. ASSUME NEW j \in 1..9, a[j] < b[j], \A i \in 1..(j - 1) : a[i] = b[i]
      PROVE  Less(a, b)
  BY <1>2, <1>6, <1>7, LessAt
<1> DEFINE Three == a[1] = b[1] /\ a[2] = b[2] /\ a[3] = b[3]
           Six == Three /\ a[4] = b[4] /\ a[5] = b[5] /\ a[6] = b[6]
           Eight == Six /\ a[7] = b[7] /\ a[8] = b[8]
<1>8. /\ a[1] < b[1] => Less(a, b)
      /\ a[1] = b[1] /\ a[2] < b[2] => Less(a, b)
      /\ a[1] = b[1] /\ a[2] = b[2] /\ a[3] < b[3] => Less(a, b)
  BY <1>6, <1>7
<1>9. /\ Three /\ a[4] < b[4] => Less(a, b)
      /\ Three /\ a[4] = b[4] /\ a[5] < b[5] => Less(a, b)
      /\ Three /\ a[4] = b[4] /\ a[5] = b[5] /\ a[6] < b[6] => Less(a, b)
  BY <1>6, <1>7
<1>10. /\ Six /\ a[7] < b[7] => Less(a, b)
       /\ Six /\ a[7] = b[7] /\ a[8] < b[8] => Less(a, b)
       /\ Eight /\ a[9] < b[9] => Less(a, b)
  BY <1>6, <1>7
<1>11. ASSUME Eight, a[9] = b[9], LevelsLower(s, t)
       PROVE  Less(a, b)
  <2>1. PICK d \in 1..(MaxDepth + 1) : /\ LevelLeft(t, d) < LevelLeft(s, d)
                                       /\ \A c \in 1..(d - 1) : LevelLeft(t, c) = LevelLeft(s, c)
    BY <1>11 DEF LevelsLower
  <2>2. 9 + d \in 1..(10 + MaxDepth) /\ a[9 + d] < b[9 + d]
    <3>1. a[9 + d] = LevelLeft(t, d) /\ b[9 + d] = LevelLeft(s, d)
      BY <1>4
    <3>2. 9 + d \in 1..(10 + MaxDepth)
      BY <1>5
    <3>3. QED
      BY <2>1, <3>1, <3>2
  <2>3. ASSUME NEW i \in 1..(9 + d - 1)
        PROVE  a[i] = b[i]
    <3>1. CASE i <= 9
      <4>1. i \in 1..9
        BY <3>1
      <4>2. QED
        BY <1>6, <1>11, <4>1
    <3>2. CASE ~(i <= 9)
      <4>1. i - 9 \in 1..(d - 1) /\ i - 9 \in 1..(MaxDepth + 1) /\ 9 + (i - 9) = i
        BY <1>5, <2>3, <3>2
      <4>2. a[9 + (i - 9)] = b[9 + (i - 9)]
        BY <1>4, <2>1, <4>1
      <4>3. QED
        BY <4>1, <4>2
    <3>3. QED
      BY <3>1, <3>2
  <2>4. PICK j \in 1..(10 + MaxDepth) : j = 9 + d
    BY <2>2
  <2>5. a[j] < b[j] /\ \A i \in 1..(j - 1) : a[i] = b[i]
    BY <2>2, <2>3, <2>4
  <2>6. QED
    BY <1>2, <2>5, LessAt
<1>12. /\ (t.stopped /\ ~s.stopped => a[2] < b[2]) /\ (t.stopped = s.stopped => a[2] = b[2])
       /\ s.mode = "single" /\ t.mode # "single" => a[3] < b[3]
       /\ (s.mode = "single") = (t.mode = "single") => a[3] = b[3]
  <2>1. a[2] = (IF t.stopped THEN 0 ELSE 1) /\ b[2] = (IF s.stopped THEN 0 ELSE 1)
    BY <1>1, <1>3
  <2>2. a[3] = (IF t.mode = "single" THEN 1 ELSE 0) /\ b[3] = (IF s.mode = "single" THEN 1 ELSE 0)
    BY <1>1, <1>3
  <2>3. (t.stopped /\ ~s.stopped => a[2] < b[2]) /\ (t.stopped = s.stopped => a[2] = b[2])
    BY <1>5, <2>1
  <2>4. /\ s.mode = "single" /\ t.mode # "single" => a[3] < b[3]
        /\ (s.mode = "single") = (t.mode = "single") => a[3] = b[3]
    BY <2>2
  <2>5. QED
    BY <2>3, <2>4
<1>13. /\ (t.stage > s.stage => a[4] < b[4]) /\ (t.stage = s.stage => a[4] = b[4])
       /\ (t.round > s.round => a[6] < b[6]) /\ (t.round = s.round => a[6] = b[6])
       /\ (t.phase > s.phase => a[7] < b[7]) /\ (t.phase = s.phase => a[7] = b[7])
  <2>1. /\ a[4] = MaxParts[r] - t.stage /\ b[4] = MaxParts[r] - s.stage
        /\ a[6] = MaxSteps[r] - t.round /\ b[6] = MaxSteps[r] - s.round
        /\ a[7] = MaxParts[r] - t.phase /\ b[7] = MaxParts[r] - s.phase
    BY <1>1, <1>3
  <2>2. QED
    BY <1>5, <2>1
<1>14. /\ a[1] = WholeOf(t.at) /\ b[1] = WholeOf(s.at) /\ a[5] = StretchOf(t.at) /\ b[5] = StretchOf(s.at)
       /\ a[8] = InRoundOf(t.at) /\ b[8] = InRoundOf(s.at)
  BY <1>1, <1>3
<1>15. CASE Lower(s, t)
  <2>1. {s.at, t.at} \cap Reading = {} => a[9] = b[9]
    BY <1>1, <1>3 DEF ReadsLeft
  <2>2. Three /\ a[4] = b[4] /\ InStageLower(s, t) => Less(a, b)
    BY <1>9, <1>10, <1>11, <1>13, <1>14, <2>1 DEF InStageLower
  <2>3. QED
    BY <1>8, <1>9, <1>12, <1>13, <1>14, <1>15, <2>2 DEF Lower
<1>16. CASE ReadOn(s, t)
  <2>1. Eight
    BY <1>12, <1>13, <1>14, <1>16 DEF ReadOn
  <2>2. a[9] = MaxReads[r] - t.reads /\ b[9] = MaxReads[r] - s.reads
    BY <1>1, <1>3, <1>16 DEF ReadOn, ReadsLeft
  <2>3. a[9] < b[9]
    BY <1>5, <1>16, <2>2 DEF ReadOn
  <2>4. QED
    BY <1>10, <2>1, <2>3
<1>17. QED
  BY <1>15, <1>16

(* Places of a stage in the order in which a request passes them           *)
Within == Running \ {"over"}
Nearer(p, q) ==
  /\ p \in Within /\ q \in Within
  /\ \/ StretchOf(q) < StretchOf(p)
     \/ StretchOf(q) = StretchOf(p) /\ InRoundOf(q) < InRoundOf(p)

LEMMA NearerPlaces ==
  /\ \A q \in {"shortcut", "loop"} : Nearer("routing", q)
  /\ Nearer("shortcut", "loop") /\ Nearer("batch", "link")
  /\ \A q \in {"precheck", "loop", "direct"} : Nearer("stage", q)
  /\ \A q \in {"loop", "direct"} : Nearer("precheck", q)
  /\ \A q \in {"reading", "last", "planning", "round"} : Nearer("loop", q)
  /\ \A q \in {"last", "planning", "round"} : Nearer("reading", q)
  /\ Nearer("round", "model")
  /\ \A q \in {"last", "checked", "repair"} : Nearer("model", q)
  /\ \A q \in {"checked", "offer"} : Nearer("repair", q)
  /\ \A q \in {"asked", "sent", "refused"} : Nearer("offer", q)
  /\ \A q \in {"sent", "refused"} : Nearer("asked", q)
  /\ \A q \in {"refused", "checked"} : Nearer("sent", q)
  /\ Nearer("refused", "checked")
  /\ \A q \in {"tried", "running", "paneAsk"} : Nearer("checked", q)
  /\ \A q \in {"running", "paneAsk"} : Nearer("tried", q)
  /\ Nearer("running", "smart")
  /\ \A q \in {"listed", "guess", "sources", "last"} : Nearer("smart", q)
  /\ \A q \in {"guess", "sources", "last"} : Nearer("listed", q)
  /\ \A q \in {"sources", "last"} : Nearer("guess", q)
  /\ Nearer("planning", "phase")
  /\ \A q \in {"main", "sub"} : Nearer("phase", q)
  /\ \A q \in {"linking", "paneAsk"} : Nearer("link", q)
  BY DEF Nearer, Within, StretchOf, InRoundOf, LeftOf, Stretch, InRound, Running, Asking, Thinking,
     Calling, Reading, Between

InWork == InRounds \cup InPhase \cup {"round", "phase", "link", "linking", "paneAsk"}
LEMMA WorkStretch ==
  /\ InWork \subseteq Within
  /\ \A p \in InWork : StretchOf(p) = 1
  /\ \A p \in InPhase : InRoundOf(p) = 0
  BY DEF InWork, InRounds, InPhase, Within, StretchOf, InRoundOf, LeftOf, Stretch, InRound, Running, Asking,
     Thinking, Calling, Reading, Between

Drops(s, S) == \A t \in S : Lower(s, t)

LEMMA OverLower ==
  ASSUME NEW s \in Request, s.at \in Within
  PROVE  Drops(s, {Over(s)})
  BY OverFields, PlacesLeft DEF Drops, Lower, Within

LEMMA NearerLower ==
  ASSUME NEW s \in Request, NEW t, Nearer(s.at, t.at), t.stopped = s.stopped,
         t.mode = s.mode, t.round = s.round, t.stage = s.stage, t.phase = s.phase
  PROVE  Lower(s, t)
<1>1. WholeOf(s.at) = 2 /\ WholeOf(t.at) = 2
  BY PlacesLeft DEF Nearer, Within
<1>2. InStageLower(s, t)
  BY DEF Nearer, InStageLower
<1>3. QED
  BY <1>1, <1>2 DEF Lower

LEMMA ToLower ==
  ASSUME NEW s \in Request, NEW p, Nearer(s.at, p)
  PROVE  Drops(s, {To(s, p), Call(s, p), DeafCall(s, p), HeedlessCall(s, p)})
<1>1. p \in Running
  BY DEF Nearer, Within
<1>2. ASSUME NEW t, t.at = p, Same(s, t), t.stopped = s.stopped
      PROVE  Lower(s, t)
  BY <1>2, NearerLower DEF Same
<1>3. Lower(s, To(s, p)) /\ Lower(s, Call(s, p))
  BY <1>1, <1>2, ToFields, CallFields DEF Keeps
<1>4. Lower(s, DeafCall(s, p)) /\ Lower(s, HeedlessCall(s, p))
  BY <1>1, <1>2, DeafFields, HeedlessFields
<1>5. QED
  BY <1>3, <1>4 DEF Drops

(* The first of a series of reads                                          *)
LEMMA ReadsLower ==
  ASSUME NEW r \in Requests, NEW s \in Request, NEW p, Nearer(s.at, p)
  PROVE  Drops(s, Reads(r, s, p))
<1>1. p \in Running
  BY DEF Nearer, Within
<1>2. Lower(s, Read(s, p))
  BY <1>1, ReadFields, NearerLower
<1>3. QED
  BY <1>2 DEF Drops, Reads

LEMMA NextStageLower ==
  ASSUME NEW s \in Request, s.at \in Within
  PROVE  Drops(s, {NextStage(s)})
<1> DEFINE t == NextStage(s)
<1>1. t.at = "stage" /\ t.mode = s.mode /\ t.stopped = s.stopped /\ t.stage = s.stage + 1
  BY DEF NextStage, Request
<1>2. "stage" \in Within /\ s.stage \in Nat
  BY FieldTypes DEF Within, Running, Between
<1> HIDE DEF t
<1>3. Lower(s, t)
  BY <1>1, <1>2, PlacesLeft DEF Lower, Within
<1>4. QED
  BY <1>3 DEF Drops, t

LEMMA LoopEndsLower ==
  ASSUME NEW s \in Request, s.at \in Within
  PROVE  /\ \A b : Drops(s, {LoopEnds(s, b)})
         /\ Drops(s, LoopEndsAnyhow(s))
  BY OverLower, NextStageLower DEF LoopEnds, LoopEndsAnyhow, Drops

(* Another round, another phase or link                                    *)
LEMMA AnotherLower ==
  ASSUME NEW s \in Request, NEW t, s.at \in InWork, t.at \in InWork, t.mode = s.mode,
         t.stopped = s.stopped, t.stage = s.stage,
         t.round > s.round \/ (t.round = s.round /\ t.phase > s.phase)
  PROVE  Lower(s, t)
<1>1. WholeOf(s.at) = 2 /\ WholeOf(t.at) = 2 /\ StretchOf(s.at) = 1 /\ StretchOf(t.at) = 1
  BY PlacesLeft, WorkStretch DEF Within
<1>2. InStageLower(s, t)
  BY <1>1 DEF InStageLower
<1>3. QED
  BY <1>1, <1>2 DEF Lower

LEMMA ContinueLower ==
  ASSUME NEW s \in Request, s.at \in InWork
  PROVE  Drops(s, {Continue(s)})
<1>1. /\ Continue(s).at = "round" /\ Continue(s).mode = s.mode /\ Continue(s).stopped = s.stopped
      /\ Continue(s).round = s.round + 1 /\ Continue(s).stage = s.stage
  BY ContinueFields DEF Keeps
<1>2. s.round \in Nat /\ "round" \in InWork
  BY FieldTypes DEF InWork
<1>3. QED
  BY <1>1, <1>2, AnotherLower DEF Drops

(* What the rank does not count                                            *)
Alike(s, u) == u.at = s.at /\ Same(s, u) /\ u.stopped = s.stopped /\ u.subs = s.subs
LEMMA AlikeLower ==
  ASSUME NEW s, NEW u, Alike(s, u), NEW S, Drops(u, S)
  PROVE  Drops(s, S)
<1>1. \A d : LevelLeft(u, d) = LevelLeft(s, d)
  BY DEF Alike, LevelLeft
<1>2. ASSUME NEW t
      PROVE  Lower(u, t) => Lower(s, t)
  <2>1. LevelsLower(u, t) => LevelsLower(s, t)
    BY <1>1 DEF LevelsLower
  <2>2. InStageLower(u, t) => InStageLower(s, t)
    BY <2>1 DEF InStageLower, Alike, Same
  <2>3. QED
    BY <2>2 DEF Lower, Alike, Same
<1>3. QED
  BY <1>2 DEF Drops

LEMMA IdleAlike ==
  ASSUME NEW s \in Request
  PROVE  Idle(s) \in Request /\ Alike(s, Idle(s)) /\ Strike(s) \in Request /\ Alike(s, Strike(s))
  BY IdleFields, StrikeFields DEF Alike, Keeps

LEMMA FailedLower ==
  ASSUME NEW r \in Requests, NEW s \in Request, s.at \in {"smart", "listed", "guess"}
  PROVE  Drops(s, Failed(r, s))
<1> DEFINE t == Strike(s)
<1>1. t \in Request /\ Alike(s, t) /\ t.at \in {"smart", "listed", "guess"}
  BY IdleAlike DEF Alike
<1> HIDE DEF t
<1>2. Nearer(t.at, "last") /\ Nearer(t.at, "sources")
  BY <1>1, NearerPlaces
<1>3. t.at \in Within /\ t.at \in InWork
  BY <1>1, WorkStretch DEF InWork, InRounds
<1>4. /\ Drops(t, {Over(t)}) /\ Drops(t, {Call(t, "last")}) /\ Drops(t, {Continue(t)})
      /\ Drops(t, Reads(r, t, "sources"))
  BY <1>1, <1>2, <1>3, OverLower, ToLower, ContinueLower, ReadsLower DEF Drops
<1>5. Drops(t, Failed(r, s))
  BY <1>4 DEF Drops, Failed, t
<1>6. QED
  BY <1>1, <1>5, AlikeLower

LEMMA SpawnLower ==
  ASSUME NEW s \in Request, s.at \in {"checked", "tried", "paneAsk", "link"}
  PROVE  Drops(s, Spawn(s))
<1>1. s.at \in InWork /\ s.at \in Within
  BY WorkStretch DEF InWork, InRounds
<1>2. CASE s.mode = "chain"
  <2> DEFINE t == Spawned(s)
  <2>1. t.at = "link" /\ t.mode = s.mode /\ t.stopped = s.stopped /\ t.stage = s.stage /\ t.round = s.round
        /\ t.phase = s.phase + 1
    BY <1>2 DEF Spawned, Request
  <2>2. s.phase \in Nat /\ s.round \in Nat /\ "link" \in InWork
    BY FieldTypes DEF InWork
  <2>3. QED
    BY <1>1, <2>1, <2>2, AnotherLower, OverLower DEF Drops, Spawn
<1>3. CASE s.mode # "chain"
  <2> DEFINE t == Spawned(s)
             u == Continue(s)
  <2>1. t = [u EXCEPT !.late = Begun(s)]
    BY <1>3 DEF Spawned
  <2>2. u \in Request /\ u.at = "round" /\ u.mode = s.mode /\ u.stopped = s.stopped
        /\ u.round = s.round + 1 /\ u.stage = s.stage
    BY ContinueFields DEF Keeps
  <2> HIDE DEF u
  <2>3. t.at = "round" /\ t.mode = s.mode /\ t.stopped = s.stopped
        /\ t.round = s.round + 1 /\ t.stage = s.stage
    BY <2>1, <2>2 DEF Request
  <2>4. s.round \in Nat /\ "round" \in InWork
    BY FieldTypes DEF InWork
  <2>5. QED
    BY <1>1, <2>3, <2>4, AnotherLower, OverLower DEF Drops, Spawn
<1>4. QED
  BY <1>2, <1>3

LEMMA RunInPaneLower ==
  ASSUME NEW s \in Request, s.at \in {"checked", "tried", "link"}
  PROVE  Drops(s, RunInPane(s))
<1>1. s.at \in Within /\ Nearer(s.at, "paneAsk")
  BY WorkStretch, NearerPlaces DEF InWork, InRounds
<1>2. Drops(s, {To(s, "paneAsk")}) /\ Drops(s, {Over(s)}) /\ Drops(s, Spawn(s))
  BY <1>1, ToLower, OverLower, SpawnLower DEF Drops
<1>3. QED
  BY <1>2 DEF RunInPane, Drops

Dropped(r) == \E t : req' = [req EXCEPT ![r] = t] /\ (Lower(req[r], t) \/ ReadOn(req[r], t))

LEMMA StepDrops ==
  ASSUME NEW r \in Requests, NEW S, Drops(req[r], S)
  PROVE  (Goes(r, S) => Dropped(r)) /\ (Step(r, S) => Dropped(r))
  BY DEF Goes, Step, Dropped, Drops

(* As StepDrops, of a call that has returned                               *)
LEMMA ReturnDrops ==
  ASSUME NEW r \in Requests, req[r] \in Request, NEW S, Drops(Idle(req[r]), S)
  PROVE  (Goes(r, S) => Dropped(r)) /\ (Step(r, S) => Dropped(r))
  BY IdleAlike, AlikeLower, StepDrops

(* The next of a series, or what comes after it                            *)
LEMMA ReadOnDrops ==
  ASSUME NEW r \in Requests, req[r] \in Request, req[r].at \in Reading,
         NEW S, Drops(Idle(req[r]), S), Step(r, Reads(r, req[r], req[r].at) \cup S)
  PROVE  Dropped(r)
<1>1. PICK t \in Reads(r, req[r], req[r].at) \cup S : req' = [req EXCEPT ![r] = t]
  BY DEF Step, Goes
<1>2. CASE t \in S
  <2>1. Lower(req[r], t)
    BY <1>2, IdleAlike, AlikeLower DEF Drops
  <2>2. QED
    BY <1>1, <2>1 DEF Dropped
<1>3. CASE t \in Reads(r, req[r], req[r].at)
  <2>1. t = Read(req[r], req[r].at) /\ req[r].at \in Running
    BY <1>3 DEF Reads, Running, Calling
  <2>2. ReadOn(req[r], t)
    BY <2>1, ReadFields DEF ReadOn
  <2>3. QED
    BY <1>1, <2>2 DEF Dropped
<1>4. QED
  BY <1>1, <1>2, <1>3

LEMMA RouteDrops ==
  ASSUME NEW r \in Requests, req[r] \in Request, Sound(r, req[r]), Route(r)
  PROVE  Dropped(r)
<1> DEFINE s == req[r]
           Chained == {[s EXCEPT !.mode = "chain", !.at = p] : p \in {"batch", "link"}}
           S == {Over(s), To(s, "loop")} \cup Chained \cup Shortcuts(s)
<1>1. s.at = "routing" /\ s.at \in Within /\ s.mode = "single"
  BY DEF Route, Sound, Inv, ModeInv, Within, Running, Thinking
<1>2. Drops(s, {Over(s)}) /\ Drops(s, {To(s, "loop")}) /\ Drops(s, Shortcuts(s))
  BY <1>1, OverLower, ToLower, NearerPlaces DEF Drops, Shortcuts
<1>3. ASSUME NEW p \in {"batch", "link"}
      PROVE  Lower(s, [s EXCEPT !.mode = "chain", !.at = p])
  <2> DEFINE t == [s EXCEPT !.mode = "chain", !.at = p]
  <2>1. t.at = p /\ t.mode = "chain" /\ t.stopped = s.stopped
    BY DEF Request
  <2>2. p \in Within
    BY DEF Within, Running, Asking, Between
  <2> HIDE DEF t
  <2>3. QED
    BY <1>1, <2>1, <2>2, PlacesLeft DEF Lower, Within, t
<1>4. Drops(s, S)
  BY <1>2, <1>3 DEF Drops
<1>5. QED
  BY <1>2, <1>4, StepDrops DEF Route, Dropped, Drops

LEMMA ShortcutDrops ==
  ASSUME NEW r \in Requests, req[r] \in Request, ShortcutReturns(r)
  PROVE  Dropped(r)
<1> DEFINE s == Idle(req[r])
           u == [s EXCEPT !.stage = @ + 1]
<1>1. s \in Request /\ s.at = "shortcut"
  BY IdleAlike DEF Alike, ShortcutReturns
<1> HIDE DEF s
<1>2. s.at \in Within
  BY <1>1 DEF Within, Running, Calling
<1>3. Drops(s, {Over(s), To(s, "loop")})
  BY <1>1, <1>2, OverLower, ToLower, NearerPlaces DEF Drops
<1>4. ASSUME s.stage < MaxParts[r], NEW t \in Shortcuts(u)
      PROVE  Lower(s, t)
  <2>1. s.stage \in Nat /\ s.stage + 1 \in Nat
    BY <1>1, <1>4, FieldTypes, Constants
  <2>2. u \in Request
    BY <1>1, <2>1, Updated
  <2>3. u.mode = s.mode /\ u.stopped = s.stopped /\ u.stage = s.stage + 1
    BY <1>1 DEF Request
  <2> HIDE DEF u
  <2>4. "shortcut" \in Running
    BY DEF Running, Calling
  <2>5. t.at = "shortcut" /\ t.mode = s.mode /\ t.stopped = s.stopped /\ t.stage = s.stage + 1
    BY <1>4, <2>2, <2>3, <2>4, CallFields, HeedlessFields DEF Shortcuts, Same, Keeps
  <2>6. t.stage > s.stage
    BY <2>1, <2>5
  <2>7. QED
    BY <1>1, <1>2, <2>5, <2>6 DEF Lower
<1>5. Drops(s, {Over(s), To(s, "loop")} \cup IF s.stage < MaxParts[r] THEN Shortcuts(u) ELSE {})
  BY <1>3, <1>4 DEF Drops
<1>6. QED
  BY <1>5, ReturnDrops DEF ShortcutReturns, s

LEMMA StageDrops ==
  ASSUME NEW r \in Requests, req[r] \in Request, Stage(r) \/ PrecheckReturns(r) \/ DirectReturns(r)
  PROVE  Dropped(r)
<1>1. ASSUME NEW s \in Request, s.at \in {"stage", "precheck"}
      PROVE  Drops(s, Dispatched(s))
  BY <1>1, ToLower, NearerPlaces DEF Drops, Dispatched
<1>2. CASE Stage(r)
  <2> DEFINE s == req[r]
  <2>1. s.at = "stage" /\ s.at \in Within
    BY <1>2 DEF Stage, Within, Running, Between
  <2>2. Drops(s, {Over(s)}) /\ Drops(s, {StageCall(s, "precheck")}) /\ Drops(s, Dispatched(s))
    BY <1>1, <2>1, OverLower, ToLower, NearerPlaces DEF Drops, StageCall
  <2>3. Drops(s, {StageCall(s, "precheck")} \cup Dispatched(s))
    BY <2>2 DEF Drops
  <2>4. QED
    BY <1>2, <2>2, <2>3, StepDrops DEF Stage
<1>3. CASE PrecheckReturns(r) \/ DirectReturns(r)
  <2> DEFINE s == Idle(req[r])
  <2>1. s \in Request /\ s.at = req[r].at /\ s.at \in {"precheck", "direct"}
    BY <1>3, IdleAlike DEF Alike, PrecheckReturns, DirectReturns
  <2> HIDE DEF s
  <2>2. s.at \in Within
    BY <2>1 DEF Within, Running, Calling
  <2>3. Drops(s, {Over(s), NextStage(s)})
    BY <2>1, <2>2, OverLower, NextStageLower DEF Drops
  <2>4. req[r].at = "precheck" => Drops(s, {Over(s), NextStage(s)} \cup Dispatched(s))
    BY <1>1, <2>1, <2>3 DEF Drops
  <2>5. QED
    BY <1>3, <2>3, <2>4, ReturnDrops DEF PrecheckReturns, DirectReturns, s
<1>4. QED
  BY <1>2, <1>3

LEMMA EnterDrops ==
  ASSUME NEW r \in Requests, req[r] \in Request, EnterLoop(r) \/ FileRead(r)
  PROVE  Dropped(r)
<1>1. ASSUME NEW s \in Request, s.at \in {"loop", "reading"}
      PROVE  Drops(s, WithTheModel(s))
  <2>1. s.at \in Within
    BY <1>1 DEF Within, Running, Calling, Reading, Between
  <2>2. /\ Drops(s, {Over(s)}) /\ Drops(s, {Call(s, "last")}) /\ Drops(s, {To(s, "planning")})
        /\ Drops(s, {To(s, "round")})
    BY <1>1, <2>1, OverLower, ToLower, NearerPlaces DEF Drops
  <2>3. QED
    BY <2>2 DEF Drops, WithTheModel
<1>2. CASE EnterLoop(r)
  <2> DEFINE s == req[r]
             t == [s EXCEPT !.mode = "intents", !.at = "stage"]
  <2>1. s.at = "loop" /\ s.at \in Within /\ "stage" \in Within
    BY <1>2 DEF EnterLoop, Within, Running, Between
  <2>2. Drops(s, WithTheModel(s)) /\ Drops(s, Reads(r, s, "reading"))
    BY <1>1, <2>1, ReadsLower, NearerPlaces
  <2>3. t.at = "stage" /\ t.mode = "intents" /\ t.stopped = s.stopped
    BY DEF Request
  <2> HIDE DEF t
  <2>4. s.mode = "single" => Lower(s, t)
    BY <2>1, <2>3, PlacesLeft DEF Lower, Within
  <2>5. Drops(s, Reads(r, s, "reading") \cup WithTheModel(s)
                   \cup IF s.mode = "single" THEN {t} ELSE {})
    BY <2>2, <2>4 DEF Drops
  <2>6. QED
    BY <1>2, <2>5, StepDrops DEF EnterLoop, t
<1>3. CASE FileRead(r)
  <2>1. req[r].at = "reading" /\ req[r].at \in Reading
    BY <1>3 DEF FileRead, Reading
  <2>2. Drops(Idle(req[r]), WithTheModel(Idle(req[r])))
    BY <1>1, <2>1, IdleAlike DEF Alike
  <2>3. QED
    BY <1>3, <2>1, <2>2, ReadOnDrops DEF FileRead
<1>4. QED
  BY <1>2, <1>3

LEMMA RoundsDrop ==
  ASSUME NEW r \in Requests, req[r] \in Request, Round(r) \/ ModelReplies(r) \/ Repaired(r)
  PROVE  Dropped(r)
<1> DEFINE s == req[r]
<1>1. s.at \in {"round", "model", "repair"} /\ s.at \in Within /\ s.at \in InWork
  BY WorkStretch DEF Round, ModelReplies, Repaired, InWork, InRounds
<1>2. Drops(s, {Over(s)}) /\ Drops(s, LoopEndsAnyhow(s)) /\ Drops(s, {LoopEnds(s, TRUE)})
  BY <1>1, OverLower, LoopEndsLower
<1>3. CASE Round(r)
  <2>1. s.at = "round"
    BY <1>3 DEF Round
  <2>2. Drops(s, {To(s, "model")})
    BY <2>1, ToLower, NearerPlaces DEF Drops
  <2>3. QED
    BY <1>2, <1>3, <2>2, StepDrops DEF Round
<1>4. CASE ModelReplies(r)
  <2>1. s.at = "model"
    BY <1>4 DEF ModelReplies
  <2>2. /\ Drops(s, {Continue(s)}) /\ Drops(s, {Call(s, "last")}) /\ Drops(s, {To(s, "checked")})
        /\ Drops(s, {To(s, "repair")})
    BY <1>1, <2>1, ContinueLower, ToLower, NearerPlaces DEF Drops
  <2>3. Drops(s, LoopEndsAnyhow(s) \cup {Continue(s), Call(s, "last"), To(s, "checked"), To(s, "repair")})
    BY <1>2, <2>2 DEF Drops
  <2>4. QED
    BY <1>4, <2>3, StepDrops DEF ModelReplies
<1>5. CASE Repaired(r)
  <2>1. s.at = "repair"
    BY <1>5 DEF Repaired
  <2>2. Drops(s, {To(s, "checked")})
    BY <2>1, ToLower, NearerPlaces DEF Drops
  <2>3. ASSUME NEW g \in BOOLEAN
        PROVE  Lower(s, [s EXCEPT !.at = "offer", !.gated = g])
    <3> DEFINE t == [s EXCEPT !.at = "offer", !.gated = g]
    <3>1. t.at = "offer" /\ Same(s, t) /\ t.stopped = s.stopped
      BY DEF Request, Same
    <3> HIDE DEF t
    <3>2. Nearer(s.at, t.at)
      BY <2>1, <3>1, NearerPlaces
    <3>3. QED
      BY <3>1, <3>2, NearerLower DEF Same, t
  <2>4. Drops(s, {Over(s), LoopEnds(s, TRUE), To(s, "checked")}
                 \cup {[s EXCEPT !.at = "offer", !.gated = g] : g \in BOOLEAN})
    BY <1>2, <2>2, <2>3 DEF Drops
  <2>5. QED
    BY <1>5, <2>4, StepDrops DEF Repaired
<1>6. QED
  BY <1>3, <1>4, <1>5

LEMMA SentLower ==
  ASSUME NEW s \in Request, s.at \in {"offer", "asked"}
  PROVE  Drops(s, {Sent(s)})
<1>1. s.at \in Within /\ Nearer(s.at, "sent")
  BY WorkStretch, NearerPlaces DEF InWork, InRounds
<1>2. QED
  BY <1>1, OverLower, ToLower DEF Sent, Drops

LEMMA NoOfferDrops ==
  ASSUME NEW r \in Requests, req[r] \in Request, req[r].at \in {"offer", "sent"}, NoOffer(r, req[r])
  PROVE  Dropped(r)
<1>1. req[r].at \in Within /\ Nearer(req[r].at, "refused")
  BY WorkStretch, NearerPlaces DEF InWork, InRounds
<1>2. Drops(req[r], {To(req[r], "refused")}) /\ Drops(req[r], {Over(req[r])})
  BY <1>1, OverLower, ToLower DEF Drops
<1>3. QED
  BY <1>2, StepDrops DEF NoOffer

LEMMA OfferDrops ==
  ASSUME NEW r \in Requests, req[r] \in Request, Offer(r) \/ ExternalReplies(r)
  PROVE  Dropped(r)
<1> DEFINE s == req[r]
<1>1. s.at \in {"offer", "sent"} /\ s.at \in Within
  BY WorkStretch DEF Offer, ExternalReplies, InWork, InRounds
<1>2. CASE Offer(r)
  <2>1. s.at = "offer"
    BY <1>2 DEF Offer
  <2>2. Drops(s, {Sent(s)}) /\ Drops(s, {To(s, "asked")})
    BY <2>1, SentLower, ToLower, NearerPlaces DEF Drops
  <2>3. QED
    BY <1>2, <2>1, <2>2, NoOfferDrops, StepDrops DEF Offer
<1>3. CASE ExternalReplies(r)
  <2>1. s.at = "sent"
    BY <1>3 DEF ExternalReplies
  <2>2. Drops(s, {Over(s)}) /\ Drops(s, {LoopEnds(s, TRUE)}) /\ Drops(s, {To(s, "checked")})
    BY <1>1, <2>1, OverLower, LoopEndsLower, ToLower, NearerPlaces DEF Drops
  <2>3. Drops(s, {Over(s), LoopEnds(s, TRUE), To(s, "checked")})
    BY <2>2 DEF Drops
  <2>4. QED
    BY <1>3, <2>1, <2>3, NoOfferDrops, StepDrops DEF ExternalReplies
<1>4. QED
  BY <1>2, <1>3

LEMMA DecidedLower ==
  ASSUME NEW s \in Request, s.at \in {"checked", "tried"}
  PROVE  Drops(s, Decided(s))
<1>1. s.at \in Within /\ s.at \in InWork
  BY WorkStretch DEF InWork, InRounds
<1>2. Drops(s, {Over(s)}) /\ Drops(s, {Continue(s)}) /\ Drops(s, {Call(s, "running")}) /\ Drops(s, RunInPane(s))
  BY <1>1, OverLower, ContinueLower, ToLower, RunInPaneLower, NearerPlaces DEF Drops
<1>3. Drops(s, {Continue(Strike(s))})
  <2>1. Strike(s) \in Request /\ Alike(s, Strike(s)) /\ Strike(s).at \in InWork
    BY <1>1, IdleAlike DEF Alike
  <2>2. Drops(Strike(s), {Continue(Strike(s))})
    BY <2>1, ContinueLower
  <2>3. QED
    BY <2>1, <2>2, AlikeLower
<1>4. QED
  BY <1>2, <1>3 DEF Drops, Decided

LEMMA CheckedDrops ==
  ASSUME NEW r \in Requests, req[r] \in Request, Checked(r) \/ Tried(r)
  PROVE  Dropped(r)
<1>1. CASE Checked(r)
  <2> DEFINE s == [req[r] EXCEPT !.gated = FALSE]
             S == Reads(r, s, "tried") \cup Decided(s)
  <2>1. s \in Request /\ Alike(req[r], s) /\ s.at = "checked"
    <3>1. s \in Request
      BY Updated
    <3>2. QED
      BY <1>1, <3>1 DEF Alike, Same, Request, Checked
  <2>2. Step(r, S)
    BY <1>1 DEF Checked
  <2> HIDE DEF s
  <2>3. Drops(s, Reads(r, s, "tried")) /\ Drops(s, Decided(s))
    BY <2>1, ReadsLower, DecidedLower, NearerPlaces
  <2>4. Drops(s, S)
    BY <2>3 DEF Drops
  <2>5. Drops(req[r], S)
    BY <2>1, <2>4, AlikeLower
  <2>6. QED
    BY <2>2, <2>5, StepDrops
<1>2. CASE Tried(r)
  <2>1. Idle(req[r]) \in Request /\ Idle(req[r]).at = "tried"
    BY <1>2, IdleAlike DEF Alike, Tried
  <2>2. QED
    BY <1>2, <2>1, DecidedLower, ReturnDrops DEF Tried
<1>3. QED
  BY <1>1, <1>2

LEMMA SucceededLower ==
  ASSUME NEW s \in Request, s.at \in {"running", "listed"}
  PROVE  Drops(s, Succeeded(s))
<1> DEFINE u == [s EXCEPT !.strikes = 0]
<1>1. u \in Request /\ Alike(s, u)
  <2>1. u \in Request
    <3>1. 0 \in 0..MaxStrikes
      BY Constants
    <3>2. QED
      BY <3>1, Updated
  <2>2. QED
    BY <2>1 DEF Alike, Same, Request
<1> HIDE DEF u
<1>2. s.at \in Within /\ u.at \in InWork
  BY <1>1, WorkStretch DEF InWork, InRounds, Alike
<1>3. Drops(s, {Continue(u)})
  BY <1>1, <1>2, ContinueLower, AlikeLower
<1>4. QED
  BY <1>2, <1>3, LoopEndsLower DEF Succeeded, Drops, u

LEMMA RunningDrops ==
  ASSUME NEW r \in Requests, req[r] \in Request, RunningReturns(r)
  PROVE  Dropped(r)
<1> DEFINE s == Idle(req[r])
<1>1. s \in Request /\ s.at = "running"
  BY IdleAlike DEF Alike, RunningReturns
<1> HIDE DEF s
<1>2. s.at \in Within
  BY <1>1, WorkStretch DEF InWork, InRounds
<1>3. Drops(s, Succeeded(s)) /\ Drops(s, {Over(s)}) /\ Drops(s, {To(s, "smart")})
  BY <1>1, <1>2, SucceededLower, OverLower, ToLower, NearerPlaces DEF Drops
<1>4. QED
  BY <1>3, ReturnDrops DEF RunningReturns, s

LEMMA LookUpDrops ==
  ASSUME NEW r \in Requests, req[r] \in Request, SmartFallback(r) \/ ListingReturns(r) \/ SourceRead(r)
  PROVE  Dropped(r)
<1>1. CASE SmartFallback(r)
  <2> DEFINE s == req[r]
  <2>1. s.at = "smart"
    BY <1>1 DEF SmartFallback
  <2>2. /\ Drops(s, Failed(r, s)) /\ Drops(s, Reads(r, s, "listed")) /\ Drops(s, {Call(s, "last")})
        /\ Drops(s, {To(s, "guess")})
    BY <2>1, FailedLower, ToLower, ReadsLower, NearerPlaces DEF Drops
  <2>3. Drops(s, Failed(r, s) \cup Reads(r, s, "listed") \cup {Call(s, "last")})
    BY <2>2 DEF Drops
  <2>4. QED
    BY <1>1, <2>2, <2>3, StepDrops DEF SmartFallback
<1>2. CASE ListingReturns(r)
  <2> DEFINE s == Idle(req[r])
             S == Failed(r, s) \cup Succeeded(s)
  <2>1. s \in Request /\ s.at = "listed" /\ req[r].at = "listed" /\ req[r].at \in Reading
    BY <1>2, IdleAlike DEF Alike, ListingReturns, Reading
  <2>2. /\ Reads(r, req[r], "listed") \cup Failed(r, s) \cup Succeeded(s)
             = Reads(r, req[r], req[r].at) \cup S
        /\ \/ Step(r, Reads(r, req[r], "listed") \cup Failed(r, s) \cup Succeeded(s))
           \/ Goes(r, {To(s, "guess")})
    BY <1>2, <2>1 DEF ListingReturns
  <2> HIDE DEF s
  <2>3. Drops(s, Failed(r, s)) /\ Drops(s, Succeeded(s)) /\ Drops(s, {To(s, "guess")})
    BY <2>1, FailedLower, SucceededLower, ToLower, NearerPlaces DEF Drops
  <2>4. Drops(s, S)
    BY <2>3 DEF Drops
  <2> HIDE DEF S
  <2>5. QED
    BY <2>1, <2>2, <2>3, <2>4, ReadOnDrops, ReturnDrops DEF s
<1>3. CASE SourceRead(r)
  <2> DEFINE s == Idle(req[r])
  <2>1. s \in Request /\ s.at = "sources" /\ req[r].at = "sources" /\ req[r].at \in Reading
    BY <1>3, IdleAlike DEF Alike, SourceRead, Reading
  <2>2. s.at \in InWork
    BY <2>1 DEF InWork, InRounds
  <2>3. Drops(s, {Continue(s)})
    BY <2>1, <2>2, ContinueLower
  <2>4. QED
    BY <1>3, <2>1, <2>3, ReadOnDrops DEF SourceRead
<1>4. QED
  BY <1>1, <1>2, <1>3

LEMMA LastDrops ==
  ASSUME NEW r \in Requests, req[r] \in Request, LastReturns(r)
  PROVE  Dropped(r)
<1> DEFINE s == Idle(req[r])
<1>1. s \in Request /\ s.at \in Within
  BY IdleAlike DEF Alike, LastReturns, Within, Running, Calling
<1> HIDE DEF s
<1>2. \A b : Drops(s, {LoopEnds(s, b)})
  BY <1>1, LoopEndsLower
<1>3. QED
  BY <1>2, ReturnDrops DEF LastReturns, s

-----------------------------------------------------------------------------
(* Phases that wait for phases                                             *)

(* The stacks agree on the k outermost phases, and the next went on        *)
LEMMA LevelsGoDown ==
  ASSUME NEW s \in Request, NEW t, t.subs \in Seq(0..2), NEW k \in 0..MaxDepth,
         k <= Len(s.subs), k <= Len(t.subs),
         \A d \in 1..k : t.subs[Len(t.subs) + 1 - d] = s.subs[Len(s.subs) + 1 - d],
         LevelLeft(t, k + 1) < LevelLeft(s, k + 1)
  PROVE  LevelsLower(s, t)
<1>1. Len(s.subs) \in Nat /\ Len(t.subs) \in Nat /\ k + 1 \in 1..(MaxDepth + 1) /\ k + 1 - 1 = k
  BY FieldTypes, Constants
<1>2. ASSUME NEW c \in 1..(k + 1 - 1)
      PROVE  LevelLeft(t, c) = LevelLeft(s, c)
  <2>1. c \in 1..k /\ c <= Len(s.subs) /\ c <= Len(t.subs)
    BY <1>1, <1>2
  <2>2. QED
    BY <2>1 DEF LevelLeft
<1>3. QED
  BY <1>1, <1>2 DEF LevelsLower

LEMMA PhaseLower ==
  ASSUME NEW s \in Request, NEW t, s.at \in InPhase, t.at \in InPhase, Same(s, t),
         t.stopped = s.stopped, LevelsLower(s, t)
  PROVE  Lower(s, t)
<1>1. s.at \in Within /\ t.at \in Within
  BY WorkStretch DEF InWork
<1>2. WholeOf(s.at) = 2 /\ WholeOf(t.at) = 2
  BY <1>1, PlacesLeft DEF Within
<1>3. /\ StretchOf(s.at) = 1 /\ StretchOf(t.at) = 1 /\ InRoundOf(s.at) = 0 /\ InRoundOf(t.at) = 0
      /\ {s.at, t.at} \cap Reading = {}
  BY WorkStretch DEF InWork, InPhase, Reading
<1>4. QED
  BY <1>2, <1>3 DEF Lower, InStageLower, Same

(* The level of the phase that is at work                                  *)
LEMMA TopLevel ==
  ASSUME NEW s \in Request
  PROVE  /\ LevelLeft(s, Len(s.subs) + 1) = LeftOf(InPhaseCall, s.at, 0)
         /\ LeftOf(InPhaseCall, "main", 0) = 5 /\ LeftOf(InPhaseCall, "retry", 0) = 1
         /\ LeftOf(InPhaseCall, "sub", 0) = 0
         /\ s.subs # <<>> => LevelLeft(s, Len(s.subs)) = Head(s.subs) + 2
<1>1. Len(s.subs) \in Nat /\ s.subs \in Seq(0..2)
  BY FieldTypes
<1>2. LevelLeft(s, Len(s.subs) + 1) = LeftOf(InPhaseCall, s.at, 0)
  BY <1>1 DEF LevelLeft
<1>3. s.subs # <<>> => LevelLeft(s, Len(s.subs)) = Head(s.subs) + 2
  <2>1. Len(s.subs) + 1 - Len(s.subs) = 1 /\ Len(s.subs) <= Len(s.subs)
    BY <1>1
  <2>2. s.subs # <<>> => Head(s.subs) = s.subs[1]
    BY <1>1
  <2>3. QED
    BY <2>1, <2>2 DEF LevelLeft
<1>4. QED
  BY <1>2, <1>3 DEF LeftOf, InPhaseCall

(* A call of a phase that comes to its retry, or to its end                *)
LEMMA CallReturnsLower ==
  ASSUME NEW s \in Request, NEW t \in Request, Same(s, t), t.stopped = s.stopped, t.subs = s.subs,
         Len(s.subs) <= MaxDepth,
         (s.at = "main" /\ t.at \in {"retry", "sub"}) \/ (s.at = "retry" /\ t.at = "sub")
  PROVE  Lower(s, t)
<1>1. Len(s.subs) \in 0..MaxDepth /\ t.subs \in Seq(0..2)
  BY FieldTypes, Constants
<1>2. LevelLeft(t, Len(s.subs) + 1) < LevelLeft(s, Len(s.subs) + 1)
  BY TopLevel
<1>3. LevelsLower(s, t)
  BY <1>1, <1>2, LevelsGoDown
<1>4. QED
  BY <1>3, PhaseLower DEF InPhase

LEMMA PhaseReturnsLower ==
  ASSUME NEW s \in Request, s.at \in {"phase", "main", "retry"}, Len(s.subs) <= MaxDepth
  PROVE  Drops(s, {PhaseReturns(s)})
<1> DEFINE t == PhaseReturns(s)
<1>1. CASE s.subs = <<>>
  <2>1. t.at = "phase" /\ t.mode = s.mode /\ t.stopped = s.stopped /\ t.stage = s.stage
        /\ t.round = s.round /\ t.phase = s.phase + 1
    BY <1>1 DEF PhaseReturns, Request
  <2> HIDE DEF t
  <2>2. s.at \in InWork /\ "phase" \in InWork /\ s.phase \in Nat /\ s.round \in Nat
    BY FieldTypes DEF InWork, InPhase
  <2>3. QED
    BY <2>1, <2>2, AnotherLower DEF Drops, t
<1>2. CASE s.subs # <<>>
  <2>1. t = To(s, "sub") /\ "sub" \in Running
    BY <1>2 DEF PhaseReturns, Running, Between
  <2>2. t \in Request /\ t.at = "sub" /\ Same(s, t) /\ t.stopped = s.stopped /\ t.subs = s.subs
    BY <2>1, ToFields DEF Keeps
  <2> HIDE DEF t
  <2>3. CASE s.at = "phase"
    BY <2>2, <2>3, NearerPlaces, NearerLower DEF Drops, Same, t
  <2>4. CASE s.at # "phase"
    BY <2>2, <2>4, CallReturnsLower DEF Drops, t
  <2>5. QED
    BY <2>3, <2>4
<1>3. QED
  BY <1>1, <1>2

LEMMA PhaseCallLower ==
  ASSUME NEW s \in Request, s.at = "phase"
  PROVE  Drops(s, {PhaseCall(s)})
<1>1. Nearer(s.at, "main")
  BY NearerPlaces
<1>2. QED
  BY <1>1, ToLower DEF PhaseCall, Drops

LEMMA PreparedLower ==
  ASSUME NEW s \in Request, s.at = "main", Len(s.subs) <= MaxDepth
  PROVE  Drops(s, Prepared(s))
<1>1. Lower(s, Retry(s))
  <2>1. "retry" \in Running
    BY DEF Running, Calling
  <2>2. Retry(s) \in Request /\ Retry(s).at = "retry" /\ Same(s, Retry(s))
        /\ Retry(s).stopped = s.stopped /\ Retry(s).subs = s.subs
    BY <2>1, HeedlessFields, DeafFields DEF Retry
  <2>3. QED
    BY <2>2, CallReturnsLower
<1>2. ASSUME NEW n \in 1..2, Len(s.subs) < MaxDepth
      PROVE  Lower(s, [s EXCEPT !.at = "sub", !.subs = <<n>> \o s.subs])
  <2> DEFINE q == <<n>> \o s.subs
             t == [s EXCEPT !.at = "sub", !.subs = q]
  <2>1. s.subs \in Seq(0..2) /\ <<n>> \in Seq(0..2) /\ Len(s.subs) \in 0..MaxDepth
    BY FieldTypes, Constants
  <2>2. /\ q \in Seq(0..2) /\ Len(q) = Len(s.subs) + 1 /\ q[1] = n
        /\ \A i \in 1..Len(s.subs) : q[i + 1] = s.subs[i]
    BY <2>1
  <2> HIDE DEF q
  <2>3. t.at = "sub" /\ Same(s, t) /\ t.stopped = s.stopped /\ t.subs = q
    BY DEF Request, Same
  <2> HIDE DEF t
  <2>4. LevelLeft(s, Len(s.subs) + 1) = 5
    BY TopLevel
  <2>5. LevelLeft(t, Len(s.subs) + 1) = n + 2
    <3>1. Len(s.subs) + 1 <= Len(q) /\ Len(q) + 1 - (Len(s.subs) + 1) = 1
      BY <2>1, <2>2
    <3>2. QED
      BY <2>2, <2>3, <3>1 DEF LevelLeft
  <2>6. \A d \in 1..Len(s.subs) : q[Len(q) + 1 - d] = s.subs[Len(s.subs) + 1 - d]
    <3>1. ASSUME NEW d \in 1..Len(s.subs)
          PROVE  q[Len(q) + 1 - d] = s.subs[Len(s.subs) + 1 - d]
      <4>1. /\ Len(s.subs) + 1 - d \in 1..Len(s.subs)
            /\ (Len(s.subs) + 1 - d) + 1 = Len(q) + 1 - d
        BY <2>1, <2>2
      <4>2. QED
        BY <2>2, <4>1
    <3>2. QED
      BY <3>1
  <2>7. LevelsLower(s, t)
    <3>1. LevelLeft(t, Len(s.subs) + 1) < LevelLeft(s, Len(s.subs) + 1)
      BY <2>4, <2>5
    <3>2. Len(s.subs) <= Len(s.subs) /\ Len(s.subs) <= Len(q)
      BY <2>1, <2>2
    <3>3. QED
      BY <2>1, <2>2, <2>3, <2>6, <3>1, <3>2, LevelsGoDown
  <2>8. Lower(s, t)
    BY <2>3, <2>7, PhaseLower DEF InPhase
  <2>9. QED
    BY <2>8 DEF t, q
<1>3. QED
  BY <1>1, <1>2 DEF Prepared, Drops

LEMMA PlanDrops ==
  ASSUME NEW r \in Requests, Sound(r, req[r]), Planned(r) \/ Phase(r) \/ MainReturns(r) \/ RetryReturns(r)
  PROVE  Dropped(r)
<1>1. req[r] \in Request /\ Len(req[r].subs) <= MaxDepth
  BY DEF Sound, Inv, BoundsInv
<1>2. CASE Planned(r)
  <2>1. req[r].at = "planning" /\ req[r].at \in Within
    BY <1>2 DEF Planned, Within, Running, Thinking
  <2>2. Drops(req[r], {Over(req[r])}) /\ Drops(req[r], {To(req[r], "phase")})
    BY <1>1, <2>1, OverLower, ToLower, NearerPlaces DEF Drops
  <2>3. QED
    BY <1>2, <2>2, StepDrops DEF Planned, Dropped, Drops
<1>3. CASE Phase(r)
  <2> DEFINE s == req[r]
  <2>1. s.at = "phase" /\ s.at \in Within
    BY <1>3 DEF Phase, Within, Running, Between
  <2>2. /\ Drops(s, {Over(s)}) /\ Drops(s, LoopEndsAnyhow(s)) /\ Drops(s, {PhaseReturns(s)})
        /\ Drops(s, {PhaseCall(s)})
    BY <1>1, <2>1, OverLower, LoopEndsLower, PhaseReturnsLower, PhaseCallLower
  <2>3. Drops(s, LoopEndsAnyhow(s)
                 \cup IF s.phase < MaxParts[r] THEN {PhaseReturns(s), PhaseCall(s)} ELSE {})
    BY <2>2 DEF Drops
  <2>4. QED
    BY <1>3, <2>2, <2>3, StepDrops DEF Phase
<1>4. CASE MainReturns(r) \/ RetryReturns(r)
  <2> DEFINE s == Idle(req[r])
  <2>1. s \in Request /\ s.at = req[r].at /\ s.at \in {"main", "retry"} /\ Len(s.subs) <= MaxDepth
    BY <1>1, <1>4, IdleAlike DEF Alike, MainReturns, RetryReturns
  <2> HIDE DEF s
  <2>2. Drops(s, {PhaseReturns(s)}) /\ (s.at = "main" => Drops(s, Prepared(s)))
    BY <2>1, PhaseReturnsLower, PreparedLower
  <2>3. \A b \in BOOLEAN : s.at = "main" => Drops(s, {PhaseReturns(s)} \cup IF b THEN Prepared(s) ELSE {})
    BY <2>2 DEF Drops
  <2>4. QED
    BY <1>1, <1>4, <2>1, <2>2, <2>3, ReturnDrops DEF MainReturns, RetryReturns, s
<1>5. QED
  BY <1>2, <1>3, <1>4

(* What a waiting phase does next                                          *)
LEMMA SubDrops ==
  ASSUME NEW r \in Requests, Sound(r, req[r]), SubPhase(r)
  PROVE  Dropped(r)
<1> DEFINE s == req[r]
           k == Len(s.subs) - 1
           popped == [s EXCEPT !.subs = Tail(s.subs)]
           q == <<Head(s.subs) - 1>> \o Tail(s.subs)
           next == [s EXCEPT !.subs = q]
<1>1. /\ s \in Request /\ s.at = "sub" /\ s.subs \in Seq(0..2) /\ s.subs # <<>> /\ Len(s.subs) <= MaxDepth
  BY FieldTypes DEF SubPhase, Sound, Inv, BoundsInv, StackInv
<1>2. /\ Head(s.subs) \in 0..2 /\ Tail(s.subs) \in Seq(0..2) /\ Len(Tail(s.subs)) = k
      /\ k \in 0..MaxDepth /\ k + 1 = Len(s.subs) /\ k \in Nat
      /\ \A i \in 1..k : Tail(s.subs)[i] = s.subs[i + 1]
  BY <1>1, Constants
<1>3. LevelLeft(s, k + 1) = Head(s.subs) + 2
  BY <1>1, <1>2, TopLevel
<1>4. popped \in Request /\ popped.at = "sub" /\ Same(s, popped) /\ popped.stopped = s.stopped
      /\ popped.subs = Tail(s.subs)
  <2>1. popped \in Request
    BY <1>1, <1>2, Updated
  <2>2. QED
    BY <1>1, <2>1 DEF Same, Request
<1> HIDE DEF popped, k
<1>5. ASSUME NEW t \in Request, t.at \in {"retry", "sub"}, Same(s, t), t.stopped = s.stopped,
             t.subs = Tail(s.subs)
      PROVE  Lower(s, t)
  <2>1. LevelLeft(t, k + 1) \in {0, 1}
    BY <1>2, <1>5, TopLevel
  <2>2. LevelLeft(t, k + 1) < LevelLeft(s, k + 1)
    BY <1>2, <1>3, <2>1
  <2>3. ASSUME NEW d \in 1..k
        PROVE  t.subs[Len(t.subs) + 1 - d] = s.subs[Len(s.subs) + 1 - d]
    <3>1. k + 1 - d \in 1..k /\ (k + 1 - d) + 1 = Len(s.subs) + 1 - d
      BY <1>2
    <3>2. QED
      BY <1>2, <1>5, <3>1
  <2>4. k <= Len(s.subs) /\ k <= Len(t.subs)
    BY <1>2, <1>5
  <2>5. LevelsLower(s, t)
    BY <1>1, <1>2, <1>5, <2>2, <2>3, <2>4, LevelsGoDown
  <2>6. QED
    BY <1>1, <1>5, <2>5, PhaseLower DEF InPhase
<1>6. Drops(s, {Retry(popped)})
  <2>1. "retry" \in Running
    BY DEF Running, Calling
  <2>2. Retry(popped) \in Request /\ Retry(popped).at = "retry" /\ Same(popped, Retry(popped))
        /\ Retry(popped).stopped = popped.stopped /\ Retry(popped).subs = popped.subs
    BY <1>4, <2>1, HeedlessFields, DeafFields DEF Retry
  <2>3. QED
    BY <1>4, <1>5, <2>2 DEF Drops, Same
<1>7. Drops(s, {PhaseReturns(popped)})
  <2>1. CASE popped.subs = <<>>
    <3> DEFINE t == PhaseReturns(popped)
    <3>1. t.at = "phase" /\ t.mode = s.mode /\ t.stopped = s.stopped /\ t.stage = s.stage
          /\ t.round = s.round /\ t.phase = s.phase + 1
      BY <1>4, <2>1 DEF PhaseReturns, Request, Same
    <3> HIDE DEF t
    <3>2. s.at \in InWork /\ "phase" \in InWork /\ s.phase \in Nat /\ s.round \in Nat
      BY <1>1, FieldTypes DEF InWork, InPhase
    <3>3. QED
      BY <1>1, <3>1, <3>2, AnotherLower DEF Drops, t
  <2>2. CASE popped.subs # <<>>
    <3>1. PhaseReturns(popped) = To(popped, "sub") /\ "sub" \in Running
      BY <2>2 DEF PhaseReturns, Running, Between
    <3>2. To(popped, "sub") \in Request /\ To(popped, "sub").at = "sub" /\ Same(popped, To(popped, "sub"))
          /\ To(popped, "sub").stopped = popped.stopped /\ To(popped, "sub").subs = popped.subs
      BY <1>4, <3>1, ToFields DEF Keeps
    <3>3. QED
      BY <1>4, <1>5, <3>1, <3>2 DEF Drops, Same
  <2>3. QED
    BY <2>1, <2>2
<1>8. CASE Head(s.subs) # 0
  <2>1. <<Head(s.subs) - 1>> \in Seq(0..2)
    BY <1>2, <1>8
  <2>2. /\ q \in Seq(0..2) /\ Len(q) = k + 1 /\ q[1] = Head(s.subs) - 1
        /\ \A i \in 1..k : q[i + 1] = Tail(s.subs)[i]
    BY <1>2, <2>1
  <2> HIDE DEF q
  <2>3. next \in Request /\ next.at = "sub" /\ Same(s, next) /\ next.stopped = s.stopped /\ next.subs = q
    <3>1. next \in Request
      BY <1>1, <2>2, Updated
    <3>2. QED
      BY <1>1, <3>1 DEF Same, Request
  <2> HIDE DEF next
  <2>4. ASSUME NEW t \in Request, t.at \in {"main", "sub"}, Same(s, t), t.stopped = s.stopped, t.subs = q
        PROVE  Lower(s, t)
    <3>1. LevelLeft(t, k + 1) = Head(s.subs) - 1 + 2
      <4>1. q # <<>> /\ Head(q) = Head(s.subs) - 1
        BY <1>2, <2>2
      <4>2. QED
        BY <2>2, <2>4, <4>1, TopLevel
    <3>2. LevelLeft(t, k + 1) < LevelLeft(s, k + 1)
      BY <1>2, <1>3, <3>1
    <3>3. ASSUME NEW d \in 1..k
          PROVE  t.subs[Len(t.subs) + 1 - d] = s.subs[Len(s.subs) + 1 - d]
      <4>1. /\ k + 1 - d \in 1..k /\ (k + 1 - d) + 1 = Len(s.subs) + 1 - d
            /\ (k + 1 - d) + 1 = Len(t.subs) + 1 - d
        BY <1>2, <2>2, <2>4
      <4>2. q[(k + 1 - d) + 1] = s.subs[(k + 1 - d) + 1]
        BY <1>2, <2>2, <4>1
      <4>3. QED
        BY <2>4, <4>1, <4>2
    <3>4. k <= Len(s.subs) /\ k <= Len(t.subs)
      BY <1>2, <2>2, <2>4
    <3>5. LevelsLower(s, t)
      BY <1>1, <1>2, <2>2, <2>4, <3>2, <3>3, <3>4, LevelsGoDown
    <3>6. QED
      BY <1>1, <2>4, <3>5, PhaseLower DEF InPhase
  <2>5. "main" \in Running /\ "sub" \in Running
    BY DEF Running, Calling, Between
  <2>6. Lower(s, To(next, "sub"))
    BY <2>3, <2>4, <2>5, ToFields DEF Same, Keeps
  <2>7. Lower(s, Call(next, "main")) /\ Lower(s, HeedlessCall(next, "main"))
    <3>1. ASSUME NEW t \in Request, t.at = "main", Same(next, t), t.stopped = next.stopped, t.subs = next.subs
          PROVE  Lower(s, t)
      <4>1. Same(s, t)
        BY <2>3, <3>1 DEF Same
      <4>2. QED
        BY <2>3, <2>4, <3>1, <4>1
    <3>2. Lower(s, Call(next, "main"))
      BY <2>3, <2>5, <3>1, CallFields DEF Keeps
    <3>3. Lower(s, HeedlessCall(next, "main"))
      BY <2>3, <2>5, <3>1, HeedlessFields
    <3>4. QED
      BY <3>2, <3>3
  <2>8. Drops(s, {PhaseCall(next), To(next, "sub")})
    BY <2>6, <2>7 DEF Drops, PhaseCall
  <2>9. QED
    BY <1>7, <1>8, <2>8, StepDrops DEF SubPhase, next, popped, q
<1>9. CASE Head(s.subs) = 0
  BY <1>6, <1>9, StepDrops DEF SubPhase, popped
<1>10. QED
  BY <1>8, <1>9

-----------------------------------------------------------------------------
(* Chains, the person, and the whole                                       *)

LEMMA ChainDrops ==
  ASSUME NEW r \in Requests, req[r] \in Request, Link(r) \/ LinkReturns(r)
  PROVE  Dropped(r)
<1>1. CASE Link(r)
  <2> DEFINE s == req[r]
  <2>1. s.at = "link" /\ s.at \in Within
    BY <1>1 DEF Link, Within, Running, Between
  <2>2. Drops(s, {Over(s)}) /\ Drops(s, {Call(s, "linking")}) /\ Drops(s, RunInPane(s))
    BY <2>1, OverLower, ToLower, RunInPaneLower, NearerPlaces DEF Drops
  <2>3. Drops(s, {Over(s), Call(s, "linking")} \cup RunInPane(s))
    BY <2>2 DEF Drops
  <2>4. QED
    BY <1>1, <2>2, <2>3, StepDrops DEF Link
<1>2. CASE LinkReturns(r)
  <2> DEFINE s == Idle(req[r])
             t == [s EXCEPT !.at = "link", !.phase = @ + 1]
  <2>1. s \in Request /\ s.at = "linking"
    BY <1>2, IdleAlike DEF Alike, LinkReturns
  <2> HIDE DEF s
  <2>2. s.at \in InWork /\ s.at \in Within /\ "link" \in InWork /\ s.phase \in Nat /\ s.round \in Nat
    BY <2>1, WorkStretch, FieldTypes DEF InWork
  <2>3. t.at = "link" /\ t.mode = s.mode /\ t.stopped = s.stopped /\ t.stage = s.stage
        /\ t.round = s.round /\ t.phase = s.phase + 1
    BY <2>1 DEF Request
  <2> HIDE DEF t
  <2>4. Lower(s, t)
    BY <2>1, <2>2, <2>3, AnotherLower
  <2>5. Drops(s, {Over(s)}) /\ Drops(s, {Over(s), t})
    BY <2>1, <2>2, <2>4, OverLower DEF Drops
  <2>6. QED
    BY <1>2, <2>5, ReturnDrops DEF LinkReturns, s, t
<1>3. QED
  BY <1>1, <1>2

LEMMA PersonDrops ==
  ASSUME NEW r \in Requests, req[r] \in Request,
         Consent(r) \/ \E v \in Views : Answers(v, r)
  PROVE  Dropped(r)
<1> DEFINE s == req[r]
<1>1. s.at \in Asking /\ s.at \in Within
  BY DEF Consent, ConsentToBatch, ConsentToPane, Answers, AnswerOffer, AnswerRefused, AnswerGuess,
     Within, Running, Asking
<1>2. Drops(s, {Over(s)})
  BY <1>1, OverLower
<1>3. CASE ConsentToBatch(r)
  <2>1. s.at = "batch"
    BY <1>3 DEF ConsentToBatch
  <2>2. Drops(s, {Over(s), To(s, "link")})
    BY <1>2, <2>1, ToLower, NearerPlaces DEF Drops
  <2>3. QED
    BY <1>3, <2>2, StepDrops DEF ConsentToBatch
<1>4. CASE ConsentToPane(r)
  <2>1. s.at = "paneAsk"
    BY <1>4 DEF ConsentToPane
  <2>2. Drops(s, {Over(s)} \cup Spawn(s))
    BY <1>2, <2>1, SpawnLower DEF Drops
  <2>3. QED
    BY <1>2, <1>4, <2>2, StepDrops DEF ConsentToPane
<1>5. ASSUME NEW v \in Views, AnswerOffer(v, r)
      PROVE  Dropped(r)
  <2>1. s.at = "asked"
    BY <1>5 DEF AnswerOffer
  <2>2. Drops(s, {Sent(s)}) /\ Drops(s, {To(s, "refused")})
    BY <2>1, SentLower, ToLower, NearerPlaces DEF Drops
  <2>3. QED
    BY <1>2, <1>5, <2>2, StepDrops DEF AnswerOffer, Dropped, Drops
<1>6. ASSUME NEW v \in Views, AnswerRefused(v, r)
      PROVE  Dropped(r)
  <2>1. s.at = "refused"
    BY <1>6 DEF AnswerRefused
  <2>2. Drops(s, {Over(s), To(s, "checked")})
    BY <1>2, <2>1, ToLower, NearerPlaces DEF Drops
  <2>3. QED
    BY <1>6, <2>2, StepDrops DEF AnswerRefused
<1>7. ASSUME NEW v \in Views, AnswerGuess(v, r)
      PROVE  Dropped(r)
  <2>1. s.at = "guess"
    BY <1>7 DEF AnswerGuess
  <2>2. Drops(s, Failed(r, s) \cup {Call(s, "last")})
    BY <2>1, FailedLower, ToLower, NearerPlaces DEF Drops
  <2>3. QED
    BY <1>7, <2>2, StepDrops DEF AnswerGuess
<1>8. QED
  BY <1>3, <1>4, <1>5, <1>6, <1>7 DEF Consent, Answers

LEMMA EndsDrop ==
  ASSUME IInv, NEW r \in Requests, Begin(r) \/ Close(r) \/ Stop(r)
  PROVE  Dropped(r)
<1> DEFINE s == req[r]
<1>1. s \in Request /\ Sound(r, s)
  BY DEF IInv, SoundInv, Sound
<1>2. CASE Begin(r)
  <2>1. PICK e \in Entries(s, question[ViewOf[r]]) : req' = [req EXCEPT ![r] = e.to]
    BY <1>2 DEF Begin
  <2>2. question[ViewOf[r]] \in SUBSET {"directory", "plan"} /\ s.at = "new"
    BY <1>2, Constants DEF IInv, TypeOK, Begin
  <2>3. e.to.at \in Running
    BY <1>1, <2>1, <2>2, EntriesSound
  <2>4. WholeOf(e.to.at) < WholeOf(s.at)
    BY <2>2, <2>3, PlacesLeft
  <2>5. QED
    BY <2>1, <2>4 DEF Dropped, Lower
<1>3. CASE Close(r)
  <2> DEFINE t == [New EXCEPT !.at = "ended"]
  <2>1. t.at = "ended" /\ s.at = "over"
    BY <1>3 DEF New, Close
  <2>2. WholeOf(t.at) < WholeOf(s.at)
    BY <2>1, PlacesLeft
  <2>3. QED
    BY <1>3, <2>2 DEF Dropped, Lower, Close
<1>4. CASE Stop(r)
  <2> DEFINE t == [s EXCEPT !.stopped = TRUE, !.call = IF @ = "running" THEN "cancelled" ELSE @]
  <2>1. t.at = s.at /\ t.stopped = TRUE
    BY <1>1 DEF Request
  <2>2. ~s.stopped /\ Step(r, {t})
    BY <1>4 DEF Stop
  <2> HIDE DEF t
  <2>3. Lower(s, t)
    BY <2>1, <2>2 DEF Lower
  <2>4. QED
    BY <2>2, <2>3, StepDrops DEF Drops
<1>5. QED
  BY <1>2, <1>3, <1>4

LEMMA NextDrops ==
  ASSUME IInv, Next
  PROVE  req' = req \/ \E r \in Requests : Dropped(r)
<1>1. \A r \in Requests : Sound(r, req[r]) /\ req[r] \in Request
  BY DEF IInv, SoundInv, Sound
<1>2. ASSUME NEW r \in Requests, LoopStep(r)
      PROVE  Dropped(r)
  BY <1>1, <1>2, RouteDrops, ShortcutDrops, StageDrops, EnterDrops, RoundsDrop, OfferDrops, CheckedDrops,
     RunningDrops, LookUpDrops, LastDrops
  DEF LoopStep
<1>3. ASSUME NEW r \in Requests, PlanStep(r) \/ ChainStep(r)
      PROVE  Dropped(r)
  BY <1>1, <1>3, PlanDrops, SubDrops, ChainDrops DEF PlanStep, ChainStep
<1>4. ASSUME NEW r \in Requests, Begin(r) \/ Stop(r) \/ CodeStep(r) \/ Consent(r)
      PROVE  Dropped(r)
  BY <1>1, <1>2, <1>3, <1>4, EndsDrop, PersonDrops DEF CodeStep
<1>5. ASSUME NEW v \in Views, NEW r \in Requests, Answers(v, r)
      PROVE  Dropped(r)
  BY <1>1, <1>5, PersonDrops
<1>6. ASSUME NEW v \in Views, ViewStep(v)
      PROVE  req' = req
  BY <1>6 DEF ViewStep
<1>7. QED
  BY <1>4, <1>5, <1>6 DEF Next

Descends(r) == req'[r] # req[r] => Less(WorkLeft(r, req'[r]), WorkLeft(r, req[r]))

(* Every step a request takes, or the person takes for it, leaves it less  *)
(* to do, and what another request does leaves it as it is.                *)
THEOREM NoCirclesProved == Spec => NoCircles
<1>1. IInv /\ [Next]_vars => [\A r \in Requests : Descends(r)]_vars
  <2> SUFFICES ASSUME IInv, [Next]_vars, NEW q \in Requests, req'[q] # req[q]
               PROVE  Less(WorkLeft(q, req'[q]), WorkLeft(q, req[q]))
    BY DEF Descends
  <2>1. req \in [Requests -> Request] /\ req' \in [Requests -> Request]
    BY InvStep DEF IInv, TypeOK
  <2>2. Next
    BY DEF vars
  <2>3. PICK r \in Requests : \E t : req' = [req EXCEPT ![r] = t] /\ (Lower(req[r], t) \/ ReadOn(req[r], t))
    BY <2>2, NextDrops DEF Dropped
  <2>4. PICK t : req' = [req EXCEPT ![r] = t] /\ (Lower(req[r], t) \/ ReadOn(req[r], t))
    BY <2>3
  <2>5. q = r /\ req'[q] = t
    BY <2>1, <2>4
  <2>6. req[q] \in Request /\ t \in Request /\ t.reads <= MaxReads[q]
    BY <2>1, <2>5, InvStep DEF IInv, TypeOK
  <2>7. QED
    BY <2>4, <2>5, <2>6, LowerIsLess
<1>2. QED
  BY <1>1, AgentInvariant, PTL DEF Spec, NoCircles, Descends

(* What WorkLeft counts with, and its order                                *)
Work == [1..(9 + MaxDepth + 1) -> Nat]
LessWork == {w \in Work \X Work : Less(w[1], w[2])}

(* Nothing goes down for ever in this order, whatever the bounds are       *)
THEOREM WorkRunsOut == IsWellFoundedOn(LessWork, Work)
<1> DEFINE n == 9 + MaxDepth + 1
           below == OpToRel(<, Nat)
<1>1. n \in Nat
  BY Constants
<1>2. IsWellFoundedOn(LexProductOrdering(below, Nat, n), [1..n -> Nat])
  <2>1. IsWellFoundedOn(below, Nat)
    BY NatLessThanWellFounded
  <2> HIDE DEF below, n
  <2>2. QED
    BY <1>1, <2>1, WFLexProductOrdering
<1>3. LessWork = LexProductOrdering(below, Nat, n)
  <2>1. ASSUME NEW w \in Work \X Work
        PROVE  Less(w[1], w[2]) <=> \E j \in 1..n : /\ \A i \in 1..(j - 1) : w[1][i] = w[2][i]
                                                    /\ <<w[1][j], w[2][j]>> \in below
    <3>1. w[1] \in [1..n -> Nat] /\ w[2] \in [1..n -> Nat] /\ DOMAIN w[2] = 1..n
      BY DEF Work
    <3>2. \A j \in 1..n : <<w[1][j], w[2][j]>> \in below <=> w[1][j] < w[2][j]
      BY <3>1 DEF OpToRel
    <3> HIDE DEF n, below
    <3>3. QED
      BY <3>1, <3>2 DEF Less
  <2>2. QED
    BY <2>1 DEF LessWork, LexProductOrdering, Work
<1>4. QED
  BY <1>2, <1>3 DEF Work

LEMMA WorkIsCounted ==
  ASSUME IInv, NEW r \in Requests
  PROVE  WorkLeft(r, req[r]) \in Work
<1> DEFINE s == req[r]
           w == WorkLeft(r, s)
           n == 9 + MaxDepth + 1
<1>1. /\ s \in Request /\ s.round <= MaxSteps[r] /\ s.stage <= MaxParts[r] /\ s.phase <= MaxParts[r]
      /\ s.reads <= MaxReads[r] /\ s.at \in Running \cup {"new", "ended"}
  BY FieldTypes DEF IInv, SoundInv, Sound, Inv, BoundsInv
<1>2. /\ MaxParts[r] \in Nat /\ MaxSteps[r] \in Nat /\ MaxReads[r] \in Nat /\ s.stage \in Nat
      /\ s.phase \in Nat /\ s.round \in Nat /\ s.reads \in Nat
  BY <1>1, FieldTypes, Constants
<1>3. WholeOf(s.at) \in Nat /\ StretchOf(s.at) \in Nat /\ InRoundOf(s.at) \in Nat
  BY <1>1, PlacesLeft
<1> HIDE DEF w
<1>4. /\ w[1] = WholeOf(s.at) /\ w[2] = (IF s.stopped THEN 0 ELSE 1)
      /\ w[3] = (IF s.mode = "single" THEN 1 ELSE 0) /\ w[4] = MaxParts[r] - s.stage
      /\ w[5] = StretchOf(s.at) /\ w[6] = MaxSteps[r] - s.round
      /\ w[7] = MaxParts[r] - s.phase /\ w[8] = InRoundOf(s.at) /\ w[9] = ReadsLeft(r, s)
  BY <1>1, WorkLeftCounts DEF w
<1>5. /\ w[1] \in Nat /\ w[2] \in Nat /\ w[3] \in Nat /\ w[4] \in Nat
      /\ w[5] \in Nat /\ w[6] \in Nat /\ w[7] \in Nat /\ w[8] \in Nat /\ w[9] \in Nat
  BY <1>1, <1>2, <1>3, <1>4 DEF ReadsLeft
<1>6. \A d \in 1..(MaxDepth + 1) : w[9 + d] \in Nat
  BY <1>1, WorkLeftCounts, LevelTypes DEF w
<1>7. ASSUME NEW i \in 1..n
      PROVE  w[i] \in Nat
  <2>1. i \in {1, 2, 3, 4, 5, 6, 7, 8, 9} \/ (i - 9 \in 1..(MaxDepth + 1) /\ 9 + (i - 9) = i)
    BY Constants
  <2>2. QED
    BY <1>5, <1>6, <2>1
<1>8. w = [i \in 1..n |-> w[i]]
  BY DEF w, WorkLeft
<1>9. QED
  BY <1>7, <1>8 DEF Work, w

(* What a request has left is always a tuple of natural numbers of that    *)
(* length: with NoCircles, a request takes finitely many steps.            *)
THEOREM WorkIsFinite == Spec => [](\A r \in Requests : WorkLeft(r, req[r]) \in Work)
<1>1. IInv => \A r \in Requests : WorkLeft(r, req[r]) \in Work
  BY WorkIsCounted
<1>2. QED
  BY <1>1, AgentInvariant, PTL

-----------------------------------------------------------------------------
(* What the dialogs show                                                   *)

Shown == {"asked", "refused", "guess"}

(* A step of a request no dialog shows, which may bring up its dialog      *)
Asks(r) ==
  /\ req[r].at \notin Shown
  /\ \E t : /\ req' = [req EXCEPT ![r] = t]
            /\ UNCHANGED choiceVars \/ (Ask(r) /\ CanAsk /\ t.at \in Shown)

LEMMA StepAsks ==
  ASSUME NEW r \in Requests, req[r].at \notin Shown, NEW S, Step(r, S)
  PROVE  Asks(r)
  BY DEF Step, Goes, Asks

LEMMA AskAsks ==
  ASSUME NEW r \in Requests, req[r].at \notin Shown, NEW s \in Request, NEW p \in Shown,
         CanAsk, Ask(r), Goes(r, {To(s, p)})
  PROVE  Asks(r)
<1>1. p \in Running
  BY DEF Shown, Running, Asking
<1>2. To(s, p).at = p
  BY <1>1, ToFields
<1>3. QED
  BY <1>2 DEF Goes, Asks

LEMMA NoOfferAsks ==
  ASSUME NEW r \in Requests, req[r] \in Request, req[r].at \notin Shown, NoOffer(r, req[r])
  PROVE  Asks(r)
  BY StepAsks, AskAsks DEF NoOffer, Shown

LEMMA CodeAsks ==
  ASSUME NEW r \in Requests, req[r] \in Request, CodeStep(r)
  PROVE  Asks(r)
<1> DEFINE s == req[r]
<1>1. CASE Route(r) \/ Planned(r)
  <2>1. s.at \notin Shown
    BY <1>1 DEF Route, Planned, Shown
  <2>2. QED
    BY <1>1, <2>1, StepAsks DEF Route, Planned, Asks
<1>2. CASE ShortcutReturns(r) \/ Stage(r) \/ PrecheckReturns(r) \/ DirectReturns(r) \/ EnterLoop(r)
         \/ FileRead(r) \/ Tried(r) \/ SourceRead(r)
  <2>1. s.at \notin Shown
    BY <1>2
    DEF ShortcutReturns, Stage, PrecheckReturns, DirectReturns, EnterLoop, FileRead, Tried, SourceRead, Shown
  <2>2. QED
    BY <1>2, <2>1, StepAsks
    DEF ShortcutReturns, Stage, PrecheckReturns, DirectReturns, EnterLoop, FileRead, Tried, SourceRead
<1>3. CASE Round(r) \/ ModelReplies(r) \/ Repaired(r) \/ Checked(r) \/ RunningReturns(r) \/ LastReturns(r)
  <2>1. s.at \notin Shown
    <3>1. (RunningReturns(r) => s.at = "running") /\ (LastReturns(r) => s.at = "last")
      BY DEF RunningReturns, LastReturns
    <3>2. (Checked(r) => s.at = "checked") /\ (Repaired(r) => s.at = "repair")
      BY DEF Checked, Repaired, Request
    <3>3. (Round(r) => s.at = "round") /\ (ModelReplies(r) => s.at = "model")
      BY DEF Round, ModelReplies
    <3>4. QED
      BY <1>3, <3>1, <3>2, <3>3 DEF Shown
  <2>2. QED
    BY <1>3, <2>1, StepAsks DEF Round, ModelReplies, Repaired, Checked, RunningReturns, LastReturns
<1>4. CASE Offer(r) \/ ExternalReplies(r)
  <2>1. s.at \notin Shown
    BY <1>4 DEF Offer, ExternalReplies, Shown
  <2>2. QED
    BY <1>4, <2>1, StepAsks, AskAsks, NoOfferAsks DEF Offer, ExternalReplies, Shown
<1>5. CASE SmartFallback(r) \/ ListingReturns(r)
  <2>1. s.at \notin Shown /\ Idle(s) \in Request
    BY <1>5, IdleAlike DEF SmartFallback, ListingReturns, Shown
  <2>2. QED
    BY <1>5, <2>1, StepAsks, AskAsks DEF SmartFallback, ListingReturns, Shown
<1>6. CASE Phase(r) \/ MainReturns(r) \/ SubPhase(r) \/ RetryReturns(r)
  <2>1. s.at \notin Shown
    BY <1>6 DEF Phase, MainReturns, SubPhase, RetryReturns, Shown
  <2>2. QED
    BY <1>6, <2>1, StepAsks DEF Phase, MainReturns, SubPhase, RetryReturns
<1>7. CASE ChainStep(r)
  <2>1. s.at \notin Shown
    BY <1>7 DEF ChainStep, Link, LinkReturns, Shown
  <2>2. QED
    BY <1>7, <2>1, StepAsks DEF ChainStep, Link, LinkReturns
<1>8. CASE Close(r)
  BY <1>8 DEF Close, Asks, Shown
<1>9. QED
  BY <1>1, <1>2, <1>3, <1>4, <1>5, <1>6, <1>7, <1>8 DEF CodeStep, LoopStep, PlanStep

LEMMA AsksKeeps ==
  ASSUME IInv, DialogIsAwaited, NEW r \in Requests, Asks(r)
  PROVE  DialogIsAwaited'
<1>1. /\ req \in [Requests -> Request] /\ dialog \in [Views -> Requests \cup {NoRequest}]
      /\ NoRequest \notin Requests
  BY ChoiceAssumption DEF IInv, TypeOK, ChoiceTypeOK
<1>2. PICK t : /\ req' = [req EXCEPT ![r] = t]
               /\ UNCHANGED choiceVars \/ (Ask(r) /\ CanAsk /\ t.at \in Shown)
  BY DEF Asks
<1>3. req'[r] = t /\ \A q \in Requests : q # r => req'[q] = req[q]
  BY <1>1, <1>2
<1>4. \A v \in Views : dialog[v] # r
  BY <1>1 DEF DialogIsAwaited, Asks, Shown
<1>5. CASE UNCHANGED choiceVars
  <2>1. dialog' = dialog
    BY <1>5 DEF choiceVars
  <2>2. QED
    BY <1>1, <1>3, <1>4, <2>1 DEF DialogIsAwaited
<1>6. CASE Ask(r) /\ CanAsk /\ t.at \in Shown
  <2>1. owner \in Views /\ dialog' = [dialog EXCEPT ![owner] = r]
    BY <1>6 DEF Ask, CanAsk, IInv, TypeOK, ChoiceTypeOK
  <2>2. dialog'[owner] = r /\ \A v \in Views \ {owner} : dialog'[v] = dialog[v]
    BY <1>1, <2>1
  <2>3. QED
    BY <1>1, <1>3, <1>4, <1>6, <2>1, <2>2 DEF DialogIsAwaited, Shown
<1>7. QED
  BY <1>2, <1>5, <1>6

LEMMA AnswersKeep ==
  ASSUME IInv, DialogIsAwaited, NEW v \in Views, NEW r \in Requests, Answers(v, r)
  PROVE  DialogIsAwaited'
<1>1. /\ req \in [Requests -> Request] /\ dialog \in [Views -> Requests \cup {NoRequest}]
      /\ NoRequest \notin Requests
  BY ChoiceAssumption DEF IInv, TypeOK, ChoiceTypeOK
<1>2. PICK t : req' = [req EXCEPT ![r] = t]
  BY DEF Answers, AnswerOffer, AnswerRefused, AnswerGuess, Goes
<1>3. dialog[v] = r
  BY DEF Answers, AnswerOffer, AnswerRefused, AnswerGuess, Answer
<1>4. \A w \in Views : dialog[w] = r => w = v
  BY <1>1, <1>3 DEF DialogIsAwaited
<1>5. \A q \in Requests : q # r => req'[q] = req[q]
  BY <1>1, <1>2
<1>6. CASE Answer(v, r)
  <2>1. dialog'[v] = NoRequest /\ \A w \in Views \ {v} : dialog'[w] = dialog[w]
    BY <1>1, <1>6 DEF Answer
  <2>2. QED
    BY <1>1, <1>4, <1>5, <2>1 DEF DialogIsAwaited
<1>7. CASE ~Answer(v, r)
  <2>1. /\ CanAsk /\ dialog' = [dialog EXCEPT ![v] = NoRequest, ![owner] = r]
        /\ Goes(r, {To(req[r], "refused")})
    BY <1>7 DEF Answers, AnswerOffer, AnswerRefused, AnswerGuess
  <2>2. owner \in Views /\ "refused" \in Running /\ To(req[r], "refused").at = "refused"
    BY <1>1, <2>1, ToFields DEF CanAsk, IInv, TypeOK, ChoiceTypeOK, Running, Asking
  <2>3. req'[r].at = "refused"
    BY <1>1, <2>1, <2>2 DEF Goes
  <2>4. /\ dialog'[owner] = r
        /\ \A w \in Views \ {owner} : dialog'[w] = IF w = v THEN NoRequest ELSE dialog[w]
    BY <1>1, <2>1, <2>2
  <2>5. QED
    BY <1>1, <1>4, <1>5, <2>2, <2>3, <2>4 DEF DialogIsAwaited
<1>8. QED
  BY <1>6, <1>7

LEMMA DialogStep ==
  ASSUME IInv, DialogIsAwaited, [Next]_vars
  PROVE  DialogIsAwaited'
<1>1. /\ req \in [Requests -> Request] /\ dialog \in [Views -> Requests \cup {NoRequest}]
      /\ NoRequest \notin Requests
  BY ChoiceAssumption DEF IInv, TypeOK, ChoiceTypeOK
<1>2. ASSUME NEW r \in Requests, Begin(r) \/ Consent(r)
      PROVE  Asks(r)
  <2>1. req[r].at \notin Shown
    BY <1>2 DEF Begin, Consent, ConsentToBatch, ConsentToPane, Shown
  <2>2. QED
    BY <1>2, <2>1, StepAsks DEF Begin, Consent, ConsentToBatch, ConsentToPane, Asks
<1>3. ASSUME NEW r \in Requests, Stop(r)
      PROVE  DialogIsAwaited'
  <2> DEFINE s == req[r]
             t == [s EXCEPT !.stopped = TRUE, !.call = IF @ = "running" THEN "cancelled" ELSE @]
  <2>1. t.at = s.at
    BY <1>1 DEF Request
  <2>2. req' = [req EXCEPT ![r] = t] /\ dialog' = dialog
    BY <1>3 DEF Stop, Step, Goes, choiceVars
  <2> HIDE DEF t
  <2>3. \A q \in Requests : req'[q].at = req[q].at
    BY <1>1, <2>1, <2>2
  <2>4. QED
    BY <1>1, <2>2, <2>3 DEF DialogIsAwaited
<1>4. ASSUME NEW v \in Views, ViewStep(v)
      PROVE  DialogIsAwaited'
  <2>1. req' = req
    BY <1>4 DEF ViewStep
  <2>2. \A w \in Views : dialog'[w] = dialog[w] \/ dialog'[w] = NoRequest
    BY <1>1, <1>4 DEF ViewStep, ChoiceViewStep, Claim, Release, Unmount
  <2>3. QED
    BY <2>1, <2>2 DEF DialogIsAwaited
<1>5. CASE UNCHANGED vars
  BY <1>5 DEF vars, choiceVars, DialogIsAwaited
<1>6. \A r \in Requests : req[r] \in Request
  BY <1>1
<1>7. QED
  BY <1>2, <1>3, <1>4, <1>5, <1>6, CodeAsks, AsksKeeps, AnswersKeep DEF Next

(* Whatever questions cross, replace each other or lose their view, what a *)
(* view shows is the question its asker waits at, and it is shown once.    *)
THEOREM DialogsAreAwaited == Spec => []DialogIsAwaited
<1>1. Init => DialogIsAwaited
  BY DEF Init, ChoiceInit, DialogIsAwaited
<1>2. IInv /\ DialogIsAwaited /\ [Next]_vars => DialogIsAwaited'
  BY DialogStep
<1>3. QED
  BY <1>1, <1>2, AgentInvariant, PTL DEF Spec
=============================================================================
