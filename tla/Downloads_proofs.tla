--------------------------- MODULE Downloads_proofs ---------------------------
(***************************************************************************)
(* Theorems about Downloads, for any number of callers, a file of any      *)
(* length and any number of retries.                                       *)
(***************************************************************************)
EXTENDS Downloads, TLAPS

(* What is written to is no longer than the position in the stream *)
PositionsAgree ==
  /\ phase = "asking" => part.len <= have
  /\ phase \in {"streaming", "writing"} /\ attached => part.len <= at
  /\ phase = "writing" => at < Chunks

(* Nothing but the file that passed the check is at the path *)
CheckedIsWhole == phase \in {"checked", "replacing"} => part \in {NoFile, Whole}

(* An answer is on its way only to a caller that waits for it *)
NoStrayReply == \A c \in Callers : pc[c] # "waiting" => reply[c] = "none"

DownloadsInv ==
  /\ TypeOK
  /\ PositionsAgree
  /\ CheckedIsWhole
  /\ FileIsWhole
  /\ NoStrayReply
  /\ WaitingIsServed

Files == [len : 0 .. Chunks, sound : BOOLEAN]

LEMMA FilesAre ==
  /\ NoFile \in Files /\ Empty \in Files /\ Whole \in Files
  /\ NoFile.len = 0 /\ Empty.len = 0
  /\ \A n \in 0 .. Chunks, b \in BOOLEAN : [len |-> n, sound |-> b] \in Files
BY DownloadsAssumption DEF Files, NoFile, Empty, Whole

LEMMA DownloadsInit == Init => DownloadsInv
<1> SUFFICES ASSUME Init
             PROVE  DownloadsInv
  OBVIOUS
<1>1. part \in Files /\ have \in 0 .. Chunks /\ at \in 0 .. Chunks /\ starts \in 0 .. MaxStarts
  BY FilesAre, DownloadsAssumption DEF Init
<1>2. attempt \in [Callers -> 0 .. MaxRetries]
  BY DownloadsAssumption DEF Init
<1>3. TypeOK
  BY <1>1, <1>2 DEF Init, TypeOK, Files
<1>4. QED
  BY <1>3
  DEF Init, DownloadsInv, PositionsAgree, CheckedIsWhole, FileIsWhole, NoStrayReply,
      WaitingIsServed

(* The end of a download answers the caller it was for and no other *)
LEMMA FinishAnswers ==
  ASSUME DownloadsInv, NEW result \in {"ok", "cancelled", "error"},
         phase # "idle", Finish(result), UNCHANGED <<pc, starts>>
  PROVE  /\ phase' = "idle" /\ served' = NoCaller
         /\ have' \in 0 .. Chunks /\ at' \in 0 .. Chunks /\ attached' \in BOOLEAN
         /\ reply' \in [Callers -> {"none", "ok", "cancelled", "error"}]
         /\ NoStrayReply'
         /\ WaitingIsServed'
BY DEF DownloadsInv, TypeOK, Finish, NoStrayReply, WaitingIsServed

LEMMA DownloadsNext == DownloadsInv /\ [Next]_vars => DownloadsInv'
<1> SUFFICES ASSUME DownloadsInv, [Next]_vars
             PROVE  DownloadsInv'
  OBVIOUS
<1> USE DownloadsAssumption
<1>0. TypeOK /\ PositionsAgree /\ CheckedIsWhole /\ FileIsWhole /\ NoStrayReply /\ WaitingIsServed
  BY DEF DownloadsInv
<1>1. CASE Fail
  <2>1. phase # "idle" /\ Finish("error") /\ UNCHANGED <<pc, starts>>
    BY <1>1 DEF Fail, native
  <2>2. QED
    BY <1>0, <1>1, <2>1, FinishAnswers
    DEF Fail, fileVars, native, DownloadsInv, TypeOK, PositionsAgree, CheckedIsWhole, FileIsWhole
<1>2. CASE Respond
  <2>1. /\ part' \in {part, Empty}
        /\ at' \in {at, have, 0} /\ attached' \in BOOLEAN
        /\ phase' \in {"checking", "streaming"}
    BY <1>0, <1>2 DEF Respond, TypeOK, Opened
  <2>2. phase' = "streaming" => part'.len <= at'
    BY <1>0, <1>2 DEF Respond, PositionsAgree, Opened, Exists, Empty, TypeOK
  <2>3. part' \in [len : 0 .. Chunks, sound : BOOLEAN] /\ at' \in 0 .. Chunks
    BY <1>0, <2>1, FilesAre DEF TypeOK, Files
  <2>4. TypeOK' /\ PositionsAgree' /\ CheckedIsWhole' /\ FileIsWhole'
    BY <1>0, <1>2, <2>1, <2>2, <2>3
    DEF Respond, native, TypeOK, PositionsAgree, CheckedIsWhole, FileIsWhole
  <2>5. NoStrayReply' /\ WaitingIsServed'
    BY <1>0, <1>2, <2>1 DEF Respond, native, NoStrayReply, WaitingIsServed
  <2>6. QED
    BY <2>4, <2>5 DEF DownloadsInv
<1>3. CASE Chunk
  <2>1. CASE cancel
    <3>1. phase # "idle" /\ Finish("cancelled") /\ UNCHANGED <<pc, starts>>
      BY <1>3, <2>1 DEF Chunk, native
    <3>2. QED
      BY <1>0, <1>3, <3>1, FinishAnswers
      DEF Chunk, fileVars, native, DownloadsInv, TypeOK, PositionsAgree, CheckedIsWhole,
          FileIsWhole
  <2>2. CASE ~cancel
    BY <1>0, <1>3, <2>2
    DEF Chunk, fileVars, streamVars, native, DownloadsInv, TypeOK, PositionsAgree, CheckedIsWhole,
        FileIsWhole, NoStrayReply, WaitingIsServed
  <2>3. QED
    BY <2>1, <2>2
<1>4. CASE Write
  <2>1. at' \in 0 .. Chunks /\ at' = at + 1
    BY <1>0, <1>4 DEF Write, TypeOK, PositionsAgree
  <2>2. part' \in [len : 0 .. Chunks, sound : BOOLEAN]
    <3>1. CASE attached
      <4>1. part.len + 1 \in 0 .. Chunks
        BY <1>0, <1>4, <3>1 DEF Write, TypeOK, PositionsAgree
      <4>2. PICK b \in BOOLEAN : part' = [len |-> part.len + 1, sound |-> b]
        BY <1>0, <1>4, <3>1 DEF Write, TypeOK
      <4>3. QED
        BY <4>1, <4>2, FilesAre DEF Files
    <3>2. CASE ~attached
      BY <1>0, <1>4, <3>2 DEF Write, TypeOK
    <3>3. QED
      BY <3>1, <3>2
  <2>3. attached => part'.len <= at'
    BY <1>0, <1>4, <2>1 DEF Write, TypeOK, PositionsAgree
  <2>4. QED
    BY <1>0, <1>4, <2>1, <2>2, <2>3
    DEF Write, native, DownloadsInv, TypeOK, PositionsAgree, CheckedIsWhole, FileIsWhole,
        NoStrayReply, WaitingIsServed
<1>5. CASE EndOfStream
  BY <1>0, <1>5
  DEF EndOfStream, fileVars, streamVars, native, DownloadsInv, TypeOK, PositionsAgree,
      CheckedIsWhole, FileIsWhole, NoStrayReply, WaitingIsServed
<1>6. CASE Check
  <2>1. CASE Passes(part)
    BY <1>0, <1>6, <2>1
    DEF Check, Passes, streamVars, native, DownloadsInv, TypeOK, PositionsAgree, CheckedIsWhole,
        FileIsWhole, NoStrayReply, WaitingIsServed
  <2>2. CASE ~Passes(part)
    <3>1. phase # "idle" /\ Finish("error") /\ UNCHANGED <<pc, starts>>
      BY <1>6, <2>2 DEF Check, native
    <3>2. QED
      BY <1>0, <1>6, <2>2, <3>1, FinishAnswers, FilesAre
      DEF Check, Files, native, DownloadsInv, TypeOK, PositionsAgree, CheckedIsWhole, FileIsWhole
  <2>3. QED
    BY <2>1, <2>2
<1>7. CASE RemoveOld
  BY <1>0, <1>7
  DEF RemoveOld, streamVars, native, DownloadsInv, TypeOK, PositionsAgree, CheckedIsWhole,
      FileIsWhole, NoStrayReply, WaitingIsServed
<1>8. CASE Rename
  <2>1. phase # "idle" /\ UNCHANGED <<pc, starts>>
    BY <1>8 DEF Rename, native
  <2>2. CASE Exists(part)
    <3>1. part = Whole
      BY <1>0, <1>8, <2>2 DEF Rename, CheckedIsWhole, Exists
    <3>2. dest' = "whole" /\ part' = NoFile /\ Finish("ok")
      BY <1>8, <2>2, <3>1 DEF Rename
    <3>3. QED
      BY <1>0, <1>8, <2>1, <3>2, FinishAnswers, FilesAre
      DEF Rename, Files, native, DownloadsInv, TypeOK, PositionsAgree, CheckedIsWhole, FileIsWhole
  <2>3. CASE ~Exists(part)
    <3>1. Finish("error") /\ UNCHANGED fileVars
      BY <1>8, <2>3 DEF Rename
    <3>2. QED
      BY <1>0, <1>8, <2>1, <3>1, FinishAnswers
      DEF Rename, fileVars, native, DownloadsInv, TypeOK, PositionsAgree, CheckedIsWhole,
          FileIsWhole
  <2>4. QED
    BY <2>2, <2>3
<1>9. CASE \E c \in Callers : Start(c)
  BY <1>0, <1>9
  DEF Start, fileVars, streamVars, DownloadsInv, TypeOK, PositionsAgree, CheckedIsWhole,
      FileIsWhole, NoStrayReply, WaitingIsServed
<1>10. CASE \E c \in Callers : Call(c)
  <2>1. PICK c \in Callers : Call(c)
    BY <1>10
  <2>2. CASE phase # "idle"
    BY <1>0, <2>1, <2>2
    DEF Call, Enter, fileVars, streamVars, DownloadsInv, TypeOK, PositionsAgree, CheckedIsWhole,
        FileIsWhole, NoStrayReply, WaitingIsServed
  <2>3. CASE phase = "idle"
    <3>1. have' = part.len /\ have' \in 0 .. Chunks
      BY <1>0, <2>1, <2>3 DEF Call, Enter, TypeOK
    <3>2. WaitingIsServed'
      BY <1>0, <2>1, <2>3 DEF Call, Enter, NoStrayReply, WaitingIsServed, TypeOK
    <3>3. NoStrayReply'
      BY <1>0, <2>1, <2>3 DEF Call, Enter, NoStrayReply, TypeOK
    <3>4. TypeOK'
      BY <1>0, <2>1, <2>3, <3>1 DEF Call, Enter, fileVars, TypeOK
    <3>5. PositionsAgree' /\ CheckedIsWhole' /\ FileIsWhole'
      BY <1>0, <2>1, <2>3, <3>1
      DEF Call, Enter, fileVars, TypeOK, PositionsAgree, CheckedIsWhole, FileIsWhole
    <3>6. QED
      BY <3>2, <3>3, <3>4, <3>5 DEF DownloadsInv
  <2>4. QED
    BY <2>2, <2>3
<1>11. CASE \E c \in Callers : Reply(c)
  <2>1. PICK c \in Callers : Reply(c)
    BY <1>11
  <2>2. attempt' \in [Callers -> 0 .. MaxRetries]
    BY <1>0, <2>1 DEF Reply, TriesAgain, NextAttempt, TypeOK
  <2>3. /\ pc' \in [Callers -> {"idle", "calling", "waiting"}]
        /\ reply' = [reply EXCEPT ![c] = "none"]
        /\ pc'[c] # "waiting" /\ reply[c] # "none"
        /\ \A d \in Callers \ {c} : pc'[d] = pc[d]
    BY <1>0, <2>1 DEF Reply, TypeOK
  <2>4. NoStrayReply' /\ WaitingIsServed'
    BY <1>0, <2>1, <2>3 DEF Reply, NoStrayReply, WaitingIsServed, TypeOK
  <2>5. QED
    BY <1>0, <2>1, <2>2, <2>3, <2>4
    DEF Reply, fileVars, streamVars, DownloadsInv, TypeOK, PositionsAgree, CheckedIsWhole,
        FileIsWhole
<1>12. CASE Cancel \/ Delete
  <2>1. dest' \in {"none", dest} /\ cancel' \in BOOLEAN /\ removing' \in BOOLEAN
    BY <1>0, <1>12 DEF Cancel, Delete, fileVars, TypeOK
  <2>2. UNCHANGED <<part, phase, served, have, at, attached, pc, attempt, reply, starts>>
    BY <1>12 DEF Cancel, Delete, fileVars, streamVars, callVars
  <2>3. QED
    BY <1>0, <2>1, <2>2
    DEF DownloadsInv, TypeOK, PositionsAgree, CheckedIsWhole, FileIsWhole, NoStrayReply,
        WaitingIsServed
<1>13. CASE RemovePart
  <2>1. part' = NoFile /\ attached' = FALSE /\ removing' = FALSE
    BY <1>13 DEF RemovePart
  <2>2. UNCHANGED <<dest, phase, served, have, at, cancel, pc, attempt, reply, starts>>
    BY <1>13 DEF RemovePart, callVars
  <2>3. TypeOK'
    BY <1>0, <2>1, <2>2, FilesAre DEF TypeOK, Files
  <2>4. PositionsAgree' /\ CheckedIsWhole' /\ FileIsWhole'
    BY <1>0, <2>1, <2>2, FilesAre DEF TypeOK, PositionsAgree, CheckedIsWhole, FileIsWhole
  <2>5. NoStrayReply' /\ WaitingIsServed'
    BY <1>0, <2>2 DEF NoStrayReply, WaitingIsServed
  <2>6. QED
    BY <2>3, <2>4, <2>5 DEF DownloadsInv
<1>14. CASE Crash
  <2>1. have' \in 0 .. Chunks /\ at' \in 0 .. Chunks
    BY <1>14 DEF Crash
  <2>2. attempt' \in [Callers -> 0 .. MaxRetries]
    BY <1>14 DEF Crash
  <2>3. TypeOK'
    BY <1>0, <1>14, <2>1, <2>2 DEF Crash, fileVars, TypeOK
  <2>4. PositionsAgree' /\ CheckedIsWhole' /\ FileIsWhole'
    BY <1>0, <1>14 DEF Crash, fileVars, PositionsAgree, CheckedIsWhole, FileIsWhole
  <2>5. NoStrayReply' /\ WaitingIsServed'
    BY <1>14 DEF Crash, NoStrayReply, WaitingIsServed
  <2>6. QED
    BY <2>3, <2>4, <2>5 DEF DownloadsInv
<1>15. CASE UNCHANGED vars
  BY <1>0, <1>15
  DEF vars, fileVars, streamVars, callVars, DownloadsInv, TypeOK, PositionsAgree, CheckedIsWhole,
      FileIsWhole, NoStrayReply, WaitingIsServed
<1>16. QED
  BY <1>1, <1>2, <1>3, <1>4, <1>5, <1>6, <1>7, <1>8, <1>9, <1>10, <1>11, <1>12, <1>13, <1>14, <1>15
  DEF Next, NativeStep, WindowStep

LEMMA DownloadsInvariant == Spec => []DownloadsInv
<1>1. QED
  BY DownloadsInit, DownloadsNext, PTL DEF Spec

-----------------------------------------------------------------------------
(* Every variable keeps its type: among others, the partial file never     *)
(* grows beyond the file, and no caller tries more often than it should.   *)
THEOREM DownloadsTypeCorrect == Spec => []TypeOK
<1>1. DownloadsInv => TypeOK
  BY DEF DownloadsInv
<1>2. QED
  BY <1>1, DownloadsInvariant, PTL

(* The file is absent or whole, whatever is cancelled, removed, resumed or *)
(* cut short by a crash.                                                   *)
THEOREM FileWhole == Spec => []FileIsWhole
<1>1. DownloadsInv => FileIsWhole
  BY DEF DownloadsInv
<1>2. QED
  BY <1>1, DownloadsInvariant, PTL

(* The caller that waits is the one that is served *)
THEOREM WaitingServed == Spec => []WaitingIsServed
<1>1. DownloadsInv => WaitingIsServed
  BY DEF DownloadsInv
<1>2. QED
  BY <1>1, DownloadsInvariant, PTL

(* A partial file is only shortened by a removal that was asked for, a     *)
(* full answer, a failed check or the rename.                              *)
THEOREM ProgressKept == Spec => ProgressIsKept
<1> DEFINE Kept == \/ part'.len >= part.len
                   \/ removing /\ ~removing'
                   \/ phase = "asking" /\ at' = 0
                   \/ phase \in {"checking", "replacing"}
<1>1. DownloadsInv /\ [Next]_vars => [Kept]_vars
  <2> SUFFICES ASSUME DownloadsInv, Next
               PROVE  Kept
    OBVIOUS
  <2>1. part.len \in Nat
    BY DownloadsAssumption DEF DownloadsInv, TypeOK
  <2>2. CASE UNCHANGED part
    BY <2>1, <2>2
  <2>3. CASE Respond
    BY <2>1, <2>3 DEF Respond, Opened, Exists, Empty, NoFile
  <2>4. CASE Write
    BY <2>1, <2>4 DEF Write
  <2>5. CASE Check \/ Rename \/ RemovePart
    BY <2>5 DEF Check, Rename, RemovePart
  <2>6. QED
    BY <2>2, <2>3, <2>4, <2>5
    DEF Next, NativeStep, WindowStep, Fail, Chunk, EndOfStream, RemoveOld, Start, Call, Reply,
        Cancel, Delete, Crash, fileVars
<1>2. QED
  BY <1>1, DownloadsInvariant, PTL DEF Spec, ProgressIsKept

-----------------------------------------------------------------------------
(* An active download is some caller's *)
ServesSomebody == phase # "idle" => served \in Callers

(* Only a call of a caller makes a download active *)
LEMMA ServesSomebodyStep ==
  ASSUME ServesSomebody, [Next]_vars
  PROVE  ServesSomebody'
BY DEF ServesSomebody, Next, NativeStep, WindowStep, Crash, Fail, Respond, Chunk, Write,
   EndOfStream, Check, RemoveOld, Rename, Finish, Start, Call, Enter, Reply, Cancel, Delete,
   RemovePart, vars, streamVars

(* An active download always is some caller's *)
LEMMA SomebodyIsServed == Spec => [](DownloadsInv /\ ServesSomebody)
<1>1. Init => ServesSomebody
  BY DEF Init, ServesSomebody
<1> QED
  BY <1>1, ServesSomebodyStep, DownloadsInvariant, PTL DEF Spec

(* A caller that was not told so before is told that it succeeded *)
IsToldOk(c) == reply[c] # "ok" /\ reply'[c] = "ok"

(* Only the rename tells a caller so *)
LEMMA OnlyRenameTells ==
  ASSUME DownloadsInv, ServesSomebody, Next, NEW c \in Callers, IsToldOk(c)
  PROVE  Rename /\ Exists(part) /\ c = served
<1> USE DEF DownloadsInv, TypeOK, IsToldOk
<1>1. CASE NativeStep
  BY <1>1 DEF NativeStep, Fail, Respond, Chunk, Write, EndOfStream, Check, RemoveOld, Rename,
     Finish, ServesSomebody
<1>2. CASE WindowStep
  BY <1>2 DEF WindowStep, Start, Call, Enter, Reply, Cancel, Delete, RemovePart, callVars
<1>3. CASE Crash
  BY <1>3 DEF Crash
<1> QED
  BY <1>1, <1>2, <1>3 DEF Next

(* Only a caller that is told so sees a file put in its place, and then it *)
(* is the file that passed the check.                                      *)
THEOREM OkTrue == Spec => OkIsTrue
<1>1. ASSUME DownloadsInv, ServesSomebody, Next, NEW c \in Callers, IsToldOk(c)
      PROVE  served = c /\ dest' = "whole" /\ part = Whole /\ part' = NoFile
  <2>1. Rename /\ Exists(part) /\ c = served
    BY <1>1, OnlyRenameTells
  <2>2. part = Whole
    BY <1>1, <2>1 DEF Rename, DownloadsInv, CheckedIsWhole, Exists
  <2> QED
    BY <2>1, <2>2 DEF Rename
<1>2. ASSUME DownloadsInv, ServesSomebody, Next, dest = "none", dest' # "none"
      PROVE  \E c \in Callers : IsToldOk(c)
  <2>1. Rename /\ Exists(part)
    BY <1>2 DEF Next, NativeStep, WindowStep, Crash, Fail, Respond, Chunk, Write, EndOfStream,
       Check, RemoveOld, Rename, Start, Call, Reply, Cancel, Delete, RemovePart, fileVars
  <2>2. served \in Callers
    BY <1>2, <2>1 DEF Rename, ServesSomebody
  <2>3. reply[served] = "none"
    BY <1>2, <2>1, <2>2 DEF Rename, DownloadsInv, WaitingIsServed
  <2>4. reply'[served] = "ok"
    BY <1>2, <2>1, <2>2 DEF Rename, Finish, DownloadsInv, TypeOK
  <2> QED
    BY <2>2, <2>3, <2>4 DEF IsToldOk
<1>3. DownloadsInv /\ ServesSomebody /\ [Next]_vars =>
        [/\ \A c \in Callers : reply[c] # "ok" /\ reply'[c] = "ok" =>
              served = c /\ dest' = "whole" /\ part = Whole /\ part' = NoFile
         /\ dest = "none" /\ dest' # "none" =>
              \E c \in Callers : reply[c] # "ok" /\ reply'[c] = "ok"]_vars
  BY <1>1, <1>2 DEF IsToldOk
<1> QED
  BY <1>3, SomebodyIsServed, PTL DEF Spec, OkIsTrue

-----------------------------------------------------------------------------
(* The calls run out *)

(* The attempts that are left of a call, as steps *)
Attempts(c) == (MaxRetries - attempt[c]) * PerAttempt

(* What is left of the attempt a call is in *)
InAttempt(c) ==
  IF pc[c] = "calling" THEN PerAttempt - 1
  ELSE IF reply[c] = "none" THEN 2 + DownloadLeft ELSE 1

(* What is left of a download is a number smaller than that of an attempt *)
LEMMA DownloadLeftIsNat ==
  ASSUME TypeOK
  PROVE  DownloadLeft \in 0 .. 2 * Chunks + 6
<1>1. Chunks \in Nat /\ at \in 0 .. Chunks
  BY DownloadsAssumption DEF TypeOK
<1> QED
  BY <1>1 DEF TypeOK, DownloadLeft

(* A product of numbers is a number, and an attempt less is that much less *)
LEMMA AttemptsAre ==
  ASSUME TypeOK, NEW c \in Callers
  PROVE  /\ Attempts(c) \in Nat
         /\ PerAttempt \in Nat
         /\ attempt[c] < MaxRetries =>
              (MaxRetries - (attempt[c] + 1)) * PerAttempt = Attempts(c) - PerAttempt
<1>1. PerAttempt \in Nat /\ MaxRetries \in Nat /\ attempt[c] \in 0 .. MaxRetries
  BY DownloadsAssumption DEF PerAttempt, TypeOK
<1>2. \A n, w \in Nat : n * w \in Nat
  OBVIOUS
<1>3. \A m, a, w \in Nat : (m - (a + 1)) * w = (m - a) * w - w
  OBVIOUS
<1> QED
  BY <1>1, <1>2, <1>3 DEF Attempts

(* The steps of a call and of a download lead down *)
CallDescends(c) ==
  /\ pc[c] # "idle" => CallLeft(c)' <= CallLeft(c)
  /\ Call(c) \/ Reply(c) => CallLeft(c)' < CallLeft(c)
  /\ NativeStep /\ c = served => CallLeft(c)' < CallLeft(c)

(* A step of the native part takes the download nearer to its end *)
LEMMA NativeDescends ==
  ASSUME DownloadsInv, ServesSomebody, NativeStep
  PROVE  /\ UNCHANGED <<pc, attempt>>
         /\ served \in Callers /\ pc[served] = "waiting" /\ reply[served] = "none"
         /\ \A c \in Callers \ {served} : reply'[c] = reply[c]
         /\ \/ reply'[served] = "none" /\ DownloadLeft' < DownloadLeft
            \/ reply'[served] # "none"
<1>1. Chunks \in Nat /\ at \in 0 .. Chunks
  BY DownloadsAssumption DEF DownloadsInv, TypeOK
<1>2. UNCHANGED <<pc, attempt>>
  BY DEF NativeStep, Fail, Respond, Chunk, Write, EndOfStream, Check, RemoveOld, Rename, native
<1>3. phase # "idle"
  BY DEF NativeStep, Fail, Respond, Chunk, Write, EndOfStream, Check, RemoveOld, Rename
<1>4. served \in Callers /\ pc[served] = "waiting" /\ reply[served] = "none"
  BY <1>3 DEF ServesSomebody, DownloadsInv, WaitingIsServed
<1>5. ASSUME NEW result \in {"ok", "cancelled", "error"}, Finish(result)
      PROVE  /\ \A c \in Callers \ {served} : reply'[c] = reply[c]
             /\ reply'[served] # "none"
  BY <1>4, <1>5 DEF Finish, DownloadsInv, TypeOK
<1>6. ASSUME UNCHANGED reply, DownloadLeft' < DownloadLeft
      PROVE  /\ \A c \in Callers \ {served} : reply'[c] = reply[c]
             /\ \/ reply'[served] = "none" /\ DownloadLeft' < DownloadLeft
                \/ reply'[served] # "none"
  BY <1>4, <1>6
<1>7. CASE Respond
  <2>1. DownloadLeft = 2 * Chunks + 6
    BY <1>7 DEF Respond, DownloadLeft
  <2>2. phase' = "checking" \/ (phase' = "streaming" /\ at' \in 0 .. Chunks)
    BY <1>1, <1>7 DEF Respond, DownloadsInv, TypeOK
  <2>3. DownloadLeft' <= 2 * Chunks + 4
    BY <1>1, <2>2 DEF DownloadLeft
  <2> QED
    BY <1>1, <1>2, <1>4, <1>6, <1>7, <2>1, <2>3 DEF Respond, DownloadLeft
<1>8. CASE Write
  <2>1. DownloadLeft = 2 * (Chunks - at) + 3 /\ DownloadLeft' = 2 * (Chunks - (at + 1)) + 4
    BY <1>8 DEF Write, DownloadLeft
  <2> QED
    BY <1>1, <1>2, <1>4, <1>6, <1>8, <2>1 DEF Write
<1>9. CASE Chunk
  <2>1. CASE cancel
    BY <1>2, <1>4, <1>5, <1>9, <2>1 DEF Chunk
  <2>2. CASE ~cancel
    BY <1>1, <1>2, <1>4, <1>6, <1>9, <2>2 DEF Chunk, DownloadLeft, streamVars
  <2> QED
    BY <2>1, <2>2
<1>10. CASE EndOfStream
  BY <1>1, <1>2, <1>4, <1>6, <1>10 DEF EndOfStream, DownloadLeft
<1>11. CASE Check
  <2>1. CASE Passes(part)
    BY <1>2, <1>4, <1>6, <1>11, <2>1 DEF Check, DownloadLeft
  <2>2. CASE ~Passes(part)
    BY <1>2, <1>4, <1>5, <1>11, <2>2 DEF Check
  <2> QED
    BY <2>1, <2>2
<1>12. CASE RemoveOld
  BY <1>2, <1>4, <1>6, <1>12 DEF RemoveOld, DownloadLeft
<1>13. CASE Fail \/ Rename
  BY <1>2, <1>4, <1>5, <1>13 DEF Fail, Rename
<1> QED
  BY <1>7, <1>8, <1>9, <1>10, <1>11, <1>12, <1>13 DEF NativeStep

(* A step sets no call back *)
LEMMA DescendStep ==
  ASSUME DownloadsInv, ServesSomebody, [Next]_vars, NEW c \in Callers
  PROVE  CallDescends(c)
<1>1. TypeOK /\ TypeOK'
  BY DownloadsNext DEF DownloadsInv
<1>2. DownloadLeft \in 0 .. 2 * Chunks + 6 /\ DownloadLeft' \in 0 .. 2 * Chunks + 6
  <2>1. Chunks \in Nat /\ at' \in 0 .. Chunks
    BY <1>1, DownloadsAssumption DEF TypeOK
  <2>2. DownloadLeft' \in 0 .. 2 * Chunks + 6
    BY <1>1, <2>1 DEF TypeOK, DownloadLeft
  <2> QED
    BY <1>1, <2>2, DownloadLeftIsNat
<1>3. CallLeft(c) = IF pc[c] = "idle" THEN 0 ELSE Attempts(c) + InAttempt(c)
  BY DEF CallLeft, Attempts, InAttempt
<1>4. CallLeft(c)' = IF pc'[c] = "idle" THEN 0 ELSE Attempts(c)' + InAttempt(c)'
  BY DEF CallLeft, Attempts, InAttempt
<1>5. Chunks \in Nat /\ PerAttempt = 2 * Chunks + 10 /\ Attempts(c) \in Nat /\ Attempts(c)' \in Nat
  <2>1. Chunks \in Nat /\ PerAttempt = 2 * Chunks + 10 /\ PerAttempt \in Nat
    BY DownloadsAssumption DEF PerAttempt
  <2>2. \A n, w \in Nat : n * w \in Nat
    OBVIOUS
  <2>3. attempt'[c] \in 0 .. MaxRetries /\ MaxRetries \in Nat
    BY <1>1, DownloadsAssumption DEF TypeOK
  <2>4. MaxRetries - attempt'[c] \in Nat
    BY <2>3
  <2>5. Attempts(c)' = (MaxRetries - attempt'[c]) * PerAttempt
    BY DEF Attempts, PerAttempt
  <2> QED
    BY <1>1, <2>1, <2>2, <2>4, <2>5, AttemptsAre
<1>6. InAttempt(c) \in 1 .. 2 * Chunks + 9 /\ InAttempt(c)' \in 1 .. 2 * Chunks + 9
  <2>1. InAttempt(c) \in 1 .. 2 * Chunks + 9
    BY <1>2, <1>5 DEF InAttempt
  <2>2. InAttempt(c)' = IF pc'[c] = "calling" THEN PerAttempt - 1
                        ELSE IF reply'[c] = "none" THEN 2 + DownloadLeft' ELSE 1
    BY DEF InAttempt, PerAttempt
  <2>3. \A n \in 0 .. 2 * Chunks + 6 : 2 + n \in 1 .. 2 * Chunks + 9
    BY <1>5
  <2>4. PerAttempt - 1 \in 1 .. 2 * Chunks + 9 /\ 1 \in 1 .. 2 * Chunks + 9
    BY <1>5
  <2>5. 2 + DownloadLeft' \in 1 .. 2 * Chunks + 9
    BY <1>2, <2>3
  <2> HIDE DEF PerAttempt
  <2>6. InAttempt(c)' \in 1 .. 2 * Chunks + 9
    BY <2>2, <2>4, <2>5
  <2> QED
    BY <2>1, <2>6
<1>u. UNCHANGED <<pc, attempt>> => Attempts(c)' = Attempts(c)
  BY DEF Attempts, PerAttempt
<1> HIDE DEF CallLeft, Attempts, InAttempt
<1>7. CASE NativeStep
  <2>1. /\ UNCHANGED <<pc, attempt>>
        /\ served \in Callers /\ pc[served] = "waiting" /\ reply[served] = "none"
        /\ \A d \in Callers \ {served} : reply'[d] = reply[d]
        /\ \/ reply'[served] = "none" /\ DownloadLeft' < DownloadLeft
           \/ reply'[served] # "none"
    BY <1>7, NativeDescends
  <2>2. ~ Call(c) /\ ~ Reply(c)
    BY <1>1, <2>1 DEF Call, Reply, TypeOK
  <2>3. CASE c = served
    <3>1. InAttempt(c) = 2 + DownloadLeft /\ InAttempt(c)' < InAttempt(c)
      BY <1>2, <2>1, <2>3 DEF InAttempt
    <3> QED
      BY <1>3, <1>4, <1>5, <1>6, <1>u, <2>1, <2>2, <2>3, <3>1 DEF CallDescends
  <2>4. CASE c # served
    <3>1. pc[c] = "waiting" => reply[c] # "none"
      BY <2>4 DEF DownloadsInv, WaitingIsServed
    <3>2. pc[c] # "idle" => InAttempt(c)' = InAttempt(c)
      BY <1>1, <2>1, <2>4, <3>1 DEF InAttempt, PerAttempt, TypeOK
    <3> QED
      BY <1>3, <1>4, <1>5, <1>6, <1>u, <2>1, <2>2, <2>4, <3>2 DEF CallDescends
  <2> QED
    BY <2>3, <2>4
<1>8. ASSUME ~ NativeStep, ~ Call(c), ~ Reply(c), pc[c] # "idle" => CallLeft(c)' <= CallLeft(c)
      PROVE  CallDescends(c)
  BY <1>8 DEF CallDescends
<1>9. CASE Call(c)
  <2>1. pc[c] = "calling" /\ pc'[c] = "waiting" /\ attempt' = attempt
    BY <1>1, <1>9 DEF Call, TypeOK
  <2>2. Attempts(c)' = Attempts(c)
    BY <2>1 DEF Attempts, PerAttempt
  <2>3. InAttempt(c) = 2 * Chunks + 9 /\ InAttempt(c)' <= 2 * Chunks + 8
    <3>1. InAttempt(c)' = IF reply'[c] = "none" THEN 2 + DownloadLeft' ELSE 1
      BY <2>1 DEF InAttempt, PerAttempt
    <3>2. InAttempt(c) = PerAttempt - 1
      BY <2>1 DEF InAttempt
    <3>3. \A n \in 0 .. 2 * Chunks + 6 : 2 + n <= 2 * Chunks + 8
      BY <1>5
    <3>4. 2 + DownloadLeft' <= 2 * Chunks + 8
      BY <1>2, <3>3
    <3>5. 1 <= 2 * Chunks + 8
      BY <1>5
    <3>6. InAttempt(c)' <= 2 * Chunks + 8
      BY <3>1, <3>4, <3>5
    <3> QED
      BY <1>5, <3>2, <3>6
  <2>4. CallLeft(c)' < CallLeft(c)
    BY <1>3, <1>4, <1>5, <1>6, <2>1, <2>2, <2>3
  <2>5. ~ (NativeStep /\ c = served)
    <3>1. NativeStep => UNCHANGED pc
      BY DEF NativeStep, Fail, Respond, Chunk, Write, EndOfStream, Check, RemoveOld, Rename, native
    <3> QED
      BY <2>1, <3>1
  <2>6. CallLeft(c) \in Nat /\ CallLeft(c)' \in Nat
    BY <1>3, <1>4, <1>5, <1>6
  <2> QED
    BY <2>4, <2>5, <2>6 DEF CallDescends
<1>10. CASE Reply(c)
  <2>1. pc[c] = "waiting" /\ reply[c] # "none"
    BY <1>10 DEF Reply
  <2>2. InAttempt(c) = 1
    BY <2>1 DEF InAttempt
  <2>3. CallLeft(c) = Attempts(c) + 1
    BY <1>3, <2>1, <2>2
  <2>4. CallLeft(c)' < CallLeft(c)
    <3>1. CASE TriesAgain(c)
      <4>1. pc'[c] = "calling" /\ attempt'[c] = attempt[c] + 1 /\ attempt[c] < MaxRetries
        BY <1>1, <1>10, <3>1 DEF Reply, TriesAgain, NextAttempt, TypeOK
      <4>2. Attempts(c)' = (MaxRetries - (attempt[c] + 1)) * PerAttempt
        BY <4>1 DEF Attempts, PerAttempt
      <4>3. Attempts(c)' = Attempts(c) - PerAttempt
        BY <1>1, <4>1, <4>2, AttemptsAre
      <4>4. InAttempt(c)' = PerAttempt - 1
        BY <4>1 DEF InAttempt, PerAttempt
      <4> QED
        BY <1>4, <1>5, <2>3, <4>1, <4>3, <4>4
    <3>2. CASE ~ TriesAgain(c)
      <4>1. pc'[c] = "idle"
        BY <1>1, <1>10, <3>2 DEF Reply, TypeOK
      <4> QED
        BY <1>4, <1>5, <2>3, <4>1
    <3> QED
      BY <3>1, <3>2
  <2>5. ~ (NativeStep /\ c = served)
    BY <2>1, NativeDescends
  <2>6. CallLeft(c) \in Nat /\ CallLeft(c)' \in Nat
    BY <1>3, <1>4, <1>5, <1>6
  <2> QED
    BY <2>4, <2>5, <2>6 DEF CallDescends
<1>11. CASE ~ NativeStep /\ ~ Call(c) /\ ~ Reply(c)
  <2>1. CASE pc'[c] = "idle" \/ pc[c] = "idle"
    BY <1>3, <1>4, <1>5, <1>6, <1>8, <1>11, <2>1
  <2>2. CASE pc'[c] # "idle" /\ pc[c] # "idle"
    <3>1. /\ pc'[c] = pc[c] /\ attempt'[c] = attempt[c] /\ reply'[c] = reply[c]
          /\ phase' = phase \/ phase = "idle"
          /\ at' = at
      BY <1>1, <1>11, <2>2
      DEF Next, WindowStep, Crash, Start, Call, Enter, Reply, Cancel, Delete, RemovePart,
          callVars, streamVars, TypeOK, vars
    <3>2. Attempts(c)' = Attempts(c)
      BY <3>1 DEF Attempts, PerAttempt
    <3>3. pc[c] = "waiting" /\ reply[c] = "none" => phase # "idle"
      BY DEF DownloadsInv, WaitingIsServed
    <3>4. phase' = phase => DownloadLeft' = DownloadLeft
      BY <3>1 DEF DownloadLeft
    <3>5. InAttempt(c)' = InAttempt(c)
      BY <1>1, <2>2, <3>1, <3>3, <3>4 DEF InAttempt, PerAttempt, TypeOK
    <3> QED
      BY <1>3, <1>4, <1>5, <1>6, <1>8, <1>11, <2>2, <3>2, <3>5
  <2> QED
    BY <2>1, <2>2
<1> QED
  BY <1>7, <1>9, <1>10, <1>11

(* Nothing sets a call back, and every step of a download or of a call     *)
(* leads the call it is for nearer to its end: however often it fails and  *)
(* is cancelled, a call has a number of steps that is fixed when it starts.*)
THEOREM CallsRunOutProved == Spec => CallsRunOut
<1>1. ASSUME DownloadsInv, ServesSomebody, NativeStep, \A c \in Callers : CallDescends(c)
      PROVE  \E c \in Callers : c = served /\ CallLeft(c)' < CallLeft(c)
  BY <1>1, NativeDescends DEF CallDescends
<1>2. DownloadsInv /\ ServesSomebody /\ [Next]_vars =>
        [/\ \A c \in Callers : pc[c] # "idle" => CallLeft(c)' <= CallLeft(c)
         /\ NativeStep => \E c \in Callers : c = served /\ CallLeft(c)' < CallLeft(c)
         /\ \A c \in Callers : Call(c) \/ Reply(c) => CallLeft(c)' < CallLeft(c)]_vars
  BY <1>1, DescendStep DEF CallDescends
<1> QED
  BY <1>2, SomebodyIsServed, PTL DEF Spec, CallsRunOut

-----------------------------------------------------------------------------
(* The download is the service of a file *)

call == [c \in Callers |-> CallOf(c)]

(* A step in which only what is told to one caller changes, or nothing *)
LEMMA OneCall ==
  ASSUME NEW c \in Callers,
         \A d \in Callers \ {c} : pc'[d] = pc[d] /\ reply'[d] = reply[d]
  PROVE  call' = [call EXCEPT ![c] = CallOf(c)']
BY DEF call, CallOf

(* Nothing is told to anybody *)
LEMMA NoCall ==
  ASSUME UNCHANGED <<pc, reply>>
  PROVE  UNCHANGED call
BY DEF call, CallOf

(* Somebody is served just when a download is active *)
LEMMA ServedIsActive ==
  ASSUME DownloadsInv, ServesSomebody
  PROVE  /\ \A c \in Callers : call[c] = "served" <=> phase # "idle" /\ c = served
         /\ (\E c \in Callers : call[c] = "served") <=> phase # "idle"
<1>1. ASSUME NEW c \in Callers
      PROVE  call[c] = "served" <=> phase # "idle" /\ c = served
  <2>1. call[c] = "served" <=> pc[c] = "waiting" /\ reply[c] = "none"
    BY DEF call, CallOf, DownloadsInv, TypeOK
  <2> QED
    BY <2>1 DEF DownloadsInv, WaitingIsServed
<1> QED
  BY <1>1 DEF ServesSomebody

(* The end of a download answers the caller it served *)
LEMMA FinishIsAnswer ==
  ASSUME DownloadsInv, ServesSomebody, phase # "idle", UNCHANGED pc,
         NEW result \in {"ok", "cancelled", "error"}, Finish(result)
  PROVE  /\ served \in Callers /\ call[served] = "served"
         /\ call' = [call EXCEPT ![served] = result]
<1>1. served \in Callers /\ call[served] = "served"
  BY ServedIsActive DEF ServesSomebody
<1>2. ASSUME NEW c \in Callers, c = served
      PROVE  call' = [call EXCEPT ![c] = result]
  <2>1. pc[c] = "waiting"
    BY <1>1, <1>2 DEF DownloadsInv, WaitingIsServed
  <2>2. reply' = [reply EXCEPT ![c] = result] /\ reply'[c] = result
    BY <1>2 DEF Finish, DownloadsInv, TypeOK
  <2>3. CallOf(c)' = result
    BY <2>1, <2>2 DEF CallOf
  <2>4. \A d \in Callers \ {c} : pc'[d] = pc[d] /\ reply'[d] = reply[d]
    BY <2>2 DEF DownloadsInv, TypeOK
  <2> QED
    BY <2>3, <2>4, OneCall
<1> QED
  BY <1>1, <1>2

(* A step of the download and its callers is a step of the service *)
LEMMA ServiceStep ==
  ASSUME DownloadsInv, ServesSomebody, [Next]_vars
  PROVE  [Service!Next]_<<dest, call, attempt>>
<1>t. TypeOK
  BY DEF DownloadsInv
<1>c. \A c \in Callers : call[c] = CallOf(c)
  BY DEF call
<1>f. call = [c \in Callers |-> CallOf(c)]
  BY DEF call
<1>1. CASE NativeStep
  <2>1. UNCHANGED <<pc, attempt>> /\ phase # "idle"
    BY <1>1 DEF NativeStep, Fail, Respond, Chunk, Write, EndOfStream, Check, RemoveOld, Rename,
       native
  <2>2. ASSUME NEW result \in {"error", "cancelled"}, Finish(result), UNCHANGED dest
        PROVE  Service!Next
    <3>1. /\ served \in Callers /\ call[served] = "served"
          /\ call' = [call EXCEPT ![served] = result]
      BY <2>1, <2>2, FinishIsAnswer
    <3>2. Service!Disappoint(served)
      BY <2>1, <2>2, <3>1, <1>f DEF Service!Disappoint, Service!Becomes, call
    <3> QED
      BY <3>1, <3>2 DEF Service!Next
  <2>3. CASE UNCHANGED <<dest, reply>>
    BY <2>1, <2>3, NoCall
  <2>4. CASE RemoveOld
    <3>1. UNCHANGED <<call, attempt>> /\ dest' \in {"none", dest}
      BY <2>1, <2>4, NoCall DEF RemoveOld
    <3>2. CASE dest' = "none"
      BY <3>1, <3>2 DEF Service!Next, Service!Remove, call
    <3> QED
      BY <3>1, <3>2
  <2>5. CASE Rename /\ Exists(part)
    <3>1. dest' = "whole" /\ Finish("ok")
      BY <2>5 DEF Rename, DownloadsInv, CheckedIsWhole, Exists
    <3>2. /\ served \in Callers /\ call[served] = "served"
          /\ call' = [call EXCEPT ![served] = "ok"]
      BY <2>1, <3>1, FinishIsAnswer
    <3>3. Service!Deliver(served)
      BY <2>1, <3>1, <3>2 DEF Service!Deliver, Service!Becomes, call
    <3> QED
      BY <3>2, <3>3 DEF Service!Next
  <2>6. CASE Fail \/ Chunk \/ Check \/ (Rename /\ ~Exists(part))
    BY <2>2, <2>3, <2>6 DEF Fail, Chunk, Check, Rename, fileVars
  <2> QED
    BY <1>1, <2>3, <2>4, <2>5, <2>6 DEF NativeStep, Respond, Write, EndOfStream, fileVars
<1>2. ASSUME NEW c \in Callers, Start(c)
      PROVE  Service!Next
  <2>1. CallOf(c) = "none" /\ CallOf(c)' = "asked"
    BY <1>t, <1>2 DEF Start, CallOf, TypeOK
  <2>2. call' = [call EXCEPT ![c] = "asked"]
    BY <1>2, <1>t, <2>1, OneCall DEF Start, TypeOK
  <2>3. Service!Ask(c)
    BY <1>2, <1>c, <2>1, <2>2 DEF Start, Service!Ask, Service!Becomes, call, fileVars
  <2> QED
    BY <2>3 DEF Service!Next
<1>3. ASSUME NEW c \in Callers, Call(c)
      PROVE  Service!Next
  <2>1. CallOf(c) = "asked" /\ pc'[c] = "waiting" /\ UNCHANGED <<dest, attempt>>
    BY <1>t, <1>3 DEF Call, CallOf, TypeOK, fileVars
  <2>2. reply[c] = "none"
    BY <1>3 DEF Call, DownloadsInv, NoStrayReply
  <2>3. \A d \in Callers \ {c} : pc'[d] = pc[d] /\ reply'[d] = reply[d]
    BY <1>t, <1>3 DEF Call, Enter, TypeOK
  <2>4. CallOf(c)' = IF phase # "idle" THEN "error" ELSE "served"
    BY <1>t, <1>3, <2>1, <2>2 DEF Enter, Call, CallOf, TypeOK
  <2>5. Service!SomebodyIsServed <=> phase # "idle"
    BY ServedIsActive DEF Service!SomebodyIsServed, call
  <2>6. call' = [call EXCEPT ![c] = IF Service!SomebodyIsServed THEN "error" ELSE "served"]
    BY <2>3, <2>4, <2>5, OneCall
  <2>7. Service!Serve(c)
    BY <1>c, <2>1, <2>6 DEF Service!Serve, Service!Becomes, call
  <2> QED
    BY <2>7 DEF Service!Next
<1>4. ASSUME NEW c \in Callers, Reply(c)
      PROVE  Service!Next
  <2>1. CallOf(c) = reply[c] /\ reply[c] \in {"ok", "cancelled", "error"} /\ UNCHANGED dest
    BY <1>t, <1>4 DEF Reply, CallOf, TypeOK, fileVars
  <2>2. \A d \in Callers \ {c} : pc'[d] = pc[d] /\ reply'[d] = reply[d]
    BY <1>t, <1>4 DEF Reply, TypeOK
  <2>3. call' = [call EXCEPT ![c] = CallOf(c)']
    BY <2>2, OneCall
  <2>4. CASE TriesAgain(c)
    <3>1. CallOf(c)' = "asked" /\ attempt' = [attempt EXCEPT ![c] = attempt[c] + 1]
      BY <1>t, <1>4, <2>4 DEF Reply, NextAttempt, CallOf, TypeOK
    <3>2. Service!Retry(c)
      BY <1>c, <2>1, <2>3, <2>4, <3>1 DEF TriesAgain, Service!Retry, Service!Becomes, call
    <3> QED
      BY <3>2 DEF Service!Next
  <2>5. CASE ~TriesAgain(c)
    <3>1. CallOf(c)' = "none" /\ UNCHANGED attempt
      BY <1>t, <1>4, <2>5 DEF Reply, CallOf, TypeOK
    <3>2. attempt[c] < MaxRetries \/ attempt[c] = MaxRetries
      BY <1>t, DownloadsAssumption DEF TypeOK
    <3>3. Service!Return(c)
      BY <1>c, <2>1, <2>3, <2>5, <3>1, <3>2
      DEF TriesAgain, Service!Return, Service!Becomes, call
    <3> QED
      BY <3>3 DEF Service!Next
  <2> QED
    BY <2>4, <2>5
<1>5. CASE Cancel \/ RemovePart
  <2>1. UNCHANGED <<dest, pc, reply, attempt>>
    BY <1>5 DEF Cancel, RemovePart, fileVars, callVars
  <2> QED
    BY <2>1, NoCall
<1>6. CASE Delete
  <2>1. dest' = "none" /\ UNCHANGED <<call, attempt>>
    BY <1>6, NoCall DEF Delete, callVars
  <2> QED
    BY <2>1 DEF Service!Next, Service!Remove, call
<1>7. CASE Crash
  <2>1. /\ call' = [c \in Callers |-> "none"] /\ attempt' = [c \in Callers |-> 0]
        /\ UNCHANGED dest
    BY <1>7 DEF Crash, call, CallOf, fileVars
  <2> QED
    BY <2>1 DEF Service!Next, Service!Crash, call
<1>8. CASE UNCHANGED vars
  BY <1>8, NoCall DEF vars, fileVars, callVars
<1> QED
  BY <1>1, <1>2, <1>3, <1>4, <1>5, <1>6, <1>7, <1>8 DEF Next, WindowStep

(* To its callers the download is the service of a file: whatever is       *)
(* resumed, cancelled, discarded or cut short by a crash, one of them is   *)
(* served at a time, and the file comes whole and with the news of it.     *)
THEOREM ImplementsService == Spec => ServiceSpec
<1>1. Init => Service!Init
  BY DEF Init, Service!Init, CallOf
<1> QED
  BY <1>1, ServiceStep, SomebodyIsServed, PTL
  DEF Spec, ServiceSpec, Service!Spec, Service!vars, call
=============================================================================
