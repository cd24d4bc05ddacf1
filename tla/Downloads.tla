------------------------------ MODULE Downloads ------------------------------
(***************************************************************************)
(* The download of one file into ~/.cero (src-tauri/src/downloads.rs) and  *)
(* the callers in the window that start, retry, cancel and delete it       *)
(* (src/ai/models/EmbeddedEngineManager.ts).  The file is streamed to a    *)
(* partial file next to it, which survives cancels and crashes and is      *)
(* resumed, is checked as a whole, and then takes the place of the file.   *)
(***************************************************************************)
EXTENDS Naturals

CONSTANTS
  Callers,     \* calls of nativeDownload that may overlap
  Chunks,      \* length of the file
  MaxRetries,  \* of a call
  MaxStarts,   \* bound: calls that are made
  NoCaller

ASSUME DownloadsAssumption ==
  /\ Chunks \in Nat \ {0} /\ MaxRetries \in Nat /\ MaxStarts \in Nat
  /\ NoCaller \notin Callers

VARIABLES
  dest,       \* the file
  part,       \* the partial file: its length, and whether it is the start of the file
  phase,      \* what download_to does; "idle" when the entry is not active
  served,     \* the caller whose download that is
  have,       \* length of the partial file when the request was made
  at,         \* position in the stream
  attached,   \* the file written to is still the one at the path
  cancel,     \* the flag of the entry
  removing,   \* a removal of the partial file is under way
  pc,         \* per caller
  attempt,    \* per caller
  reply,      \* per caller: the answer on its way
  starts      \* calls made

fileVars == <<dest, part>>
streamVars == <<have, at, attached>>
callVars == <<pc, attempt, reply, starts>>
vars == <<fileVars, phase, served, streamVars, cancel, removing, callVars>>

NoFile == [len |-> 0, sound |-> FALSE]
Empty == [len |-> 0, sound |-> TRUE]
Whole == [len |-> Chunks, sound |-> TRUE]
Exists(f) == f # NoFile

TypeOK ==
  /\ dest \in {"none", "whole", "damaged"}
  /\ part \in [len : 0 .. Chunks, sound : BOOLEAN]
  /\ phase \in {"idle", "asking", "streaming", "writing", "checking", "checked", "replacing"}
  /\ served \in Callers \cup {NoCaller}
  /\ have \in 0 .. Chunks
  /\ at \in 0 .. Chunks
  /\ attached \in BOOLEAN
  /\ cancel \in BOOLEAN
  /\ removing \in BOOLEAN
  /\ pc \in [Callers -> {"idle", "calling", "waiting"}]
  /\ attempt \in [Callers -> 0 .. MaxRetries]
  /\ reply \in [Callers -> {"none", "ok", "cancelled", "error"}]
  /\ starts \in 0 .. MaxStarts

Init ==
  /\ dest = "none" /\ part = NoFile
  /\ phase = "idle" /\ served = NoCaller
  /\ have = 0 /\ at = 0 /\ attached = FALSE
  /\ cancel = FALSE /\ removing = FALSE
  /\ pc = [c \in Callers |-> "idle"]
  /\ attempt = [c \in Callers |-> 0]
  /\ reply = [c \in Callers |-> "none"]
  /\ starts = 0

-----------------------------------------------------------------------------
(* The native part                                                         *)

(* download_cero_file: an active entry refuses the call, any other is      *)
(* replaced by a new one, with a flag of its own.                          *)
EnterUnlessCancelled(c) ==  \* mutant: a download that was cancelled counts as over
  IF phase # "idle" /\ ~cancel
    THEN /\ reply' = [reply EXCEPT ![c] = "error"]
         /\ UNCHANGED <<phase, served, cancel, streamVars>>
    ELSE /\ phase' = "asking"
         /\ served' = c
         /\ cancel' = FALSE
         /\ have' = part.len
         /\ attached' = FALSE
         /\ UNCHANGED <<at, reply>>
Enter(c) ==
  IF phase # "idle"
    THEN /\ reply' = [reply EXCEPT ![c] = "error"]
         /\ UNCHANGED <<phase, served, cancel, streamVars>>
    ELSE /\ phase' = "asking"
         /\ served' = c
         /\ cancel' = FALSE
         /\ have' = part.len
         /\ attached' = FALSE
         /\ UNCHANGED <<at, reply>>

(* download_to returns; the entry is no longer active *)
Finish(result) ==
  /\ phase' = "idle"
  /\ served' = NoCaller
  /\ attached' = FALSE
  /\ reply' = [reply EXCEPT ![served] = result]
  /\ UNCHANGED <<have, at>>

native == <<cancel, removing, pc, attempt, starts>>

(* Network, server and disk may fail at every step *)
Fail ==
  /\ phase \in {"asking", "streaming", "writing", "checking", "replacing"}
  /\ Finish("error")
  /\ UNCHANGED <<fileVars, native>>

(* The answer to the request: what was asked for from "have" on, or the    *)
(* whole file, for which the partial file is truncated.  The partial file  *)
(* may have been removed since its length was read.                        *)
OpenedAnew(f) == Empty  \* mutant: the partial file is truncated on a resume
Opened(f) == IF Exists(f) THEN f ELSE Empty
Respond ==
  /\ phase = "asking"
  /\ \/ /\ have = Chunks
        /\ phase' = "checking"
        /\ UNCHANGED <<part, at, attached>>
     \/ /\ have \in 1 .. Chunks - 1
        /\ phase' = "streaming"
        /\ part' = Opened(part) /\ at' = have /\ attached' = TRUE
     \/ /\ phase' = "streaming"
        /\ part' = Empty /\ at' = 0 /\ attached' = TRUE
  /\ UNCHANGED <<dest, have, served, reply, native>>

(* A chunk has come; the flag is read *)
Chunk ==
  /\ phase = "streaming" /\ at < Chunks
  /\ IF cancel
       THEN Finish("cancelled")
       ELSE /\ phase' = "writing"
            /\ UNCHANGED <<served, reply, streamVars>>
  /\ UNCHANGED <<fileVars, native>>

(* It is written, to a file that may no longer be at the path.  It may be  *)
(* wrong, and it is at the wrong place if the partial file was removed     *)
(* between the request and its answer.                                     *)
Write ==
  /\ phase = "writing"
  /\ phase' = "streaming"
  /\ at' = at + 1
  /\ IF attached
       THEN \E right \in BOOLEAN :
              part' = [len |-> part.len + 1, sound |-> part.sound /\ right /\ part.len = at]
       ELSE UNCHANGED part
  /\ UNCHANGED <<dest, have, attached, served, reply, native>>

EndOfStream ==
  /\ phase = "streaming"
  /\ phase' = "checking"
  /\ UNCHANGED <<fileVars, served, streamVars, reply, native>>

(* sha256_file of what is at the path.  A wrong file is removed. *)
PassesByLength(f) == f.len = Chunks  \* mutant: only the length is checked
Passes(f) == f = Whole
Check ==
  /\ phase = "checking"
  /\ IF Passes(part)
       THEN /\ phase' = "checked"
            /\ UNCHANGED <<part, served, streamVars, reply>>
       ELSE /\ part' = NoFile
            /\ Finish("error")
  /\ UNCHANGED <<dest, native>>

(* The file is removed, if that is possible, before the partial file takes *)
(* its place                                                               *)
RemoveOld ==
  /\ phase = "checked"
  /\ phase' = "replacing"
  /\ dest' \in {"none", dest}
  /\ UNCHANGED <<part, served, streamVars, reply, native>>

Rename ==
  /\ phase = "replacing"
  /\ IF Exists(part)
       THEN /\ dest' = IF part = Whole THEN "whole" ELSE "damaged"
            /\ part' = NoFile
            /\ Finish("ok")
       ELSE /\ Finish("error")
            /\ UNCHANGED fileVars
  /\ UNCHANGED native

-----------------------------------------------------------------------------
(* The window                                                              *)

Start(c) ==
  /\ pc[c] = "idle" /\ starts < MaxStarts
  /\ pc' = [pc EXCEPT ![c] = "calling"]
  /\ attempt' = [attempt EXCEPT ![c] = 0]
  /\ starts' = starts + 1
  /\ UNCHANGED <<fileVars, phase, served, streamVars, cancel, removing, reply>>

Call(c) ==
  /\ pc[c] = "calling"
  /\ pc' = [pc EXCEPT ![c] = "waiting"]
  /\ Enter(c)
  /\ UNCHANGED <<fileVars, removing, attempt, starts>>

TriesAgainAtLength(c) ==  \* mutant: once too often
  reply[c] = "error" /\ attempt[c] <= MaxRetries
TriesAgain(c) == reply[c] = "error" /\ attempt[c] < MaxRetries

SameAttempt(c) == attempt[c]  \* mutant: the attempts are not counted
NextAttempt(c) == attempt[c] + 1

(* An error is tried again; success and "cancelled" end the call *)
Reply(c) ==
  /\ pc[c] = "waiting" /\ reply[c] # "none"
  /\ reply' = [reply EXCEPT ![c] = "none"]
  /\ IF TriesAgain(c)
       THEN /\ pc' = [pc EXCEPT ![c] = "calling"]
            /\ attempt' = [attempt EXCEPT ![c] = NextAttempt(c)]
       ELSE /\ pc' = [pc EXCEPT ![c] = "idle"]
            /\ UNCHANGED attempt
  /\ UNCHANGED <<fileVars, phase, served, streamVars, cancel, removing, starts>>

(* cancel_cero_download: the flag, then the removal if that is asked for.  *)
(* One such action of the window at a time.                                *)
Cancel ==
  /\ ~removing
  /\ cancel' = TRUE
  /\ removing' \in BOOLEAN
  /\ UNCHANGED <<fileVars, phase, served, streamVars, callVars>>

(* deleteModel removes the file and the partial file, flag or no flag *)
Delete ==
  /\ ~removing
  /\ dest' = "none"
  /\ removing' = TRUE
  /\ UNCHANGED <<part, phase, served, streamVars, cancel, callVars>>

RemovePart ==
  /\ removing
  /\ removing' = FALSE
  /\ part' = NoFile
  /\ attached' = FALSE
  /\ UNCHANGED <<dest, phase, served, have, at, cancel, callVars>>

(* The application ends; the files stay as they are *)
Crash ==
  /\ phase' = "idle" /\ served' = NoCaller
  /\ have' = 0 /\ at' = 0 /\ attached' = FALSE
  /\ cancel' = FALSE /\ removing' = FALSE
  /\ pc' = [c \in Callers |-> "idle"]
  /\ attempt' = [c \in Callers |-> 0]
  /\ reply' = [c \in Callers |-> "none"]
  /\ UNCHANGED <<fileVars, starts>>

-----------------------------------------------------------------------------
NativeStep ==
  \/ Fail \/ Respond \/ Chunk \/ Write \/ EndOfStream
  \/ Check \/ RemoveOld \/ Rename

WindowStep ==
  \/ \E c \in Callers : Start(c) \/ Call(c) \/ Reply(c)
  \/ Cancel \/ Delete \/ RemovePart

Next == NativeStep \/ WindowStep \/ Crash

Spec == Init /\ [][Next]_vars

(* A download makes progress: the server answers or the connection breaks. *)
(* Calls and replies arrive.                                               *)
Fairness ==
  /\ WF_vars(NativeStep)
  /\ \A c \in Callers : WF_vars(Call(c)) /\ WF_vars(Reply(c))

FairSpec == Spec /\ Fairness
-----------------------------------------------------------------------------
(* Properties                                                              *)

(* Whatever was cancelled, discarded, deleted, resumed or interrupted by a *)
(* crash: the file is absent, or it is what the checksum says.             *)
FileIsWhole == dest \in {"none", "whole"}

(* A caller that waits and has no answer on its way is the one whose       *)
(* download is active: no other download has taken over the entry, whose   *)
(* end would answer somebody else.                                         *)
WaitingIsServed ==
  \A c \in Callers :
    pc[c] = "waiting" /\ reply[c] = "none" <=> phase # "idle" /\ served = c

(* What was downloaded is kept: only a removal that was asked for, a full  *)
(* answer of the server, a failed check or the rename makes a partial file *)
(* shorter.  No cancel, error or crash does, nor a resume.                 *)
ProgressIsKept ==
  [][ \/ part'.len >= part.len
      \/ removing /\ ~removing'
      \/ phase = "asking" /\ at' = 0
      \/ phase \in {"checking", "replacing"} ]_vars

(* A caller is told that its download succeeded in the step in which the   *)
(* whole file takes its place, and it is the caller the file was fetched   *)
(* for; nothing else puts a file there.                                    *)
OkIsTrue ==
  [][/\ \A c \in Callers : reply[c] # "ok" /\ reply'[c] = "ok" =>
          served = c /\ dest' = "whole" /\ part = Whole /\ part' = NoFile
     /\ dest = "none" /\ dest' # "none" =>
          \E c \in Callers : reply[c] # "ok" /\ reply'[c] = "ok"]_vars

(* To its callers the download is the service of a file: one of them is    *)
(* served at a time, the file comes whole and with the news of it, and     *)
(* each attempt is answered once.                                          *)
CallOf(c) ==
  IF pc[c] = "idle" THEN "none"
  ELSE IF pc[c] = "calling" THEN "asked"
  ELSE IF reply[c] = "none" THEN "served" ELSE reply[c]

Service == INSTANCE FileService WITH
             file <- dest, call <- [c \in Callers |-> CallOf(c)], tries <- attempt

ServiceSpec == Service!Spec

(* How many steps of the native part are left of a download at most, ...   *)
DownloadLeft ==
  CASE phase = "asking" -> 2 * Chunks + 6
    [] phase = "streaming" -> 2 * (Chunks - at) + 4
    [] phase = "writing" -> 2 * (Chunks - at) + 3
    [] phase = "checking" -> 3
    [] phase = "checked" -> 2
    [] phase = "replacing" -> 1
    [] phase = "idle" -> 0

(* ... and of a call, with the attempts it still has *)
PerAttempt == 2 * Chunks + 10
CallLeft(c) ==
  IF pc[c] = "idle" THEN 0
  ELSE (MaxRetries - attempt[c]) * PerAttempt +
         (IF pc[c] = "calling" THEN PerAttempt - 1
          ELSE IF reply[c] = "none" THEN 2 + DownloadLeft ELSE 1)

(* A call does not go on for ever: nothing sets one back, what the others  *)
(* call, cancel or delete included, and every step of the native part or   *)
(* of a call takes the call it is for nearer to its end.                   *)
CallsRunOut ==
  [][/\ \A c \in Callers : pc[c] # "idle" => CallLeft(c)' <= CallLeft(c)
     /\ NativeStep => \E c \in Callers : c = served /\ CallLeft(c)' < CallLeft(c)
     /\ \A c \in Callers : Call(c) \/ Reply(c) => CallLeft(c)' < CallLeft(c)]_vars

(* A call of the window comes to an end *)
CallsEnd == \A c \in Callers : (pc[c] # "idle") ~> (pc[c] = "idle")
=============================================================================
