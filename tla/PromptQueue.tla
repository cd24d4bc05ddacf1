---------------------------- MODULE PromptQueue ----------------------------
(***************************************************************************)
(* The queue of requests that wait while another one runs                  *)
(* (src/presentation/PromptQueue.ts).  One singleton serves every terminal *)
(* view of the window.                                                     *)
(*                                                                         *)
(* A queued item is represented by the request it stands for: its label,   *)
(* kind, time stamp and runner do not influence the order of events.       *)
(* The operators below are the effects of the methods on the queue's own   *)
(* state; RequestRunner combines them with the state of the views.         *)
(***************************************************************************)
EXTENDS Naturals, SequencesExt

CONSTANTS
  Requests,   \* everything a user, a file or a workflow may ask for
  NoRequest   \* null

ASSUME PromptQueueAssumption == NoRequest \notin Requests

VARIABLES
  items,        \* the waiting requests, the next one first
  runningItem,  \* what the status bar and the queue panel show as running
  paused        \* TRUE while the user holds the queue

queueVars == <<items, runningItem, paused>>

PromptQueueTypeOK ==
  /\ items \in Seq(Requests)
  /\ runningItem \in Requests \cup {NoRequest}
  /\ paused \in BOOLEAN

PromptQueueInit ==
  /\ items = <<>>
  /\ runningItem = NoRequest
  /\ paused = FALSE

(* enqueue(), once for every request of the sequence rs *)
EnqueueInFront(rs) == items' = rs \o items  \* mutant: unshift for push
Enqueue(rs) == items' = items \o rs

(* takeNext() returns an item: it returns undefined while the queue is     *)
(* paused or empty                                                         *)
CanTakeWhilePaused == items # <<>>           \* mutant: no look at paused
CanTakeAllButLast == ~paused /\ Len(items) > 1  \* mutant: off by one
CanTake == ~paused /\ items # <<>>

TakeNextLeavingIt == items' = items          \* mutant: peek for shift
TakeNext == items' = Tail(items)

(* remove(i), which the panel calls by id and a typed command by number *)
RemoveLeavingAHole(i) == items' = [items EXCEPT ![i] = NoRequest]  \* mutant: delete for splice
RemoveQueued(i) == items' = RemoveAt(items, i)

(* move(id, j) of the item now at position i: splice it out, splice it in *)
Moved(s, i, j) == InsertAt(RemoveAt(s, i), j, s[i])
Move(i, j) == items' = Moved(items, i, j)

Clear == items' = <<>>

SetRunningItemOnlyToAnItem(r) == runningItem' = IF r = NoRequest THEN runningItem ELSE r  \* mutant
SetRunningItem(r) == runningItem' = r
=============================================================================
