----------------------------- MODULE TaskBridge -----------------------------
(***************************************************************************)
(* into_future of src/src/rt.rs: a Python awaitable (a callback's          *)
(* coroutine, a dialer, a limiter, an admission decision) as a Rust        *)
(* future.  The event loop starts it as a task (Start), hands its result   *)
(* over (Done) and cancels it when the Rust future was dropped before the  *)
(* result (CancelOnDrop).                                                  *)
(*                                                                         *)
(* Start holds the slot's lock from its look at `dropped` until the task   *)
(* is stored, so it is one step; CancelOnDrop takes the task out under the *)
(* lock and posts its cancellation after releasing it: two steps.          *)
(***************************************************************************)
EXTENDS Naturals, Sequences

CONSTANT Calls  \* calls of into_future

VARIABLES
  fut,          \* the Rust future of each call
  aw,           \* the awaitable given to it
  task,         \* the asyncio task made of it
  tx,           \* where the sender of the result is
  slotTask,     \* Slot.task is set
  slotDropped,  \* Slot.dropped
  ready,        \* the loop's ready queue
  open          \* the loop is not closed

taskVars == <<fut, aw, task, tx, slotTask, slotDropped, ready, open>>

TaskTypeOK ==
  /\ fut \in [Calls -> {"none", "awaiting", "answered", "failed", "dropping", "dropped"}]
  /\ aw \in [Calls -> {"none", "held", "started", "refused", "closed", "released", "leaked"}]
  /\ task \in [Calls -> {"none", "running", "cancelling", "ended"}]
  /\ tx \in [Calls -> {"none", "start", "callback", "handle", "sent", "dropped"}]
  /\ slotTask \in [Calls -> BOOLEAN]
  /\ slotDropped \in [Calls -> BOOLEAN]
  /\ ready \in Seq([kind : {"start", "done", "cancel"}, call : Calls])
  /\ open \in BOOLEAN

TaskInit ==
  /\ fut = [c \in Calls |-> "none"]
  /\ aw = [c \in Calls |-> "none"]
  /\ task = [c \in Calls |-> "none"]
  /\ tx = [c \in Calls |-> "none"]
  /\ slotTask = [c \in Calls |-> FALSE]
  /\ slotDropped = [c \in Calls |-> FALSE]
  /\ ready = <<>>
  /\ open = TRUE

Handle(kind, c) == [kind |-> kind, call |-> c]

Runs(kind, c) == open /\ ready # <<>> /\ Head(ready) = Handle(kind, c)

-----------------------------------------------------------------------------
(***************************************************************************)
(* The Rust side.                                                          *)
(***************************************************************************)

\* into_future: call_soon_threadsafe(Start), which raises on a closed loop
\* and leaves no call.
IntoFuture(c) ==
  /\ open
  /\ fut[c] = "none"
  /\ fut' = [fut EXCEPT ![c] = "awaiting"]
  /\ aw' = [aw EXCEPT ![c] = "held"]
  /\ tx' = [tx EXCEPT ![c] = "start"]
  /\ ready' = Append(ready, Handle("start", c))
  /\ UNCHANGED <<task, slotTask, slotDropped, open>>

\* rx.await ends: with what Done sent, or with CancelledError because the
\* sender was dropped; the guard is disarmed.
Receive(c) ==
  /\ fut[c] = "awaiting"
  /\ tx[c] \in {"sent", "dropped"}
  /\ fut' = [fut EXCEPT ![c] = IF tx[c] = "sent" THEN "answered" ELSE "failed"]
  /\ UNCHANGED <<aw, task, tx, slotTask, slotDropped, ready, open>>

\* CancelOnDrop::drop, armed, under the lock: notes the drop, takes the task.
DropFuture(c) ==
  /\ fut[c] = "awaiting"
  /\ slotDropped' = [slotDropped EXCEPT ![c] = TRUE]
  /\ slotTask' = [slotTask EXCEPT ![c] = FALSE]
  /\ fut' = [fut EXCEPT ![c] = IF slotTask[c] THEN "dropping" ELSE "dropped"]
  /\ UNCHANGED <<aw, task, tx, ready, open>>

\* Mutant of PostCancel: the task is let go of without its cancellation.
PostCancelNothing(c) ==
  /\ fut[c] = "dropping"
  /\ fut' = [fut EXCEPT ![c] = "dropped"]
  /\ UNCHANGED <<aw, task, tx, slotTask, slotDropped, ready, open>>

\* CancelOnDrop::drop, the lock released: call_soon_threadsafe(task.cancel),
\* whose error is ignored.
PostCancel(c) ==
  /\ fut[c] = "dropping"
  /\ fut' = [fut EXCEPT ![c] = "dropped"]
  /\ ready' = IF open THEN Append(ready, Handle("cancel", c)) ELSE ready
  /\ UNCHANGED <<aw, task, tx, slotTask, slotDropped, open>>

-----------------------------------------------------------------------------
(***************************************************************************)
(* The loop's thread.                                                      *)
(***************************************************************************)

\* Mutant of StartDropped: the awaitable is let go of, the sender kept.
StartDroppedUnclosed(c) ==
  /\ slotDropped[c]
  /\ UNCHANGED <<aw, task, tx, slotTask>>

\* Mutant of StartDropped: the slot is not asked.
StartDroppedUnasked(c) ==
  /\ aw' = [aw EXCEPT ![c] = "closed"]
  /\ tx' = [tx EXCEPT ![c] = "dropped"]
  /\ UNCHANGED <<task, slotTask>>

\* Start.__call__ for a dropped future: a coroutine, or whatever else has a
\* close(), is closed, and another awaitable is let go of.  The sender goes
\* with the handle.
StartDropped(c) ==
  /\ slotDropped[c]
  /\ \E how \in {"closed", "released"} : aw' = [aw EXCEPT ![c] = how]
  /\ tx' = [tx EXCEPT ![c] = "dropped"]
  /\ UNCHANGED <<task, slotTask>>

\* Start.__call__: ensure_future, add_done_callback(Done), Slot.task.
StartTask(c) ==
  /\ ~slotDropped[c]
  /\ aw' = [aw EXCEPT ![c] = "started"]
  /\ task' = [task EXCEPT ![c] = "running"]
  /\ tx' = [tx EXCEPT ![c] = "callback"]
  /\ slotTask' = [slotTask EXCEPT ![c] = TRUE]

\* ensure_future raises: what the callback returned is not awaitable.
StartRefused(c) ==
  /\ ~slotDropped[c]
  /\ aw' = [aw EXCEPT ![c] = "refused"]
  /\ tx' = [tx EXCEPT ![c] = "dropped"]
  /\ UNCHANGED <<task, slotTask>>

Start(c) ==
  /\ Runs("start", c)
  /\ StartDropped(c) \/ StartTask(c) \/ StartRefused(c)
  /\ ready' = Tail(ready)
  /\ UNCHANGED <<fut, slotDropped, open>>

\* The task ends: a result, an exception, or a cancellation, its own or
\* from elsewhere.  Its callback is queued.
TaskEnds(c) ==
  /\ open
  /\ task[c] \in {"running", "cancelling"}
  /\ task' = [task EXCEPT ![c] = "ended"]
  /\ tx' = [tx EXCEPT ![c] = "handle"]
  /\ ready' = Append(ready, Handle("done", c))
  /\ UNCHANGED <<fut, aw, slotTask, slotDropped, open>>

\* Mutant of Done: the result is dropped.
DoneUnsent(c) ==
  /\ Runs("done", c)
  /\ ready' = Tail(ready)
  /\ UNCHANGED <<fut, aw, task, tx, slotTask, slotDropped, open>>

\* Done.__call__ sends the task's result.
Done(c) ==
  /\ Runs("done", c)
  /\ tx' = [tx EXCEPT ![c] = "sent"]
  /\ ready' = Tail(ready)
  /\ UNCHANGED <<fut, aw, task, slotTask, slotDropped, open>>

\* task.cancel(): nothing if the task has ended.
RunCancel(c) ==
  /\ Runs("cancel", c)
  /\ task' = [task EXCEPT ![c] = IF @ = "running" THEN "cancelling" ELSE @]
  /\ ready' = Tail(ready)
  /\ UNCHANGED <<fut, aw, tx, slotTask, slotDropped, open>>

\* loop.close() clears the queue: the senders of the handles in it are
\* dropped, an awaitable not started is never run.  A started task stays,
\* with its callback, for as long as the slot refers to it.
CloseLoop ==
  /\ open
  /\ open' = FALSE
  /\ ready' = <<>>
  /\ tx' = [c \in Calls |-> IF tx[c] \in {"start", "handle"} THEN "dropped" ELSE tx[c]]
  /\ aw' = [c \in Calls |-> IF aw[c] = "held" THEN "leaked" ELSE aw[c]]
  /\ UNCHANGED <<fut, task, slotTask, slotDropped>>

-----------------------------------------------------------------------------

RustStep(c) == IntoFuture(c) \/ Receive(c) \/ DropFuture(c) \/ PostCancel(c)

RunHandle == \E c \in Calls : Start(c) \/ Done(c) \/ RunCancel(c)

TaskNext ==
  \/ \E c \in Calls : RustStep(c) \/ TaskEnds(c)
  \/ RunHandle
  \/ CloseLoop

(***************************************************************************)
(* Fairness: an open loop runs its handles, the runtime polls a future     *)
(* whose channel became ready, a drop under way goes on.  A task need not  *)
(* end, a future need not be dropped.                                      *)
(***************************************************************************)
TaskFairness ==
  /\ WF_taskVars(RunHandle)
  /\ \A c \in Calls : WF_taskVars(Receive(c)) /\ WF_taskVars(PostCancel(c))

TaskSpec == TaskInit /\ [][TaskNext]_taskVars /\ TaskFairness

-----------------------------------------------------------------------------
(***************************************************************************)
(* Properties.                                                             *)
(***************************************************************************)

(***************************************************************************)
(* The invariant behind the refinement: queue, sender and slot agree with  *)
(* the awaitable and its task.                                             *)
(***************************************************************************)
Queued(kind, c) == \E i \in DOMAIN ready : ready[i] = Handle(kind, c)

HandleJustified(h) ==
  /\ h.kind = "start" => aw[h.call] = "held"
  /\ h.kind = "done" => task[h.call] = "ended"
  /\ h.kind = "cancel" => fut[h.call] = "dropped"

HandlesJustified ==
  /\ \A i \in 1..Len(ready) : HandleJustified(ready[i])
  /\ \A i, j \in 1..Len(ready) :
       ready[i] = ready[j] /\ ready[i].kind = "start" => i = j

CallJustified ==
  \A c \in Calls :
    /\ aw[c] = "none" <=> fut[c] = "none"
    /\ aw[c] = "started" <=> task[c] # "none"
    /\ aw[c] \in {"closed", "released"} => slotDropped[c]
    /\ slotDropped[c] <=> fut[c] \in {"dropping", "dropped"}
    /\ slotTask[c] <=> aw[c] = "started" /\ ~slotDropped[c]
    /\ tx[c] = "start" => aw[c] = "held"
    /\ tx[c] \in {"handle", "sent"} => task[c] = "ended"
    /\ tx[c] = "dropped" => task[c] = "ended" \/ aw[c] \in {"refused", "leaked", "closed", "released"}
    /\ fut[c] \in {"answered", "failed"} => tx[c] \in {"sent", "dropped"}

CancelOnItsWay ==
  \A c \in Calls :
    fut[c] = "dropped" /\ task[c] = "running" => Queued("cancel", c) \/ ~open

\* A call's parts agree: each Start runs once; the sender is used or gone
\* only when the awaitable came to an end; the slot holds the task exactly
\* while the Rust future could still cancel it; and the task of a dropped
\* future is running only while its cancellation is queued.
TaskInv == TaskTypeOK /\ HandlesJustified /\ CallJustified /\ CancelOnItsWay

\* Whatever the order of the drop and of Start, no task comes to be for a
\* dropped future.
DroppedNotStarted ==
  [][\A c \in Calls :
       (fut[c] \in {"dropping", "dropped"} /\ task[c] = "none") => (task'[c] = "none")]_taskVars

\* rt.rs:265, "Dropping the future cancels the task": a dropped future starts
\* no task, and its task does not run on uncancelled.
DropCancelsTask ==
  /\ DroppedNotStarted
  /\ \A c \in Calls : fut[c] = "dropped" ~> task[c] # "running" \/ ~open

\* An awaitable handed over is started, refused or closed, or let go of when it
\* has no close(): a coroutine is not left unawaited on a loop that runs (rt.rs,
\* Start).
AwaitableUsed ==
  \A c \in Calls : aw[c] = "held" ~> aw[c] # "held"

\* A future that waits gets what there is to get: once its task ended, or
\* the start failed or was lost with the loop, it is answered or fails.
WaiterAnswered ==
  \A c \in Calls :
    fut[c] = "awaiting" /\ (task[c] = "ended" \/ aw[c] \in {"refused", "leaked"})
      ~> fut[c] # "awaiting"

(***************************************************************************)
(* The bridge implements AsyncCall: the waiter is the Rust future, the     *)
(* work is the awaitable and its task.                                     *)
(***************************************************************************)
CallerOf(c) ==
  CASE fut[c] = "none" -> "none"
    [] fut[c] = "awaiting" -> "waiting"
    [] fut[c] \in {"answered", "failed"} -> "answered"
    [] OTHER -> "gone"

WorkOf(c) ==
  CASE aw[c] = "none" -> "none"
    [] aw[c] \in {"closed", "released"} -> "stopped"
    [] aw[c] \in {"refused", "leaked"} \/ task[c] = "ended" -> "finished"
    [] OTHER -> "running"

Abstract == INSTANCE AsyncCall WITH
  caller <- [c \in Calls |-> CallerOf(c)],
  work <- [c \in Calls |-> WorkOf(c)]

\* into_future keeps the promises of AsyncCall: a Rust future is answered
\* only when its awaitable came to an end, and an awaitable is given up only
\* for a future that was dropped.
ImplementsCall == Abstract!Spec
=============================================================================
