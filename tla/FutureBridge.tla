---------------------------- MODULE FutureBridge ----------------------------
(***************************************************************************)
(* future_into_py of src/src/rt.rs: every coroutine of the binding is an   *)
(* asyncio future whose operation runs as a task of the Rust runtime.      *)
(*                                                                         *)
(* Two sides: the event loop runs one handle of its ready queue at a time  *)
(* (Complete, OnCancel, and the wake-up of the task that awaits the        *)
(* future); the Rust task polls the oneshot channel of OnCancel first      *)
(* (`biased`) and then the operation, and hands the result to              *)
(* call_soon_threadsafe.  The asyncio side is modelled from how Future and *)
(* Task of the standard library behave.                                    *)
(***************************************************************************)
EXTENDS Naturals, Sequences

CONSTANT Calls  \* calls of future_into_py

VARIABLES
  fut,        \* the asyncio future of each call
  task,       \* the Python task that awaits it
  mustCancel, \* Task._must_cancel: cancel() found the future done already
  held,       \* Python holds a reference to the future
  tx,         \* where OnCancel's sender is
  rust,       \* the Rust task of each call
  taken,      \* the operation took effect (a read took its bytes)
  ready,      \* the loop's ready queue
  open        \* the loop is not closed

futureVars == <<fut, task, mustCancel, held, tx, rust, taken, ready, open>>

HandleKinds == {"complete", "oncancel", "wakeup"}

FutureTypeOK ==
  /\ fut \in [Calls -> {"none", "pending", "done", "cancelled", "collected"}]
  /\ task \in [Calls -> {"idle", "awaiting", "resumed", "cancelled"}]
  /\ mustCancel \in [Calls -> BOOLEAN]
  /\ held \in [Calls -> BOOLEAN]
  /\ tx \in [Calls -> {"none", "callback", "handle", "sent", "dropped"}]
  /\ rust \in [Calls -> {"none", "run", "polled", "ready", "posted", "dropped"}]
  /\ taken \in [Calls -> BOOLEAN]
  /\ ready \in Seq([kind : HandleKinds, call : Calls])
  /\ open \in BOOLEAN

FutureInit ==
  /\ fut = [c \in Calls |-> "none"]
  /\ task = [c \in Calls |-> "idle"]
  /\ mustCancel = [c \in Calls |-> FALSE]
  /\ held = [c \in Calls |-> FALSE]
  /\ tx = [c \in Calls |-> "none"]
  /\ rust = [c \in Calls |-> "none"]
  /\ taken = [c \in Calls |-> FALSE]
  /\ ready = <<>>
  /\ open = TRUE

Handle(kind, c) == [kind |-> kind, call |-> c]

Queued(kind, c) == \E i \in DOMAIN ready : ready[i] = Handle(kind, c)

-----------------------------------------------------------------------------
(***************************************************************************)
(* Python code on the loop's thread.                                       *)
(***************************************************************************)

\* Mutant of Call: OnCancel is not kept by the future, its sender dropped.
CallUnregistered(c) ==
  /\ open
  /\ fut[c] = "none"
  /\ fut' = [fut EXCEPT ![c] = "pending"]
  /\ held' = [held EXCEPT ![c] = TRUE]
  /\ tx' = [tx EXCEPT ![c] = "dropped"]
  /\ rust' = [rust EXCEPT ![c] = "run"]
  /\ UNCHANGED <<task, mustCancel, taken, ready, open>>

\* future_into_py: create_future, add_done_callback(OnCancel), spawn.
Call(c) ==
  /\ open
  /\ fut[c] = "none"
  /\ fut' = [fut EXCEPT ![c] = "pending"]
  /\ held' = [held EXCEPT ![c] = TRUE]
  /\ tx' = [tx EXCEPT ![c] = "callback"]
  /\ rust' = [rust EXCEPT ![c] = "run"]
  /\ UNCHANGED <<task, mustCancel, taken, ready, open>>

\* A task awaits the future: its wake-up is the second done callback.  A
\* future that is done already does not suspend it.
Await(c) ==
  /\ open
  /\ task[c] = "idle" /\ held[c]
  /\ task' = [task EXCEPT ![c] = CASE fut[c] = "pending" -> "awaiting"
                                   [] fut[c] = "done" -> "resumed"
                                   [] OTHER -> "cancelled"]
  /\ UNCHANGED <<fut, mustCancel, held, tx, rust, taken, ready, open>>

\* The future is dropped unawaited, or with the task of a closed loop.
Forget(c) ==
  /\ held[c]
  /\ task[c] = "idle" \/ ~open
  /\ held' = [held EXCEPT ![c] = FALSE]
  /\ UNCHANGED <<fut, task, mustCancel, tx, rust, taken, ready, open>>

\* Future.__schedule_callbacks: OnCancel, then the awaiting task.
Scheduled(c) ==
  LET after == Append(ready, Handle("oncancel", c))
  IN  IF task[c] = "awaiting" THEN Append(after, Handle("wakeup", c)) ELSE after

\* Task.cancel() or Future.cancel() while the future is pending.
Cancel(c) ==
  /\ open
  /\ fut[c] = "pending" /\ held[c]
  /\ fut' = [fut EXCEPT ![c] = "cancelled"]
  /\ tx' = [tx EXCEPT ![c] = "handle"]
  /\ ready' = Scheduled(c)
  /\ UNCHANGED <<task, mustCancel, held, rust, taken, open>>

\* Task.cancel() when the future is done and the wake-up is queued.
CancelLate(c) ==
  /\ open
  /\ fut[c] = "done" /\ task[c] = "awaiting"
  /\ mustCancel' = [mustCancel EXCEPT ![c] = TRUE]
  /\ UNCHANGED <<fut, task, held, tx, rust, taken, ready, open>>

\* loop.close(): the ready queue is cleared, the senders in it dropped.
CloseLoop ==
  /\ open
  /\ open' = FALSE
  /\ ready' = <<>>
  /\ tx' = [c \in Calls |-> IF tx[c] = "handle" THEN "dropped" ELSE tx[c]]
  /\ UNCHANGED <<fut, task, mustCancel, held, rust, taken>>

\* The future is collected, its callbacks with it, once nothing refers to
\* it: no Python variable or task, not the Rust task (fut_py is moved into
\* it), no Complete handle.
Collect(c) ==
  /\ fut[c] = "pending"
  /\ ~held[c] /\ rust[c] \in {"posted", "dropped"} /\ ~Queued("complete", c)
  /\ fut' = [fut EXCEPT ![c] = "collected"]
  /\ tx' = [tx EXCEPT ![c] = "dropped"]
  /\ UNCHANGED <<task, mustCancel, held, rust, taken, ready, open>>

-----------------------------------------------------------------------------
(***************************************************************************)
(* The loop runs the first handle of its queue.                            *)
(***************************************************************************)

Runs(kind, c) == open /\ ready # <<>> /\ Head(ready) = Handle(kind, c)

\* Complete.__call__ asks fut.done().
MayComplete(c) == fut[c] = "pending"

\* Complete.__call__: set_result or set_exception, unless done already.
Complete(c) ==
  /\ Runs("complete", c)
  /\ IF MayComplete(c)
     THEN /\ fut' = [fut EXCEPT ![c] = "done"]
          /\ tx' = [tx EXCEPT ![c] = "handle"]
          /\ ready' = Tail(Scheduled(c))
     ELSE /\ ready' = Tail(ready)
          /\ UNCHANGED <<fut, tx>>
  /\ UNCHANGED <<task, mustCancel, held, rust, taken, open>>

\* OnCancel.__call__: sends if the future was cancelled; the sender is gone
\* either way.
OnCancel(c) ==
  /\ Runs("oncancel", c)
  /\ tx' = [tx EXCEPT ![c] = IF fut[c] = "cancelled" THEN "sent" ELSE "dropped"]
  /\ ready' = Tail(ready)
  /\ UNCHANGED <<fut, task, mustCancel, held, rust, taken, open>>

\* The awaiting task goes on, with the result or with CancelledError.
Wakeup(c) ==
  /\ Runs("wakeup", c)
  /\ task' = [task EXCEPT ![c] =
                IF fut[c] = "cancelled" \/ mustCancel[c] THEN "cancelled" ELSE "resumed"]
  /\ held' = [held EXCEPT ![c] = FALSE]
  /\ ready' = Tail(ready)
  /\ UNCHANGED <<fut, mustCancel, tx, rust, taken, open>>

RunHandle == \E c \in Calls : Complete(c) \/ OnCancel(c) \/ Wakeup(c)

-----------------------------------------------------------------------------
(***************************************************************************)
(* The Rust task: select! { biased; _ = cancel_rx => return, r = fut => r }.*)
(***************************************************************************)

\* Mutant of Cancelled: select! matches only a value sent.
CancelledSentOnly(c) == tx[c] = "sent"

\* cancel_rx is ready: a value, or its sender dropped.
Cancelled(c) == tx[c] \in {"sent", "dropped"}

\* Mutant of PollCancel: the operation is polled first.
PollCancelUnbiased(c) ==
  /\ rust[c] = "run"
  /\ \/ rust' = [rust EXCEPT ![c] = "polled"]
     \/ Cancelled(c) /\ rust' = [rust EXCEPT ![c] = "dropped"]
  /\ UNCHANGED <<fut, task, mustCancel, held, tx, taken, ready, open>>

PollCancel(c) ==
  /\ rust[c] = "run"
  /\ rust' = [rust EXCEPT ![c] = IF Cancelled(c) THEN "dropped" ELSE "polled"]
  /\ UNCHANGED <<fut, task, mustCancel, held, tx, taken, ready, open>>

PollPending(c) ==
  /\ rust[c] = "polled"
  /\ rust' = [rust EXCEPT ![c] = "run"]
  /\ UNCHANGED <<fut, task, mustCancel, held, tx, taken, ready, open>>

PollReady(c) ==
  /\ rust[c] = "polled"
  /\ rust' = [rust EXCEPT ![c] = "ready"]
  /\ taken' = [taken EXCEPT ![c] = TRUE]
  /\ UNCHANGED <<fut, task, mustCancel, held, tx, ready, open>>

\* Mutant of Post: the job ends without call_soon_threadsafe.
PostNothing(c) ==
  /\ rust[c] = "ready"
  /\ rust' = [rust EXCEPT ![c] = "posted"]
  /\ UNCHANGED <<fut, task, mustCancel, held, tx, taken, ready, open>>

\* The blocking job: attach, call_soon_threadsafe(Complete, ...).  A closed
\* loop raises, which is ignored.
Post(c) ==
  /\ rust[c] = "ready"
  /\ rust' = [rust EXCEPT ![c] = "posted"]
  /\ ready' = IF open THEN Append(ready, Handle("complete", c)) ELSE ready
  /\ UNCHANGED <<fut, task, mustCancel, held, tx, taken, open>>

-----------------------------------------------------------------------------

PythonStep(c) ==
  Call(c) \/ Await(c) \/ Forget(c) \/ Cancel(c) \/ CancelLate(c) \/ Collect(c)

RustStep(c) == PollCancel(c) \/ PollPending(c) \/ PollReady(c) \/ Post(c)

FutureNext ==
  \/ \E c \in Calls : PythonStep(c) \/ RustStep(c)
  \/ RunHandle
  \/ CloseLoop

(***************************************************************************)
(* Fairness: an open loop runs its handles; the runtime polls a task that  *)
(* was woken (a channel that became ready wakes it) and runs its blocking  *)
(* jobs.  The operation itself need never become ready.                    *)
(***************************************************************************)
FutureFairness ==
  /\ WF_futureVars(RunHandle)
  /\ \A c \in Calls :
       /\ WF_futureVars(PollCancel(c))
       /\ WF_futureVars(PollPending(c) \/ PollReady(c))
       /\ WF_futureVars(Post(c))
       /\ WF_futureVars(Collect(c))

FutureSpec == FutureInit /\ [][FutureNext]_futureVars /\ FutureFairness

-----------------------------------------------------------------------------
(***************************************************************************)
(* Properties.                                                             *)
(***************************************************************************)

(***************************************************************************)
(* The invariant behind the refinement: what is in the queue, and where    *)
(* OnCancel's sender is, agree with the two sides of the call.             *)
(***************************************************************************)
HandleJustified(h) ==
  /\ h.kind = "complete" => rust[h.call] = "posted"
  /\ h.kind = "oncancel" => fut[h.call] \in {"done", "cancelled"}
  /\ h.kind = "wakeup" => /\ fut[h.call] \in {"done", "cancelled"}
                          /\ task[h.call] = "awaiting"

HandlesJustified ==
  /\ \A i \in 1..Len(ready) : HandleJustified(ready[i])
  /\ \A i, j \in 1..Len(ready) :
       ready[i] = ready[j] /\ ready[i].kind = "wakeup" => i = j

SendersJustified ==
  \A c \in Calls :
    /\ tx[c] = "none" <=> fut[c] = "none"
    /\ tx[c] = "callback" <=> fut[c] = "pending"
    /\ rust[c] = "none" <=> fut[c] = "none"
    /\ fut[c] = "done" => rust[c] = "posted"
    /\ fut[c] = "collected" => rust[c] \in {"posted", "dropped"}
    /\ rust[c] = "dropped" => fut[c] = "cancelled"
    /\ taken[c] <=> rust[c] \in {"ready", "posted"}
    /\ task[c] = "resumed" => fut[c] = "done"

\* A call's parts agree: Complete is queued, and the future done, only when
\* the operation has ended; OnCancel's sender is used or dropped only when
\* the future is no longer pending, so that the Rust task never takes a
\* live call for a cancelled one; a task goes on only with a result.
FutureInv == FutureTypeOK /\ HandlesJustified /\ SendersJustified

\* A future that is done stays as it is, and its task goes on once: a late
\* Complete after a cancellation changes nothing (rt.rs, Complete).
OutcomeIsFinal ==
  [][\A c \in Calls :
       /\ (fut[c] \in {"done", "cancelled"}) => (fut'[c] = fut[c])
       /\ (task[c] \in {"resumed", "cancelled"}) => (task'[c] = task[c])]_futureVars

\* Cancelling a call ends its operation, even when the loop is closed
\* before OnCancel could run: the Rust task is dropped or hands its result
\* in (rt.rs:144, "Cancelling it ... drops `fut`").
CancelEndsOperation ==
  \A c \in Calls : fut[c] = "cancelled" ~> rust[c] \in {"dropped", "posted"}

\* Once the cancellation was signalled to a Rust task that is not being
\* polled, its operation takes no effect any more (`biased`).
CancelPreempts ==
  \A c \in Calls :
    [](Cancelled(c) /\ rust[c] = "run" => [](~taken[c]))

\* A result that was produced reaches the task that awaits it, unless the
\* task is cancelled or the loop closed meanwhile.
ResultDelivered ==
  \A c \in Calls :
    rust[c] = "ready" /\ task[c] = "awaiting" ~>
      task[c] \in {"resumed", "cancelled"} \/ ~open

(***************************************************************************)
(* The bridge implements AsyncCall: the waiter is the future, the work is  *)
(* the Rust task.                                                          *)
(***************************************************************************)
CallerOf(c) ==
  CASE fut[c] = "none" -> "none"
    [] fut[c] = "pending" -> "waiting"
    [] fut[c] = "done" -> "answered"
    [] OTHER -> "gone"

WorkOf(c) ==
  CASE rust[c] = "none" -> "none"
    [] rust[c] \in {"run", "polled"} -> "running"
    [] rust[c] \in {"ready", "posted"} -> "finished"
    [] OTHER -> "stopped"

Abstract == INSTANCE AsyncCall WITH
  caller <- [c \in Calls |-> CallerOf(c)],
  work <- [c \in Calls |-> WorkOf(c)]

\* future_into_py keeps the promises of AsyncCall: in particular it drops
\* an operation only for a future that was cancelled, never for one whose
\* callback has merely run.
ImplementsCall == Abstract!Spec

\* python/zmux/_zmux.pyi:982 says of read: "Cancelling a pending read loses
\* no data."  A cancelled call's operation has taken nothing.
CancelledTakesNothing ==
  \A c \in Calls : task[c] = "cancelled" => ~taken[c]

\* rt.rs:144 says "Cancelling it (or dropping it unawaited) drops `fut`".
DroppedEndsOperation ==
  \A c \in Calls :
    fut[c] = "pending" /\ ~held[c] ~> rust[c] \in {"dropped", "posted"}
=============================================================================
