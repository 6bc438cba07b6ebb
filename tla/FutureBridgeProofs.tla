------------------------- MODULE FutureBridgeProofs -------------------------
(***************************************************************************)
(* Proofs about FutureBridge, for any set of calls: FutureInv is           *)
(* inductive, and future_into_py implements AsyncCall.                     *)
(***************************************************************************)
EXTENDS FutureBridge, SequenceTheorems, TLAPS

Handles == [kind : HandleKinds, call : Calls]

-----------------------------------------------------------------------------
\* Every handle of the ready queue is one of this bridge's.
LEMMA QueuedIsHandle ==
  ASSUME FutureTypeOK, NEW i \in 1..Len(ready)
  PROVE  ready[i] \in Handles /\ ready[i].call \in Calls
<1>1. ready \in Seq(Handles)
  BY DEF FutureTypeOK, Handles
<1>2. ready[i] \in Handles
  BY <1>1, ElementOfSeq
<1>3. QED
  BY <1>2 DEF Handles

\* A step of Python code that leaves the queue alone preserves the
\* invariant.
LEMMA PythonQuietPreserves ==
  ASSUME FutureInv, NEW c \in Calls,
         Call(c) \/ Await(c) \/ Forget(c) \/ CancelLate(c) \/ Collect(c)
  PROVE  FutureInv'
<1> USE DEF FutureInv
<1>1. \A i \in 1..Len(ready) : ready[i].call \in Calls
  BY QueuedIsHandle
<1>2. FutureTypeOK'
  BY DEF FutureTypeOK, Call, Await, Forget, CancelLate, Collect
<1>3. SendersJustified'
  BY DEF FutureTypeOK, SendersJustified, Call, Await, Forget, CancelLate, Collect
<1>4. HandlesJustified'
  BY <1>1 DEF FutureTypeOK, SendersJustified, HandlesJustified, HandleJustified,
              Call, Await, Forget, CancelLate, Collect
<1>5. QED
  BY <1>2, <1>3, <1>4

\* A poll of the Rust task preserves the invariant.
LEMMA PollPreserves ==
  ASSUME FutureInv, NEW c \in Calls,
         PollCancel(c) \/ PollPending(c) \/ PollReady(c)
  PROVE  FutureInv'
<1> USE DEF FutureInv
<1>1. \A i \in 1..Len(ready) : ready[i].call \in Calls
  BY QueuedIsHandle
<1>2. FutureTypeOK'
  BY DEF FutureTypeOK, PollCancel, PollPending, PollReady
<1>3. SendersJustified'
  BY DEF FutureTypeOK, SendersJustified, PollCancel, PollPending, PollReady, Cancelled
<1>4. HandlesJustified'
  BY <1>1 DEF FutureTypeOK, HandlesJustified, HandleJustified,
              PollCancel, PollPending, PollReady
<1>5. QED
  BY <1>2, <1>3, <1>4

\* Handing the result to call_soon_threadsafe preserves the invariant.
LEMMA PostPreserves ==
  ASSUME FutureInv, NEW c \in Calls, Post(c)
  PROVE  FutureInv'
<1> USE DEF FutureInv
<1>1. \A i \in 1..Len(ready) : ready[i].call \in Calls
  BY QueuedIsHandle
<1>2. Handle("complete", c) \in Handles /\ ready \in Seq(Handles)
  BY DEF Handle, Handles, HandleKinds, FutureTypeOK
<1>3. FutureTypeOK'
  BY <1>2, AppendProperties DEF FutureTypeOK, Post, Handles
<1>4. SendersJustified'
  BY DEF FutureTypeOK, SendersJustified, Post
<1>5. \A i \in 1..Len(ready) : HandleJustified(ready[i])'
  BY <1>1 DEF FutureTypeOK, HandlesJustified, HandleJustified, Post
<1>6. HandleJustified(Handle("complete", c))'
  BY DEF HandleJustified, Handle, Post, FutureTypeOK
<1>7. HandlesJustified'
  <2>1. CASE ~open
    BY <2>1, <1>5 DEF HandlesJustified, Post
  <2>2. CASE open
    <3>1. ready' = Append(ready, Handle("complete", c))
      BY <2>2 DEF Post
    <3>2. /\ Len(ready') = Len(ready) + 1
          /\ \A i \in 1..Len(ready) : ready'[i] = ready[i]
          /\ ready'[Len(ready) + 1] = Handle("complete", c)
          /\ Len(ready) \in Nat
      BY <3>1, <1>2, AppendProperties, LenProperties
    <3>3. QED
      BY <3>2, <1>5, <1>6 DEF HandlesJustified, HandleJustified, Handle
  <2>3. QED
    BY <2>1, <2>2
<1>8. QED
  BY <1>3, <1>4, <1>7

\* Closing the loop preserves the invariant: the queue is empty, and only a
\* future that is done has its sender in a handle.
LEMMA CloseLoopPreserves ==
  ASSUME FutureInv, CloseLoop
  PROVE  FutureInv'
<1> USE DEF FutureInv
<1>1. FutureTypeOK'
  BY EmptySeq DEF FutureTypeOK, CloseLoop
<1>2. SendersJustified'
  BY DEF FutureTypeOK, SendersJustified, CloseLoop
<1>3. HandlesJustified'
  BY DEF HandlesJustified, CloseLoop
<1>4. QED
  BY <1>1, <1>2, <1>3

-----------------------------------------------------------------------------
(***************************************************************************)
(* Queues whose handles are justified, in the next state as well.          *)
(***************************************************************************)
HandleJustifiedNext(h) ==
  /\ h.kind = "complete" => rust'[h.call] = "posted"
  /\ h.kind = "oncancel" => fut'[h.call] \in {"done", "cancelled"}
  /\ h.kind = "wakeup" => /\ fut'[h.call] \in {"done", "cancelled"}
                          /\ task'[h.call] = "awaiting"

JustifiedNext(q) ==
  /\ q \in Seq(Handles)
  /\ \A i \in 1..Len(q) : HandleJustifiedNext(q[i])
  /\ \A i, j \in 1..Len(q) : q[i] = q[j] /\ q[i].kind = "wakeup" => i = j

\* Taking the first handle off a justified queue leaves a justified queue.
LEMMA TailJustified ==
  ASSUME NEW q, JustifiedNext(q), q # <<>>
  PROVE  JustifiedNext(Tail(q))
<1>1. /\ Tail(q) \in Seq(Handles)
      /\ Len(Tail(q)) = Len(q) - 1
      /\ \A i \in 1..Len(Tail(q)) : Tail(q)[i] = q[i + 1]
      /\ Len(q) \in Nat
  BY HeadTailProperties, LenProperties DEF JustifiedNext
<1>2. \A i \in 1..Len(Tail(q)) : i + 1 \in 1..Len(q)
  BY <1>1
<1>3. QED
  BY <1>1, <1>2 DEF JustifiedNext

\* Future.__schedule_callbacks adds OnCancel's handle and, for an awaited
\* future, the wake-up.
LEMMA ScheduledFacts ==
  ASSUME FutureTypeOK, NEW c \in Calls
  PROVE  /\ Scheduled(c) \in Seq(Handles)
         /\ Scheduled(c) # <<>>
         /\ Len(ready) \in Nat
         /\ \A i \in 1..Len(ready) : Scheduled(c)[i] = ready[i]
         /\ Len(Scheduled(c)) \in {Len(ready) + 1, Len(ready) + 2}
         /\ Scheduled(c)[Len(ready) + 1] = Handle("oncancel", c)
         /\ Len(Scheduled(c)) = Len(ready) + 2 =>
              /\ Scheduled(c)[Len(ready) + 2] = Handle("wakeup", c)
              /\ task[c] = "awaiting"
<1> DEFINE one == Append(ready, Handle("oncancel", c))
           two == Append(one, Handle("wakeup", c))
<1>1. /\ Handle("oncancel", c) \in Handles
      /\ Handle("wakeup", c) \in Handles
      /\ ready \in Seq(Handles)
  BY DEF Handle, Handles, HandleKinds, FutureTypeOK
<1>2. /\ one \in Seq(Handles) /\ one # <<>>
      /\ Len(one) = Len(ready) + 1
      /\ \A i \in 1..Len(ready) : one[i] = ready[i]
      /\ one[Len(ready) + 1] = Handle("oncancel", c)
      /\ Len(ready) \in Nat
  BY <1>1, AppendProperties, LenProperties
<1>3. /\ two \in Seq(Handles) /\ two # <<>>
      /\ Len(two) = Len(one) + 1
      /\ \A i \in 1..Len(one) : two[i] = one[i]
      /\ two[Len(one) + 1] = Handle("wakeup", c)
  BY <1>1, <1>2, AppendProperties
<1>4. CASE task[c] = "awaiting"
  <2>1. Scheduled(c) = two
    BY <1>4 DEF Scheduled
  <2> HIDE DEF one, two
  <2>2. QED
    BY <2>1, <1>2, <1>3, <1>4
<1>5. CASE task[c] # "awaiting"
  <2>1. Scheduled(c) = one
    BY <1>5 DEF Scheduled
  <2> HIDE DEF one, two
  <2>2. QED
    BY <2>1, <1>2
<1>6. QED
  BY <1>4, <1>5

\* The callbacks of a future that was pending and is done or cancelled now
\* are justified, and its wake-up is the only one.
LEMMA ScheduledJustified ==
  ASSUME FutureInv, NEW c \in Calls, fut[c] = "pending",
         NEW d \in {"done", "cancelled"},
         fut' = [fut EXCEPT ![c] = d],
         UNCHANGED <<task, rust>>
  PROVE  JustifiedNext(Scheduled(c))
<1> DEFINE q == Scheduled(c)
           n == Len(ready)
<1>1. /\ q \in Seq(Handles)
      /\ n \in Nat
      /\ \A i \in 1..n : q[i] = ready[i]
      /\ Len(q) \in {n + 1, n + 2}
      /\ q[n + 1] = Handle("oncancel", c)
      /\ Len(q) = n + 2 => q[n + 2] = Handle("wakeup", c) /\ task[c] = "awaiting"
  BY ScheduledFacts DEF FutureInv
<1>2. \A i \in 1..n : ready[i].call \in Calls
  BY QueuedIsHandle DEF FutureInv
<1>3. \A i \in 1..n : HandleJustifiedNext(ready[i])
  BY <1>2 DEF FutureInv, FutureTypeOK, HandlesJustified, HandleJustified, HandleJustifiedNext
<1>4. fut'[c] = d
  BY DEF FutureInv, FutureTypeOK
<1>5. HandleJustifiedNext(Handle("oncancel", c))
  BY <1>4 DEF HandleJustifiedNext, Handle
<1>6. task[c] = "awaiting" => HandleJustifiedNext(Handle("wakeup", c))
  BY <1>4 DEF HandleJustifiedNext, Handle
<1>7. \A i \in 1..n : ready[i].kind = "wakeup" => ready[i].call # c
  BY DEF FutureInv, HandlesJustified, HandleJustified
<1> HIDE DEF q, n
<1>8. \A i \in 1..Len(q) : i \in 1..n \/ i = n + 1 \/ (i = n + 2 /\ Len(q) = n + 2)
  BY <1>1
<1>9. \A i \in 1..Len(q) : HandleJustifiedNext(q[i])
  BY <1>1, <1>3, <1>5, <1>6, <1>8
<1>10. \A i, j \in 1..n : ready[i] = ready[j] /\ ready[i].kind = "wakeup" => i = j
  BY DEF FutureInv, HandlesJustified, n
<1>11. \A i, j \in 1..Len(q) : q[i] = q[j] /\ q[i].kind = "wakeup" => i = j
  <2>1. \A i \in 1..Len(q) :
           q[i].kind = "wakeup" /\ q[i].call = c => i = n + 2
    BY <1>1, <1>7, <1>8 DEF Handle
  <2>2. \A i \in 1..Len(q) :
           q[i].kind = "wakeup" /\ q[i].call # c => i \in 1..n
    BY <1>1, <1>8 DEF Handle
  <2>3. QED
    BY <2>1, <2>2, <1>1, <1>10
<1>12. QED
  BY <1>1, <1>9, <1>11 DEF JustifiedNext, q

\* The queue of a state is justified when the invariant holds.
LEMMA ReadyJustified ==
  ASSUME FutureInv, UNCHANGED <<fut, task, rust>>
  PROVE  JustifiedNext(ready)
<1>1. \A i \in 1..Len(ready) : HandleJustifiedNext(ready[i])
  BY DEF FutureInv, HandlesJustified, HandleJustified, HandleJustifiedNext
<1>2. QED
  BY <1>1 DEF FutureInv, FutureTypeOK, HandlesJustified, JustifiedNext, Handles

\* A justified queue makes the invariant's part about the queue.
LEMMA JustifiedIsInv ==
  ASSUME NEW q, JustifiedNext(q), ready' = q
  PROVE  HandlesJustified' /\ ready' \in Seq(Handles)
BY DEF JustifiedNext, HandlesJustified, HandleJustified, HandleJustifiedNext

-----------------------------------------------------------------------------
\* Cancelling a pending future preserves the invariant.
LEMMA CancelPreserves ==
  ASSUME FutureInv, NEW c \in Calls, Cancel(c)
  PROVE  FutureInv'
<1>1. HandlesJustified' /\ ready' \in Seq(Handles)
  <2>1. JustifiedNext(Scheduled(c))
    BY ScheduledJustified DEF Cancel
  <2>2. QED
    BY <2>1, JustifiedIsInv DEF Cancel
<1>2. FutureTypeOK'
  BY <1>1 DEF FutureInv, FutureTypeOK, Cancel, Handles
<1>3. SendersJustified'
  BY DEF FutureInv, FutureTypeOK, SendersJustified, Cancel
<1>4. QED
  BY <1>1, <1>2, <1>3 DEF FutureInv

\* Complete.__call__ preserves the invariant: its handle is there only once
\* the operation has ended.
LEMMA CompletePreserves ==
  ASSUME FutureInv, NEW c \in Calls, Complete(c)
  PROVE  FutureInv'
<1>1. rust[c] = "posted"
  <2>1. 1 \in 1..Len(ready) /\ ready[1] = Handle("complete", c)
    BY EmptySeq DEF Complete, Runs, FutureInv, FutureTypeOK
  <2>2. QED
    BY <2>1 DEF FutureInv, HandlesJustified, HandleJustified, Handle
<1>2. CASE MayComplete(c)
  <2>1. JustifiedNext(Scheduled(c))
    BY <1>2, ScheduledJustified DEF Complete, MayComplete
  <2>2. JustifiedNext(Tail(Scheduled(c)))
    BY <2>1, TailJustified, ScheduledFacts DEF FutureInv
  <2>3. HandlesJustified' /\ ready' \in Seq(Handles)
    BY <1>2, <2>2, JustifiedIsInv DEF Complete
  <2>4. FutureTypeOK'
    BY <1>2, <2>3 DEF FutureInv, FutureTypeOK, Complete, Handles
  <2>5. SendersJustified'
    BY <1>1, <1>2 DEF FutureInv, FutureTypeOK, SendersJustified, Complete, MayComplete
  <2>6. QED
    BY <2>3, <2>4, <2>5 DEF FutureInv
<1>3. CASE ~MayComplete(c)
  <2>1. JustifiedNext(Tail(ready))
    BY <1>3, ReadyJustified, TailJustified DEF Complete, Runs
  <2>2. HandlesJustified' /\ ready' \in Seq(Handles)
    BY <1>3, <2>1, JustifiedIsInv DEF Complete
  <2>3. FutureTypeOK' /\ SendersJustified'
    BY <1>3, <2>2 DEF FutureInv, FutureTypeOK, SendersJustified, Complete, Handles
  <2>4. QED
    BY <2>2, <2>3 DEF FutureInv
<1>4. QED
  BY <1>2, <1>3

\* OnCancel.__call__ preserves the invariant.
LEMMA OnCancelPreserves ==
  ASSUME FutureInv, NEW c \in Calls, OnCancel(c)
  PROVE  FutureInv'
<1>1. fut[c] \in {"done", "cancelled"}
  <2>1. 1 \in 1..Len(ready) /\ ready[1] = Handle("oncancel", c)
    BY EmptySeq DEF OnCancel, Runs, FutureInv, FutureTypeOK
  <2>2. QED
    BY <2>1 DEF FutureInv, HandlesJustified, HandleJustified, Handle
<1>2. JustifiedNext(Tail(ready))
  BY ReadyJustified, TailJustified DEF OnCancel, Runs
<1>3. HandlesJustified' /\ ready' \in Seq(Handles)
  BY <1>2, JustifiedIsInv DEF OnCancel
<1>4. FutureTypeOK' /\ SendersJustified'
  BY <1>1, <1>3 DEF FutureInv, FutureTypeOK, SendersJustified, OnCancel, Handles
<1>5. QED
  BY <1>3, <1>4 DEF FutureInv

\* The wake-up of the awaiting task preserves the invariant: it is the only
\* one queued for the task.
LEMMA WakeupPreserves ==
  ASSUME FutureInv, NEW c \in Calls, Wakeup(c)
  PROVE  FutureInv'
<1>1. /\ 1 \in 1..Len(ready) /\ ready[1] = Handle("wakeup", c)
      /\ ready \in Seq(Handles) /\ ready # <<>>
  BY EmptySeq DEF Wakeup, Runs, FutureInv, FutureTypeOK, Handles
<1>2. fut[c] \in {"done", "cancelled"} /\ task[c] = "awaiting"
  BY <1>1 DEF FutureInv, HandlesJustified, HandleJustified, Handle
<1>3. /\ Tail(ready) \in Seq(Handles)
      /\ Len(ready) \in Nat
      /\ Len(Tail(ready)) = Len(ready) - 1
      /\ \A i \in 1..Len(Tail(ready)) : Tail(ready)[i] = ready[i + 1]
  BY <1>1, HeadTailProperties, LenProperties
<1>4. \A i \in 1..Len(Tail(ready)) : i + 1 \in 1..Len(ready) /\ i + 1 # 1
  BY <1>3
<1>5. \A i \in 1..Len(ready) :
         i # 1 /\ ready[i].kind = "wakeup" => ready[i].call # c
  <2>1. \A i \in 1..Len(ready) : ready[i] \in Handles
    BY <1>1, ElementOfSeq
  <2>2. \A h \in Handles : h.kind = "wakeup" /\ h.call = c => h = Handle("wakeup", c)
    BY DEF Handles, Handle
  <2>3. Handle("wakeup", c).kind = "wakeup"
    BY DEF Handle
  <2>4. QED
    BY <1>1, <2>1, <2>2, <2>3 DEF FutureInv, HandlesJustified
<1>6. \A i \in 1..Len(ready) : ready[i].call \in Calls
  BY QueuedIsHandle DEF FutureInv
<1>7. \A i \in 1..Len(ready) : i # 1 => HandleJustifiedNext(ready[i])
  BY <1>5, <1>6 DEF FutureInv, FutureTypeOK, HandlesJustified, HandleJustified,
                    HandleJustifiedNext, Wakeup
<1>8. JustifiedNext(Tail(ready))
  BY <1>3, <1>4, <1>7 DEF JustifiedNext, FutureInv, HandlesJustified
<1>9. HandlesJustified' /\ ready' \in Seq(Handles)
  BY <1>8, JustifiedIsInv DEF Wakeup
<1>10. FutureTypeOK' /\ SendersJustified'
  BY <1>2, <1>9 DEF FutureInv, FutureTypeOK, SendersJustified, Wakeup, Handles
<1>11. QED
  BY <1>9, <1>10 DEF FutureInv

-----------------------------------------------------------------------------
\* Every step of the bridge preserves the invariant.
LEMMA StepPreserves ==
  ASSUME FutureInv, [FutureNext]_futureVars
  PROVE  FutureInv'
<1>1. CASE \E c \in Calls : PythonStep(c)
  BY <1>1, PythonQuietPreserves, CancelPreserves DEF PythonStep
<1>2. CASE \E c \in Calls : RustStep(c)
  BY <1>2, PollPreserves, PostPreserves DEF RustStep
<1>3. CASE RunHandle
  BY <1>3, CompletePreserves, OnCancelPreserves, WakeupPreserves DEF RunHandle
<1>4. CASE CloseLoop
  BY <1>4, CloseLoopPreserves
<1>5. CASE UNCHANGED futureVars
  BY <1>5 DEF futureVars, FutureInv, FutureTypeOK, HandlesJustified, HandleJustified,
              SendersJustified
<1>6. QED
  BY <1>1, <1>2, <1>3, <1>4, <1>5 DEF FutureNext

\* The parts of every call agree in every reachable state: Complete only
\* after the operation, the cancellation signal only for a future that is
\* no longer pending.
THEOREM FutureInvariance == FutureSpec => []FutureInv
<1>1. FutureInit => FutureInv
  BY EmptySeq DEF FutureInit, FutureInv, FutureTypeOK, HandlesJustified,
                  HandleJustified, SendersJustified
<1>2. QED
  BY <1>1, StepPreserves, PTL DEF FutureSpec

\* A future that is done stays as it is and its task goes on once: the
\* `done()` of Complete and the one wake-up per task see to it.
THEOREM FinalOutcome == FutureSpec => OutcomeIsFinal
<1> DEFINE Final == \A c \in Calls :
       /\ (fut[c] \in {"done", "cancelled"}) => (fut'[c] = fut[c])
       /\ (task[c] \in {"resumed", "cancelled"}) => (task'[c] = task[c])
<1>1. FutureInv /\ [FutureNext]_futureVars => [Final]_futureVars
  <2> SUFFICES ASSUME FutureInv, FutureNext
               PROVE  Final
    OBVIOUS
  <2> USE DEF FutureInv, FutureTypeOK
  <2>1. ASSUME NEW c \in Calls, PythonStep(c)
        PROVE  Final
    BY <2>1 DEF PythonStep, Call, Await, Forget, Cancel, CancelLate, Collect
  <2>2. ASSUME NEW c \in Calls, RustStep(c)
        PROVE  Final
    BY <2>2 DEF RustStep, PollCancel, PollPending, PollReady, Post
  <2>3. ASSUME NEW c \in Calls, Complete(c) \/ OnCancel(c)
        PROVE  Final
    BY <2>3 DEF Complete, MayComplete, OnCancel
  <2>4. ASSUME NEW c \in Calls, Wakeup(c)
        PROVE  Final
    <3>1. 1 \in 1..Len(ready) /\ ready[1] = Handle("wakeup", c)
      BY <2>4, EmptySeq DEF Wakeup, Runs
    <3>2. task[c] = "awaiting"
      BY <3>1 DEF HandlesJustified, HandleJustified, Handle
    <3>3. QED
      BY <2>4, <3>2 DEF Wakeup
  <2>5. CASE CloseLoop
    BY <2>5 DEF CloseLoop
  <2>6. QED
    BY <2>1, <2>2, <2>3, <2>4, <2>5 DEF FutureNext, RunHandle
<1>2. QED
  BY <1>1, FutureInvariance, PTL DEF FutureSpec, OutcomeIsFinal

\* A call whose Rust task is between two polls, or dropped, with its
\* cancellation signalled stays so.
Signalled(c) == Cancelled(c) /\ rust[c] \in {"run", "dropped"}

LEMMA SignalledStays ==
  ASSUME FutureInv, [FutureNext]_futureVars, NEW c \in Calls, Signalled(c)
  PROVE  Signalled(c)'
<1> USE DEF FutureInv, FutureTypeOK, SendersJustified, Signalled, Cancelled
<1>1. ASSUME NEW d \in Calls, PythonStep(d)
      PROVE  Signalled(c)'
  BY <1>1 DEF PythonStep, Call, Await, Forget, Cancel, CancelLate, Collect
<1>2. ASSUME NEW d \in Calls, RustStep(d)
      PROVE  Signalled(c)'
  BY <1>2 DEF RustStep, PollCancel, PollPending, PollReady, Post
<1>3. ASSUME NEW d \in Calls, Complete(d) \/ OnCancel(d) \/ Wakeup(d)
      PROVE  Signalled(c)'
  BY <1>3 DEF Complete, MayComplete, OnCancel, Wakeup
<1>4. CASE CloseLoop
  BY <1>4 DEF CloseLoop
<1>5. CASE UNCHANGED futureVars
  BY <1>5 DEF futureVars
<1> QED
  BY <1>1, <1>2, <1>3, <1>4, <1>5 DEF FutureNext, RunHandle

\* Once the cancellation was signalled to a Rust task between two polls, its
\* operation takes no effect any more: the `biased` select! of future_into_py
\* drops it before it is polled again.
THEOREM SignalPreempts == FutureSpec => CancelPreempts
<1>1. ASSUME NEW c \in Calls
      PROVE  FutureSpec => [](Cancelled(c) /\ rust[c] = "run" => [](~taken[c]))
  <2>1. Cancelled(c) /\ rust[c] = "run" => Signalled(c)
    BY DEF Signalled
  <2>2. FutureInv /\ Signalled(c) => ~taken[c]
    BY DEF FutureInv, SendersJustified, Signalled
  <2>3. FutureInv /\ Signalled(c) /\ [FutureNext]_futureVars => Signalled(c)'
    BY SignalledStays
  <2> QED
    BY <2>1, <2>2, <2>3, FutureInvariance, PTL DEF FutureSpec
<1> QED
  BY <1>1 DEF CancelPreempts

-----------------------------------------------------------------------------
(***************************************************************************)
(* Refinement.                                                             *)
(***************************************************************************)
callerOf == [c \in Calls |-> CallerOf(c)]
workOf == [c \in Calls |-> WorkOf(c)]

\* A step that changes neither side of a call, as AsyncCall sees them, is a
\* stutter.
LEMMA NoChange ==
  ASSUME \A c \in Calls : CallerOf(c)' = CallerOf(c) /\ WorkOf(c)' = WorkOf(c)
  PROVE  callerOf' = callerOf /\ workOf' = workOf
BY DEF callerOf, workOf

\* A step that changes the two sides of one call only.
LEMMA OneChange ==
  ASSUME NEW c \in Calls,
         \A d \in Calls \ {c} : CallerOf(d)' = CallerOf(d) /\ WorkOf(d)' = WorkOf(d)
  PROVE  /\ callerOf' = [callerOf EXCEPT ![c] = CallerOf(c)']
         /\ workOf' = [workOf EXCEPT ![c] = WorkOf(c)']
         /\ callerOf[c] = CallerOf(c) /\ workOf[c] = WorkOf(c)
BY DEF callerOf, workOf

\* future_into_py implements AsyncCall: an asyncio future gets the result
\* of an operation that ended, once, and an operation is dropped only when
\* its future was cancelled.
THEOREM FutureRefinesCall == FutureSpec => ImplementsCall
<1>1. FutureInit => Abstract!Init
  BY DEF FutureInit, Abstract!Init, CallerOf, WorkOf
<1>2. FutureInv /\ FutureInv' /\ [FutureNext]_futureVars
        => [Abstract!Next]_(Abstract!callVars)
  <2> SUFFICES ASSUME FutureInv, FutureInv', [FutureNext]_futureVars
               PROVE  \/ Abstract!Next
                      \/ callerOf' = callerOf /\ workOf' = workOf
    BY DEF Abstract!callVars, callerOf, workOf
  <2> USE DEF FutureInv, FutureTypeOK, SendersJustified
  <2>1. ASSUME NEW c \in Calls, Call(c)
        PROVE  Abstract!Begin(c)
    <3>1. /\ \A d \in Calls \ {c} : CallerOf(d)' = CallerOf(d) /\ WorkOf(d)' = WorkOf(d)
          /\ CallerOf(c) = "none" /\ CallerOf(c)' = "waiting"
          /\ WorkOf(c) = "none" /\ WorkOf(c)' = "running"
      BY <2>1 DEF Call, CallerOf, WorkOf
    <3>2. QED
      BY <3>1, OneChange DEF Abstract!Begin, callerOf, workOf
  <2>2. ASSUME NEW c \in Calls, Cancel(c) \/ Collect(c)
        PROVE  Abstract!Abandon(c)
    <3>1. /\ \A d \in Calls \ {c} : CallerOf(d)' = CallerOf(d) /\ WorkOf(d)' = WorkOf(d)
          /\ CallerOf(c) = "waiting" /\ CallerOf(c)' = "gone"
          /\ WorkOf(c) = WorkOf(c)'
      BY <2>2 DEF Cancel, Collect, CallerOf, WorkOf
    <3>2. workOf' = workOf
      BY <3>1, \A d \in Calls : WorkOf(d)' = WorkOf(d) DEF workOf
    <3>3. callerOf' = [callerOf EXCEPT ![c] = "gone"] /\ callerOf[c] = "waiting"
      BY <3>1, OneChange
    <3>4. QED
      BY <3>2, <3>3 DEF Abstract!Abandon, callerOf, workOf
  <2>3. ASSUME NEW c \in Calls, Await(c) \/ Forget(c) \/ CancelLate(c)
        PROVE  callerOf' = callerOf /\ workOf' = workOf
    BY <2>3, NoChange DEF Await, Forget, CancelLate, CallerOf, WorkOf
  <2>4. ASSUME NEW c \in Calls, PollCancel(c), Cancelled(c)
        PROVE  Abstract!Stop(c)
    <3>1. /\ \A d \in Calls \ {c} : CallerOf(d)' = CallerOf(d) /\ WorkOf(d)' = WorkOf(d)
          /\ CallerOf(c) = "gone" /\ CallerOf(c)' = "gone"
          /\ WorkOf(c) = "running" /\ WorkOf(c)' = "stopped"
      BY <2>4 DEF PollCancel, Cancelled, CallerOf, WorkOf
    <3>2. callerOf' = callerOf
      BY <3>1, \A d \in Calls : CallerOf(d)' = CallerOf(d) DEF callerOf
    <3>3. /\ workOf' = [workOf EXCEPT ![c] = "stopped"]
          /\ callerOf[c] = "gone" /\ workOf[c] = "running"
      BY <3>1, OneChange
    <3>4. QED
      BY <3>2, <3>3 DEF Abstract!Stop, callerOf, workOf
  <2>5. ASSUME NEW c \in Calls,
               (PollCancel(c) /\ ~Cancelled(c)) \/ PollPending(c) \/ Post(c)
        PROVE  callerOf' = callerOf /\ workOf' = workOf
    BY <2>5, NoChange DEF PollCancel, PollPending, Post, CallerOf, WorkOf
  <2>6. ASSUME NEW c \in Calls, PollReady(c)
        PROVE  Abstract!Finish({c})
    <3>1. /\ \A d \in Calls \ {c} : CallerOf(d)' = CallerOf(d) /\ WorkOf(d)' = WorkOf(d)
          /\ CallerOf(c)' = CallerOf(c)
          /\ WorkOf(c) = "running" /\ WorkOf(c)' = "finished"
      BY <2>6 DEF PollReady, CallerOf, WorkOf
    <3>2. QED
      BY <3>1 DEF Abstract!Finish
  <2>7. ASSUME NEW c \in Calls, Complete(c), MayComplete(c)
        PROVE  Abstract!Answer(c)
    <3>1. fut'[c] = "done" /\ rust' = rust
      BY <2>7 DEF Complete
    <3>2. rust[c] = "posted"
      BY <3>1
    <3>3. /\ \A d \in Calls \ {c} : CallerOf(d)' = CallerOf(d) /\ WorkOf(d)' = WorkOf(d)
          /\ CallerOf(c) = "waiting" /\ CallerOf(c)' = "answered"
          /\ WorkOf(c) = "finished" /\ WorkOf(c)' = "finished"
      BY <2>7, <3>2 DEF Complete, MayComplete, CallerOf, WorkOf
    <3>4. workOf' = workOf
      BY <3>3, \A d \in Calls : WorkOf(d)' = WorkOf(d) DEF workOf
    <3>5. /\ callerOf' = [callerOf EXCEPT ![c] = "answered"]
          /\ callerOf[c] = "waiting" /\ workOf[c] = "finished"
      BY <3>3, OneChange
    <3>6. QED
      BY <3>4, <3>5 DEF Abstract!Answer, callerOf, workOf
  <2>8. ASSUME NEW c \in Calls,
               (Complete(c) /\ ~MayComplete(c)) \/ OnCancel(c) \/ Wakeup(c)
        PROVE  callerOf' = callerOf /\ workOf' = workOf
    BY <2>8, NoChange DEF Complete, OnCancel, Wakeup, CallerOf, WorkOf
  <2>9. CASE CloseLoop \/ UNCHANGED futureVars
    BY <2>9, NoChange DEF CloseLoop, futureVars, CallerOf, WorkOf
  <2> DEFINE Same == callerOf' = callerOf /\ workOf' = workOf
  <2> HIDE DEF Same
  <2>10. ASSUME NEW c \in Calls, PythonStep(c)
         PROVE  Abstract!Next \/ Same
    <3>1. Abstract!Begin(c) \/ Abstract!Abandon(c) \/ Same
      BY <2>1, <2>2, <2>3, <2>10 DEF PythonStep, Same
    <3>2. QED
      BY <3>1 DEF Abstract!Next
  <2>11. ASSUME NEW c \in Calls, RustStep(c)
         PROVE  Abstract!Next \/ Same
    <3>1. Abstract!Stop(c) \/ Abstract!Finish({c}) \/ Same
      BY <2>4, <2>5, <2>6, <2>11 DEF RustStep, Same
    <3>2. {c} \in SUBSET Calls
      OBVIOUS
    <3>3. QED
      BY <3>1, <3>2 DEF Abstract!Next
  <2>12. ASSUME NEW c \in Calls, Complete(c) \/ OnCancel(c) \/ Wakeup(c)
         PROVE  Abstract!Next \/ Same
    <3>1. Abstract!Answer(c) \/ Same
      BY <2>7, <2>8, <2>12 DEF Same
    <3>2. QED
      BY <3>1 DEF Abstract!Next
  <2>13. Abstract!Next \/ Same
    BY <2>9, <2>10, <2>11, <2>12 DEF FutureNext, RunHandle, Same
  <2>14. QED
    BY <2>13 DEF Same
<1>3. QED
  BY <1>1, <1>2, FutureInvariance, PTL DEF FutureSpec, ImplementsCall, Abstract!Spec
=============================================================================
