--------------------------- MODULE RuntimeProofs ----------------------------
(***************************************************************************)
(* Proofs about src/src/rt.rs: the task bridge (module TaskBridge), for    *)
(* any set of calls, and the exit gate (module ExitGate), for any set of   *)
(* threads and any nesting of attaches.  TaskInv and IInv are inductive;   *)
(* the properties, and that into_future implements AsyncCall, follow.      *)
(***************************************************************************)
EXTENDS TaskBridge, ExitGate, SequenceTheorems, TLAPS

-----------------------------------------------------------------------------
(***************************************************************************)
(* The task bridge.                                                        *)
(***************************************************************************)
Handles == [kind : {"start", "done", "cancel"}, call : Calls]

\* Every handle of the ready queue is one of this bridge's, and the one that
\* runs is its first.
LEMMA QueuedIsHandle ==
  ASSUME TaskTypeOK, NEW i \in 1..Len(ready)
  PROVE  ready[i] \in Handles /\ ready[i].call \in Calls
<1>1. ready \in Seq(Handles)
  BY DEF TaskTypeOK, Handles
<1>2. ready[i] \in Handles
  BY <1>1, ElementOfSeq
<1> QED
  BY <1>2 DEF Handles

LEMMA RunsFirst ==
  ASSUME TaskTypeOK, NEW kind, NEW c, Runs(kind, c)
  PROVE  /\ ready \in Seq(Handles) /\ ready # <<>>
         /\ 1 \in 1..Len(ready) /\ ready[1] = Handle(kind, c)
BY EmptySeq DEF Runs, TaskTypeOK, Handles

\* An element of a queue is in it after another joined, and, if it is not the
\* first, after the first left.
LEMMA StaysIn ==
  ASSUME NEW S, NEW s \in Seq(S), NEW i \in DOMAIN s
  PROVE  /\ \A h \in S : i \in DOMAIN Append(s, h) /\ Append(s, h)[i] = s[i]
         /\ s # <<>> /\ s[i] # Head(s) => \E j \in DOMAIN Tail(s) : Tail(s)[j] = s[i]
<1>1. Len(s) \in Nat /\ i \in 1..Len(s)
  BY LenProperties
<1>2. ASSUME NEW h \in S
      PROVE  i \in DOMAIN Append(s, h) /\ Append(s, h)[i] = s[i]
  BY <1>1, AppendProperties, LenProperties
<1>3. ASSUME s # <<>>, s[i] # Head(s)
      PROVE  \E j \in DOMAIN Tail(s) : Tail(s)[j] = s[i]
  <2>1. i # 1
    BY <1>3
  <2>2. /\ Tail(s) \in Seq(S) /\ Len(Tail(s)) = Len(s) - 1
        /\ \A k \in 1..Len(Tail(s)) : Tail(s)[k] = s[k + 1]
    BY <1>3, HeadTailProperties
  <2>3. i - 1 \in 1..Len(Tail(s)) /\ i - 1 + 1 = i
    BY <1>1, <2>1, <2>2
  <2>4. i - 1 \in DOMAIN Tail(s) /\ Tail(s)[i - 1] = s[i]
    BY <2>2, <2>3, LenProperties
  <2> QED
    BY <2>4
<1> QED
  BY <1>2, <1>3

\* A cancellation that is queued stays queued behind another handle, and until
\* it is the first.
LEMMA StaysQueued ==
  ASSUME TaskTypeOK, NEW c \in Calls, Queued("cancel", c),
         \/ ready' = ready
         \/ \E h \in Handles : ready' = Append(ready, h)
         \/ ready # <<>> /\ ready' = Tail(ready) /\ Head(ready) # Handle("cancel", c)
  PROVE  Queued("cancel", c)'
<1>1. ready \in Seq(Handles)
  BY DEF TaskTypeOK, Handles
<1>2. PICK i \in DOMAIN ready : ready[i] = Handle("cancel", c)
  BY DEF Queued
<1>3. \E j \in DOMAIN ready' : ready'[j] = Handle("cancel", c)
  <2>1. CASE ready' = ready
    BY <1>2, <2>1
  <2>2. ASSUME NEW h \in Handles, ready' = Append(ready, h)
        PROVE  \E j \in DOMAIN ready' : ready'[j] = Handle("cancel", c)
    <3>1. i \in DOMAIN Append(ready, h) /\ Append(ready, h)[i] = ready[i]
      BY <1>1, <1>2, <2>2, StaysIn
    <3> QED
      BY <1>2, <2>2, <3>1
  <2>3. CASE ready # <<>> /\ ready' = Tail(ready) /\ Head(ready) # Handle("cancel", c)
    <3>1. \E j \in DOMAIN Tail(ready) : Tail(ready)[j] = ready[i]
      BY <1>1, <1>2, <2>3, StaysIn
    <3> QED
      BY <1>2, <2>3, <3>1
  <2> QED
    BY <2>1, <2>2, <2>3
<1> QED
  BY <1>3 DEF Queued, Handle

-----------------------------------------------------------------------------
(***************************************************************************)
(* Queues whose handles are justified in the next state.                   *)
(***************************************************************************)
HandleJustifiedNext(h) ==
  /\ h.kind = "start" => aw'[h.call] = "held"
  /\ h.kind = "done" => task'[h.call] = "ended"
  /\ h.kind = "cancel" => fut'[h.call] = "dropped"

StartOnce(q) == \A i, j \in 1..Len(q) : q[i] = q[j] /\ q[i].kind = "start" => i = j

JustifiedNext(q) ==
  /\ q \in Seq(Handles)
  /\ \A i \in 1..Len(q) : HandleJustifiedNext(q[i])
  /\ StartOnce(q)

\* A justified queue makes the invariant's part about the queue.
LEMMA JustifiedIsInv ==
  ASSUME NEW q, JustifiedNext(q), ready' = q
  PROVE  HandlesJustified' /\ ready' \in Seq(Handles)
BY DEF JustifiedNext, HandlesJustified, HandleJustified, HandleJustifiedNext, StartOnce

\* Taking the first handle off leaves a justified queue if the others are.
LEMMA TailJustified ==
  ASSUME NEW q \in Seq(Handles), q # <<>>, StartOnce(q),
         \A i \in 1..Len(q) : i # 1 => HandleJustifiedNext(q[i])
  PROVE  JustifiedNext(Tail(q))
<1>1. /\ Tail(q) \in Seq(Handles)
      /\ Len(Tail(q)) = Len(q) - 1
      /\ \A i \in 1..Len(Tail(q)) : Tail(q)[i] = q[i + 1]
      /\ Len(q) \in Nat
  BY HeadTailProperties, LenProperties
<1>2. \A i \in 1..Len(Tail(q)) : i + 1 \in 1..Len(q) /\ i + 1 # 1
  BY <1>1
<1>3. StartOnce(Tail(q))
  BY <1>1, <1>2 DEF StartOnce
<1> QED
  BY <1>1, <1>2, <1>3 DEF JustifiedNext

\* A handle joins a justified queue.
LEMMA AppendJustified ==
  ASSUME NEW q, JustifiedNext(q), NEW h \in Handles, HandleJustifiedNext(h),
         h.kind = "start" => \A i \in 1..Len(q) : q[i] # h
  PROVE  JustifiedNext(Append(q, h))
<1> DEFINE r == Append(q, h)
<1>1. /\ r \in Seq(Handles) /\ Len(r) = Len(q) + 1 /\ Len(q) \in Nat
      /\ \A i \in 1..Len(q) : r[i] = q[i]
      /\ r[Len(q) + 1] = h
  BY AppendProperties, LenProperties DEF JustifiedNext
<1> HIDE DEF r
<1>2. \A i \in 1..Len(r) : i \in 1..Len(q) \/ i = Len(q) + 1
  BY <1>1
<1>3. \A i \in 1..Len(r) : HandleJustifiedNext(r[i])
  BY <1>1, <1>2 DEF JustifiedNext
<1>4. StartOnce(r)
  BY <1>1, <1>2 DEF JustifiedNext, StartOnce
<1> QED
  BY <1>1, <1>3, <1>4 DEF JustifiedNext, r

\* The queue of a state is justified when the invariant holds and the step
\* takes nothing from its handles.
LEMMA ReadyJustified ==
  ASSUME TaskInv,
         \A c \in Calls : /\ aw[c] = "held" => aw'[c] = "held"
                          /\ task[c] = "ended" => task'[c] = "ended"
                          /\ fut[c] = "dropped" => fut'[c] = "dropped"
  PROVE  JustifiedNext(ready) /\ ready \in Seq(Handles) /\ StartOnce(ready)
<1>1. \A i \in 1..Len(ready) : ready[i].call \in Calls
  BY QueuedIsHandle DEF TaskInv
<1>2. \A i \in 1..Len(ready) : HandleJustifiedNext(ready[i])
  BY <1>1 DEF TaskInv, HandlesJustified, HandleJustified, HandleJustifiedNext
<1> QED
  BY <1>2 DEF TaskInv, TaskTypeOK, HandlesJustified, JustifiedNext, Handles, StartOnce

-----------------------------------------------------------------------------
\* into_future preserves the invariant: the call had no awaitable, so that no
\* Start of its own is queued.
LEMMA IntoFuturePreserves ==
  ASSUME TaskInv, NEW c \in Calls, IntoFuture(c)
  PROVE  TaskInv'
<1> USE DEF TaskInv
<1>1. aw[c] = "none" /\ task[c] = "none" /\ ~slotDropped[c] /\ ~slotTask[c]
  BY DEF IntoFuture, CallJustified, TaskTypeOK
<1>2. JustifiedNext(ready)
  BY <1>1, ReadyJustified DEF IntoFuture, TaskTypeOK
<1>3. Handle("start", c) \in Handles /\ HandleJustifiedNext(Handle("start", c))
  BY DEF Handle, Handles, HandleJustifiedNext, IntoFuture, TaskTypeOK
<1>4. \A i \in 1..Len(ready) : ready[i] # Handle("start", c)
  BY <1>1 DEF HandlesJustified, HandleJustified, Handle
<1>5. HandlesJustified' /\ ready' \in Seq(Handles)
  BY <1>2, <1>3, <1>4, AppendJustified, JustifiedIsInv DEF IntoFuture
<1>6. TaskTypeOK'
  BY <1>5 DEF TaskTypeOK, IntoFuture, Handles
<1>7. CallJustified'
  BY <1>1 DEF CallJustified, IntoFuture, TaskTypeOK
<1>8. CancelOnItsWay'
  <2> SUFFICES ASSUME NEW d \in Calls, fut'[d] = "dropped", task'[d] = "running"
               PROVE  Queued("cancel", d)' \/ ~open'
    BY DEF CancelOnItsWay
  <2>1. fut[d] = "dropped" /\ task[d] = "running" /\ open' = open
    BY DEF IntoFuture, TaskTypeOK
  <2>2. Queued("cancel", d) => Queued("cancel", d)'
    BY <1>3, StaysQueued DEF IntoFuture
  <2> QED
    BY <2>1, <2>2 DEF CancelOnItsWay
<1> QED
  BY <1>5, <1>6, <1>7, <1>8

\* rx.await and the drop of the future, its cancellation posted or not,
\* preserve the invariant.
LEMMA FuturePreserves ==
  ASSUME TaskInv, NEW c \in Calls, Receive(c) \/ DropFuture(c) \/ PostCancel(c)
  PROVE  TaskInv'
<1> USE DEF TaskInv
<1>1. JustifiedNext(ready)
  BY ReadyJustified DEF Receive, DropFuture, PostCancel, TaskTypeOK
<1>2. /\ Handle("cancel", c) \in Handles
      /\ PostCancel(c) => HandleJustifiedNext(Handle("cancel", c))
  BY DEF Handle, Handles, HandleJustifiedNext, PostCancel, TaskTypeOK
<1>3. ready' = ready \/ (PostCancel(c) /\ ready' = Append(ready, Handle("cancel", c)))
  BY DEF Receive, DropFuture, PostCancel
<1>4. JustifiedNext(ready')
  BY <1>1, <1>2, <1>3, AppendJustified DEF Handle
<1>5. HandlesJustified' /\ ready' \in Seq(Handles)
  BY <1>4, JustifiedIsInv
<1>6. TaskTypeOK'
  BY <1>5 DEF TaskTypeOK, Receive, DropFuture, PostCancel, Handles
<1>7. CallJustified'
  BY DEF CallJustified, Receive, DropFuture, PostCancel, TaskTypeOK
<1>8. CancelOnItsWay'
  <2> SUFFICES ASSUME NEW d \in Calls, fut'[d] = "dropped", task'[d] = "running"
               PROVE  Queued("cancel", d)' \/ ~open'
    BY DEF CancelOnItsWay
  <2>1. task[d] = "running" /\ open' = open
    BY DEF Receive, DropFuture, PostCancel
  <2>2. CASE fut[d] = "dropped"
    <3>1. Queued("cancel", d) => Queued("cancel", d)'
      BY <1>2, <1>3, StaysQueued
    <3> QED
      BY <2>1, <2>2, <3>1 DEF CancelOnItsWay
  <2>3. CASE fut[d] # "dropped"
    <3>1. d = c /\ PostCancel(c)
      BY <2>1, <2>3 DEF Receive, DropFuture, PostCancel, TaskTypeOK, CallJustified
    <3>2. CASE open
      <4>1. ready' = Append(ready, Handle("cancel", c)) /\ ready \in Seq(Handles)
        BY <3>1, <3>2 DEF PostCancel, TaskTypeOK, Handles
      <4>2. PICK z \in Nat : z = Len(ready) + 1
        BY <4>1, LenProperties
      <4>3. z \in DOMAIN ready' /\ ready'[z] = Handle("cancel", c)
        BY <1>2, <4>1, <4>2, AppendProperties, LenProperties
      <4> QED
        BY <3>1, <4>3 DEF Queued, Handle
    <3> QED
      BY <2>1, <3>2
  <2> QED
    BY <2>2, <2>3
<1> QED
  BY <1>5, <1>6, <1>7, <1>8

\* The end of a task preserves the invariant.
LEMMA TaskEndsPreserves ==
  ASSUME TaskInv, NEW c \in Calls, TaskEnds(c)
  PROVE  TaskInv'
<1> USE DEF TaskInv
<1>1. JustifiedNext(ready)
  BY ReadyJustified DEF TaskEnds, TaskTypeOK
<1>2. Handle("done", c) \in Handles /\ HandleJustifiedNext(Handle("done", c))
  BY DEF Handle, Handles, HandleJustifiedNext, TaskEnds, TaskTypeOK
<1>3. HandlesJustified' /\ ready' \in Seq(Handles)
  BY <1>1, <1>2, AppendJustified, JustifiedIsInv DEF TaskEnds, Handle
<1>4. TaskTypeOK'
  BY <1>3 DEF TaskTypeOK, TaskEnds, Handles
<1>5. CallJustified'
  BY DEF CallJustified, TaskEnds, TaskTypeOK
<1>6. CancelOnItsWay'
  <2> SUFFICES ASSUME NEW d \in Calls, fut'[d] = "dropped", task'[d] = "running"
               PROVE  Queued("cancel", d)' \/ ~open'
    BY DEF CancelOnItsWay
  <2>1. fut[d] = "dropped" /\ task[d] = "running" /\ open' = open
    BY DEF TaskEnds, TaskTypeOK
  <2>2. Queued("cancel", d) => Queued("cancel", d)'
    BY <1>2, StaysQueued DEF TaskEnds
  <2> QED
    BY <2>1, <2>2 DEF CancelOnItsWay
<1> QED
  BY <1>3, <1>4, <1>5, <1>6

\* Start.__call__ preserves the invariant: it runs once for its awaitable.
LEMMA StartPreserves ==
  ASSUME TaskInv, NEW c \in Calls, Start(c)
  PROVE  TaskInv'
<1> USE DEF TaskInv
<1>1. /\ ready \in Seq(Handles) /\ ready # <<>>
      /\ 1 \in 1..Len(ready) /\ ready[1] = Handle("start", c)
  BY RunsFirst DEF Start
<1>2. aw[c] = "held" /\ task[c] = "none" /\ ~slotTask[c]
  BY <1>1 DEF HandlesJustified, HandleJustified, Handle, CallJustified, TaskTypeOK
<1>3. \A i \in 1..Len(ready) : i # 1 /\ ready[i].kind = "start" => ready[i].call # c
  <2>1. \A i \in 1..Len(ready) : ready[i] \in Handles
    BY <1>1, ElementOfSeq
  <2>2. \A h \in Handles : h.kind = "start" /\ h.call = c => h = Handle("start", c)
    BY DEF Handles, Handle
  <2>3. Handle("start", c).kind = "start"
    BY DEF Handle
  <2> QED
    BY <1>1, <2>1, <2>2, <2>3 DEF HandlesJustified
<1>4. \A d \in Calls : d # c => aw'[d] = aw[d] /\ task'[d] = task[d]
  BY DEF Start, StartDropped, StartTask, StartRefused, TaskTypeOK
<1>5. \A i \in 1..Len(ready) : i # 1 => HandleJustifiedNext(ready[i])
  <2> SUFFICES ASSUME NEW i \in 1..Len(ready), i # 1
               PROVE  HandleJustifiedNext(ready[i])
    OBVIOUS
  <2>1. HandleJustified(ready[i]) /\ ready[i].call \in Calls /\ fut' = fut
    BY QueuedIsHandle DEF HandlesJustified, Start
  <2>2. CASE ready[i].call # c
    BY <1>4, <2>1, <2>2 DEF HandleJustified, HandleJustifiedNext
  <2>3. CASE ready[i].call = c
    BY <1>2, <1>3, <2>1, <2>3 DEF HandleJustified, HandleJustifiedNext
  <2> QED
    BY <2>2, <2>3
<1>6. HandlesJustified' /\ ready' \in Seq(Handles)
  BY <1>1, <1>5, TailJustified, JustifiedIsInv DEF Start, HandlesJustified, StartOnce
<1>7. TaskTypeOK'
  <2>1. CASE StartDropped(c)
    <3>1. PICK how \in {"closed", "released"} : aw' = [aw EXCEPT ![c] = how]
      BY <2>1 DEF StartDropped
    <3> QED
      BY <1>6, <2>1, <3>1 DEF TaskTypeOK, Start, StartDropped, Handles
  <2>2. CASE StartTask(c)
    BY <1>6, <2>2 DEF TaskTypeOK, Start, StartTask, Handles
  <2>3. CASE StartRefused(c)
    BY <1>6, <2>3 DEF TaskTypeOK, Start, StartRefused, Handles
  <2> QED
    BY <2>1, <2>2, <2>3 DEF Start
<1>8. CallJustified'
  <2>1. CASE StartDropped(c)
    BY <1>2, <2>1 DEF CallJustified, Start, StartDropped, TaskTypeOK
  <2>2. CASE StartTask(c)
    BY <1>2, <2>2 DEF CallJustified, Start, StartTask, TaskTypeOK
  <2>3. CASE StartRefused(c)
    BY <1>2, <2>3 DEF CallJustified, Start, StartRefused, TaskTypeOK
  <2> QED
    BY <2>1, <2>2, <2>3 DEF Start
<1>9. CancelOnItsWay'
  <2> SUFFICES ASSUME NEW d \in Calls, fut'[d] = "dropped", task'[d] = "running"
               PROVE  Queued("cancel", d)' \/ ~open'
    BY DEF CancelOnItsWay
  <2>1. fut[d] = "dropped" /\ open' = open
    BY DEF Start
  <2>2. task[d] = "running"
    <3>1. CASE StartTask(c)
      BY <1>4, <2>1, <3>1 DEF StartTask, CallJustified
    <3>2. CASE ~StartTask(c)
      BY <3>2 DEF Start, StartDropped, StartRefused
    <3> QED
      BY <3>1, <3>2
  <2>3. Head(ready) # Handle("cancel", d)
    BY DEF Start, Runs, Handle
  <2>4. Queued("cancel", d) => Queued("cancel", d)'
    BY <1>1, <2>3, StaysQueued DEF Start
  <2> QED
    BY <2>1, <2>2, <2>4 DEF CancelOnItsWay
<1> QED
  BY <1>6, <1>7, <1>8, <1>9

\* Done.__call__ and task.cancel() preserve the invariant.
LEMMA HandlePreserves ==
  ASSUME TaskInv, NEW c \in Calls, Done(c) \/ RunCancel(c)
  PROVE  TaskInv'
<1> USE DEF TaskInv
<1>1. \/ Done(c) /\ ready[1] = Handle("done", c)
      \/ RunCancel(c) /\ ready[1] = Handle("cancel", c)
  BY RunsFirst DEF Done, RunCancel
<1>2. ready \in Seq(Handles) /\ ready # <<>> /\ 1 \in 1..Len(ready)
  BY RunsFirst DEF Done, RunCancel
<1>3. Done(c) => task[c] = "ended"
  BY <1>1, <1>2 DEF HandlesJustified, HandleJustified, Handle, Done, Runs
<1>4. JustifiedNext(ready) /\ StartOnce(ready)
  BY ReadyJustified DEF Done, RunCancel, TaskTypeOK
<1>5. ready' = Tail(ready)
  BY DEF Done, RunCancel
<1>6. HandlesJustified' /\ ready' \in Seq(Handles)
  BY <1>2, <1>4, <1>5, TailJustified, JustifiedIsInv DEF JustifiedNext
<1>7. TaskTypeOK'
  BY <1>6 DEF TaskTypeOK, Done, RunCancel, Handles
<1>8. CallJustified'
  BY <1>3 DEF CallJustified, Done, RunCancel, TaskTypeOK
<1>9. CancelOnItsWay'
  <2> SUFFICES ASSUME NEW d \in Calls, fut'[d] = "dropped", task'[d] = "running"
               PROVE  Queued("cancel", d)' \/ ~open'
    BY DEF CancelOnItsWay
  <2>1. fut[d] = "dropped" /\ task[d] = "running" /\ open' = open
    BY DEF Done, RunCancel, TaskTypeOK
  <2>2. Head(ready) # Handle("cancel", d)
    <3>1. CASE Done(c)
      BY <3>1 DEF Done, Runs, Handle
    <3>2. CASE RunCancel(c)
      <4>1. d # c
        BY <3>2 DEF RunCancel, TaskTypeOK
      <4> QED
        BY <3>2, <4>1 DEF RunCancel, Runs, Handle
    <3> QED
      BY <3>1, <3>2
  <2>3. Queued("cancel", d) => Queued("cancel", d)'
    BY <1>2, <1>5, <2>2, StaysQueued
  <2> QED
    BY <2>1, <2>3 DEF CancelOnItsWay
<1> QED
  BY <1>6, <1>7, <1>8, <1>9

\* loop.close() preserves the invariant: the queue is empty, and a sender that
\* went with it leaves an awaitable that is not run or a task that ended.
LEMMA CloseLoopPreserves ==
  ASSUME TaskInv, CloseLoop
  PROVE  TaskInv'
<1> USE DEF TaskInv
<1>1. TaskTypeOK'
  BY EmptySeq DEF TaskTypeOK, CloseLoop
<1>2. HandlesJustified'
  BY DEF HandlesJustified, CloseLoop
<1>3. CallJustified'
  BY DEF CallJustified, CloseLoop, TaskTypeOK
<1>4. CancelOnItsWay'
  BY DEF CancelOnItsWay, CloseLoop
<1> QED
  BY <1>1, <1>2, <1>3, <1>4

\* Every step of the bridge preserves the invariant.
LEMMA TaskStepPreserves ==
  ASSUME TaskInv, [TaskNext]_taskVars
  PROVE  TaskInv'
<1>1. CASE UNCHANGED taskVars
  BY <1>1 DEF taskVars, TaskInv, TaskTypeOK, HandlesJustified, HandleJustified, CallJustified,
              CancelOnItsWay, Queued, Handle
<1> QED
  BY <1>1, IntoFuturePreserves, FuturePreserves, TaskEndsPreserves, StartPreserves,
     HandlePreserves, CloseLoopPreserves DEF TaskNext, RustStep, RunHandle

\* The parts of every call agree in every reachable state: each Start runs
\* once, the slot holds the task exactly while the future could cancel it, and
\* the task of a dropped future runs only while its cancellation is queued, or
\* on a loop that is closed.
THEOREM TaskInvariance == TaskSpec => []TaskInv
<1>1. TaskInit => TaskInv
  BY EmptySeq DEF TaskInit, TaskInv, TaskTypeOK, HandlesJustified, HandleJustified,
                  CallJustified, CancelOnItsWay
<1> QED
  BY <1>1, TaskStepPreserves, PTL DEF TaskSpec

\* Whatever the order of the drop and of Start, no task comes to be for a
\* dropped future: CancelOnDrop notes the drop under the lock that Start asks
\* it under.  The other half of DropCancelsTask is liveness.
THEOREM DroppedStartsNothing == TaskSpec => DroppedNotStarted
<1> DEFINE Kept == \A c \in Calls :
       (fut[c] \in {"dropping", "dropped"} /\ task[c] = "none") => (task'[c] = "none")
<1>1. TaskInv /\ [TaskNext]_taskVars => [Kept]_taskVars
  <2> SUFFICES ASSUME TaskInv, TaskNext
               PROVE  Kept
    OBVIOUS
  <2> USE DEF TaskInv, TaskTypeOK
  <2>1. ASSUME NEW c \in Calls, RustStep(c) \/ Done(c)
        PROVE  Kept
    BY <2>1 DEF RustStep, IntoFuture, Receive, DropFuture, PostCancel, Done
  <2>2. ASSUME NEW c \in Calls, TaskEnds(c) \/ RunCancel(c)
        PROVE  Kept
    BY <2>2 DEF TaskEnds, RunCancel
  <2>3. ASSUME NEW c \in Calls, Start(c)
        PROVE  Kept
    BY <2>3 DEF Start, StartDropped, StartTask, StartRefused, CallJustified
  <2>4. CASE CloseLoop
    BY <2>4 DEF CloseLoop
  <2> QED
    BY <2>1, <2>2, <2>3, <2>4 DEF TaskNext, RunHandle
<1> QED
  BY <1>1, TaskInvariance, PTL DEF TaskSpec, DroppedNotStarted

-----------------------------------------------------------------------------
(***************************************************************************)
(* The task bridge implements AsyncCall.                                   *)
(***************************************************************************)
callerOf == [c \in Calls |-> CallerOf(c)]
workOf == [c \in Calls |-> WorkOf(c)]

\* A step that changes neither side of a call, as AsyncCall sees them, is a
\* stutter.
LEMMA NoChange ==
  ASSUME \A c \in Calls : CallerOf(c)' = CallerOf(c) /\ WorkOf(c)' = WorkOf(c)
  PROVE  callerOf' = callerOf /\ workOf' = workOf
BY DEF callerOf, workOf

\* A step that changes the waiter of one call, or its work.
LEMMA CallerChange ==
  ASSUME NEW c \in Calls, \A d \in Calls : WorkOf(d)' = WorkOf(d),
         \A d \in Calls \ {c} : CallerOf(d)' = CallerOf(d)
  PROVE  /\ callerOf' = [callerOf EXCEPT ![c] = CallerOf(c)'] /\ workOf' = workOf
         /\ callerOf[c] = CallerOf(c) /\ workOf[c] = WorkOf(c)
BY DEF callerOf, workOf

LEMMA WorkChange ==
  ASSUME NEW c \in Calls, \A d \in Calls : CallerOf(d)' = CallerOf(d),
         \A d \in Calls \ {c} : WorkOf(d)' = WorkOf(d)
  PROVE  /\ workOf' = [workOf EXCEPT ![c] = WorkOf(c)'] /\ callerOf' = callerOf
         /\ callerOf[c] = CallerOf(c) /\ workOf[c] = WorkOf(c)
BY DEF callerOf, workOf

\* into_future implements AsyncCall: a Rust future is answered only when its
\* awaitable came to an end, and an awaitable is closed only for a future that
\* was dropped.
THEOREM TaskRefinesCall == TaskSpec => ImplementsCall
<1>1. TaskInit => Abstract!Init
  BY DEF TaskInit, Abstract!Init, CallerOf, WorkOf
<1>2. TaskInv /\ [TaskNext]_taskVars => [Abstract!Next]_(Abstract!callVars)
  <2> SUFFICES ASSUME TaskInv, [TaskNext]_taskVars
               PROVE  \/ Abstract!Next
                      \/ callerOf' = callerOf /\ workOf' = workOf
    BY DEF Abstract!callVars, callerOf, workOf
  <2> USE DEF TaskInv, TaskTypeOK
  <2> DEFINE Same == callerOf' = callerOf /\ workOf' = workOf
  <2>1. ASSUME NEW c \in Calls, IntoFuture(c)
        PROVE  Abstract!Begin(c)
    <3>1. aw[c] = "none" /\ task[c] = "none"
      BY <2>1 DEF IntoFuture, CallJustified
    <3>2. /\ \A d \in Calls \ {c} : CallerOf(d)' = CallerOf(d) /\ WorkOf(d)' = WorkOf(d)
          /\ CallerOf(c) = "none" /\ CallerOf(c)' = "waiting"
          /\ WorkOf(c) = "none" /\ WorkOf(c)' = "running"
      BY <2>1, <3>1 DEF IntoFuture, CallerOf, WorkOf
    <3> QED
      BY ONLY <3>2, c \in Calls DEF Abstract!Begin
  <2>2. ASSUME NEW c \in Calls, Receive(c)
        PROVE  Abstract!Answer(c)
    <3>1. task[c] = "ended" \/ aw[c] \in {"refused", "leaked"}
      BY <2>2 DEF Receive, CallJustified
    <3>2. aw[c] \notin {"none", "closed", "released"}
      BY <2>2, <3>1 DEF Receive, CallJustified
    <3>3. /\ \A d \in Calls : WorkOf(d)' = WorkOf(d)
          /\ \A d \in Calls \ {c} : CallerOf(d)' = CallerOf(d)
          /\ CallerOf(c) = "waiting" /\ CallerOf(c)' = "answered"
      BY <2>2 DEF Receive, CallerOf, WorkOf
    <3>4. WorkOf(c) = "finished"
      BY <3>1, <3>2 DEF WorkOf
    <3> QED
      BY <3>3, <3>4, CallerChange DEF Abstract!Answer, callerOf, workOf
  <2>3. ASSUME NEW c \in Calls, DropFuture(c)
        PROVE  Abstract!Abandon(c)
    <3>1. /\ \A d \in Calls : WorkOf(d)' = WorkOf(d)
          /\ \A d \in Calls \ {c} : CallerOf(d)' = CallerOf(d)
          /\ CallerOf(c) = "waiting" /\ CallerOf(c)' = "gone"
      BY <2>3 DEF DropFuture, CallerOf, WorkOf
    <3> QED
      BY <3>1, CallerChange DEF Abstract!Abandon, callerOf, workOf
  <2>4. ASSUME NEW c \in Calls, PostCancel(c) \/ Done(c) \/ RunCancel(c)
        PROVE  Same
    BY <2>4, NoChange DEF PostCancel, Done, RunCancel, CallerOf, WorkOf
  <2>5. ASSUME NEW c \in Calls, TaskEnds(c)
        PROVE  Abstract!Finish({c})
    <3>1. aw[c] = "started"
      BY <2>5 DEF TaskEnds, CallJustified
    <3>2. /\ \A d \in Calls : CallerOf(d)' = CallerOf(d)
          /\ \A d \in Calls \ {c} : WorkOf(d)' = WorkOf(d)
          /\ WorkOf(c) = "running" /\ WorkOf(c)' = "finished"
      BY <2>5, <3>1 DEF TaskEnds, CallerOf, WorkOf
    <3> QED
      BY <3>2 DEF Abstract!Finish
  <2>6. ASSUME NEW c \in Calls, Start(c)
        PROVE  Abstract!Stop(c) \/ Abstract!Finish({c}) \/ Same
    <3>1. aw[c] = "held" /\ task[c] = "none"
      <4>1. 1 \in 1..Len(ready) /\ ready[1] = Handle("start", c)
        BY <2>6, RunsFirst DEF Start
      <4> QED
        BY <4>1 DEF HandlesJustified, HandleJustified, Handle, CallJustified
    <3>2. WorkOf(c) = "running" /\ \A d \in Calls : CallerOf(d)' = CallerOf(d)
      BY <2>6, <3>1 DEF Start, CallerOf, WorkOf
    <3>3. CASE StartDropped(c)
      <4>1. CallerOf(c) = "gone"
        BY <3>3 DEF StartDropped, CallJustified, CallerOf
      <4>2. /\ \A d \in Calls \ {c} : WorkOf(d)' = WorkOf(d)
            /\ WorkOf(c)' = "stopped"
        BY <3>1, <3>3 DEF StartDropped, WorkOf
      <4> QED
        BY <3>2, <4>1, <4>2, WorkChange DEF Abstract!Stop, callerOf, workOf
    <3>4. CASE StartTask(c)
      <4>1. \A d \in Calls : WorkOf(d)' = WorkOf(d)
        BY <3>1, <3>2, <3>4 DEF StartTask, WorkOf
      <4> QED
        BY <3>2, <4>1, NoChange
    <3>5. CASE StartRefused(c)
      <4>1. /\ \A d \in Calls \ {c} : WorkOf(d)' = WorkOf(d)
            /\ WorkOf(c)' = "finished"
        BY <3>5 DEF StartRefused, WorkOf
      <4> QED
        BY <3>2, <4>1 DEF Abstract!Finish
    <3> QED
      BY <2>6, <3>3, <3>4, <3>5 DEF Start
  <2>7. CASE CloseLoop
    <3> DEFINE lost == {c \in Calls : aw[c] = "held"}
    <3>1. \A c \in Calls : CallerOf(c)' = CallerOf(c)
      BY <2>7 DEF CloseLoop, CallerOf
    <3>2. \A c \in lost : WorkOf(c) = "running" /\ WorkOf(c)' = "finished"
      BY <2>7 DEF CloseLoop, WorkOf, CallJustified
    <3>3. \A c \in Calls \ lost : WorkOf(c)' = WorkOf(c)
      BY <2>7 DEF CloseLoop, WorkOf
    <3>4. Abstract!Finish(lost)
      BY <3>1, <3>2, <3>3 DEF Abstract!Finish
    <3>5. lost \in SUBSET Calls
      OBVIOUS
    <3> QED
      BY <3>4, <3>5 DEF Abstract!Next
  <2>8. CASE UNCHANGED taskVars
    BY <2>8, NoChange DEF taskVars, CallerOf, WorkOf
  <2> HIDE DEF Same
  <2>9. ASSUME NEW c \in Calls, RustStep(c) \/ TaskEnds(c) \/ Start(c) \/ Done(c) \/ RunCancel(c)
        PROVE  Abstract!Next \/ Same
    <3>1. \/ Abstract!Begin(c) \/ Abstract!Answer(c) \/ Abstract!Abandon(c) \/ Abstract!Stop(c)
          \/ Abstract!Finish({c})
          \/ Same
      BY <2>1, <2>2, <2>3, <2>4, <2>5, <2>6, <2>9 DEF RustStep
    <3>2. {c} \in SUBSET Calls
      OBVIOUS
    <3> QED
      BY <3>1, <3>2 DEF Abstract!Next
  <2>10. Abstract!Next \/ Same
    BY <2>7, <2>8, <2>9 DEF TaskNext, RunHandle, Same
  <2> QED
    BY <2>10 DEF Same
<1> QED
  BY <1>1, <1>2, TaskInvariance, PTL DEF TaskSpec, ImplementsCall, Abstract!Spec

-----------------------------------------------------------------------------
(***************************************************************************)
(* The exit gate.                                                          *)
(***************************************************************************)
USE ThreadsAssumption, NestingAssumption

-----------------------------------------------------------------------------
\* A step of a runtime thread (attach in rt.rs) preserves the inductive
\* invariant.
LEMMA RuntimeThreadPreserves ==
  ASSUME NEW t \in Threads, IInv, RuntimeThread(t)
  PROVE  IInv'
<1> USE DEF IInv, TypeOK, ThreadPc, MainPc, SharesCountAttaches,
            PlaceAgreesWithDepth, GilHeldInside, MainHoldsGil,
            GateShutByHook, OutsideAfterDrain, Goto
<1>1. CASE Count(t)
  BY <1>1 DEF Count
<1>2. CASE Admit(t)
  BY <1>2 DEF Admit, GateOpen
<1>3. CASE Park(t)
  BY <1>3 DEF Park, GateOpen, Leave
<1>4. CASE TakeGil(t)
  BY <1>4 DEF TakeGil
<1>5. CASE SwitchOut(t)
  BY <1>5 DEF SwitchOut
<1>6. CASE Return(t)
  BY <1>6 DEF Return
<1>7. CASE Uncount(t)
  <2>1. TypeOK' /\ SharesCountAttaches'
    BY <1>7 DEF Uncount, Leave
  <2>2. PlaceAgreesWithDepth' /\ GilHeldInside'
    BY <1>7 DEF Uncount
  <2>3. MainHoldsGil' /\ GateShutByHook' /\ OutsideAfterDrain'
    BY <1>7 DEF Uncount
  <2>4. QED
    BY <2>1, <2>2, <2>3
<1>8. QED
  BY <1>1, <1>2, <1>3, <1>4, <1>5, <1>6, <1>7 DEF RuntimeThread

\* A step of another thread of Python preserves the inductive invariant.
LEMMA PyThreadPreserves ==
  ASSUME NEW p \in PyThreads, IInv, PyAttach(p) \/ PyDetach(p)
  PROVE  IInv'
<1> USE DEF IInv, TypeOK, ThreadPc, MainPc, SharesCountAttaches,
            PlaceAgreesWithDepth, GilHeldInside, MainHoldsGil,
            GateShutByHook, OutsideAfterDrain
<1>1. CASE PyAttach(p)
  BY <1>1 DEF PyAttach
<1>2. CASE PyDetach(p)
  BY <1>2 DEF PyDetach
<1>3. QED
  BY <1>1, <1>2

\* A step of the main thread, _shutdown included, preserves the inductive
\* invariant.  Draining is where the counter is used: a share of zero means
\* a depth of zero.
LEMMA MainThreadPreserves ==
  ASSUME IInv, MainThread
  PROVE  IInv'
<1> USE DEF IInv, TypeOK, ThreadPc, MainPc, SharesCountAttaches,
            PlaceAgreesWithDepth, GilHeldInside, MainHoldsGil,
            GateShutByHook, OutsideAfterDrain
<1>1. CASE MainRelease
  BY <1>1 DEF MainRelease
<1>2. CASE MainResume
  BY <1>2 DEF MainResume
<1>3. CASE CloseGate
  BY <1>3 DEF CloseGate
<1>4. CASE HookDetach
  BY <1>4 DEF HookDetach
<1>5. CASE Drained
  <2>1. \A t \in Threads : depth[t] = 0 /\ pc[t] # "counted"
    BY <1>5 DEF Drained, NoneInflight
  <2>2. OutsideAfterDrain'
    BY <1>5, <2>1 DEF Drained
  <2>3. QED
    BY <1>5, <2>2 DEF Drained
<1>6. CASE WaitExpired
  BY <1>6 DEF WaitExpired
<1>7. CASE Finalize
  BY <1>7 DEF Finalize
<1>8. QED
  BY <1>1, <1>2, <1>3, <1>4, <1>5, <1>6, <1>7 DEF MainThread

\* The inductive invariant holds in every reachable state of the gate.
THEOREM Invariance == Spec => []IInv
<1>1. Init => IInv
  <2> SUFFICES ASSUME Init
               PROVE  IInv
    OBVIOUS
  <2>1. TypeOK
    <3>1. inflight \in [Threads -> Nat] /\ depth \in [Threads -> 0..Nesting]
      BY DEF Init
    <3>2. pc \in [Threads -> ThreadPc]
      BY DEF Init, ThreadPc
    <3>3. QED
      BY <3>1, <3>2 DEF Init, TypeOK, MainPc
  <2>2. SharesCountAttaches /\ PlaceAgreesWithDepth
    BY DEF Init, SharesCountAttaches, PlaceAgreesWithDepth
  <2>3. GilHeldInside /\ MainHoldsGil
    BY DEF Init, GilHeldInside, MainHoldsGil
  <2>4. GateShutByHook /\ OutsideAfterDrain
    BY DEF Init, GateShutByHook, OutsideAfterDrain
  <2>5. QED
    BY <2>1, <2>2, <2>3, <2>4 DEF IInv
<1>2. IInv /\ [Next]_vars => IInv'
  <2> SUFFICES ASSUME IInv, [Next]_vars
               PROVE  IInv'
    OBVIOUS
  <2>1. CASE \E t \in Threads : RuntimeThread(t)
    BY <2>1, RuntimeThreadPreserves
  <2>2. CASE \E p \in PyThreads : PyAttach(p) \/ PyDetach(p)
    BY <2>2, PyThreadPreserves
  <2>3. CASE MainThread
    BY <2>3, MainThreadPreserves
  <2>4. CASE UNCHANGED vars
    BY <2>4 DEF vars, IInv, TypeOK, SharesCountAttaches,
         PlaceAgreesWithDepth, GilHeldInside, MainHoldsGil,
         GateShutByHook, OutsideAfterDrain
  <2>5. QED
    BY <2>1, <2>2, <2>3, <2>4 DEF Next
<1>3. QED
  BY <1>1, <1>2, PTL DEF Spec

\* Every variable of the gate keeps its type; in particular no share of
\* INFLIGHT goes below zero (an AtomicUsize would wrap around).
THEOREM TypeCorrect == Spec => []TypeOK
<1>1. IInv => TypeOK
  BY DEF IInv
<1>2. QED
  BY <1>1, Invariance, PTL

\* What the atexit hook is for: no runtime thread is in Python, or on its
\* way in, when the interpreter finalizes and the wait did not run out.
THEOREM NoEntry == Spec => []NoEntryWhileFinalizing
<1>1. IInv => NoEntryWhileFinalizing
  BY DEF IInv, OutsideAfterDrain, NoEntryWhileFinalizing, InPython
<1>2. QED
  BY <1>1, Invariance, PTL

\* The runtime threads inside their closures are exactly those that hold
\* the GIL: two of them never run Python code at once.
THEOREM GilSafety == Spec => []GilHeldInside
<1>1. IInv => GilHeldInside
  BY DEF IInv
<1>2. QED
  BY <1>1, Invariance, PTL

\* After the hook saw INFLIGHT at zero, no step lets a runtime thread past
\* the gate.
THEOREM GateStaysShut == Spec => ShutForGood
<1> DEFINE Shut == main \in {"acquiring", "finalizing"} /\ ~timedOut
           NoNewEntry == Shut => \A t \in Threads : InPython(t)' => InPython(t)
<1>1. IInv /\ IInv' /\ [Next]_vars => [NoNewEntry]_vars
  <2> SUFFICES ASSUME IInv, IInv', Next, Shut
               PROVE  \A t \in Threads : InPython(t)' => InPython(t)
    BY DEF vars
  <2>1. CASE \E t \in Threads : RuntimeThread(t)
    <3>1. main' = main /\ timedOut' = timedOut
      BY <2>1 DEF RuntimeThread, Count, Admit, Park, TakeGil, SwitchOut,
                  Return, Uncount
    <3>2. QED
      BY <3>1 DEF IInv, OutsideAfterDrain, InPython
  <2>2. CASE \E p \in PyThreads : PyAttach(p) \/ PyDetach(p)
    BY <2>2 DEF PyAttach, PyDetach, InPython
  <2>3. CASE MainThread
    BY <2>3 DEF MainThread, MainRelease, MainResume, CloseGate, HookDetach,
                Drained, WaitExpired, Finalize, InPython
  <2>4. QED
    BY <2>1, <2>2, <2>3 DEF Next
<1>2. QED
  BY <1>1, Invariance, PTL DEF Spec, ShutForGood

=============================================================================
