---------------------------- MODULE StreamParts -----------------------------
(***************************************************************************)
(* The stream handles of src/src/lib.rs and the calls of helpers.rs that   *)
(* use them up.  A handle holds one part of a stream (sending or           *)
(* receiving) behind a tokio mutex:                                        *)
(*                                                                         *)
(*  - the coroutines (write, finish, read, stopped, ...) are calls of      *)
(*    future_into_py that wait for the mutex (`held`) and keep it until    *)
(*    the operation ended or was dropped;                                  *)
(*  - the plain methods (`held_now`) and the calls that take the part out  *)
(*    (`take_now`, `pair`) never wait: RuntimeError while it is locked.    *)
(*                                                                         *)
(* A coroutine is a call of AsyncCall, which FutureBridge implements.  The *)
(* mutex serves its waiters in the order of their first poll: `ahead` says *)
(* who is in front of whom.  The plain calls run under the GIL and take    *)
(* and release the mutex in one step.  What an operation does to the       *)
(* stream is the zmux crate's (external).                                  *)
(***************************************************************************)
EXTENDS AsyncCall

CONSTANTS
  Streams,   \* bidirectional streams
  PartOf,    \* the part a call works on
  Blocking,  \* calls that may wait for the peer or for flow control
  Numbered   \* the streams opened on the wire, which have an ID

Sending(s) == <<s, "send">>
Receiving(s) == <<s, "recv">>
Parts == Streams \X {"send", "recv"}

ASSUME PartsAssumption ==
  /\ PartOf \in [Calls -> Parts]
  /\ Blocking \subseteq Calls
  /\ Numbered \subseteq Streams

VARIABLES
  line,    \* the calls that own or wait for a mutex
  ahead,   \* for each call the ones in front of it
  held,    \* the parts still in their handles
  pairs    \* what `pair` took: the stream of each of the two parts

partVars == <<line, ahead, held, pairs>>
vars == <<caller, work, line, ahead, held, pairs>>

PartsTypeOK ==
  /\ caller \in [Calls -> {"none", "waiting", "answered", "gone"}]
  /\ work \in [Calls -> {"none", "running", "finished", "stopped"}]
  /\ line \subseteq Calls
  /\ ahead \in [Calls -> SUBSET Calls]
  /\ held \subseteq Parts
  /\ pairs \subseteq Streams \X Streams

PartsInit ==
  /\ Init
  /\ line = {}
  /\ ahead = [c \in Calls |-> {}]
  /\ held = Parts
  /\ pairs = {}

-----------------------------------------------------------------------------
(***************************************************************************)
(* The coroutines.                                                         *)
(***************************************************************************)

LineFor(p) == {c \in line : PartOf[c] = p}

Owns(c) == c \in line /\ ahead[c] = {}

\* Mutant of Leave: the next waiter is not woken.
LeaveUnawoken(c) ==
  /\ line' = line \ {c}
  /\ ahead' = [ahead EXCEPT ![c] = {}]

\* The guard, or the place among the waiters, is dropped.
Leave(c) ==
  /\ line' = line \ {c}
  /\ ahead' = [d \in Calls |-> IF d = c THEN {} ELSE ahead[d] \ {c}]

\* Python calls the method; its task is spawned.
Start(c) == Begin(c) /\ UNCHANGED partVars

\* The first poll: p.lock().
Lock(c) ==
  /\ work[c] = "running" /\ c \notin line
  /\ line' = line \cup {c}
  /\ ahead' = [ahead EXCEPT ![c] = LineFor(PartOf[c])]
  /\ UNCHANGED <<caller, work, held, pairs>>

\* Mutant of Use: the guard outlives the operation.
UseUnreleased(c) ==
  /\ Owns(c) /\ PartOf[c] \in held
  /\ Finish({c})
  /\ UNCHANGED partVars

\* The operation ends, with its result or its error; the guard is released.
Use(c) ==
  /\ Owns(c) /\ PartOf[c] \in held
  /\ Finish({c})
  /\ Leave(c)
  /\ UNCHANGED <<held, pairs>>

\* `held` finds the part taken: the call fails (ClosedLocally).
Taken(c) ==
  /\ Owns(c) /\ PartOf[c] \notin held
  /\ Finish({c})
  /\ Leave(c)
  /\ UNCHANGED <<held, pairs>>

\* The task that waits is cancelled; the operation does not know yet.
Cancel(c) == Abandon(c) /\ UNCHANGED partVars

\* The operation is dropped, and with it the guard or the wait for it.
Drop(c) ==
  /\ Stop(c)
  /\ Leave(c)
  /\ UNCHANGED <<held, pairs>>

\* The awaiting task goes on.
Return(c) == Answer(c) /\ UNCHANGED partVars

-----------------------------------------------------------------------------
(***************************************************************************)
(* The calls that never wait.                                              *)
(***************************************************************************)

\* try_lock fails.
Busy(p) == LineFor(p) # {}

\* What a plain method does at once: RuntimeError, ClosedLocally, or its work.
HeldNow(p) ==
  IF Busy(p) THEN "busy" ELSE IF p \in held THEN "ok" ELSE "taken"

\* RecvStream.reject: take_now.
Reject(s) ==
  /\ HeldNow(Receiving(s)) = "ok"
  /\ held' = held \ {Receiving(s)}
  /\ UNCHANGED <<caller, work, line, ahead, pairs>>

\* Both locks, both parts there, and not known to be of two streams: the
\* IDs are compared only once both are known.
CanPair(s, t) ==
  /\ HeldNow(Sending(s)) = "ok" /\ HeldNow(Receiving(t)) = "ok"
  /\ s = t \/ {s, t} \cap Numbered # {s, t}

\* Mutant of TakePairs: the receiving parts stay in their handles.
TakePairsHalf(new) ==
  /\ held' = held \ {Sending(p[1]) : p \in new}
  /\ pairs' = pairs \cup new
  /\ UNCHANGED <<caller, work, line, ahead>>

TakePairs(new) ==
  /\ held' = held \ ({Sending(p[1]) : p \in new} \cup {Receiving(p[2]) : p \in new})
  /\ pairs' = pairs \cup new
  /\ UNCHANGED <<caller, work, line, ahead>>

\* stream_pipe: the two parts become a pipe.
StreamPipe(s, t) == CanPair(s, t) /\ TakePairs({<<s, t>>})

\* splice: no part on both sides; pair(a), then pair(b).  When pair(b)
\* fails the call raises, and what pair(a) took is dropped.
Splice(s, t, u, v) ==
  /\ s # u /\ t # v
  /\ CanPair(s, t)
  /\ TakePairs(IF CanPair(u, v) THEN {<<s, t>>, <<u, v>>} ELSE {<<s, t>>})

-----------------------------------------------------------------------------

Coroutine(c) ==
  Start(c) \/ Lock(c) \/ Use(c) \/ Taken(c) \/ Cancel(c) \/ Drop(c) \/ Return(c)

PartsNext ==
  \/ \E c \in Calls : Coroutine(c)
  \/ \E s \in Streams : Reject(s)
  \/ \E s, t \in Streams : StreamPipe(s, t)
  \/ \E s, t, u, v \in Streams : Splice(s, t, u, v)

(***************************************************************************)
(* Fairness: the runtime polls a spawned task and one the mutex woke, and  *)
(* drops the operation of a cancelled call (CancelEndsOperation of         *)
(* FutureBridge).  An operation that may block need never end by itself.   *)
(***************************************************************************)
PartsFairness ==
  /\ \A c \in Calls : WF_vars(Lock(c)) /\ WF_vars(Taken(c)) /\ WF_vars(Drop(c))
  /\ \A c \in Calls \ Blocking : WF_vars(Use(c))

PartsSpec == PartsInit /\ [][PartsNext]_vars /\ PartsFairness

-----------------------------------------------------------------------------
(***************************************************************************)
(* Properties.                                                             *)
(***************************************************************************)

LineIsRunning == \A c \in line : work[c] = "running"

Unanswered ==
  \A c \in Calls : work[c] = "running" => caller[c] \in {"waiting", "gone"}

LineIsOrdered ==
  /\ \A c \in Calls : ahead[c] \subseteq LineFor(PartOf[c])
  /\ \A c \in Calls \ line : ahead[c] = {}
  /\ \A c, d \in Calls : c \in ahead[d] => d \notin ahead[c] /\ ahead[c] \subseteq ahead[d]
  /\ \A c, d \in line : c # d /\ PartOf[c] = PartOf[d] => c \in ahead[d] \/ d \in ahead[c]

\* The waiters of each mutex stand in one order, and only calls whose
\* operation is neither ended nor dropped own a mutex or wait for it.
PartsInv == PartsTypeOK /\ LineIsRunning /\ Unanswered /\ LineIsOrdered

\* A part is used by one operation at a time, however calls, ends and
\* cancellations interleave (lib.rs, `held`).
MutualExclusion ==
  \A c, d \in Calls : Owns(c) /\ Owns(d) /\ PartOf[c] = PartOf[d] => c = d

\* A plain method raises RuntimeError only while an operation is in
\* progress that nobody has had the result of: never after the await of
\* the last call returned (lib.rs, `held_now`).
BusyMeansInProgress ==
  \A p \in Parts :
    HeldNow(p) = "busy" =>
      \E c \in Calls : /\ PartOf[c] = p
                       /\ work[c] = "running" /\ caller[c] # "answered"

\* No part is taken out of its handle under an operation that owns it or
\* waits for it: such an operation never finds its part gone.
NoTakeUnderOperation ==
  [][\A c \in line : (PartOf[c] \in held) => (PartOf[c] \in held')]_vars

\* What `pair` took is in no handle any more, and in no second pair: a
\* stream becomes a pipe, or is spliced, once.
PairsUsedUp ==
  /\ \A p \in pairs : Sending(p[1]) \notin held /\ Receiving(p[2]) \notin held
  /\ \A p, q \in pairs : p[1] = q[1] \/ p[2] = q[2] => p = q

\* lib.rs:2973, finish: "Waits for an operation in progress (a cancelled
\* one releases at once)".  A cancelled call lets go of the part for good; one
\* that does not block itself comes through once every call before it is
\* cancelled or does not block either; and one on a handle that is used up
\* fails and never hangs.
FinishGoesThrough ==
  \A c \in Calls :
    /\ caller[c] = "gone" ~> [](c \notin line)
    /\ c \notin Blocking /\ c \in line /\ (\A d \in ahead[c] : d \in Blocking => caller[d] = "gone")
         ~> work[c] # "running"
    /\ work[c] = "running" /\ PartOf[c] \notin held ~> work[c] # "running"

\* python/zmux/_zmux.pyi:931 says of SendStream: "One operation at a time:
\* a second concurrent call raises `RuntimeError`."  No call ever waits
\* behind another.
SecondCallRaises == \A c \in line : ahead[c] = {}
=============================================================================
