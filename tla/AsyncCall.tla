----------------------------- MODULE AsyncCall ------------------------------
(***************************************************************************)
(* What an asynchronous call across the language border promises, whoever  *)
(* waits and whoever works: an answer comes only from work that ended by   *)
(* itself, a waiter gets at most one, and work is stopped only for a       *)
(* waiter that has gone.  FutureBridge (Python waits for Rust) and         *)
(* TaskBridge (Rust waits for Python) implement it.                        *)
(***************************************************************************)
CONSTANT Calls

VARIABLES
  caller,   \* the waiting side of each call
  work      \* the working side of each call

callVars == <<caller, work>>

Init ==
  /\ caller = [c \in Calls |-> "none"]
  /\ work = [c \in Calls |-> "none"]

Begin(c) ==
  /\ caller[c] = "none" /\ work[c] = "none"
  /\ caller' = [caller EXCEPT ![c] = "waiting"]
  /\ work' = [work EXCEPT ![c] = "running"]

\* Work ends by itself: with a value, with an error, or because what runs
\* it is gone, which may end the work of several calls at once.
Finish(ended) ==
  /\ \A c \in ended : work[c] = "running"
  /\ work' = [c \in Calls |-> IF c \in ended THEN "finished" ELSE work[c]]
  /\ UNCHANGED caller

Answer(c) ==
  /\ caller[c] = "waiting" /\ work[c] = "finished"
  /\ caller' = [caller EXCEPT ![c] = "answered"]
  /\ UNCHANGED work

Abandon(c) ==
  /\ caller[c] = "waiting"
  /\ caller' = [caller EXCEPT ![c] = "gone"]
  /\ UNCHANGED work

Stop(c) ==
  /\ caller[c] = "gone" /\ work[c] = "running"
  /\ work' = [work EXCEPT ![c] = "stopped"]
  /\ UNCHANGED caller

Next ==
  \/ \E c \in Calls : Begin(c) \/ Answer(c) \/ Abandon(c) \/ Stop(c)
  \/ \E ended \in SUBSET Calls : Finish(ended)

Spec == Init /\ [][Next]_callVars
=============================================================================
