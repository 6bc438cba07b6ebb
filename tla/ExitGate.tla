------------------------------ MODULE ExitGate ------------------------------
(***************************************************************************)
(* The gate of src/src/rt.rs between the Rust runtime's threads and the    *)
(* interpreter: `attach` counts a runtime thread in INFLIGHT, looks at     *)
(* EXITING and either takes the GIL or parks for the rest of the process;  *)
(* the `_shutdown` atexit hook sets EXITING and waits, detached and for at *)
(* most EXIT_WAIT, for the attaches under way before the interpreter is    *)
(* finalized.                                                              *)
(*                                                                         *)
(* INFLIGHT is kept as each thread's share of the counter: the hook only   *)
(* compares it with zero, and the counter is zero exactly when every share *)
(* is.  All accesses in the code are SeqCst, so steps interleave.          *)
(***************************************************************************)
EXTENDS Naturals

CONSTANTS
  Threads,    \* the runtime's threads and their marked helper threads
  PyThreads,  \* threads of Python other than the main one
  Main,       \* the interpreter's main thread, which runs the atexit hooks
  NoThread,   \* the GIL is free
  Nesting     \* attaches a thread makes one inside the other, at most

ASSUME ThreadsAssumption ==
  /\ Threads \cap PyThreads = {}
  /\ Main \notin Threads \cup PyThreads
  /\ NoThread \notin Threads \cup PyThreads \cup {Main}

ASSUME NestingAssumption == Nesting \in Nat \ {0}

VARIABLES
  exiting,    \* EXITING
  inflight,   \* each runtime thread's share of INFLIGHT
  gil,        \* who holds the GIL
  pc,         \* where each runtime thread is
  depth,      \* attaches each runtime thread is inside of
  main,       \* where the main thread is
  timedOut    \* the hook gave up waiting: EXIT_WAIT passed

vars == <<exiting, inflight, gil, pc, depth, main, timedOut>>

(***************************************************************************)
(* A runtime thread runs Rust code outside any attach ("rust"), has added  *)
(* itself to INFLIGHT ("counted"), passed the gate and waits for the GIL   *)
(* ("waiting"), runs the closure with the GIL ("inside"), has it taken     *)
(* away meanwhile ("switched"), has left Python::attach but not yet        *)
(* INFLIGHT ("leaving"), or is parked.                                     *)
(***************************************************************************)
ThreadPc ==
  {"rust", "counted", "waiting", "inside", "switched", "leaving", "parked"}

MainPc == {"running", "released", "hook", "polling", "acquiring", "finalizing"}

TypeOK ==
  /\ exiting \in BOOLEAN
  /\ inflight \in [Threads -> Nat]
  /\ gil \in Threads \cup PyThreads \cup {Main, NoThread}
  /\ pc \in [Threads -> ThreadPc]
  /\ depth \in [Threads -> 0..Nesting]
  /\ main \in MainPc
  /\ timedOut \in BOOLEAN

Init ==
  /\ exiting = FALSE
  /\ inflight = [t \in Threads |-> 0]
  /\ gil = Main
  /\ pc = [t \in Threads |-> "rust"]
  /\ depth = [t \in Threads |-> 0]
  /\ main = "running"
  /\ timedOut = FALSE

-----------------------------------------------------------------------------
(***************************************************************************)
(* attach on a runtime thread.                                             *)
(***************************************************************************)

Goto(t, to) == pc' = [pc EXCEPT ![t] = to]

\* Mutant of GateOpen: EXITING was looked at before the thread was counted.
GateOpenUnchecked == TRUE

\* What attach finds in EXITING after counting itself.
GateOpen == ~exiting

\* The drop of the Leave guard: INFLIGHT.fetch_sub(1).
Leave(t) == inflight' = [inflight EXCEPT ![t] = @ - 1]

\* INFLIGHT.fetch_add(1), from Rust code or from inside another attach
\* (a closure that builds an exception, a callback that makes bytes).
Count(t) ==
  /\ pc[t] \in {"rust", "inside"}
  /\ depth[t] < Nesting
  /\ inflight' = [inflight EXCEPT ![t] = @ + 1]
  /\ Goto(t, "counted")
  /\ UNCHANGED <<exiting, gil, depth, main, timedOut>>

\* EXITING.load() is false: Python::attach, which waits for the GIL unless
\* this thread has it already.
Admit(t) ==
  /\ pc[t] = "counted"
  /\ GateOpen
  /\ Goto(t, IF depth[t] = 0 THEN "waiting" ELSE "inside")
  /\ depth' = [depth EXCEPT ![t] = @ + 1]
  /\ UNCHANGED <<exiting, inflight, gil, main, timedOut>>

\* EXITING.load() is true: the share is given back and the thread parks,
\* with the GIL if it came from inside another attach.
Park(t) ==
  /\ pc[t] = "counted"
  /\ ~GateOpen
  /\ Leave(t)
  /\ Goto(t, "parked")
  /\ UNCHANGED <<exiting, gil, depth, main, timedOut>>

\* PyGILState_Ensure returns, or the evaluation loop resumes a switched
\* thread.  A finalizing interpreter gives the GIL to nobody.
TakeGil(t) ==
  /\ pc[t] \in {"waiting", "switched"}
  /\ gil = NoThread
  /\ main # "finalizing"
  /\ gil' = t
  /\ Goto(t, "inside")
  /\ UNCHANGED <<exiting, inflight, depth, main, timedOut>>

\* The closure runs Python code, and the interpreter switches threads or
\* the code blocks without the GIL.
SwitchOut(t) ==
  /\ pc[t] = "inside"
  /\ gil' = NoThread
  /\ Goto(t, "switched")
  /\ UNCHANGED <<exiting, inflight, depth, main, timedOut>>

\* The closure returns; the outermost attach gives the GIL back.
Return(t) ==
  /\ pc[t] = "inside"
  /\ gil' = IF depth[t] = 1 THEN NoThread ELSE gil
  /\ Goto(t, "leaving")
  /\ UNCHANGED <<exiting, inflight, depth, main, timedOut>>

\* drop(leave) after Python::attach.
Uncount(t) ==
  /\ pc[t] = "leaving"
  /\ Leave(t)
  /\ depth' = [depth EXCEPT ![t] = @ - 1]
  /\ Goto(t, IF depth[t] = 1 THEN "rust" ELSE "inside")
  /\ UNCHANGED <<exiting, gil, main, timedOut>>

-----------------------------------------------------------------------------
(***************************************************************************)
(* Threads of Python: attach takes the GIL without looking at the gate.    *)
(***************************************************************************)

PyAttach(p) ==
  /\ gil = NoThread
  /\ main # "finalizing"
  /\ gil' = p
  /\ UNCHANGED <<exiting, inflight, pc, depth, main, timedOut>>

PyDetach(p) ==
  /\ gil = p
  /\ gil' = NoThread
  /\ UNCHANGED <<exiting, inflight, pc, depth, main, timedOut>>

-----------------------------------------------------------------------------
(***************************************************************************)
(* The main thread: Python code until the atexit hooks, then _shutdown.    *)
(***************************************************************************)

MainRelease ==
  /\ main = "running"
  /\ main' = "released"
  /\ gil' = NoThread
  /\ UNCHANGED <<exiting, inflight, pc, depth, timedOut>>

MainResume ==
  /\ main = "released"
  /\ gil = NoThread
  /\ main' = "running"
  /\ gil' = Main
  /\ UNCHANGED <<exiting, inflight, pc, depth, timedOut>>

\* _shutdown is called, the GIL held: EXITING.store(true).
CloseGate ==
  /\ main = "running"
  /\ exiting' = TRUE
  /\ main' = "hook"
  /\ UNCHANGED <<inflight, gil, pc, depth, timedOut>>

\* py.detach: the hook polls without the GIL.
HookDetach ==
  /\ main = "hook"
  /\ main' = "polling"
  /\ gil' = NoThread
  /\ UNCHANGED <<exiting, inflight, pc, depth, timedOut>>

\* Mutant of NoneInflight: the hook does not wait.
NoneInflightUnread == TRUE

\* INFLIGHT.load() = 0.
NoneInflight == \A t \in Threads : inflight[t] = 0

\* INFLIGHT.load() = 0 ends the loop.
Drained ==
  /\ main = "polling"
  /\ NoneInflight
  /\ main' = "acquiring"
  /\ UNCHANGED <<exiting, inflight, gil, pc, depth, timedOut>>

\* Mutant of WaitExpired: the wait is not bounded.
WaitUnbounded == FALSE

\* INFLIGHT.load() > 0 and EXIT_WAIT has passed: the loop ends all the same.
WaitExpired ==
  /\ main = "polling"
  /\ ~NoneInflight
  /\ timedOut' = TRUE
  /\ main' = "acquiring"
  /\ UNCHANGED <<exiting, inflight, gil, pc, depth>>

\* The end of py.detach takes the GIL; the hooks are done and the
\* interpreter finalizes.
Finalize ==
  /\ main = "acquiring"
  /\ gil = NoThread
  /\ gil' = Main
  /\ main' = "finalizing"
  /\ UNCHANGED <<exiting, inflight, pc, depth, timedOut>>

-----------------------------------------------------------------------------

RuntimeThread(t) ==
  \/ Count(t) \/ Admit(t) \/ Park(t)
  \/ TakeGil(t) \/ SwitchOut(t) \/ Return(t) \/ Uncount(t)

MainThread ==
  \/ MainRelease \/ MainResume \/ CloseGate
  \/ HookDetach \/ Drained \/ WaitExpired \/ Finalize

Next ==
  \/ \E t \in Threads : RuntimeThread(t)
  \/ \E p \in PyThreads : PyAttach(p) \/ PyDetach(p)
  \/ MainThread

(***************************************************************************)
(* Fairness: a scheduled thread goes on with its own code; the GIL's       *)
(* waiters are served in turn (the interpreter forces a switch and the     *)
(* releasing thread waits for another to take it), hence strong fairness   *)
(* for taking it; whoever runs Python code is made to give the GIL up when *)
(* another asks for it.  Nothing forces a thread to start an attach, a     *)
(* closure that runs Python code to return, or the main thread to exit.    *)
(***************************************************************************)
Fairness ==
  /\ \A t \in Threads :
       /\ WF_vars(Admit(t) \/ Park(t))
       /\ SF_vars(TakeGil(t))
       /\ WF_vars(SwitchOut(t) \/ Return(t))
       /\ WF_vars(Uncount(t))
  /\ \A p \in PyThreads : WF_vars(PyDetach(p))
  /\ WF_vars(HookDetach)
  /\ WF_vars(Drained \/ WaitExpired)
  /\ SF_vars(Finalize)

Spec == Init /\ [][Next]_vars /\ Fairness

-----------------------------------------------------------------------------
(***************************************************************************)
(* Properties.                                                             *)
(***************************************************************************)

\* A runtime thread between the gate and the end of Python::attach.
InPython(t) == pc[t] \in {"waiting", "inside", "switched"}

\* A thread that holds the GIL by having parked in a nested attach.
ParkedWithGil(t) == pc[t] = "parked" /\ gil = t

\* What the atexit hook is for (rt.rs, the module's comment): once the
\* interpreter is finalizing, unless the bounded wait ran out, no runtime
\* thread is in Python or waits for the GIL.
NoEntryWhileFinalizing ==
  main = "finalizing" /\ ~timedOut => \A t \in Threads : ~InPython(t)

\* The GIL has one holder, and a runtime thread that runs its closure, or
\* leaves or counts itself inside another attach, is that holder: the code
\* after Park in a nested attach never runs without it.
GilHeldInside ==
  \A t \in Threads :
    gil = t <=> \/ pc[t] = "inside"
                \/ pc[t] \in {"counted", "parked"} /\ depth[t] > 0
                \/ pc[t] = "leaving" /\ depth[t] > 1

(***************************************************************************)
(* The inductive invariant: the shares count the attaches, the places      *)
(* agree with the depths, GIL and gate agree with the main thread, and     *)
(* once the hook saw zero no thread is past the gate.                      *)
(***************************************************************************)
SharesCountAttaches ==
  \A t \in Threads :
    inflight[t] = depth[t] + (IF pc[t] = "counted" THEN 1 ELSE 0)

PlaceAgreesWithDepth ==
  \A t \in Threads :
    /\ pc[t] = "rust" => depth[t] = 0
    /\ pc[t] \in {"waiting", "inside", "switched", "leaving"} => depth[t] > 0
    /\ pc[t] = "waiting" => depth[t] = 1
    /\ pc[t] = "counted" => depth[t] < Nesting

MainHoldsGil ==
  gil = Main <=> main \in {"running", "hook", "finalizing"}

GateShutByHook ==
  exiting <=> main \in {"hook", "polling", "acquiring", "finalizing"}

OutsideAfterDrain ==
  main \in {"acquiring", "finalizing"} /\ ~timedOut =>
    \A t \in Threads : depth[t] = 0 /\ pc[t] \in {"rust", "counted", "parked"}

IInv ==
  /\ TypeOK
  /\ SharesCountAttaches
  /\ PlaceAgreesWithDepth
  /\ GilHeldInside
  /\ MainHoldsGil
  /\ GateShutByHook
  /\ OutsideAfterDrain

\* Once the hook has seen INFLIGHT at zero no runtime thread passes the gate
\* again, whatever it had read before: the order of fetch_add and load in
\* attach against store and load in _shutdown.
ShutForGood ==
  [][(main \in {"acquiring", "finalizing"} /\ ~timedOut)
       => (\A t \in Threads : InPython(t)' => InPython(t))]_vars

\* The interpreter's exit is not held up: once the hook runs, finalization
\* comes, unless a runtime thread parks in a nested attach with the GIL.
ExitCompletes ==
  main = "hook" ~> (main = "finalizing" \/ \E t \in Threads : ParkedWithGil(t))

\* rt.rs:14 says of the gate: "Threads of Python itself are never held."
\* The main thread, in the hook, gets the GIL back and finalizes.
NeverHeld == main = "hook" ~> main = "finalizing"
=============================================================================
