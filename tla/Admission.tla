------------------------------ MODULE Admission ------------------------------
(***************************************************************************)
(* The admission of src/src/admission.rs: one call of a decider, or of a   *)
(* credential's method, for each carrier.                                  *)
(*                                                                         *)
(* with_info runs the call on a scoped thread and answers the requests of  *)
(* CarrierInfo.export on the thread that has the carrier's metadata, until *)
(* the call says Done.  An `async` decider's coroutine is posted to an     *)
(* event loop by the call and runs there from then on, also while the call *)
(* still has to send Done.  Whoever keeps the view may ask at any time.    *)
(*                                                                         *)
(* External: the decider, its coroutine (which ends when it is cancelled)  *)
(* and the crate, which gives a decision up when its peek timeout ends or  *)
(* its listener closes, but cannot while the call runs: `start` is not a   *)
(* future.  rt::into_future is module TaskBridge, abstracted here: the     *)
(* coroutine is "posted" until its task's first step.                      *)
(***************************************************************************)
EXTENDS Integers, Sequences

CONSTANTS
  Carriers,  \* the carriers decided
  Loops,     \* the event loops of the process
  NoLoop,    \* no loop was running
  \* who asks for an exporter value, once: the carriers whose
  CallAsks,  \*   call does,
  CoroAsks,  \*   coroutine does,
  KeptAsks   \*   view is kept by somebody who does

ASSUME AdmissionAssumption ==
  /\ NoLoop \notin Loops
  /\ CallAsks \cup CoroAsks \cup KeptAsks \subseteq Carriers

VARIABLES
  locals,    \* PyDecide.locals, the loop of an async decider
  kind,      \* "decide" or "credential", the method called
  exporter,  \* the carrier has an exporter
  at,        \* where with_info is
  result,    \* what the call gave, then what its coroutine gave
  asks,      \* the channel to the answering thread: askers and Done
  reply,     \* what each asker got
  coro,      \* where the coroutine is
  coroLoop,  \* the loop it was posted to
  outcome    \* what the crate got

callVars == <<kind, exporter, at, result>>
askVars == <<asks, reply>>
coroVars == <<coro, coroLoop>>
admissionVars == <<locals, callVars, askVars, coroVars, outcome>>

Askers == {"call", "coro", "kept"}
Done == "Done"
\* FALLBACK and STALL are refusals like CLOSE: what follows is the crate's.
Verdicts == {"accept", "close"}
\* "bytes" is what a credential gives, "raised" an exception or another value.
Results == Verdicts \cup {"bytes", "raised"}

AdmissionTypeOK ==
  /\ locals \in Loops \cup {NoLoop}
  /\ kind \in [Carriers -> {"none", "decide", "credential"}]
  /\ exporter \in [Carriers -> BOOLEAN]
  /\ at \in [Carriers -> {"idle", "calling", "returned", "done", "unwound", "stuck", "over"}]
  /\ result \in [Carriers -> Results \cup {"none", "coroutine"}]
  /\ asks \in [Carriers -> Seq(Askers \cup {Done})]
  /\ reply \in [Carriers -> [Askers -> {"idle", "waiting", "answered", "none"}]]
  /\ coro \in [Carriers -> {"none", "posted", "first", "suspended", "later", "over"}]
  /\ coroLoop \in [Carriers -> Loops \cup {NoLoop}]
  /\ outcome \in [Carriers -> Verdicts \cup {"none", "bytes", "error", "dropped"}]

\* Admission(decide): the loop running now, if one is.
AdmissionInit ==
  /\ locals \in Loops \cup {NoLoop}
  /\ kind = [c \in Carriers |-> "none"] /\ exporter = [c \in Carriers |-> FALSE]
  /\ at = [c \in Carriers |-> "idle"] /\ result = [c \in Carriers |-> "none"]
  /\ asks = [c \in Carriers |-> <<>>]
  /\ reply = [c \in Carriers |-> [a \in Askers |-> "idle"]]
  /\ coro = [c \in Carriers |-> "none"] /\ coroLoop = [c \in Carriers |-> NoLoop]
  /\ outcome = [c \in Carriers |-> "none"]

-----------------------------------------------------------------------------
\* Mutant of ForListener: the last listener's loop.
ForListenerLast(loop) ==
  /\ locals' = IF loop = NoLoop THEN locals ELSE loop
  /\ UNCHANGED <<callVars, askVars, coroVars, outcome>>

\* for_listener: the loop running now, unless one was taken already.
ForListener(loop) ==
  /\ locals' = IF locals = NoLoop THEN loop ELSE locals
  /\ UNCHANGED <<callVars, askVars, coroVars, outcome>>

\* Mutant of Start: Done is sent before the call.
StartDone(c, k, e) ==
  /\ at[c] = "idle"
  /\ kind' = [kind EXCEPT ![c] = k] /\ exporter' = [exporter EXCEPT ![c] = e]
  /\ at' = [at EXCEPT ![c] = "calling"]
  /\ asks' = [asks EXCEPT ![c] = IF e THEN <<Done>> ELSE <<>>]
  /\ UNCHANGED <<locals, result, reply, coroVars, outcome>>

\* with_info starts: the call has the view, with a sender if there is an
\* exporter.
Start(c, k, e) ==
  /\ at[c] = "idle"
  /\ kind' = [kind EXCEPT ![c] = k] /\ exporter' = [exporter EXCEPT ![c] = e]
  /\ at' = [at EXCEPT ![c] = "calling"]
  /\ UNCHANGED <<locals, result, askVars, coroVars, outcome>>

\* The call returns; with an awaitable it posts it to the loop first, and
\* without a loop, or with one that refuses it, gives an error.
CallReturns(c, r) ==
  /\ at[c] = "calling" /\ reply[c]["call"] # "waiting"
  /\ at' = [at EXCEPT ![c] = IF exporter[c] THEN "returned" ELSE "over"]
  /\ \/ r # "coroutine" /\ result' = [result EXCEPT ![c] = r] /\ UNCHANGED coroVars
     \/ r = "coroutine" /\ result' = [result EXCEPT ![c] = "raised"] /\ UNCHANGED coroVars
     \/ /\ r = "coroutine" /\ locals # NoLoop
        /\ result' = [result EXCEPT ![c] = "coroutine"]
        /\ coro' = [coro EXCEPT ![c] = "posted"]
        /\ coroLoop' = [coroLoop EXCEPT ![c] = locals]
  /\ UNCHANGED <<locals, kind, exporter, askVars, outcome>>

\* What a decider and a credential's method may return.
Returns(c) ==
  IF kind[c] = "decide" THEN Verdicts \cup {"raised", "coroutine"}
                        ELSE {"bytes", "raised"}

\* The call panics (a Rust panic below the Python code): it sends no Done,
\* and drops its senders, the view's only if nobody keeps the view.
CallPanics(c) ==
  /\ at[c] = "calling" /\ exporter[c]
  /\ reply[c]["call"] # "waiting"
  /\ at' = [at EXCEPT ![c] = IF c \in KeptAsks THEN "stuck" ELSE "unwound"]
  /\ result' = [result EXCEPT ![c] = "raised"]
  /\ UNCHANGED <<locals, kind, exporter, askVars, coroVars, outcome>>

SendDone(c) ==
  /\ at[c] = "returned"
  /\ at' = [at EXCEPT ![c] = "done"] /\ asks' = [asks EXCEPT ![c] = Append(@, Done)]
  /\ UNCHANGED <<locals, kind, exporter, result, reply, coroVars, outcome>>

\* The answering thread takes a request.
Answer(c) ==
  /\ at[c] # "over" /\ asks[c] # <<>> /\ Head(asks[c]) # Done
  /\ asks' = [asks EXCEPT ![c] = Tail(@)]
  /\ reply' = [reply EXCEPT ![c][Head(asks[c])] = "answered"]
  /\ UNCHANGED <<locals, callVars, coroVars, outcome>>

\* Mutant of Finish: the requests behind Done are kept, with their senders.
FinishKept(c) ==
  /\ \/ asks[c] # <<>> /\ Head(asks[c]) = Done
     \/ asks[c] = <<>> /\ at[c] = "unwound"
  /\ at' = [at EXCEPT ![c] = "over"]
  /\ asks' = [asks EXCEPT ![c] = IF @ = <<>> THEN @ ELSE Tail(@)] /\ UNCHANGED reply
  /\ UNCHANGED <<locals, kind, exporter, result, coroVars, outcome>>

\* It takes Done, or finds no sender left: with_info returns, and the
\* requests behind are dropped with the channel.
Finish(c) ==
  /\ \/ asks[c] # <<>> /\ Head(asks[c]) = Done
     \/ asks[c] = <<>> /\ at[c] = "unwound"
  /\ at' = [at EXCEPT ![c] = "over"]
  /\ asks' = [asks EXCEPT ![c] = <<>>]
  /\ reply' = [reply EXCEPT ![c] =
                 [a \in Askers |-> IF @[a] = "waiting" THEN "none" ELSE @[a]]]
  /\ UNCHANGED <<locals, kind, exporter, result, coroVars, outcome>>

-----------------------------------------------------------------------------
Running == {"first", "later"}

\* A loop runs one coroutine at a time, one that waits in export too.
LoopFree(c) == \A d \in Carriers : coroLoop[d] = coroLoop[c] => coro[d] \notin Running

\* The call asks while it runs, the coroutine while it does, and who keeps
\* the view at any time after.
MayAsk(c, a) ==
  /\ reply[c][a] = "idle"
  /\ CASE a = "call" -> c \in CallAsks /\ at[c] = "calling"
       [] a = "coro" -> c \in CoroAsks /\ coro[c] \in Running
       [] a = "kept" -> c \in KeptAsks /\ at[c] # "idle"

\* CarrierInfo.export: no value without an exporter or once the channel is
\* gone; else the asker waits for its answer.
Export(c, a) ==
  /\ MayAsk(c, a)
  /\ IF ~exporter[c] \/ at[c] = "over"
     THEN reply' = [reply EXCEPT ![c][a] = "none"] /\ UNCHANGED asks
     ELSE /\ reply' = [reply EXCEPT ![c][a] = "waiting"]
          /\ asks' = [asks EXCEPT ![c] = Append(@, a)]
  /\ UNCHANGED <<locals, callVars, coroVars, outcome>>

CoroMoves(c, from, to) ==
  /\ coro[c] \in from /\ coro' = [coro EXCEPT ![c] = to]
  /\ UNCHANGED <<locals, callVars, askVars, coroLoop, outcome>>

NotAsking(c) == reply[c]["coro"] # "waiting"

CoroStarts(c) == LoopFree(c) /\ CoroMoves(c, {"posted"}, "first")
CoroAwaits(c) == NotAsking(c) /\ CoroMoves(c, Running, "suspended")
\* Also once its decision was given up, ahead of the posted cancellation.
CoroResumes(c) == LoopFree(c) /\ CoroMoves(c, {"suspended"}, "later")

\* The coroutine returns or raises.
CoroEnds(c, r) ==
  /\ coro[c] \in Running /\ NotAsking(c)
  /\ coro' = [coro EXCEPT ![c] = "over"] /\ result' = [result EXCEPT ![c] = r]
  /\ UNCHANGED <<locals, kind, exporter, at, askVars, coroLoop, outcome>>

\* Mutant of CoroCancelled: only a coroutine that has not run is cancelled.
CoroCancelledUnstarted(c) ==
  outcome[c] = "dropped" /\ LoopFree(c) /\ CoroMoves(c, {"posted"}, "over")

\* The cancellation of a decision given up reaches it at its await.
CoroCancelled(c) ==
  outcome[c] = "dropped" /\ LoopFree(c) /\ CoroMoves(c, {"suspended"}, "over")

\* Mutant of Settled: a decider that fails lets the carrier in.
SettledOpen(c) ==
  CASE kind[c] = "credential" -> IF result[c] = "bytes" THEN "bytes" ELSE "error"
    [] result[c] \in Verdicts -> result[c]
    [] OTHER -> "accept"

\* verdict: an exception or another value closes; a credential's is an error.
Settled(c) ==
  CASE kind[c] = "credential" -> IF result[c] = "bytes" THEN "bytes" ELSE "error"
    [] result[c] \in Verdicts -> result[c]
    [] OTHER -> "close"

Settle(c) ==
  /\ at[c] = "over" /\ outcome[c] = "none" /\ result[c] # "coroutine"
  /\ outcome' = [outcome EXCEPT ![c] = Settled(c)]
  /\ UNCHANGED <<locals, callVars, askVars, coroVars>>

\* The crate drops the decision's future, which cancels the coroutine: one
\* that is no task yet never starts.
GiveUp(c) ==
  /\ kind[c] = "decide" /\ at[c] = "over" /\ outcome[c] = "none"
  /\ outcome' = [outcome EXCEPT ![c] = "dropped"]
  /\ \/ UNCHANGED coro
     \/ coro[c] = "posted" /\ coro' = [coro EXCEPT ![c] = "over"]
  /\ UNCHANGED <<locals, callVars, askVars, coroLoop>>

-----------------------------------------------------------------------------
CoroYields(c) == CoroAwaits(c) \/ \E r \in Verdicts \cup {"raised"} : CoroEnds(c, r)
CallEnds(c) == \E r \in Returns(c) : CallReturns(c, r)

CallSteps(c) ==
  \/ CallEnds(c) \/ CallPanics(c) \/ SendDone(c) \/ Answer(c) \/ Finish(c)
  \/ CoroStarts(c) \/ CoroYields(c) \/ CoroResumes(c) \/ CoroCancelled(c)
  \/ Settle(c) \/ GiveUp(c)
  \/ \E a \in Askers : Export(c, a)

AdmissionNext ==
  \/ \E loop \in Loops \cup {NoLoop} : ForListener(loop)
  \/ \E c \in Carriers, k \in {"decide", "credential"}, e \in BOOLEAN : Start(c, k, e)
  \/ \E c \in Carriers : CallSteps(c)

\* The scoped thread and the one that answers run, and a call returns.  A
\* loop that runs starts what was posted, comes back from every step and
\* delivers a cancellation (its queue is in order, so no coroutine starves
\* another); a peek timeout ends.
AdmissionFairness ==
  \A c \in Carriers :
    /\ WF_admissionVars(CallEnds(c)) /\ WF_admissionVars(SendDone(c) \/ Answer(c) \/ Finish(c))
    /\ SF_admissionVars(CoroStarts(c) \/ CoroCancelled(c)) /\ WF_admissionVars(CoroYields(c))
    /\ WF_admissionVars(Settle(c) \/ GiveUp(c))

AdmissionSpec == AdmissionInit /\ [][AdmissionNext]_admissionVars /\ AdmissionFairness

-----------------------------------------------------------------------------
\* "(for an `async` decide, its first `await`)" (_zmux.pyi, export): on a
\* carrier with an exporter an async decider gets a value before its first
\* await.  The coroutine races the Done of the call that posted it.
AsyncExportAnswered ==
  \A c \in Carriers : exporter[c] /\ coro[c] = "first" => reply[c]["coro"] # "none"

\* The loop a coroutine was posted to is still the one its admission has: the
\* loop is taken once (for which listeners that is theirs, see Serving).
OneLoop == \A c \in Carriers : coroLoop[c] \in {NoLoop, locals}

\* The function a carrier is decided by gets its exporter values: on a
\* carrier with one, no request made before the call returned goes unanswered.
CallExportAnswered ==
  \A c \in Carriers : exporter[c] => reply[c]["call"] # "none"

InChannel(c, x) == \E i \in DOMAIN asks[c] : asks[c][i] = x

\* The channel of a carrier: a request is in it once, exactly while its asker
\* waits, Done only once the call has sent it, and with_info leaves nothing.
ChannelAgrees(c) ==
  /\ \A i, j \in DOMAIN asks[c] : asks[c][i] = asks[c][j] => i = j
  /\ \A a \in Askers : reply[c][a] = "waiting" <=> InChannel(c, a)
  /\ at[c] \in {"idle", "over"} \/ ~exporter[c] => asks[c] = <<>>
  /\ InChannel(c, Done) => at[c] = "done"

\* A call that is over waits for nothing, and got its exporter values; only one
\* with an exporter has a Done to send.
CallAgrees(c) ==
  /\ at[c] # "calling" => reply[c]["call"] # "waiting"
  /\ at[c] = "idle" => reply[c]["call"] = "idle"
  /\ at[c] = "returned" => exporter[c]
  /\ exporter[c] => reply[c]["call"] # "none"

\* There is no coroutine before the call returned, no result while it goes on,
\* and a carrier is let in only for the result it has.
DecisionAgrees(c) ==
  /\ at[c] \in {"idle", "calling"} => coro[c] = "none"
  /\ coro[c] \notin {"none", "over"} => result[c] = "coroutine"
  /\ outcome[c] # "none" => at[c] = "over"
  /\ outcome[c] = "accept" => result[c] = "accept"

\* What an admission keeps at every step, whoever drives it.
AdmissionInv ==
  /\ AdmissionTypeOK /\ OneLoop
  /\ \A c \in Carriers : ChannelAgrees(c) /\ CallAgrees(c) /\ DecisionAgrees(c)

\* No asker waits for ever, whoever it is and whenever it asks: what the
\* answering thread did not take is dropped with its channel.
ExportEnds ==
  \A c \in Carriers :
    (\E a \in Askers : reply[c][a] = "waiting") ~> (\A a \in Askers : reply[c][a] # "waiting")

\* Every decision ends, with a verdict or given up, and one given up cancels
\* its coroutine; but a panic while the view is kept holds the thread.
DecisionEnds ==
  \A c \in Carriers :
    (at[c] # "idle")
      ~> \/ at[c] = "stuck"
         \/ outcome[c] # "none" /\ coro[c] \in {"none", "over"}

=============================================================================
