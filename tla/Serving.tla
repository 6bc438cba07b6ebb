------------------------------- MODULE Serving -------------------------------
(***************************************************************************)
(* A Listener of src/src/lib.rs with what it runs for a carrier: the       *)
(* serve_* calls that bind and leave an accept loop behind, the admission  *)
(* (module Admission, shared by the listeners), the inbound transform of   *)
(* src/src/layer.rs, and the calls that wait for sessions or end the       *)
(* listener.                                                               *)
(*                                                                         *)
(* The transform gets the carrier in a PipeIo; Python may keep that object *)
(* and use it up at any time, from its coroutine or another thread.        *)
(*                                                                         *)
(* External: the crate's listener.  It brings carriers from accept loops   *)
(* that run and from handle_pipe, decides and transforms each, may close   *)
(* one at any time, gives decisions and transforms up when a timeout ends  *)
(* or it closes, and gives accept() nothing once closed.                   *)
(***************************************************************************)
EXTENDS Admission

CONSTANTS
  Listeners,  \* the listeners made with the admission
  Serves      \* the calls of serve_*

ASSUME ListenersAssumption == "none" \notin Listeners

VARIABLES
  lst,      \* the listeners; "lapsed": closed by a cancelled shutdown()
  opts,     \* whether a listener has the admission and a transform
  made,     \* history: the loop a listener was made in, and its admission's then
  shut,     \* a call of shutdown()
  serve,    \* the calls of serve_* and the loops they leave
  serveOf,  \* their listener
  tasks,    \* the loops registered in Listener.tasks
  late,     \* history: calls under way when their listener closed, or made later
  entry,    \* a carrier's listener
  conn,     \* who has the carrier
  trans,    \* where its transform is
  ret,      \* what the transform's function or coroutine gave
  tcoro     \* the transform's coroutine

lstVars == <<lst, opts, made, shut>>
serveVars == <<serve, serveOf, tasks, late>>
carrierVars == <<entry, conn, trans, ret, tcoro>>
vars == <<admissionVars, lstVars, serveVars, carrierVars>>

None == "none"
Open == {"made", "closing"}
Answers == {"given", "made", "foreign", "bad"}

TypeOK ==
  /\ AdmissionTypeOK
  /\ lst \in [Listeners -> Open \cup {None, "refused", "lapsed", "closed"}]
  /\ opts \in [Listeners -> [admission : BOOLEAN, transform : BOOLEAN]]
  /\ made \in [Listeners -> [loop : Loops \cup {NoLoop}, had : Loops \cup {NoLoop}]]
  /\ shut \in [Listeners -> {"idle", "waiting", "over"}]
  /\ serve \in [Serves -> {"idle", "binding", "spawned", "running", "aborted", "ended"}]
  /\ serveOf \in [Serves -> Listeners \cup {None}]
  /\ tasks \subseteq Serves /\ late \subseteq Serves
  /\ entry \in [Carriers -> Listeners \cup {None}]
  /\ conn \in [Carriers -> {None, "app", "crate", "given", "python", "listener", "session", "closed"}]
  /\ trans \in [Carriers -> {None, "returned", "pending", "resolved", "ok", "failed", "dropped"}]
  /\ ret \in [Carriers -> Answers \cup {None}]
  /\ tcoro \in [Carriers -> {None, "runs", "cancelled", "over"}]

Init ==
  /\ AdmissionInit
  /\ lst = [l \in Listeners |-> None]
  /\ opts = [l \in Listeners |-> [admission |-> FALSE, transform |-> FALSE]]
  /\ made = [l \in Listeners |-> [loop |-> NoLoop, had |-> NoLoop]]
  /\ shut = [l \in Listeners |-> "idle"]
  /\ serve = [s \in Serves |-> "idle"] /\ serveOf = [s \in Serves |-> None]
  /\ tasks = {} /\ late = {}
  /\ entry = [c \in Carriers |-> None]
  /\ conn \in [Carriers -> {None, "app"}]
  /\ trans = [c \in Carriers |-> None] /\ ret = [c \in Carriers |-> None]
  /\ tcoro = [c \in Carriers |-> None]

-----------------------------------------------------------------------------
(***************************************************************************)
(* Making a listener, and the calls that end it.                           *)
(***************************************************************************)

\* Listener(...): a bad argument ends it first; then the admission takes the
\* running loop, a transform without one is refused, and a bad configuration
\* is found last.
NewListener(l, loop, o, badArgument, badConfig) ==
  /\ lst[l] = None
  /\ IF o.admission /\ ~badArgument THEN ForListener(loop) ELSE UNCHANGED admissionVars
  /\ lst' = [lst EXCEPT ![l] =
               IF badArgument \/ badConfig \/ (o.transform /\ loop = NoLoop)
               THEN "refused" ELSE "made"]
  /\ opts' = [opts EXCEPT ![l] = o]
  /\ made' = IF o.admission /\ ~badArgument
             THEN [made EXCEPT ![l] = [loop |-> loop, had |-> locals]] ELSE made
  /\ UNCHANGED <<shut, serveVars, carrierVars>>

\* Another listener of the process is made with the admission.
OtherListener(loop) == ForListener(loop) /\ UNCHANGED <<lstVars, serveVars, carrierVars>>

\* The calls of serve_* of a listener that have no loop registered yet.
Unregistered(l) == {s \in Serves : serveOf[s] = l /\ serve[s] \in {"binding", "spawned"}}

Registered(l) == {s \in tasks : serveOf[s] = l}

\* Mutant of AbortLoops: the loops are forgotten.
AbortLoopsForgotten(l) ==
  /\ tasks' = tasks \ Registered(l) /\ UNCHANGED serve
  /\ late' = late \cup Unregistered(l)
  /\ UNCHANGED serveOf

\* Every registered loop is taken from the list and aborted.
AbortLoops(l) ==
  /\ tasks' = tasks \ Registered(l)
  /\ serve' = [s \in Serves |->
                 IF s \in Registered(l) /\ serve[s] = "running" THEN "aborted" ELSE serve[s]]
  /\ late' = late \cup Unregistered(l)
  /\ UNCHANGED serveOf

\* close(), leaving `async with`, or dropping the listener.
Close(l) ==
  /\ lst[l] \in Open \cup {"lapsed", "closed"}
  /\ lst' = [lst EXCEPT ![l] = "closed"] /\ AbortLoops(l)
  /\ UNCHANGED <<admissionVars, opts, made, shut, carrierVars>>

\* shutdown(): the crate takes no new sessions from now on.
Shutdown(l) ==
  /\ lst[l] \in Open /\ shut[l] = "idle"
  /\ lst' = [lst EXCEPT ![l] = "closing"] /\ shut' = [shut EXCEPT ![l] = "waiting"]
  /\ UNCHANGED <<admissionVars, opts, made, serveVars, carrierVars>>

\* The sessions ended, or the listener was closed meanwhile.
ShutdownEnds(l) ==
  /\ shut[l] = "waiting" /\ shut' = [shut EXCEPT ![l] = "over"]
  /\ lst' = [lst EXCEPT ![l] = "closed"] /\ AbortLoops(l)
  /\ UNCHANGED <<admissionVars, opts, made, carrierVars>>

\* Its future is dropped: the crate closes at once, and the loops stay.
ShutdownCancelled(l) ==
  /\ shut[l] = "waiting" /\ shut' = [shut EXCEPT ![l] = "over"]
  /\ lst' = [lst EXCEPT ![l] = IF @ = "closed" THEN @ ELSE "lapsed"]
  /\ UNCHANGED <<admissionVars, opts, made, serveVars, carrierVars>>

\* accept() and __anext__ give an established session, and end once the
\* listener is closed.
Accept(l, c) ==
  /\ entry[c] = l /\ conn[c] = "listener"
  /\ conn' = [conn EXCEPT ![c] = IF lst[l] \in Open THEN "session" ELSE "closed"]
  /\ UNCHANGED <<admissionVars, lstVars, serveVars, entry, trans, ret, tcoro>>

-----------------------------------------------------------------------------
(***************************************************************************)
(* serve_*: the arguments are checked, then the address is bound and the   *)
(* loop spawned and registered.                                            *)
(***************************************************************************)

Serve(s, l, zeroRtt) ==
  /\ lst[l] \in Open \cup {"lapsed", "closed"} /\ serve[s] = "idle"
  /\ ~(zeroRtt /\ opts[l].admission)
  /\ serve' = [serve EXCEPT ![s] = "binding"] /\ serveOf' = [serveOf EXCEPT ![s] = l]
  /\ late' = IF lst[l] = "closed" THEN late \cup {s} ELSE late
  /\ UNCHANGED <<admissionVars, lstVars, tasks, carrierVars>>

ServeMoves(s, from, to) ==
  /\ serve[s] \in from /\ serve' = [serve EXCEPT ![s] = to]
  /\ UNCHANGED <<admissionVars, lstVars, serveOf, late, carrierVars>>

\* The bind fails, or the call is cancelled.
BindFails(s) == ServeMoves(s, {"binding"}, "ended") /\ UNCHANGED tasks

Bound(s) == ServeMoves(s, {"binding"}, "spawned") /\ UNCHANGED tasks

\* The handle joins the list: close() may have emptied it since the spawn.
Register(s) == ServeMoves(s, {"spawned"}, "running") /\ tasks' = tasks \cup {s}

\* An accept loop ends at an await once aborted, or by itself.
LoopEnds(s) == ServeMoves(s, {"aborted", "running"}, "ended") /\ UNCHANGED tasks

-----------------------------------------------------------------------------
(***************************************************************************)
(* A carrier comes in and is admitted.                                     *)
(***************************************************************************)

CarrierMoves(c, to) ==
  /\ conn' = [conn EXCEPT ![c] = to]
  /\ UNCHANGED <<lstVars, serveVars, trans, ret, tcoro>>

Arrive(c, s) ==
  /\ conn[c] = None /\ serve[s] \in {"spawned", "running"} /\ lst[serveOf[s]] \in Open
  /\ entry' = [entry EXCEPT ![c] = serveOf[s]]
  /\ CarrierMoves(c, "crate") /\ UNCHANGED admissionVars

\* handle_pipe: bad addresses are refused before the carrier is taken.
HandlePipe(c, l, badAddress) ==
  /\ conn[c] = "app" /\ kind[c] = None /\ ~badAddress
  /\ lst[l] \in Open \cup {"lapsed", "closed"}
  /\ entry' = [entry EXCEPT ![c] = l]
  /\ CarrierMoves(c, "crate") /\ UNCHANGED admissionVars

Decide(c, e) ==
  /\ conn[c] = "crate" /\ lst[entry[c]] \in Open /\ opts[entry[c]].admission
  /\ Start(c, "decide", e)
  /\ UNCHANGED <<lstVars, serveVars, carrierVars>>

\* A client of the process asks its credential for a carrier it dials.
Credential(c, e) ==
  /\ conn[c] = "app" /\ Start(c, "credential", e)
  /\ UNCHANGED <<lstVars, serveVars, carrierVars>>

Admitted(c) == opts[entry[c]].admission => outcome[c] = "accept"

\* The crate gives the carrier up, not in the middle of a decision's call.
CarrierCloses(c) ==
  /\ conn[c] = "crate" /\ (outcome[c] # None \/ at[c] = "idle")
  /\ CarrierMoves(c, "closed") /\ UNCHANGED <<admissionVars, entry>>

Deliver(c) ==
  /\ conn[c] = "crate" /\ lst[entry[c]] \in Open
  /\ Admitted(c) /\ ~opts[entry[c]].transform
  /\ CarrierMoves(c, "listener") /\ UNCHANGED <<admissionVars, entry>>

-----------------------------------------------------------------------------
(***************************************************************************)
(* The inbound transform: layer::transform and call.                       *)
(***************************************************************************)

\* The Python function gets the carrier and returns an answer, or something
\* to await.
TransformCall(c, answer) ==
  /\ conn[c] = "crate" /\ lst[entry[c]] \in Open
  /\ Admitted(c) /\ opts[entry[c]].transform
  /\ conn' = [conn EXCEPT ![c] = "given"]
  /\ IF answer = "await"
     THEN /\ trans' = [trans EXCEPT ![c] = "pending"] /\ tcoro' = [tcoro EXCEPT ![c] = "runs"]
          /\ UNCHANGED ret
     ELSE /\ trans' = [trans EXCEPT ![c] = "returned"] /\ ret' = [ret EXCEPT ![c] = answer]
          /\ UNCHANGED tcoro
  /\ UNCHANGED <<admissionVars, lstVars, serveVars, entry>>

\* Python uses the object up, for another PipeIo or a stream: one that was
\* emptied raises.
PythonUses(c) ==
  /\ conn[c] = "given" /\ CarrierMoves(c, "python") /\ UNCHANGED <<admissionVars, entry>>

\* What Python made of the carrier is closed.
PythonCloses(c) ==
  /\ conn[c] = "python" /\ CarrierMoves(c, "closed") /\ UNCHANGED <<admissionVars, entry>>

TransformResolves(c, answer) ==
  /\ tcoro[c] \in {"runs", "cancelled"} /\ tcoro' = [tcoro EXCEPT ![c] = "over"]
  /\ IF trans[c] = "pending"
     THEN trans' = [trans EXCEPT ![c] = "resolved"] /\ ret' = [ret EXCEPT ![c] = answer]
     ELSE UNCHANGED <<trans, ret>>
  /\ UNCHANGED <<admissionVars, lstVars, serveVars, entry, conn>>

\* Mutant of Release: nothing is dropped while Python holds the object.
ReleaseNothing(c) == conn[c]

\* The guard of call: what the given object still holds is dropped.
Release(c) == IF conn[c] = "given" THEN "closed" ELSE conn[c]

\* The object answered is taken: the given one or one made of it gives the
\* carrier, if it was not used up; anything else fails or is another carrier.
TransformTakes(c) ==
  LET holder == IF ret[c] = "given" THEN "given" ELSE "python"
      takes == ret[c] \in {"given", "made"} /\ conn[c] = holder
  IN /\ trans[c] \in {"returned", "resolved"}
     /\ trans' = [trans EXCEPT ![c] = IF takes \/ ret[c] = "foreign" THEN "ok" ELSE "failed"]
     /\ conn' = [conn EXCEPT ![c] = IF takes THEN "listener" ELSE Release(c)]
     /\ UNCHANGED <<admissionVars, lstVars, serveVars, entry, ret, tcoro>>

\* Mutant of TransformDropped: the coroutine goes on.
TransformDroppedAlone(c) ==
  /\ trans[c] \in {"pending", "resolved"} /\ trans' = [trans EXCEPT ![c] = "dropped"]
  /\ conn' = [conn EXCEPT ![c] = Release(c)]
  /\ UNCHANGED <<admissionVars, lstVars, serveVars, entry, ret, tcoro>>

\* The crate drops a transform that waits: the handshake timeout, or the end
\* of the listener.  The future's drop cancels the coroutine.
TransformDropped(c) ==
  /\ trans[c] \in {"pending", "resolved"} /\ trans' = [trans EXCEPT ![c] = "dropped"]
  /\ conn' = [conn EXCEPT ![c] = Release(c)]
  /\ tcoro' = [tcoro EXCEPT ![c] = IF @ = "runs" THEN "cancelled" ELSE @]
  /\ UNCHANGED <<admissionVars, lstVars, serveVars, entry, ret>>

-----------------------------------------------------------------------------
AdmissionStep(c) == CallSteps(c) /\ UNCHANGED <<lstVars, serveVars, carrierVars>>

ListenerStep(l) ==
  \/ \E loop \in Loops \cup {NoLoop}, o \in [admission : BOOLEAN, transform : BOOLEAN],
        badArgument, badConfig \in BOOLEAN : NewListener(l, loop, o, badArgument, badConfig)
  \/ Close(l) \/ Shutdown(l) \/ ShutdownEnds(l) \/ ShutdownCancelled(l)
  \/ \E c \in Carriers : Accept(l, c)

ServeStep(s) ==
  \/ \E l \in Listeners, zeroRtt \in BOOLEAN : Serve(s, l, zeroRtt)
  \/ BindFails(s) \/ Bound(s) \/ Register(s) \/ LoopEnds(s)

CarrierStep(c) ==
  \/ \E s \in Serves : Arrive(c, s)
  \/ \E l \in Listeners, badAddress \in BOOLEAN : HandlePipe(c, l, badAddress)
  \/ \E e \in BOOLEAN : Decide(c, e) \/ Credential(c, e)
  \/ CarrierCloses(c) \/ Deliver(c)
  \/ \E answer \in Answers \cup {"await"} : TransformCall(c, answer)
  \/ PythonUses(c) \/ PythonCloses(c)
  \/ \E answer \in Answers : TransformResolves(c, answer)
  \/ TransformTakes(c) \/ TransformDropped(c)

Next ==
  \/ \E l \in Listeners : ListenerStep(l)
  \/ \E loop \in Loops : OtherListener(loop)
  \/ \E s \in Serves : ServeStep(s)
  \/ \E c \in Carriers : AdmissionStep(c) \/ CarrierStep(c)

-----------------------------------------------------------------------------
\* Beside the fairness of Admission: the crate ends what waits for a listener
\* that closed, and a transform when its time is over; a cancelled coroutine
\* ends; a bind ends, and an aborted loop is at an await at last.
Fairness ==
  /\ \A c \in Carriers :
       /\ WF_vars(CallEnds(c) /\ UNCHANGED <<lstVars, serveVars, carrierVars>>)
       /\ WF_vars((SendDone(c) \/ Answer(c) \/ Finish(c)) /\ UNCHANGED <<lstVars, serveVars, carrierVars>>)
       /\ SF_vars((CoroStarts(c) \/ CoroCancelled(c)) /\ UNCHANGED <<lstVars, serveVars, carrierVars>>)
       /\ WF_vars(CoroYields(c) /\ UNCHANGED <<lstVars, serveVars, carrierVars>>)
       /\ WF_vars((Settle(c) \/ GiveUp(c)) /\ UNCHANGED <<lstVars, serveVars, carrierVars>>)
       /\ WF_vars(TransformTakes(c) \/ TransformDropped(c))
       /\ WF_vars(tcoro[c] = "cancelled" /\ TransformResolves(c, "bad"))
       /\ WF_vars(CarrierCloses(c))

Spec == Init /\ [][Next]_vars /\ Fairness

-----------------------------------------------------------------------------
\* With an admission a carrier gets past the crate, to the transform or the
\* sessions, only if its decider said accept: not for an exception, a value
\* that is no verdict, a panic or a decision given up.
OnlyAdmitted ==
  \A c \in Carriers :
    /\ conn[c] \in {"given", "python", "listener", "session"}
    /\ opts[entry[c]].admission
    => result[c] = "accept" /\ outcome[c] = "accept"

\* A carrier that came in has a listener that was made, and one whose transform
\* is under way is its object's or Python's.
CarriersAgree ==
  \A c \in Carriers :
    /\ conn[c] \in {"crate", "given", "python", "listener", "session"}
       => entry[c] \in Listeners /\ lst[entry[c]] # None
    /\ conn[c] \in {None, "app", "crate"} => trans[c] = None
    /\ trans[c] \in {"returned", "pending", "resolved"} => conn[c] \in {"given", "python", "closed"}

\* A call of serve_* has a listener, a loop that runs is in the list, and one
\* that is not yet in it when the listener closes is late.
LoopsAgree ==
  \A s \in Serves :
    /\ serve[s] # "idle" => serveOf[s] \in Listeners /\ lst[serveOf[s]] # None
    /\ serve[s] = "running" => s \in tasks
    /\ serve[s] \in {"binding", "spawned"} /\ lst[serveOf[s]] = "closed" => s \in late

\* A listener whose admission had no loop when it was made, or already the
\* listener's own.
AtHome(l) == made[l].loop # NoLoop /\ made[l].had \in {NoLoop, made[l].loop}

\* The admission of such a listener has the listener's loop from then on.
HomeAgrees == \A l \in Listeners : AtHome(l) => locals = made[l].loop

\* The listener, its carriers and its admission agree, and only admitted
\* carriers get past it.
ServingInv ==
  TypeOK /\ AdmissionInv /\ OnlyAdmitted /\ CarriersAgree /\ LoopsAgree /\ HomeAgrees

\* "an `async` one runs on the event loop the `Listener` was made in"
\* (_zmux.pyi): so it does for the listener that gave the admission its loop,
\* or found its own there, whichever listeners other loops make since with the
\* same admission (PyDecide.locals, for_listener).
DecidesAtHome ==
  \A c \in Carriers, l \in Listeners :
    entry[c] = l /\ coroLoop[c] # NoLoop /\ AtHome(l) => coroLoop[c] = made[l].loop

\* What that line says of every listener.  One made with an admission that has
\* another loop's, from an earlier listener or from its own creation, decides
\* over there.
DecidesOnListenerLoop ==
  \A c \in Carriers, l \in Listeners :
    entry[c] = l /\ coroLoop[c] # NoLoop => coroLoop[c] = made[l].loop

\* "The carrier closes with a failure even while Python still holds the
\* object" (layer.rs): once a transform is over, however it ended, the object
\* it was given is empty, and a failed carrier is closed unless Python used
\* it up first.
TransformReleases ==
  \A c \in Carriers :
    /\ trans[c] \in {"ok", "failed", "dropped"} => conn[c] # "given"
    /\ trans[c] \in {"failed", "dropped"} => conn[c] \in {"python", "closed"}

\* close(): "the `serve_*` loops end" (_zmux.pyi).  An accept loop runs on for
\* a closed listener only when its serve_* call was still binding at the
\* close, or came later: its handle joins a list nobody empties any more.
CloseEndsLoops ==
  \A s \in Serves :
    serve[s] = "running" /\ lst[serveOf[s]] = "closed" => s \in late

\* The whole of that line: no accept loop runs on for a closed listener.
CloseEndsEveryLoop ==
  \A s \in Serves : serve[s] = "running" => lst[serveOf[s]] # "closed"

\* Once a listener is closed, by close(), shutdown() or a shutdown() that was
\* cancelled, nothing of Python's runs on for its carriers: the coroutines of
\* its decider and of its transform end, cancelled if they have to be.
CloseEndsCoroutines ==
  \A c \in Carriers :
    (entry[c] # None /\ lst[entry[c]] \in {"lapsed", "closed"})
      ~> (coro[c] \in {None, "over"} /\ tcoro[c] \in {None, "over"})

=============================================================================
