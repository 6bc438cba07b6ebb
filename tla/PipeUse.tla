------------------------------- MODULE PipeUse -------------------------------
(***************************************************************************)
(* Carrier connections in Python's hands (src/src/lib.rs): dialed, kept in *)
(* a PipeIo that one call may use up, given a layer or used as a stream,   *)
(* and given to a session as its first pipe, a further one, one of a       *)
(* reservation or a member of a pool (src/src/pool.rs).                    *)
(*                                                                         *)
(* Any thread calls any method at any time: the module does not need the   *)
(* interpreter lock.  A method that takes two locks one after the other is *)
(* two steps; a method that returns a future is its call and the future's  *)
(* end, and a future that fails or is cancelled drops what it holds        *)
(* (module FutureBridge), but for a wrap() whose layer runs.  The          *)
(* connection of a layered carrier stands for the layer's channel too: the *)
(* end of one reaches the other (modules LayerChannel, CarrierTransport).  *)
(* One session is modelled.                                                *)
(*                                                                         *)
(* External: the crate's session.  It joins at most MaxPipes pipes, drops  *)
(* the carriers it refuses and those of pipes that end, and ends what      *)
(* waits on it once it has ended; and its maintainer of a pool, which asks *)
(* the pool's policy and dials when it likes, and stops with its handle or *)
(* the session.                                                            *)
(***************************************************************************)
EXTENDS Settings, FiniteSets

CONSTANTS
  Conns,     \* the connections open at once
  Objs,      \* the PipeIo objects alive at once
  Calls,     \* the futures in flight at once
  Reserved,  \* the PipeReservations
  MaxPipes,  \* Config.max_pipes, as both ends agreed
  Dials,     \* the dials an application makes: kinds and arguments
  Modes,     \* the modes it makes: candidates and a policy
  Pools,     \* the pools it makes
  Decisions, \* what a pool's policy decides
  Choices,   \* the PipeOptions it gives
  Keywords,  \* the keywords it gives Pipe.update
  Configs    \* the fields of the configurations it makes

ASSUME MaxPipesAssumption == MaxPipes \in Nat \ {0}

\* Python gives its arguments as PipeOptions objects, whatever they hold; a
\* policy decides numbers.
ASSUME ArgumentsAssumption ==
  /\ Choices \subseteq PyOptions
  /\ \A d \in Decisions : d.probe_interval \in Maybe(Int) /\ d.probe_jitter \in Maybe(Int)
  /\ \A x \in Pools : x.mode \in BOOLEAN /\ x.join \in BOOLEAN /\ x.options \in Maybe(PyOptions)

\* None and "used" are no connection, object, reservation or options.
ASSUME NamesAssumption ==
  /\ None \notin Conns \cup Objs \cup Reserved \cup {"used"}
  /\ "used" \notin Conns
  /\ None \notin PipeOptions

VARIABLES
  open,     \* the connections that are open
  held,     \* what a PipeIo holds
  streams,  \* the carriers used as a CarrierStream
  call,     \* the futures in flight
  sess,     \* the session
  pipe,     \* the options of its pipes, by carrier
  res,      \* the reservations: PipeReservation's own slot, and their options
  pool,     \* the maintainer of a pool
  pdial,    \* its dial: the coroutine of dial() or join()
  pret,     \* what dial() returned
  member,   \* history: the pool's pipes whose options nobody changed
  decided   \* history: the probe settings the policy has had in force

sessVars == <<sess, pipe, res, member>>
poolVars == <<pool, pdial, pret, decided>>
vars == <<open, held, streams, call, sessVars, poolVars>>

Used == "used"
Idle == [op |-> "idle", conns |-> {}, res |-> None, options |-> DefaultOptions, able |-> TRUE]
Ops == {"idle", "dial", "nested", "wrap", "start", "attach", "join", "wait"}

\* given: the options handed to the dial() or join() under way.
NoPool == [at |-> "none", by |-> "dial", options |-> DefaultOptions, policy |-> FALSE,
           probes |-> NoProbes, given |-> DefaultOptions]

TypeOK ==
  /\ open \subseteq Conns
  /\ held \in [Objs -> Conns \cup {None, Used}]
  /\ streams \subseteq Conns
  /\ call \in [Calls -> [op : Ops, conns : SUBSET Conns, res : Maybe(Reserved),
                         options : PipeOptions, able : BOOLEAN]]
  /\ sess \in {"none", "open", "ended"}
  /\ pipe \in [Conns -> Maybe(PipeOptions)]
  /\ res \in [Reserved -> [at : {"none", "held", "used"}, options : PipeOptions]]
  /\ pool \in [at : {"none", "runs", "over"}, by : {"dial", "join", "mode"},
              options : PipeOptions, policy : BOOLEAN, probes : Probes, given : PipeOptions]
  /\ pdial \in {"idle", "runs", "returned", "cancelled"}
  /\ pret \in Objs \cup {None}
  /\ member \subseteq Conns
  /\ decided \subseteq Probes

Init ==
  /\ open = {}
  /\ held = [o \in Objs |-> None]
  /\ streams = {}
  /\ call = [a \in Calls |-> Idle]
  /\ sess = "none" /\ pipe = [k \in Conns |-> None]
  /\ res = [r \in Reserved |-> [at |-> "none", options |-> DefaultOptions]]
  /\ pool = NoPool /\ pdial = "idle" /\ pret = None
  /\ member = {} /\ decided = {NoProbes}

Pipes == {k \in Conns : pipe[k] # None}
Opened(k) == k \notin open /\ open' = open \cup {k}
Close(K) == open' = open \ K
Begins(a, x) == call[a] = Idle /\ call' = [call EXCEPT ![a] = x]
Returns(a) == call' = [call EXCEPT ![a] = Idle]

\* Whether the session takes one more pipe.
Joins == sess = "open" /\ Cardinality(Pipes) < MaxPipes

-----------------------------------------------------------------------------
(***************************************************************************)
(* Connections and the objects that hold them.                             *)
(***************************************************************************)

\* Mutant of take: the connection stays.
takeShared(o) == held[o] \in Conns /\ UNCHANGED held

\* PipeIo::take: what the object holds, once.
take(o) == held[o] \in Conns /\ held' = [held EXCEPT ![o] = Used]

\* An object of its own for a connection.
wrap(o, k) == held[o] = None /\ held' = [held EXCEPT ![o] = k]

\* pipe_pair(): a connection in memory.
pipe_pair(o, k) ==
  /\ Opened(k)
  /\ wrap(o, k)
  /\ UNCHANGED <<streams, call, sessVars, poolVars>>

\* dial_*, Http2Connection.open_*, QuicClient.dial: arguments that are refused
\* start nothing.  A bound token needs the carrier's exporter when the
\* connection is up.
Dial(a, d) ==
  /\ DialAccepted(d.kind, d)
  /\ Begins(a, [Idle EXCEPT !.op = "dial",
                            !.able = d.credential # "bound" \/ Exports(d.kind, d)])
  /\ UNCHANGED <<open, held, streams, sessVars, poolVars>>

\* Session.open_pipe_stream: a stream of the session as a carrier.
open_pipe_stream(a) ==
  /\ sess # "none" /\ Begins(a, [Idle EXCEPT !.op = "nested"])
  /\ UNCHANGED <<open, held, streams, sessVars, poolVars>>

\* join_http_split, Http2Connection.join_split: two carriers of a session.
join_split(a, p) ==
  /\ sess # "none" /\ OptionsAccepted(p)
  /\ Begins(a, [Idle EXCEPT !.op = "join", !.options = pipe_options(p)])
  /\ UNCHANGED <<open, held, streams, sessVars, poolVars>>

\* The future has a connection.
Connected(a, k) ==
  /\ Opened(k)
  /\ \/ call[a].op \in {"dial", "nested", "start"} /\ call[a].conns = {}
     \/ call[a].op = "join" /\ Cardinality(call[a].conns) < 2
  /\ call[a].op \in {"nested", "join"} => sess = "open"
  /\ call' = [call EXCEPT ![a].conns = @ \cup {k}]
  /\ UNCHANGED <<held, streams, sessVars, poolVars>>

\* The future gives Python its connection in a new PipeIo.
Dialed(a, o, k) ==
  /\ call[a].op \in {"dial", "nested", "wrap"} /\ call[a].conns = {k} /\ call[a].able
  /\ wrap(o, k) /\ Returns(a)
  /\ UNCHANGED <<open, streams, sessVars, poolVars>>

\* A future fails, or it is cancelled and dropped with the connections it has;
\* wrap() releases its carrier when the layer fails.
Fails(a) ==
  /\ call[a].op \notin {"idle", "attach"}
  /\ Close(call[a].conns) /\ Returns(a)
  /\ UNCHANGED <<held, streams, sessVars, poolVars>>

\* wrap() is cancelled once its layer runs: nothing releases the carrier, which
\* stays with the layer's transport and its loops in Python.
WrapCancelled(a) ==
  /\ call[a].op = "wrap" /\ Returns(a)
  /\ streams' = streams \cup call[a].conns
  /\ UNCHANGED <<open, held, sessVars, poolVars>>

\* with_carrier, with_unsent and with_write_overhead with good arguments: a new
\* object, and this one is used up.
With(o, new) ==
  /\ held[o] \in Conns /\ held[new] = None
  /\ held' = [held EXCEPT ![o] = Used, ![new] = held[o]]
  /\ UNCHANGED <<open, streams, call, sessVars, poolVars>>

\* PipeIo.into_stream, and the end of a CarrierStream.
into_stream(o) ==
  /\ take(o) /\ streams' = streams \cup {held[o]}
  /\ UNCHANGED <<open, call, sessVars, poolVars>>

StreamEnds(k) ==
  /\ k \in streams /\ streams' = streams \ {k} /\ Close({k})
  /\ UNCHANGED <<held, call, sessVars, poolVars>>

\* PipeIo.wrap on a running loop.
wrap_layer(a, o) ==
  /\ take(o) /\ Begins(a, [Idle EXCEPT !.op = "wrap", !.conns = {held[o]}])
  /\ UNCHANGED <<open, streams, sessVars, poolVars>>

\* Python drops an object, with the connection if it still has it.
Collected(o) ==
  /\ held[o] # None /\ pret # o
  /\ Close({held[o]}) /\ held' = [held EXCEPT ![o] = None]
  /\ UNCHANGED <<streams, call, sessVars, poolVars>>

-----------------------------------------------------------------------------
(***************************************************************************)
(* The session and its pipes.                                              *)
(***************************************************************************)

\* One session is made at a time.
NoSession == sess = "none" /\ \A b \in Calls : call[b].op # "start"

\* start(), of connect, accept and peer: the pipe is taken, then the
\* configuration is read; it is a Config made of accepted fields, or another
\* object, which is refused with the pipe.
Start(a, o, fields, isConfig) ==
  /\ NoSession
  /\ ConfigAccepted(fields) /\ take(o)
  /\ Begins(a, [Idle EXCEPT !.op = "start", !.conns = {held[o]}, !.able = isConfig])
  /\ UNCHANGED <<open, streams, sessVars, poolVars>>

\* dial_mode of a Mode over candidates: the session with the first carrier.
dial_mode(a, m) ==
  /\ NoSession
  /\ auto(m.candidates) /\ \A d \in m.candidates : CandidateAccepted(d.kind, d)
  /\ ModePolicyAccepted(m.factor, m.times)
  /\ Begins(a, [Idle EXCEPT !.op = "start",
                            !.able = \E d \in m.candidates :
                                       \/ d.kind = "exchange" \/ d.credential # "bound"
                                       \/ Exports(d.kind, d)])
  /\ UNCHANGED <<open, held, streams, sessVars, poolVars>>

Started(a, k) ==
  /\ call[a].op = "start" /\ call[a].conns = {k} /\ call[a].able
  /\ sess' = "open" /\ pipe' = [pipe EXCEPT ![k] = DefaultOptions]
  /\ Returns(a)
  /\ UNCHANGED <<open, held, streams, res, member, poolVars>>

\* A carrier given to the session: a pipe, or it is refused and dropped.
Give(k, o, kept) ==
  IF Joins THEN /\ pipe' = [pipe EXCEPT ![k] = o]
                /\ member' = IF kept THEN member \cup {k} ELSE member
                /\ UNCHANGED open
  ELSE Close({k}) /\ UNCHANGED <<pipe, member>>

\* Mutant of add_pipe: the carrier is taken before the options are read.
add_pipeTaking(o, p, kept) ==
  /\ sess # "none" /\ take(o)
  /\ IF OptionsAccepted(p) THEN Give(held[o], pipe_options(p), kept)
     ELSE Close({held[o]}) /\ UNCHANGED <<pipe, member>>
  /\ UNCHANGED <<streams, call, sess, res, poolVars>>

\* Session.add_pipe: bad options leave the carrier where it is.
add_pipe(o, p, kept) ==
  /\ sess # "none" /\ OptionsAccepted(p) /\ take(o)
  /\ Give(held[o], pipe_options(p), kept)
  /\ UNCHANGED <<streams, call, sess, res, poolVars>>

\* Both joins of a split carrier are confirmed.
SplitJoined(a) ==
  /\ call[a].op = "join" /\ Cardinality(call[a].conns) = 2
  /\ sess = "open" /\ Cardinality(Pipes) + 2 <= MaxPipes
  /\ pipe' = [k \in Conns |-> IF k \in call[a].conns THEN call[a].options ELSE pipe[k]]
  /\ Returns(a)
  /\ UNCHANGED <<open, held, streams, sess, res, member, poolVars>>

\* Session.reserve_pipe: the reservation has the options of its pipe.
reserve_pipe(r, p) ==
  /\ sess = "open" /\ OptionsAccepted(p)
  /\ res[r].at = "none"
  /\ res' = [res EXCEPT ![r] = [at |-> "held", options |-> pipe_options(p)]]
  /\ UNCHANGED <<open, held, streams, call, sess, pipe, member, poolVars>>

\* PipeReservation::take, and the crate gets the reservation back.
TakeReservation(r) == res[r].at = "held" /\ res' = [res EXCEPT ![r].at = "used"]

\* PipeReservation.attach takes the pipe, then the reservation.
attach(a, o, r) ==
  /\ res[r].at # "none" /\ take(o)
  /\ Begins(a, [Idle EXCEPT !.op = "attach", !.conns = {held[o]}, !.res = r])
  /\ UNCHANGED <<open, streams, sessVars, poolVars>>

Attaches(a, k) ==
  /\ call[a].op = "attach" /\ call[a].conns = {k} /\ Returns(a)
  /\ TakeReservation(call[a].res) /\ Give(k, res[call[a].res].options, FALSE)
  /\ UNCHANGED <<held, streams, sess, poolVars>>

AttachRefused(a) ==
  /\ call[a].op = "attach" /\ res[call[a].res].at = "used"
  /\ Close(call[a].conns) /\ Returns(a)
  /\ UNCHANGED <<held, streams, sessVars, poolVars>>

cancel(r) ==
  /\ TakeReservation(r)
  /\ UNCHANGED <<open, held, streams, call, sess, pipe, member, poolVars>>

\* Pipe.update: every keyword is read before any is applied.
update(k, kw) ==
  /\ k \in Pipes /\ UpdateAccepted(kw)
  /\ pipe' = [pipe EXCEPT ![k] = pipe_update(pipe[k], kw)]
  /\ member' = member \ {k}
  /\ UNCHANGED <<open, held, streams, call, sess, res, poolVars>>

\* Pipe.close, abort and __aexit__, and a pipe that fails.
PipeEnds(k) ==
  /\ k \in Pipes /\ Close({k})
  /\ pipe' = [pipe EXCEPT ![k] = None] /\ member' = member \ {k}
  /\ UNCHANGED <<held, streams, call, sess, res, poolVars>>

\* accept_*, open_*, read_datagram, ping, next_event, wait_closed, shutdown and
\* the iterators of the session, Pipe.joined and closed.
Wait(a) ==
  /\ sess # "none" /\ Begins(a, [Idle EXCEPT !.op = "wait"])
  /\ UNCHANGED <<open, held, streams, sessVars, poolVars>>

\* What it waits for is there, or the session has ended.
Answered(a) ==
  /\ call[a].op = "wait" /\ Returns(a)
  /\ UNCHANGED <<open, held, streams, sessVars, poolVars>>

\* Session.close, __aexit__, the end of a shutdown, the peer, or an error.
SessionEnds ==
  /\ sess = "open" /\ sess' = "ended"
  /\ Close(Pipes) /\ pipe' = [k \in Conns |-> None] /\ member' = {}
  /\ UNCHANGED <<held, streams, call, res, poolVars>>

-----------------------------------------------------------------------------
(***************************************************************************)
(* A pool of pipes.                                                        *)
(***************************************************************************)

\* Session.maintain_pipes on a running loop, of a PipePool that was made.
maintain(x) ==
  /\ sess # "none" /\ pool = NoPool /\ PoolAccepted(x)
  /\ pool' = [NoPool EXCEPT
               !.at = "runs",
               !.by = IF x.mode THEN "mode" ELSE IF x.join THEN "join" ELSE "dial",
               !.options = IF x.options = None THEN @ ELSE pipe_options(x.options),
               !.policy = x.policy # None]
  /\ UNCHANGED <<open, held, streams, call, sessVars, pdial, pret, decided>>

\* MaintainHandle.stop, or the handle is collected, or the session ended.
PoolEnds ==
  /\ pool.at = "runs" /\ pool' = [pool EXCEPT !.at = "over"]
  /\ UNCHANGED <<open, held, streams, call, sessVars, pdial, pret, decided>>

\* The maintainer asks the policy.  A decision that is not valid is rejected
\* as a whole, and the pool's own options hold.
Decide(d) ==
  /\ pool.at = "runs" /\ pool.policy
  /\ pool' = [pool EXCEPT !.probes = IF DecisionAccepted(d) THEN DecidedProbes(d) ELSE NoProbes]
  /\ decided' = decided \cup {pool'.probes}
  /\ UNCHANGED <<open, held, streams, call, sessVars, pdial, pret>>

\* The options of a pipe the pool adds now: the policy's probe settings come
\* before the pool's own.
MemberOptions == WithProbes(pool.options, pool.probes)

\* The maintainer calls dial() or join(session, options) on the loop.
PoolDials ==
  /\ pool.at = "runs" /\ pool.by # "mode" /\ sess = "open"
  /\ pdial = "idle" /\ pdial' = "runs"
  /\ pool' = [pool EXCEPT !.given = MemberOptions]
  /\ UNCHANGED <<open, held, streams, call, sessVars, pret, decided>>

\* join() adds a carrier with the options it was given.
JoinAdds(o) ==
  pool.by = "join" /\ pdial = "runs" /\ add_pipe(o, options_obj(pool.given), TRUE)

\* dial() returns an object, one used before too; or the coroutine raises,
\* join() returns its pipes, or one that was cancelled ends.
DialReturns(o) ==
  /\ pool.by = "dial" /\ pdial = "runs" /\ held[o] # None
  /\ pdial' = "returned" /\ pret' = o
  /\ UNCHANGED <<open, held, streams, call, sessVars, pool, decided>>

CoroEnds ==
  /\ pdial \in {"runs", "cancelled"} /\ pdial' = "idle"
  /\ UNCHANGED <<open, held, streams, call, sessVars, pool, pret, decided>>

\* The maintainer takes the carrier of the object and joins it, with the
\* options of when it dialed or of now.
PoolTakes ==
  /\ pdial = "returned" /\ pdial' = "idle" /\ pret' = None
  /\ \/ held[pret] = Used /\ UNCHANGED <<held, open, pipe, member>>
     \/ /\ take(pret)
        /\ \E o \in {pool.given, MemberOptions} : Give(held[pret], o, TRUE)
  /\ UNCHANGED <<streams, call, sess, res, pool, decided>>

\* The maintainer of a mode's pool dials and joins without Python.
ModeJoins(k) ==
  /\ pool.at = "runs" /\ pool.by = "mode" /\ Joins
  /\ Opened(k) /\ pipe' = [pipe EXCEPT ![k] = MemberOptions]
  /\ member' = member \cup {k}
  /\ UNCHANGED <<held, streams, call, sess, res, poolVars>>

\* A maintainer that ended drops its dial, which cancels the coroutine (module
\* TaskBridge).
PoolDropped ==
  /\ pool.at = "over" /\ pdial \in {"runs", "returned"}
  /\ pdial' = IF pdial = "runs" THEN "cancelled" ELSE "idle"
  /\ pret' = None
  /\ UNCHANGED <<open, held, streams, call, sessVars, pool, decided>>

-----------------------------------------------------------------------------
Hold ==
  \E o \in Objs :
    \/ \E k \in Conns : pipe_pair(o, k)
    \/ \E new \in Objs : With(o, new)
    \/ into_stream(o) \/ Collected(o)
    \/ \E p \in Choices : add_pipe(o, p, FALSE)
    \/ JoinAdds(o) \/ DialReturns(o)

Run ==
  \E a \in Calls :
    \/ \E d \in Dials : Dial(a, d)
    \/ \E m \in Modes : dial_mode(a, m)
    \/ open_pipe_stream(a) \/ Wait(a) \/ Answered(a)
    \/ Fails(a) \/ WrapCancelled(a) \/ AttachRefused(a) \/ SplitJoined(a)
    \/ \E p \in Choices : join_split(a, p)
    \/ \E k \in Conns : Connected(a, k) \/ Started(a, k) \/ Attaches(a, k)
    \/ \E o \in Objs, k \in Conns : Dialed(a, o, k)
    \/ \E o \in Objs : wrap_layer(a, o)
    \/ \E o \in Objs, c \in Configs, is \in BOOLEAN : Start(a, o, c, is)
    \/ \E o \in Objs, r \in Reserved : attach(a, o, r)

Keep ==
  \/ \E r \in Reserved : cancel(r) \/ \E p \in Choices : reserve_pipe(r, p)
  \/ \E k \in Conns : StreamEnds(k) \/ PipeEnds(k) \/ ModeJoins(k) \/ \E kw \in Keywords : update(k, kw)
  \/ SessionEnds
  \/ \E x \in Pools : maintain(x)
  \/ \E d \in Decisions : Decide(d)
  \/ PoolEnds \/ PoolDials \/ CoroEnds \/ PoolTakes \/ PoolDropped

Next == Hold \/ Run \/ Keep

Spec == Init /\ [][Next]_vars

-----------------------------------------------------------------------------
(***************************************************************************)
(* Properties.                                                             *)
(***************************************************************************)

HeldByObject(k) == \E o \in Objs : held[o] = k
HeldByCall(k) == \E a \in Calls : k \in call[a].conns

\* An open connection has one owner, whatever calls fail, are cancelled or
\* race for it: nothing is used twice and nothing is open that nobody can
\* end.  A wrap() that is cancelled leaves the owner in Python's hands, the
\* transport of its layer.  A closed connection has none.
OneOwner ==
  \A k \in Conns :
    /\ k \in open <=> HeldByObject(k) \/ HeldByCall(k) \/ k \in streams \/ k \in Pipes
    /\ \A o, p \in Objs : held[o] = k /\ held[p] = k => o = p
    /\ \A a, b \in Calls : k \in call[a].conns /\ k \in call[b].conns => a = b
    /\ HeldByObject(k) => ~HeldByCall(k) /\ k \notin streams /\ k \notin Pipes
    /\ HeldByCall(k) => k \notin streams /\ k \notin Pipes
    /\ k \in streams => k \notin Pipes

\* A future that attaches has a reservation, one that waits no connection.
CallsAgree ==
  \A a \in Calls :
    /\ call[a].op = "attach" => call[a].res \in Reserved
    /\ call[a].op = "wait" => call[a].conns = {}

\* A dial() that returned has an object, the members of a pool are pipes, and
\* without a pool there is neither a dial nor a member nor a decision; the
\* options in use come from decisions.
PoolAgrees ==
  /\ pdial = "returned" => pret \in Objs
  /\ member \subseteq Pipes
  /\ pool.at = "none" => pool = NoPool /\ pdial = "idle" /\ member = {} /\ decided = {NoProbes}
  /\ pool.probes \in decided
  /\ pdial # "idle" => \E d \in decided : pool.given = WithProbes(pool.options, d)

\* Connections, calls and the pool agree about who owns what, whatever the
\* threads and futures do.
PipesInv == TypeOK /\ OneOwner /\ CallsAgree /\ PoolAgrees

\* The members of a pool have the pool's options, under the probe settings of
\* one of its policy's decisions, whether the maintainer joined the carrier of
\* dial(), or join() did with the PipeOptions it was given.
MembersShareOptions ==
  \A k \in member : \E d \in decided : pipe[k] = WithProbes(pool.options, d)

\* A call refused for its arguments leaves the carrier in its object, unlike
\* start() and attach(), which take it first: one goes straight from an object
\* to its end only when the session takes no more pipes, or because Python
\* dropped the object.
RefusalKeepsCarrier ==
  [][\A o \in Objs :
       held[o] \in open /\ held[o] \notin open' => ~Joins \/ Collected(o)]_vars
=============================================================================
