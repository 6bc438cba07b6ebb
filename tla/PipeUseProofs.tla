--------------------------- MODULE PipeUseProofs ---------------------------
(***************************************************************************)
(* Proofs about the binding's reading of its arguments (module Settings)   *)
(* and about the ownership of carriers (module PipeUse).                   *)
(*                                                                         *)
(* The first part holds for every argument; its theorems on the options of *)
(* a pipe are what the pool needs later.  The second part shows Inv        *)
(* inductive, one lemma for each part of Next and one step for each        *)
(* action; Kept settles the conjuncts an action leaves alone.              *)
(***************************************************************************)
EXTENDS PipeUse, TLAPS

-----------------------------------------------------------------------------
(***************************************************************************)
(* Arguments.                                                              *)
(***************************************************************************)

\* A count of unsent bytes never reads as "cannot tell", and None always does;
\* only u64::MAX itself comes back as one less (UnsentCount).
THEOREM UnsentKept ==
  /\ UnsentValue(StoreUnsent(None)) = None
  /\ \A n \in 0..Max :
       /\ UnsentValue(StoreUnsent(n)) \in 0..(Max - 1)
       /\ n < Max => UnsentValue(StoreUnsent(n)) = n
BY MaxAssumption, NoneAssumption DEF UnsentValue, StoreUnsent

\* Accepted options are options the crate's validate accepts (pipe_options).
THEOREM OptionsTyped ==
  ASSUME NEW p \in PyOptions, OptionsAccepted(p)
  PROVE  pipe_options(p) \in PipeOptions
<1>1. \A v \in {p.send_priority, p.receive_priority, p.weight, p.fate_group} :
        v = None \/ v \in 0..Max
  BY DEF OptionsAccepted, natural
<1>2. \A v \in {p.probation, p.suspect_floor, p.dead_timeout, p.probe_interval} :
        v = None \/ v \in Durations
  BY DEF OptionsAccepted, seconds
<1>3. /\ p.suspect_floor \in Maybe({t \in Durations : t >= 5})
      /\ p.dead_timeout \in Maybe({t \in Durations : t >= 100})
      /\ p.probe_interval \in Maybe({t \in Durations : t >= 100})
      /\ p.probe_jitter \in Maybe(0..99)
  BY <1>2 DEF OptionsAccepted, PyOptions, Maybe
<1>4. /\ p.send_priority \in Maybe(0..Max) /\ Else(p.receive_priority, 0) \in 0..Max
      /\ Else(p.weight, 1) \in 0..Max /\ Else(p.fate_group, 0) \in 0..Max
  BY <1>1, MaxAssumption DEF Maybe, Else
<1>5. p.send_standby \in Maybe(BOOLEAN) /\ Else(p.receive_standby, FALSE) \in BOOLEAN
  BY DEF PyOptions, Maybe, Else
<1>6. p.probation \in Maybe(Durations) /\ p.label \in Maybe(Labels)
  BY <1>2 DEF PyOptions, Maybe
<1>7. (IF p.idle_probes = FALSE THEN Off ELSE p.probe_interval)
        \in Maybe({Off} \cup {t \in Durations : t >= 100})
  BY <1>3 DEF Maybe
<1> QED
  BY <1>3, <1>4, <1>5, <1>6, <1>7 DEF pipe_options, PipeOptions

\* The options Python reads from a pipe, or is given for a member of a pool,
\* give a further pipe the same native options (options_obj, pipe_options).
THEOREM OptionsRoundTrip ==
  ASSUME NEW o \in PipeOptions
  PROVE  /\ options_obj(o) \in PyOptions
         /\ OptionsAccepted(options_obj(o))
         /\ pipe_options(options_obj(o)) = o
<1> DEFINE p == options_obj(o)
<1>1. /\ p.send_priority = o.send_priority /\ p.receive_priority = o.receive_priority
      /\ p.weight = o.weight /\ p.fate_group = o.fate_group
      /\ p.send_standby = o.send_standby /\ p.receive_standby = o.receive_standby
      /\ p.probation = o.probation /\ p.suspect_floor = o.suspect_floor
      /\ p.dead_timeout = o.dead_timeout /\ p.probe_jitter = o.probe_jitter
      /\ p.label = o.label
      /\ p.probe_interval = IF o.probe_interval = Off THEN None ELSE o.probe_interval
      /\ p.idle_probes = IF o.probe_interval = None THEN None ELSE o.probe_interval # Off
  BY DEF options_obj
<1>2. /\ o.send_priority \in Maybe(0..Max) /\ o.receive_priority \in 0..Max
      /\ o.weight \in 0..Max /\ o.fate_group \in 0..Max
      /\ o.send_standby \in Maybe(BOOLEAN) /\ o.receive_standby \in BOOLEAN
      /\ o.probation \in Maybe(Durations) /\ o.suspect_floor \in Maybe({t \in Durations : t >= 5})
      /\ o.dead_timeout \in Maybe({t \in Durations : t >= 100})
      /\ o.probe_interval \in Maybe({Off} \cup {t \in Durations : t >= 100})
      /\ o.probe_jitter \in Maybe(0..99) /\ o.label \in Maybe(Labels)
  BY DEF PipeOptions
<1>3. /\ p.probe_interval \in Maybe({t \in Durations : t >= 100})
      /\ p.idle_probes \in Maybe(BOOLEAN)
      /\ p.idle_probes = FALSE <=> o.probe_interval = Off
  BY <1>1, <1>2, NoneAssumption DEF Maybe
<1>4. p \in PyOptions
  BY <1>1, <1>2, <1>3, MaxAssumption DEF options_obj, PyOptions, Maybe, Durations
<1>5. OptionsAccepted(p)
  <2>1. \A v \in {p.send_priority, p.receive_priority, p.weight, p.fate_group} :
          v # None => natural(v)
    BY <1>1, <1>2 DEF natural, Maybe
  <2>2. \A v \in {p.probation, p.suspect_floor, p.dead_timeout, p.probe_interval} :
          v # None => seconds(v)
    BY <1>1, <1>2, <1>3 DEF seconds, Maybe
  <2>3. ~(p.idle_probes = FALSE /\ p.probe_interval # None)
    BY <1>1, <1>3
  <2> QED
    BY <2>1, <2>2, <2>3, <1>1, <1>2, <1>3 DEF OptionsAccepted, Maybe
<1>6. (IF p.idle_probes = FALSE THEN Off ELSE p.probe_interval) = o.probe_interval
  BY <1>1, <1>3, NoneAssumption
<1>7. /\ Else(p.receive_priority, 0) = o.receive_priority
      /\ Else(p.weight, 1) = o.weight /\ Else(p.fate_group, 0) = o.fate_group
  BY <1>1, <1>2, NoneAssumption, MaxAssumption DEF Else
<1>8. Else(p.receive_standby, FALSE) = o.receive_standby
  BY <1>1, <1>2, NoneAssumption DEF Else
<1>9. pipe_options(p) = o
  BY <1>1, <1>6, <1>7, <1>8 DEF pipe_options, PipeOptions
<1> QED
  BY <1>4, <1>5, <1>9

\* Pipe.update leaves every option fixed when the pipe was added as it was, and
\* the options ones that are valid (pipe_update).
THEOREM UpdateKeepsFixed ==
  ASSUME NEW o \in PipeOptions, NEW kw, UpdateAccepted(kw)
  PROVE  /\ \A f \in FIXED \cap DOMAIN o : pipe_update(o, kw)[f] = o[f]
         /\ pipe_update(o, kw) \in PipeOptions
<1> DEFINE u == pipe_update(o, kw)
<1>1. DOMAIN kw \subseteq UPDATABLE
  BY DEF UpdateAccepted
<1>2. \A f \in DOMAIN o : u[f] = IF f \in DOMAIN kw THEN kw[f] ELSE o[f]
  BY DEF pipe_update
<1>3. \A f \in FIXED \cap DOMAIN o : u[f] = o[f]
  BY <1>1, <1>2 DEF FIXED, UPDATABLE
<1>4. DOMAIN o = {"send_priority", "receive_priority", "weight", "fate_group", "send_standby",
                  "receive_standby", "probation", "suspect_floor", "dead_timeout",
                  "probe_interval", "probe_jitter", "label"}
  BY DEF PipeOptions
<1>5. u.send_priority \in Maybe(0..Max)
  BY <1>2, <1>4 DEF UpdateAccepted, natural, PipeOptions, Maybe
<1>6. u.receive_priority \in 0..Max /\ u.weight \in 0..Max
  BY <1>2, <1>4 DEF UpdateAccepted, natural, PipeOptions
<1>7. u.send_standby \in Maybe(BOOLEAN) /\ u.receive_standby \in BOOLEAN
  BY <1>2, <1>4 DEF UpdateAccepted, PipeOptions, Maybe
<1>8. u.probation \in Maybe(Durations)
  BY <1>2, <1>4 DEF UpdateAccepted, seconds, PipeOptions, Maybe
<1>9. /\ u.fate_group \in 0..Max /\ u.suspect_floor \in Maybe({t \in Durations : t >= 5})
      /\ u.dead_timeout \in Maybe({t \in Durations : t >= 100})
      /\ u.probe_interval \in Maybe({Off} \cup {t \in Durations : t >= 100})
      /\ u.probe_jitter \in Maybe(0..99) /\ u.label \in Maybe(Labels)
  BY <1>3, <1>4 DEF FIXED, PipeOptions
<1>10. u = [f \in DOMAIN o |-> u[f]]
  BY DEF pipe_update
<1>11. u \in PipeOptions
  BY <1>4, <1>5, <1>6, <1>7, <1>8, <1>9, <1>10 DEF PipeOptions
<1> QED
  BY <1>3, <1>11

\* A dial over TLS or QUIC and the serve_* call that answers it find a common
\* protocol whenever both have the same ALPN list, also when neither set one
\* (client_alpn, server_alpn and their callers).
THEOREM AlpnAgrees ==
  ASSUME NEW kind \in {"tls", "quic", "websocket", "exchange", "http2", "h3", "webtransport"},
         NEW serve \in ServedBy(kind), NEW client, NEW server, client.alpn = server.alpn
  PROVE  ClientAlpn(kind, client) \cap ServerAlpn(serve, server) # {}
<1>1. ASSUME NEW D, NEW E, D \cap E # {}
      PROVE  default_alpn(client, D) \cap default_alpn(server, E) # {}
  BY <1>1 DEF default_alpn
<1>2. CASE kind \in {"tls", "quic"}
  <2>1. serve = kind
    BY <1>2 DEF ServedBy
  <2>2. ClientAlpn(kind, client) = client_zmux(client) /\ ServerAlpn(serve, server) = server_zmux(server)
    BY <1>2, <2>1 DEF ClientAlpn, ServerAlpn
  <2> QED
    BY <1>1, <2>2 DEF client_zmux, server_zmux, zmux_alpn
<1>3. CASE kind \in {"websocket", "exchange"}
  <2>1. serve \in {"websocket", "http"}
    BY <1>3 DEF ServedBy
  <2>2. /\ ClientAlpn(kind, client) = client_http1(client)
        /\ ServerAlpn(serve, server) \in {server_http1(server), server_http(server)}
    BY <1>3, <2>1 DEF ClientAlpn, ServerAlpn
  <2> QED
    BY <1>1, <2>2 DEF client_http1, server_http1, server_http, http1
<1>4. CASE kind = "http2"
  <2>1. serve = "http"
    BY <1>4 DEF ServedBy
  <2>2. ClientAlpn(kind, client) = client_http2(client) /\ ServerAlpn(serve, server) = server_http(server)
    BY <1>4, <2>1 DEF ClientAlpn, ServerAlpn
  <2> QED
    BY <1>1, <2>2 DEF client_http2, server_http, http1
<1>5. CASE kind \in {"h3", "webtransport"}
  <2>1. serve = kind
    BY <1>5 DEF ServedBy
  <2> QED
    BY <1>5, <2>1 DEF ClientAlpn, ServerAlpn
<1> QED
  BY <1>2, <1>3, <1>4, <1>5

\* The probe settings of an accepted decision leave a member options the crate's
\* validate accepts (PoolPolicyDecision).
THEOREM ProbesTyped ==
  /\ \A d : /\ d.probe_interval \in Maybe(Int) /\ d.probe_jitter \in Maybe(Int)
           /\ DecisionAccepted(d)
           => DecidedProbes(d) \in Probes
  /\ \A o \in PipeOptions, d \in Probes : WithProbes(o, d) \in PipeOptions
<1>1. ASSUME NEW d, d.probe_interval \in Maybe(Int), d.probe_jitter \in Maybe(Int),
             DecisionAccepted(d)
      PROVE  DecidedProbes(d) \in Probes
  <2>1. (IF d.probe_interval = 0 THEN Off ELSE d.probe_interval)
          \in Maybe({Off} \cup {t \in Durations : t >= 100})
    BY <1>1 DEF DecisionAccepted, seconds, Maybe
  <2>2. d.probe_jitter \in Maybe(0..99)
    BY <1>1 DEF DecisionAccepted, Maybe
  <2> QED
    BY <2>1, <2>2 DEF DecidedProbes, Probes
<1>2. ASSUME NEW o \in PipeOptions, NEW d \in Probes
      PROVE  WithProbes(o, d) \in PipeOptions
  <2>1. /\ Else(d.interval, o.probe_interval) \in Maybe({Off} \cup {t \in Durations : t >= 100})
        /\ Else(d.jitter, o.probe_jitter) \in Maybe(0..99)
    BY DEF Probes, PipeOptions, Else
  <2>2. WithProbes(o, d) = [o EXCEPT !.probe_interval = Else(d.interval, o.probe_interval),
                                     !.probe_jitter = Else(d.jitter, o.probe_jitter)]
    BY DEF WithProbes, PipeOptions
  <2> QED
    BY <2>1, <2>2 DEF PipeOptions
<1> QED
  BY <1>1, <1>2
-----------------------------------------------------------------------------
(***************************************************************************)
(* Ownership.                                                              *)
(***************************************************************************)

\* The names that stand for no connection, object, reservation or options are
\* none of these.
LEMMA Names ==
  /\ None # Used /\ Used \notin Conns
  /\ \A k \in Conns : k # None
  /\ \A o \in Objs : o # None
  /\ \A r \in Reserved : r # None
  /\ \A o \in PipeOptions : o # None
BY NamesAssumption DEF Used

\* The options of the first pipe of a session are valid.
LEMMA DefaultsTyped == DefaultOptions \in PipeOptions
BY MaxAssumption DEF DefaultOptions, PipeOptions, Maybe

\* The pool's options are valid, under the probe settings in force too.
LEMMA MembersTyped ==
  ASSUME TypeOK
  PROVE  MemberOptions \in PipeOptions /\ NoProbes \in Probes
BY ProbesTyped DEF TypeOK, MemberOptions, NoProbes, Probes, Maybe

\* The inductive invariant.  PipesInv is inductive by itself; the members'
\* options need it, as a carrier that joins must not be a member already.
Inv == PipesInv /\ MembersShareOptions

\* A conjunct of Inv is kept by a step that changes none of its variables.
LEMMA Kept ==
  ASSUME Inv
  PROVE  /\ UNCHANGED <<open, held, streams, call, pipe>> => OneOwner'
         /\ UNCHANGED call => CallsAgree'
         /\ UNCHANGED <<pipe, member, pool, pdial, pret, decided>> => PoolAgrees'
         /\ UNCHANGED <<pipe, member, pool, decided>> => MembersShareOptions'
<1> USE DEF Inv, PipesInv
<1>1. UNCHANGED <<open, held, streams, call, pipe>> => OneOwner'
  BY DEF OneOwner, HeldByObject, HeldByCall, Pipes
<1>2. UNCHANGED call => CallsAgree'
  BY DEF CallsAgree
<1>3. UNCHANGED <<pipe, member, pool, pdial, pret, decided>> => PoolAgrees'
  BY DEF PoolAgrees, Pipes
<1>4. UNCHANGED <<pipe, member, pool, decided>> => MembersShareOptions'
  BY DEF MembersShareOptions
<1> QED
  BY <1>1, <1>2, <1>3, <1>4

\* What Python does with its objects keeps the invariant.
LEMMA HoldStep ==
  ASSUME Inv, Hold
  PROVE  Inv'
<1>1. ASSUME NEW o \in Objs, NEW k \in Conns, pipe_pair(o, k)
      PROVE  Inv'
  <2> USE <1>1, Names DEF Inv, PipesInv, TypeOK, pipe_pair, Opened, wrap, sessVars,
     poolVars
  <2>1. TypeOK'
    OBVIOUS
  <2>2. OneOwner'
    BY DEF OneOwner, HeldByObject, HeldByCall, Pipes
  <2> QED
    BY <2>1, <2>2, Kept
<1>2. ASSUME NEW o \in Objs, NEW new \in Objs, With(o, new)
      PROVE  Inv'
  <2> USE <1>2, Names DEF Inv, PipesInv, TypeOK, With, Used, sessVars, poolVars
  <2>1. TypeOK'
    OBVIOUS
  <2>2. /\ o # new
        /\ \A q \in Objs :
             held'[q] = IF q = o THEN Used ELSE IF q = new THEN held[o] ELSE held[q]
    OBVIOUS
  <2>3. \A k \in Conns : HeldByObject(k)' <=> HeldByObject(k)
    BY <2>2 DEF HeldByObject
  <2>4. \A k \in Conns : \A q, r \in Objs : held'[q] = k /\ held'[r] = k => q = r
    BY <2>2 DEF OneOwner
  <2>5. OneOwner'
    BY <2>3, <2>4 DEF OneOwner, HeldByCall, Pipes
  <2> QED
    BY <2>1, <2>5, Kept
<1>3. ASSUME NEW o \in Objs, into_stream(o)
      PROVE  Inv'
  <2> USE <1>3, Names DEF Inv, PipesInv, TypeOK, into_stream, take, Used, sessVars,
     poolVars
  <2>1. TypeOK'
    OBVIOUS
  <2>2. OneOwner'
    BY DEF OneOwner, HeldByObject, HeldByCall, Pipes
  <2> QED
    BY <2>1, <2>2, Kept
<1>4. ASSUME NEW o \in Objs, Collected(o)
      PROVE  Inv'
  <2> USE <1>4, Names DEF Inv, PipesInv, TypeOK, Collected, Close, Used, sessVars,
     poolVars
  <2>1. TypeOK'
    OBVIOUS
  <2>2. OneOwner'
    BY DEF OneOwner, HeldByObject, HeldByCall, Pipes
  <2> QED
    BY <2>1, <2>2, Kept
<1>5. ASSUME NEW o \in Objs, NEW p \in Choices, add_pipe(o, p, FALSE)
      PROVE  Inv'
  <2> USE <1>5, Names DEF Inv, PipesInv, TypeOK, add_pipe, take, Give, Close, Used,
     Maybe, sessVars, poolVars
  <2>1. pipe_options(p) \in PipeOptions
    BY ArgumentsAssumption, OptionsTyped
  <2>2. TypeOK'
    BY <2>1
  <2>3. OneOwner'
    BY <2>1 DEF OneOwner, HeldByObject, HeldByCall, Pipes
  <2>4. PoolAgrees'
    BY <2>1 DEF PoolAgrees, Pipes
  <2>5. MembersShareOptions'
    BY <2>1 DEF MembersShareOptions, PoolAgrees, OneOwner, HeldByObject, Pipes
  <2> QED
    BY <2>2, <2>3, <2>4, <2>5, Kept
<1>6. ASSUME NEW o \in Objs, JoinAdds(o)
      PROVE  Inv'
  <2> USE <1>6, Names DEF Inv, PipesInv, TypeOK, JoinAdds, add_pipe, take, Give, Close,
     Used, Maybe, sessVars, poolVars
  <2>1. /\ pipe_options(options_obj(pool.given)) = pool.given /\ pool.given \in PipeOptions
        /\ \E d \in decided : pool.given = WithProbes(pool.options, d)
    BY OptionsRoundTrip DEF PoolAgrees
  <2>2. TypeOK'
    BY <2>1
  <2>3. OneOwner'
    BY <2>1 DEF OneOwner, HeldByObject, HeldByCall, Pipes
  <2>4. PoolAgrees'
    BY <2>1 DEF PoolAgrees, Pipes
  <2>5. MembersShareOptions'
    BY <2>1 DEF MembersShareOptions, PoolAgrees, OneOwner, HeldByObject, Pipes
  <2> QED
    BY <2>2, <2>3, <2>4, <2>5, Kept
<1>7. ASSUME NEW o \in Objs, DialReturns(o)
      PROVE  Inv'
  <2> USE <1>7, Names DEF Inv, PipesInv, TypeOK, DialReturns, sessVars, poolVars
  <2>1. TypeOK'
    OBVIOUS
  <2>2. PoolAgrees'
    BY DEF PoolAgrees, Pipes
  <2> QED
    BY <2>1, <2>2, Kept
<1> QED
  BY <1>1, <1>2, <1>3, <1>4, <1>5, <1>6, <1>7 DEF Hold

\* The futures keep the invariant, whether they end well, fail or are cancelled.
LEMMA RunStep ==
  ASSUME Inv, Run
  PROVE  Inv'
<1>1. ASSUME NEW a \in Calls, NEW d \in Dials, Dial(a, d)
      PROVE  Inv'
  <2> USE <1>1, Names DEF Inv, PipesInv, TypeOK, Dial, Begins, Idle, Ops, Maybe,
     sessVars, poolVars
  <2>1. TypeOK'
    BY DefaultsTyped
  <2>2. OneOwner'
    BY DEF OneOwner, HeldByObject, HeldByCall, Pipes
  <2>3. CallsAgree'
    BY DEF CallsAgree
  <2> QED
    BY <2>1, <2>2, <2>3, Kept
<1>2. ASSUME NEW a \in Calls, NEW m \in Modes, dial_mode(a, m)
      PROVE  Inv'
  <2> USE <1>2, Names DEF Inv, PipesInv, TypeOK, dial_mode, Begins, Idle, Ops, Maybe,
     sessVars, poolVars
  <2>1. TypeOK'
    BY DefaultsTyped
  <2>2. OneOwner'
    BY DEF OneOwner, HeldByObject, HeldByCall, Pipes
  <2>3. CallsAgree'
    BY DEF CallsAgree
  <2> QED
    BY <2>1, <2>2, <2>3, Kept
<1>3. ASSUME NEW a \in Calls, open_pipe_stream(a)
      PROVE  Inv'
  <2> USE <1>3, Names DEF Inv, PipesInv, TypeOK, open_pipe_stream, Begins, Idle, Ops,
     Maybe, sessVars, poolVars
  <2>1. TypeOK'
    BY DefaultsTyped
  <2>2. OneOwner'
    BY DEF OneOwner, HeldByObject, HeldByCall, Pipes
  <2>3. CallsAgree'
    BY DEF CallsAgree
  <2> QED
    BY <2>1, <2>2, <2>3, Kept
<1>4. ASSUME NEW a \in Calls, Wait(a)
      PROVE  Inv'
  <2> USE <1>4, Names DEF Inv, PipesInv, TypeOK, Wait, Begins, Idle, Ops, Maybe,
     sessVars, poolVars
  <2>1. TypeOK'
    BY DefaultsTyped
  <2>2. OneOwner'
    BY DEF OneOwner, HeldByObject, HeldByCall, Pipes
  <2>3. CallsAgree'
    BY DEF CallsAgree
  <2> QED
    BY <2>1, <2>2, <2>3, Kept
<1>5. ASSUME NEW a \in Calls, Answered(a)
      PROVE  Inv'
  <2> USE <1>5, Names DEF Inv, PipesInv, TypeOK, Answered, Returns, Idle, Ops, Maybe,
     sessVars, poolVars
  <2>1. TypeOK'
    BY DefaultsTyped
  <2>2. OneOwner'
    BY DEF OneOwner, CallsAgree, HeldByObject, HeldByCall, Pipes
  <2>3. CallsAgree'
    BY DEF CallsAgree
  <2> QED
    BY <2>1, <2>2, <2>3, Kept
<1>6. ASSUME NEW a \in Calls, Fails(a)
      PROVE  Inv'
  <2> USE <1>6, Names DEF Inv, PipesInv, TypeOK, Fails, Returns, Idle, Ops, Maybe,
     Close, sessVars, poolVars
  <2>1. TypeOK'
    BY DefaultsTyped
  <2>2. OneOwner'
    BY DEF OneOwner, HeldByObject, HeldByCall, Pipes
  <2>3. CallsAgree'
    BY DEF CallsAgree
  <2> QED
    BY <2>1, <2>2, <2>3, Kept
<1>7. ASSUME NEW a \in Calls, AttachRefused(a)
      PROVE  Inv'
  <2> USE <1>7, Names DEF Inv, PipesInv, TypeOK, AttachRefused, Returns, Idle, Ops,
     Maybe, Close, sessVars, poolVars
  <2>1. TypeOK'
    BY DefaultsTyped
  <2>2. OneOwner'
    BY DEF OneOwner, HeldByObject, HeldByCall, Pipes
  <2>3. CallsAgree'
    BY DEF CallsAgree
  <2> QED
    BY <2>1, <2>2, <2>3, Kept
<1>8. ASSUME NEW a \in Calls, NEW p \in Choices, join_split(a, p)
      PROVE  Inv'
  <2> USE <1>8, Names DEF Inv, PipesInv, TypeOK, join_split, Begins, Idle, Ops, Maybe,
     sessVars, poolVars
  <2>1. TypeOK'
    BY DefaultsTyped, ArgumentsAssumption, OptionsTyped
  <2>2. OneOwner'
    BY DEF OneOwner, HeldByObject, HeldByCall, Pipes
  <2>3. CallsAgree'
    BY DEF CallsAgree
  <2> QED
    BY <2>1, <2>2, <2>3, Kept
<1>9. ASSUME NEW a \in Calls, SplitJoined(a)
      PROVE  Inv'
  <2> USE <1>9, Names DEF Inv, PipesInv, TypeOK, SplitJoined, Returns, Idle, Ops, Maybe,
     sessVars, poolVars
  <2>1. call[a].options \in PipeOptions
    OBVIOUS
  <2>2. TypeOK'
    <3>1. pipe' \in [Conns -> Maybe(PipeOptions)]
      BY <2>1
    <3>2. call' \in [Calls -> [op : Ops, conns : SUBSET Conns, res : Maybe(Reserved),
                               options : PipeOptions, able : BOOLEAN]]
      BY DefaultsTyped
    <3> QED
      BY <3>1, <3>2
  <2>3. OneOwner'
    BY <2>1 DEF OneOwner, HeldByObject, HeldByCall, Pipes
  <2>4. CallsAgree'
    BY DEF CallsAgree
  <2>5. PoolAgrees'
    BY <2>1 DEF PoolAgrees, Pipes
  <2>6. MembersShareOptions'
    BY <2>1 DEF MembersShareOptions, PoolAgrees, OneOwner, HeldByCall, Pipes
  <2> QED
    BY <2>2, <2>3, <2>4, <2>5, <2>6, Kept
<1>10. ASSUME NEW a \in Calls, NEW k \in Conns, Connected(a, k)
      PROVE  Inv'
  <2> USE <1>10, Names DEF Inv, PipesInv, TypeOK, Connected, Opened, Ops, Maybe,
     sessVars, poolVars
  <2>1. TypeOK'
    BY DefaultsTyped
  <2>2. OneOwner'
    BY DEF OneOwner, HeldByObject, HeldByCall, Pipes
  <2>3. CallsAgree'
    BY DEF CallsAgree
  <2> QED
    BY <2>1, <2>2, <2>3, Kept
<1>11. ASSUME NEW a \in Calls, NEW k \in Conns, Started(a, k)
      PROVE  Inv'
  <2> USE <1>11, Names DEF Inv, PipesInv, TypeOK, Started, Returns, Idle, Ops, Maybe,
     sessVars, poolVars
  <2>1. DefaultOptions \in PipeOptions
    BY DefaultsTyped
  <2>2. TypeOK'
    BY <2>1, DefaultsTyped
  <2>3. OneOwner'
    BY <2>1 DEF OneOwner, HeldByObject, HeldByCall, Pipes
  <2>4. CallsAgree'
    BY DEF CallsAgree
  <2>5. PoolAgrees'
    BY <2>1 DEF PoolAgrees, Pipes
  <2>6. MembersShareOptions'
    BY <2>1 DEF MembersShareOptions, PoolAgrees, OneOwner, HeldByCall, Pipes
  <2> QED
    BY <2>2, <2>3, <2>4, <2>5, <2>6, Kept
<1>12. ASSUME NEW a \in Calls, NEW k \in Conns, Attaches(a, k)
      PROVE  Inv'
  <2> USE <1>12, Names DEF Inv, PipesInv, TypeOK, Attaches, Returns, Idle, Ops, Maybe,
     TakeReservation, Give, Close, sessVars, poolVars
  <2>1. call[a].res \in Reserved /\ res[call[a].res].options \in PipeOptions
    BY DEF CallsAgree
  <2>2. TypeOK'
    <3>1. /\ pipe' \in [Conns -> Maybe(PipeOptions)] /\ open' \subseteq Conns
          /\ member' \subseteq Conns
      BY <2>1
    <3>2. res' \in [Reserved -> [at : {"none", "held", "used"}, options : PipeOptions]]
      BY <2>1
    <3>3. call' \in [Calls -> [op : Ops, conns : SUBSET Conns, res : Maybe(Reserved),
                               options : PipeOptions, able : BOOLEAN]]
      BY DefaultsTyped
    <3> QED
      BY <3>1, <3>2, <3>3
  <2>3. OneOwner'
    BY <2>1 DEF OneOwner, HeldByObject, HeldByCall, Pipes
  <2>4. CallsAgree'
    BY DEF CallsAgree
  <2>5. PoolAgrees'
    BY <2>1 DEF PoolAgrees, Pipes
  <2>6. MembersShareOptions'
    BY <2>1 DEF MembersShareOptions, PoolAgrees, OneOwner, HeldByCall, Pipes
  <2> QED
    BY <2>2, <2>3, <2>4, <2>5, <2>6, Kept
<1>13. ASSUME NEW a \in Calls, NEW o \in Objs, NEW k \in Conns, Dialed(a, o, k)
      PROVE  Inv'
  <2> USE <1>13, Names DEF Inv, PipesInv, TypeOK, Dialed, Returns, Idle, Ops, Maybe,
     wrap, sessVars, poolVars
  <2>1. TypeOK'
    BY DefaultsTyped
  <2>2. OneOwner'
    BY DEF OneOwner, HeldByObject, HeldByCall, Pipes
  <2>3. CallsAgree'
    BY DEF CallsAgree
  <2> QED
    BY <2>1, <2>2, <2>3, Kept
<1>14. ASSUME NEW a \in Calls, NEW o \in Objs, wrap_layer(a, o)
      PROVE  Inv'
  <2> USE <1>14, Names DEF Inv, PipesInv, TypeOK, wrap_layer, Begins, Idle, Ops, Maybe,
     take, Used, sessVars, poolVars
  <2>1. TypeOK'
    BY DefaultsTyped
  <2>2. OneOwner'
    BY DEF OneOwner, HeldByObject, HeldByCall, Pipes
  <2>3. CallsAgree'
    BY DEF CallsAgree
  <2> QED
    BY <2>1, <2>2, <2>3, Kept
<1>15. ASSUME NEW a \in Calls, NEW o \in Objs, NEW c \in Configs, NEW is \in BOOLEAN,
            Start(a, o, c, is)
      PROVE  Inv'
  <2> USE <1>15, Names DEF Inv, PipesInv, TypeOK, Start, Begins, Idle, Ops, Maybe, take,
     Used, sessVars, poolVars
  <2>1. TypeOK'
    BY DefaultsTyped
  <2>2. OneOwner'
    BY DEF OneOwner, HeldByObject, HeldByCall, Pipes
  <2>3. CallsAgree'
    BY DEF CallsAgree
  <2> QED
    BY <2>1, <2>2, <2>3, Kept
<1>16. ASSUME NEW a \in Calls, NEW o \in Objs, NEW r \in Reserved, attach(a, o, r)
      PROVE  Inv'
  <2> USE <1>16, Names DEF Inv, PipesInv, TypeOK, attach, Begins, Idle, Ops, Maybe,
     take, Used, sessVars, poolVars
  <2>1. TypeOK'
    BY DefaultsTyped
  <2>2. OneOwner'
    BY DEF OneOwner, HeldByObject, HeldByCall, Pipes
  <2>3. CallsAgree'
    BY DEF CallsAgree
  <2> QED
    BY <2>1, <2>2, <2>3, Kept
<1>17. ASSUME NEW a \in Calls, WrapCancelled(a)
      PROVE  Inv'
  <2> USE <1>17, Names DEF Inv, PipesInv, TypeOK, WrapCancelled, Returns, Idle, Ops, Maybe,
     sessVars, poolVars
  <2>1. TypeOK'
    BY DefaultsTyped
  <2>2. OneOwner'
    BY DEF OneOwner, HeldByObject, HeldByCall, Pipes
  <2>3. CallsAgree'
    BY DEF CallsAgree
  <2> QED
    BY <2>1, <2>2, <2>3, Kept
<1> QED
  BY <1>1, <1>2, <1>3, <1>4, <1>5, <1>6, <1>7, <1>8, <1>9, <1>10, <1>11, <1>12, <1>13,
     <1>14, <1>15, <1>16, <1>17 DEF Run

\* The reservations, the pipes, the session and the pool keep the invariant.
LEMMA KeepStep ==
  ASSUME Inv, Keep
  PROVE  Inv'
<1>1. ASSUME NEW r \in Reserved, cancel(r)
      PROVE  Inv'
  <2> USE <1>1, Names DEF Inv, PipesInv, TypeOK, cancel, TakeReservation, sessVars, poolVars
  <2>1. TypeOK'
    OBVIOUS
  <2> QED
    BY <2>1, Kept
<1>2. ASSUME NEW r \in Reserved, NEW p \in Choices, reserve_pipe(r, p)
      PROVE  Inv'
  <2> USE <1>2, Names DEF Inv, PipesInv, TypeOK, reserve_pipe, sessVars, poolVars
  <2>1. pipe_options(p) \in PipeOptions
    BY ArgumentsAssumption, OptionsTyped
  <2>2. TypeOK'
    BY <2>1
  <2> QED
    BY <2>2, Kept
<1>3. ASSUME NEW k \in Conns, StreamEnds(k)
      PROVE  Inv'
  <2> USE <1>3, Names DEF Inv, PipesInv, TypeOK, StreamEnds, Close, sessVars, poolVars
  <2>1. TypeOK'
    OBVIOUS
  <2>2. OneOwner'
    BY DEF OneOwner, HeldByObject, HeldByCall, Pipes
  <2> QED
    BY <2>1, <2>2, Kept
<1>4. ASSUME NEW k \in Conns, PipeEnds(k)
      PROVE  Inv'
  <2> USE <1>4, Names DEF Inv, PipesInv, TypeOK, PipeEnds, Close, Maybe, sessVars,
     poolVars
  <2>1. TypeOK'
    OBVIOUS
  <2>2. OneOwner'
    BY DEF OneOwner, HeldByObject, HeldByCall, Pipes
  <2>3. PoolAgrees'
    BY DEF PoolAgrees, Pipes
  <2>4. MembersShareOptions'
    BY DEF MembersShareOptions
  <2> QED
    BY <2>1, <2>2, <2>3, <2>4, Kept
<1>5. ASSUME NEW k \in Conns, ModeJoins(k)
      PROVE  Inv'
  <2> USE <1>5, Names DEF Inv, PipesInv, TypeOK, ModeJoins, Opened, Maybe, sessVars,
     poolVars
  <2>1. MemberOptions \in PipeOptions
    BY MembersTyped
  <2>2. TypeOK'
    BY <2>1
  <2>3. OneOwner'
    BY <2>1 DEF OneOwner, HeldByObject, HeldByCall, Pipes
  <2>4. PoolAgrees'
    BY <2>1 DEF PoolAgrees, Pipes
  <2>5. MembersShareOptions'
    BY DEF MembersShareOptions, PoolAgrees, MemberOptions, OneOwner, Pipes
  <2> QED
    BY <2>2, <2>3, <2>4, <2>5, Kept
<1>6. ASSUME NEW k \in Conns, NEW kw \in Keywords, update(k, kw)
      PROVE  Inv'
  <2> USE <1>6, Names DEF Inv, PipesInv, TypeOK, update, Maybe, sessVars, poolVars
  <2>1. pipe_update(pipe[k], kw) \in PipeOptions
    BY UpdateKeepsFixed DEF Inv, PipesInv, TypeOK, Pipes, Maybe
  <2>2. TypeOK'
    BY <2>1
  <2>3. OneOwner'
    BY <2>1 DEF OneOwner, HeldByObject, HeldByCall, Pipes
  <2>4. PoolAgrees'
    BY <2>1 DEF PoolAgrees, Pipes
  <2>5. MembersShareOptions'
    BY <2>1 DEF MembersShareOptions
  <2> QED
    BY <2>2, <2>3, <2>4, <2>5, Kept
<1>7. CASE SessionEnds
  <2> USE <1>7, Names DEF Inv, PipesInv, TypeOK, SessionEnds, Close, Maybe, sessVars,
     poolVars
  <2>1. TypeOK'
    OBVIOUS
  <2>2. OneOwner'
    BY DEF OneOwner, HeldByObject, HeldByCall, Pipes
  <2>3. PoolAgrees'
    BY DEF PoolAgrees, Pipes
  <2>4. MembersShareOptions'
    BY DEF MembersShareOptions
  <2> QED
    BY <2>1, <2>2, <2>3, <2>4, Kept
<1>8. ASSUME NEW x \in Pools, maintain(x)
      PROVE  Inv'
  <2> USE <1>8, Names DEF Inv, PipesInv, TypeOK, maintain, Maybe, sessVars, poolVars
  <2>1. /\ pool'.options \in PipeOptions /\ pool'.given \in PipeOptions
        /\ pool'.probes = NoProbes /\ NoProbes \in Probes /\ pool'.policy \in BOOLEAN
    BY ArgumentsAssumption, OptionsTyped, DefaultsTyped, MembersTyped DEF PoolAccepted, NoPool
  <2>2. TypeOK'
    BY <2>1 DEF NoPool
  <2>3. PoolAgrees'
    BY <2>1 DEF PoolAgrees, NoPool, Pipes
  <2>4. MembersShareOptions'
    BY <2>1 DEF MembersShareOptions, PoolAgrees, NoPool
  <2> QED
    BY <2>2, <2>3, <2>4, Kept
<1>9. CASE PoolEnds
  <2> USE <1>9, Names DEF Inv, PipesInv, TypeOK, PoolEnds, sessVars, poolVars
  <2>1. TypeOK'
    OBVIOUS
  <2>2. PoolAgrees'
    BY DEF PoolAgrees, Pipes
  <2>3. MembersShareOptions'
    BY DEF MembersShareOptions
  <2> QED
    BY <2>1, <2>2, <2>3, Kept
<1>10. CASE PoolDials
  <2> USE <1>10, Names DEF Inv, PipesInv, TypeOK, PoolDials, sessVars, poolVars
  <2>1. TypeOK'
    BY MembersTyped
  <2>2. PoolAgrees'
    BY DEF PoolAgrees, MemberOptions, Pipes
  <2>3. MembersShareOptions'
    BY DEF MembersShareOptions
  <2> QED
    BY <2>1, <2>2, <2>3, Kept
<1>11. CASE CoroEnds
  <2> USE <1>11, Names DEF Inv, PipesInv, TypeOK, CoroEnds, sessVars, poolVars
  <2>1. TypeOK'
    OBVIOUS
  <2>2. PoolAgrees'
    BY DEF PoolAgrees, Pipes
  <2> QED
    BY <2>1, <2>2, Kept
<1>12. CASE PoolTakes
  <2> USE <1>12, Names DEF Inv, PipesInv, TypeOK, PoolTakes, take, Give, Close, Used,
     Maybe, sessVars, poolVars
  <2>1. CASE held[pret] = Used /\ UNCHANGED <<held, open, pipe, member>>
    <3>1. TypeOK'
      BY <2>1
    <3>2. PoolAgrees'
      BY <2>1 DEF PoolAgrees, Pipes
    <3> QED
      BY <2>1, <3>1, <3>2, Kept
  <2>2. ASSUME NEW o \in {pool.given, MemberOptions}, take(pret), Give(held[pret], o, TRUE)
        PROVE  Inv'
    <3>1. /\ o \in PipeOptions /\ \E d \in decided : o = WithProbes(pool.options, d)
          /\ pret \in Objs /\ held[pret] \in Conns
      BY <2>2, MembersTyped DEF PoolAgrees, MemberOptions
    <3>2. TypeOK'
      BY <2>2, <3>1
    <3>3. OneOwner'
      <4>1. CASE Joins
        BY <2>2, <3>1, <4>1 DEF OneOwner, HeldByObject, HeldByCall, Pipes
      <4>2. CASE ~Joins
        BY <2>2, <3>1, <4>2 DEF OneOwner, HeldByObject, HeldByCall, Pipes
      <4> QED
        BY <4>1, <4>2
    <3>4. PoolAgrees'
      BY <2>2, <3>1 DEF PoolAgrees, Pipes
    <3>5. MembersShareOptions'
      BY <2>2, <3>1 DEF MembersShareOptions, PoolAgrees, OneOwner, HeldByObject, Pipes
    <3> QED
      BY <3>2, <3>3, <3>4, <3>5, Kept
  <2> QED
    BY <2>1, <2>2
<1>13. CASE PoolDropped
  <2> USE <1>13, Names DEF Inv, PipesInv, TypeOK, PoolDropped, sessVars, poolVars
  <2>1. TypeOK'
    OBVIOUS
  <2>2. PoolAgrees'
    BY DEF PoolAgrees, Pipes
  <2> QED
    BY <2>1, <2>2, Kept
<1>14. ASSUME NEW d \in Decisions, Decide(d)
       PROVE  Inv'
  <2> USE <1>14, Names DEF Inv, PipesInv, TypeOK, Decide, sessVars, poolVars
  <2>1. pool'.probes \in Probes
    BY ProbesTyped, MembersTyped, ArgumentsAssumption
  <2>2. TypeOK'
    BY <2>1
  <2>3. PoolAgrees'
    BY <2>1 DEF PoolAgrees, Pipes
  <2>4. MembersShareOptions'
    BY <2>1 DEF MembersShareOptions
  <2> QED
    BY <2>2, <2>3, <2>4, Kept
<1> QED
  BY <1>1, <1>2, <1>3, <1>4, <1>5, <1>6, <1>7, <1>8, <1>9, <1>10, <1>11, <1>12, <1>13,
     <1>14 DEF Keep

\* Inv is an invariant of the specification.
THEOREM UseInvariance == Spec => []Inv
<1>1. Init => Inv
  <2> SUFFICES ASSUME Init PROVE Inv
    OBVIOUS
  <2> USE Names DEF Init
  <2>1. TypeOK
    BY DefaultsTyped DEF TypeOK, Idle, Ops, NoPool, NoProbes, Probes, Maybe
  <2>2. OneOwner
    BY DEF OneOwner, HeldByObject, HeldByCall, Pipes, Idle
  <2>3. CallsAgree
    BY DEF CallsAgree, Idle
  <2>4. PoolAgrees /\ MembersShareOptions
    BY DEF PoolAgrees, MembersShareOptions, NoPool
  <2> QED
    BY <2>1, <2>2, <2>3, <2>4 DEF Inv, PipesInv
<1>2. Inv /\ [Next]_vars => Inv'
  <2>1. Inv /\ Next => Inv'
    BY HoldStep, RunStep, KeepStep DEF Next
  <2>2. Inv /\ UNCHANGED vars => Inv'
    BY Kept DEF vars, sessVars, poolVars, Inv, PipesInv, TypeOK
  <2> QED
    BY <2>1, <2>2
<1> QED
  BY <1>1, <1>2, PTL DEF Spec

\* Every open connection has one owner, whatever the calls that race for it do,
\* fail or are cancelled, and a closed one has none (PipeIo::take and its
\* callers); that of a cancelled wrap() is the transport of its layer.
THEOREM CarriersOwned == Spec => []PipesInv
<1>1. Inv => PipesInv
  BY DEF Inv
<1> QED
  BY <1>1, UseInvariance, PTL

\* The members of a pool have the pool's options under the probe settings of one
\* of the policy's decisions, also when join() in Python added them with options
\* that went there and back (options_obj, pipe_options, maintain_pipes).
THEOREM MembersAgree == Spec => []MembersShareOptions
<1>1. Inv => MembersShareOptions
  BY DEF Inv
<1> QED
  BY <1>1, UseInvariance, PTL

\* A step that closes a carrier an object holds either drops the object or
\* gives the carrier to a session that takes no more pipes.
LEMMA RefusalStep ==
  ASSUME Inv, Next, NEW o \in Objs, held[o] \in open, held[o] \notin open'
  PROVE  ~Joins \/ Collected(o)
<1> DEFINE k == held[o]
<1>1. /\ k \in Conns /\ HeldByObject(k) /\ ~HeldByCall(k) /\ k \notin streams /\ k \notin Pipes
      /\ \A q \in Objs : held[q] = k => q = o
  BY DEF Inv, PipesInv, TypeOK, OneOwner, HeldByObject
<1>2. CASE Hold
  BY <1>1, <1>2, Names
     DEF Hold, pipe_pair, With, into_stream, Collected, add_pipe, JoinAdds, DialReturns, Opened,
         Give, Close, take
<1>3. CASE Run
  <2>1. ASSUME NEW a \in Calls, NEW q \in Conns, Attaches(a, q)
        PROVE  k \in open'
    <3>1. k # q
      BY <1>1, <2>1 DEF Attaches, HeldByCall
    <3> QED
      BY <2>1, <3>1 DEF Attaches, Give, Close
  <2> QED
    BY <1>1, <1>3, <2>1
     DEF Run, Dial, dial_mode, open_pipe_stream, Wait, Answered, Fails, WrapCancelled, AttachRefused, join_split,
         SplitJoined, Connected, Started, Dialed, wrap_layer, Start, attach, Opened,
         Close, HeldByCall
<1>4. CASE Keep
  BY <1>1, <1>4
     DEF Keep, cancel, reserve_pipe, StreamEnds, PipeEnds, ModeJoins, update, SessionEnds, maintain,
         Decide, PoolEnds, PoolDials, CoroEnds, PoolTakes, PoolDropped, Opened, Give, Close
<1> QED
  BY <1>2, <1>3, <1>4 DEF Next

\* A call that is refused for its arguments leaves the carrier in its object:
\* no step takes it out and drops it (add_pipe, pipe_options, PipeIo::take).
THEOREM RefusedKeeps == Spec => RefusalKeepsCarrier
<1>1. Inv /\ [Next]_vars =>
        [\A o \in Objs :
           held[o] \in open /\ held[o] \notin open' => ~Joins \/ Collected(o)]_vars
  BY RefusalStep
<1> QED
  BY <1>1, UseInvariance, PTL DEF Spec, RefusalKeepsCarrier
=============================================================================
