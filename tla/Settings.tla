------------------------------ MODULE Settings ------------------------------
(***************************************************************************)
(* How the binding reads its arguments, as operators: the options of a     *)
(* pipe and their way back to Python, a Config, TLS settings and ALPN      *)
(* lists, the arguments of a dial and of a pool, and the decisions of a    *)
(* pool's policy (src/src/lib.rs, pool.rs, mode.rs, admission.rs).         *)
(*                                                                         *)
(* Times are in hundredths of a second, so that 0.05 s and 1 s are         *)
(* integers; a Duration rounds to nanoseconds, far below that.  Max stands *)
(* for u64::MAX.  A value that is only accepted or refused is a word:      *)
(* "zero", "some", "negative", "infinity", and "wrong" for one of another  *)
(* type or one that does not parse.                                        *)
(***************************************************************************)
EXTENDS Integers

CONSTANTS
  None,    \* Python's None, Rust's Option::None
  Off,     \* zmux::Period::Off
  Labels,  \* the names an application gives its pipes
  Max      \* u64::MAX

ASSUME MaxAssumption == Max \in Nat /\ Max >= 2
ASSUME NoneAssumption ==
  /\ None \notin Int /\ None \notin BOOLEAN /\ None \notin Labels /\ None # Off
  /\ Off \notin Int

Maybe(S) == S \cup {None}
Else(v, default) == IF v = None THEN default ELSE v

-----------------------------------------------------------------------------
(***************************************************************************)
(* The count of unsent bytes the application keeps for a carrier.          *)
(***************************************************************************)

\* None is kept as u64::MAX, so a count of u64::MAX is kept as one less.
StoreUnsent(n) == IF n = None THEN Max ELSE IF n < Max THEN n ELSE Max - 1

UnsentValue(c) == IF c = Max THEN None ELSE c

-----------------------------------------------------------------------------
(***************************************************************************)
(* The options of a pipe.                                                  *)
(***************************************************************************)

\* A PipeOptions as Python has it.
PyOptions ==
  [send_priority : Maybe(Int), receive_priority : Maybe(Int), weight : Maybe(Int),
   fate_group : Maybe(Int), send_standby : Maybe(BOOLEAN), receive_standby : Maybe(BOOLEAN),
   probation : Maybe(Int), suspect_floor : Maybe(Int), dead_timeout : Maybe(Int),
   probe_interval : Maybe(Int), idle_probes : Maybe(BOOLEAN), probe_jitter : Maybe(Int),
   label : Maybe(Labels)]

\* The times of a Duration: u64 seconds and a fraction.
Durations == 0..(100 * Max + 99)

\* zmux::PipeOptions.
PipeOptions ==
  [send_priority : Maybe(0..Max), receive_priority : 0..Max, weight : 0..Max,
   fate_group : 0..Max, send_standby : Maybe(BOOLEAN), receive_standby : BOOLEAN,
   probation : Maybe(Durations), suspect_floor : Maybe({t \in Durations : t >= 5}),
   dead_timeout : Maybe({t \in Durations : t >= 100}),
   probe_interval : Maybe({Off} \cup {t \in Durations : t >= 100}),
   probe_jitter : Maybe(0..99), label : Maybe(Labels)]

DefaultOptions ==
  [send_priority |-> None, receive_priority |-> 0, weight |-> 1, fate_group |-> 0,
   send_standby |-> None, receive_standby |-> FALSE, probation |-> None,
   suspect_floor |-> None, dead_timeout |-> None, probe_interval |-> None,
   probe_jitter |-> None, label |-> None]

natural(v) == v \in 0..Max
seconds(v) == v \in Durations

\* The values pipe_options takes, with zmux::PipeOptions::validate.
OptionsAccepted(p) ==
  /\ \A v \in {p.send_priority, p.receive_priority, p.weight, p.fate_group} :
       v # None => natural(v)
  /\ \A v \in {p.probation, p.suspect_floor, p.dead_timeout, p.probe_interval} :
       v # None => seconds(v)
  /\ ~(p.idle_probes = FALSE /\ p.probe_interval # None)
  /\ p.suspect_floor # None => p.suspect_floor >= 5
  /\ p.dead_timeout # None => p.dead_timeout >= 100
  /\ p.probe_interval # None => p.probe_interval >= 100
  /\ p.probe_jitter # None => p.probe_jitter \in 0..99

\* The native options of accepted ones.
pipe_options(p) ==
  [send_priority |-> p.send_priority,
   receive_priority |-> Else(p.receive_priority, 0),
   weight |-> Else(p.weight, 1),
   fate_group |-> Else(p.fate_group, 0),
   send_standby |-> p.send_standby,
   receive_standby |-> Else(p.receive_standby, FALSE),
   probation |-> p.probation, suspect_floor |-> p.suspect_floor,
   dead_timeout |-> p.dead_timeout,
   probe_interval |-> IF p.idle_probes = FALSE THEN Off ELSE p.probe_interval,
   probe_jitter |-> p.probe_jitter, label |-> p.label]

\* Mutant of options_obj: idle_probes is left out.
options_objQuiet(o) ==
  [send_priority |-> o.send_priority, receive_priority |-> o.receive_priority,
   weight |-> o.weight, fate_group |-> o.fate_group, send_standby |-> o.send_standby,
   receive_standby |-> o.receive_standby, probation |-> o.probation,
   suspect_floor |-> o.suspect_floor, dead_timeout |-> o.dead_timeout,
   probe_interval |-> IF o.probe_interval = Off THEN None ELSE o.probe_interval,
   idle_probes |-> None, probe_jitter |-> o.probe_jitter, label |-> o.label]

\* The Python PipeOptions of native ones.
options_obj(o) ==
  [send_priority |-> o.send_priority, receive_priority |-> o.receive_priority,
   weight |-> o.weight, fate_group |-> o.fate_group, send_standby |-> o.send_standby,
   receive_standby |-> o.receive_standby, probation |-> o.probation,
   suspect_floor |-> o.suspect_floor, dead_timeout |-> o.dead_timeout,
   probe_interval |-> IF o.probe_interval = Off THEN None ELSE o.probe_interval,
   idle_probes |-> IF o.probe_interval = None THEN None ELSE o.probe_interval # Off,
   probe_jitter |-> o.probe_jitter, label |-> o.label]

UPDATABLE == {"send_priority", "receive_priority", "send_standby", "receive_standby",
              "weight", "probation"}
FIXED == {"label", "fate_group", "suspect_floor", "dead_timeout", "probe_interval",
          "idle_probes", "probe_jitter"}

\* The keywords Pipe.update takes.
UpdateAccepted(kw) ==
  \A f \in DOMAIN kw :
    /\ f \in UPDATABLE
    /\ IF kw[f] = None THEN f \in {"send_priority", "send_standby"}
       ELSE /\ f \in {"send_priority", "receive_priority", "weight"} => natural(kw[f])
            /\ f \in {"send_standby", "receive_standby"} => kw[f] \in BOOLEAN
            /\ f = "probation" => seconds(kw[f])

\* The options of a live pipe after the keywords: all of them at once.
pipe_update(o, kw) == [f \in DOMAIN o |-> IF f \in DOMAIN kw THEN kw[f] ELSE o[f]]

-----------------------------------------------------------------------------
(***************************************************************************)
(* Session configuration.                                                  *)
(***************************************************************************)

\* The words a field takes, by the kind of its value.
FieldWords ==
  [time |-> {"zero", "some"}, count |-> {"zero", "some"}, parsed |-> {"some"},
   budget |-> {"zero", "some", "infinity"},
   jitter |-> {"zero", "some", "negative", "infinity"}]

\* The fields of a Config, as kinds and words: None is passed over, before the
\* field's name is looked at, and an unknown name is refused.
ConfigAccepted(fields) ==
  \A x \in fields :
    x.word # None => x.kind \in DOMAIN FieldWords /\ x.word \in FieldWords[x.kind]

-----------------------------------------------------------------------------
(***************************************************************************)
(* TLS.  A setting has a certificate, a key and roots, each None, "good"   *)
(* or "bad" (it does not parse), and the application's ALPN list.          *)
(***************************************************************************)

\* The bundled web roots, no client certificate.
web == [cert |-> None, key |-> None, ca |-> None, verify |-> TRUE, alpn |-> {}]

client_tls(tls) == Else(tls, web)

\* A certificate without a key, or a key without a certificate, is none.
chain(t) == IF None \in {t.cert, t.key} THEN None
            ELSE IF "bad" \in {t.cert, t.key} THEN "bad" ELSE "good"

\* The roots are read only when they verify.
ClientAccepted(t) == ~(t.verify /\ t.ca = "bad") /\ chain(t) # "bad"

\* The defaults of a list nobody set.
default_alpn(t, defaults) == IF t.alpn = {} THEN defaults ELSE t.alpn

zmux_alpn == {"zmux"}
http1 == {"http/1.1"}

client_zmux(t) == default_alpn(t, zmux_alpn)
server_zmux(t) == default_alpn(t, zmux_alpn)

\* dial_websocket and dial_exchange, Http2Connection.connect, serve_websocket
\* and serve_http.
client_http1(t) == default_alpn(t, http1)
client_http2(t) == default_alpn(t, {"h2"})
server_http1(t) == default_alpn(t, http1)
server_http(t) == default_alpn(t, {"h2"} \cup http1)

\* What a client offers on a carrier over TLS or QUIC.  HTTP/3 and WebTransport
\* have one protocol each, whatever the application set.
ClientAlpn(kind, t) ==
  CASE kind \in {"tls", "quic"} -> client_zmux(t)
    [] kind \in {"websocket", "exchange"} -> client_http1(t)
    [] kind = "http2" -> client_http2(t)
    [] kind \in {"h3", "webtransport"} -> {kind}

\* What the serve_* call of a carrier takes; the carriers over HTTP are
\* served by serve_http, WebSockets by serve_websocket too.
ServerAlpn(serve, t) ==
  CASE serve \in {"tls", "quic"} -> server_zmux(t)
    [] serve = "websocket" -> server_http1(t)
    [] serve = "http" -> server_http(t)
    [] serve \in {"h3", "webtransport"} -> {serve}

\* The serve_* calls that answer a kind of dial over TLS or QUIC.
ServedBy(kind) ==
  IF kind = "websocket" THEN {"websocket", "http"}
  ELSE IF kind \in {"http2", "exchange"} THEN {"http"} ELSE {kind}

-----------------------------------------------------------------------------
(***************************************************************************)
(* Dials.                                                                  *)
(***************************************************************************)

HttpDials == {"http", "split", "join_split", "http2"}

\* A credential is a PrefixAuth, bound to TLS ("bound") or not ("auth"), an
\* object with the two methods, or something else ("other").
credential(c) == c # "other"

\* The HTTP adapters do not see the TLS layer.
http_client_options(c) == c # "bound" /\ credential(c)

dial_request(carrier) == carrier \in {"bidirectional", "uplink", "downlink"}

\* The arguments of a dial: its URL or address is "good", "secure" (wss://)
\* or "bad"; one that is not a URL is only looked up when the dial runs.
DialAccepted(kind, x) ==
  /\ IF kind \in HttpDials THEN http_client_options(x.credential) ELSE credential(x.credential)
  /\ kind \in {"tls", "quic", "h3", "webtransport"} => ClientAccepted(client_tls(x.tls))
  /\ kind \in {"http2", "exchange"} /\ x.tls # None => ClientAccepted(x.tls)
  /\ kind = "websocket" /\ x.url = "secure" => ClientAccepted(client_tls(x.tls))
  /\ kind \in {"websocket", "h3", "webtransport"} => x.url # "bad"
  /\ kind = "exchange" /\ x.tls # None => x.url # "bad"
  /\ kind \in {"http", "http2"} => dial_request(x.carrier)

\* Whether the carrier gives a credential its handshake's exporter.
Exports(kind, x) ==
  \/ kind \in {"tls", "quic", "h3", "webtransport"}
  \/ kind = "websocket" /\ x.url = "secure"

\* A candidate of a mode is made from the arguments of its dial; the exchange
\* takes no credential, and a wss:// URL is not read before the dial.
CandidateAccepted(kind, x) ==
  CASE kind = "exchange" -> TRUE
    [] kind \in {"http", "split"} -> http_client_options(x.credential)
    [] kind = "websocket" ->
         /\ credential(x.credential)
         /\ IF x.url = "secure" THEN ClientAccepted(client_tls(x.tls)) ELSE x.url # "bad"
    [] OTHER -> DialAccepted(kind, x)

\* Mode.auto takes at least one candidate.
auto(candidates) == candidates # {}

\* The policy of dial_mode and PipePool.mode: a factor and four times.
ModePolicyAccepted(factor, times) ==
  factor \in {"zero", "some"} /\ times \subseteq {"zero", "some"}

-----------------------------------------------------------------------------
(***************************************************************************)
(* Pools and their policies.                                               *)
(***************************************************************************)

\* PipePool(...): one of dial and join, unless the members are a mode's.
PoolAccepted(x) ==
  /\ x.mode \/ x.dial # x.join
  /\ x.rotate_jitter \in 0..100
  /\ x.rotate_max_age # None => seconds(x.rotate_max_age)
  /\ x.options # None => OptionsAccepted(x.options)
  /\ x.policy # "wrong"

\* A decision: times that are not negative, no probes or one a second at most.
DecisionAccepted(d) ==
  /\ \A t \in {d.dial_after, d.recheck} : t # None => t >= 0
  /\ d.probe_interval # None =>
       d.probe_interval = 0 \/ (seconds(d.probe_interval) /\ d.probe_interval >= 100)
  /\ d.probe_jitter # None => d.probe_jitter \in 0..99

\* The probe settings of a decision: an interval of 0 turns the probes off.
DecidedProbes(d) ==
  [interval |-> IF d.probe_interval = 0 THEN Off ELSE d.probe_interval,
   jitter |-> d.probe_jitter]
NoProbes == [interval |-> None, jitter |-> None]
Probes == [interval : Maybe({Off} \cup {t \in Durations : t >= 100}), jitter : Maybe(0..99)]

\* The options of a member under the probe settings of a decision.
WithProbes(o, d) ==
  [o EXCEPT !.probe_interval = Else(d.interval, @), !.probe_jitter = Else(d.jitter, @)]
=============================================================================
