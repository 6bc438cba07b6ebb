------------------------------ MODULE MCPipeUse ------------------------------
(***************************************************************************)
(* The arguments of the instance of PipeUse that TLC checks.               *)
(***************************************************************************)
EXTENDS PipeUse, TLC

Plain == [send_priority |-> None, receive_priority |-> None, weight |-> None,
          fate_group |-> None, send_standby |-> None, receive_standby |-> None,
          probation |-> None, suspect_floor |-> None, dead_timeout |-> None,
          probe_interval |-> None, idle_probes |-> None, probe_jitter |-> None,
          label |-> None]

\* No idle probes, and a set that is refused: an interval without probes.
MCChoices == {[Plain EXCEPT !.idle_probes = FALSE, !.weight = 2],
              [Plain EXCEPT !.idle_probes = FALSE, !.probe_interval = 100]}

\* One that is applied, and two that are refused.
MCKeywords == {[weight |-> 2], [label |-> None], [weight |-> -1]}

NoTls == None
BadTls == [web EXCEPT !.ca = "bad"]

\* A dial that works, one whose token never can, and ones that are refused.
MCDials ==
  {[kind |-> "websocket", credential |-> "bound", tls |-> NoTls, url |-> "secure", carrier |-> "none"],
   [kind |-> "tcp", credential |-> "bound", tls |-> NoTls, url |-> "good", carrier |-> "none"],
   [kind |-> "http", credential |-> "bound", tls |-> NoTls, url |-> "good",
    carrier |-> "bidirectional"],
   [kind |-> "tls", credential |-> "auth", tls |-> BadTls, url |-> "good", carrier |-> "none"]}

\* Two that are made: one candidate can work, none can; and one that is refused.
MCModes ==
  LET by(kind, tls) == [kind |-> kind, credential |-> "bound", tls |-> tls, url |-> "good",
                        carrier |-> "none"]
      policy(D) == [candidates |-> D, factor |-> "some", times |-> {"some"}]
  IN {policy({by("quic", NoTls), by("websocket", NoTls)}),
      policy({by("websocket", NoTls)}),
      policy({by("quic", BadTls)})}

\* A pool of each kind, with a policy and without, and ones that are refused.
MCPools ==
  LET of(how, options, policy) ==
        [mode |-> "mode" \in how, dial |-> "dial" \in how, join |-> "join" \in how,
         rotate_jitter |-> 0, rotate_max_age |-> None, options |-> options, policy |-> policy]
      quiet == [Plain EXCEPT !.idle_probes = FALSE, !.weight = 2]
  IN {of({"dial"}, quiet, "some"), of({"join"}, quiet, "some"), of({"mode"}, None, "some"),
      of({"join"}, quiet, None), of({"dial", "join"}, quiet, None),
      of({"join"}, [Plain EXCEPT !.suspect_floor = 4], None)}

\* A policy that probes every second, and then at an interval that is refused.
MCDecisions ==
  {[dial_after |-> None, recheck |-> None, probe_interval |-> t, probe_jitter |-> 0] :
     t \in {50, 100}}

\* One that is made, and ones that are refused.
MCConfigs == {{[kind |-> "time", word |-> None]}, {[kind |-> "parsed", word |-> "zero"]},
              {[kind |-> "unknown", word |-> "some"]}}

\* The connections are alike, and so are the objects.
Alike == Permutations(Conns) \cup Permutations(Objs)
=============================================================================
