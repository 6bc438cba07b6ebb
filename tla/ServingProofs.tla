---------------------------- MODULE ServingProofs ----------------------------
(***************************************************************************)
(* Proofs about the admission (module Admission) and the listener it       *)
(* serves (module Serving).                                                *)
(*                                                                         *)
(* AdmissionInv is inductive whoever drives the admission.  Every step of  *)
(* a listener is a step of its admission or leaves it alone                *)
(* (ServingStepsAdmission), so AdmissionInv holds in both specifications;  *)
(* ListenerInv adds what the listener keeps.                               *)
(***************************************************************************)
EXTENDS Serving, TLAPS

-----------------------------------------------------------------------------
(***************************************************************************)
(* The admission.                                                          *)
(***************************************************************************)

\* A request that joins the channel is in it once.
LEMMA Joined ==
  ASSUME NEW c \in Carriers, asks[c] \in Seq(Askers \cup {Done}), ChannelAgrees(c),
         NEW x \in Askers \cup {Done}, ~InChannel(c, x), asks'[c] = Append(asks[c], x)
  PROVE  /\ \A y : InChannel(c, y)' <=> y = x \/ InChannel(c, y)
         /\ \A i, j \in DOMAIN asks'[c] : asks'[c][i] = asks'[c][j] => i = j
<1> DEFINE s == asks[c]
           t == asks'[c]
<1>1. /\ DOMAIN t = 1..(Len(s) + 1) /\ DOMAIN s = 1..Len(s) /\ Len(s) \in Nat
      /\ t[Len(s) + 1] = x /\ \A i \in 1..Len(s) : t[i] = s[i]
  OBVIOUS
<1>2. \A i, j \in DOMAIN s : s[i] = s[j] => i = j
  BY DEF ChannelAgrees
<1>3. \A i \in DOMAIN s : s[i] # x
  BY DEF InChannel
<1>4. \A y : (\E i \in DOMAIN t : t[i] = y) <=> y = x \/ \E i \in DOMAIN s : s[i] = y
  <2> HIDE DEF s, t
  <2>1. /\ Len(s) + 1 \in DOMAIN t
        /\ \A i \in DOMAIN s : i \in DOMAIN t /\ t[i] = s[i]
        /\ \A i \in DOMAIN t : i = Len(s) + 1 \/ i \in DOMAIN s
    BY ONLY <1>1
  <2> QED
    BY ONLY <1>1, <2>1
<1>5. \A i, j \in DOMAIN t : t[i] = t[j] => i = j
  BY <1>1, <1>2, <1>3
<1> QED
  BY <1>4, <1>5 DEF InChannel

\* The request that leaves the channel is in it no more.
LEMMA Left ==
  ASSUME NEW c \in Carriers, asks[c] \in Seq(Askers \cup {Done}), ChannelAgrees(c),
         asks[c] # <<>>, asks'[c] = Tail(asks[c])
  PROVE  /\ \A y : InChannel(c, y)' <=> y # Head(asks[c]) /\ InChannel(c, y)
         /\ \A i, j \in DOMAIN asks'[c] : asks'[c][i] = asks'[c][j] => i = j
         /\ InChannel(c, Head(asks[c])) /\ Head(asks[c]) \in Askers \cup {Done}
         /\ asks'[c] \in Seq(Askers \cup {Done})
<1> DEFINE s == asks[c]
           t == asks'[c]
<1>1. /\ DOMAIN s = 1..Len(s) /\ Len(s) \in Nat /\ Len(s) > 0
      /\ DOMAIN t = 1..(Len(s) - 1) /\ Head(s) = s[1]
      /\ Head(s) \in Askers \cup {Done} /\ t \in Seq(Askers \cup {Done})
      /\ \A i \in 1..(Len(s) - 1) : t[i] = s[i + 1]
  OBVIOUS
<1>2. \A i, j \in DOMAIN s : s[i] = s[j] => i = j
  BY DEF ChannelAgrees
<1>3. ASSUME NEW y, NEW i \in DOMAIN s, s[i] = y, y # Head(s)
      PROVE  \E j \in DOMAIN t : t[j] = y
  <2> HIDE DEF s, t
  <2>1. i - 1 \in DOMAIN t /\ t[i - 1] = y
    BY ONLY <1>1, <1>3
  <2> QED
    BY <2>1
<1>4. ASSUME NEW j \in DOMAIN t
      PROVE  j + 1 \in DOMAIN s /\ s[j + 1] = t[j] /\ t[j] # Head(s)
  BY <1>1, <1>2
<1>5. \A i, j \in DOMAIN t : t[i] = t[j] => i = j
  BY <1>1, <1>2, <1>4
<1>6. \E i \in DOMAIN s : s[i] = Head(s)
  BY <1>1
<1> QED
  BY <1>1, <1>3, <1>4, <1>5, <1>6 DEF InChannel

\* What a step does not touch of a carrier stays in agreement.
LEMMA Kept ==
  ASSUME NEW c \in Carriers
  PROVE  /\ ChannelAgrees(c) /\ UNCHANGED <<exporter[c], at[c], asks[c], reply[c]>>
            => ChannelAgrees(c)'
         /\ CallAgrees(c) /\ UNCHANGED <<exporter[c], at[c], reply[c]>> => CallAgrees(c)'
         /\ DecisionAgrees(c) /\ UNCHANGED <<at[c], result[c], coro[c], outcome[c]>>
            => DecisionAgrees(c)'
<1>1. ChannelAgrees(c) /\ UNCHANGED <<exporter[c], at[c], asks[c], reply[c]>>
      => ChannelAgrees(c)'
  BY DEF ChannelAgrees, InChannel
<1>2. CallAgrees(c) /\ UNCHANGED <<exporter[c], at[c], reply[c]>> => CallAgrees(c)'
  BY DEF CallAgrees
<1>3. DecisionAgrees(c) /\ UNCHANGED <<at[c], result[c], coro[c], outcome[c]>>
      => DecisionAgrees(c)'
  BY DEF DecisionAgrees
<1> QED
  BY <1>1, <1>2, <1>3

Agrees(c) == ChannelAgrees(c) /\ CallAgrees(c) /\ DecisionAgrees(c)

\* A step of one carrier's decision leaves the others alone.
LEMMA OthersKept ==
  ASSUME AdmissionInv, NEW c \in Carriers, CallSteps(c), NEW d \in Carriers, d # c
  PROVE  Agrees(d)'
<1>1. UNCHANGED <<exporter[d], at[d], asks[d], reply[d], result[d], coro[d], outcome[d]>>
  BY DEF AdmissionInv, AdmissionTypeOK, CallSteps, CallEnds, CallReturns, CallPanics, SendDone, Answer,
         Finish, CoroStarts, CoroYields, CoroAwaits, CoroEnds, CoroResumes, CoroCancelled, CoroMoves,
         Settle, GiveUp, Export, callVars, askVars, coroVars
<1> QED
  BY <1>1, Kept DEF Agrees, AdmissionInv

\* The steps of a decision's call, its channel and its coroutine keep the
\* invariant.
LEMMA CallStep ==
  ASSUME AdmissionInv, NEW c \in Carriers, CallSteps(c)
  PROVE  AdmissionInv'
<1> SUFFICES AdmissionTypeOK' /\ OneLoop' /\ Agrees(c)'
  BY OthersKept DEF AdmissionInv, Agrees
<1> USE DEF AdmissionInv, AdmissionTypeOK, OneLoop, Agrees, callVars, askVars, coroVars
<1>1. ASSUME NEW r \in Returns(c), CallReturns(c, r)
      PROVE  AdmissionTypeOK' /\ OneLoop' /\ Agrees(c)'
  <2> USE <1>1 DEF CallReturns
  <2>1. r \in Results \cup {"coroutine"}
    BY DEF Returns, Results, Verdicts
  <2>2. AdmissionTypeOK'
    <3>1. result' \in [Carriers -> Results \cup {"none", "coroutine"}]
      BY <2>1 DEF Results
    <3>2. \/ UNCHANGED coroVars
          \/ /\ coro' = [coro EXCEPT ![c] = "posted"]
             /\ coroLoop' = [coroLoop EXCEPT ![c] = locals]
      OBVIOUS
    <3>3. coro' \in [Carriers -> {"none", "posted", "first", "suspended", "later", "over"}]
      BY <3>2
    <3>4. coroLoop' \in [Carriers -> Loops \cup {NoLoop}]
      <4>1. coroLoop \in [Carriers -> Loops \cup {NoLoop}] /\ locals \in Loops \cup {NoLoop}
        OBVIOUS
      <4>2. coroLoop' = coroLoop \/ coroLoop' = [coroLoop EXCEPT ![c] = locals]
        BY <3>2
      <4>3. ASSUME NEW S, NEW f \in [Carriers -> S], NEW v \in S
            PROVE  [f EXCEPT ![c] = v] \in [Carriers -> S]
        OBVIOUS
      <4> QED
        BY ONLY <4>1, <4>2, <4>3, c \in Carriers
    <3>5. at' \in [Carriers -> {"idle", "calling", "returned", "done", "unwound", "stuck", "over"}]
      OBVIOUS
    <3> QED
      BY <3>1, <3>3, <3>4, <3>5
  <2>3. OneLoop'
    OBVIOUS
  <2>4. ChannelAgrees(c)'
    <3>1. ~InChannel(c, Done) /\ \A x : InChannel(c, x)' <=> InChannel(c, x)
      BY DEF ChannelAgrees, InChannel
    <3> QED
      BY <3>1 DEF ChannelAgrees
  <2>5. CallAgrees(c)'
    BY DEF CallAgrees
  <2>6. DecisionAgrees(c)'
    BY DEF DecisionAgrees
  <2> QED
    BY <2>2, <2>3, <2>4, <2>5, <2>6
<1>2. CASE CallPanics(c)
  <2> USE <1>2 DEF CallPanics
  <2>1. AdmissionTypeOK'
    BY DEF Results
  <2>2. ChannelAgrees(c)'
    <3>1. ~InChannel(c, Done) /\ \A x : InChannel(c, x)' <=> InChannel(c, x)
      BY DEF ChannelAgrees, InChannel
    <3> QED
      BY <3>1 DEF ChannelAgrees
  <2>3. CallAgrees(c)'
    BY DEF CallAgrees
  <2>4. DecisionAgrees(c)'
    BY DEF DecisionAgrees
  <2> QED
    BY <2>1, <2>2, <2>3, <2>4
<1>3. CASE SendDone(c)
  <2> USE <1>3 DEF SendDone
  <2>1. asks[c] \in Seq(Askers \cup {Done}) /\ asks'[c] = Append(asks[c], Done)
    OBVIOUS
  <2>2. AdmissionTypeOK'
    BY <2>1
  <2>3. ~InChannel(c, Done)
    BY DEF ChannelAgrees
  <2>4. /\ \A x : InChannel(c, x)' <=> x = Done \/ InChannel(c, x)
        /\ \A i, j \in DOMAIN asks'[c] : asks'[c][i] = asks'[c][j] => i = j
    BY <2>1, <2>3, Joined
  <2>5. ChannelAgrees(c)'
    BY <2>4 DEF ChannelAgrees, CallAgrees, Askers, Done
  <2>6. CallAgrees(c)'
    BY DEF CallAgrees
  <2>7. DecisionAgrees(c)'
    BY DEF DecisionAgrees
  <2> QED
    BY <2>2, <2>5, <2>6, <2>7
<1>4. CASE Answer(c)
  <2> USE <1>4 DEF Answer
  <2>1. asks[c] \in Seq(Askers \cup {Done}) /\ asks[c] # <<>> /\ asks'[c] = Tail(asks[c])
    OBVIOUS
  <2>2. /\ \A x : InChannel(c, x)' <=> x # Head(asks[c]) /\ InChannel(c, x)
        /\ \A i, j \in DOMAIN asks'[c] : asks'[c][i] = asks'[c][j] => i = j
        /\ InChannel(c, Head(asks[c])) /\ Head(asks[c]) \in Askers
        /\ asks'[c] \in Seq(Askers \cup {Done})
    BY <2>1, Left
  <2>3. /\ reply'[c] = [reply[c] EXCEPT ![Head(asks[c])] = "answered"]
        /\ \A a \in Askers :
             reply'[c][a] = IF a = Head(asks[c]) THEN "answered" ELSE reply[c][a]
    OBVIOUS
  <2>4. AdmissionTypeOK'
    BY <2>1, <2>2
  <2>5. ChannelAgrees(c)'
    BY <2>1, <2>2, <2>3 DEF ChannelAgrees
  <2>6. CallAgrees(c)'
    <3>1. at[c] # "idle"
      BY <2>1 DEF ChannelAgrees
    <3> QED
      BY <2>3, <3>1 DEF CallAgrees, Askers
  <2> QED
    BY <2>4, <2>5, <2>6, Kept
<1>5. CASE Finish(c)
  <2> USE <1>5 DEF Finish
  <2>1. AdmissionTypeOK'
    OBVIOUS
  <2>2. at[c] \in {"done", "unwound"}
    <3>1. CASE asks[c] # <<>> /\ Head(asks[c]) = Done
      <4>1. InChannel(c, Done)
        BY <3>1 DEF InChannel
      <4> QED
        BY <4>1 DEF ChannelAgrees
    <3> QED
      BY <3>1
  <2>3. ChannelAgrees(c)'
    BY DEF ChannelAgrees, InChannel
  <2>4. CallAgrees(c)'
    <3>1. \A a \in Askers : reply'[c][a] = IF reply[c][a] = "waiting" THEN "none" ELSE reply[c][a]
      OBVIOUS
    <3> QED
      BY <2>2, <3>1 DEF CallAgrees, Askers
  <2>5. DecisionAgrees(c)'
    BY <2>2 DEF DecisionAgrees
  <2> QED
    BY <2>1, <2>3, <2>4, <2>5
<1>6. CASE CoroStarts(c)
  <2> USE <1>6 DEF CoroStarts, CoroMoves
  <2>1. AdmissionTypeOK'
    BY DEF Askers, Verdicts, Results
  <2>2. DecisionAgrees(c)'
    BY DEF DecisionAgrees, Askers, Verdicts
  <2> QED
    BY <2>1, <2>2, Kept
<1>7. CASE CoroAwaits(c)
  <2> USE <1>7 DEF CoroAwaits, CoroMoves, Running
  <2>1. AdmissionTypeOK'
    BY DEF Askers, Verdicts, Results
  <2>2. DecisionAgrees(c)'
    BY DEF DecisionAgrees, Askers, Verdicts
  <2> QED
    BY <2>1, <2>2, Kept
<1>8. ASSUME NEW r \in Verdicts \cup {"raised"}, CoroEnds(c, r)
      PROVE  AdmissionTypeOK' /\ OneLoop' /\ Agrees(c)'
  <2> USE <1>8 DEF CoroEnds, Running
  <2>1. AdmissionTypeOK'
    BY DEF Askers, Verdicts, Results
  <2>2. DecisionAgrees(c)'
    BY DEF DecisionAgrees, Askers, Verdicts
  <2> QED
    BY <2>1, <2>2, Kept
<1>9. CASE CoroResumes(c)
  <2> USE <1>9 DEF CoroResumes, CoroMoves
  <2>1. AdmissionTypeOK'
    BY DEF Askers, Verdicts, Results
  <2>2. DecisionAgrees(c)'
    BY DEF DecisionAgrees, Askers, Verdicts
  <2> QED
    BY <2>1, <2>2, Kept
<1>10. CASE CoroCancelled(c)
  <2> USE <1>10 DEF CoroCancelled, CoroMoves
  <2>1. AdmissionTypeOK'
    BY DEF Askers, Verdicts, Results
  <2>2. DecisionAgrees(c)'
    BY DEF DecisionAgrees, Askers, Verdicts
  <2> QED
    BY <2>1, <2>2, Kept
<1>11. CASE Settle(c)
  <2> USE <1>11 DEF Settle, Settled
  <2>1. AdmissionTypeOK'
    BY DEF Askers, Verdicts, Results
  <2>2. DecisionAgrees(c)'
    BY DEF DecisionAgrees, Askers, Verdicts
  <2> QED
    BY <2>1, <2>2, Kept
<1>12. CASE GiveUp(c)
  <2> USE <1>12 DEF GiveUp
  <2>1. AdmissionTypeOK'
    BY DEF Askers, Verdicts, Results
  <2>2. DecisionAgrees(c)'
    BY DEF DecisionAgrees, Askers, Verdicts
  <2> QED
    BY <2>1, <2>2, Kept
<1>13. ASSUME NEW a \in Askers, Export(c, a)
       PROVE  AdmissionTypeOK' /\ OneLoop' /\ Agrees(c)'
  <2> USE <1>13 DEF Export
  <2> DEFINE gone == ~exporter[c] \/ at[c] = "over"
  <2>1. /\ reply' \in [Carriers -> [Askers -> {"idle", "waiting", "answered", "none"}]]
        /\ \A b \in Askers :
             reply'[c][b] = IF b # a THEN reply[c][b] ELSE IF gone THEN "none" ELSE "waiting"
    <3>1. CASE gone
      <4>1. reply' = [reply EXCEPT ![c][a] = "none"]
        BY <3>1
      <4> QED
        BY <3>1, <4>1
    <3>2. CASE ~gone
      <4>1. reply' = [reply EXCEPT ![c][a] = "waiting"]
        BY <3>2
      <4> QED
        BY <3>2, <4>1
    <3> QED
      BY <3>1, <3>2
  <2>0. reply[c][a] = "idle" /\ at[c] # "idle" /\ (a = "call" => at[c] = "calling")
    <3>1. CASE a = "call"
      BY <3>1 DEF MayAsk
    <3>2. CASE a = "coro"
      BY <3>2 DEF MayAsk, DecisionAgrees, Running
    <3>3. CASE a = "kept"
      BY <3>3 DEF MayAsk
    <3> QED
      BY <3>1, <3>2, <3>3 DEF Askers
  <2>2. CallAgrees(c)'
    BY <2>1, <2>0 DEF CallAgrees, Askers
  <2>3. CASE gone
    <3>1. AdmissionTypeOK'
      BY <2>1, <2>3
    <3>2. ChannelAgrees(c)'
      <4>1. \A x : InChannel(c, x)' <=> InChannel(c, x)
        BY <2>3 DEF InChannel
      <4> QED
        BY <2>1, <2>0, <2>3, <4>1 DEF ChannelAgrees
    <3> QED
      BY <3>1, <3>2, <2>2, Kept
  <2>4. CASE ~gone
    <3>1. asks[c] \in Seq(Askers \cup {Done}) /\ asks'[c] = Append(asks[c], a)
      BY <2>4
    <3>2. AdmissionTypeOK'
      <4>1. asks' = [asks EXCEPT ![c] = Append(asks[c], a)]
        BY <2>4
      <4>2. asks' \in [Carriers -> Seq(Askers \cup {Done})]
        BY <4>1, <3>1
      <4> QED
        BY <2>1, <4>2
    <3>3. ~InChannel(c, a)
      BY <2>0 DEF ChannelAgrees
    <3>4. /\ \A x : InChannel(c, x)' <=> x = a \/ InChannel(c, x)
          /\ \A i, j \in DOMAIN asks'[c] : asks'[c][i] = asks'[c][j] => i = j
      BY <3>1, <3>3, Joined
    <3>5. ChannelAgrees(c)'
      BY <2>0, <2>1, <2>4, <3>4 DEF ChannelAgrees, Askers, Done
    <3> QED
      BY <3>2, <3>5, <2>2, Kept
  <2> QED
    BY <2>3, <2>4
<1> QED
  BY <1>1, <1>2, <1>3, <1>4, <1>5, <1>6, <1>7, <1>8, <1>9, <1>10, <1>11, <1>12, <1>13
     DEF CallSteps, CallEnds, CoroYields

\* So do a decision's start and a listener that is made.
LEMMA StartStep ==
  ASSUME AdmissionInv, NEW c \in Carriers, NEW k \in {"decide", "credential"},
         NEW e \in BOOLEAN, Start(c, k, e)
  PROVE  AdmissionInv'
<1> USE DEF AdmissionInv, AdmissionTypeOK, Start, askVars, coroVars
<1>1. AdmissionTypeOK' /\ OneLoop'
  BY DEF OneLoop
<1>2. ASSUME NEW d \in Carriers, d # c
      PROVE  Agrees(d)'
  <2>1. UNCHANGED <<exporter[d], at[d], asks[d], reply[d], result[d], coro[d], outcome[d]>>
    BY <1>2
  <2> QED
    BY <2>1, Kept DEF Agrees
<1>3. ChannelAgrees(c)'
  <2>1. asks[c] = <<>> /\ asks'[c] = <<>> /\ at'[c] = "calling"
    BY DEF ChannelAgrees
  <2> QED
    BY <2>1 DEF ChannelAgrees, InChannel
<1>4. CallAgrees(c)' /\ DecisionAgrees(c)'
  BY DEF CallAgrees, DecisionAgrees
<1> QED
  BY <1>1, <1>2, <1>3, <1>4 DEF Agrees

LEMMA ForListenerStep ==
  ASSUME AdmissionInv, NEW loop \in Loops \cup {NoLoop}, ForListener(loop)
  PROVE  AdmissionInv'
<1> USE DEF AdmissionInv, AdmissionTypeOK, ForListener, callVars, askVars, coroVars
<1>1. AdmissionTypeOK' /\ OneLoop'
  BY DEF OneLoop
<1> QED
  BY <1>1, Kept

\* The inductive step, for the admission alone or with a listener.
LEMMA AdmissionStepKeeps ==
  ASSUME AdmissionInv, [AdmissionNext]_admissionVars
  PROVE  AdmissionInv'
<1>1. CASE AdmissionNext
  BY <1>1, CallStep, StartStep, ForListenerStep DEF AdmissionNext
<1>2. CASE UNCHANGED admissionVars
  BY <1>2, Kept
     DEF AdmissionInv, AdmissionTypeOK, OneLoop, admissionVars, callVars, askVars, coroVars
<1> QED
  BY <1>1, <1>2

LEMMA AdmissionStarts == AdmissionInit => AdmissionInv
<1> SUFFICES ASSUME AdmissionInit PROVE AdmissionInv
  OBVIOUS
<1> USE DEF AdmissionInit
<1>1. AdmissionTypeOK /\ OneLoop
  BY DEF AdmissionTypeOK, OneLoop
<1>2. ASSUME NEW c \in Carriers
      PROVE  ChannelAgrees(c) /\ CallAgrees(c) /\ DecisionAgrees(c)
  BY DEF ChannelAgrees, InChannel, CallAgrees, DecisionAgrees, Askers
<1> QED
  BY <1>1, <1>2 DEF AdmissionInv

\* The channel, the call and the decision of every carrier agree, whatever
\* threads and loops do (with_info, CarrierInfo.export, decide).
THEOREM AdmissionInvariance == AdmissionSpec => []AdmissionInv
BY AdmissionStarts, AdmissionStepKeeps, PTL DEF AdmissionSpec

\* No request of a call on a carrier with an exporter goes unanswered: with_info
\* sees Done only behind it (CarrierInfo.export, with_info).
THEOREM CallAnswered == AdmissionSpec => []CallExportAnswered
<1>1. AdmissionInv => CallExportAnswered
  BY DEF AdmissionInv, CallAgrees, CallExportAnswered
<1> QED
  BY <1>1, AdmissionInvariance, PTL

-----------------------------------------------------------------------------
(***************************************************************************)
(* The listener.                                                           *)
(***************************************************************************)

\* The inductive invariant: ServingInv, with what it is needed for.
ListenerInv == ServingInv /\ TransformReleases /\ CloseEndsLoops

\* Every step of a listener is a step of its admission or leaves it alone.
LEMMA ServingStepsAdmission ==
  ASSUME [Next]_vars
  PROVE  [AdmissionNext]_admissionVars
<1>1. CASE UNCHANGED vars
  BY <1>1 DEF vars
<1>2. ASSUME NEW l \in Listeners, ListenerStep(l)
      PROVE  [AdmissionNext]_admissionVars
  BY <1>2 DEF ListenerStep, NewListener, Close, Shutdown, ShutdownEnds, ShutdownCancelled, Accept,
              AdmissionNext
<1>3. ASSUME NEW loop \in Loops, OtherListener(loop)
      PROVE  AdmissionNext
  BY <1>3 DEF OtherListener, AdmissionNext
<1>4. ASSUME NEW s \in Serves, ServeStep(s)
      PROVE  UNCHANGED admissionVars
  BY <1>4 DEF ServeStep, Serve, BindFails, Bound, Register, LoopEnds, ServeMoves
<1>5. ASSUME NEW c \in Carriers, AdmissionStep(c)
      PROVE  AdmissionNext
  BY <1>5 DEF AdmissionStep, AdmissionNext
<1>6. ASSUME NEW c \in Carriers, CarrierStep(c)
      PROVE  [AdmissionNext]_admissionVars
  BY <1>6 DEF CarrierStep, Arrive, HandlePipe, Decide, Credential, CarrierCloses, Deliver,
              TransformCall, PythonUses, PythonCloses, TransformResolves, TransformTakes,
              TransformDropped, AdmissionNext
<1> QED
  BY <1>1, <1>2, <1>3, <1>4, <1>5, <1>6 DEF Next

\* What was decided about a carrier stays.
LEMMA OutcomeStays ==
  ASSUME AdmissionInv, [AdmissionNext]_admissionVars, NEW c \in Carriers, outcome[c] # "none"
  PROVE  outcome'[c] = outcome[c]
<1>1. ASSUME NEW d \in Carriers, CallSteps(d)
      PROVE  outcome'[c] = outcome[c]
  BY <1>1 DEF AdmissionInv, AdmissionTypeOK, CallSteps, CallEnds, CallReturns, CallPanics, SendDone,
              Answer, Finish, CoroStarts, CoroYields, CoroAwaits, CoroEnds, CoroResumes,
              CoroCancelled, CoroMoves, Settle, GiveUp, Export
<1> QED
  BY <1>1 DEF AdmissionNext, ForListener, Start, admissionVars

\* The loop an admission has taken stays.
LEMMA LoopStays ==
  ASSUME [AdmissionNext]_admissionVars, locals # NoLoop
  PROVE  locals' = locals
<1>1. ASSUME NEW d \in Carriers, CallSteps(d)
      PROVE  locals' = locals
  BY <1>1 DEF CallSteps, CallEnds, CallReturns, CallPanics, SendDone, Answer, Finish, CoroStarts,
              CoroYields, CoroAwaits, CoroEnds, CoroResumes, CoroCancelled, CoroMoves, Settle,
              GiveUp, Export
<1> QED
  BY <1>1 DEF AdmissionNext, ForListener, Start, admissionVars

\* A conjunct of ListenerInv is kept by a step that changes none of its
\* variables; what the listener let in stays admitted.
LEMMA ListenerKept ==
  ASSUME ListenerInv, AdmissionInv', [AdmissionNext]_admissionVars
  PROVE  /\ UNCHANGED <<lstVars, serveVars, carrierVars>> => TypeOK'
         /\ UNCHANGED <<opts, entry, conn>> => OnlyAdmitted'
         /\ UNCHANGED <<lst, entry, conn, trans>> => CarriersAgree'
         /\ UNCHANGED <<lst, serveVars>> => LoopsAgree' /\ CloseEndsLoops'
         /\ UNCHANGED <<conn, trans>> => TransformReleases'
         /\ UNCHANGED made => HomeAgrees'
<1> USE DEF ListenerInv, ServingInv
<1>1. UNCHANGED <<lstVars, serveVars, carrierVars>> => TypeOK'
  BY DEF TypeOK, AdmissionInv, lstVars, serveVars, carrierVars
<1>2. UNCHANGED <<opts, entry, conn>> => OnlyAdmitted'
  BY OutcomeStays DEF OnlyAdmitted, AdmissionInv, DecisionAgrees
<1>3. UNCHANGED <<lst, entry, conn, trans>> => CarriersAgree'
  BY DEF CarriersAgree
<1>4. UNCHANGED <<lst, serveVars>> => LoopsAgree' /\ CloseEndsLoops'
  BY DEF LoopsAgree, CloseEndsLoops, serveVars
<1>5. UNCHANGED <<conn, trans>> => TransformReleases'
  BY DEF TransformReleases
<1>6. UNCHANGED made => HomeAgrees'
  <2> SUFFICES ASSUME UNCHANGED made, NEW l \in Listeners, AtHome(l)'
               PROVE  locals' = made'[l].loop
    BY DEF HomeAgrees
  <2>1. AtHome(l) /\ made[l].loop # NoLoop /\ locals = made[l].loop
    BY DEF AtHome, HomeAgrees
  <2> QED
    BY <2>1, LoopStays
<1> QED
  BY <1>1, <1>2, <1>3, <1>4, <1>5, <1>6

\* Every step of a listener keeps the invariant.
LEMMA ListenerStepKeeps ==
  ASSUME ListenerInv, Next
  PROVE  ListenerInv'
<1>adm. AdmissionInv' /\ AdmissionTypeOK' /\ [AdmissionNext]_admissionVars
  BY ServingStepsAdmission, AdmissionStepKeeps DEF ListenerInv, ServingInv, AdmissionInv
<1>acc. \A c \in Carriers : outcome[c] = "accept" => outcome'[c] = "accept" /\ result'[c] = "accept"
  BY <1>adm, OutcomeStays DEF ListenerInv, ServingInv, AdmissionInv, DecisionAgrees
<1> USE ListenersAssumption
    DEF ListenerInv, ServingInv, TypeOK, lstVars, serveVars, carrierVars, None, Open
<1>1. ASSUME NEW l \in Listeners, NEW loop \in Loops \cup {NoLoop}, NEW o \in [admission
            : BOOLEAN, transform : BOOLEAN], NEW badArgument \in BOOLEAN, NEW badConfig
            \in BOOLEAN, NewListener(l, loop, o, badArgument, badConfig)
      PROVE  ListenerInv'
  <2> USE <1>1 DEF NewListener
  <2>1. TypeOK'
    <3>1. made' \in [Listeners -> [loop : Loops \cup {NoLoop}, had : Loops \cup {NoLoop}]]
      <4>1. [loop |-> loop, had |-> locals] \in [loop : Loops \cup {NoLoop}, had : Loops \cup {NoLoop}]
        BY DEF AdmissionTypeOK
      <4>2. \/ made' = made
            \/ made' = [made EXCEPT ![l] = [loop |-> loop, had |-> locals]]
        OBVIOUS
      <4> QED
        BY <4>1, <4>2
    <3>2. /\ lst' \in [Listeners -> Open \cup {None, "refused", "lapsed", "closed"}]
          /\ opts' \in [Listeners -> [admission : BOOLEAN, transform : BOOLEAN]]
      OBVIOUS
    <3> QED
      BY <1>adm, <3>1, <3>2
  <2>2. OnlyAdmitted'
    BY <1>acc DEF OnlyAdmitted, CarriersAgree
  <2>3. CarriersAgree'
    BY DEF CarriersAgree
  <2>4. LoopsAgree'
    BY DEF LoopsAgree
  <2>5. CloseEndsLoops'
    BY DEF CloseEndsLoops, LoopsAgree
  <2>6. HomeAgrees'
    <3> SUFFICES ASSUME NEW k \in Listeners, AtHome(k)'
                 PROVE  locals' = made'[k].loop
      BY DEF HomeAgrees
    <3>1. CASE k = l /\ o.admission /\ ~badArgument
      <4>1. ForListener(loop) /\ made'[k] = [loop |-> loop, had |-> locals]
        BY <3>1
      <4>2. loop # NoLoop /\ locals \in {NoLoop, loop}
        BY <4>1 DEF AtHome
      <4> QED
        BY <4>1, <4>2 DEF ForListener
    <3>2. CASE ~(k = l /\ o.admission /\ ~badArgument)
      <4>1. made'[k] = made[k]
        BY <3>2
      <4>2. made[k].loop # NoLoop /\ locals = made[k].loop
        BY <4>1 DEF AtHome, HomeAgrees
      <4> QED
        BY <1>adm, <4>1, <4>2, LoopStays
    <3> QED
      BY <3>1, <3>2
  <2> QED
    BY <2>1, <2>2, <2>3, <2>4, <2>5, <2>6, <1>adm, ListenerKept
<1>2. ASSUME NEW l \in Listeners, Close(l)
      PROVE  ListenerInv'
  <2> USE <1>2 DEF Close, AbortLoops, Registered, Unregistered
  <2>1. TypeOK'
    BY <1>adm
  <2>2. CarriersAgree'
    BY DEF CarriersAgree
  <2>3. LoopsAgree'
    BY DEF LoopsAgree
  <2>4. CloseEndsLoops'
    BY DEF CloseEndsLoops, LoopsAgree
  <2> QED
    BY <2>1, <2>2, <2>3, <2>4, <1>adm, ListenerKept
<1>3. ASSUME NEW l \in Listeners, Shutdown(l)
      PROVE  ListenerInv'
  <2> USE <1>3 DEF Shutdown
  <2>1. TypeOK'
    BY <1>adm
  <2>2. CarriersAgree'
    BY DEF CarriersAgree
  <2>3. LoopsAgree'
    BY DEF LoopsAgree
  <2>4. CloseEndsLoops'
    BY DEF CloseEndsLoops, LoopsAgree
  <2> QED
    BY <2>1, <2>2, <2>3, <2>4, <1>adm, ListenerKept
<1>4. ASSUME NEW l \in Listeners, ShutdownEnds(l)
      PROVE  ListenerInv'
  <2> USE <1>4 DEF ShutdownEnds, AbortLoops, Registered, Unregistered
  <2>1. TypeOK'
    BY <1>adm
  <2>2. CarriersAgree'
    BY DEF CarriersAgree
  <2>3. LoopsAgree'
    BY DEF LoopsAgree
  <2>4. CloseEndsLoops'
    BY DEF CloseEndsLoops, LoopsAgree
  <2> QED
    BY <2>1, <2>2, <2>3, <2>4, <1>adm, ListenerKept
<1>5. ASSUME NEW l \in Listeners, ShutdownCancelled(l)
      PROVE  ListenerInv'
  <2> USE <1>5 DEF ShutdownCancelled
  <2>1. TypeOK'
    BY <1>adm
  <2>2. CarriersAgree'
    BY DEF CarriersAgree
  <2>3. LoopsAgree'
    BY DEF LoopsAgree
  <2>4. CloseEndsLoops'
    BY DEF CloseEndsLoops, LoopsAgree
  <2> QED
    BY <2>1, <2>2, <2>3, <2>4, <1>adm, ListenerKept
<1>6. ASSUME NEW l \in Listeners, NEW c \in Carriers, Accept(l, c)
      PROVE  ListenerInv'
  <2> USE <1>6 DEF Accept
  <2>1. TypeOK'
    BY <1>adm
  <2>2. OnlyAdmitted'
    BY <1>acc DEF OnlyAdmitted, CarriersAgree
  <2>3. CarriersAgree'
    BY DEF CarriersAgree
  <2>4. TransformReleases'
    BY DEF TransformReleases, CarriersAgree
  <2> QED
    BY <2>1, <2>2, <2>3, <2>4, <1>adm, ListenerKept
<1>7. ASSUME NEW loop \in Loops, OtherListener(loop)
      PROVE  ListenerInv'
  <2>1. UNCHANGED <<lstVars, serveVars, carrierVars>>
    BY <1>7 DEF OtherListener
  <2> QED
    BY <2>1, <1>adm, ListenerKept
<1>8. ASSUME NEW s \in Serves, NEW l \in Listeners, NEW zeroRtt \in BOOLEAN, Serve(s, l,
            zeroRtt)
      PROVE  ListenerInv'
  <2> USE <1>8 DEF Serve
  <2>1. TypeOK'
    BY <1>adm
  <2>2. LoopsAgree'
    BY DEF LoopsAgree
  <2>3. CloseEndsLoops'
    BY DEF CloseEndsLoops, LoopsAgree
  <2> QED
    BY <2>1, <2>2, <2>3, <1>adm, ListenerKept
<1>9. ASSUME NEW s \in Serves, BindFails(s)
      PROVE  ListenerInv'
  <2> USE <1>9 DEF BindFails, ServeMoves
  <2>1. TypeOK'
    BY <1>adm
  <2>2. LoopsAgree'
    BY DEF LoopsAgree
  <2>3. CloseEndsLoops'
    BY DEF CloseEndsLoops, LoopsAgree
  <2> QED
    BY <2>1, <2>2, <2>3, <1>adm, ListenerKept
<1>10. ASSUME NEW s \in Serves, Bound(s)
      PROVE  ListenerInv'
  <2> USE <1>10 DEF Bound, ServeMoves
  <2>1. TypeOK'
    BY <1>adm
  <2>2. LoopsAgree'
    BY DEF LoopsAgree
  <2>3. CloseEndsLoops'
    BY DEF CloseEndsLoops, LoopsAgree
  <2> QED
    BY <2>1, <2>2, <2>3, <1>adm, ListenerKept
<1>11. ASSUME NEW s \in Serves, Register(s)
      PROVE  ListenerInv'
  <2> USE <1>11 DEF Register, ServeMoves
  <2>1. TypeOK'
    BY <1>adm
  <2>2. LoopsAgree'
    BY DEF LoopsAgree
  <2>3. CloseEndsLoops'
    BY DEF CloseEndsLoops, LoopsAgree
  <2> QED
    BY <2>1, <2>2, <2>3, <1>adm, ListenerKept
<1>12. ASSUME NEW s \in Serves, LoopEnds(s)
      PROVE  ListenerInv'
  <2> USE <1>12 DEF LoopEnds, ServeMoves
  <2>1. TypeOK'
    BY <1>adm
  <2>2. LoopsAgree'
    BY DEF LoopsAgree
  <2>3. CloseEndsLoops'
    BY DEF CloseEndsLoops, LoopsAgree
  <2> QED
    BY <2>1, <2>2, <2>3, <1>adm, ListenerKept
<1>13. ASSUME NEW c \in Carriers, AdmissionStep(c)
      PROVE  ListenerInv'
  <2>1. UNCHANGED <<lstVars, serveVars, carrierVars>>
    BY <1>13 DEF AdmissionStep
  <2> QED
    BY <2>1, <1>adm, ListenerKept
<1>14. ASSUME NEW c \in Carriers, NEW s \in Serves, Arrive(c, s)
      PROVE  ListenerInv'
  <2> USE <1>14 DEF Arrive, CarrierMoves
  <2>1. TypeOK'
    BY <1>adm
  <2>2. OnlyAdmitted'
    BY <1>acc DEF OnlyAdmitted, CarriersAgree
  <2>3. CarriersAgree'
    BY DEF CarriersAgree, LoopsAgree
  <2>4. TransformReleases'
    BY DEF TransformReleases, CarriersAgree
  <2> QED
    BY <2>1, <2>2, <2>3, <2>4, <1>adm, ListenerKept
<1>15. ASSUME NEW c \in Carriers, NEW l \in Listeners, NEW badAddress \in BOOLEAN,
            HandlePipe(c, l, badAddress)
      PROVE  ListenerInv'
  <2> USE <1>15 DEF HandlePipe, CarrierMoves
  <2>1. TypeOK'
    BY <1>adm
  <2>2. OnlyAdmitted'
    BY <1>acc DEF OnlyAdmitted, CarriersAgree
  <2>3. CarriersAgree'
    BY DEF CarriersAgree
  <2>4. TransformReleases'
    BY DEF TransformReleases, CarriersAgree
  <2> QED
    BY <2>1, <2>2, <2>3, <2>4, <1>adm, ListenerKept
<1>16. ASSUME NEW c \in Carriers, NEW e \in BOOLEAN, Decide(c, e)
      PROVE  ListenerInv'
  <2>1. UNCHANGED <<lstVars, serveVars, carrierVars>>
    BY <1>16 DEF Decide
  <2> QED
    BY <2>1, <1>adm, ListenerKept
<1>17. ASSUME NEW c \in Carriers, NEW e \in BOOLEAN, Credential(c, e)
      PROVE  ListenerInv'
  <2>1. UNCHANGED <<lstVars, serveVars, carrierVars>>
    BY <1>17 DEF Credential
  <2> QED
    BY <2>1, <1>adm, ListenerKept
<1>18. ASSUME NEW c \in Carriers, CarrierCloses(c)
      PROVE  ListenerInv'
  <2> USE <1>18 DEF CarrierCloses, CarrierMoves
  <2>1. TypeOK'
    BY <1>adm
  <2>2. OnlyAdmitted'
    BY <1>acc DEF OnlyAdmitted, CarriersAgree
  <2>3. CarriersAgree'
    BY DEF CarriersAgree
  <2>4. TransformReleases'
    BY DEF TransformReleases, CarriersAgree
  <2> QED
    BY <2>1, <2>2, <2>3, <2>4, <1>adm, ListenerKept
<1>19. ASSUME NEW c \in Carriers, Deliver(c)
      PROVE  ListenerInv'
  <2> USE <1>19 DEF Deliver, CarrierMoves, Admitted
  <2>1. TypeOK'
    BY <1>adm
  <2>2. OnlyAdmitted'
    BY <1>acc DEF OnlyAdmitted, CarriersAgree
  <2>3. CarriersAgree'
    BY DEF CarriersAgree
  <2>4. TransformReleases'
    BY DEF TransformReleases, CarriersAgree
  <2> QED
    BY <2>1, <2>2, <2>3, <2>4, <1>adm, ListenerKept
<1>20. ASSUME NEW c \in Carriers, NEW answer \in Answers \cup {"await"},
            TransformCall(c, answer)
      PROVE  ListenerInv'
  <2> USE <1>20 DEF TransformCall, Admitted
  <2>1. TypeOK'
    <3>1. CASE answer = "await"
      <4>1. /\ UNCHANGED ret
            /\ trans' = [trans EXCEPT ![c] = "pending"] /\ tcoro' = [tcoro EXCEPT ![c] = "runs"]
        BY <3>1
      <4> HIDE DEF Answers
      <4> QED
        BY <1>adm, <4>1
    <3>2. CASE answer # "await"
      <4>1. /\ answer \in Answers /\ UNCHANGED tcoro
            /\ trans' = [trans EXCEPT ![c] = "returned"] /\ ret' = [ret EXCEPT ![c] = answer]
        BY <3>2
      <4> HIDE DEF Answers
      <4> QED
        BY <1>adm, <4>1
    <3> QED
      BY <3>1, <3>2
  <2>2. OnlyAdmitted'
    BY <1>acc DEF OnlyAdmitted, CarriersAgree
  <2>3. CarriersAgree'
    BY DEF CarriersAgree
  <2>4. TransformReleases'
    BY DEF TransformReleases, CarriersAgree
  <2> QED
    BY <2>1, <2>2, <2>3, <2>4, <1>adm, ListenerKept
<1>21. ASSUME NEW c \in Carriers, PythonUses(c)
      PROVE  ListenerInv'
  <2> USE <1>21 DEF PythonUses, CarrierMoves
  <2>1. TypeOK'
    BY <1>adm
  <2>2. OnlyAdmitted'
    BY <1>acc DEF OnlyAdmitted, CarriersAgree
  <2>3. CarriersAgree'
    BY DEF CarriersAgree
  <2>4. TransformReleases'
    BY DEF TransformReleases, CarriersAgree
  <2> QED
    BY <2>1, <2>2, <2>3, <2>4, <1>adm, ListenerKept
<1>22. ASSUME NEW c \in Carriers, PythonCloses(c)
      PROVE  ListenerInv'
  <2> USE <1>22 DEF PythonCloses, CarrierMoves
  <2>1. TypeOK'
    BY <1>adm
  <2>2. OnlyAdmitted'
    BY <1>acc DEF OnlyAdmitted, CarriersAgree
  <2>3. CarriersAgree'
    BY DEF CarriersAgree
  <2>4. TransformReleases'
    BY DEF TransformReleases, CarriersAgree
  <2> QED
    BY <2>1, <2>2, <2>3, <2>4, <1>adm, ListenerKept
<1>23. ASSUME NEW c \in Carriers, NEW answer \in Answers, TransformResolves(c, answer)
      PROVE  ListenerInv'
  <2> USE <1>23 DEF TransformResolves
  <2>1. TypeOK'
    <3>1. tcoro' \in [Carriers -> {None, "runs", "cancelled", "over"}]
      OBVIOUS
    <3>2. trans' = trans \/ trans' = [trans EXCEPT ![c] = "resolved"]
      OBVIOUS
    <3>3. ret' = ret \/ ret' = [ret EXCEPT ![c] = answer]
      OBVIOUS
    <3>4. trans' \in [Carriers -> {None, "returned", "pending", "resolved", "ok", "failed", "dropped"}]
      BY <3>2
    <3>5. ret' \in [Carriers -> Answers \cup {None}]
      BY <3>3
    <3> QED
      BY <1>adm, <3>1, <3>4, <3>5
  <2>2. CarriersAgree'
    BY DEF CarriersAgree
  <2>3. TransformReleases'
    BY DEF TransformReleases, CarriersAgree
  <2> QED
    BY <2>1, <2>2, <2>3, <1>adm, ListenerKept
<1>24. ASSUME NEW c \in Carriers, TransformTakes(c)
      PROVE  ListenerInv'
  <2> USE <1>24 DEF TransformTakes, Release
  <2>1. TypeOK'
    BY <1>adm
  <2>2. OnlyAdmitted'
    BY <1>acc DEF OnlyAdmitted, CarriersAgree
  <2>3. CarriersAgree'
    BY DEF CarriersAgree
  <2>4. TransformReleases'
    BY DEF TransformReleases, CarriersAgree
  <2> QED
    BY <2>1, <2>2, <2>3, <2>4, <1>adm, ListenerKept
<1>25. ASSUME NEW c \in Carriers, TransformDropped(c)
      PROVE  ListenerInv'
  <2> USE <1>25 DEF TransformDropped, Release
  <2>1. TypeOK'
    BY <1>adm
  <2>2. OnlyAdmitted'
    BY <1>acc DEF OnlyAdmitted, CarriersAgree
  <2>3. CarriersAgree'
    BY DEF CarriersAgree
  <2>4. TransformReleases'
    BY DEF TransformReleases, CarriersAgree
  <2> QED
    BY <2>1, <2>2, <2>3, <2>4, <1>adm, ListenerKept
<1>26. ASSUME NEW l \in Listeners, ListenerStep(l)
       PROVE  ListenerInv'
  BY ONLY <1>26, <1>1, <1>2, <1>3, <1>4, <1>5, <1>6, l \in Listeners DEF ListenerStep
<1>27. ASSUME NEW s \in Serves, ServeStep(s)
       PROVE  ListenerInv'
  BY ONLY <1>27, <1>8, <1>9, <1>10, <1>11, <1>12, s \in Serves DEF ServeStep
<1>28. ASSUME NEW c \in Carriers, CarrierStep(c)
       PROVE  ListenerInv'
  BY ONLY <1>28, <1>14, <1>15, <1>16, <1>17, <1>18, <1>19, <1>20, <1>21,
          <1>22, <1>23, <1>24, <1>25, c \in Carriers
     DEF CarrierStep
<1> QED
  BY ONLY Next, <1>7, <1>13, <1>26, <1>27, <1>28 DEF Next

\* ListenerInv is an invariant of the specification.
THEOREM ServingInvariance == Spec => []ListenerInv
<1>1. Init => ListenerInv
  <2> SUFFICES ASSUME Init PROVE ListenerInv
    OBVIOUS
  <2>1. AdmissionInv
    BY AdmissionStarts DEF Init
  <2>2. TypeOK
    BY <2>1 DEF Init, TypeOK, AdmissionInv, Open, None
  <2>3. OnlyAdmitted /\ CarriersAgree /\ LoopsAgree /\ HomeAgrees
    BY DEF Init, OnlyAdmitted, CarriersAgree, LoopsAgree, HomeAgrees, AtHome, None
  <2>4. TransformReleases /\ CloseEndsLoops
    BY DEF Init, TransformReleases, CloseEndsLoops, None
  <2> QED
    BY <2>1, <2>2, <2>3, <2>4 DEF ListenerInv, ServingInv
<1>2. ListenerInv /\ [Next]_vars => ListenerInv'
  <2>1. ASSUME ListenerInv, UNCHANGED vars
        PROVE  ListenerInv'
    <3>1. AdmissionInv' /\ [AdmissionNext]_admissionVars
      BY <2>1, AdmissionStepKeeps DEF vars, ListenerInv, ServingInv
    <3> QED
      BY <2>1, <3>1, ListenerKept
         DEF vars, lstVars, serveVars, carrierVars, ListenerInv, ServingInv
  <2> QED
    BY <2>1, ListenerStepKeeps
<1> QED
  BY <1>1, <1>2, PTL DEF Spec

\* A listener with an admission lets a carrier past the crate only if its
\* decider said accept (decide, verdict, with_info).
THEOREM AdmittedOnly == Spec => []ServingInv
<1>1. ListenerInv => ServingInv
  BY DEF ListenerInv
<1> QED
  BY <1>1, ServingInvariance, PTL

\* The coroutines of an async decider run on the loop their listener was made
\* in, for a listener that gave its admission the loop or found its own there
\* (Admission.new, for_listener, Decider::start).
THEOREM DecidedAtHome == Spec => []DecidesAtHome
<1>1. ListenerInv => DecidesAtHome
  BY DEF ListenerInv, ServingInv, AdmissionInv, OneLoop, HomeAgrees, DecidesAtHome
<1> QED
  BY <1>1, ServingInvariance, PTL

\* A transform that is over has emptied the object it was given, and closed
\* the carrier if it failed, unless Python used it up first (layer::call).
THEOREM TransformLetsGo == Spec => []TransformReleases
<1>1. ListenerInv => TransformReleases
  BY DEF ListenerInv
<1> QED
  BY <1>1, ServingInvariance, PTL

\* The accept loops of a closed listener that run on are those whose serve_*
\* call had not registered its loop at the close (Listener.close, serve_*).
THEOREM LoopsEnd == Spec => []CloseEndsLoops
<1>1. ListenerInv => CloseEndsLoops
  BY DEF ListenerInv
<1> QED
  BY <1>1, ServingInvariance, PTL

\* A listener drives its admission as the admission may be driven: the steps of
\* Serving are steps of Admission (fairness aside).
THEOREM ServingRefinesAdmission == Spec => AdmissionInit /\ [][AdmissionNext]_admissionVars
<1>1. Init => AdmissionInit
  BY DEF Init
<1> QED
  BY <1>1, ServingStepsAdmission, PTL DEF Spec
=============================================================================
