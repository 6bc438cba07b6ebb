-------------------------- MODULE StreamPartsProofs -------------------------
(***************************************************************************)
(* The safety of the stream handles, for every set of calls and streams.   *)
(***************************************************************************)
EXTENDS StreamParts, TLAPS

\* The coroutine calls of StreamParts that touch no mutex keep the order of
\* the waiters: they change the two sides of the call only.
LEMMA CallPreserves ==
  ASSUME PartsInv, NEW c \in Calls, Start(c) \/ Cancel(c) \/ Return(c)
  PROVE  PartsInv'
<1> USE PartsAssumption DEF PartsInv, PartsTypeOK, partVars
<1>1. PartsTypeOK' /\ LineIsRunning' /\ Unanswered'
  BY DEF Start, Cancel, Return, Begin, Abandon, Answer, LineIsRunning, Unanswered
<1>2. LineIsOrdered'
  BY DEF Start, Cancel, Return, LineIsOrdered, LineFor
<1>3. QED
  BY <1>1, <1>2

\* p.lock(): the call goes to the end of the line of its part.
LEMMA LockPreserves ==
  ASSUME PartsInv, NEW c \in Calls, Lock(c)
  PROVE  PartsInv'
<1> USE PartsAssumption DEF PartsInv, PartsTypeOK
<1>1. PartsTypeOK' /\ LineIsRunning' /\ Unanswered'
  BY DEF Lock, LineIsRunning, Unanswered, LineFor
<1>2. /\ line' = line \cup {c} /\ c \notin line
      /\ \A d \in Calls : d # c => ahead'[d] = ahead[d]
      /\ ahead'[c] = LineFor(PartOf[c]) /\ ahead[c] = {}
  BY DEF Lock, LineIsOrdered
<1>3. \A d \in Calls : c \notin ahead[d]
  BY <1>2 DEF LineIsOrdered, LineFor
<1>4. \A d \in Calls : ahead'[d] \subseteq LineFor(PartOf[d])'
  BY <1>2 DEF LineIsOrdered, LineFor
<1>5. \A d \in Calls \ line' : ahead'[d] = {}
  BY <1>2 DEF LineIsOrdered
<1>6. \A d, e \in Calls : d \in ahead'[e] => e \notin ahead'[d] /\ ahead'[d] \subseteq ahead'[e]
  <2> SUFFICES ASSUME NEW d \in Calls, NEW e \in Calls, d \in ahead'[e]
               PROVE  e \notin ahead'[d] /\ ahead'[d] \subseteq ahead'[e]
    OBVIOUS
  <2>1. d # c
    BY <1>2, <1>3 DEF LineFor
  <2>2. CASE e = c
    BY <1>2, <1>3, <2>1, <2>2 DEF LineIsOrdered, LineFor
  <2>3. CASE e # c
    BY <1>2, <2>1, <2>3 DEF LineIsOrdered
  <2>4. QED
    BY <2>2, <2>3
<1>7. \A d, e \in line' :
        d # e /\ PartOf[d] = PartOf[e] => d \in ahead'[e] \/ e \in ahead'[d]
  BY <1>2 DEF LineIsOrdered, LineFor
<1>8. QED
  BY <1>1, <1>4, <1>5, <1>6, <1>7 DEF LineIsOrdered

\* A call leaves the line, from wherever it stands: the order of the
\* others stays.
LEMMA LeaveOrdered ==
  ASSUME PartsInv, NEW c \in Calls, Leave(c)
  PROVE  LineIsOrdered' /\ line' \in SUBSET Calls /\ ahead' \in [Calls -> SUBSET Calls]
<1> USE PartsAssumption DEF PartsInv, PartsTypeOK
<1>1. /\ line' = line \ {c}
      /\ \A d \in Calls : d # c => ahead'[d] = ahead[d] \ {c}
      /\ ahead'[c] = {}
      /\ ahead' \in [Calls -> SUBSET Calls]
  BY DEF Leave
<1>2. \A d \in Calls : ahead'[d] \subseteq LineFor(PartOf[d])'
  BY <1>1 DEF LineIsOrdered, LineFor
<1>3. \A d \in Calls \ line' : ahead'[d] = {}
  BY <1>1 DEF LineIsOrdered
<1>4. \A d, e \in Calls : d \in ahead'[e] => e \notin ahead'[d] /\ ahead'[d] \subseteq ahead'[e]
  BY <1>1 DEF LineIsOrdered
<1>5. \A d, e \in line' :
        d # e /\ PartOf[d] = PartOf[e] => d \in ahead'[e] \/ e \in ahead'[d]
  BY <1>1 DEF LineIsOrdered
<1>6. QED
  BY <1>1, <1>2, <1>3, <1>4, <1>5 DEF LineIsOrdered

\* The end of an operation, by itself or by its being dropped.
LEMMA EndPreserves ==
  ASSUME PartsInv, NEW c \in Calls, Use(c) \/ Taken(c) \/ Drop(c)
  PROVE  PartsInv'
<1> USE DEF PartsInv, PartsTypeOK
<1>1. LineIsOrdered' /\ line' \in SUBSET Calls /\ ahead' \in [Calls -> SUBSET Calls]
  BY LeaveOrdered DEF Use, Taken, Drop
<1>2. /\ caller' = caller /\ line' = line \ {c} /\ held' = held /\ pairs' = pairs
      /\ work' \in [Calls -> {"none", "running", "finished", "stopped"}]
      /\ \A d \in Calls : d # c => work'[d] = work[d]
      /\ work'[c] # "running"
  BY DEF Use, Taken, Drop, Finish, Stop, Leave
<1>3. LineIsRunning' /\ Unanswered'
  BY <1>2 DEF LineIsRunning, Unanswered
<1>4. QED
  BY <1>1, <1>2, <1>3

\* The plain calls touch parts that no call is in line for.
LEMMA PlainPreserves ==
  ASSUME PartsInv,
         \/ \E s \in Streams : Reject(s)
         \/ \E new \in SUBSET (Streams \X Streams) : TakePairs(new)
  PROVE  PartsInv'
<1> USE PartsAssumption DEF PartsInv, PartsTypeOK
<1>1. /\ caller' = caller /\ work' = work /\ line' = line /\ ahead' = ahead
      /\ held' \subseteq held
      /\ pairs' \subseteq Streams \X Streams
  BY DEF Reject, TakePairs
<1>2. LineIsRunning' /\ Unanswered' /\ LineIsOrdered'
  BY <1>1 DEF LineIsRunning, Unanswered, LineIsOrdered, LineFor
<1>3. QED
  BY <1>1, <1>2

\* stream_pipe and splice take pairs of streams that exist.
LEMMA PlainTakesPairs ==
  ASSUME NEW s \in Streams, NEW t \in Streams, NEW u \in Streams, NEW v \in Streams,
         StreamPipe(s, t) \/ Splice(s, t, u, v)
  PROVE  \E new \in SUBSET (Streams \X Streams) :
           /\ TakePairs(new)
           /\ \A p \in new : CanPair(p[1], p[2])
           /\ \A p, q \in new : p[1] = q[1] \/ p[2] = q[2] => p = q
<1>1. CASE StreamPipe(s, t)
  <2>1. {<<s, t>>} \in SUBSET (Streams \X Streams)
    OBVIOUS
  <2>2. QED
    BY <1>1, <2>1 DEF StreamPipe
<1>2. CASE Splice(s, t, u, v) /\ CanPair(u, v)
  <2>1. {<<s, t>>, <<u, v>>} \in SUBSET (Streams \X Streams)
    OBVIOUS
  <2>2. QED
    BY <1>2, <2>1 DEF Splice
<1>3. CASE Splice(s, t, u, v) /\ ~CanPair(u, v)
  <2>1. {<<s, t>>} \in SUBSET (Streams \X Streams)
    OBVIOUS
  <2>2. QED
    BY <1>3, <2>1 DEF Splice
<1>4. QED
  BY <1>1, <1>2, <1>3

\* Every step preserves the invariant.
LEMMA PartsStep == PartsInv /\ [PartsNext]_vars => PartsInv'
<1> SUFFICES ASSUME PartsInv, [PartsNext]_vars
             PROVE  PartsInv'
  OBVIOUS
<1>1. CASE \E c \in Calls : Coroutine(c)
  BY <1>1, CallPreserves, LockPreserves, EndPreserves DEF Coroutine
<1>2. CASE \E s \in Streams : Reject(s)
  BY <1>2, PlainPreserves
<1>3. CASE \E s, t \in Streams : StreamPipe(s, t)
  <2>1. PICK s \in Streams, t \in Streams : StreamPipe(s, t)
    BY <1>3
  <2>2. QED
    BY <2>1, PlainTakesPairs, PlainPreserves
<1>4. CASE \E s, t, u, v \in Streams : Splice(s, t, u, v)
  BY <1>4, PlainTakesPairs, PlainPreserves
<1>5. CASE UNCHANGED vars
  BY <1>5 DEF vars, PartsInv, PartsTypeOK, LineIsRunning, Unanswered, LineIsOrdered, LineFor
<1>6. QED
  BY <1>1, <1>2, <1>3, <1>4, <1>5 DEF PartsNext

\* The waiters of each mutex stand in one order and only operations in
\* progress are in line, for any number of calls on any parts.
THEOREM PartsInvariance == PartsSpec => []PartsInv
<1>1. PartsInit => PartsInv
  BY DEF PartsInit, Init, PartsInv, PartsTypeOK, LineIsRunning, Unanswered,
         LineIsOrdered, LineFor
<1>2. QED
  BY <1>1, PartsStep, PTL DEF PartsSpec

\* A part is used by one operation at a time.
THEOREM OneOwner == PartsSpec => []MutualExclusion
<1>1. PartsInv => MutualExclusion
  BY PartsAssumption DEF PartsInv, PartsTypeOK, LineIsOrdered, MutualExclusion, Owns
<1>2. QED
  BY <1>1, PartsInvariance, PTL

\* A plain method raises RuntimeError only while an operation is in
\* progress that nobody has had the result of.
THEOREM BusyJustified == PartsSpec => []BusyMeansInProgress
<1>1. PartsInv => BusyMeansInProgress
  BY DEF PartsInv, PartsTypeOK, LineIsRunning, Unanswered, BusyMeansInProgress,
         HeldNow, Busy, LineFor
<1>2. QED
  BY <1>1, PartsInvariance, PTL

\* What a plain call takes, no call is in line for.
LEMMA TakenWasIdle ==
  ASSUME PartsInv, PartsNext, NEW p \in held \ held'
  PROVE  HeldNow(p) = "ok"
<1> USE PartsAssumption DEF PartsInv, PartsTypeOK
<1>1. ASSUME NEW c \in Calls, Coroutine(c)
      PROVE  FALSE
  BY <1>1 DEF Coroutine, Start, Lock, Use, Taken, Cancel, Drop, Return, partVars
<1>2. ASSUME NEW s \in Streams, Reject(s)
      PROVE  HeldNow(p) = "ok"
  BY <1>2 DEF Reject
<1>3. ASSUME NEW new \in SUBSET (Streams \X Streams), TakePairs(new),
             \A q \in new : CanPair(q[1], q[2])
      PROVE  HeldNow(p) = "ok"
  BY <1>3 DEF TakePairs, CanPair
<1>4. QED
  BY <1>1, <1>2, <1>3, PlainTakesPairs DEF PartsNext

\* No part is taken out of its handle under an operation that owns it or
\* waits for it.
THEOREM NoTake == PartsSpec => NoTakeUnderOperation
<1>1. PartsInv /\ [PartsNext]_vars
        => [\A c \in line : (PartOf[c] \in held) => (PartOf[c] \in held')]_vars
  <2> SUFFICES ASSUME PartsInv, PartsNext, NEW c \in line, PartOf[c] \in held,
                      PartOf[c] \notin held'
               PROVE  FALSE
    OBVIOUS
  <2>1. HeldNow(PartOf[c]) = "ok"
    BY TakenWasIdle
  <2>2. Busy(PartOf[c])
    BY DEF Busy, LineFor
  <2>3. QED
    BY <2>1, <2>2 DEF HeldNow
<1>2. QED
  BY <1>1, PartsInvariance, PTL DEF PartsSpec, NoTakeUnderOperation

\* A stream becomes a pipe, or is spliced, once: what `pair` took is in no
\* handle and in no second pair.
THEOREM PairedOnce == PartsSpec => []PairsUsedUp
<1>1. PartsInit => PairsUsedUp
  BY DEF PartsInit, PairsUsedUp
<1>2. PartsInv /\ PairsUsedUp /\ [PartsNext]_vars => PairsUsedUp'
  <2> SUFFICES ASSUME PartsInv, PairsUsedUp, [PartsNext]_vars
               PROVE  PairsUsedUp'
    OBVIOUS
  <2>1. CASE held' = held /\ pairs' = pairs
    BY <2>1 DEF PairsUsedUp, Sending, Receiving
  <2>2. ASSUME NEW s \in Streams, Reject(s)
        PROVE  PairsUsedUp'
    BY <2>2 DEF Reject, PairsUsedUp, Sending, Receiving
  <2>3. ASSUME NEW new \in SUBSET (Streams \X Streams), TakePairs(new),
               \A p \in new : CanPair(p[1], p[2]),
               \A p, q \in new : p[1] = q[1] \/ p[2] = q[2] => p = q
        PROVE  PairsUsedUp'
    <3>1. /\ pairs' = pairs \cup new
          /\ \A x \in held' : x \in held
          /\ \A p \in new : Sending(p[1]) \notin held' /\ Receiving(p[2]) \notin held'
      BY <2>3 DEF TakePairs
    <3>2. \A p \in new : Sending(p[1]) \in held /\ Receiving(p[2]) \in held
      BY <2>3 DEF CanPair, HeldNow
    <3>3. \A p \in pairs, q \in new : p[1] # q[1] /\ p[2] # q[2]
      BY <3>2 DEF PairsUsedUp
    <3>4. \A p \in pairs' : Sending(p[1]) \notin held' /\ Receiving(p[2]) \notin held'
      BY <3>1 DEF PairsUsedUp
    <3>5. \A p, q \in pairs' : p[1] = q[1] \/ p[2] = q[2] => p = q
      BY <2>3, <3>1, <3>3 DEF PairsUsedUp
    <3>6. QED
      BY <3>4, <3>5 DEF PairsUsedUp, Sending, Receiving
  <2>4. ASSUME NEW c \in Calls, Coroutine(c)
        PROVE  held' = held /\ pairs' = pairs
    BY <2>4 DEF Coroutine, Start, Lock, Use, Taken, Cancel, Drop, Return, partVars
  <2>5. CASE UNCHANGED vars
    BY <2>1, <2>5 DEF vars
  <2>6. QED
    BY <2>1, <2>2, <2>3, <2>4, <2>5, PlainTakesPairs DEF PartsNext
<1>3. QED
  BY <1>1, <1>2, PartsInvariance, PTL DEF PartsSpec
=============================================================================
