------------------------- MODULE StreamWriterProofs -------------------------
(***************************************************************************)
(* The safety of StreamWriter, for every high-water mark and any number of *)
(* bytes.                                                                  *)
(***************************************************************************)
EXTENDS StreamWriter, TLAPS

\* write() preserves the invariant.
LEMMA WriteStep ==
  ASSUME WriterInv, NEW n \in Nat, Write(n)
  PROVE  WriterInv'
BY WriterAssumption
   DEF WriterInv, TypeOK, QueuedIsWhatWaits, FlushState, SentIsPrefix, FinishState,
       DrainState, Write, Ended, close, draining

\* The background task's step, and the end of one of its sends.
LEMMA FlushStep ==
  ASSUME WriterInv, FlushRun \/ SendDone
  PROVE  WriterInv'
<1> USE DEF WriterInv, TypeOK, QueuedIsWhatWaits, FlushState, SentIsPrefix, FinishState,
            DrainState, Ended, close, Woken
<1>1. CASE FlushRun /\ written > took
  BY <1>1 DEF FlushRun, FlushLoop
<1>2. CASE FlushRun /\ ~(written > took)
  BY <1>2 DEF FlushRun, FlushLoop
<1>3. CASE SendDone /\ written > took
  BY <1>3 DEF SendDone, FlushLoop
<1>4. CASE SendDone /\ ~(written > took)
  BY <1>4 DEF SendDone, FlushLoop
<1>5. QED
  BY <1>1, <1>2, <1>3, <1>4

\* The stream fails, and a send on it.
LEMMA FailStep ==
  ASSUME WriterInv, SendFails \/ Break
  PROVE  WriterInv'
<1> USE DEF WriterInv, TypeOK, QueuedIsWhatWaits, FlushState, SentIsPrefix, FinishState,
            DrainState, Ended, close, draining, Woken
<1>1. CASE SendFails
  BY <1>1 DEF SendFails
<1>2. CASE Break
  BY <1>2 DEF Break
<1>3. QED
  BY <1>1, <1>2

\* drain() waits only for bytes that are queued.
LEMMA DrainStep ==
  ASSUME WriterInv, Drain \/ DrainReturn
  PROVE  WriterInv'
<1> USE WriterAssumption
    DEF WriterInv, TypeOK, QueuedIsWhatWaits, FlushState, SentIsPrefix, FinishState,
        DrainState, Ended, close, data
<1>1. CASE Drain
  <2>1. /\ UNCHANGED <<data, flush, broken, close>> /\ mark' = written
        /\ \/ drain' = "waiting" /\ flush \notin Ended /\ queued > HighWater
           \/ drain' \in {"failed", "idle"}
    BY <1>1 DEF Drain
  <2>2. QED
    BY <2>1
<1>2. CASE DrainReturn
  BY <1>2 DEF DrainReturn
<1>3. QED
  BY <1>1, <1>2

\* close(), wait_closed() and the steps of _finish: stream.finish() is
\* reached only after the background task ended well.
LEMMA CloseStep ==
  ASSUME WriterInv, Close \/ WaitClosed \/ FinishRun \/ FinishWake \/ FinishEnds
                      \/ WaitClosedReturn
  PROVE  WriterInv'
<1> USE DEF WriterInv, TypeOK, Ended
<1>1. UNCHANGED <<written, took, flight, queued, sent, flush, drain, mark, broken>>
  BY DEF Close, WaitClosed, FinishRun, FinishWake, FinishEnds, WaitClosedReturn, data, draining
<1>2. waiting' \in BOOLEAN /\ fin' \in BOOLEAN
  BY Zenon DEF Close, WaitClosed, FinishRun, FinishWake, FinishEnds, WaitClosedReturn
<1>3. /\ closing' \in {"none", "start", "flushing", "finishing"} \cup Ended
      /\ closing = "cancelled" => closing' = "cancelled"
      /\ closing' = "flushing" => flush # "none"
      /\ closing' = "finishing" => flush \in {"none", "done"}
  BY DEF Close, WaitClosed, FinishRun, FinishWake, FinishEnds, WaitClosedReturn, FinishState
<1>4. fin' => /\ flush \in {"none", "done"} /\ sent = written
              /\ closing' \in {"done", "cancelled"}
  <2>1. CASE fin' = fin
    <3>1. closing \in {"done", "cancelled"} => closing' = closing
      BY DEF Close, WaitClosed, FinishRun, FinishWake, FinishEnds, WaitClosedReturn
    <3>2. QED
      BY <2>1, <3>1 DEF FinishState
  <2>2. CASE ~(fin' = fin)
    <3>1. closing = "finishing" /\ ~broken /\ closing' = "done"
      BY <2>2 DEF Close, WaitClosed, FinishRun, FinishWake, FinishEnds, WaitClosedReturn
    <3>2. flush \in {"none", "done"}
      BY <3>1 DEF FinishState
    <3>3. sent = written
      BY <3>1, <3>2 DEF FlushState, SentIsPrefix, QueuedIsWhatWaits
    <3>4. QED
      BY <3>1, <3>2, <3>3
  <2>3. QED
    BY <2>1, <2>2
<1>5. QED
  BY <1>1, <1>2, <1>3, <1>4
     DEF QueuedIsWhatWaits, FlushState, SentIsPrefix, FinishState, DrainState

\* A cancelled wait_closed(): whatever it tears down, no byte is skipped
\* and no FIN sent early.
LEMMA CancelStep ==
  ASSUME WriterInv, CancelWaitClosed
  PROVE  WriterInv'
<1> USE DEF WriterInv, TypeOK, Ended
<1>1. closing' = "cancelled" /\ broken' = broken /\ ~(closing \in Ended)
  BY DEF CancelWaitClosed
<1>2. waiting' \in BOOLEAN /\ fin' \in BOOLEAN
  BY Zenon DEF CancelWaitClosed, CancelFlush
<1>3. CASE closing = "flushing" /\ flush \notin Ended
  <2>1. fin' = fin /\ CancelFlush
    BY <1>3 DEF CancelWaitClosed, CancelFlush
  <2>2. ~fin
    BY <1>3 DEF FinishState
  <2>3. QED
    BY <1>1, <1>2, <2>1, <2>2
       DEF CancelFlush, Woken, QueuedIsWhatWaits, FlushState, SentIsPrefix, FinishState,
           DrainState
<1>4. CASE ~(closing = "flushing" /\ flush \notin Ended)
  <2>1. UNCHANGED <<written, took, flight, queued, sent, flush, drain, mark>>
    BY <1>4 DEF CancelWaitClosed, data, draining
  <2>2. fin' => fin \/ (closing = "finishing" /\ ~broken)
    BY <1>4 DEF CancelWaitClosed
  <2>3. fin' => flush \in {"none", "done"} /\ sent = written
    BY <2>2 DEF FinishState, FlushState, SentIsPrefix, QueuedIsWhatWaits
  <2>4. QED
    BY <1>1, <1>2, <2>1, <2>3
       DEF QueuedIsWhatWaits, FlushState, SentIsPrefix, FinishState, DrainState
<1>5. QED
  BY <1>3, <1>4

\* _queued is exact, what is sent continues what was sent, and the states
\* of _flush, _finish and drain() fit together.
THEOREM WriterInvariance == Spec => []WriterInv
<1>1. Init => WriterInv
  <2> SUFFICES ASSUME Init PROVE WriterInv
    OBVIOUS
  <2>1. ~fin /\ fin \in BOOLEAN /\ waiting \in BOOLEAN /\ broken \in BOOLEAN
    BY Zenon DEF Init
  <2>2. /\ written = 0 /\ took = 0 /\ flight = 0 /\ queued = 0 /\ sent = 0 /\ mark = 0
        /\ flush = "none" /\ closing = "none" /\ drain = "idle"
    BY DEF Init
  <2>3. QED
    BY <2>1, <2>2
       DEF WriterInv, TypeOK, QueuedIsWhatWaits, FlushState, SentIsPrefix, FinishState,
           DrainState, Ended
<1>2. WriterInv /\ [Next]_vars => WriterInv'
  <2> SUFFICES ASSUME WriterInv, [Next]_vars
               PROVE  WriterInv'
    OBVIOUS
  <2>1. CASE UNCHANGED vars
    BY <2>1 DEF vars, WriterInv, TypeOK, QueuedIsWhatWaits, FlushState, SentIsPrefix,
                FinishState, DrainState
  <2>2. CASE \E n \in 0..MaxWritten : Write(n)
    BY <2>2, WriteStep, WriterAssumption
  <2>3. QED
    BY <2>1, <2>2, FlushStep, FailStep, DrainStep, CloseStep, CancelStep DEF Next
<1>3. QED
  BY <1>1, <1>2, PTL DEF Spec

\* The FIN comes after every byte written.
THEOREM FinLast == Spec => []FinAfterAll
<1>1. WriterInv => FinAfterAll
  BY DEF WriterInv, FinishState, FinAfterAll
<1>2. QED
  BY <1>1, WriterInvariance, PTL

\* A drain() that waited and returns means that what was written before it
\* is on the stream.
THEOREM DrainSent == Spec => []DrainMeansSent
<1>1. WriterInv => DrainMeansSent
  BY DEF WriterInv, DrainState, DrainMeansSent
<1>2. QED
  BY <1>1, WriterInvariance, PTL
=============================================================================
