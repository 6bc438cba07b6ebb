---------------------------- MODULE StreamWriter ----------------------------
(***************************************************************************)
(* StreamWriter of src/python/zmux/__init__.py: a buffer in front of a     *)
(* SendStream, sent by a background task (_flush), and closed by another   *)
(* (_finish) that awaits the first.                                        *)
(*                                                                         *)
(* Everything runs on one event loop; a step ends at an await.  Bytes are  *)
(* counted: the bytes written are 1..written, _flush has taken the first   *)
(* `took` of them out of _buf, the last `flight` of those are in           *)
(* stream.write.  A stream that failed once fails every later write and    *)
(* finish (external, the zmux crate).                                      *)
(***************************************************************************)
EXTENDS Naturals

CONSTANTS
  HighWater,   \* high_water
  MaxWritten   \* bound on the bytes written

ASSUME WriterAssumption == HighWater \in Nat /\ MaxWritten \in Nat

VARIABLES
  written,   \* the bytes given to write()
  took,      \* of them, the ones _flush took out of _buf
  flight,    \* the length of the data in stream.write
  queued,    \* _queued
  sent,      \* the bytes the stream accepted
  flush,     \* _task
  closing,   \* _closing
  waiting,   \* a task is in wait_closed()
  drain,     \* the task that is in drain()
  mark,      \* the bytes written when it called drain()
  broken,    \* the stream failed
  fin        \* the stream was finished

data == <<written, took, flight, queued, sent>>
close == <<closing, waiting, fin>>
draining == <<drain, mark>>
vars == <<written, took, flight, queued, sent, flush, closing, waiting, drain, mark, broken, fin>>

Ended == {"done", "failed", "cancelled"}

TypeOK ==
  /\ written \in Nat /\ took \in Nat /\ flight \in Nat
  /\ queued \in Nat /\ sent \in Nat /\ mark \in Nat
  /\ flush \in {"none", "start", "sending"} \cup Ended
  /\ closing \in {"none", "start", "flushing", "finishing"} \cup Ended
  /\ drain \in {"idle", "waiting"} \cup Ended
  /\ waiting \in BOOLEAN /\ broken \in BOOLEAN /\ fin \in BOOLEAN

Init ==
  /\ written = 0 /\ took = 0 /\ flight = 0 /\ queued = 0 /\ sent = 0
  /\ flush = "none" /\ closing = "none" /\ drain = "idle"
  /\ mark = 0
  /\ waiting = FALSE /\ broken = FALSE /\ fin = FALSE

-----------------------------------------------------------------------------
(***************************************************************************)
(* write() and the background task.                                        *)
(***************************************************************************)

\* Mutant of Write: only the first write starts the background task.
WriteOnce(n) ==
  /\ closing = "none"
  /\ written + n <= MaxWritten
  /\ written' = written + n
  /\ queued' = queued + n
  /\ flush' = IF flush = "none" THEN "start" ELSE flush
  /\ UNCHANGED <<took, flight, sent, broken, close, draining>>

\* write(): refused once closing; starts _flush unless it is running.
Write(n) ==
  /\ closing = "none"
  /\ written + n <= MaxWritten
  /\ written' = written + n
  /\ queued' = queued + n
  /\ flush' = IF flush \in {"none"} \cup Ended THEN "start" ELSE flush
  /\ UNCHANGED <<took, flight, sent, broken, close, draining>>

\* Mutant of Woken: a failed send looks like a sent one.
WokenBlindly(result) == IF drain = "waiting" THEN "done" ELSE drain

\* _flush ends: a drain() that shields it goes on with its result.
Woken(result) == IF drain = "waiting" THEN result ELSE drain

\* `while self._buf`: the next data, or the end of the task.
FlushLoop ==
  IF written > took
  THEN /\ took' = written
       /\ flight' = written - took
       /\ flush' = "sending"
       /\ UNCHANGED drain
  ELSE /\ flight' = 0
       /\ flush' = "done"
       /\ drain' = Woken("done")
       /\ UNCHANGED took

FlushRun ==
  /\ flush = "start"
  /\ FlushLoop
  /\ UNCHANGED <<written, queued, sent, mark, broken, close>>

\* stream.write returns: all of the data is on the stream.
SendDone ==
  /\ flush = "sending" /\ ~broken
  /\ sent' = sent + flight
  /\ queued' = queued - flight
  /\ FlushLoop
  /\ UNCHANGED <<written, mark, broken, close>>

\* stream.write raises, and _flush with it.
SendFails ==
  /\ flush = "sending" /\ broken
  /\ queued' = queued - flight
  /\ flight' = 0
  /\ flush' = "failed"
  /\ drain' = Woken("failed")
  /\ UNCHANGED <<written, took, sent, mark, broken, close>>

\* The stream fails (reset by the peer, session lost); a prefix of what is
\* in flight may have been accepted.
Break ==
  /\ ~broken
  /\ broken' = TRUE
  /\ \E n \in 0..flight : sent' = sent + n
  /\ UNCHANGED <<written, took, flight, queued, flush, close, draining>>

-----------------------------------------------------------------------------
(***************************************************************************)
(* drain().                                                                *)
(***************************************************************************)

\* drain() waits for the running task above the mark; otherwise it returns,
\* or raises the error of the task that ended.
Drain ==
  /\ drain = "idle" /\ flush # "none"
  /\ mark' = written
  /\ drain' = CASE flush \notin Ended /\ queued > HighWater -> "waiting"
                [] flush = "failed" -> "failed"
                [] OTHER -> "idle"
  /\ drain' # drain
  /\ UNCHANGED <<data, flush, broken, close>>

\* It returns, or raises; a waiting drain() that is cancelled leaves the
\* task alone (shield).
DrainReturn ==
  /\ drain # "idle"
  /\ drain' = "idle"
  /\ UNCHANGED <<data, mark, flush, broken, close>>

-----------------------------------------------------------------------------
(***************************************************************************)
(* close(), write_eof() and wait_closed().                                 *)
(***************************************************************************)

\* close(), write_eof(): _finishing makes the task once.
Close ==
  /\ closing = "none"
  /\ closing' = "start"
  /\ UNCHANGED <<data, flush, waiting, broken, fin, draining>>

\* wait_closed(): _finishing too, then awaits the task.
WaitClosed ==
  /\ ~waiting /\ closing \notin Ended
  /\ waiting' = TRUE
  /\ closing' = IF closing = "none" THEN "start" ELSE closing
  /\ UNCHANGED <<data, flush, broken, fin, draining>>

\* Mutant of FinishRun: _finish does not await the background task.
FinishRunAtOnce ==
  /\ closing = "start"
  /\ closing' = "finishing"
  /\ UNCHANGED <<data, flush, waiting, broken, fin, draining>>

\* _finish starts: it awaits _task if there is one.
FinishRun ==
  /\ closing = "start"
  /\ closing' = IF flush = "none" THEN "finishing" ELSE "flushing"
  /\ UNCHANGED <<data, flush, waiting, broken, fin, draining>>

\* Mutant of FinishWake: the failure of the task is waited out.
FinishWakeDone ==
  /\ closing = "flushing" /\ flush = "done"
  /\ closing' = "finishing"
  /\ UNCHANGED <<data, flush, waiting, broken, fin, draining>>

\* `await self._task` ends: on to stream.finish(), or out with its error.
FinishWake ==
  /\ closing = "flushing" /\ flush \in Ended
  /\ closing' = IF flush = "done" THEN "finishing" ELSE flush
  /\ UNCHANGED <<data, flush, waiting, broken, fin, draining>>

\* `await self.stream.finish()` ends.
FinishEnds ==
  /\ closing = "finishing"
  /\ IF broken THEN closing' = "failed" /\ UNCHANGED fin
               ELSE closing' = "done" /\ fin' = TRUE
  /\ UNCHANGED <<data, flush, waiting, broken, draining>>

\* wait_closed() returns, or raises what _finish did.
WaitClosedReturn ==
  /\ waiting /\ closing \in Ended
  /\ waiting' = FALSE
  /\ UNCHANGED <<data, flush, closing, broken, fin, draining>>

\* The cancellation reaches stream.write: a prefix of the data may be sent.
CancelFlush ==
  /\ flush' = "cancelled"
  /\ drain' = Woken("cancelled")
  /\ flight' = 0
  /\ queued' = queued - flight
  /\ \E n \in 0..(IF broken THEN 0 ELSE flight) : sent' = sent + n
  /\ UNCHANGED <<written, took, mark, fin>>

\* The task in wait_closed() is cancelled, and with it what it awaits:
\* _finish, and _flush or stream.finish() (which may have ended) if that
\* is where _finish is.
CancelWaitClosed ==
  /\ waiting /\ closing \notin Ended
  /\ waiting' = FALSE
  /\ closing' = "cancelled"
  /\ IF closing = "flushing" /\ flush \notin Ended
     THEN CancelFlush
     ELSE /\ fin' \in {fin, closing = "finishing" /\ ~broken}
          /\ UNCHANGED <<data, flush, draining>>
  /\ UNCHANGED broken

-----------------------------------------------------------------------------

Next ==
  \/ \E n \in 0..MaxWritten : Write(n)
  \/ FlushRun \/ SendDone \/ SendFails \/ Break
  \/ Drain \/ DrainReturn
  \/ Close \/ WaitClosed \/ FinishRun \/ FinishWake \/ FinishEnds
  \/ WaitClosedReturn \/ CancelWaitClosed

(***************************************************************************)
(* Fairness: the loop runs its tasks, and a write on the stream ends: the  *)
(* peer takes the data or the stream fails.                                *)
(***************************************************************************)
Fairness ==
  /\ WF_vars(FlushRun) /\ WF_vars(SendDone \/ SendFails)
  /\ WF_vars(FinishRun) /\ WF_vars(FinishWake) /\ WF_vars(FinishEnds)

Spec == Init /\ [][Next]_vars /\ Fairness

-----------------------------------------------------------------------------
(***************************************************************************)
(* Properties.                                                             *)
(***************************************************************************)

QueuedIsWhatWaits == took <= written /\ flight <= took /\ queued = (written - took) + flight

FlushState ==
  /\ flush # "sending" => flight = 0
  /\ flush = "none" => written = 0
  /\ flush = "cancelled" => closing = "cancelled"
  /\ flush = "done" => took = written
  /\ ~broken => flush # "failed"

SentIsPrefix ==
  /\ sent <= took
  /\ ~broken /\ flush # "cancelled" => sent = took - flight

FinishState ==
  /\ closing = "flushing" => flush # "none"
  /\ closing = "finishing" => flush \in {"none", "done"}
  /\ fin => (flush \in {"none", "done"} /\ sent = written)
  /\ fin => closing \in {"done", "cancelled"}

DrainState ==
  /\ drain # "idle" => mark <= written
  /\ drain = "waiting" => flush \in {"start", "sending"} /\ queued > 0
  /\ drain = "done" => sent >= mark

\* _queued counts exactly the bytes in _buf and in flight, whatever ends a
\* send; what _flush sends next continues what the stream has, as long as
\* the stream lives; the states of the three tasks fit together.
WriterInv ==
  TypeOK /\ QueuedIsWhatWaits /\ FlushState /\ SentIsPrefix /\ FinishState /\ DrainState

\* The FIN comes after every byte written: "finish the stream once the
\* queue is sent" (StreamWriter's docstring).
FinAfterAll == fin => sent = written

\* A drain() that waited and returns normally means that what was written
\* before it is on the stream, though more may have been written since; a
\* failed send raises.
DrainMeansSent == drain = "done" => sent >= mark

\* What is written is sent in the background, unless the stream fails or
\* the close is cancelled.
WritesSent ==
  \A n \in 1..MaxWritten :
    written >= n ~> sent >= n \/ broken \/ closing = "cancelled"

\* What waits on the writer comes to an end: close() and write_eof(), and a
\* drain(), which the failure of the send wakes too.
CloseEnds ==
  /\ closing # "none" ~> closing \in Ended
  /\ drain = "waiting" ~> drain # "waiting"

\* The docstring (__init__.py:485): "close()/write_eof() finish the stream
\* once the queue is sent."  A stream that does not fail is finished.
CloseFinishes == closing # "none" ~> fin \/ broken
=============================================================================
