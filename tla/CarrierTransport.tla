-------------------------- MODULE CarrierTransport --------------------------
(***************************************************************************)
(* _CarrierTransport of src/python/zmux/_layer.py over a CarrierStream of  *)
(* src/src/layer.rs: an asyncio transport whose two tasks, _read_loop and  *)
(* _write_loop, move data between a protocol and a carrier, and the end of *)
(* wrap(), which drops the carrier when the layer fails.                   *)
(*                                                                         *)
(* The tasks and every call of the transport run on one event loop; a step *)
(* ends at an await.  A call on the carrier is a Rust operation: it asks   *)
(* for its half's mutex, holds it while the carrier works, and its result  *)
(* waits for the task to be resumed.  A cancelled task runs no code any    *)
(* more; its operation is dropped a little later.                          *)
(*                                                                         *)
(* External: the protocol is asyncio's (StreamReaderProtocol, or its TLS   *)
(* protocol after start_tls): from data_received it may pause the reading  *)
(* or let an exception out, eof_received says whether to stay open.        *)
(***************************************************************************)
EXTENDS Integers, Sequences

CONSTANTS
  Sizes,       \* lengths of the data given to write()
  Marks,       \* arguments of set_write_buffer_limits()
  None,        \* an argument left out
  DefaultHigh, \* the high-water mark of a new transport
  MaxWrites    \* bound on the writes accepted

ASSUME TransportAssumption ==
  /\ Sizes \subseteq Nat /\ Marks \subseteq Nat /\ None \notin Nat
  /\ DefaultHigh \in Nat /\ MaxWrites \in Nat

VARIABLES
  queue,    \* _queue, each entry with its place in the order of the writes
  flight,   \* the entry _write_loop has taken from it
  queued,   \* _queued
  limits,   \* _high, _low
  paused,   \* _paused
  written,  \* the number of writes accepted
  reading,  \* _reading
  eof,      \* _eof
  closing,  \* _closing
  lost,     \* _lost
  rd, wr,   \* where _read_loop and _write_loop are
  rop, wop, \* their operations on the carrier
  half,     \* the halves the CarrierStream still has
  sent,     \* the writes the carrier took, in order
  shut,     \* the carrier's sending half was ended gracefully
  posted,   \* connection_lost calls in the loop's queue
  told,     \* connection_lost calls made
  why,      \* why the transport was lost
  over,     \* deliveries since the last pause_reading()
  wrap      \* the wrap() the transport belongs to

buffer == <<queue, flight, queued, limits, paused, written>>
flags == <<eof, closing>>
ending == <<lost, posted, told, why>>
reader == <<rd, rop, reading, over>>
writer == <<wr, wop>>
carrier == <<half, sent, shut, wrap>>
vars == <<buffer, flags, ending, reader, writer, carrier>>

Entry == [id : Nat, len : Nat]
NoEntry == [id |-> 0, len |-> 0]

\* Where a loop is: resumed next ("start", "woken"), in an Event ("waiting",
\* "idle"), in an operation, at its result, or over.
ReaderStates == {"start", "waiting", "woken", "reading", "data", "eof", "error", "ended"}
WriterStates == {"start", "idle", "woken", "writing", "wrote", "shutting", "shut", "error", "ended"}

FlagsOK ==
  /\ paused \in BOOLEAN /\ reading \in BOOLEAN /\ eof \in BOOLEAN
  /\ closing \in BOOLEAN /\ lost \in BOOLEAN /\ shut \in BOOLEAN

TypeOK ==
  /\ FlagsOK
  /\ queue \in Seq(Entry) /\ flight \in Entry /\ queued \in Int
  /\ limits \in [high : Nat, low : Nat] /\ written \in Nat
  /\ rd \in ReaderStates /\ wr \in WriterStates
  /\ rop \in {"none", "asked", "held"} /\ wop \in {"none", "asked", "held"}
  /\ half \subseteq {"r", "w"} /\ sent \in Seq(Nat)
  /\ posted \in Nat /\ told \in Nat /\ over \in Nat
  /\ why \in {"open", "closed", "aborted", "failed"}
  /\ wrap \in {"layer", "failed", "halfway", "released", "made"}

\* Either open_carrier() made the transport or a layer has just been called.
Init ==
  /\ queue = <<>> /\ flight = NoEntry /\ queued = 0 /\ written = 0
  /\ limits = [high |-> DefaultHigh, low |-> DefaultHigh \div 4]
  /\ paused = FALSE /\ reading = TRUE /\ eof = FALSE /\ closing = FALSE /\ lost = FALSE
  /\ rd = "start" /\ wr = "start" /\ rop = "none" /\ wop = "none"
  /\ half = {"r", "w"} /\ sent = <<>> /\ shut = FALSE
  /\ posted = 0 /\ told = 0 /\ why = "open" /\ over = 0
  /\ wrap \in {"layer", "made"}

-----------------------------------------------------------------------------
(***************************************************************************)
(* The ends of the transport.                                              *)
(***************************************************************************)

\* Mutant of Lose: only the write loop is cancelled.
LoseReading(self, reason) ==
  /\ lost' = TRUE /\ closing' = TRUE
  /\ rd' = IF self = "reader" THEN "ended" ELSE rd
  /\ wr' = "ended"
  /\ IF lost
       THEN UNCHANGED <<posted, why>>
       ELSE posted' = posted + 1 /\ why' = reason
  /\ UNCHANGED told

\* _lose, called by `self`, which ends with it: the first time, the other
\* tasks are cancelled and connection_lost is put into the loop's queue.
Lose(self, reason) ==
  /\ lost' = TRUE /\ closing' = TRUE
  /\ rd' = IF ~lost \/ self = "reader" THEN "ended" ELSE rd
  /\ wr' = IF ~lost \/ self = "writer" THEN "ended" ELSE wr
  /\ IF lost
       THEN UNCHANGED <<posted, why>>
       ELSE posted' = posted + 1 /\ why' = reason
  /\ UNCHANGED told

\* What _wake.set() does to the write loop.
Wake(state) == IF state = "idle" THEN "woken" ELSE state

\* Mutant of CloseBy: a write loop that has ended is not considered.
CloseByWaking(self) ==
  /\ closing' = TRUE
  /\ rd' = IF self = "reader" THEN "ended" ELSE rd
  /\ wr' = IF closing THEN wr ELSE Wake(wr)
  /\ UNCHANGED ending

\* close(), called from the read loop (which ends with it) or from outside.
CloseBy(self) ==
  IF ~closing /\ wr = "ended"
    THEN Lose(self, "closed")
    ELSE /\ closing' = TRUE
         /\ rd' = IF self = "reader" THEN "ended" ELSE rd
         /\ wr' = IF closing THEN wr ELSE Wake(wr)
         /\ UNCHANGED ending

Close ==
  /\ CloseBy("caller")
  /\ UNCHANGED <<buffer, eof, rop, reading, over, wop, carrier>>

Abort ==
  /\ Lose("caller", "aborted")
  /\ UNCHANGED <<buffer, eof, rop, reading, over, wop, carrier>>

\* The loop calls connection_lost.
ConnectionLost ==
  /\ posted > 0
  /\ posted' = posted - 1 /\ told' = told + 1
  /\ UNCHANGED <<buffer, flags, lost, why, reader, writer, carrier>>

-----------------------------------------------------------------------------
(***************************************************************************)
(* Writing.                                                                *)
(***************************************************************************)

\* Mutant of Writable: a write after write_eof() is taken.
WritableAfterEof(n) == ~closing /\ n > 0

\* The conditions under which write() does anything.
Writable(n) == ~closing /\ ~eof /\ n > 0

Write(n) ==
  /\ written < MaxWrites
  /\ Writable(n)
  /\ written' = written + 1
  /\ queue' = Append(queue, [id |-> written + 1, len |-> n])
  /\ queued' = queued + n
  /\ wr' = Wake(wr)
  /\ paused' = (paused \/ queued + n > limits.high)
  /\ UNCHANGED <<flight, limits, flags, ending, reader, wop, carrier>>

WriteEof ==
  /\ eof' = TRUE
  /\ wr' = Wake(wr)
  /\ UNCHANGED <<buffer, closing, ending, reader, wop, carrier>>

\* set_write_buffer_limits(); it does not look at the buffer.
SetLimits(high, low) ==
  LET h == IF high # None THEN high ELSE IF low = None THEN DefaultHigh ELSE 4 * low
      l == IF low # None THEN low ELSE h \div 4
  IN  /\ limits' = [high |-> h, low |-> l]
      /\ UNCHANGED <<queue, flight, queued, paused, written, flags, ending, reader, writer, carrier>>

\* Mutant of NextWrite: the end is looked at before the queue.
NextWriteEndFirst ==
  IF eof \/ closing
    THEN wr' = "shutting" /\ wop' = "asked" /\ flight' = NoEntry /\ UNCHANGED queue
    ELSE IF queue # <<>>
      THEN /\ flight' = Head(queue) /\ queue' = Tail(queue)
           /\ wr' = "writing" /\ wop' = "asked"
      ELSE wr' = "idle" /\ wop' = "none" /\ flight' = NoEntry /\ UNCHANGED queue

\* The top of _write_loop: the next entry, else the end, else _wake.wait().
NextWrite ==
  IF queue # <<>>
    THEN /\ flight' = Head(queue) /\ queue' = Tail(queue)
         /\ wr' = "writing" /\ wop' = "asked"
    ELSE /\ flight' = NoEntry /\ UNCHANGED queue
         /\ IF eof \/ closing
              THEN wr' = "shutting" /\ wop' = "asked"
              ELSE wr' = "idle" /\ wop' = "none"

WriterResumes ==
  /\ wr \in {"start", "woken"}
  /\ NextWrite
  /\ UNCHANGED <<queued, limits, paused, written, flags, ending, reader, carrier>>

\* CarrierStream.write and shutdown lock their half, or find it released.
LockWrite ==
  /\ wop = "asked"
  /\ IF "w" \in half
       THEN wop' = "held" /\ UNCHANGED wr
       ELSE wop' = "none" /\ wr' = IF wr = "ended" THEN wr ELSE "error"
  /\ UNCHANGED <<buffer, flags, ending, reader, carrier>>

\* The carrier takes the data, or ends its half, or fails.
EndWrite ==
  /\ wop = "held" /\ wr = "writing"
  /\ wop' = "none"
  /\ \/ wr' = "wrote" /\ sent' = Append(sent, flight.id)
     \/ wr' = "error" /\ UNCHANGED sent
  /\ UNCHANGED <<buffer, flags, ending, reader, half, shut, wrap>>

EndShutdown ==
  /\ wop = "held" /\ wr = "shutting"
  /\ wop' = "none"
  /\ \/ wr' = "shut" /\ shut' = TRUE
     \/ wr' = "error" /\ UNCHANGED shut
  /\ UNCHANGED <<buffer, flags, ending, reader, half, sent, wrap>>

\* The operation of a cancelled write loop is dropped; the mutex is free.  The
\* carrier may have done it by then.
DropWrite ==
  /\ wr = "ended" /\ wop # "none"
  /\ wop' = "none"
  /\ \/ UNCHANGED <<sent, shut>>
     \/ /\ wop = "held" /\ flight # NoEntry
        /\ sent' = Append(sent, flight.id) /\ UNCHANGED shut
     \/ /\ wop = "held" /\ flight = NoEntry
        /\ shut' = TRUE /\ UNCHANGED sent
  /\ UNCHANGED <<buffer, flags, ending, reader, wr, half, wrap>>

\* Mutant of Drained: strictly below the mark.
DrainedBelow(n) == n < limits.low

\* The condition under which a paused protocol is resumed.
Drained(n) == n <= limits.low

\* A write ended: it is counted off, the protocol is resumed at the low-water
\* mark, and the loop goes on.
Wrote ==
  /\ wr = "wrote"
  /\ queued' = queued - flight.len
  /\ paused' = (paused /\ ~Drained(queued'))
  /\ NextWrite
  /\ UNCHANGED <<limits, written, flags, ending, reader, carrier>>

\* shutdown() ended: a transport that is closing is lost now.
ShutDown ==
  /\ wr = "shut"
  /\ IF closing
       THEN Lose("writer", "closed")
       ELSE wr' = "ended" /\ UNCHANGED <<closing, rd, ending>>
  /\ UNCHANGED <<buffer, eof, rop, reading, over, wop, carrier>>

WriterFails ==
  /\ wr = "error"
  /\ Lose("writer", "failed")
  /\ UNCHANGED <<buffer, eof, rop, reading, over, wop, carrier>>

-----------------------------------------------------------------------------
(***************************************************************************)
(* Reading.                                                                *)
(***************************************************************************)

\* The top of _read_loop: read, or wait for resume_reading().
NextRead(open) ==
  IF open
    THEN rd' = "reading" /\ rop' = "asked"
    ELSE rd' = "waiting" /\ rop' = "none"

\* The task starts, or _reading.wait() returns: it does not look at the event
\* again.
ReaderResumes ==
  /\ \/ rd = "start" /\ NextRead(reading)
     \/ rd = "woken" /\ rd' = "reading" /\ rop' = "asked"
  /\ UNCHANGED <<buffer, flags, ending, reading, over, writer, carrier>>

LockRead ==
  /\ rop = "asked"
  /\ IF "r" \in half
       THEN rop' = "held" /\ UNCHANGED rd
       ELSE rop' = "none" /\ rd' = IF rd = "ended" THEN rd ELSE "error"
  /\ UNCHANGED <<buffer, flags, ending, reading, over, writer, carrier>>

\* The peer sends something, ends, or the carrier fails; it may do neither
\* for as long as it likes.
EndRead ==
  /\ rop = "held" /\ rd = "reading"
  /\ rop' = "none"
  /\ rd' \in {"data", "eof", "error"}
  /\ UNCHANGED <<buffer, flags, ending, reading, over, writer, carrier>>

DropRead ==
  /\ rd = "ended" /\ rop # "none"
  /\ rop' = "none"
  /\ UNCHANGED <<buffer, flags, ending, rd, reading, over, writer, carrier>>

\* _deliver, and the top of the loop again.  The protocol may pause.
Deliver ==
  /\ rd = "data"
  /\ over' = IF reading THEN 0 ELSE over + 1
  /\ reading' \in {reading, FALSE}
  /\ NextRead(reading')
  /\ UNCHANGED <<buffer, flags, ending, writer, carrier>>

\* The protocol lets out an exception that _read_loop does not handle.
DeliverRaises ==
  /\ rd = "data"
  /\ rd' = "ended"
  /\ UNCHANGED <<buffer, flags, ending, rop, reading, over, writer, carrier>>

\* The end of the stream: eof_received() keeps the transport open or not.
ReaderEof ==
  /\ rd = "eof"
  /\ \/ rd' = "ended" /\ UNCHANGED <<closing, wr, ending>>
     \/ CloseBy("reader")
  /\ UNCHANGED <<buffer, eof, rop, reading, over, wop, carrier>>

ReaderFails ==
  /\ rd = "error"
  /\ Lose("reader", "failed")
  /\ UNCHANGED <<buffer, eof, rop, reading, over, wop, carrier>>

PauseReading ==
  /\ reading' = FALSE
  /\ over' = IF reading THEN 0 ELSE over
  /\ UNCHANGED <<buffer, flags, ending, rd, rop, writer, carrier>>

ResumeReading ==
  /\ reading' = TRUE
  /\ rd' = IF rd = "waiting" THEN "woken" ELSE rd
  /\ UNCHANGED <<buffer, flags, ending, rop, over, writer, carrier>>

-----------------------------------------------------------------------------
(***************************************************************************)
(* wrap(): the layer ends; if it failed, release() takes the halves out of *)
(* the CarrierStream, one mutex after the other, before wrap() raises.     *)
(***************************************************************************)

LayerReturns ==
  /\ wrap = "layer"
  /\ wrap' = "made"
  /\ UNCHANGED <<buffer, flags, ending, reader, writer, half, sent, shut>>

LayerRaises ==
  /\ wrap = "layer"
  /\ wrap' = "failed"
  /\ UNCHANGED <<buffer, flags, ending, reader, writer, half, sent, shut>>

ReleaseRead ==
  /\ wrap = "failed" /\ rop # "held"
  /\ wrap' = "halfway" /\ half' = half \ {"r"}
  /\ UNCHANGED <<buffer, flags, ending, reader, writer, sent, shut>>

ReleaseWrite ==
  /\ wrap = "halfway" /\ wop # "held"
  /\ wrap' = "released" /\ half' = half \ {"w"}
  /\ UNCHANGED <<buffer, flags, ending, reader, writer, sent, shut>>

-----------------------------------------------------------------------------
Application ==
  \/ \E n \in Sizes : Write(n)
  \/ \E high, low \in Marks \cup {None} : SetLimits(high, low)
  \/ WriteEof \/ Close \/ Abort \/ PauseReading \/ ResumeReading
  \/ LayerReturns \/ LayerRaises

ReaderStep ==
  \/ ReaderResumes \/ LockRead \/ DropRead
  \/ Deliver \/ DeliverRaises \/ ReaderEof \/ ReaderFails

WriterStep ==
  \/ WriterResumes \/ LockWrite \/ EndWrite \/ EndShutdown \/ DropWrite
  \/ Wrote \/ ShutDown \/ WriterFails

Next ==
  \/ Application
  \/ ReaderStep \/ EndRead
  \/ WriterStep
  \/ ConnectionLost
  \/ ReleaseRead \/ ReleaseWrite

\* The loop and the runtime go on with what is ready, and a carrier's write
\* or shutdown ends.  A read need not end: the peer may stay silent.  The
\* mutexes serve their waiters in turn.
Fairness ==
  /\ WF_vars(ReaderStep) /\ WF_vars(WriterStep) /\ WF_vars(ConnectionLost)
  /\ SF_vars(ReleaseRead) /\ SF_vars(ReleaseWrite)

Spec == Init /\ [][Next]_vars /\ Fairness

-----------------------------------------------------------------------------
(***************************************************************************)
(* Properties.                                                             *)
(***************************************************************************)

\* A write is under way, or its operation is still to be dropped.
InFlight == wr = "writing" \/ (wr = "ended" /\ wop # "none" /\ flight # NoEntry)

\* The same for the end of the sending half.
Ending == wr \in {"shutting", "shut"} \/ (wr = "ended" /\ wop # "none" /\ flight = NoEntry)

\* A lost transport runs nothing any more and calls connection_lost once; a
\* write loop that ended otherwise has ended the carrier's half, so close() may
\* lose the transport at once.
LossInv ==
  /\ lost => rd = "ended" /\ wr = "ended" /\ closing
  /\ posted + told = IF lost THEN 1 ELSE 0
  /\ lost <=> why # "open"
  /\ wr = "ended" /\ ~lost => shut
  /\ wr = "shut" => shut
  /\ why = "closed" => shut

\* The operations belong to the loops' states.
OpsInv ==
  /\ rop # "none" => rd \in {"reading", "ended"}
  /\ wop # "none" => wr \in {"writing", "shutting", "ended"}
  /\ wr = "shutting" => flight = NoEntry
  /\ ~reading /\ over # 0 => rd \in {"waiting", "ended"}
  /\ over <= 1

\* The accepted writes are, in order, the ones sent, the one in flight and the
\* ones in the queue; the sending half is ended when none is left and no other
\* will be accepted.
OrderInv ==
  /\ \A i \in 1..Len(sent) : sent[i] = i
  /\ \A i \in 1..Len(queue) : queue[i].id = written - Len(queue) + i
  /\ Len(sent) + Len(queue) <= written
  /\ wr \in {"start", "idle", "woken", "wrote"} => Len(sent) + Len(queue) = written
  /\ InFlight => flight.id = Len(sent) + 1 /\ Len(sent) + 1 + Len(queue) = written
  /\ Ending \/ shut => queue = <<>> /\ Len(sent) = written /\ (eof \/ closing)

\* _CarrierTransport: its types, when it is lost, what its loops do and where
\* every write is.
TransportInv == TypeOK /\ LossInv /\ OpsInv /\ OrderInv

\* `each write is one write on the carrier, in order`: what the carrier took
\* is the writes accepted so far, each once, none left out, and its sending
\* half is ended after the last one.
WritesInOrder ==
  /\ \A i \in 1..Len(sent) : sent[i] = i
  /\ Len(sent) <= written
  /\ shut => Len(sent) = written

\* A close() without failure or abort loses nothing: connection_lost comes
\* after every write accepted and the end of the carrier's half.
CloseKeepsData == why = "closed" => shut /\ Len(sent) = written

\* pause_reading() holds back all but the chunk that was being read.
PauseHolds == over <= 1

\* close() leads to connection_lost and write_eof() to the end of the carrier's
\* sending half (or to a loss), whatever the loops were doing.
EndsFollow == (closing ~> told = 1) /\ (eof ~> (shut \/ lost))

\* A protocol told to pause is told to resume, or that it was lost: drain()
\* does not hang, and _queued counts off what was counted in.
PauseEnds == paused ~> (~paused \/ told = 1)

\* A layer that fails after it closed its writer fails wrap(): release() gets
\* the mutexes because the loops' operations are dropped.
ClosedLayerRaises == (wrap = "failed" /\ closing) ~> wrap = "released"

\* `A layer's error raises ConnectError`, of wrap() in _zmux.pyi: wrap() ends
\* when its layer has failed.
LayerErrorRaises == wrap = "failed" ~> wrap = "released"

=============================================================================
