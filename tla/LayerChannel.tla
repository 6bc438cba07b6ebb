---------------------------- MODULE LayerChannel ----------------------------
(***************************************************************************)
(* The stream a Python layer returns to the crate: ChanIo and LayerEnd of  *)
(* src/src/layer.rs, two bounded channels, and the two pumps that          *)
(* zmux._layer.run leaves behind, `up` (the layer's reader to the crate)   *)
(* and `down` (the crate's writes to the layer's writer).                  *)
(*                                                                         *)
(* The crate polls ChanIo from its own threads; a pump's step ends at an   *)
(* await, and its operation on a LayerEnd is a Rust future that may still  *)
(* work, or still hold the end, when the pump is cancelled.  A write is a  *)
(* number, in the order the crate starts them; bytes the layer reads are   *)
(* numbered in order too.                                                  *)
(*                                                                         *)
(* External: the crate reads and writes its carrier and shuts it down or   *)
(* drops it at any time, and writes no empty slice; w2 and r2 are the      *)
(* layer's asyncio streams: reads and drains end or fail.                  *)
(***************************************************************************)
EXTENDS Integers, Sequences, SequencesExt

CONSTANTS
  Depth,      \* DEPTH, the messages a channel holds
  MaxWrites,  \* bound on the writes the crate starts
  MaxBytes,   \* bound on the bytes the layer reads
  MaxChunk    \* bound on the bytes of one read, of the layer and of the crate

ASSUME ChannelAssumption ==
  /\ Depth \in Nat \ {0} /\ MaxWrites \in Nat
  /\ MaxBytes \in Nat /\ MaxChunk \in Nat \ {0}

VARIABLES
  \* ChanIo
  alive,     \* it is not dropped
  tx,        \* it has its sender
  reserve,   \* the future that waits for a place, with a sender of its own
  pending,   \* the write whose poll_write returned Pending, 0 for none
  started,   \* the writes started
  accepted,  \* the writes poll_write took, in order
  buf,       \* the rest of the message it reads from
  got,       \* what the crate read
  eof,       \* the crate read the end
  \* the channels and LayerEnd
  out, inq,  \* the messages in the channels
  intx,      \* LayerEnd.tx
  \* the pumps and the layer's streams
  down, up,  \* where the pumps are
  hand,      \* the message the pump `down` took and has not written
  chunk,     \* the bytes the pump `up` is sending
  w2,        \* what w2 was given, in order
  w2open,    \* w2.close() was not called
  fed,       \* the bytes r2 gave
  why        \* how `down` and `up` ended

crateWrite == <<tx, reserve, pending, started, accepted>>
crateRead == <<buf, got, eof>>
downVars == <<down, hand, w2, w2open>>
upVars == <<up, chunk, fed, intx>>
vars == <<alive, crateWrite, crateRead, out, inq, downVars, upVars, why>>

Pumps == {"down", "up"}
Numbers(from, to) == [i \in 1..(to - from) |-> from + i]

Flags ==
  /\ tx \in BOOLEAN /\ reserve \in BOOLEAN /\ w2open \in BOOLEAN
  /\ alive \in BOOLEAN /\ intx \in BOOLEAN /\ eof \in BOOLEAN

WriteTypes ==
  /\ pending \in 0..MaxWrites /\ started \in 0..MaxWrites /\ hand \in 0..MaxWrites
  /\ accepted \in Seq(1..MaxWrites) /\ w2 \in Seq(1..MaxWrites)
  /\ out \in Seq(1..MaxWrites) /\ Len(out) <= Depth
  /\ down \in {"reading", "read", "draining", "cancelled", "ended"}

ReadTypes ==
  /\ fed \in 0..MaxBytes /\ got \in Seq(1..MaxBytes)
  /\ buf \in Seq(1..MaxBytes) /\ chunk \in Seq(1..MaxBytes)
  /\ inq \in Seq(Seq(1..MaxBytes)) /\ Len(inq) <= Depth
  /\ up \in {"reading", "sending", "cancelled", "ended"}

TypeOK ==
  /\ Flags /\ WriteTypes /\ ReadTypes
  /\ why \in [Pumps -> {"runs", "end", "failed", "cancelled"}]

Init ==
  /\ alive = TRUE /\ tx = TRUE /\ reserve = FALSE /\ pending = 0 /\ started = 0
  /\ accepted = <<>> /\ buf = <<>> /\ got = <<>> /\ eof = FALSE
  /\ out = <<>> /\ inq = <<>> /\ intx = TRUE
  /\ down = "reading" /\ up = "reading" /\ hand = 0 /\ chunk = <<>>
  /\ w2 = <<>> /\ w2open = TRUE /\ fed = 0
  /\ why = [p \in Pumps |-> "runs"]

\* The pumps' coroutines hold LayerEnd, and an operation of theirs that is
\* not dropped yet its receiver: with both gone the receiver is dropped.
EndHeld == down # "ended" \/ up # "ended"

-----------------------------------------------------------------------------
(***************************************************************************)
(* ChanIo, polled by the crate.                                            *)
(***************************************************************************)

\* Mutant of PollWrite: a full channel gets the data before the place.
PollWriteEarly(d) ==
  /\ alive
  /\ \/ /\ ~tx \/ ~EndHeld
        /\ reserve' = FALSE /\ pending' = 0 /\ UNCHANGED <<accepted, out>>
     \/ /\ tx /\ EndHeld /\ Len(out) < Depth
        /\ accepted' = Append(accepted, d) /\ out' = Append(out, d)
        /\ reserve' = FALSE /\ pending' = 0
     \/ /\ tx /\ EndHeld /\ Len(out) >= Depth /\ pending = 0
        /\ out' = Append(out, d)
        /\ reserve' = TRUE /\ pending' = d /\ UNCHANGED accepted
  /\ UNCHANGED <<alive, tx, crateRead, inq, downVars, upVars, why>>

\* poll_write: it waits for a place with the reserve of an earlier poll, if
\* there is one, and sends the data of this poll; after a shutdown, or without
\* a receiver, it fails.
PollWrite(d) ==
  /\ alive
  /\ \/ /\ ~tx \/ ~EndHeld
        /\ reserve' = FALSE /\ pending' = 0 /\ UNCHANGED <<accepted, out>>
     \/ /\ tx /\ EndHeld /\ Len(out) < Depth
        /\ accepted' = Append(accepted, d) /\ out' = Append(out, d)
        /\ reserve' = FALSE /\ pending' = 0
     \/ /\ tx /\ EndHeld /\ Len(out) >= Depth /\ pending = 0
        /\ reserve' = TRUE /\ pending' = d /\ UNCHANGED <<accepted, out>>
  /\ UNCHANGED <<alive, tx, crateRead, inq, downVars, upVars, why>>

StartWrite ==
  /\ pending = 0 /\ started < MaxWrites
  /\ started' = started + 1 /\ PollWrite(started + 1)

\* The task whose poll was Pending is woken by a place, or by the end.
WakeWrite == pending # 0 /\ PollWrite(pending) /\ UNCHANGED started

\* The crate drops a pending write: the reserve stays.
AbandonWrite ==
  /\ pending # 0 /\ pending' = 0
  /\ UNCHANGED <<alive, tx, reserve, started, accepted, crateRead, out, inq, downVars, upVars, why>>

\* Mutant of Shutdown: the reserve, and its sender, stay.
ShutdownReserved ==
  /\ alive /\ tx
  /\ tx' = FALSE /\ pending' = 0
  /\ UNCHANGED <<alive, reserve, started, accepted, crateRead, out, inq, downVars, upVars, why>>

\* poll_shutdown; a write that was pending is not polled again.
Shutdown ==
  /\ alive /\ tx
  /\ tx' = FALSE /\ reserve' = FALSE /\ pending' = 0
  /\ UNCHANGED <<alive, started, accepted, crateRead, out, inq, downVars, upVars, why>>

\* The crate drops the carrier: both channels lose this end.
DropChan ==
  /\ alive /\ alive' = FALSE
  /\ tx' = FALSE /\ reserve' = FALSE /\ pending' = 0
  /\ inq' = <<>> /\ buf' = <<>>
  /\ UNCHANGED <<started, accepted, got, eof, out, downVars, upVars, why>>

\* Mutant of ReadEof: the messages that wait are forgotten.
ReadEofEarly ==
  /\ alive /\ ~eof /\ buf = <<>> /\ ~intx
  /\ eof' = TRUE
  /\ UNCHANGED <<alive, crateWrite, buf, got, out, inq, downVars, upVars, why>>

\* poll_read at the end: no message, and no sender, the one of a write under
\* way included.
ReadEof ==
  /\ alive /\ ~eof /\ buf = <<>> /\ inq = <<>> /\ ~intx /\ up = "ended"
  /\ eof' = TRUE
  /\ UNCHANGED <<alive, crateWrite, buf, got, out, inq, downVars, upVars, why>>

\* poll_read with room for n bytes: from the rest of the last message, else
\* from the next one.
ReadData(n) ==
  LET message == IF buf = <<>> THEN Head(inq) ELSE buf
      taken == IF n < Len(message) THEN n ELSE Len(message)
  IN /\ alive /\ (buf # <<>> \/ inq # <<>>)
     /\ got' = got \o SubSeq(message, 1, taken)
     /\ buf' = SubSeq(message, taken + 1, Len(message))
     /\ inq' = IF buf = <<>> THEN Tail(inq) ELSE inq
     /\ UNCHANGED <<alive, crateWrite, eof, out, downVars, upVars, why>>

CrateReads == ReadEof \/ \E n \in 1..MaxChunk : ReadData(n)

-----------------------------------------------------------------------------
(***************************************************************************)
(* The pump down: end.read(), w2.write(), w2.drain(), and at last          *)
(* w2.close().                                                             *)
(***************************************************************************)

\* LayerEnd.read takes a message; a cancelled pump never sees it.
Recv ==
  /\ down \in {"reading", "cancelled"} /\ out # <<>>
  /\ out' = Tail(out)
  /\ IF down = "reading" THEN down' = "read" /\ hand' = Head(out)
                         ELSE down' = "ended" /\ UNCHANGED hand
  /\ UNCHANGED <<alive, crateWrite, crateRead, inq, w2, w2open, upVars, why>>

WriteDown ==
  /\ down = "read"
  /\ w2' = Append(w2, hand) /\ hand' = 0 /\ down' = "draining"
  /\ UNCHANGED <<alive, crateWrite, crateRead, out, inq, w2open, upVars, why>>

DrainEnds ==
  /\ down = "draining" /\ down' = "reading"
  /\ UNCHANGED <<alive, crateWrite, crateRead, out, inq, hand, w2, w2open, upVars, why>>

\* Mutant of DownEnds: w2 is closed only at the end of the crate's writes.
DownEndsOpen(how) ==
  /\ down' = IF how = "cancelled" /\ down = "reading" THEN "cancelled" ELSE "ended"
  /\ hand' = 0 /\ w2open' = (how = "failed") /\ why' = [why EXCEPT !["down"] = how]
  /\ UNCHANGED w2

\* The end of `down`, whatever the reason: the finally clause closes w2.
DownEnds(how) ==
  /\ down' = IF how = "cancelled" /\ down = "reading" THEN "cancelled" ELSE "ended"
  /\ hand' = 0 /\ w2open' = FALSE /\ why' = [why EXCEPT !["down"] = how]
  /\ UNCHANGED w2

\* recv gives None: no sender is left and the messages are taken.
DownEof ==
  /\ down = "reading" /\ out = <<>> /\ ~tx /\ ~reserve
  /\ DownEnds("end")
  /\ UNCHANGED <<alive, crateWrite, crateRead, out, inq, upVars>>

DrainFails ==
  /\ down = "draining" /\ DownEnds("failed")
  /\ UNCHANGED <<alive, crateWrite, crateRead, out, inq, upVars>>

-----------------------------------------------------------------------------
(***************************************************************************)
(* The pump up: r2.read(), end.write(), and at last end.close().           *)
(***************************************************************************)

UpRead(n) ==
  /\ up = "reading" /\ fed + n <= MaxBytes
  /\ fed' = fed + n /\ chunk' = Numbers(fed, fed + n) /\ up' = "sending"
  /\ UNCHANGED <<alive, crateWrite, crateRead, out, inq, downVars, intx, why>>

\* LayerEnd.write: it waits for a place; without a reader nothing is sent
\* and nothing fails.
UpSend ==
  /\ up \in {"sending", "cancelled"}
  /\ \/ ~alive /\ UNCHANGED inq
     \/ alive /\ Len(inq) < Depth /\ inq' = Append(inq, chunk)
  /\ chunk' = <<>> /\ up' = IF up = "sending" THEN "reading" ELSE "ended"
  /\ UNCHANGED <<alive, crateWrite, crateRead, out, downVars, fed, intx, why>>

\* The end of `up`: the finally clause closes the end.
UpEnds(how) ==
  /\ up' = IF up = "sending" THEN "cancelled" ELSE "ended"
  /\ intx' = FALSE /\ why' = [why EXCEPT !["up"] = how]
  /\ UNCHANGED <<chunk, fed>>

\* r2 ends or fails.
R2Ends(how) ==
  /\ up = "reading" /\ UpEnds(how)
  /\ UNCHANGED <<alive, crateWrite, crateRead, out, inq, downVars>>

\* A task that runs no more lets go of its operation.
DropOperation ==
  \/ /\ down = "cancelled" /\ down' = "ended"
     /\ UNCHANGED <<alive, crateWrite, crateRead, out, inq, hand, w2, w2open, upVars, why>>
  \/ /\ up = "cancelled" /\ up' = "ended" /\ chunk' = <<>>
     /\ UNCHANGED <<alive, crateWrite, crateRead, out, inq, downVars, fed, intx, why>>

\* asyncio.run ends: it cancels the tasks that are left, in any order.
CancelPump ==
  \/ /\ down \in {"reading", "read", "draining"} /\ DownEnds("cancelled")
     /\ UNCHANGED <<alive, crateWrite, crateRead, out, inq, upVars>>
  \/ /\ up \in {"reading", "sending"} /\ UpEnds("cancelled")
     /\ UNCHANGED <<alive, crateWrite, crateRead, out, inq, downVars>>

-----------------------------------------------------------------------------
PumpStep == Recv \/ WriteDown \/ DrainEnds \/ DownEof \/ UpSend \/ DropOperation

Next ==
  \/ StartWrite \/ WakeWrite \/ AbandonWrite \/ Shutdown \/ DropChan
  \/ CrateReads \/ PumpStep \/ DrainFails \/ CancelPump
  \/ \E n \in 1..MaxChunk : UpRead(n)
  \/ \E how \in {"end", "failed"} : R2Ends(how)

\* The pumps are scheduled by a loop that runs and their Rust operations by
\* the runtime; a drain ends, the crate repolls what was woken and keeps
\* reading its carrier, and r2 ends once w2 is closed (asyncio's writer
\* closes the transport both have).
Fairness ==
  /\ WF_vars(Recv) /\ WF_vars(WriteDown) /\ WF_vars(DownEof)
  /\ WF_vars(DrainEnds \/ DrainFails)
  /\ WF_vars(UpSend) /\ WF_vars(DropOperation)
  /\ WF_vars(WakeWrite) /\ WF_vars(CrateReads)
  /\ WF_vars(~w2open /\ R2Ends("end"))

Spec == Init /\ [][Next]_vars /\ Fairness

-----------------------------------------------------------------------------
\* "each carrier write is one message to Python, which writes it to the layer
\* once" (layer.rs): w2 gets the writes poll_write took, in order, each once
\* and no abandoned one; when `down` saw the end of the crate's writes, all.
WritesOnce ==
  /\ IsPrefix(w2, accepted)
  /\ why["down"] = "end" => w2 = accepted

\* The crate reads the layer's bytes in order and finds their end only after
\* the last one, unless the pump was cancelled with bytes in its hands.
EofAfterData ==
  /\ got = Numbers(0, Len(got)) /\ Len(got) <= fed
  /\ eof /\ why["up"] # "cancelled" => Len(got) = fed

\* "A failure either way ends that way" (_layer.py): the end of the crate's
\* writes closes the layer's writer, behind a write that waited for a place
\* too; and the end of the layer's reader ends the crate's reads.
EndsPropagate ==
  /\ ~tx ~> ~w2open
  /\ up = "ended" ~> (eof \/ ~alive)

\* A write that waits for a place goes through or fails, also when `down`
\* failed: the closed writer ends r2, `up` ends, and the receiver is dropped.
WriteSettles == pending # 0 ~> pending = 0

=============================================================================
