----------------------- MODULE CarrierTransportProofs -----------------------
(***************************************************************************)
(* The safety of _CarrierTransport, for data of any length, any number of  *)
(* writes and any water marks.                                             *)
(***************************************************************************)
EXTENDS CarrierTransport, TLAPS

-----------------------------------------------------------------------------
(***************************************************************************)
(* The queue and what the carrier took.                                    *)
(***************************************************************************)

\* The carrier takes the write in flight: its order goes on without a gap.
LEMMA TakenInOrder ==
  ASSUME sent \in Seq(Nat), \A i \in 1..Len(sent) : sent[i] = i,
         sent' = Append(sent, Len(sent) + 1)
  PROVE  /\ sent' \in Seq(Nat) /\ Len(sent') = Len(sent) + 1
         /\ \A i \in 1..Len(sent') : sent'[i] = i
<1>1. sent' \in Seq(Nat) /\ Len(sent') = Len(sent) + 1
  OBVIOUS
<1>2. ASSUME NEW i \in 1..Len(sent') PROVE sent'[i] = i
  BY <1>1
<1>3. QED
  BY <1>1, <1>2

\* The top of _write_loop takes the oldest entry out of the queue, or leaves the
\* empty queue alone.
LEMMA NextWriteTakesOldest ==
  ASSUME TypeOK, NextWrite,
         \A i \in 1..Len(queue) : queue[i].id = written - Len(queue) + i
  PROVE  /\ queue' \in Seq(Entry) /\ flight' \in Entry
         /\ \A i \in 1..Len(queue') : queue'[i].id = written - Len(queue') + i
         /\ \/ /\ wr' = "writing" /\ wop' = "asked"
               /\ flight'.id = written - Len(queue) + 1 /\ Len(queue') = Len(queue) - 1
            \/ /\ wr' \in {"idle", "shutting"} /\ flight' = NoEntry
               /\ queue = <<>> /\ queue' = <<>>
               /\ IF wr' = "idle" THEN wop' = "none" ELSE wop' = "asked" /\ (eof \/ closing)
<1>1. CASE queue # <<>>
  <2>1. /\ flight' = Head(queue) /\ queue' = Tail(queue)
        /\ wr' = "writing" /\ wop' = "asked"
    BY <1>1 DEF NextWrite
  <2>2. queue \in Seq(Entry) /\ Len(queue) \in Nat \ {0} /\ written \in Nat
    BY <1>1 DEF TypeOK
  <2>3. queue' \in Seq(Entry) /\ Len(queue') = Len(queue) - 1
    BY <1>1, <2>1, <2>2
  <2>4. \A i \in 1..Len(queue') : queue'[i] = queue[i + 1]
    BY <1>1, <2>1, <2>2
  <2>5. flight' = queue[1] /\ flight' \in Entry
    BY <1>1, <2>1, <2>2
  <2>6. flight'.id = written - Len(queue) + 1
    BY <2>2, <2>5
  <2>7. ASSUME NEW i \in 1..Len(queue') PROVE queue'[i].id = written - Len(queue') + i
    <3>1. i \in Nat /\ i + 1 \in 1..Len(queue) /\ queue'[i] = queue[i + 1]
      BY <2>2, <2>3, <2>4
    <3>2. queue[i + 1].id = written - Len(queue) + (i + 1)
      BY <3>1
    <3>3. QED
      BY <2>2, <2>3, <3>1, <3>2
  <2>8. QED
    BY <2>1, <2>3, <2>5, <2>6, <2>7
<1>2. CASE queue = <<>>
  BY <1>2 DEF NextWrite, TypeOK, Entry, NoEntry
<1>3. QED
  BY <1>1, <1>2

-----------------------------------------------------------------------------
(***************************************************************************)
(* One step per action, one part of the invariant at a time.               *)
(***************************************************************************)

\* The ends of the transport: what goes through close() and _lose.
LEMMA EndsKeepInv ==
  ASSUME TransportInv, Close \/ Abort \/ ReaderEof \/ ReaderFails
                        \/ ShutDown \/ WriterFails
  PROVE  TransportInv'
<1>1. CASE Close
  <2> USE <1>1, TransportAssumption
      DEF TransportInv, Close, CloseBy, Lose, Wake,
          buffer, flags, ending, reader, writer, carrier, Entry, NoEntry
  <2>1. FlagsOK'
    BY Zenon DEF TypeOK, FlagsOK
  <2>2. TypeOK'
    BY <2>1 DEF TypeOK, ReaderStates, WriterStates
  <2>3. LossInv'
    BY DEF TypeOK, LossInv, ReaderStates, WriterStates
  <2>4. OpsInv'
    BY DEF TypeOK, OpsInv, LossInv, OrderInv, InFlight
  <2>5. OrderInv'
    BY DEF TypeOK, OrderInv, LossInv, OpsInv, InFlight, Ending
  <2>6. QED
    BY <2>2, <2>3, <2>4, <2>5
<1>2. CASE Abort
  <2> USE <1>2, TransportAssumption
      DEF TransportInv, Abort, Lose,
          buffer, flags, ending, reader, writer, carrier, Entry, NoEntry
  <2>1. FlagsOK'
    BY Zenon DEF TypeOK, FlagsOK
  <2>2. TypeOK'
    BY <2>1 DEF TypeOK, ReaderStates, WriterStates
  <2>3. LossInv'
    BY DEF TypeOK, LossInv, ReaderStates, WriterStates
  <2>4. OpsInv'
    BY DEF TypeOK, OpsInv, LossInv, OrderInv, InFlight
  <2>5. OrderInv'
    BY DEF TypeOK, OrderInv, LossInv, OpsInv, InFlight, Ending
  <2>6. QED
    BY <2>2, <2>3, <2>4, <2>5
<1>3. CASE ReaderEof
  <2> USE <1>3, TransportAssumption
      DEF TransportInv, ReaderEof, CloseBy, Lose, Wake,
          buffer, flags, ending, reader, writer, carrier, Entry, NoEntry
  <2>1. FlagsOK'
    BY Zenon DEF TypeOK, FlagsOK
  <2>2. TypeOK'
    BY <2>1 DEF TypeOK, ReaderStates, WriterStates
  <2>3. LossInv'
    BY DEF TypeOK, LossInv, ReaderStates, WriterStates
  <2>4. OpsInv'
    BY DEF TypeOK, OpsInv, LossInv, OrderInv, InFlight
  <2>5. OrderInv'
    BY DEF TypeOK, OrderInv, LossInv, OpsInv, InFlight, Ending
  <2>6. QED
    BY <2>2, <2>3, <2>4, <2>5
<1>4. CASE ReaderFails
  <2> USE <1>4, TransportAssumption
      DEF TransportInv, ReaderFails, Lose,
          buffer, flags, ending, reader, writer, carrier, Entry, NoEntry
  <2>1. FlagsOK'
    BY Zenon DEF TypeOK, FlagsOK
  <2>2. TypeOK'
    BY <2>1 DEF TypeOK, ReaderStates, WriterStates
  <2>3. LossInv'
    BY DEF TypeOK, LossInv, ReaderStates, WriterStates
  <2>4. OpsInv'
    BY DEF TypeOK, OpsInv, LossInv, OrderInv, InFlight
  <2>5. OrderInv'
    BY DEF TypeOK, OrderInv, LossInv, OpsInv, InFlight, Ending
  <2>6. QED
    BY <2>2, <2>3, <2>4, <2>5
<1>5. CASE ShutDown
  <2> USE <1>5, TransportAssumption
      DEF TransportInv, ShutDown, Lose,
          buffer, flags, ending, reader, writer, carrier, Entry, NoEntry
  <2>1. FlagsOK'
    BY Zenon DEF TypeOK, FlagsOK
  <2>2. TypeOK'
    BY <2>1 DEF TypeOK, ReaderStates, WriterStates
  <2>3. LossInv'
    BY DEF TypeOK, LossInv, ReaderStates, WriterStates
  <2>4. OpsInv'
    BY DEF TypeOK, OpsInv, LossInv, OrderInv, InFlight
  <2>5. OrderInv'
    BY DEF TypeOK, OrderInv, LossInv, OpsInv, InFlight, Ending
  <2>6. QED
    BY <2>2, <2>3, <2>4, <2>5
<1>6. CASE WriterFails
  <2> USE <1>6, TransportAssumption
      DEF TransportInv, WriterFails, Lose,
          buffer, flags, ending, reader, writer, carrier, Entry, NoEntry
  <2>1. FlagsOK'
    BY Zenon DEF TypeOK, FlagsOK
  <2>2. TypeOK'
    BY <2>1 DEF TypeOK, ReaderStates, WriterStates
  <2>3. LossInv'
    BY DEF TypeOK, LossInv, ReaderStates, WriterStates
  <2>4. OpsInv'
    BY DEF TypeOK, OpsInv, LossInv, OrderInv, InFlight
  <2>5. OrderInv'
    BY DEF TypeOK, OrderInv, LossInv, OpsInv, InFlight, Ending
  <2>6. QED
    BY <2>2, <2>3, <2>4, <2>5
<1>7. QED
  BY <1>1, <1>2, <1>3, <1>4, <1>5, <1>6

\* What the read loop does with _reading, and the end of shutdown().
LEMMA ReadsKeepInv ==
  ASSUME TransportInv, PauseReading \/ ReaderResumes \/ Deliver \/ EndShutdown
  PROVE  TransportInv'
<1>1. CASE PauseReading
  <2> USE <1>1, TransportAssumption
      DEF TransportInv, PauseReading,
          buffer, flags, ending, reader, writer, carrier, Entry, NoEntry
  <2>1. FlagsOK'
    BY Zenon DEF TypeOK, FlagsOK
  <2>2. TypeOK'
    BY <2>1 DEF TypeOK, ReaderStates, WriterStates
  <2>3. LossInv'
    BY DEF TypeOK, LossInv, ReaderStates, WriterStates
  <2>4. OpsInv'
    BY DEF TypeOK, OpsInv, LossInv, OrderInv, InFlight
  <2>5. OrderInv'
    BY DEF TypeOK, OrderInv, LossInv, OpsInv, InFlight, Ending
  <2>6. QED
    BY <2>2, <2>3, <2>4, <2>5
<1>2. CASE ReaderResumes
  <2> USE <1>2, TransportAssumption
      DEF TransportInv, ReaderResumes, NextRead,
          buffer, flags, ending, reader, writer, carrier, Entry, NoEntry
  <2>1. FlagsOK'
    BY Zenon DEF TypeOK, FlagsOK
  <2>2. TypeOK'
    BY <2>1 DEF TypeOK, ReaderStates, WriterStates
  <2>3. LossInv'
    BY DEF TypeOK, LossInv, ReaderStates, WriterStates
  <2>4. OpsInv'
    BY DEF TypeOK, OpsInv, LossInv, OrderInv, InFlight
  <2>5. OrderInv'
    BY DEF TypeOK, OrderInv, LossInv, OpsInv, InFlight, Ending
  <2>6. QED
    BY <2>2, <2>3, <2>4, <2>5
<1>3. CASE Deliver
  <2> USE <1>3, TransportAssumption
      DEF TransportInv, Deliver, NextRead,
          buffer, flags, ending, reader, writer, carrier, Entry, NoEntry
  <2>1. FlagsOK'
    BY Zenon DEF TypeOK, FlagsOK
  <2>2. TypeOK'
    BY <2>1 DEF TypeOK, ReaderStates, WriterStates
  <2>3. LossInv'
    BY DEF TypeOK, LossInv, ReaderStates, WriterStates
  <2>4. OpsInv'
    BY DEF TypeOK, OpsInv, LossInv, OrderInv, InFlight
  <2>5. OrderInv'
    BY DEF TypeOK, OrderInv, LossInv, OpsInv, InFlight, Ending
  <2>6. QED
    BY <2>2, <2>3, <2>4, <2>5
<1>4. CASE EndShutdown
  <2> USE <1>4, TransportAssumption
      DEF TransportInv, EndShutdown,
          buffer, flags, ending, reader, writer, carrier, Entry, NoEntry
  <2>1. FlagsOK'
    BY Zenon DEF TypeOK, FlagsOK
  <2>2. TypeOK'
    BY <2>1 DEF TypeOK, ReaderStates, WriterStates
  <2>3. LossInv'
    BY DEF TypeOK, LossInv, ReaderStates, WriterStates
  <2>4. OpsInv'
    BY DEF TypeOK, OpsInv, LossInv, OrderInv, InFlight
  <2>5. OrderInv'
    BY DEF TypeOK, OrderInv, LossInv, OpsInv, InFlight, Ending
  <2>6. QED
    BY <2>2, <2>3, <2>4, <2>5
<1>5. QED
  BY <1>1, <1>2, <1>3, <1>4

\* The steps that change one loop, one operation or one half.
LEMMA StepsKeepInv ==
  ASSUME TransportInv,
         WriteEof \/ ResumeReading \/ LockRead \/ DropRead \/ EndRead \/ DeliverRaises \/ LockWrite
                        \/ LayerReturns \/ LayerRaises \/ ReleaseRead \/ ReleaseWrite \/ ConnectionLost
  PROVE  TransportInv'
<1> USE DEF TransportInv, TypeOK, LossInv, OpsInv, OrderInv, InFlight, Ending, ReaderStates,
            WriterStates, buffer, flags, ending, reader, writer, carrier, Wake, Entry
<1>1. CASE WriteEof
  <2>1. FlagsOK'
    BY <1>1, Zenon DEF WriteEof, FlagsOK
  <2>2. QED
    BY <1>1, <2>1 DEF WriteEof
<1>2. CASE ResumeReading
  <2>1. FlagsOK'
    BY <1>2, Zenon DEF ResumeReading, FlagsOK
  <2>2. QED
    BY <1>2, <2>1 DEF ResumeReading
<1>3. CASE LockRead
  <2>1. FlagsOK'
    BY <1>3, Zenon DEF LockRead, FlagsOK
  <2>2. QED
    BY <1>3, <2>1 DEF LockRead
<1>4. CASE DropRead
  <2>1. FlagsOK'
    BY <1>4, Zenon DEF DropRead, FlagsOK
  <2>2. QED
    BY <1>4, <2>1 DEF DropRead
<1>5. CASE EndRead
  <2>1. FlagsOK'
    BY <1>5, Zenon DEF EndRead, FlagsOK
  <2>2. QED
    BY <1>5, <2>1 DEF EndRead
<1>6. CASE DeliverRaises
  <2>1. FlagsOK'
    BY <1>6, Zenon DEF DeliverRaises, FlagsOK
  <2>2. QED
    BY <1>6, <2>1 DEF DeliverRaises
<1>7. CASE LockWrite
  <2>1. FlagsOK'
    BY <1>7, Zenon DEF LockWrite, FlagsOK
  <2>2. QED
    BY <1>7, <2>1, SMTT(20) DEF LockWrite
<1>8. CASE LayerReturns
  <2>1. FlagsOK'
    BY <1>8, Zenon DEF LayerReturns, FlagsOK
  <2>2. QED
    BY <1>8, <2>1 DEF LayerReturns
<1>9. CASE LayerRaises
  <2>1. FlagsOK'
    BY <1>9, Zenon DEF LayerRaises, FlagsOK
  <2>2. QED
    BY <1>9, <2>1 DEF LayerRaises
<1>10. CASE ReleaseRead
  <2>1. FlagsOK'
    BY <1>10, Zenon DEF ReleaseRead, FlagsOK
  <2>2. QED
    BY <1>10, <2>1 DEF ReleaseRead
<1>11. CASE ReleaseWrite
  <2>1. FlagsOK'
    BY <1>11, Zenon DEF ReleaseWrite, FlagsOK
  <2>2. QED
    BY <1>11, <2>1 DEF ReleaseWrite
<1>12. CASE ConnectionLost
  <2>1. FlagsOK'
    BY <1>12, Zenon DEF ConnectionLost, FlagsOK
  <2>2. QED
    BY <1>12, <2>1 DEF ConnectionLost
<1>13. QED
  BY <1>1, <1>2, <1>3, <1>4, <1>5, <1>6, <1>7, <1>8, <1>9, <1>10, <1>11, <1>12

\* write() puts the new write at the end of the queue.
LEMMA WriteKeepsInv ==
  ASSUME TransportInv, NEW n \in Sizes, Write(n)
  PROVE  TransportInv'
<1> USE TransportAssumption
    DEF TransportInv, Write, Writable, Wake,
        buffer, flags, ending, reader, writer, carrier, Entry, NoEntry
<1>1. FlagsOK'
  BY Zenon DEF TypeOK, FlagsOK
<1>2. TypeOK'
  BY <1>1 DEF TypeOK, ReaderStates, WriterStates
<1>3. LossInv'
  BY DEF TypeOK, LossInv
<1>4. OpsInv'
  BY DEF TypeOK, OpsInv, LossInv
<1>5. OrderInv'
  <2>1. /\ queue \in Seq(Entry) /\ Len(queue) \in Nat /\ Len(sent) \in Nat /\ written \in Nat
        /\ [id |-> written + 1, len |-> n] \in Entry
    BY DEF TypeOK
  <2>2. Len(queue') = Len(queue) + 1
    BY <2>1
  <2>3. ASSUME NEW i \in 1..Len(queue') PROVE queue'[i].id = written' - Len(queue') + i
    <3>1. CASE i = Len(queue) + 1
      BY <2>1, <2>2, <3>1
    <3>2. CASE i \in 1..Len(queue)
      BY <2>1, <2>2, <3>2 DEF OrderInv
    <3>3. QED
      BY <2>1, <2>2, <3>1, <3>2
  <2>4. ~Ending' /\ ~shut
    BY DEF Ending, OrderInv, LossInv, TypeOK
  <2>5. QED
    BY <2>1, <2>2, <2>3, <2>4 DEF OrderInv, InFlight, Ending
<1>6. QED
  BY <1>2, <1>3, <1>4, <1>5

\* set_write_buffer_limits() changes nothing but the marks.
LEMMA LimitsKeepInv ==
  ASSUME TransportInv, NEW h \in Marks \cup {None}, NEW l \in Marks \cup {None},
         SetLimits(h, l)
  PROVE  TransportInv'
<1> USE DEF TransportInv, SetLimits, buffer, flags, ending, reader, writer, carrier
<1>1. limits' \in [high : Nat, low : Nat]
  BY TransportAssumption DEF TypeOK
<1>2. UNCHANGED <<queue, flight, queued, paused, written, flags, ending, reader, writer, carrier>>
  OBVIOUS
<1>3. QED
  BY <1>1, <1>2
     DEF TypeOK, FlagsOK, LossInv, OpsInv, OrderInv, InFlight, Ending

\* The write loop goes to its top, at its start or after a write.
LEMMA WriterTopKeepsInv ==
  ASSUME TransportInv, WriterResumes \/ Wrote
  PROVE  TransportInv'
<1> USE DEF TransportInv, buffer, flags, ending, reader, writer, carrier
<1>1. NextWrite /\ wr \in {"start", "woken", "wrote"}
  BY DEF WriterResumes, Wrote
<1>2. UNCHANGED <<limits, written, flags, ending, reader, carrier>>
  BY DEF WriterResumes, Wrote
<1>3. queued' \in Int
  BY DEF WriterResumes, Wrote, TypeOK, Entry
<1>4. paused' \in BOOLEAN
  BY Zenon DEF WriterResumes, Wrote, TypeOK, FlagsOK
<1>5. /\ queue' \in Seq(Entry) /\ flight' \in Entry
      /\ \A i \in 1..Len(queue') : queue'[i].id = written - Len(queue') + i
      /\ \/ /\ wr' = "writing" /\ wop' = "asked"
            /\ flight'.id = written - Len(queue) + 1 /\ Len(queue') = Len(queue) - 1
         \/ /\ wr' \in {"idle", "shutting"} /\ flight' = NoEntry
            /\ queue = <<>> /\ queue' = <<>>
            /\ IF wr' = "idle" THEN wop' = "none" ELSE wop' = "asked" /\ (eof \/ closing)
  BY <1>1, NextWriteTakesOldest DEF OrderInv
<1>6. TypeOK'
  BY <1>2, <1>3, <1>4, <1>5 DEF TypeOK, FlagsOK, ReaderStates, WriterStates
<1>7. LossInv'
  BY <1>1, <1>2, <1>5 DEF LossInv
<1>8. OpsInv'
  BY <1>1, <1>2, <1>5 DEF OpsInv
<1>9. OrderInv'
  <2>1. /\ Len(sent) + Len(queue) = written /\ written \in Nat
        /\ Len(sent) \in Nat /\ Len(queue) \in Nat /\ Len(queue') \in Nat
    BY <1>1, <1>5 DEF OrderInv, TypeOK
  <2>2. wr' = "writing" => flight'.id = Len(sent) + 1 /\ Len(sent) + 1 + Len(queue') = written
    <3>1. ASSUME NEW s \in Nat, NEW q \in Nat, NEW q2 \in Nat, NEW w \in Nat, s + q = w, q2 = q - 1
          PROVE  w - q + 1 = s + 1 /\ s + 1 + q2 = w
      BY <3>1
    <3>2. wr' = "writing" => flight'.id = written - Len(queue) + 1 /\ Len(queue') = Len(queue) - 1
      BY <1>5
    <3>3. QED
      BY <2>1, <3>1, <3>2
  <2>3. wr' # "writing" => queue' = <<>> /\ Len(sent) = written /\ Len(sent) + Len(queue') = written
    BY <1>5, <2>1
  <2>4. shut => wr' # "writing"
    <3>1. wr' = "writing" => Len(queue) # 0
      BY <1>5, <2>1
    <3>2. shut => Len(queue) = 0
      BY <2>1 DEF OrderInv
    <3>3. QED
      BY <3>1, <3>2
  <2>5. QED
    BY <1>2, <1>5, <2>2, <2>3, <2>4 DEF OrderInv, InFlight, Ending
<1>10. QED
  BY <1>6, <1>7, <1>8, <1>9

\* The carrier takes a write, or fails: of the running loop, or of a cancelled
\* one whose operation it did before the drop.
LEMMA CarrierKeepsInv ==
  ASSUME TransportInv, EndWrite \/ DropWrite
  PROVE  TransportInv'
<1> USE DEF TransportInv, buffer, flags, ending, reader, writer, carrier
<1>1. /\ UNCHANGED <<buffer, flags, ending, reader, half, wrap>>
      /\ wop # "none" /\ wop' = "none"
      /\ \/ wr = "writing" /\ wr' \in {"wrote", "error"}
         \/ wr = "ended" /\ wr' = "ended"
  BY DEF EndWrite, DropWrite
<1>2. shut' \in BOOLEAN
  BY Zenon DEF EndWrite, DropWrite, TypeOK, FlagsOK
<1>3. \/ UNCHANGED <<sent, shut>> /\ wr' # "wrote"
      \/ /\ InFlight /\ sent' = Append(sent, flight.id) /\ UNCHANGED shut
      \/ Ending /\ shut' /\ UNCHANGED sent /\ wr' = "ended"
  BY DEF EndWrite, DropWrite, InFlight, Ending
<1>4. CASE UNCHANGED <<sent, shut>> /\ wr' # "wrote"
  BY <1>1, <1>2, <1>4
     DEF TypeOK, FlagsOK, LossInv, OpsInv, OrderInv, InFlight, Ending, ReaderStates, WriterStates
<1>5. CASE InFlight /\ sent' = Append(sent, flight.id) /\ UNCHANGED shut
  <2>1. /\ sent' \in Seq(Nat) /\ Len(sent') = Len(sent) + 1
        /\ \A i \in 1..Len(sent') : sent'[i] = i
    BY <1>5, TakenInOrder DEF OrderInv, TypeOK
  <2>2. Len(sent) + 1 + Len(queue) = written /\ Len(sent) \in Nat /\ Len(queue) \in Nat
    BY <1>5 DEF OrderInv, TypeOK
  <2>3. ~shut
    BY <2>2 DEF OrderInv, TypeOK
  <2>4. TypeOK' /\ LossInv' /\ OpsInv'
    BY <1>1, <1>5, <2>1 DEF TypeOK, FlagsOK, LossInv, OpsInv, ReaderStates, WriterStates
  <2>5. OrderInv'
    BY <1>1, <1>5, <2>1, <2>2, <2>3 DEF OrderInv, InFlight, Ending
  <2>6. QED
    BY <2>4, <2>5
<1>6. CASE Ending /\ shut' /\ UNCHANGED sent /\ wr' = "ended"
  BY <1>1, <1>2, <1>6
     DEF TypeOK, FlagsOK, LossInv, OpsInv, OrderInv, InFlight, Ending, ReaderStates, WriterStates
<1>7. QED
  BY <1>3, <1>4, <1>5, <1>6

-----------------------------------------------------------------------------
(***************************************************************************)
(* The theorems.                                                           *)
(***************************************************************************)

\* _CarrierTransport keeps its invariant: TransportInv is inductive.
THEOREM TransportInvariance == Spec => []TransportInv
<1>1. Init => TransportInv
  <2> SUFFICES ASSUME Init PROVE TransportInv
    OBVIOUS
  <2>1. FlagsOK
    BY Zenon DEF Init, FlagsOK
  <2>2. QED
    BY <2>1, TransportAssumption
       DEF Init, TransportInv, TypeOK, LossInv, OpsInv, OrderInv, InFlight, Ending,
           ReaderStates, WriterStates, Entry, NoEntry
<1>2. ASSUME TransportInv, [Next]_vars PROVE TransportInv'
  <2>1. CASE Application
    <3>1. CASE \E n \in Sizes : Write(n)
      <4>1. PICK n \in Sizes : Write(n)
        BY <3>1
      <4>2. QED
        BY <1>2, <4>1, WriteKeepsInv
    <3>2. CASE \E h, l \in Marks \cup {None} : SetLimits(h, l)
      <4>1. PICK h \in Marks \cup {None}, l \in Marks \cup {None} : SetLimits(h, l)
        BY <3>2
      <4>2. QED
        BY <1>2, <4>1, LimitsKeepInv
    <3>3. QED
      BY <1>2, <2>1, <3>1, <3>2, EndsKeepInv, ReadsKeepInv, StepsKeepInv DEF Application
  <2>2. CASE ReaderStep \/ EndRead
    BY <1>2, <2>2, EndsKeepInv, ReadsKeepInv, StepsKeepInv DEF ReaderStep
  <2>3. CASE WriterStep
    BY <1>2, <2>3, EndsKeepInv, ReadsKeepInv, StepsKeepInv, WriterTopKeepsInv, CarrierKeepsInv
       DEF WriterStep
  <2>4. CASE ConnectionLost \/ ReleaseRead \/ ReleaseWrite
    BY <1>2, <2>4, StepsKeepInv
  <2>5. CASE UNCHANGED vars
    BY <1>2, <2>5
       DEF TransportInv, TypeOK, FlagsOK, LossInv, OpsInv, OrderInv, InFlight, Ending,
           vars, buffer, flags, ending, reader, writer, carrier
  <2>6. QED
    BY <1>2, <2>1, <2>2, <2>3, <2>4, <2>5 DEF Next
<1>3. QED
  BY <1>1, <1>2, PTL DEF Spec

\* Each write is one write on the carrier, in order, before the end of its
\* sending half.
THEOREM InOrder == Spec => []WritesInOrder
<1>1. TransportInv => WritesInOrder
  <2> SUFFICES ASSUME TransportInv PROVE Len(sent) <= written
    BY DEF TransportInv, OrderInv, WritesInOrder
  <2> QED
    BY DEF TransportInv, TypeOK, OrderInv
<1>2. QED
  BY <1>1, TransportInvariance, PTL

\* A close() that was neither aborted nor failed loses no write.
THEOREM CloseKeeps == Spec => []CloseKeepsData
<1>1. TransportInv => CloseKeepsData
  BY DEF TransportInv, LossInv, OrderInv, CloseKeepsData
<1>2. QED
  BY <1>1, TransportInvariance, PTL

\* At most one chunk is delivered after pause_reading().
THEOREM PauseHeld == Spec => []PauseHolds
<1>1. TransportInv => PauseHolds
  BY DEF TransportInv, OpsInv, PauseHolds
<1>2. QED
  BY <1>1, TransportInvariance, PTL

=============================================================================
