------------------------- MODULE LayerChannelProofs -------------------------
(***************************************************************************)
(* Proofs about the stream of a Python layer (module LayerChannel), for    *)
(* any depth of the channels and any number of writes and bytes.           *)
(*                                                                         *)
(* WriteInv follows the crate's writes down to the layer's writer, ReadInv *)
(* the layer's bytes up to the crate; each is inductive with TypeOK.       *)
(***************************************************************************)
EXTENDS LayerChannel, SequenceTheorems, TLAPS

-----------------------------------------------------------------------------
(***************************************************************************)
(* The inductive invariants.                                               *)
(***************************************************************************)

\* What poll_write took is in w2, in the pump's hand and in the channel, in
\* this order; once the pump is over, w2 has a part of it from the front, all
\* of it if the pump saw the end of the writes.
WriteInv ==
  /\ down \in {"reading", "draining"} => accepted = w2 \o out
  /\ down = "read" => hand # 0 /\ accepted = Append(w2, hand) \o out
  /\ down \in {"cancelled", "ended"} => IsPrefix(w2, accepted)
  /\ why["down"] # "runs" => down \in {"cancelled", "ended"}
  /\ why["down"] = "end" => w2 = accepted /\ ~tx

\* Where the bytes in the crate's hands and in the channel end.
ReadEnd == Len(got) + Len(buf)
StartOf(i) == inq[i][1] - 1
EndOf(i) == StartOf(i) + Len(inq[i])
QueueEnd == IF inq = <<>> THEN ReadEnd ELSE EndOf(Len(inq))

\* What the crate read, the rest of its message and the messages of the channel
\* are the numbers from 1 on, without a gap.
Chain ==
  /\ got = Numbers(0, Len(got))
  /\ buf = Numbers(Len(got), ReadEnd)
  /\ \A i \in 1..Len(inq) : inq[i] # <<>> /\ inq[i] = Numbers(StartOf(i), EndOf(i))
  /\ inq # <<>> => StartOf(1) = ReadEnd
  /\ \A i \in 1..(Len(inq) - 1) : StartOf(i + 1) = EndOf(i)

\* With the chunk of the pump they end at what the layer gave, unless a
\* cancelled pump dropped its chunk; the crate finds the end behind them.
Ends ==
  /\ ReadEnd <= fed /\ \A i \in 1..Len(inq) : EndOf(i) <= fed
  /\ chunk = Numbers(fed - Len(chunk), fed)
  /\ chunk = <<>> <=> up \in {"reading", "ended"}
  /\ alive /\ ~(up = "ended" /\ why["up"] = "cancelled") => QueueEnd + Len(chunk) = fed
  /\ ~alive => buf = <<>> /\ inq = <<>>
  /\ why["up"] # "runs" => up \in {"cancelled", "ended"}
  /\ up = "cancelled" => why["up"] = "cancelled"
  /\ eof => up = "ended" /\ buf = <<>> /\ inq = <<>>
  /\ eof /\ why["up"] # "cancelled" => Len(got) = fed

ReadInv == Chain /\ Ends

-----------------------------------------------------------------------------
(***************************************************************************)
(* Sequences.                                                              *)
(***************************************************************************)

\* What joins a channel joins the writes behind those of w2, and what leaves it
\* is the next of them.
LEMMA Moves ==
  ASSUME NEW S, NEW s \in Seq(S), NEW t \in Seq(S), NEW x \in S
  PROVE  /\ s \o Append(t, x) = Append(s \o t, x)
         /\ t # <<>> => s \o t = Append(s, Head(t)) \o Tail(t)
         /\ s \o t \in Seq(S)
<1>1. s \o Append(t, x) = Append(s \o t, x)
  BY AppendIsConcat, ConcatAssociative, ConcatProperties, <<x>> \in Seq(S)
<1>2. ASSUME t # <<>>
      PROVE  s \o t = Append(s, Head(t)) \o Tail(t)
  <2>1. Head(t) \in S /\ Tail(t) \in Seq(S) /\ <<Head(t)>> \in Seq(S)
    BY <1>2
  <2>2. t = <<Head(t)>> \o Tail(t)
    BY <1>2
  <2>3. Append(s, Head(t)) = s \o <<Head(t)>>
    BY <2>1, AppendIsConcat
  <2> QED
    BY <2>1, <2>2, <2>3, ConcatAssociative
<1>3. s \o t \in Seq(S)
  OBVIOUS
<1> QED
  BY <1>1, <1>2, <1>3

\* IsPrefix, as the proofs use it.
LEMMA Prefix ==
  ASSUME NEW S, NEW s \in Seq(S), NEW t \in Seq(S)
  PROVE  /\ IsPrefix(s, t) <=> Len(s) <= Len(t) /\ \A i \in 1..Len(s) : s[i] = t[i]
         /\ IsPrefix(s, s \o t)
         /\ \A x \in S : IsPrefix(s, t) => IsPrefix(s, Append(t, x))
<1>1. ASSUME NEW u \in Seq(S)
      PROVE  IsPrefix(s, u) <=> Len(s) <= Len(u) /\ \A i \in 1..Len(s) : s[i] = u[i]
  <2>1. ASSUME Len(s) <= Len(u)
        PROVE  /\ Len(SubSeq(s, 1, Len(s))) = Len(s) /\ Len(SubSeq(u, 1, Len(s))) = Len(s)
               /\ SubSeq(s, 1, Len(s)) \in Seq(S) /\ SubSeq(u, 1, Len(s)) \in Seq(S)
               /\ \A i \in 1..Len(s) : SubSeq(s, 1, Len(s))[i] = s[i] /\ SubSeq(u, 1, Len(s))[i] = u[i]
    BY <2>1
  <2> QED
    BY <2>1, SeqEqual DEF IsPrefix
<1>2. IsPrefix(s, s \o t)
  <2>1. s \o t \in Seq(S) /\ Len(s) <= Len(s \o t) /\ \A i \in 1..Len(s) : (s \o t)[i] = s[i]
    BY ConcatProperties
  <2> QED
    BY <1>1, <2>1
<1>3. ASSUME NEW x \in S, IsPrefix(s, t)
      PROVE  IsPrefix(s, Append(t, x))
  <2>1. Append(t, x) \in Seq(S) /\ Len(t) <= Len(Append(t, x))
        /\ \A i \in 1..Len(t) : Append(t, x)[i] = t[i]
    BY AppendProperties
  <2>2. Len(s) <= Len(t) /\ \A i \in 1..Len(s) : s[i] = t[i]
    BY ONLY <1>1, <1>3, t \in Seq(S)
  <2>3. Len(s) <= Len(Append(t, x)) /\ \A i \in 1..Len(s) : s[i] = Append(t, x)[i]
    BY <2>1, <2>2, Len(s) \in Nat, Len(t) \in Nat
  <2> QED
    BY ONLY <1>1, <2>1, <2>3
<1> QED
  BY <1>1, <1>2, <1>3

\* What is in front of a message in hand.
LEMMA HandPrefix ==
  ASSUME NEW S, NEW s \in Seq(S), NEW t \in Seq(S), NEW x \in S
  PROVE  IsPrefix(s, Append(s, x) \o t)
<1>1. Append(s, x) = s \o <<x>> /\ <<x>> \in Seq(S)
  BY AppendIsConcat
<1>2. Append(s, x) \o t = s \o (<<x>> \o t) /\ <<x>> \o t \in Seq(S)
  BY <1>1, ConcatAssociative, ConcatProperties
<1> QED
  BY <1>2, Prefix

\* A sequence cut in two.
LEMMA Cut ==
  ASSUME NEW S, NEW s \in Seq(S), NEW k \in 0..Len(s)
  PROVE  /\ SubSeq(s, 1, k) \in Seq(S) /\ Len(SubSeq(s, 1, k)) = k
         /\ \A i \in 1..k : SubSeq(s, 1, k)[i] = s[i]
         /\ SubSeq(s, k + 1, Len(s)) \in Seq(S) /\ Len(SubSeq(s, k + 1, Len(s))) = Len(s) - k
         /\ \A i \in 1..(Len(s) - k) : SubSeq(s, k + 1, Len(s))[i] = s[k + i]
<1>1. SubSeq(s, 1, k) \in Seq(S)
  OBVIOUS
<1>2. Len(SubSeq(s, 1, k)) = k
  OBVIOUS
<1>3. \A i \in 1..k : SubSeq(s, 1, k)[i] = s[i]
  OBVIOUS
<1>4. SubSeq(s, k + 1, Len(s)) \in Seq(S)
  OBVIOUS
<1>5. Len(SubSeq(s, k + 1, Len(s))) = Len(s) - k
  OBVIOUS
<1>6. \A i \in 1..(Len(s) - k) : SubSeq(s, k + 1, Len(s))[i] = s[k + i]
  OBVIOUS
<1> QED
  BY <1>1, <1>2, <1>3, <1>4, <1>5, <1>6

\* A channel of the depth D that gets or loses a message.
LEMMA Bounded ==
  ASSUME NEW S, NEW s \in Seq(S), NEW D \in Nat \ {0}, Len(s) <= D
  PROVE  /\ <<>> \in Seq(S) /\ Len(<<>>) <= D
         /\ \A x \in S : Append(s, x) \in Seq(S) /\ (Len(s) < D => Len(Append(s, x)) <= D)
         /\ s # <<>> => Head(s) \in S /\ Tail(s) \in Seq(S) /\ Len(Tail(s)) <= D
OBVIOUS

\* The bytes of a range.
LEMMA Ranges ==
  ASSUME NEW a \in Nat, NEW b \in Nat, a <= b
  PROVE  /\ Numbers(a, b) \in Seq(Nat) /\ Len(Numbers(a, b)) = b - a
         /\ \A i \in 1..(b - a) : Numbers(a, b)[i] = a + i
         /\ \A M \in Nat : b <= M => Numbers(a, b) \in Seq(1..M)
         /\ Numbers(a, b) = <<>> <=> a = b
BY DEF Numbers

LEMMA RangeAt ==
  ASSUME NEW a \in Nat, NEW b \in Nat, a <= b, NEW s, s = Numbers(a, b)
  PROVE  Len(s) = b - a /\ \A i \in 1..Len(s) : s[i] = a + i
<1>1. Len(Numbers(a, b)) = b - a /\ \A i \in 1..(b - a) : Numbers(a, b)[i] = a + i
  BY Ranges
<1> QED
  BY <1>1

\* The first element of a sequence.
LEMMA First ==
  ASSUME NEW S, NEW s \in Seq(S), s # <<>>
  PROVE  s[1] \in S /\ Len(s) \in Nat /\ Len(s) >= 1
OBVIOUS

\* A sequence of numbers in order is the range of its length.
LEMMA RangeOf ==
  ASSUME NEW s \in Seq(Int), NEW a \in Nat, NEW b \in Nat, Len(s) = b - a,
         \A i \in 1..Len(s) : s[i] = a + i
  PROVE  s = Numbers(a, b)
BY SeqEqual, Ranges DEF Numbers

-----------------------------------------------------------------------------
(***************************************************************************)
(* The steps.                                                              *)
(***************************************************************************)

LEMMA WriteInvKept ==
  ASSUME WriteInv, UNCHANGED <<down, hand, w2, out, accepted, tx, why["down"]>>
  PROVE  WriteInv'
BY DEF WriteInv

LEMMA ReadInvKept ==
  ASSUME ReadInv, UNCHANGED <<got, buf, inq, chunk, fed, up, eof, alive, why["up"]>>
  PROVE  ReadInv'
BY DEF ReadInv, Chain, Ends, QueueEnd, ReadEnd, StartOf, EndOf

\* poll_write leaves the channel alone, or takes the write into it.
LEMMA PollWriteMoves ==
  ASSUME NEW d, PollWrite(d)
  PROVE  /\ \/ accepted' = accepted /\ out' = out
            \/ Len(out) < Depth /\ accepted' = Append(accepted, d) /\ out' = Append(out, d)
         /\ pending' \in {0, d} /\ down' = down /\ hand' = hand /\ w2' = w2 /\ why' = why
BY DEF PollWrite, downVars

LEMMA PollWriteFlags ==
  ASSUME NEW d, PollWrite(d)
  PROVE  tx' = tx /\ (~tx => accepted' = accepted)
BY DEF PollWrite

\* poll_read takes the first k bytes of the message m.
ReadMoves(m, k) ==
  /\ got' = got \o SubSeq(m, 1, k) /\ buf' = SubSeq(m, k + 1, Len(m))
  /\ \/ buf # <<>> /\ m = buf /\ inq' = inq
     \/ buf = <<>> /\ inq # <<>> /\ m = Head(inq) /\ inq' = Tail(inq)

LEMMA ReadDataMoves ==
  ASSUME TypeOK, NEW n \in 1..MaxChunk, ReadData(n)
  PROVE  \E m \in Seq(1..MaxBytes) : \E k \in 0..Len(m) : ReadMoves(m, k)
<1> DEFINE m == IF buf = <<>> THEN Head(inq) ELSE buf
           k == IF n < Len(m) THEN n ELSE Len(m)
<1>1. m \in Seq(1..MaxBytes)
  BY HeadTailProperties DEF TypeOK, ReadTypes, ReadData
<1>2. k \in 0..Len(m)
  <2> HIDE DEF m
  <2> QED
    BY <1>1, ChannelAssumption
<1>3. ReadMoves(m, k)
  BY DEF ReadMoves, ReadData
<1> QED
  BY <1>1, <1>2, <1>3

LEMMA MovedParts ==
  ASSUME TypeOK, NEW m \in Seq(1..MaxBytes), NEW k \in 0..Len(m), ReadMoves(m, k)
  PROVE  /\ got' \in Seq(1..MaxBytes) /\ Len(got') = Len(got) + k
         /\ \A i \in 1..Len(got') : got'[i] = IF i <= Len(got) THEN got[i] ELSE m[i - Len(got)]
         /\ buf' \in Seq(1..MaxBytes) /\ Len(buf') = Len(m) - k
         /\ \A i \in 1..Len(buf') : buf'[i] = m[k + i]
<1> DEFINE s == SubSeq(m, 1, k)
<1>1. s \in Seq(1..MaxBytes) /\ Len(s) = k /\ \A i \in 1..k : s[i] = m[i]
  BY ONLY Cut, m \in Seq(1..MaxBytes), k \in 0..Len(m), ZenonT(30)
<1>2. /\ got \in Seq(1..MaxBytes) /\ got \o s \in Seq(1..MaxBytes) /\ Len(got \o s) = Len(got) + k
      /\ \A i \in 1..(Len(got) + k) :
           (got \o s)[i] = IF i <= Len(got) THEN got[i] ELSE s[i - Len(got)]
  BY <1>1, ConcatProperties DEF TypeOK, ReadTypes
<1>3. /\ SubSeq(m, k + 1, Len(m)) \in Seq(1..MaxBytes)
      /\ Len(SubSeq(m, k + 1, Len(m))) = Len(m) - k
      /\ \A i \in 1..(Len(m) - k) : SubSeq(m, k + 1, Len(m))[i] = m[k + i]
  BY ONLY Cut, m \in Seq(1..MaxBytes), k \in 0..Len(m)
<1>4. got' = got \o s /\ buf' = SubSeq(m, k + 1, Len(m))
  BY DEF ReadMoves
<1>5. /\ got' \in Seq(1..MaxBytes) /\ Len(got') = Len(got) + k
      /\ \A i \in 1..Len(got') : got'[i] = IF i <= Len(got) THEN got[i] ELSE m[i - Len(got)]
  <2>1. Len(got) \in Nat /\ k \in Nat
    BY ONLY <1>1, <1>2, k \in 0..Len(m), m \in Seq(1..MaxBytes)
  <2> HIDE DEF s
  <2>2. \A i \in 1..(Len(got) + k) :
          (got \o s)[i] = IF i <= Len(got) THEN got[i] ELSE m[i - Len(got)]
    <3> TAKE i \in 1..(Len(got) + k)
    <3>1. i > Len(got) => i - Len(got) \in 1..k
      BY ONLY <2>1, i \in 1..(Len(got) + k)
    <3> QED
      BY ONLY <1>1, <1>2, <2>1, <3>1, i \in 1..(Len(got) + k)
  <2> QED
    BY ONLY <1>2, <1>4, <2>2
<1> QED
  BY ONLY <1>3, <1>4, <1>5

\* Every step keeps the types.
LEMMA TypeStep ==
  ASSUME TypeOK, WriteInv, Next
  PROVE  TypeOK'
<1> USE ChannelAssumption DEF TypeOK, crateWrite, crateRead, downVars, upVars, Pumps
<1>1. CASE StartWrite
  <2> USE <1>1 DEF StartWrite
  <2>1. Flags'
    BY DEF PollWrite, Flags
  <2>2. WriteTypes'
    <3>1. started + 1 \in 1..MaxWrites
      BY DEF WriteTypes
    <3>2. /\ accepted' \in Seq(1..MaxWrites)
          /\ out' \in Seq(1..MaxWrites) /\ Len(out') <= Depth
      <4>1. /\ out \in Seq(1..MaxWrites) /\ Len(out) <= Depth
            /\ accepted \in Seq(1..MaxWrites) /\ Append(accepted, started + 1) \in Seq(1..MaxWrites)
        BY <3>1, AppendProperties DEF WriteTypes
      <4>2. \/ accepted' = accepted /\ out' = out
            \/ /\ Len(out) < Depth
               /\ accepted' = Append(accepted, started + 1) /\ out' = Append(out, started + 1)
        BY PollWriteMoves
      <4> QED
        BY ONLY <3>1, <4>1, <4>2, Bounded, ChannelAssumption, Zenon
    <3>3. pending' \in 0..MaxWrites /\ started' \in 0..MaxWrites
      BY <3>1, PollWriteMoves DEF WriteTypes
    <3> QED
      BY <3>2, <3>3, PollWriteMoves DEF WriteTypes
  <2>3. ReadTypes'
    BY DEF PollWrite, ReadTypes
  <2> QED
    BY <2>1, <2>2, <2>3, PollWriteMoves
<1>2. CASE WakeWrite
  <2> USE <1>2 DEF WakeWrite
  <2>1. Flags'
    BY DEF PollWrite, Flags
  <2>2. WriteTypes'
    <3>1. pending \in 1..MaxWrites
      BY DEF WriteTypes
    <3>2. /\ accepted' \in Seq(1..MaxWrites)
          /\ out' \in Seq(1..MaxWrites) /\ Len(out') <= Depth
      <4>1. /\ out \in Seq(1..MaxWrites) /\ Len(out) <= Depth
            /\ accepted \in Seq(1..MaxWrites) /\ Append(accepted, pending) \in Seq(1..MaxWrites)
        BY <3>1, AppendProperties DEF WriteTypes
      <4>2. \/ accepted' = accepted /\ out' = out
            \/ /\ Len(out) < Depth
               /\ accepted' = Append(accepted, pending) /\ out' = Append(out, pending)
        BY PollWriteMoves
      <4> QED
        BY ONLY <3>1, <4>1, <4>2, Bounded, ChannelAssumption, Zenon
    <3>3. pending' \in 0..MaxWrites /\ started' \in 0..MaxWrites
      <4>1. pending' \in {0, pending} /\ started' = started
        BY PollWriteMoves
      <4> QED
        BY ONLY <4>1, WriteTypes, ChannelAssumption DEF WriteTypes
    <3> QED
      BY <3>2, <3>3, PollWriteMoves DEF WriteTypes
  <2>3. ReadTypes'
    BY DEF PollWrite, ReadTypes
  <2> QED
    BY <2>1, <2>2, <2>3, PollWriteMoves
<1>3. CASE AbandonWrite
  <2> USE <1>3 DEF AbandonWrite
  <2>1. Flags'
    BY DEF Flags
  <2>2. WriteTypes'
    BY DEF WriteTypes
  <2>3. ReadTypes'
    BY DEF ReadTypes
  <2> QED
    BY <2>1, <2>2, <2>3
<1>4. CASE Shutdown
  <2> USE <1>4 DEF Shutdown
  <2>1. Flags'
    BY DEF Flags
  <2>2. WriteTypes'
    BY DEF WriteTypes
  <2>3. ReadTypes'
    BY DEF ReadTypes
  <2> QED
    BY <2>1, <2>2, <2>3
<1>5. CASE DropChan
  <2> USE <1>5 DEF DropChan
  <2>1. Flags'
    BY DEF Flags
  <2>2. WriteTypes'
    BY DEF WriteTypes
  <2>3. ReadTypes'
    <3>1. <<>> \in Seq(1..MaxBytes) /\ <<>> \in Seq(Seq(1..MaxBytes)) /\ Len(<<>>) <= Depth
      OBVIOUS
    <3> QED
      BY <3>1 DEF ReadTypes
  <2> QED
    BY <2>1, <2>2, <2>3
<1>6. CASE ReadEof
  <2> USE <1>6 DEF ReadEof
  <2>1. Flags'
    BY DEF Flags
  <2>2. WriteTypes'
    BY DEF WriteTypes
  <2>3. ReadTypes'
    BY DEF ReadTypes
  <2> QED
    BY <2>1, <2>2, <2>3
<1>7. ASSUME NEW n \in 1..MaxChunk, ReadData(n)
      PROVE  TypeOK'
  <2> USE <1>7 DEF ReadData
  <2>1. Flags'
    BY DEF Flags
  <2>2. WriteTypes'
    BY DEF WriteTypes
  <2>3. ReadTypes'
    <3> PICK m \in Seq(1..MaxBytes) : \E k \in 0..Len(m) : ReadMoves(m, k)
      BY ReadDataMoves
    <3>1. PICK k \in 0..Len(m) : ReadMoves(m, k)
      OBVIOUS
    <3>2. got' \in Seq(1..MaxBytes) /\ buf' \in Seq(1..MaxBytes)
      BY <3>1, MovedParts
    <3>3. inq' \in Seq(Seq(1..MaxBytes)) /\ Len(inq') <= Depth
      <4>1. inq \in Seq(Seq(1..MaxBytes)) /\ Len(inq) <= Depth /\ Len(inq) \in Nat
        BY DEF ReadTypes
      <4>2. inq' = inq \/ (inq # <<>> /\ inq' = Tail(inq))
        BY ONLY <3>1 DEF ReadMoves
      <4> QED
        BY ONLY <4>1, <4>2, ChannelAssumption, Bounded, Zenon
    <3> QED
      BY <3>2, <3>3 DEF ReadTypes
  <2> QED
    BY <2>1, <2>2, <2>3
<1>8. CASE Recv
  <2> USE <1>8 DEF Recv
  <2>1. Flags'
    BY DEF Flags
  <2>2. WriteTypes'
    BY DEF WriteTypes
  <2>3. ReadTypes'
    BY DEF ReadTypes
  <2> QED
    BY <2>1, <2>2, <2>3
<1>9. CASE WriteDown
  <2> USE <1>9 DEF WriteDown
  <2>1. Flags'
    BY DEF Flags
  <2>2. WriteTypes'
    BY DEF WriteTypes, WriteInv
  <2>3. ReadTypes'
    BY DEF ReadTypes
  <2> QED
    BY <2>1, <2>2, <2>3
<1>10. CASE DrainEnds
  <2> USE <1>10 DEF DrainEnds
  <2>1. Flags'
    BY DEF Flags
  <2>2. WriteTypes'
    BY DEF WriteTypes
  <2>3. ReadTypes'
    BY DEF ReadTypes
  <2> QED
    BY <2>1, <2>2, <2>3
<1>11. CASE DownEof
  <2> USE <1>11 DEF DownEof, DownEnds
  <2>1. Flags'
    BY DEF Flags
  <2>2. WriteTypes'
    BY DEF WriteTypes
  <2>3. ReadTypes'
    BY DEF ReadTypes
  <2> QED
    BY <2>1, <2>2, <2>3
<1>12. CASE UpSend
  <2> USE <1>12 DEF UpSend
  <2>1. Flags'
    BY DEF Flags
  <2>2. WriteTypes'
    BY DEF WriteTypes
  <2>3. ReadTypes'
    <3>1. inq' = inq \/ (Len(inq) < Depth /\ inq' = Append(inq, chunk))
      BY ONLY <1>12 DEF UpSend
    <3>2. inq' \in Seq(Seq(1..MaxBytes)) /\ Len(inq') <= Depth
      BY ONLY <3>1, ReadTypes, ChannelAssumption, Bounded, Zenon DEF ReadTypes
    <3>3. chunk' \in Seq(1..MaxBytes)
      OBVIOUS
    <3> QED
      BY <3>2, <3>3 DEF ReadTypes
  <2> QED
    BY <2>1, <2>2, <2>3
<1>13. CASE DropOperation
  <2> USE <1>13 DEF DropOperation
  <2>1. Flags'
    BY DEF Flags
  <2>2. WriteTypes'
    BY DEF WriteTypes
  <2>3. ReadTypes'
    <3>1. chunk' = chunk \/ chunk' = <<>>
      OBVIOUS
    <3>2. chunk' \in Seq(1..MaxBytes)
      BY ONLY <3>1, ReadTypes, <<>> \in Seq(1..MaxBytes), Zenon DEF ReadTypes
    <3>3. up' \in {up, "ended"} /\ UNCHANGED <<fed, got, buf, inq>>
      OBVIOUS
    <3> QED
      BY ONLY <3>2, <3>3, ReadTypes DEF ReadTypes
  <2> QED
    BY <2>1, <2>2, <2>3
<1>14. CASE DrainFails
  <2> USE <1>14 DEF DrainFails, DownEnds
  <2>1. Flags'
    BY DEF Flags
  <2>2. WriteTypes'
    BY DEF WriteTypes
  <2>3. ReadTypes'
    BY DEF ReadTypes
  <2> QED
    BY <2>1, <2>2, <2>3
<1>15. CASE CancelPump
  <2> USE <1>15 DEF CancelPump, DownEnds, UpEnds
  <2>1. Flags'
    BY DEF Flags
  <2>2. WriteTypes'
    BY DEF WriteTypes
  <2>3. ReadTypes'
    BY DEF ReadTypes
  <2> QED
    BY <2>1, <2>2, <2>3
<1>16. ASSUME NEW n \in 1..MaxChunk, UpRead(n)
      PROVE  TypeOK'
  <2> USE <1>16 DEF UpRead
  <2>1. Flags'
    BY DEF Flags
  <2>2. WriteTypes'
    BY DEF WriteTypes
  <2>3. ReadTypes'
    <3>1. fed \in Nat /\ fed + n \in 0..MaxBytes
      BY DEF ReadTypes
    <3>2. chunk' \in Seq(1..MaxBytes)
      BY <3>1, Ranges
    <3> QED
      BY <3>1, <3>2 DEF ReadTypes
  <2> QED
    BY <2>1, <2>2, <2>3
<1>17. ASSUME NEW how \in {"end", "failed"}, R2Ends(how)
      PROVE  TypeOK'
  <2> USE <1>17 DEF R2Ends, UpEnds
  <2>1. Flags'
    BY DEF Flags
  <2>2. WriteTypes'
    BY DEF WriteTypes
  <2>3. ReadTypes'
    BY DEF ReadTypes
  <2> QED
    BY <2>1, <2>2, <2>3
<1> QED
  BY <1>1, <1>2, <1>3, <1>4, <1>5, <1>6, <1>7, <1>8, <1>9, <1>10, <1>11, <1>12, <1>13,
     <1>14, <1>15, <1>16, <1>17 DEF Next, CrateReads, PumpStep

\* What a write of the crate does to WriteInv.
LEMMA PolledWrite ==
  ASSUME TypeOK, WriteInv, NEW d \in 1..MaxWrites, PollWrite(d)
  PROVE  WriteInv'
<1>1. w2 \in Seq(1..MaxWrites) /\ out \in Seq(1..MaxWrites) /\ accepted \in Seq(1..MaxWrites)
      /\ hand \in 0..MaxWrites
  BY DEF TypeOK, WriteTypes
<1>2. UNCHANGED <<down, hand, w2, why>> /\ UNCHANGED tx
  BY PollWriteMoves, PollWriteFlags
<1>3. CASE accepted' = accepted /\ out' = out
  BY <1>2, <1>3, WriteInvKept
<1>4. CASE accepted' = Append(accepted, d) /\ out' = Append(out, d)
  <2>1. w2 \o out' = Append(w2 \o out, d)
    BY <1>1, <1>4, Moves
  <2>2. ASSUME hand # 0
        PROVE  Append(w2, hand) \o out' = Append(Append(w2, hand) \o out, d)
    <3>1. hand \in 1..MaxWrites /\ Append(w2, hand) \in Seq(1..MaxWrites)
      BY <1>1, <2>2, ChannelAssumption
    <3> QED
      BY ONLY <1>1, <1>4, <3>1, d \in 1..MaxWrites, Moves
  <2>3. IsPrefix(w2, accepted) => IsPrefix(w2, accepted')
    BY <1>1, <1>4, Prefix
  <2>4. accepted' # accepted
    BY <1>1, <1>4
  <2>5. tx
    BY <2>4, PollWriteFlags
  <2> QED
    BY <1>2, <1>4, <2>1, <2>2, <2>3, <2>5, Zenon DEF WriteInv
<1> QED
  BY <1>3, <1>4, PollWriteMoves

\* Every step keeps WriteInv.
LEMMA WriteStep ==
  ASSUME TypeOK, WriteInv, Next
  PROVE  WriteInv'
<1> USE DEF crateWrite, crateRead, downVars, upVars
<1>0. /\ w2 \in Seq(1..MaxWrites) /\ out \in Seq(1..MaxWrites) /\ hand \in 0..MaxWrites
      /\ accepted \in Seq(1..MaxWrites)
      /\ down \in {"reading", "read", "draining", "cancelled", "ended"}
      /\ why \in [Pumps -> {"runs", "end", "failed", "cancelled"}]
  BY DEF TypeOK, WriteTypes
<1>1. CASE StartWrite
  <2>1. started + 1 \in 1..MaxWrites
    BY <1>1, ChannelAssumption DEF StartWrite, TypeOK, WriteTypes
  <2> QED
    BY <1>1, <2>1, PolledWrite DEF StartWrite
<1>2. CASE WakeWrite
  <2>1. pending \in 1..MaxWrites
    BY <1>2, ChannelAssumption DEF WakeWrite, TypeOK, WriteTypes
  <2> QED
    BY <1>2, <2>1, PolledWrite DEF WakeWrite
<1>3. CASE AbandonWrite \/ ReadEof \/ \E n \in 1..MaxChunk : ReadData(n)
  BY <1>3, WriteInvKept DEF AbandonWrite, ReadEof, ReadData
<1>4. CASE Shutdown \/ DropChan
  <2>1. UNCHANGED <<down, hand, w2, out, accepted, why>> /\ ~tx'
    BY <1>4 DEF Shutdown, DropChan
  <2> QED
    BY <2>1, Zenon DEF WriteInv
<1>5. CASE Recv
  <2>1. CASE down = "reading"
    <3>1. accepted = w2 \o out /\ down' = "read" /\ hand' = Head(out) /\ out' = Tail(out)
          /\ UNCHANGED <<w2, accepted>>
      BY <1>5, <2>1 DEF Recv, WriteInv
    <3>2. hand' # 0 /\ accepted' = Append(w2', hand') \o out'
      <4>1. out # <<>> /\ Head(out) \in 1..MaxWrites
        <5>1. out # <<>> /\ out \in Seq(1..MaxWrites)
          BY <1>0, <1>5 DEF Recv
        <5> QED
          BY ONLY <5>1, HeadTailProperties
      <4>2. w2 \o out = Append(w2, Head(out)) \o Tail(out)
        BY <1>0, <4>1, Moves
      <4>3. Head(out) # 0
        BY <4>1, ChannelAssumption
      <4> QED
        BY <3>1, <4>2, <4>3
    <3>3. why["down"] = "runs" /\ UNCHANGED why
      BY <1>0, <1>5, <2>1 DEF Recv, WriteInv, Pumps
    <3> QED
      BY <3>1, <3>2, <3>3 DEF WriteInv
  <2>2. CASE down = "cancelled"
    <3>1. down' = "ended" /\ UNCHANGED <<w2, accepted, why>> /\ UNCHANGED tx
      BY <1>5, <2>2 DEF Recv
    <3> QED
      BY <2>2, <3>1, Zenon DEF WriteInv
  <2> QED
    BY <1>5, <2>1, <2>2 DEF Recv
<1>6. CASE WriteDown
  <2>1. accepted = Append(w2, hand) \o out /\ down' = "draining" /\ w2' = Append(w2, hand)
        /\ UNCHANGED <<accepted, out>>
    BY <1>6 DEF WriteDown, WriteInv
  <2>2. why["down"] = "runs" /\ UNCHANGED why
    BY <1>0, <1>6 DEF WriteDown, WriteInv, Pumps
  <2> QED
    BY <2>1, <2>2 DEF WriteInv
<1>7. CASE DrainEnds
  <2>1. accepted = w2 \o out /\ down' = "reading" /\ UNCHANGED <<accepted, out, w2>>
    BY <1>7 DEF DrainEnds, WriteInv
  <2>2. why["down"] = "runs" /\ UNCHANGED why
    BY <1>0, <1>7 DEF DrainEnds, WriteInv, Pumps
  <2> QED
    BY <2>1, <2>2 DEF WriteInv
<1>8. CASE DownEof
  <2>1. w2' = accepted'
    BY <1>0, <1>8, ConcatEmptySeq DEF DownEof, DownEnds, WriteInv
  <2>2. IsPrefix(w2', accepted')
    BY <1>0, <1>8, <2>1, Prefix DEF DownEof
  <2>3. down' = "ended" /\ ~tx'
    BY <1>8 DEF DownEof, DownEnds
  <2> QED
    BY <2>1, <2>2, <2>3, Zenon DEF WriteInv
<1>9. CASE DrainFails
  <2>1. IsPrefix(w2', accepted')
    <3>1. accepted = w2 \o out /\ UNCHANGED <<w2, accepted>>
      BY <1>9 DEF DrainFails, DownEnds, WriteInv
    <3> QED
      BY ONLY <1>0, <3>1, Prefix
  <2>2. down' = "ended" /\ why'["down"] = "failed"
    BY <1>0, <1>9 DEF DrainFails, DownEnds, Pumps
  <2> QED
    BY <2>1, <2>2, Zenon DEF WriteInv
<1>10. CASE CancelPump
  <2>1. CASE down \in {"reading", "read", "draining"} /\ DownEnds("cancelled")
    <3>1. UNCHANGED <<w2, accepted>>
      BY <1>10, <2>1 DEF CancelPump, DownEnds, UpEnds
    <3>2. IsPrefix(w2, accepted)
      <4>1. CASE down = "read"
        <5>1. hand \in 1..MaxWrites /\ accepted = Append(w2, hand) \o out
          <6>1. hand # 0 /\ accepted = Append(w2, hand) \o out
            BY <4>1 DEF WriteInv
          <6> QED
            BY ONLY <1>0, <6>1, ChannelAssumption
        <5> QED
          BY ONLY <1>0, <5>1, HandPrefix
      <4>2. CASE down # "read"
        <5>1. accepted = w2 \o out
          BY <2>1, <4>2 DEF WriteInv
        <5> QED
          BY ONLY <1>0, <5>1, Prefix
      <4> QED
        BY <4>1, <4>2
    <3>3. down' \in {"cancelled", "ended"} /\ why'["down"] = "cancelled"
      BY <1>0, <2>1 DEF DownEnds, Pumps
    <3> QED
      BY <3>1, <3>2, <3>3 DEF WriteInv
  <2>2. CASE UpEnds("cancelled") /\ UNCHANGED downVars
    <3>1. UNCHANGED <<down, hand, w2, out, accepted, tx>>
      BY <1>10, <2>2 DEF CancelPump
    <3>2. why'["down"] = why["down"]
      BY <1>0, <2>2 DEF UpEnds, Pumps
    <3> QED
      BY <3>1, <3>2, WriteInvKept
  <2> QED
    BY <1>10, <2>1, <2>2 DEF CancelPump
<1>11. CASE DropOperation
  <2>1. UNCHANGED <<w2, out, hand, accepted, why>> /\ UNCHANGED tx
    BY <1>11 DEF DropOperation
  <2>2. \/ down' = down
        \/ down = "cancelled" /\ down' = "ended"
    BY <1>11 DEF DropOperation
  <2> QED
    BY <2>1, <2>2, Zenon DEF WriteInv
<1>12. CASE UpSend \/ \E n \in 1..MaxChunk : UpRead(n)
  BY <1>12, WriteInvKept DEF UpSend, UpRead
<1>13. ASSUME NEW how \in {"end", "failed"}, R2Ends(how)
      PROVE  WriteInv'
  <2>1. UNCHANGED <<down, hand, w2, out, accepted, tx>>
    BY <1>13 DEF R2Ends
  <2>2. why'["down"] = why["down"]
    BY <1>0, <1>13 DEF R2Ends, UpEnds, Pumps
  <2> QED
    BY <2>1, <2>2, WriteInvKept
<1> QED
  BY <1>1, <1>2, <1>3, <1>4, <1>5, <1>6, <1>7, <1>8, <1>9, <1>10, <1>11, <1>12, <1>13
     DEF Next, CrateReads, PumpStep

LEMMA ChainKept ==
  ASSUME Chain, UNCHANGED <<got, buf, inq>>
  PROVE  Chain' /\ ReadEnd' = ReadEnd /\ QueueEnd' = QueueEnd
         /\ \A i \in 1..Len(inq) : EndOf(i)' = EndOf(i)
BY DEF Chain, QueueEnd, ReadEnd, StartOf, EndOf

\* A message of the channel is a range of its own.
LEMMA Message ==
  ASSUME TypeOK, Chain, NEW i \in 1..Len(inq)
  PROVE  /\ inq[i] \in Seq(1..MaxBytes) /\ inq[i] # <<>>
         /\ StartOf(i) \in Nat /\ EndOf(i) = StartOf(i) + Len(inq[i])
         /\ \A j \in 1..Len(inq[i]) : inq[i][j] = StartOf(i) + j
<1>1. inq[i] \in Seq(1..MaxBytes) /\ inq[i] # <<>>
  BY ElementOfSeq DEF TypeOK, ReadTypes, Chain
<1>2. inq[i][1] \in 1..MaxBytes /\ Len(inq[i]) \in Nat
  BY ONLY <1>1, First, Zenon
<1>3. StartOf(i) \in Nat /\ EndOf(i) = StartOf(i) + Len(inq[i]) /\ EndOf(i) \in Nat
  BY <1>2, ChannelAssumption DEF StartOf, EndOf
<1>4. inq[i] = Numbers(StartOf(i), EndOf(i))
  BY DEF Chain
<1>5. \A j \in 1..Len(inq[i]) : inq[i][j] = StartOf(i) + j
  <2>1. StartOf(i) <= EndOf(i)
    BY <1>2, <1>3
  <2> QED
    BY ONLY <1>3, <1>4, <2>1, RangeAt, ZenonT(30)
<1> QED
  BY <1>1, <1>3, <1>4, <1>5

LEMMA EndsTyped ==
  ASSUME TypeOK, Chain
  PROVE  ReadEnd \in Nat /\ QueueEnd \in Nat /\ \A i \in 1..Len(inq) : EndOf(i) \in Nat
<1>1. ReadEnd \in Nat
  BY DEF TypeOK, ReadTypes, ReadEnd
<1>2. ASSUME NEW i \in 1..Len(inq)
      PROVE  EndOf(i) \in Nat
  <2>1. EndOf(i) = StartOf(i) + Len(inq[i]) /\ StartOf(i) \in Nat /\ inq[i] \in Seq(1..MaxBytes)
    BY Message
  <2> QED
    BY <2>1
<1>3. inq # <<>> => Len(inq) \in 1..Len(inq)
  BY DEF TypeOK, ReadTypes
<1> QED
  BY <1>1, <1>2, <1>3 DEF QueueEnd

\* What a read of the crate does to the chain: its end stays where it was.
LEMMA MovedChain ==
  ASSUME TypeOK, ReadInv, NEW m \in Seq(1..MaxBytes), NEW k \in 0..Len(m), ReadMoves(m, k)
  PROVE  /\ Chain' /\ QueueEnd' = QueueEnd
         /\ ReadEnd' <= fed /\ \A i \in 1..Len(inq') : EndOf(i)' <= fed
<1>0. /\ got \in Seq(1..MaxBytes) /\ buf \in Seq(1..MaxBytes) /\ inq \in Seq(Seq(1..MaxBytes))
      /\ Len(got) \in Nat /\ Len(buf) \in Nat /\ Len(inq) \in Nat /\ Len(m) \in Nat /\ k \in Nat
      /\ fed \in Nat
  BY DEF TypeOK, ReadTypes
<1>1. \A i \in 1..Len(got) : got[i] = i
  BY <1>0, Ranges DEF ReadInv, Chain, Numbers
<1>2. \A i \in 1..Len(m) : m[i] = Len(got) + i
  <2>1. CASE buf # <<>>
    <3>1. m = buf
      BY <2>1 DEF ReadMoves
    <3>2. buf = Numbers(Len(got), Len(got) + Len(buf))
      BY DEF ReadInv, Chain, ReadEnd
    <3>3. PICK b \in Nat : b = Len(got) + Len(buf) /\ Len(got) <= b
      BY <1>0
    <3>4. buf = Numbers(Len(got), b)
      BY <3>2, <3>3
    <3>5. \A i \in 1..Len(buf) : buf[i] = Len(got) + i
      <4>1. Len(got) \in Nat /\ b \in Nat /\ Len(got) <= b
        BY <1>0, <3>3
      <4>2. /\ Len(Numbers(Len(got), b)) = b - Len(got)
            /\ \A i \in 1..(b - Len(got)) : Numbers(Len(got), b)[i] = Len(got) + i
        BY ONLY <4>1, Ranges, Zenon
      <4> QED
        BY ONLY <3>4, <4>2
    <3> QED
      BY <3>1, <3>5
  <2>2. CASE buf = <<>>
    <3>1. inq # <<>> /\ m = inq[1] /\ 1 \in 1..Len(inq)
      BY <1>0, <2>2 DEF ReadMoves
    <3>2. StartOf(1) = Len(got)
      BY <1>0, <2>2, <3>1 DEF ReadInv, Chain, ReadEnd
    <3> QED
      BY <3>1, <3>2, Message DEF ReadInv
  <2> QED
    BY <2>1, <2>2
<1>3. /\ got' \in Seq(1..MaxBytes) /\ Len(got') = Len(got) + k
      /\ \A i \in 1..Len(got') : got'[i] = i
  <2>1. /\ got' \in Seq(1..MaxBytes) /\ Len(got') = Len(got) + k
        /\ \A i \in 1..Len(got') : got'[i] = IF i <= Len(got) THEN got[i] ELSE m[i - Len(got)]
    BY MovedParts
  <2>2. ASSUME NEW i \in 1..Len(got')
        PROVE  got'[i] = i
    <3>1. CASE i <= Len(got)
      <4>1. got'[i] = got[i]
        BY <2>1, <3>1
      <4>2. i \in 1..Len(got)
        BY <1>0, <2>1, <3>1
      <4> QED
        BY <1>1, <4>1, <4>2
    <3>2. CASE ~(i <= Len(got))
      <4>1. i - Len(got) \in 1..Len(m)
        BY <1>0, <2>1, <3>2
      <4>2. got'[i] = m[i - Len(got)]
        BY <2>1, <3>2
      <4>3. m[i - Len(got)] = Len(got) + (i - Len(got))
        BY <1>2, <4>1
      <4> QED
        BY <1>0, <4>1, <4>2, <4>3
    <3> QED
      BY <3>1, <3>2
  <2> QED
    BY <2>1, <2>2
<1>4. /\ buf' \in Seq(1..MaxBytes) /\ Len(buf') = Len(m) - k
      /\ \A i \in 1..Len(buf') : buf'[i] = Len(got') + i
  <2>1. /\ buf' \in Seq(1..MaxBytes) /\ Len(buf') = Len(m) - k
        /\ \A i \in 1..Len(buf') : buf'[i] = m[k + i]
    BY MovedParts
  <2>2. ASSUME NEW i \in 1..Len(buf')
        PROVE  buf'[i] = Len(got') + i
    <3>1. k + i \in 1..Len(m)
      BY <1>0, <2>1
    <3> QED
      BY <1>0, <1>2, <1>3, <2>1, <3>1
  <2> QED
    BY <2>1, <2>2
<1>5. ReadEnd' = Len(got) + Len(m) /\ ReadEnd' \in Nat /\ Len(got') \in Nat
  BY <1>0, <1>3, <1>4 DEF ReadEnd
<1>6. got' = Numbers(0, Len(got'))
  <2>1. got' \in Seq(Int) /\ \A i \in 1..Len(got') : got'[i] = 0 + i
    BY <1>3
  <2> QED
    BY <1>5, <2>1, RangeOf
<1>7. buf' = Numbers(Len(got'), ReadEnd')
  <2>1. buf' \in Seq(Int)
    BY <1>4
  <2>2. Len(buf') = ReadEnd' - Len(got')
    BY <1>0, <1>3, <1>4, <1>5
  <2> QED
    BY <1>4, <1>5, <2>1, <2>2, RangeOf
<1>8. CASE buf # <<>>
  <2>1. inq' = inq /\ ReadEnd' = ReadEnd
    BY <1>5, <1>8 DEF ReadMoves, ReadEnd
  <2>2. QueueEnd' = QueueEnd
    BY <2>1 DEF QueueEnd, EndOf, StartOf
  <2>3. Chain'
    BY <1>6, <1>7, <2>1 DEF Chain, ReadInv, EndOf, StartOf
  <2>4. ReadEnd' <= fed /\ \A i \in 1..Len(inq') : EndOf(i)' <= fed
    BY <2>1 DEF ReadInv, Ends, EndOf, StartOf
  <2> QED
    BY <2>2, <2>3, <2>4
<1>9. CASE buf = <<>>
  <2>1. inq # <<>> /\ m = inq[1] /\ inq' = Tail(inq) /\ Len(inq) >= 1
    BY <1>0, <1>9 DEF ReadMoves
  <2>2. /\ inq' \in Seq(Seq(1..MaxBytes)) /\ Len(inq') = Len(inq) - 1
        /\ \A i \in 1..Len(inq') : inq'[i] = inq[i + 1]
    BY <1>0, <2>1, HeadTailProperties
  <2>3. ReadEnd' = EndOf(1) /\ EndOf(1) <= fed
    <3>1. StartOf(1) = Len(got) /\ 1 \in 1..Len(inq)
      BY <1>0, <1>9, <2>1 DEF ReadInv, Chain, ReadEnd
    <3> QED
      BY <1>5, <2>1, <3>1 DEF EndOf, ReadInv, Ends
  <2>4. \A i \in 1..Len(inq') : StartOf(i)' = StartOf(i + 1) /\ EndOf(i)' = EndOf(i + 1)
    BY <2>2 DEF StartOf, EndOf
  <2>5. \A i \in 1..Len(inq') : i + 1 \in 1..Len(inq)
    BY <1>0, <2>2
  <2>6. QueueEnd' = QueueEnd
    <3>1. CASE inq' = <<>>
      <4>1. Len(inq) = 1
        BY <1>0, <2>2, <3>1
      <4> QED
        BY <2>1, <2>3, <3>1, <4>1 DEF QueueEnd
    <3>2. CASE inq' # <<>>
      <4>1. Len(inq') \in 1..Len(inq') /\ Len(inq') + 1 = Len(inq)
        BY <1>0, <2>2, <3>2
      <4>2. QueueEnd' = EndOf(Len(inq))
        BY <2>2, <3>2, <4>1 DEF QueueEnd, EndOf, StartOf
      <4> QED
        BY <2>1, <4>2 DEF QueueEnd
    <3> QED
      BY <3>1, <3>2
  <2>7. Chain'
    <3>1. \A i \in 1..Len(inq') : inq'[i] # <<>> /\ inq'[i] = Numbers(StartOf(i)', EndOf(i)')
      BY <2>2, <2>4, <2>5 DEF ReadInv, Chain
    <3>2. inq' # <<>> => StartOf(1)' = ReadEnd'
      <4>1. SUFFICES ASSUME inq' # <<>>
                     PROVE  StartOf(1)' = ReadEnd'
        OBVIOUS
      <4>2. 1 \in 1..Len(inq') /\ 1 \in 1..(Len(inq) - 1) /\ 1 + 1 = 2
        BY <1>0, <2>2, <4>1
      <4>3. StartOf(1)' = StartOf(2)
        BY <2>4, <4>2
      <4>4. StartOf(2) = EndOf(1)
        BY <4>2 DEF ReadInv, Chain
      <4> QED
        BY <2>3, <4>3, <4>4
    <3>3. \A i \in 1..(Len(inq') - 1) : StartOf(i + 1)' = EndOf(i)'
      <4>1. SUFFICES ASSUME NEW i \in 1..(Len(inq') - 1)
                     PROVE  StartOf(i + 1)' = EndOf(i)'
        OBVIOUS
      <4>2. i \in 1..Len(inq') /\ i + 1 \in 1..Len(inq') /\ i + 1 \in 1..(Len(inq) - 1)
        BY <1>0, <2>2
      <4>3. EndOf(i)' = EndOf(i + 1) /\ StartOf(i + 1)' = StartOf(i + 1 + 1)
        BY <2>4, <4>2
      <4>4. StartOf(i + 1 + 1) = EndOf(i + 1)
        BY <4>2 DEF ReadInv, Chain
      <4> QED
        BY <4>3, <4>4
    <3> QED
      BY <1>6, <1>7, <3>1, <3>2, <3>3 DEF Chain
  <2>8. \A i \in 1..Len(inq') : EndOf(i)' <= fed
    BY <2>4, <2>5 DEF ReadInv, Ends
  <2> QED
    BY <2>3, <2>6, <2>7, <2>8
<1> QED
  BY <1>8, <1>9

\* Every step keeps ReadInv.
LEMMA ReadStep ==
  ASSUME TypeOK, ReadInv, Next
  PROVE  ReadInv'
<1> USE DEF crateWrite, crateRead, downVars, upVars
<1>0. /\ Len(got) \in Nat /\ Len(buf) \in Nat /\ Len(inq) \in Nat /\ Len(chunk) \in Nat
      /\ got \in Seq(1..MaxBytes) /\ chunk \in Seq(1..MaxBytes) /\ fed \in Nat
      /\ inq \in Seq(Seq(1..MaxBytes))
      /\ up \in {"reading", "sending", "cancelled", "ended"}
      /\ why \in [Pumps -> {"runs", "end", "failed", "cancelled"}]
  BY DEF TypeOK, ReadTypes
<1>1. Chain /\ Ends
  BY DEF ReadInv
<1>2. CASE StartWrite \/ WakeWrite \/ AbandonWrite \/ Shutdown
  BY <1>2, ReadInvKept DEF StartWrite, WakeWrite, PollWrite, AbandonWrite, Shutdown
<1>3. CASE Recv \/ WriteDown \/ DrainEnds
  BY <1>3, ReadInvKept DEF Recv, WriteDown, DrainEnds
<1>4. CASE DownEof \/ DrainFails
  <2>1. UNCHANGED <<got, buf, inq, chunk, fed, up, eof, alive>>
    BY <1>4 DEF DownEof, DrainFails, DownEnds
  <2>2. why'["up"] = why["up"]
    BY <1>0, <1>4 DEF DownEof, DrainFails, DownEnds, Pumps
  <2> QED
    BY <2>1, <2>2, ReadInvKept
<1>5. CASE DropChan
  <2>1. /\ buf' = <<>> /\ inq' = <<>> /\ ~alive'
        /\ UNCHANGED <<got, fed, chunk, up, why>> /\ UNCHANGED eof
    BY <1>5 DEF DropChan
  <2>2. ReadEnd' = Len(got) /\ Len(inq') = 0
    BY <1>0, <2>1 DEF ReadEnd
  <2>3. Numbers(Len(got), Len(got)) = <<>>
    BY <1>0, Ranges
  <2>4. Chain'
    BY <1>1, <2>1, <2>2, <2>3 DEF Chain
  <2>5. ReadEnd' <= fed /\ \A i \in 1..Len(inq') : EndOf(i)' <= fed
    BY <1>0, <1>1, <2>2 DEF Ends, ReadEnd
  <2> QED
    BY <1>1, <2>1, <2>4, <2>5, Zenon DEF ReadInv, Ends
<1>6. CASE ReadEof
  <2>1. Chain' /\ ReadEnd' = ReadEnd /\ QueueEnd' = QueueEnd
        /\ \A i \in 1..Len(inq) : EndOf(i)' = EndOf(i)
    BY <1>1, <1>6, ChainKept DEF ReadEof
  <2>2. UNCHANGED <<got, buf, inq, chunk, fed, up, why>> /\ UNCHANGED alive
    BY <1>6 DEF ReadEof
  <2>3. up = "ended" /\ buf = <<>> /\ inq = <<>>
    BY <1>6 DEF ReadEof
  <2>4. why["up"] # "cancelled" => Len(got) = fed
    <3>1. chunk = <<>>
      BY <1>1, <2>3 DEF Ends
    <3>2. QueueEnd = Len(got)
      BY <1>0, <2>3 DEF QueueEnd, ReadEnd
    <3>3. why["up"] # "cancelled" => QueueEnd + Len(chunk) = fed
      BY <1>1, <1>6 DEF Ends, ReadEof
    <3> QED
      BY <1>0, <3>1, <3>2, <3>3
  <2> QED
    BY <1>1, <2>1, <2>2, <2>3, <2>4, Zenon DEF ReadInv, Ends
<1>7. ASSUME NEW n \in 1..MaxChunk, ReadData(n)
      PROVE  ReadInv'
  <2> PICK m \in Seq(1..MaxBytes) : \E k \in 0..Len(m) : ReadMoves(m, k)
    BY <1>7, ReadDataMoves
  <2>1. PICK k \in 0..Len(m) : ReadMoves(m, k)
    OBVIOUS
  <2>2. /\ Chain' /\ QueueEnd' = QueueEnd
        /\ ReadEnd' <= fed /\ \A i \in 1..Len(inq') : EndOf(i)' <= fed
    BY <2>1, MovedChain
  <2>3. UNCHANGED <<chunk, fed, up, why>> /\ UNCHANGED <<eof, alive>> /\ alive
    BY <1>7 DEF ReadData
  <2>4. ~eof
    BY <1>1, <1>7 DEF Ends, ReadData
  <2> QED
    BY <1>1, <2>2, <2>3, <2>4, Zenon DEF ReadInv, Ends
<1>8. CASE UpSend
  <2>1. up \in {"sending", "cancelled"} /\ chunk' = <<>> /\ up' \in {"reading", "ended"}
        /\ (up = "cancelled" => up' = "ended") /\ UNCHANGED <<got, buf, fed, why>>
    BY <1>8 DEF UpSend
  <2>2. UNCHANGED <<eof, alive>> /\ ~eof
    BY <1>1, <1>8 DEF UpSend, Ends
  <2>3. chunk' = Numbers(fed' - Len(chunk'), fed')
    BY <1>0, <2>1, Ranges
  <2>4. Len(chunk') = 0 /\ fed' = fed
    BY <2>1
  <2>5. why'["up"] # "runs" => up' = "ended"
    BY <1>1, <2>1 DEF Ends
  <2>6. CASE ~alive
    <3>1. inq' = inq
      BY <1>8, <2>6 DEF UpSend
    <3>2. Chain' /\ ReadEnd' = ReadEnd /\ \A i \in 1..Len(inq) : EndOf(i)' = EndOf(i)
      BY <1>1, <2>1, <3>1, ChainKept
    <3> QED
      BY <1>1, <2>1, <2>2, <2>3, <2>4, <2>5, <2>6, <3>1, <3>2, Zenon DEF ReadInv, Ends
  <2>7. CASE alive
    <3>1. inq' = Append(inq, chunk) /\ chunk # <<>> /\ ReadEnd' = ReadEnd
      BY <1>1, <1>8, <2>1, <2>7 DEF UpSend, Ends, ReadEnd
    <3>2. PICK a \in Nat : a = fed - Len(chunk) /\ a <= fed /\ QueueEnd = a
      <4>1. QueueEnd + Len(chunk) = fed
        BY <1>1, <2>1, <2>7 DEF Ends
      <4>2. QueueEnd \in Nat
        BY <1>1, EndsTyped
      <4> QED
        BY ONLY <1>0, <4>1, <4>2
    <3>z. PICK z \in Nat : z = Len(inq) + 1
      BY <1>0
    <3>3. /\ Len(inq') = z /\ inq' # <<>> /\ inq'[z] = chunk
          /\ \A i \in 1..Len(inq) : inq'[i] = inq[i]
      BY <1>0, <3>1, <3>z, AppendProperties
    <3>4. \A i \in 1..Len(inq) : StartOf(i)' = StartOf(i) /\ EndOf(i)' = EndOf(i)
      BY <3>3 DEF StartOf, EndOf
    <3>5. StartOf(z)' = a /\ EndOf(z)' = fed /\ chunk = Numbers(a, fed)
      <4>1. chunk = Numbers(a, fed) /\ 1 \in 1..Len(chunk)
        BY <1>0, <1>1, <3>1, <3>2 DEF Ends
      <4>2. chunk[1] = a + 1
        <5>1. a \in Nat /\ fed \in Nat /\ a <= fed /\ chunk = Numbers(a, fed)
          BY <1>0, <3>2, <4>1
        <5>2. /\ Len(Numbers(a, fed)) = fed - a
              /\ \A i \in 1..(fed - a) : Numbers(a, fed)[i] = a + i
          BY ONLY <5>1, Ranges, Zenon
        <5> QED
          BY ONLY <4>1, <5>2
      <4>3. inq'[z][1] = a + 1 /\ Len(inq'[z]) = Len(chunk)
        BY <3>3, <4>2
      <4>4. StartOf(z)' = inq'[z][1] - 1 /\ EndOf(z)' = inq'[z][1] - 1 + Len(inq'[z])
        BY DEF StartOf, EndOf
      <4>5. a + 1 - 1 = a /\ a + 1 - 1 + Len(chunk) = fed
        BY <1>0, <3>2
      <4> QED
        BY ONLY <4>1, <4>3, <4>4, <4>5
    <3>6. QueueEnd' = fed
      BY <3>3, <3>5 DEF QueueEnd, EndOf, StartOf
    <3>7. Chain'
      <4>1. ASSUME NEW i \in 1..Len(inq')
            PROVE  inq'[i] # <<>> /\ inq'[i] = Numbers(StartOf(i)', EndOf(i)')
        <5>1. CASE i = z
          BY <3>1, <3>3, <3>5, <5>1
        <5>2. CASE i \in 1..Len(inq)
          BY <1>1, <3>3, <3>4, <5>2 DEF Chain
        <5> QED
          BY <1>0, <3>3, <3>z, <5>1, <5>2
      <4>2. StartOf(1)' = ReadEnd'
        <5>1. CASE inq = <<>>
          <6>1. z = 1 /\ a = ReadEnd
            BY <3>2, <3>z, <5>1 DEF QueueEnd
          <6> QED
            BY <3>1, <3>5, <6>1
        <5>2. CASE inq # <<>>
          <6>1. 1 \in 1..Len(inq)
            BY <1>0, <5>2
          <6> QED
            BY <1>1, <3>1, <3>4, <5>2, <6>1 DEF Chain
        <5> QED
          BY <5>1, <5>2
      <4>3. ASSUME NEW i \in 1..(Len(inq') - 1)
            PROVE  StartOf(i + 1)' = EndOf(i)'
        <5>1. i \in 1..Len(inq)
          BY <1>0, <3>3, <3>z
        <5>2. CASE i = Len(inq)
          <6>1. inq # <<>>
            BY <5>1, <5>2
          <6>2. EndOf(i) = a /\ i + 1 = z
            BY <3>2, <3>z, <5>2, <6>1 DEF QueueEnd
          <6>3. EndOf(i)' = a
            BY <3>4, <5>1, <6>2
          <6> QED
            BY <3>5, <6>2, <6>3
        <5>3. CASE i # Len(inq)
          <6>1. i \in 1..(Len(inq) - 1) /\ i + 1 \in 1..Len(inq)
            BY <1>0, <5>1, <5>3
          <6> QED
            BY <1>1, <3>4, <5>1, <6>1 DEF Chain
        <5> QED
          BY <5>2, <5>3
      <4>4. got' = Numbers(0, Len(got')) /\ buf' = Numbers(Len(got'), ReadEnd')
        BY <1>1, <2>1, <3>1 DEF Chain
      <4> QED
        BY <4>1, <4>2, <4>3, <4>4 DEF Chain
    <3>8. ReadEnd' <= fed' /\ \A i \in 1..Len(inq') : EndOf(i)' <= fed'
      <4>1. \A i \in 1..Len(inq') : i \in 1..Len(inq) \/ i = z
        BY <1>0, <3>3, <3>z
      <4>2. ReadEnd <= fed /\ \A i \in 1..Len(inq) : EndOf(i) <= fed
        BY <1>1 DEF Ends
      <4>3. EndOf(z)' <= fed
        BY <1>0, <3>5
      <4> QED
        BY <2>4, <3>1, <3>4, <4>1, <4>2, <4>3
    <3>9. QueueEnd' + Len(chunk') = fed'
      BY <1>0, <2>4, <3>6
    <3> QED
      BY <1>1, <2>1, <2>2, <2>3, <2>5, <2>7, <3>7, <3>8, <3>9, Zenon DEF ReadInv, Ends
  <2> QED
    BY <2>6, <2>7
<1>9. CASE DropOperation
  <2>1. CASE up = "cancelled" /\ up' = "ended" /\ chunk' = <<>>
             /\ UNCHANGED <<got, buf, inq, fed, why, eof, alive>>
    <3>1. Chain' /\ ReadEnd' = ReadEnd /\ \A i \in 1..Len(inq) : EndOf(i)' = EndOf(i)
      BY <1>1, <2>1, ChainKept
    <3>2. chunk' = Numbers(fed' - Len(chunk'), fed')
      BY <1>0, <2>1, Ranges
    <3>3. why'["up"] = "cancelled" /\ ~eof'
      BY <1>1, <2>1 DEF Ends
    <3> QED
      BY <1>1, <2>1, <3>1, <3>2, <3>3, Zenon DEF ReadInv, Ends
  <2>2. CASE UNCHANGED <<got, buf, inq, chunk, fed, up, eof, alive, why>>
    BY <2>2, ReadInvKept
  <2> QED
    BY <1>9, <2>1, <2>2 DEF DropOperation
<1>10. CASE CancelPump
  <2>1. CASE DownEnds("cancelled") /\ UNCHANGED <<alive, crateRead, inq, upVars>>
    <3>1. why'["up"] = why["up"]
      BY <1>0, <2>1 DEF DownEnds, Pumps
    <3> QED
      BY <2>1, <3>1, ReadInvKept
  <2>2. CASE up \in {"reading", "sending"} /\ UpEnds("cancelled")
             /\ UNCHANGED <<alive, crateRead, inq>>
    <3>1. Chain' /\ ReadEnd' = ReadEnd /\ QueueEnd' = QueueEnd
          /\ \A i \in 1..Len(inq) : EndOf(i)' = EndOf(i)
      BY <1>1, <2>2, ChainKept
    <3>2. why'["up"] = "cancelled" /\ UNCHANGED <<chunk, fed, got, buf, inq>>
          /\ up' = IF up = "sending" THEN "cancelled" ELSE "ended"
      BY <1>0, <2>2 DEF UpEnds, Pumps
    <3>3. UNCHANGED <<eof, alive>> /\ ~eof
      BY <1>1, <2>2 DEF Ends
    <3>4. up' \in {"cancelled", "ended"} /\ (chunk' = <<>> <=> up' \in {"reading", "ended"})
      BY <1>1, <2>2, <3>2 DEF Ends
    <3>5. alive => QueueEnd + Len(chunk) = fed
      BY <1>1, <2>2 DEF Ends
    <3> QED
      BY <1>1, <3>1, <3>2, <3>3, <3>4, <3>5, Zenon DEF ReadInv, Ends
  <2> QED
    BY <1>10, <2>1, <2>2 DEF CancelPump
<1>11. ASSUME NEW n \in 1..MaxChunk, UpRead(n)
      PROVE  ReadInv'
  <2>1. /\ up = "reading" /\ up' = "sending" /\ fed' = fed + n /\ chunk' = Numbers(fed, fed + n)
        /\ UNCHANGED <<got, buf, inq, why>>
    BY <1>11 DEF UpRead
  <2>2. UNCHANGED <<eof, alive>> /\ ~eof
    BY <1>1, <1>11 DEF UpRead, Ends
  <2>3. Len(chunk') = n /\ chunk' # <<>> /\ chunk' = Numbers(fed' - Len(chunk'), fed')
    <3>1. PICK b \in Nat : b = fed + n /\ fed <= b /\ b - fed = n /\ fed # b /\ b - n = fed
      BY <1>0, ChannelAssumption
    <3>2. Len(Numbers(fed, b)) = b - fed /\ (Numbers(fed, b) = <<>> <=> fed = b)
      BY ONLY <1>0, <3>1, Ranges, Zenon
    <3>3. chunk' = Numbers(fed, b) /\ fed' = b
      BY <2>1, <3>1
    <3>4. Len(chunk') = n /\ chunk' # <<>>
      BY <3>1, <3>2, <3>3
    <3> QED
      BY <3>1, <3>3, <3>4
  <2>4. Chain' /\ ReadEnd' = ReadEnd /\ QueueEnd' = QueueEnd
        /\ \A i \in 1..Len(inq) : EndOf(i)' = EndOf(i)
    BY <1>1, <2>1, ChainKept
  <2>5. ReadEnd' <= fed' /\ \A i \in 1..Len(inq') : EndOf(i)' <= fed'
    <3>1. ReadEnd <= fed /\ \A i \in 1..Len(inq) : EndOf(i) <= fed
      BY <1>1 DEF Ends
    <3>2. ReadEnd \in Nat /\ \A i \in 1..Len(inq) : EndOf(i) \in Nat
      BY <1>1, EndsTyped
    <3> QED
      BY <1>0, <2>1, <2>4, <3>1, <3>2
  <2>6. alive => QueueEnd' + Len(chunk') = fed'
    <3>1. alive => QueueEnd + Len(chunk) = fed
      BY <1>1, <2>1 DEF Ends
    <3>2. chunk = <<>>
      BY <1>1, <2>1 DEF Ends
    <3>3. QueueEnd + Len(chunk) = fed => QueueEnd' + Len(chunk') = fed'
      <4>1. QueueEnd \in Nat /\ Len(chunk) = 0
        BY <1>1, <3>2, EndsTyped
      <4>2. QueueEnd' = QueueEnd /\ Len(chunk') = n /\ fed' = fed + n /\ fed \in Nat
        BY <1>0, <2>1, <2>3, <2>4
      <4> QED
        BY ONLY <4>1, <4>2, n \in Nat
    <3> QED
      BY <3>1, <3>3
  <2>7. why'["up"] = "runs"
    BY <1>1, <2>1 DEF Ends
  <2> QED
    BY <1>1, <2>1, <2>2, <2>3, <2>4, <2>5, <2>6, <2>7, Zenon DEF ReadInv, Ends
<1>12. ASSUME NEW how \in {"end", "failed"}, R2Ends(how)
      PROVE  ReadInv'
  <2>1. /\ up = "reading" /\ up' = "ended" /\ why'["up"] = how
        /\ UNCHANGED <<got, buf, inq, chunk, fed>>
    BY <1>0, <1>12 DEF R2Ends, UpEnds, Pumps
  <2>2. UNCHANGED <<eof, alive>> /\ ~eof
    BY <1>1, <1>12 DEF R2Ends, Ends
  <2>3. Chain' /\ ReadEnd' = ReadEnd /\ QueueEnd' = QueueEnd
        /\ \A i \in 1..Len(inq) : EndOf(i)' = EndOf(i)
    BY <1>1, <2>1, ChainKept
  <2>4. alive => QueueEnd + Len(chunk) = fed
    BY <1>1, <2>1 DEF Ends
  <2> QED
    BY <1>1, <2>1, <2>2, <2>3, <2>4, Zenon DEF ReadInv, Ends
<1> QED
  BY <1>2, <1>3, <1>4, <1>5, <1>6, <1>7, <1>8, <1>9, <1>10, <1>11, <1>12
     DEF Next, CrateReads, PumpStep

-----------------------------------------------------------------------------
(***************************************************************************)
(* The theorems.                                                           *)
(***************************************************************************)

\* The inductive invariant: the channels and what the pumps hold account for
\* every write of the crate and every byte of the layer.
THEOREM LayerInvariance == Spec => [](TypeOK /\ WriteInv /\ ReadInv)
<1>1. Init => TypeOK /\ WriteInv /\ ReadInv
  <2> SUFFICES ASSUME Init
               PROVE  TypeOK /\ WriteInv /\ ReadInv
    OBVIOUS
  <2> USE ChannelAssumption DEF Init
  <2>1. TypeOK
    <3>1. Flags
      BY DEF Flags
    <3>2. WriteTypes /\ ReadTypes
      BY DEF WriteTypes, ReadTypes
    <3> QED
      BY <3>1, <3>2 DEF TypeOK, Pumps
  <2>2. WriteInv
    BY DEF WriteInv, Pumps
  <2>3. ReadInv
    <3>1. <<>> = Numbers(0, 0) /\ Len(<<>>) = 0 /\ 0 \in Nat
      BY Ranges
    <3>2. Chain
      BY <3>1 DEF Chain, ReadEnd
    <3>3. Ends
      BY <3>1 DEF Ends, QueueEnd, ReadEnd, Pumps
    <3> QED
      BY <3>2, <3>3 DEF ReadInv
  <2> QED
    BY <2>1, <2>2, <2>3
<1>2. TypeOK /\ WriteInv /\ ReadInv /\ [Next]_vars => (TypeOK /\ WriteInv /\ ReadInv)'
  <2> SUFFICES ASSUME TypeOK, WriteInv, ReadInv, [Next]_vars
               PROVE  (TypeOK /\ WriteInv /\ ReadInv)'
    OBVIOUS
  <2>1. CASE Next
    BY <2>1, TypeStep, WriteStep, ReadStep
  <2>2. CASE UNCHANGED vars
    <3> USE <2>2 DEF vars, crateWrite, crateRead, downVars, upVars
    <3>1. Flags' /\ WriteTypes' /\ ReadTypes' /\ why' = why
      BY DEF TypeOK, Flags, WriteTypes, ReadTypes
    <3> QED
      BY <3>1, WriteInvKept, ReadInvKept DEF TypeOK
  <2> QED
    BY <2>1, <2>2
<1> QED
  BY <1>1, <1>2, PTL DEF Spec

\* The layer's writer gets the crate's writes in order, each once, and all of
\* them when the pump saw their end: "each carrier write is one message to
\* Python, which writes it to the layer once" (ChanIo::poll_write, LayerEnd.read
\* and the pump `down`).
THEOREM WrittenOnce == Spec => []WritesOnce
<1>1. TypeOK /\ WriteInv => WritesOnce
  <2> SUFFICES ASSUME TypeOK, WriteInv
               PROVE  WritesOnce
    OBVIOUS
  <2>1. /\ w2 \in Seq(1..MaxWrites) /\ out \in Seq(1..MaxWrites) /\ hand \in 0..MaxWrites
        /\ down \in {"reading", "read", "draining", "cancelled", "ended"}
    BY DEF TypeOK, WriteTypes
  <2>2. CASE down \in {"reading", "draining"}
    BY <2>1, <2>2, Prefix DEF WriteInv, WritesOnce
  <2>3. CASE down = "read"
    <3>1. hand \in 1..MaxWrites /\ accepted = Append(w2, hand) \o out /\ why["down"] # "end"
      BY <2>1, <2>3, ChannelAssumption DEF WriteInv
    <3>2. IsPrefix(w2, accepted)
      BY <2>1, <3>1, HandPrefix
    <3> QED
      BY <3>1, <3>2 DEF WritesOnce
  <2>4. CASE down \in {"cancelled", "ended"}
    BY <2>4 DEF WriteInv, WritesOnce
  <2> QED
    BY <2>1, <2>2, <2>3, <2>4
<1> QED
  BY <1>1, LayerInvariance, PTL

\* The crate reads the layer's bytes in order, without a gap, and finds their
\* end only behind the last one, unless the pump was cancelled with bytes in
\* its hands (ChanIo::poll_read, LayerEnd.write and the pump `up`).
THEOREM EofLast == Spec => []EofAfterData
<1>1. TypeOK /\ ReadInv => EofAfterData
  <2> SUFFICES ASSUME TypeOK, ReadInv
               PROVE  EofAfterData
    OBVIOUS
  <2>1. got = Numbers(0, Len(got)) /\ (eof /\ why["up"] # "cancelled" => Len(got) = fed)
    BY DEF ReadInv, Chain, Ends
  <2>2. Len(got) <= fed
    BY DEF ReadInv, Ends, ReadEnd, TypeOK, ReadTypes
  <2> QED
    BY <2>1, <2>2 DEF EofAfterData
<1> QED
  BY <1>1, LayerInvariance, PTL

=============================================================================
