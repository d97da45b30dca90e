---------------------------- MODULE CANPipeProofs ----------------------------
(***************************************************************************)
(* The safety properties of CANPipe for frames and a pipe of any size, any *)
(* number of frames and of restarts.  What CANHandler has read of a frame  *)
(* and what is still in the pipe are one stream of bytes; all that ever    *)
(* happens to the stream is that a frame is put at its end, or that bytes  *)
(* go from its beginning.                                                  *)
(***************************************************************************)
EXTENDS CANPipe, SequenceTheorems, WellFoundedInduction, TLAPS

Stream == got \o pipe

FrameNumber == Nat \ {0}
Byte        == FrameNumber \X (1 .. (HeaderBytes + PayloadSize))
Frame       == [dlc : 0 .. PayloadSize, data : 0 .. PayloadSize]

DataInv ==
  /\ pipe \in Seq(Byte) /\ Len(pipe) <= Capacity
  /\ got \in Seq(Byte)
  /\ written \in Seq(Frames) /\ Len(written) <= MaxFrames
  /\ delivered \in Seq(Nat)
  /\ sdlc \in 0 .. 255

(* CANHandler has read as much of a frame as its place in runHandler says. *)
ReadInv ==
  /\ FirewallUp \/ reader \in {"down", "exited"}
  /\ reader \notin {"idx", "dlc", "payload"} => got = <<>>
  /\ reader = "idx" => Len(got) = TsBytes
  /\ reader = "dlc" => Len(got) = TsBytes + IdBytes
  /\ reader = "payload" => Len(got) = HeaderBytes

LEMMA Sizes ==
  /\ TsBytes \in Nat \ {0} /\ IdBytes \in Nat \ {0} /\ PayloadSize \in Nat
  /\ HeaderBytes = TsBytes + IdBytes + 1 /\ HeaderBytes \in Nat \ {0}
  /\ Capacity \in Nat /\ MaxFrames \in Nat
  /\ Frames \subseteq Frame
BY PipeAssumption DEF HeaderBytes, Frames, Frame

LEMMA BytesOfFrame ==
  ASSUME NEW n \in FrameNumber, NEW frame \in Frame
  PROVE  /\ Bytes(n, frame) \in Seq(Byte)
         /\ Len(Bytes(n, frame)) = HeaderBytes + frame.data
         /\ \A k \in 1 .. (HeaderBytes + frame.data) : Bytes(n, frame)[k] = <<n, k>>
<1>1. HeaderBytes + frame.data \in 0 .. (HeaderBytes + PayloadSize) /\ HeaderBytes \in Nat
  BY Sizes DEF Frame
<1>2. \A k \in 1 .. (HeaderBytes + frame.data) : <<n, k>> \in Byte
  BY <1>1, Sizes DEF Byte
<1>3. Bytes(n, frame) \in [1 .. (HeaderBytes + frame.data) -> Byte]
  BY <1>2 DEF Bytes
<1>4. QED
  BY <1>1, <1>3 DEF Bytes

(* What a read of n bytes does to the stream.                              *)
LEMMA Consumed ==
  ASSUME DataInv, NEW n \in Nat, Consume(n)
  PROVE  /\ pipe' \in Seq(Byte) /\ Len(pipe') <= Capacity
         /\ Enough(n) => /\ Len(pipe') = Len(pipe) - n
                         /\ \A i \in 1 .. Len(pipe) - n : pipe'[i] = pipe[i + n]
         /\ ~Enough(n) => pipe' = <<>>
<1>0. pipe \in Seq(Byte) /\ Len(pipe) <= Capacity /\ Capacity \in Nat
  BY Sizes DEF DataInv
<1>1. CASE Enough(n)
  <2>1. pipe' = SubSeq(pipe, n + 1, Len(pipe)) /\ n <= Len(pipe)
    BY <1>1 DEF Consume, Enough
  <2>2. \A i \in n + 1 .. Len(pipe) : pipe[i] \in Byte
    BY <1>0
  <2>3. /\ pipe' \in Seq(Byte)
        /\ Len(pipe') = IF n + 1 <= Len(pipe) THEN Len(pipe) - (n + 1) + 1 ELSE 0
        /\ \A i \in 1 .. Len(pipe) - (n + 1) + 1 : pipe'[i] = pipe[n + 1 + i - 1]
    BY <1>0, <2>1, <2>2, SubSeqProperties
  <2>4. QED
    BY <1>0, <1>1, <2>1, <2>3
<1>2. CASE ~Enough(n)
  BY <1>0, <1>2 DEF Consume
<1>3. QED
  BY <1>1, <1>2

LEMMA StreamOK ==
  ASSUME DataInv
  PROVE  /\ Stream \in Seq(Byte) /\ Len(Stream) = Len(got) + Len(pipe)
         /\ \A i \in 1 .. Len(Stream) :
              Stream[i] = IF i <= Len(got) THEN got[i] ELSE pipe[i - Len(got)]
BY ConcatProperties DEF DataInv, Stream

(* Read in full, the bytes go from the pipe to the frame.                  *)
LEMMA Moved ==
  ASSUME DataInv, NEW n \in Nat, Enough(n), Consume(n),
         got' = got \o SubSeq(pipe, 1, n)
  PROVE  /\ got' \in Seq(Byte) /\ Len(got') = Len(got) + n
         /\ Stream' = Stream
<1> DEFINE head == SubSeq(pipe, 1, n)
<1>1. pipe \in Seq(Byte) /\ got \in Seq(Byte) /\ n <= Len(pipe)
  BY DEF DataInv, Enough
<1>2. pipe' \in Seq(Byte) /\ pipe' = SubSeq(pipe, n + 1, Len(pipe))
  BY Consumed DEF Consume
<1>3. head \in Seq(Byte) /\ Len(head) = n
  <2>1. \A i \in 1 .. n : pipe[i] \in Byte
    BY <1>1
  <2>2. /\ head \in Seq(Byte)
        /\ Len(head) = IF 1 <= n THEN n - 1 + 1 ELSE 0
    BY <2>1, SubSeqProperties
  <2>3. QED
    BY <2>2
<1>4. head \o pipe' = pipe
  <2>1. 1 \in 1 .. Len(pipe) + 1 /\ n \in 1 - 1 .. Len(pipe) /\ Len(pipe) \in n .. Len(pipe)
    BY <1>1
  <2>2. head \o SubSeq(pipe, n + 1, Len(pipe)) = SubSeq(pipe, 1, Len(pipe))
    BY <1>1, <2>1, ConcatAdjacentSubSeq
  <2>3. QED
    BY <1>1, <1>2, <2>2, SubSeqFull
<1>5. got' \o pipe' = got \o (head \o pipe')
  <2> HIDE DEF head
  <2>1. (got \o head) \o pipe' = got \o (head \o pipe')
    <3>1. \A s, t, u \in Seq(Byte) : (s \o t) \o u = s \o (t \o u)
      BY ConcatAssociative
    <3>2. QED
      BY <1>1, <1>2, <1>3, <3>1, ZenonT(60)
  <2>2. got' = got \o head
    BY DEF head
  <2>3. QED
    BY <2>1, <2>2
<1>6. got' \in Seq(Byte) /\ Len(got') = Len(got) + n
  BY <1>1, <1>3, ConcatProperties
<1>7. QED
  BY <1>4, <1>5, <1>6 DEF Stream

-----------------------------------------------------------------------------
(* The stream loses its first m bytes, or all.                             *)
Drops(m) == m \in 0 .. Len(Stream) /\ Stream' = SubSeq(Stream, m + 1, Len(Stream))

(* All that happens to the stream.                                         *)
Keeps == UNCHANGED <<written, delivered>> /\ \E m \in 0 .. Len(Stream) : Drops(m)

Sends ==
  \E frame \in Frames :
    /\ written' = Append(written, frame)
    /\ Stream' = Stream \o Bytes(Len(written) + 1, frame)
    /\ UNCHANGED <<delivered, got, sdlc, reader>>

Delivers ==
  /\ reader = "payload"
  /\ Drops(HeaderBytes + sdlc)
  /\ delivered' =
       Append(delivered, FrameOf(SubSeq(Stream, 1, HeaderBytes + sdlc), sdlc))
  /\ UNCHANGED <<written, sdlc>>

LEMMA DropPipe ==
  ASSUME DataInv, pipe' = <<>>, got' = <<>>
  PROVE  Drops(Len(Stream))
BY StreamOK, SubSeqEmpty DEF Drops, Stream

LEMMA DropNone ==
  ASSUME DataInv, Stream' = Stream
  PROVE  Drops(0)
BY StreamOK, SubSeqFull DEF Drops

(* The bytes read so far are given up, and n more are read.                *)
LEMMA DropGot ==
  ASSUME DataInv, NEW n \in 0 .. Len(pipe), pipe' = SubSeq(pipe, n + 1, Len(pipe)),
         got' = <<>>
  PROVE  Drops(Len(got) + n)
<1>1. pipe \in Seq(Byte) /\ got \in Seq(Byte) /\ Len(pipe) \in Nat /\ Len(got) \in Nat
  BY DEF DataInv
<1>2. pipe' \in Seq(Byte)
  <2>1. \A i \in n + 1 .. Len(pipe) : pipe[i] \in Byte
    BY <1>1
  <2>2. QED
    BY <1>1, <2>1, SubSeqProperties
<1>3. Stream' = pipe'
  BY <1>2, ConcatEmptySeq DEF Stream
<1>4. Len(Stream) = Len(got) + Len(pipe) /\ Len(got) + n \in 0 .. Len(Stream)
  BY <1>1, StreamOK
<1>5. pipe' = SubSeq(Stream, Len(got) + n + 1, Len(Stream))
  <2>1. CASE n = Len(pipe)
    <3>1. pipe' = <<>>
      BY <1>1, <2>1, SubSeqEmpty
    <3>2. SubSeq(Stream, Len(got) + n + 1, Len(Stream)) = <<>>
      BY <1>1, <1>4, <2>1, SubSeqEmpty
    <3>3. QED
      BY <3>1, <3>2
  <2>2. CASE n # Len(pipe)
    <3> DEFINE a == Len(got) + n + 1
               b == Len(got) + Len(pipe)
    <3>1. a \in Len(got) + 1 .. Len(got) + Len(pipe) /\ b \in Len(got) + 1 .. Len(got) + Len(pipe)
          /\ a - Len(got) = n + 1 /\ b - Len(got) = Len(pipe)
      BY <1>1, <2>2
    <3>2. SubSeq(got \o pipe, a, b) = SubSeq(pipe, a - Len(got), b - Len(got))
      BY <1>1, <3>1, SubSeqOfConcat2
    <3>3. QED
      BY <1>4, <3>1, <3>2 DEF Stream
  <2>3. QED
    BY <2>1, <2>2
<1>6. QED
  BY <1>3, <1>4, <1>5 DEF Drops


LEMMA StreamStep == DataInv /\ ReadInv /\ Next => Keeps \/ Sends \/ Delivers
<1> SUFFICES ASSUME DataInv, ReadInv, Next PROVE Keeps \/ Sends \/ Delivers
  OBVIOUS
<1> USE DEF pycan, handler
<1>0. /\ pipe \in Seq(Byte) /\ got \in Seq(Byte) /\ written \in Seq(Frames)
      /\ sdlc \in Nat /\ Len(pipe) \in Nat /\ Len(got) \in Nat
  BY DEF DataInv
<1>1. ASSUME UNCHANGED <<pipe, got, written, delivered>> PROVE Keeps
  BY <1>1, DropNone, StreamOK DEF Keeps, Stream, Drops
<1>2. ASSUME pipe' = <<>>, got' = <<>>, UNCHANGED <<written, delivered>> PROVE Keeps
  BY <1>2, DropPipe, StreamOK DEF Keeps, Drops
<1>3. ASSUME NEW n \in 0 .. Len(pipe), pipe' = SubSeq(pipe, n + 1, Len(pipe)),
             got' = <<>>, UNCHANGED <<written, delivered>>
      PROVE  Keeps
  BY <1>3, DropGot DEF Keeps, Drops
<1>4. ASSUME NEW n \in Nat, NEW next, ShortRead(n) \/ FullRead(n, next),
             UNCHANGED <<written, delivered>>
      PROVE  Keeps
  <2>1. CASE ShortRead(n)
    BY <1>2, <1>4, <2>1 DEF ShortRead, Consume
  <2>2. CASE FullRead(n, next)
    <3>1. Stream' = Stream
      BY <2>2, Moved DEF FullRead
    <3>2. QED
      BY <1>4, <3>1, DropNone, StreamOK DEF Keeps, Drops
  <2>3. QED
    BY <1>4, <2>1, <2>2
<1>5. CASE setup_bus \/ mkfifo \/ create_pipe \/ interruptStart \/ restartWriter
           \/ createFWInstance \/ initialize
  BY <1>1, <1>5 DEF setup_bus, mkfifo, create_pipe, interruptStart, restartWriter,
     createFWInstance, initialize, StartStep
<1>6. CASE pollTimeout \/ pollReady \/ sig_handler \/ restartReader
  BY <1>1, <1>6 DEF pollTimeout, pollReady, sig_handler, restartReader
<1>7. ASSUME NEW frame \in Frames, send_message_on_pipe(frame) PROVE Sends
  <2> DEFINE bytes == Bytes(Len(written) + 1, frame)
  <2>1. /\ written' = Append(written, frame) /\ pipe' = pipe \o bytes
        /\ UNCHANGED <<delivered, got, sdlc, reader>>
    BY <1>7 DEF send_message_on_pipe
  <2>2. bytes \in Seq(Byte)
    <3>1. Len(written) + 1 \in FrameNumber /\ frame \in Frame
      BY <1>0, Sizes DEF FrameNumber
    <3>2. QED
      BY <3>1, BytesOfFrame
  <2>3. Stream' = Stream \o bytes
    <3> HIDE DEF bytes
    <3>1. \A s, t, u \in Seq(Byte) : (s \o t) \o u = s \o (t \o u)
      BY ConcatAssociative
    <3>2. (got \o pipe) \o bytes = got \o (pipe \o bytes)
      BY <1>0, <2>2, <3>1
    <3>3. QED
      BY <2>1, <3>2 DEF Stream
  <2>4. QED
    BY <2>1, <2>3 DEF Sends
<1>8. CASE closePipe
  <2>1. ~ReaderUp => got = <<>>
    BY DEF ReadInv, ReaderUp
  <2>2. UNCHANGED <<got, written, delivered>> /\ pipe' = IF ReaderUp THEN pipe ELSE <<>>
    BY <1>8 DEF closePipe
  <2>3. QED
    BY <1>1, <1>2, <2>1, <2>2
<1>9. CASE mainLoop
  <2>1. /\ got = <<>> /\ pipe' \in {pipe, <<>>} /\ UNCHANGED <<got, written, delivered>>
    BY <1>9 DEF mainLoop, ReadInv
  <2>2. QED
    BY <1>1, <1>2, <2>1
<1>10. CASE readTimestamp \/ readIdx \/ readDlc
  BY <1>4, <1>10, Sizes DEF readTimestamp, readIdx, readDlc
<1>11. CASE readPayload
  <2>1. CASE ~Enough(sdlc)
    <3>1. pipe' = <<>> /\ got' = <<>> /\ UNCHANGED <<written, delivered>>
      BY <1>11, <2>1 DEF readPayload, Consume
    <3>2. QED
      BY <1>2, <3>1
  <2>2. CASE Enough(sdlc)
    <3>1. /\ reader = "payload" /\ UNCHANGED <<written, sdlc>> /\ got' = <<>>
          /\ pipe' = SubSeq(pipe, sdlc + 1, Len(pipe)) /\ sdlc \in 0 .. Len(pipe)
          /\ delivered' = Append(delivered, FrameOf(got \o SubSeq(pipe, 1, sdlc), sdlc))
          /\ Len(got) = HeaderBytes
      BY <1>0, <1>11, <2>2 DEF readPayload, Consume, Enough, ReadInv
    <3>2. Drops(HeaderBytes + sdlc)
      BY <3>1, DropGot
    <3>3. got \o SubSeq(pipe, 1, sdlc) = SubSeq(Stream, 1, HeaderBytes + sdlc)
      <4> DEFINE s == got \o SubSeq(pipe, 1, sdlc)
                 t == SubSeq(Stream, 1, HeaderBytes + sdlc)
      <4>1. /\ SubSeq(pipe, 1, sdlc) \in Seq(Byte) /\ Len(SubSeq(pipe, 1, sdlc)) = sdlc
            /\ \A i \in 1 .. sdlc : SubSeq(pipe, 1, sdlc)[i] = pipe[i]
        <5>1. \A i \in 1 .. sdlc : pipe[i] \in Byte
          BY <1>0, <3>1
        <5>2. /\ SubSeq(pipe, 1, sdlc) \in Seq(Byte)
              /\ Len(SubSeq(pipe, 1, sdlc)) = IF 1 <= sdlc THEN sdlc - 1 + 1 ELSE 0
              /\ \A i \in 1 .. sdlc - 1 + 1 : SubSeq(pipe, 1, sdlc)[i] = pipe[1 + i - 1]
          BY <1>0, <5>1, SubSeqProperties
        <5>3. QED
          BY <1>0, <5>2
      <4>2. /\ s \in Seq(Byte) /\ Len(s) = HeaderBytes + sdlc
            /\ \A i \in 1 .. HeaderBytes + sdlc :
                 s[i] = IF i <= HeaderBytes THEN got[i] ELSE pipe[i - HeaderBytes]
        <5>1. /\ s \in Seq(Byte) /\ Len(s) = HeaderBytes + sdlc
              /\ \A i \in 1 .. HeaderBytes + sdlc :
                   s[i] = IF i <= HeaderBytes THEN got[i]
                          ELSE SubSeq(pipe, 1, sdlc)[i - HeaderBytes]
          <6> DEFINE q == SubSeq(pipe, 1, sdlc)
          <6> HIDE DEF q
          <6>1. /\ got \o q \in Seq(Byte) /\ Len(got \o q) = Len(got) + Len(q)
                /\ \A i \in 1 .. Len(got) + Len(q) :
                     (got \o q)[i] = IF i <= Len(got) THEN got[i] ELSE q[i - Len(got)]
            BY <1>0, <4>1, ConcatProperties DEF q
          <6>2. Len(got) = HeaderBytes /\ Len(q) = sdlc
            BY <3>1, <4>1 DEF q
          <6>3. QED
            BY <6>1, <6>2 DEF q
        <5>2. \A i \in 1 .. HeaderBytes + sdlc :
                ~(i <= HeaderBytes) => i - HeaderBytes \in 1 .. sdlc
          BY <1>0, Sizes
        <5>3. QED
          BY <4>1, <5>1, <5>2
      <4>3. /\ t \in Seq(Byte) /\ Len(t) = HeaderBytes + sdlc
            /\ \A i \in 1 .. HeaderBytes + sdlc : t[i] = Stream[i]
        <5>1. /\ Stream \in Seq(Byte) /\ HeaderBytes + sdlc <= Len(Stream)
              /\ HeaderBytes \in Nat \ {0} /\ 1 <= HeaderBytes + sdlc
          BY <1>0, <3>1, StreamOK, Sizes
        <5>2. \A i \in 1 .. HeaderBytes + sdlc : Stream[i] \in Byte
          BY <1>0, <5>1
        <5>3. /\ t \in Seq(Byte)
              /\ Len(t) = IF 1 <= HeaderBytes + sdlc THEN HeaderBytes + sdlc - 1 + 1 ELSE 0
              /\ \A i \in 1 .. HeaderBytes + sdlc - 1 + 1 : t[i] = Stream[1 + i - 1]
          BY <1>0, <5>1, <5>2, SubSeqProperties
        <5>4. QED
          BY <1>0, <5>1, <5>3
      <4>4. \A i \in 1 .. HeaderBytes + sdlc : s[i] = t[i]
        <5>1. \A i \in 1 .. HeaderBytes + sdlc :
                Stream[i] = IF i <= HeaderBytes THEN got[i] ELSE pipe[i - HeaderBytes]
          <6>1. /\ Len(Stream) = Len(got) + Len(pipe) /\ HeaderBytes \in Nat
                /\ \A i \in 1 .. Len(Stream) :
                     Stream[i] = IF i <= Len(got) THEN got[i] ELSE pipe[i - Len(got)]
            BY StreamOK, Sizes
          <6>2. \A i \in 1 .. HeaderBytes + sdlc : i \in 1 .. Len(Stream)
            BY <1>0, <3>1, <6>1
          <6>3. QED
            BY <3>1, <6>1, <6>2
        <5> HIDE DEF s, t
        <5>2. QED
          BY <4>2, <4>3, <5>1
      <4> HIDE DEF s, t
      <4>5. s = t
        BY <4>2, <4>3, <4>4, SeqEqual
      <4>6. QED
        BY <4>5 DEF s, t
    <3>4. QED
      BY <3>1, <3>2, <3>3 DEF Delivers
  <2>3. QED
    BY <2>1, <2>2
<1>12. CASE overrun
  <2>1. got' = <<>> /\ UNCHANGED <<written, delivered>> /\ (Consume(sdlc) \/ pipe' = <<>>)
    BY <1>12 DEF overrun
  <2>2. CASE pipe' = <<>>
    BY <1>2, <2>1, <2>2
  <2>3. CASE pipe' # <<>>
    <3>1. pipe' = SubSeq(pipe, sdlc + 1, Len(pipe)) /\ sdlc \in 0 .. Len(pipe)
      BY <1>0, <2>1, <2>3 DEF Consume, Enough
    <3>2. QED
      BY <1>3, <2>1, <3>1
  <2>4. QED
    BY <2>2, <2>3
<1>13. CASE kill
  <2>1. got' = <<>> /\ UNCHANGED <<written, delivered>> /\ pipe' \in {pipe, <<>>}
    BY <1>13 DEF kill
  <2>2. pipe = SubSeq(pipe, 0 + 1, Len(pipe)) /\ 0 \in 0 .. Len(pipe)
    BY <1>0, SubSeqFull
  <2>3. QED
    BY <1>2, <1>3, <2>1, <2>2
<1>14. QED
  BY <1>5, <1>6, <1>7, <1>8, <1>9, <1>10, <1>11, <1>12, <1>13
     DEF Next, Writer, Reader, runHandler


-----------------------------------------------------------------------------
(* Bytes of frames that have been written, in the order of the writes, and *)
(* none twice.                                                             *)
FromFrames ==
  \A i \in 1 .. Len(Stream) :
    /\ Stream[i][1] <= Len(written)
    /\ Stream[i][2] <= HeaderBytes + written[Stream[i][1]].data

Before(a, b) == a[1] < b[1] \/ (a[1] = b[1] /\ a[2] < b[2])

InOrder ==
  \A i, j \in 1 .. Len(Stream) : i < j => Before(Stream[i], Stream[j])

(* What has been delivered comes before all that is on its way.            *)
DeliveredFirst ==
  \A i \in 1 .. Len(delivered) :
    /\ delivered[i] <= Len(written)
    /\ delivered[i] # 0 => \A j \in 1 .. Len(Stream) : delivered[i] < Stream[j][1]

StreamInv == FromFrames /\ InOrder /\ DeliveredFirst /\ OrderKept

LEMMA Dropped ==
  ASSUME DataInv, NEW m, Drops(m)
  PROVE  /\ m \in 0 .. Len(Stream) /\ Len(Stream) \in Nat
         /\ Stream' \in Seq(Byte) /\ Len(Stream') = Len(Stream) - m
         /\ \A i \in 1 .. Len(Stream') : i + m \in 1 .. Len(Stream) /\ Stream'[i] = Stream[i + m]
<1>1. Stream \in Seq(Byte) /\ m \in 0 .. Len(Stream) /\ Stream' = SubSeq(Stream, m + 1, Len(Stream))
  BY StreamOK DEF Drops
<1>2. \A i \in m + 1 .. Len(Stream) : Stream[i] \in Byte
  BY <1>1
<1>3. /\ Stream' \in Seq(Byte)
      /\ Len(Stream') = IF m + 1 <= Len(Stream) THEN Len(Stream) - (m + 1) + 1 ELSE 0
      /\ \A i \in 1 .. Len(Stream) - (m + 1) + 1 : Stream'[i] = Stream[m + 1 + i - 1]
  BY <1>1, <1>2, SubSeqProperties
<1>4. QED
  BY <1>1, <1>3

LEMMA Sent ==
  ASSUME DataInv, NEW frame \in Frames, written' = Append(written, frame),
         Stream' = Stream \o Bytes(Len(written) + 1, frame)
  PROVE  /\ written \in Seq(Frames) /\ Len(written') = Len(written) + 1
         /\ written'[Len(written) + 1] = frame
         /\ \A n \in 1 .. Len(written) : written'[n] = written[n]
         /\ frame.data \in Nat /\ Len(Stream) \in Nat
         /\ Len(Stream') = Len(Stream) + HeaderBytes + frame.data
         /\ \A i \in 1 .. Len(Stream') :
              Stream'[i] = IF i <= Len(Stream) THEN Stream[i]
                           ELSE <<Len(written) + 1, i - Len(Stream)>>
<1> DEFINE bytes == Bytes(Len(written) + 1, frame)
<1>1. /\ written \in Seq(Frames) /\ Len(written') = Len(written) + 1
      /\ written'[Len(written) + 1] = frame
      /\ \A n \in 1 .. Len(written) : written'[n] = written[n]
  BY AppendProperties DEF DataInv
<1>2. frame \in Frame /\ Len(written) + 1 \in FrameNumber /\ HeaderBytes \in Nat
  BY <1>1, Sizes DEF FrameNumber
<1>3. /\ bytes \in Seq(Byte) /\ Len(bytes) = HeaderBytes + frame.data
      /\ \A k \in 1 .. (HeaderBytes + frame.data) : bytes[k] = <<Len(written) + 1, k>>
  BY <1>2, BytesOfFrame
<1> HIDE DEF bytes
<1>4. Stream \in Seq(Byte)
  BY StreamOK
<1>5. Stream' = Stream \o bytes
  BY DEF bytes
<1>6. /\ Len(Stream \o bytes) = Len(Stream) + Len(bytes)
      /\ \A i \in 1 .. Len(Stream) + Len(bytes) :
           (Stream \o bytes)[i] = IF i <= Len(Stream) THEN Stream[i]
                                  ELSE bytes[i - Len(Stream)]
  BY <1>3, <1>4, ConcatProperties
<1>7. frame.data \in Nat /\ Len(Stream) \in Nat /\ HeaderBytes \in Nat
  BY <1>2, <1>4, Sizes DEF Frame
<1>8. \A i \in 1 .. Len(Stream) + Len(bytes) :
        ~(i <= Len(Stream)) => i - Len(Stream) \in 1 .. HeaderBytes + frame.data
  BY <1>3, <1>7
<1>9. Len(Stream') = Len(Stream) + HeaderBytes + frame.data
  <2>1. Len(Stream') = Len(Stream) + Len(bytes)
    BY <1>5, <1>6
  <2>2. QED
    BY <1>3, <1>7, <2>1
<1>10. ASSUME NEW i \in 1 .. Len(Stream')
       PROVE  Stream'[i] = IF i <= Len(Stream) THEN Stream[i]
                           ELSE <<Len(written) + 1, i - Len(Stream)>>
  <2>1. i \in 1 .. Len(Stream) + Len(bytes)
    BY <1>5, <1>6, <1>10
  <2>2. Stream'[i] = IF i <= Len(Stream) THEN Stream[i] ELSE bytes[i - Len(Stream)]
    BY <1>5, <1>6, <2>1
  <2>3. QED
    BY <1>3, <1>8, <2>1, <2>2
<1>11. QED
  BY <1>1, <1>7, <1>9, <1>10

LEMMA StreamInit == Init => DataInv /\ ReadInv /\ StreamInv
<1> SUFFICES ASSUME Init PROVE DataInv /\ ReadInv /\ StreamInv
  OBVIOUS
<1>1. DataInv
  BY Sizes DEF Init, DataInv
<1>2. ReadInv
  BY DEF Init, ReadInv, FirewallUp
<1>3. Len(Stream) = 0 /\ Len(delivered) = 0 /\ DOMAIN delivered = {}
  BY <1>1, StreamOK DEF Init
<1>4. StreamInv
  BY <1>3 DEF StreamInv, FromFrames, InOrder, DeliveredFirst, OrderKept
<1>5. QED
  BY <1>1, <1>2, <1>4

(* A frame that is handed over whole has been the first of the stream, and *)
(* no byte of it is left.                                                  *)
LEMMA FrameTaken ==
  ASSUME DataInv, StreamInv, NEW m \in 1 .. Len(Stream), Drops(m),
         NEW dlc, NEW n, n = FrameOf(SubSeq(Stream, 1, m), dlc)
  PROVE  /\ n \in 0 .. Len(written)
         /\ n # 0 => /\ n = Stream[1][1]
                     /\ \A j \in 1 .. Len(Stream') : n < Stream'[j][1]
<1> DEFINE bytes == SubSeq(Stream, 1, m)
           k == Stream[1][1]
<1>1. Stream \in Seq(Byte) /\ Len(Stream) \in Nat
  BY StreamOK
<1>2. Len(bytes) = m /\ \A i \in 1 .. m : bytes[i] = Stream[i]
  <2>1. \A i \in 1 .. m : Stream[i] \in Byte
    BY <1>1
  <2>2. /\ Len(bytes) = IF 1 <= m THEN m - 1 + 1 ELSE 0
        /\ \A i \in 1 .. m - 1 + 1 : bytes[i] = Stream[1 + i - 1]
    BY <1>1, <2>1, SubSeqProperties
  <2>3. QED
    BY <2>2
<1>3. k \in FrameNumber /\ k <= Len(written) /\ Len(written) \in Nat
  BY <1>1 DEF StreamInv, FromFrames, Byte, DataInv
<1> HIDE DEF bytes
<1>4. n = IF bytes = Bytes(k, written[k]) /\ dlc = written[k].dlc THEN k ELSE 0
  BY <1>2 DEF FrameOf, bytes
<1>5. n \in 0 .. Len(written)
  BY <1>3, <1>4 DEF FrameNumber
<1>6. ASSUME n # 0 PROVE \A j \in 1 .. Len(Stream') : n < Stream'[j][1]
  <2>1. n = k /\ bytes = Bytes(k, written[k])
    BY <1>4, <1>6
  <2>2. written[k] \in Frame
    BY <1>3, Sizes DEF DataInv, FrameNumber
  <2>3. m = HeaderBytes + written[k].data /\ bytes[m] = <<k, m>>
    BY <1>2, <1>3, <2>1, <2>2, BytesOfFrame
  <2>4. Stream[m] = <<k, m>>
    BY <1>2, <2>3
  <2>5. ASSUME NEW j \in 1 .. Len(Stream') PROVE n < Stream'[j][1]
    <3>1. j + m \in 1 .. Len(Stream) /\ Stream'[j] = Stream[j + m] /\ m < j + m
      BY <1>1, Dropped
    <3>2. Before(Stream[m], Stream[j + m])
      BY <1>1, <3>1 DEF StreamInv, InOrder
    <3>3. Stream[j + m][2] <= HeaderBytes + written[Stream[j + m][1]].data
      BY <3>1 DEF StreamInv, FromFrames
    <3>4. Stream[j + m][1] \in Nat /\ Stream[j + m][2] \in Nat
      BY <1>1, <3>1, SMTT(30) DEF Byte, FrameNumber
    <3>5. Stream[m][1] = k /\ Stream[m][2] = m
      BY <2>4
    <3>6. k < Stream[j + m][1] \/ (k = Stream[j + m][1] /\ m < Stream[j + m][2])
      BY <3>2, <3>5 DEF Before
    <3>7. Stream[j + m][1] # k
      <4> SUFFICES ASSUME Stream[j + m][1] = k PROVE FALSE
        OBVIOUS
      <4>1. m < Stream[j + m][2] /\ Stream[j + m][2] <= HeaderBytes + written[k].data
        BY <1>3, <3>3, <3>6 DEF FrameNumber
      <4>2. QED
        BY <2>3, <3>4, <4>1
    <3>8. QED
      BY <2>1, <3>1, <3>6, <3>7
  <2>6. QED
    BY <2>5
<1>7. QED
  BY <1>4, <1>5, <1>6

LEMMA StreamNext == DataInv /\ ReadInv /\ StreamInv /\ Next => StreamInv'
<1> SUFFICES ASSUME DataInv, ReadInv, StreamInv, Next PROVE StreamInv'
  OBVIOUS
<1>0. /\ Stream \in Seq(Byte) /\ Len(Stream) \in Nat
      /\ \A i \in 1 .. Len(Stream) : Stream[i][1] \in Nat \ {0} /\ Stream[i][2] \in Nat
      /\ written \in Seq(Frames) /\ Len(written) \in Nat
      /\ delivered \in Seq(Nat) /\ HeaderBytes \in Nat \ {0} /\ sdlc \in Nat
  <2>1. Stream \in Seq(Byte)
    BY StreamOK
  <2>2. \A b \in Byte : b[1] \in Nat \ {0} /\ b[2] \in Nat
    BY DEF Byte, FrameNumber
  <2>3. \A i \in 1 .. Len(Stream) : Stream[i] \in Byte
    BY <2>1
  <2>4. /\ written \in Seq(Frames) /\ Len(written) \in Nat
        /\ delivered \in Seq(Nat) /\ HeaderBytes \in Nat \ {0} /\ sdlc \in Nat
    BY Sizes DEF DataInv
  <2>5. Len(Stream) \in Nat
    BY <2>1
  <2>6. \A i \in 1 .. Len(Stream) : Stream[i][1] \in Nat \ {0} /\ Stream[i][2] \in Nat
    BY <2>2, <2>3
  <2>7. QED
    BY <2>1, <2>4, <2>5, <2>6
<1>1. ASSUME NEW m, Drops(m), UNCHANGED written
      PROVE  FromFrames' /\ InOrder'
  <2>1. /\ m \in 0 .. Len(Stream) /\ Len(Stream') = Len(Stream) - m
        /\ \A i \in 1 .. Len(Stream') :
             i + m \in 1 .. Len(Stream) /\ Stream'[i] = Stream[i + m]
    BY <1>1, Dropped
  <2>2. FromFrames'
    BY <1>1, <2>1 DEF StreamInv, FromFrames
  <2>3. ASSUME NEW i \in 1 .. Len(Stream'), NEW j \in 1 .. Len(Stream'), i < j
        PROVE  Before(Stream'[i], Stream'[j])
    <3>1. /\ i + m \in 1 .. Len(Stream) /\ j + m \in 1 .. Len(Stream) /\ i + m < j + m
          /\ Stream'[i] = Stream[i + m] /\ Stream'[j] = Stream[j + m]
      BY <2>1, <2>3
    <3>2. QED
      BY <3>1 DEF StreamInv, InOrder
  <2>4. QED
    BY <2>2, <2>3 DEF InOrder
<1>2. CASE Keeps
  <2>1. PICK m : Drops(m)
    BY <1>2 DEF Keeps
  <2>2. FromFrames' /\ InOrder'
    BY <1>1, <1>2, <2>1 DEF Keeps
  <2>3. DeliveredFirst' /\ OrderKept'
    BY <1>0, <1>2, <2>1, Dropped DEF Keeps, StreamInv, DeliveredFirst, OrderKept
  <2>4. QED
    BY <2>2, <2>3 DEF StreamInv
<1>3. CASE Sends
  <2>1. PICK frame \in Frames :
          /\ written' = Append(written, frame)
          /\ Stream' = Stream \o Bytes(Len(written) + 1, frame)
          /\ UNCHANGED delivered
    BY <1>3 DEF Sends
  <2>2. /\ Len(written') = Len(written) + 1
        /\ written'[Len(written) + 1] = frame
        /\ \A n \in 1 .. Len(written) : written'[n] = written[n]
        /\ frame.data \in Nat
        /\ Len(Stream') = Len(Stream) + HeaderBytes + frame.data
        /\ \A i \in 1 .. Len(Stream') :
              Stream'[i] = IF i <= Len(Stream) THEN Stream[i]
                           ELSE <<Len(written) + 1, i - Len(Stream)>>
    BY <2>1, Sent
  <2>3. FromFrames'
    <3> SUFFICES ASSUME NEW i \in 1 .. Len(Stream')
                 PROVE  /\ Stream'[i][1] <= Len(written')
                        /\ Stream'[i][2] <= HeaderBytes + written'[Stream'[i][1]].data
      BY DEF FromFrames
    <3>1. CASE i <= Len(Stream)
      <4>1. Stream'[i] = Stream[i] /\ i \in 1 .. Len(Stream)
        BY <1>0, <2>2, <3>1
      <4>2. /\ Stream[i][1] \in 1 .. Len(written)
            /\ Stream[i][2] <= HeaderBytes + written[Stream[i][1]].data
        BY <1>0, <4>1 DEF StreamInv, FromFrames
      <4>3. QED
        BY <1>0, <2>2, <4>1, <4>2
    <3>2. CASE ~(i <= Len(Stream))
      BY <1>0, <2>2, <3>2
    <3>3. QED
      BY <3>1, <3>2
  <2>4. InOrder'
    <3> SUFFICES ASSUME NEW i \in 1 .. Len(Stream'), NEW j \in 1 .. Len(Stream'), i < j
                 PROVE  Before(Stream'[i], Stream'[j])
      BY DEF InOrder
    <3>1. CASE j <= Len(Stream)
      <4>1. i \in 1 .. Len(Stream) /\ j \in 1 .. Len(Stream)
        BY <1>0, <3>1
      <4>2. Stream'[i] = Stream[i] /\ Stream'[j] = Stream[j]
        BY <2>2, <4>1
      <4>3. QED
        BY <4>1, <4>2 DEF StreamInv, InOrder
    <3>2. CASE i <= Len(Stream) /\ ~(j <= Len(Stream))
      <4>1. Stream'[i] = Stream[i] /\ i \in 1 .. Len(Stream)
            /\ Stream'[j] = <<Len(written) + 1, j - Len(Stream)>>
        BY <1>0, <2>2, <3>2
      <4>2. Stream[i][1] <= Len(written)
        BY <4>1 DEF StreamInv, FromFrames
      <4>3. QED
        BY <1>0, <4>1, <4>2 DEF Before
    <3>3. CASE ~(i <= Len(Stream))
      <4>1. /\ Stream'[i] = <<Len(written) + 1, i - Len(Stream)>>
            /\ Stream'[j] = <<Len(written) + 1, j - Len(Stream)>>
        BY <1>0, <2>2, <3>3
      <4>2. QED
        BY <1>0, <4>1 DEF Before
    <3>4. QED
      BY <3>1, <3>2, <3>3
  <2>5. DeliveredFirst'
    <3> SUFFICES ASSUME NEW i \in 1 .. Len(delivered)
                 PROVE  /\ delivered[i] <= Len(written')
                        /\ delivered[i] # 0 =>
                             \A j \in 1 .. Len(Stream') : delivered[i] < Stream'[j][1]
      BY <2>1 DEF DeliveredFirst
    <3>1. /\ delivered[i] \in Nat /\ delivered[i] <= Len(written)
          /\ delivered[i] # 0 => \A j \in 1 .. Len(Stream) : delivered[i] < Stream[j][1]
      BY <1>0 DEF StreamInv, DeliveredFirst
    <3>2. ASSUME NEW j \in 1 .. Len(Stream'), delivered[i] # 0 PROVE delivered[i] < Stream'[j][1]
      <4>1. CASE j <= Len(Stream)
        <5>1. j \in 1 .. Len(Stream) /\ Stream'[j] = Stream[j]
          BY <1>0, <2>2, <4>1
        <5>2. QED
          BY <3>1, <3>2, <5>1
      <4>2. CASE ~(j <= Len(Stream))
        BY <1>0, <2>2, <3>1, <4>2
      <4>3. QED
        BY <4>1, <4>2
    <3>3. QED
      BY <1>0, <2>2, <3>1, <3>2
  <2>6. OrderKept'
    BY <2>1 DEF StreamInv, OrderKept
  <2>7. QED
    BY <2>3, <2>4, <2>5, <2>6 DEF StreamInv
<1>4. CASE Delivers
  <2> DEFINE m == HeaderBytes + sdlc
             n == FrameOf(SubSeq(Stream, 1, m), sdlc)
  <2>1. Drops(m) /\ delivered' = Append(delivered, n) /\ UNCHANGED written
    BY <1>4 DEF Delivers
  <2>2. m \in 1 .. Len(Stream)
    BY <1>0, <2>1 DEF Drops
  <2> HIDE DEF m
  <2>3. /\ n \in 0 .. Len(written)
        /\ n # 0 => /\ n = Stream[1][1]
                    /\ \A j \in 1 .. Len(Stream') : n < Stream'[j][1]
    BY <2>1, <2>2, FrameTaken
  <2> HIDE DEF n
  <2>4. FromFrames' /\ InOrder'
    BY <1>1, <2>1
  <2>5. /\ Len(delivered') = Len(delivered) + 1 /\ delivered'[Len(delivered) + 1] = n
        /\ DOMAIN delivered' = 1 .. Len(delivered) + 1
        /\ \A i \in 1 .. Len(delivered) : delivered'[i] = delivered[i]
    BY <1>0, <2>1, <2>3
  <2>6. \A j \in 1 .. Len(Stream') : \E k \in 1 .. Len(Stream) : Stream'[j] = Stream[k]
    BY <2>1, Dropped
  <2>7. \A i \in 1 .. Len(delivered) :
          /\ delivered[i] \in Nat /\ delivered[i] <= Len(written)
          /\ delivered[i] # 0 => \A j \in 1 .. Len(Stream) : delivered[i] < Stream[j][1]
    BY <1>0 DEF StreamInv, DeliveredFirst
  <2>8. DeliveredFirst'
    <3> SUFFICES ASSUME NEW i \in 1 .. Len(delivered')
                 PROVE  /\ delivered'[i] <= Len(written')
                        /\ delivered'[i] # 0 =>
                             \A j \in 1 .. Len(Stream') : delivered'[i] < Stream'[j][1]
      BY DEF DeliveredFirst
    <3>1. CASE i = Len(delivered) + 1
      BY <1>0, <2>1, <2>3, <2>5, <3>1
    <3>2. CASE i # Len(delivered) + 1
      <4>1. i \in 1 .. Len(delivered) /\ delivered'[i] = delivered[i]
        BY <1>0, <2>5, <3>2
      <4>2. QED
        BY <2>1, <2>6, <2>7, <4>1
    <3>3. QED
      BY <3>1, <3>2
  <2>9. OrderKept'
    <3> SUFFICES ASSUME NEW i \in DOMAIN delivered', NEW j \in DOMAIN delivered', i < j,
                        delivered'[i] # 0, delivered'[j] # 0
                 PROVE  delivered'[i] < delivered'[j]
      BY DEF OrderKept
    <3>1. i \in 1 .. Len(delivered) /\ delivered'[i] = delivered[i]
      BY <1>0, <2>5
    <3>2. CASE j = Len(delivered) + 1
      BY <1>0, <2>2, <2>3, <2>5, <2>7, <3>1, <3>2
    <3>3. CASE j # Len(delivered) + 1
      <4>1. j \in 1 .. Len(delivered) /\ delivered'[j] = delivered[j]
        BY <1>0, <2>5, <3>3
      <4>2. DOMAIN delivered = 1 .. Len(delivered)
        BY <1>0
      <4>3. QED
        BY <3>1, <4>1, <4>2 DEF StreamInv, OrderKept
    <3>4. QED
      BY <3>2, <3>3
  <2>10. QED
    BY <2>4, <2>8, <2>9 DEF StreamInv
<1>5. QED
  BY <1>2, <1>3, <1>4, StreamStep


-----------------------------------------------------------------------------
(* A length is a byte, be it that of a frame or not.                       *)
LEMMA DlcRead ==
  ASSUME DataInv, StreamInv, readDlc
  PROVE  sdlc' \in 0 .. 255
<1>1. CASE ~Enough(1)
  BY <1>1 DEF readDlc, DataInv
<1>2. CASE Enough(1)
  <2>1. pipe \in Seq(Byte) /\ got \in Seq(Byte) /\ Len(pipe) \in Nat \ {0} /\ Len(got) \in Nat
    BY <1>2 DEF DataInv, Enough
  <2>2. pipe[1] \in Byte /\ Head(pipe) = pipe[1]
    BY <2>1
  <2>3. pipe[1][1] <= Len(written)
    <3>1. Len(got) + 1 \in 1 .. Len(Stream) /\ Stream[Len(got) + 1] = pipe[1]
      BY <2>1, StreamOK
    <3>2. QED
      BY <3>1 DEF StreamInv, FromFrames
  <2>4. pipe[1][1] \in 1 .. Len(written)
    BY <2>2, <2>3 DEF Byte, FrameNumber, DataInv
  <2>5. written[pipe[1][1]] \in Frame
    BY <2>4, Sizes DEF DataInv
  <2>6. ValueOf(Head(pipe)) \subseteq 0 .. 255
    <3>1. written[pipe[1][1]].dlc \in 0 .. 255
      BY <2>5, PipeAssumption, SMTT(30) DEF Frame
    <3>2. ByteValues \subseteq 0 .. 255
      BY PipeAssumption
    <3>3. QED
      BY <2>2, <3>1, <3>2 DEF ValueOf
  <2>7. sdlc' \in ValueOf(Head(pipe))
    BY <1>2 DEF readDlc
  <2>8. QED
    BY <2>6, <2>7
<1>3. QED
  BY <1>1, <1>2

LEMMA DataNext == DataInv /\ ReadInv /\ StreamInv /\ Next => DataInv'
<1> SUFFICES ASSUME DataInv, ReadInv, StreamInv, Next PROVE DataInv'
  OBVIOUS
<1> USE DEF pycan, handler
<1>0. /\ pipe \in Seq(Byte) /\ Len(pipe) <= Capacity /\ got \in Seq(Byte)
      /\ written \in Seq(Frames) /\ Len(written) <= MaxFrames
      /\ delivered \in Seq(Nat) /\ sdlc \in 0 .. 255
      /\ Capacity \in Nat /\ MaxFrames \in Nat /\ Len(pipe) \in Nat
  BY Sizes DEF DataInv
<1>1. ASSUME pipe' \in {pipe, <<>>}, got' \in {got, <<>>},
             UNCHANGED <<written, delivered, sdlc>>
      PROVE  DataInv'
  <2>1. pipe' \in Seq(Byte) /\ Len(pipe') <= Capacity /\ got' \in Seq(Byte)
    <3>1. <<>> \in Seq(Byte) /\ Len(<<>>) = 0
      BY EmptySeq
    <3>2. pipe' \in Seq(Byte) /\ Len(pipe') <= Capacity
      <4>1. CASE pipe' = pipe
        BY <1>0, <4>1
      <4>2. CASE pipe' = <<>>
        BY <1>0, <3>1, <4>2
      <4>3. QED
        BY <1>1, <4>1, <4>2
    <3>3. got' \in Seq(Byte)
      BY <1>0, <1>1, <3>1
    <3>4. QED
      BY <3>2, <3>3
  <2>2. QED
    BY <1>0, <1>1, <2>1 DEF DataInv
<1>2. CASE setup_bus \/ mkfifo \/ create_pipe \/ interruptStart \/ restartWriter
           \/ createFWInstance \/ initialize
  BY <1>1, <1>2 DEF setup_bus, mkfifo, create_pipe, interruptStart, restartWriter,
     createFWInstance, initialize, StartStep
<1>3. CASE pollTimeout \/ pollReady \/ sig_handler \/ restartReader
  BY <1>1, <1>3 DEF pollTimeout, pollReady, sig_handler, restartReader
<1>4. CASE closePipe \/ mainLoop \/ kill
  BY <1>1, <1>4 DEF closePipe, mainLoop, kill
<1>5. ASSUME NEW frame \in Frames, send_message_on_pipe(frame) PROVE DataInv'
  <2> DEFINE bytes == Bytes(Len(written) + 1, frame)
  <2>1. Len(written) + 1 \in FrameNumber /\ frame \in Frame /\ Len(written) \in Nat
    BY <1>0, Sizes DEF FrameNumber
  <2>2. bytes \in Seq(Byte) /\ Len(bytes) = HeaderBytes + frame.data
    BY <2>1, BytesOfFrame
  <2> HIDE DEF bytes
  <2>3. /\ pipe' = pipe \o bytes /\ Len(pipe) + HeaderBytes + frame.data <= Capacity
        /\ written' = Append(written, frame) /\ Len(written) < MaxFrames
        /\ UNCHANGED <<got, delivered, sdlc>>
    BY <1>5 DEF send_message_on_pipe, bytes
  <2>4. pipe' \in Seq(Byte) /\ Len(pipe') = Len(pipe) + Len(bytes)
    BY <1>0, <2>2, <2>3, ConcatProperties
  <2>5. Len(pipe') <= Capacity
    BY <1>0, <2>1, <2>2, <2>3, <2>4, Sizes DEF Frame
  <2>6. written' \in Seq(Frames) /\ Len(written') <= MaxFrames
    BY <1>0, <2>1, <2>3, AppendProperties
  <2>7. QED
    BY <1>0, <2>3, <2>4, <2>5, <2>6 DEF DataInv
<1>6. ASSUME NEW n \in Nat, NEW next, ShortRead(n) \/ FullRead(n, next)
      PROVE  pipe' \in Seq(Byte) /\ Len(pipe') <= Capacity /\ got' \in Seq(Byte)
  <2>1. CASE ShortRead(n)
    BY <1>0, <2>1, Consumed DEF ShortRead
  <2>2. CASE FullRead(n, next)
    BY <1>0, <2>2, Consumed, Moved DEF FullRead
  <2>3. QED
    BY <1>6, <2>1, <2>2
<1>7. CASE readTimestamp \/ readIdx
  <2>1. UNCHANGED <<written, delivered, sdlc>>
    BY <1>7 DEF readTimestamp, readIdx
  <2>2. pipe' \in Seq(Byte) /\ Len(pipe') <= Capacity /\ got' \in Seq(Byte)
    BY <1>6, <1>7, Sizes DEF readTimestamp, readIdx
  <2>3. QED
    BY <1>0, <2>1, <2>2 DEF DataInv
<1>8. CASE readDlc
  <2>1. UNCHANGED <<written, delivered>>
    BY <1>8 DEF readDlc
  <2>2. pipe' \in Seq(Byte) /\ Len(pipe') <= Capacity /\ got' \in Seq(Byte)
    BY <1>6, <1>8 DEF readDlc
  <2>3. QED
    BY <1>0, <1>8, <2>1, <2>2, DlcRead DEF DataInv
<1>9. CASE readPayload
  <2>1. UNCHANGED <<written, sdlc>> /\ got' = <<>> /\ Consume(sdlc)
    BY <1>9 DEF readPayload
  <2>2. pipe' \in Seq(Byte) /\ Len(pipe') <= Capacity
    BY <1>0, <2>1, Consumed
  <2>3. delivered' \in Seq(Nat)
    <3>1. CASE UNCHANGED delivered
      BY <1>0, <3>1
    <3>2. CASE ~UNCHANGED delivered
      <4>1. Delivers
        BY <3>2, StreamStep DEF Keeps, Sends
      <4>2. /\ HeaderBytes + sdlc \in 1 .. Len(Stream) /\ Drops(HeaderBytes + sdlc)
        BY <1>0, <4>1, Sizes DEF Delivers, Drops
      <4>3. FrameOf(SubSeq(Stream, 1, HeaderBytes + sdlc), sdlc) \in Nat
        BY <4>2, FrameTaken
      <4>4. QED
        BY <1>0, <4>1, <4>3 DEF Delivers
    <3>3. QED
      BY <3>1, <3>2
  <2>4. QED
    BY <1>0, <2>1, <2>2, <2>3 DEF DataInv
<1>10. CASE overrun
  <2>1. UNCHANGED <<written, delivered, sdlc>> /\ got' = <<>> /\ (Consume(sdlc) \/ pipe' = <<>>)
    BY <1>10 DEF overrun
  <2>2. pipe' \in Seq(Byte) /\ Len(pipe') <= Capacity
    <3>1. CASE Consume(sdlc)
      BY <1>0, <3>1, Consumed
    <3>2. CASE pipe' = <<>>
      BY <1>0, <3>2, EmptySeq
    <3>3. QED
      BY <2>1, <3>1, <3>2
  <2>3. QED
    BY <1>0, <2>1, <2>2 DEF DataInv
<1>11. QED
  BY <1>2, <1>3, <1>4, <1>5, <1>7, <1>8, <1>9, <1>10 DEF Next, Writer, Reader, runHandler

LEMMA ReadNext == DataInv /\ ReadInv /\ Next => ReadInv'
<1> SUFFICES ASSUME DataInv, ReadInv, Next PROVE ReadInv'
  OBVIOUS
<1> USE DEF pycan, handler
<1>0. HeaderBytes = TsBytes + IdBytes + 1 /\ TsBytes \in Nat /\ IdBytes \in Nat
  BY Sizes
<1>1. ASSUME UNCHANGED <<reader, got>> PROVE ReadInv'
  BY <1>1 DEF ReadInv, FirewallUp, ReaderUp
<1>2. ASSUME got' = <<>>,
             reader' \in {"createFW", "mkfifo", "open", "loop", "poll", "timestamp", "down", "exited"}
      PROVE  ReadInv'
  BY <1>2 DEF ReadInv, FirewallUp, ReaderUp
<1>3. CASE Writer \/ sig_handler
  BY <1>1, <1>3 DEF Writer, setup_bus, mkfifo, create_pipe, closePipe, interruptStart,
     restartWriter, send_message_on_pipe, sig_handler
<1>4. CASE createFWInstance \/ initialize
  BY <1>2, <1>4 DEF createFWInstance, initialize, StartStep, ReadInv
<1>5. CASE mainLoop \/ pollTimeout \/ pollReady \/ restartReader
  BY <1>2, <1>5 DEF mainLoop, pollTimeout, pollReady, restartReader, ReadInv
<1>6. CASE readPayload \/ overrun \/ kill
  BY <1>2, <1>6 DEF readPayload, overrun, kill
<1>7. ASSUME NEW n \in Nat, NEW next, FullRead(n, next)
      PROVE  Len(got') = Len(got) + n /\ reader' = next
  BY <1>7, Moved DEF FullRead
<1>8. ASSUME NEW n \in Nat, ShortRead(n) PROVE ReadInv'
  BY <1>2, <1>8 DEF ShortRead
<1>9. CASE readTimestamp
  <2>1. CASE FullRead(TsBytes, "idx")
    <3>1. Len(got') = TsBytes /\ reader' = "idx"
      BY <1>0, <1>7, <1>9, <2>1 DEF readTimestamp, ReadInv
    <3>2. QED
      BY <3>1 DEF ReadInv, FirewallUp, ReaderUp
  <2>2. QED
    BY <1>0, <1>8, <1>9, <2>1 DEF readTimestamp
<1>10. CASE readIdx
  <2>1. CASE FullRead(IdBytes, "dlc")
    <3>1. Len(got') = TsBytes + IdBytes /\ reader' = "dlc"
      BY <1>0, <1>7, <1>10, <2>1 DEF readIdx, ReadInv
    <3>2. QED
      BY <3>1 DEF ReadInv, FirewallUp, ReaderUp
  <2>2. QED
    BY <1>0, <1>8, <1>10, <2>1 DEF readIdx
<1>11. CASE readDlc
  <2>1. CASE FullRead(1, "payload")
    <3>1. Len(got') = HeaderBytes /\ reader' = "payload"
      BY <1>0, <1>7, <1>11, <2>1 DEF readDlc, ReadInv
    <3>2. QED
      BY <3>1 DEF ReadInv, FirewallUp, ReaderUp
  <2>2. QED
    BY <1>8, <1>11, <2>1 DEF readDlc
<1>12. QED
  BY <1>3, <1>4, <1>5, <1>6, <1>9, <1>10, <1>11 DEF Next, Reader, runHandler

LEMMA StreamStutter ==
  DataInv /\ ReadInv /\ StreamInv /\ UNCHANGED vars => DataInv' /\ ReadInv' /\ StreamInv'
<1> SUFFICES ASSUME DataInv, ReadInv, StreamInv, UNCHANGED vars
             PROVE  DataInv' /\ ReadInv' /\ StreamInv'
  OBVIOUS
<1>1. UNCHANGED <<pipe, got, written, delivered, sdlc, reader>> /\ UNCHANGED Stream
  BY DEF vars, pycan, handler, Stream
<1>2. DataInv' /\ ReadInv'
  BY <1>1 DEF DataInv, ReadInv, FirewallUp, ReaderUp
<1>3. StreamInv'
  BY <1>1 DEF StreamInv, FromFrames, InOrder, DeliveredFirst, OrderKept
<1>4. QED
  BY <1>2, <1>3

LEMMA StreamInvariant == Spec => [](DataInv /\ ReadInv /\ StreamInv)
<1>1. DataInv /\ ReadInv /\ StreamInv /\ [Next]_vars => DataInv' /\ ReadInv' /\ StreamInv'
  BY DataNext, ReadNext, StreamNext, StreamStutter
<1>2. QED
  BY <1>1, StreamInit, PTL DEF Spec

(* However the two processes are cut off, killed and started again, and    *)
(* whatever runHandler takes for a length, the frames it hands over whole  *)
(* are in the order in which pycan_com.py wrote them, and none is there    *)
(* twice.                                                                  *)
THEOREM OrderTheorem == Spec => []OrderKept
<1>1. StreamInv => OrderKept
  BY DEF StreamInv
<1>2. QED
  BY <1>1, StreamInvariant, PTL


-----------------------------------------------------------------------------
(* The path, which nobody removes, and what pycan knows of it.             *)
FlagsInv ==
  /\ fifo \in BOOLEAN /\ can_bus \in BOOLEAN
  /\ g_exit \in BOOLEAN /\ disturbed \in BOOLEAN

PathInv ==
  /\ pipeout \in {"start", "mkfifo", "opening", "open", "closed"}
  /\ kills \in 0 .. MaxKills
  /\ pipe # <<>> \/ ReaderUp \/ reader = "open" \/ pipeout \in {"open", "opening"} => fifo
  /\ refused \in 0 .. 1
  /\ refused = 1 => fifo /\ pipeout # "mkfifo"

LEMMA PathInit == Init => FlagsInv /\ PathInv
<1>1. Init => FlagsInv
  BY Zenon DEF Init, FlagsInv
<1>2. Init => PathInv
  BY PipeAssumption DEF Init, PathInv, ReaderUp
<1>3. QED
  BY <1>1, <1>2

LEMMA FlagsNext == FlagsInv /\ Next => FlagsInv'
<1> SUFFICES ASSUME FlagsInv, Next PROVE FlagsInv'
  OBVIOUS
<1> USE DEF pycan, handler
<1>1. fifo' \in BOOLEAN
  <2>1. fifo' \in {fifo, TRUE, fifo \/ reader' = "open"}
    BY Zenon DEF Next, Writer, setup_bus, mkfifo, create_pipe, closePipe, interruptStart, restartWriter,
       send_message_on_pipe, createFWInstance, Reader, initialize, StartStep, mainLoop, runHandler,
       pollTimeout, pollReady, readTimestamp, readIdx, readDlc, readPayload, overrun,
       sig_handler, kill, restartReader
  <2>2. QED
    BY <2>1, Zenon DEF FlagsInv
<1>2. can_bus' \in BOOLEAN
  <2>1. can_bus' \in BOOLEAN \/ UNCHANGED can_bus
    BY Zenon DEF Next, Writer, setup_bus, mkfifo, create_pipe, closePipe, interruptStart, restartWriter,
       send_message_on_pipe, createFWInstance, Reader, initialize, StartStep, mainLoop, runHandler,
       pollTimeout, pollReady, readTimestamp, readIdx, readDlc, readPayload, overrun,
       sig_handler, kill, restartReader
  <2>2. QED
    BY <2>1, Zenon DEF FlagsInv
<1>3. g_exit' \in BOOLEAN
  <2>1. g_exit' \in {g_exit, TRUE, FALSE}
    BY Zenon DEF Next, Writer, setup_bus, mkfifo, create_pipe, closePipe, interruptStart, restartWriter,
       send_message_on_pipe, createFWInstance, Reader, initialize, StartStep, mainLoop, runHandler,
       pollTimeout, pollReady, readTimestamp, readIdx, readDlc, readPayload, overrun,
       sig_handler, kill, restartReader
  <2>2. QED
    BY <2>1, Zenon DEF FlagsInv
<1>4. disturbed' \in BOOLEAN
  <2>1. \/ UNCHANGED disturbed
        \/ \E a, b : disturbed' = (a /\ b) \/ disturbed' = (a \/ b)
        \/ disturbed' = FALSE
    BY Zenon DEF Next, Writer, setup_bus, mkfifo, create_pipe, closePipe, interruptStart, restartWriter,
       send_message_on_pipe, createFWInstance, Reader, initialize, StartStep, mainLoop, runHandler,
       pollTimeout, pollReady, readTimestamp, readIdx, readDlc, readPayload, ShortRead, FullRead,
       overrun, sig_handler, kill, restartReader
  <2>2. QED
    BY <2>1, Zenon DEF FlagsInv
<1>5. QED
  BY <1>1, <1>2, <1>3, <1>4 DEF FlagsInv


LEMMA PathNext == ReadInv /\ PathInv /\ Next => PathInv'
<1> SUFFICES ASSUME ReadInv, PathInv, Next PROVE PathInv'
  OBVIOUS
<1> USE DEF pycan, handler
<1>0. MaxKills \in Nat
  BY PipeAssumption
<1>1. CASE setup_bus \/ mkfifo \/ create_pipe \/ interruptStart \/ restartWriter
  <2>1. UNCHANGED <<pipe, reader, kills>>
    BY <1>1 DEF setup_bus, mkfifo, create_pipe, interruptStart, restartWriter
  <2>2. CASE setup_bus
    BY <2>1, <2>2 DEF setup_bus, PathInv, ReaderUp
  <2>3. CASE mkfifo
    BY <2>1, <2>3 DEF mkfifo, PathInv, ReaderUp
  <2>4. CASE create_pipe \/ interruptStart \/ restartWriter
    BY <2>1, <2>4 DEF create_pipe, interruptStart, restartWriter, PathInv, ReaderUp
  <2>5. QED
    BY <1>1, <2>2, <2>3, <2>4
<1>2. ASSUME NEW frame \in Frames, send_message_on_pipe(frame) PROVE PathInv'
  BY <1>2 DEF send_message_on_pipe, PathInv, ReaderUp
<1>3. CASE closePipe
  BY <1>3 DEF closePipe, PathInv, ReaderUp
<1>4. CASE createFWInstance
  BY <1>4 DEF createFWInstance, StartStep, PathInv, ReaderUp
<1>5. CASE initialize
  <2>1. UNCHANGED <<pipe, pipeout, refused, kills>>
    BY <1>5 DEF initialize, StartStep
  <2>2. CASE StartStep("mkfifo", "open") /\ fifo' = (fifo \/ reader' = "open")
    <3>1. /\ reader = "mkfifo" /\ reader' \in {"open", "down"}
          /\ fifo => fifo'
          /\ reader' = "open" => fifo'
      BY <2>2 DEF StartStep
    <3>2. QED
      BY <2>1, <3>1 DEF PathInv, ReaderUp
  <2>3. CASE StartStep("open", "loop") /\ UNCHANGED fifo
    BY <2>1, <2>3 DEF StartStep, PathInv, ReaderUp
  <2>4. QED
    BY <1>5, <2>2, <2>3 DEF initialize
<1>6. ASSUME UNCHANGED <<fifo, pipeout, refused, kills>>, ReaderUp, reader # "open",
             reader' # "open"
      PROVE  PathInv'
  BY <1>6 DEF PathInv
<1>7. CASE mainLoop \/ pollTimeout \/ pollReady
  BY <1>6, <1>7 DEF mainLoop, pollTimeout, pollReady, ReaderUp
<1>8. CASE readTimestamp \/ readIdx \/ readDlc \/ readPayload \/ overrun
  BY <1>6, <1>8 DEF readTimestamp, readIdx, readDlc, readPayload, overrun, ShortRead, FullRead,
     ReaderUp
<1>9. CASE sig_handler
  BY <1>9 DEF sig_handler, PathInv, ReaderUp
<1>10. CASE kill
  BY <1>0, <1>10 DEF kill, PathInv, ReaderUp
<1>11. CASE restartReader
  BY <1>11 DEF restartReader, PathInv, ReaderUp
<1>12. QED
  BY <1>1, <1>2, <1>3, <1>4, <1>5, <1>7, <1>8, <1>9, <1>10, <1>11
     DEF Next, Writer, Reader, runHandler

LEMMA PathInvariant == Spec => [](FlagsInv /\ PathInv)
<1>1. FlagsInv /\ PathInv /\ UNCHANGED vars => FlagsInv' /\ PathInv'
  BY DEF FlagsInv, PathInv, ReaderUp, vars, pycan, handler
<1>2. ReadInv /\ FlagsInv /\ PathInv /\ [Next]_vars => FlagsInv' /\ PathInv'
  BY <1>1, FlagsNext, PathNext
<1>3. Spec => []ReadInv
  BY StreamInvariant, PTL
<1>4. QED
  BY <1>2, <1>3, PathInit, PTL DEF Spec

(* Every variable has its type, for any size of pipe and frame.            *)
THEOREM TypeCorrect == Spec => []TypeOK
<1>1. ASSUME DataInv, ReadInv, StreamInv, FlagsInv, PathInv PROVE TypeOK
  <2>0. /\ pipe \in Seq(Byte) /\ got \in Seq(Byte) /\ Len(pipe) \in Nat /\ Len(got) \in Nat
        /\ written \in Seq(Frames) /\ Len(written) \in Nat /\ delivered \in Seq(Nat)
    BY <1>1 DEF DataInv
  <2>1. pipe \in Seq((1 .. Len(written)) \X (1 .. (HeaderBytes + PayloadSize)))
    <3>1. ASSUME NEW i \in 1 .. Len(pipe)
          PROVE  pipe[i] \in (1 .. Len(written)) \X (1 .. (HeaderBytes + PayloadSize))
      <4>1. Len(got) + i \in 1 .. Len(Stream) /\ Stream[Len(got) + i] = pipe[i]
        BY <1>1, <2>0, <3>1, StreamOK
      <4>2. pipe[i][1] <= Len(written)
        BY <1>1, <4>1 DEF StreamInv, FromFrames
      <4>3. pipe[i] \in Byte
        BY <2>0, <3>1
      <4>4. QED
        BY <2>0, <4>2, <4>3 DEF Byte, FrameNumber
    <3>2. QED
      BY <2>0, <3>1
  <2>2. delivered \in Seq(0 .. Len(written))
    <3>1. \A i \in 1 .. Len(delivered) : delivered[i] \in 0 .. Len(written)
      BY <1>1, <2>0 DEF StreamInv, DeliveredFirst
    <3>2. QED
      BY <2>0, <3>1
  <2>3. refused \in Nat
    BY <1>1 DEF PathInv
  <2>4. QED
    BY <1>1, <2>1, <2>2, <2>3 DEF TypeOK, DataInv, ReadInv, FlagsInv, PathInv
<1>2. QED
  BY <1>1, StreamInvariant, PathInvariant, PTL

(* Whichever of the two processes starts first, and however often either   *)
(* starts again: os.mkfifo in create_pipe finds a pipe it did not expect   *)
(* once at most.                                                           *)
THEOREM RefusedTheorem == Spec => []RefusedOnce
<1>1. PathInv => RefusedOnce
  BY DEF PathInv, RefusedOnce
<1>2. QED
  BY <1>1, PathInvariant, PTL


-----------------------------------------------------------------------------
(* Undisturbed, the stream is made of whole frames, each as long as its    *)
(* dlc says, and the length in hand is that of the first.                  *)
Holds(s, b, n, w) ==
  /\ b >= 0 /\ b + w <= Len(s)
  /\ \A k \in 1 .. w : s[b + k] = <<n, k>>

WholeAt(i) ==
  /\ Holds(Stream, i - Stream[i][2], Stream[i][1],
           HeaderBytes + written[Stream[i][1]].data)
  /\ written[Stream[i][1]].data = written[Stream[i][1]].dlc

Whole == \A i \in 1 .. Len(Stream) : WholeAt(i)

LengthKnown == reader = "payload" => sdlc = written[Stream[1][1]].dlc

CalmInv == ~disturbed => Whole /\ LengthKnown

(* How an undisturbed stream comes from one: it has run empty, nothing has *)
(* happened to it, or a frame has come or gone.                            *)
Emptied == Stream' = <<>> /\ reader' # "payload"

SameStream ==
  /\ ~disturbed /\ Stream' = Stream /\ UNCHANGED written
  /\ reader' = "payload" =>
       \/ reader = "payload" /\ UNCHANGED sdlc
       \/ reader = "dlc" /\ Len(pipe) > 0 /\ sdlc' \in ValueOf(Head(pipe))

CalmSend ==
  /\ ~disturbed
  /\ \E frame \in Frames :
       /\ frame.data = frame.dlc
       /\ written' = Append(written, frame)
       /\ Stream' = Stream \o Bytes(Len(written) + 1, frame)
       /\ UNCHANGED <<sdlc, reader>>

CalmDeliver == ~disturbed /\ Delivers /\ reader' # "payload"

(* The first byte of an undisturbed stream begins a frame.                 *)
LEMMA FirstFrame ==
  ASSUME DataInv, StreamInv, Whole, Len(Stream) > 0
  PROVE  /\ Stream[1][1] \in 1 .. Len(written) /\ written[Stream[1][1]] \in Frame
         /\ Stream[1][2] = 1
         /\ HeaderBytes + written[Stream[1][1]].data <= Len(Stream)
         /\ \A k \in 1 .. HeaderBytes + written[Stream[1][1]].data :
              Stream[k] = <<Stream[1][1], k>>
         /\ written[Stream[1][1]].data = written[Stream[1][1]].dlc
<1> DEFINE n == Stream[1][1]
           b == 1 - Stream[1][2]
<1>1. 1 \in 1 .. Len(Stream) /\ Stream[1] \in Byte /\ Len(written) \in Nat
  BY StreamOK DEF DataInv
<1>2. n \in 1 .. Len(written) /\ Stream[1][2] \in Nat \ {0}
  <2>1. n <= Len(written)
    BY <1>1 DEF StreamInv, FromFrames
  <2>2. QED
    BY <1>1, <2>1, Sizes DEF Byte, FrameNumber
<1>3. written[n] \in Frame
  BY <1>2, Sizes DEF DataInv
<1>4. WholeAt(1)
  BY <1>1 DEF Whole
<1>5. Stream[1][2] = 1 /\ b = 0
  BY <1>2, <1>4 DEF WholeAt, Holds
<1>6. /\ b + HeaderBytes + written[n].data <= Len(Stream)
      /\ \A k \in 1 .. HeaderBytes + written[n].data : Stream[b + k] = <<n, k>>
      /\ written[n].data = written[n].dlc
  <2>1. /\ Holds(Stream, b, n, HeaderBytes + written[n].data)
        /\ written[n].data = written[n].dlc
    BY <1>4 DEF WholeAt
  <2>2. HeaderBytes \in Nat /\ written[n].data \in Nat /\ b \in Int
    BY <1>3, <1>5, Sizes DEF Frame
  <2>3. b + (HeaderBytes + written[n].data) = b + HeaderBytes + written[n].data
    BY <2>2
  <2>4. QED
    BY <2>1, <2>3, Zenon DEF Holds
<1>7. HeaderBytes \in Nat /\ written[n].data \in Nat
  BY <1>3, Sizes DEF Frame
<1>8. QED
  BY <1>2, <1>3, <1>5, <1>6, <1>7

LEMMA CalmStep ==
  DataInv /\ ReadInv /\ StreamInv /\ CalmInv /\ Next /\ ~disturbed'
    => Emptied \/ SameStream \/ CalmSend \/ CalmDeliver
<1> SUFFICES ASSUME DataInv, ReadInv, StreamInv, CalmInv, Next, ~disturbed'
             PROVE  Emptied \/ SameStream \/ CalmSend \/ CalmDeliver
  OBVIOUS
<1> USE DEF pycan, handler
<1>0. /\ pipe \in Seq(Byte) /\ got \in Seq(Byte) /\ written \in Seq(Frames)
      /\ sdlc \in Nat /\ Len(pipe) \in Nat /\ Len(got) \in Nat
  BY DEF DataInv
<1>1. ASSUME pipe' = <<>>, got' = <<>>, reader' # "payload" PROVE Emptied
  BY <1>1 DEF Emptied, Stream
<1>2. ASSUME ~disturbed, UNCHANGED <<pipe, got, written, sdlc>>,
             reader' # "payload" \/ UNCHANGED reader
      PROVE  SameStream
  BY <1>2 DEF SameStream, Stream
<1>3. CASE setup_bus \/ mkfifo \/ create_pipe \/ interruptStart \/ restartWriter
           \/ createFWInstance \/ initialize
  BY <1>2, <1>3 DEF setup_bus, mkfifo, create_pipe, interruptStart, restartWriter,
     createFWInstance, initialize, StartStep
<1>4. CASE pollReady \/ sig_handler \/ restartReader
  BY <1>2, <1>4 DEF pollReady, sig_handler, restartReader
<1>5. CASE pollTimeout
  <2>1. got = <<>> /\ UNCHANGED <<pipe, got, written, sdlc>> /\ reader' = "loop"
        /\ (disturbed => pipe = <<>>)
    BY <1>5 DEF pollTimeout, ReadInv
  <2>2. QED
    BY <1>1, <1>2, <2>1
<1>6. ASSUME NEW frame \in Frames, send_message_on_pipe(frame) PROVE CalmSend
  <2>1. ~disturbed /\ frame.data = frame.dlc /\ UNCHANGED <<got, sdlc, reader>>
        /\ written' = Append(written, frame)
        /\ pipe' = pipe \o Bytes(Len(written) + 1, frame)
    BY <1>6 DEF send_message_on_pipe
  <2>2. Bytes(Len(written) + 1, frame) \in Seq(Byte)
    <3>1. Len(written) + 1 \in FrameNumber /\ frame \in Frame
      BY <1>0, Sizes DEF FrameNumber
    <3>2. QED
      BY <3>1, BytesOfFrame
  <2>3. Stream' = Stream \o Bytes(Len(written) + 1, frame)
    <3> DEFINE bytes == Bytes(Len(written) + 1, frame)
    <3> HIDE DEF bytes
    <3>1. \A s, t, u \in Seq(Byte) : (s \o t) \o u = s \o (t \o u)
      BY ConcatAssociative
    <3>2. (got \o pipe) \o bytes = got \o (pipe \o bytes)
      BY <1>0, <2>2, <3>1 DEF bytes
    <3>3. QED
      BY <2>1, <3>2 DEF Stream, bytes
  <2>4. QED
    BY <2>1, <2>3 DEF CalmSend
<1>7. CASE closePipe
  <2>1. UNCHANGED <<got, written, sdlc, reader>> /\ pipe' = IF ReaderUp THEN pipe ELSE <<>>
    BY <1>7 DEF closePipe
  <2>2. CASE ReaderUp
    <3>1. ~disturbed
      BY <1>7, <2>2, Zenon DEF closePipe
    <3>2. QED
      BY <1>2, <2>1, <2>2, <3>1
  <2>3. CASE ~ReaderUp
    <3>1. got = <<>> /\ reader # "payload"
      BY <2>3 DEF ReadInv, ReaderUp
    <3>2. QED
      BY <1>1, <2>1, <2>3, <3>1
  <2>4. QED
    BY <2>2, <2>3
<1>8. CASE mainLoop
  <2>1. got = <<>> /\ pipe' \in {pipe, <<>>} /\ UNCHANGED <<got, written, sdlc>> /\ ~disturbed
        /\ reader' # "payload"
    BY <1>8 DEF mainLoop, ReadInv
  <2>2. QED
    BY <1>1, <1>2, <2>1
<1>9. ASSUME NEW n \in Nat, ShortRead(n) PROVE Emptied
  BY <1>1, <1>9 DEF ShortRead, Consume
<1>10. ASSUME NEW n \in Nat, NEW next, FullRead(n, next) PROVE ~disturbed /\ Stream' = Stream
  BY <1>10, Moved DEF FullRead
<1>11. CASE readTimestamp \/ readIdx
  <2>1. TsBytes \in Nat /\ IdBytes \in Nat /\ UNCHANGED written
    BY <1>11, Sizes DEF readTimestamp, readIdx
  <2>2. CASE readTimestamp
    <3>1. CASE ShortRead(TsBytes)
      BY <1>9, <2>1, <3>1
    <3>2. CASE FullRead(TsBytes, "idx")
      BY <1>10, <2>1, <3>2 DEF SameStream, FullRead
    <3>3. QED
      BY <2>2, <3>1, <3>2 DEF readTimestamp
  <2>3. CASE readIdx
    <3>1. CASE ShortRead(IdBytes)
      BY <1>9, <2>1, <3>1
    <3>2. CASE FullRead(IdBytes, "dlc")
      BY <1>10, <2>1, <3>2 DEF SameStream, FullRead
    <3>3. QED
      BY <2>3, <3>1, <3>2 DEF readIdx
  <2>4. QED
    BY <1>11, <2>2, <2>3
<1>12. CASE readDlc
  <2>1. CASE ShortRead(1)
    BY <1>9, <2>1
  <2>2. CASE FullRead(1, "payload")
    <3>1. reader = "dlc" /\ Enough(1) /\ UNCHANGED written /\ sdlc' \in ValueOf(Head(pipe))
      BY <1>12, <2>2 DEF readDlc, FullRead
    <3>2. QED
      BY <1>0, <1>10, <2>2, <3>1 DEF SameStream, Enough
  <2>3. QED
    BY <1>12, <2>1, <2>2 DEF readDlc
<1>13. CASE readPayload
  <2>1. got' = <<>> /\ reader' = "loop" /\ Consume(sdlc)
    BY <1>13 DEF readPayload
  <2>2. CASE ~Enough(sdlc)
    BY <1>1, <2>1, <2>2 DEF Consume
  <2>3. CASE Enough(sdlc)
    <3>1. delivered' # delivered /\ ~disturbed
      BY <1>13, <2>3 DEF readPayload, DataInv
    <3>2. Delivers
      BY <3>1, StreamStep DEF Keeps, Sends
    <3>3. QED
      BY <2>1, <3>1, <3>2 DEF CalmDeliver
  <2>4. QED
    BY <2>2, <2>3
<1>14. CASE overrun
  <2>1. ~disturbed /\ reader = "payload" /\ sdlc > PayloadSize
    BY <1>14 DEF overrun
  <2>2. Whole /\ sdlc = written[Stream[1][1]].dlc
    BY <2>1 DEF CalmInv, LengthKnown
  <2>3. Len(Stream) > 0
    BY <1>0, <2>1, StreamOK, Sizes DEF ReadInv
  <2>4. written[Stream[1][1]] \in Frame
    BY <2>2, <2>3, FirstFrame
  <2>5. sdlc \in 0 .. PayloadSize
    BY <2>2, <2>4 DEF Frame
  <2>6. QED
    BY <2>1, <2>5, Sizes
<1>15. CASE kill
  <2>1. /\ got' = <<>> /\ reader' = "down" /\ UNCHANGED <<written, sdlc>>
        /\ pipe' = IF pipeout = "open" THEN pipe ELSE <<>>
        /\ pipeout = "open" => ~disturbed /\ got = <<>>
    BY <1>15 DEF kill
  <2>2. QED
    BY <1>1, <1>2, <2>1
<1>16. QED
  BY <1>3, <1>4, <1>5, <1>6, <1>7, <1>8, <1>11, <1>12, <1>13, <1>14, <1>15
     DEF Next, Writer, Reader, runHandler


LEMMA HoldsLonger ==
  ASSUME NEW s, NEW t, Len(s) \in Nat, Len(t) \in Nat, Len(s) <= Len(t),
         \A i \in 1 .. Len(s) : t[i] = s[i],
         NEW b \in Int, NEW n, NEW w \in Nat, Holds(s, b, n, w)
  PROVE  Holds(t, b, n, w)
<1>1. \A k \in 1 .. w : b + k \in 1 .. Len(s)
  BY DEF Holds
<1>2. \A k \in 1 .. w : t[b + k] = <<n, k>>
  BY <1>1 DEF Holds
<1>3. b >= 0 /\ b + w <= Len(t)
  BY DEF Holds
<1>4. QED
  BY <1>2, <1>3 DEF Holds

LEMMA HoldsShorter ==
  ASSUME NEW s, NEW t, NEW m \in Nat, Len(s) \in Nat, Len(t) = Len(s) - m,
         \A i \in 1 .. Len(t) : t[i] = s[i + m],
         NEW b \in Int, NEW n, NEW w \in Nat, Holds(s, b, n, w), b >= m
  PROVE  Holds(t, b - m, n, w)
<1>1. \A k \in 1 .. w : b - m + k \in 1 .. Len(t) /\ b - m + k + m = b + k
  BY DEF Holds
<1>2. \A k \in 1 .. w : t[b - m + k] = <<n, k>>
  BY <1>1 DEF Holds
<1>3. QED
  BY <1>2 DEF Holds

(* A byte of the stream and the frame it is of.                            *)
LEMMA ByteOfFrame ==
  ASSUME DataInv, StreamInv, NEW i \in 1 .. Len(Stream)
  PROVE  /\ Stream[i][1] \in 1 .. Len(written) /\ Stream[i][2] \in Nat
         /\ written[Stream[i][1]] \in Frame
         /\ HeaderBytes + written[Stream[i][1]].data \in Nat \ {0}
         /\ Stream[i][2] <= HeaderBytes + written[Stream[i][1]].data
         /\ i \in Nat /\ Len(Stream) \in Nat
<1>1. /\ Stream[i][1] <= Len(written)
      /\ Stream[i][2] <= HeaderBytes + written[Stream[i][1]].data
  BY DEF StreamInv, FromFrames
<1>2. Stream[i] \in Byte /\ Len(Stream) \in Nat /\ Len(written) \in Nat
  BY StreamOK DEF DataInv
<1>3. Stream[i][1] \in Nat \ {0} /\ Stream[i][2] \in Nat
  BY <1>2 DEF Byte, FrameNumber
<1>4. Stream[i][1] \in 1 .. Len(written)
  BY <1>1, <1>2, <1>3
<1>5. written[Stream[i][1]] \in Frame
  BY <1>4, Sizes DEF DataInv
<1>6. HeaderBytes + written[Stream[i][1]].data \in Nat \ {0}
  BY <1>5, Sizes DEF Frame
<1>7. QED
  BY <1>1, <1>2, <1>3, <1>4, <1>5, <1>6

LEMMA CalmSent ==
  ASSUME DataInv, StreamInv, Whole, LengthKnown, ReadInv, CalmSend
  PROVE  Whole' /\ LengthKnown'
<1>1. PICK frame \in Frames :
        /\ frame.data = frame.dlc
        /\ written' = Append(written, frame)
        /\ Stream' = Stream \o Bytes(Len(written) + 1, frame)
        /\ UNCHANGED <<sdlc, reader>>
  BY DEF CalmSend
<1>2. /\ Len(written') = Len(written) + 1
      /\ written'[Len(written) + 1] = frame
      /\ \A n \in 1 .. Len(written) : written'[n] = written[n]
      /\ frame.data \in Nat /\ Len(Stream) \in Nat
      /\ Len(Stream') = Len(Stream) + HeaderBytes + frame.data
      /\ \A i \in 1 .. Len(Stream') :
            Stream'[i] = IF i <= Len(Stream) THEN Stream[i]
                         ELSE <<Len(written) + 1, i - Len(Stream)>>
  BY <1>1, Sent
<1>a. HeaderBytes \in Nat /\ Len(written) \in Nat
  BY Sizes DEF DataInv
<1>b. /\ Len(Stream') \in Nat /\ Len(Stream) <= Len(Stream')
      /\ \A i \in 1 .. Len(Stream) : Stream'[i] = Stream[i]
  BY <1>2, <1>a
<1>3. ASSUME NEW i \in 1 .. Len(Stream) PROVE WholeAt(i)'
  <2>1. WholeAt(i)
    BY DEF Whole
  <2>2. /\ Stream'[i] = Stream[i]
        /\ written'[Stream[i][1]] = written[Stream[i][1]]
        /\ i - Stream[i][2] \in Int
        /\ HeaderBytes + written[Stream[i][1]].data \in Nat
    BY <1>2, <1>b, ByteOfFrame
  <2>3. Holds(Stream', i - Stream[i][2], Stream[i][1],
              HeaderBytes + written[Stream[i][1]].data)
    BY <1>2, <1>b, <2>1, <2>2, HoldsLonger DEF WholeAt
  <2>4. QED
    BY <2>1, <2>2, <2>3 DEF WholeAt
<1>4. ASSUME NEW i \in Len(Stream) + 1 .. Len(Stream') PROVE WholeAt(i)'
  <2>1. /\ i \in 1 .. Len(Stream') /\ ~(i <= Len(Stream))
        /\ i - (i - Len(Stream)) = Len(Stream)
    BY <1>2, <1>b
  <2>2. /\ Stream'[i][1] = Len(written) + 1 /\ Stream'[i][2] = i - Len(Stream)
        /\ written'[Len(written) + 1] = frame
    BY <1>2, <2>1
  <2>3. \A k \in 1 .. HeaderBytes + frame.data :
          Stream'[Len(Stream) + k] = <<Len(written) + 1, k>>
    <3>1. \A k \in 1 .. HeaderBytes + frame.data :
            /\ Len(Stream) + k \in 1 .. Len(Stream')
            /\ ~(Len(Stream) + k <= Len(Stream))
            /\ Len(Stream) + k - Len(Stream) = k
      BY <1>2, <1>a
    <3>2. QED
      BY <1>2, <3>1
  <2>4. Holds(Stream', Len(Stream), Len(written) + 1, HeaderBytes + frame.data)
    BY <1>2, <1>a, <2>3 DEF Holds
  <2>5. QED
    BY <1>1, <2>1, <2>2, <2>4 DEF WholeAt
<1>5. Whole'
  <2>1. \A i \in 1 .. Len(Stream') : i \in 1 .. Len(Stream) \/ i \in Len(Stream) + 1 .. Len(Stream')
    BY <1>2, <1>b
  <2>2. QED
    BY <1>3, <1>4, <2>1 DEF Whole
<1>6. LengthKnown'
  <2> SUFFICES ASSUME reader = "payload" PROVE sdlc = written'[Stream'[1][1]].dlc
    BY <1>1 DEF LengthKnown
  <2>1. Len(Stream) > 0
    BY StreamOK, Sizes DEF ReadInv, DataInv
  <2>2. Stream[1][1] \in 1 .. Len(written) /\ Stream'[1] = Stream[1]
    BY <1>2, <1>b, <2>1, FirstFrame
  <2>3. QED
    BY <1>2, <2>2 DEF LengthKnown
<1>7. QED
  BY <1>5, <1>6

LEMMA CalmDelivered ==
  ASSUME DataInv, StreamInv, Whole, LengthKnown, CalmDeliver
  PROVE  Whole' /\ LengthKnown'
<1> DEFINE m == HeaderBytes + sdlc
<1>1. /\ reader = "payload" /\ reader' # "payload" /\ UNCHANGED written /\ Drops(m)
      /\ sdlc \in Nat /\ HeaderBytes \in Nat \ {0}
  BY Sizes DEF CalmDeliver, Delivers, DataInv
<1>2. m \in 1 .. Len(Stream) /\ Len(Stream) \in Nat
  BY <1>1, Dropped
<1> DEFINE f == Stream[1][1]
<1>3. /\ f \in 1 .. Len(written)
      /\ m = HeaderBytes + written[f].data
      /\ \A k \in 1 .. m : Stream[k] = <<f, k>>
  BY <1>1, <1>2, FirstFrame DEF LengthKnown
<1> HIDE DEF m
<1>4. /\ Len(Stream') = Len(Stream) - m
      /\ \A i \in 1 .. Len(Stream') :
           i + m \in 1 .. Len(Stream) /\ Stream'[i] = Stream[i + m]
  BY <1>1, Dropped
<1>5. ASSUME NEW i \in 1 .. Len(Stream') PROVE WholeAt(i)'
  <2>1. i + m \in 1 .. Len(Stream) /\ Stream'[i] = Stream[i + m]
    BY <1>4
  <2> DEFINE n == Stream[i + m][1]
             c == Stream[i + m][2]
             w == HeaderBytes + written[n].data
  <2>2. c \in Nat /\ w \in Nat \ {0} /\ c <= w /\ i \in Int
    BY <2>1, ByteOfFrame
  <2>3. WholeAt(i + m)
    BY <2>1 DEF Whole
  <2>4. Holds(Stream, (i + m) - c, n, w) /\ written[n].data = written[n].dlc
    BY <2>3, Zenon DEF WholeAt
  <2>a. n = f => w = m
    BY <1>3
  <2>b. n = Stream[i + m][1] /\ c = Stream[i + m][2] /\ w = HeaderBytes + written[n].data
    OBVIOUS
  <2> HIDE DEF n, c, w
  <2>5. (i + m) - c >= m
    <3> SUFFICES ASSUME (i + m) - c < m PROVE FALSE
      BY <1>2, <2>2
    <3>1. (i + m) - c + 1 \in 1 .. m /\ 1 \in 1 .. w
      BY <1>2, <2>2, <2>4 DEF Holds
    <3>2. /\ Stream[(i + m) - c + 1] = <<f, (i + m) - c + 1>>
          /\ Stream[(i + m) - c + 1] = <<n, 1>>
      BY <1>3, <2>4, <3>1 DEF Holds
    <3>3. n = f /\ (i + m) - c + 1 = 1
      BY <3>2
    <3>4. w = m
      BY <2>a, <3>3
    <3>5. QED
      BY <1>2, <2>2, <3>3, <3>4
  <2>6. PICK b \in Int : b = (i + m) - c
    BY <1>2, <2>2
  <2>7. Holds(Stream', b - m, n, w)
    <3>1. \A j \in 1 .. Len(Stream') : Stream'[j] = Stream[j + m]
      BY <1>4
    <3>2. Len(Stream') = Len(Stream) - m /\ Len(Stream) \in Nat /\ w \in Nat /\ m \in Nat
      BY <1>2, <1>4, <2>2
    <3>3. b >= m /\ Holds(Stream, b, n, w)
      BY <2>4, <2>5, <2>6
    <3>4. QED
      BY <3>1, <3>2, <3>3, HoldsShorter
  <2>8. b - m = i - c
    BY <1>2, <2>2, <2>6
  <2>9. /\ Stream'[i][1] = n /\ Stream'[i][2] = c
        /\ HeaderBytes + written'[n].data = w
        /\ written'[n].data = written'[n].dlc
    BY <1>1, <2>1, <2>4, <2>b
  <2>10. QED
    BY <2>7, <2>8, <2>9, Zenon DEF WholeAt
<1>6. QED
  BY <1>1, <1>5 DEF Whole, LengthKnown

LEMMA CalmNext == DataInv /\ ReadInv /\ StreamInv /\ CalmInv /\ Next => CalmInv'
<1> SUFFICES ASSUME DataInv, ReadInv, StreamInv, CalmInv, Next, ~disturbed'
             PROVE  Whole' /\ LengthKnown'
  BY DEF CalmInv
<1>1. CASE Emptied
  BY <1>1 DEF Emptied, Whole, LengthKnown
<1>2. CASE SameStream
  <2>1. Whole /\ LengthKnown /\ Stream' = Stream /\ written' = written
    BY <1>2 DEF SameStream, CalmInv
  <2>2. Whole'
    BY <2>1 DEF Whole, WholeAt
  <2>3. CASE reader = "dlc" /\ Len(pipe) > 0 /\ sdlc' \in ValueOf(Head(pipe))
    <3>1. /\ Len(got) = TsBytes + IdBytes /\ pipe \in Seq(Byte) /\ got \in Seq(Byte)
          /\ HeaderBytes = Len(got) + 1 /\ Head(pipe) = pipe[1]
      <4>1. Len(got) = TsBytes + IdBytes /\ pipe \in Seq(Byte) /\ got \in Seq(Byte)
        BY <2>3 DEF ReadInv, DataInv
      <4>2. HeaderBytes = Len(got) + 1
        BY <4>1, Sizes
      <4>3. Head(pipe) = pipe[1]
        BY <2>3, <4>1
      <4>4. QED
        BY <4>1, <4>2, <4>3
    <3>2. HeaderBytes \in 1 .. Len(Stream) /\ Stream[HeaderBytes] = pipe[1]
      BY <2>3, <3>1, StreamOK
    <3>3. Stream[HeaderBytes] = <<Stream[1][1], HeaderBytes>>
      <4>1. Len(Stream) > 0
        BY <3>2, StreamOK
      <4>2. written[Stream[1][1]].data \in Nat /\ HeaderBytes \in Nat \ {0}
        BY <2>1, <4>1, FirstFrame, Sizes DEF Frame
      <4>3. HeaderBytes \in 1 .. HeaderBytes + written[Stream[1][1]].data
        BY <4>2
      <4>4. QED
        BY <2>1, <4>1, <4>3, FirstFrame
    <3>4. sdlc' = written[Stream[1][1]].dlc
      BY <2>3, <3>1, <3>2, <3>3 DEF ValueOf
    <3>5. QED
      BY <2>1, <2>2, <3>4 DEF LengthKnown
  <2>4. CASE ~(reader = "dlc" /\ Len(pipe) > 0 /\ sdlc' \in ValueOf(Head(pipe)))
    BY <1>2, <2>1, <2>2, <2>4 DEF SameStream, LengthKnown
  <2>5. QED
    BY <2>3, <2>4
<1>3. CASE CalmSend
  BY <1>3, CalmSent DEF CalmInv, CalmSend
<1>4. CASE CalmDeliver
  BY <1>4, CalmDelivered DEF CalmInv, CalmDeliver
<1>5. QED
  BY <1>1, <1>2, <1>3, <1>4, CalmStep

LEMMA CalmInvariant == Spec => []CalmInv
<1>1. Init => CalmInv
  BY StreamInit, StreamOK DEF Init, CalmInv, Whole, LengthKnown
<1>2. DataInv /\ ReadInv /\ StreamInv /\ CalmInv /\ [Next]_vars => CalmInv'
  <2>1. CalmInv /\ UNCHANGED vars => CalmInv'
    <3>1. UNCHANGED vars => UNCHANGED <<Stream, written, reader, sdlc, disturbed>>
      BY DEF Stream, vars, pycan, handler
    <3>2. QED
      BY <3>1 DEF CalmInv, Whole, WholeAt, LengthKnown
  <2>2. QED
    BY <2>1, CalmNext
<1>3. QED
  BY <1>1, <1>2, StreamInvariant, PTL DEF Spec

(* A reader between two frames that nothing has disturbed - no remote      *)
(* frame with a length, no reader killed inside a frame - stands at the    *)
(* first byte of one.                                                      *)
THEOREM AlignedTheorem == Spec => []Aligned
<1>1. ASSUME DataInv, ReadInv, StreamInv, CalmInv PROVE Aligned
  <2> SUFFICES ASSUME reader \in {"loop", "poll"}, ~disturbed, pipe # <<>>
               PROVE  Head(pipe)[2] = 1
    BY DEF Aligned
  <2>1. got = <<>> /\ pipe \in Seq(Byte) /\ Len(got) = 0 /\ Len(pipe) \in Nat \ {0}
    BY <1>1 DEF ReadInv, DataInv
  <2>2. Len(Stream) > 0 /\ Stream[1] = pipe[1]
    BY <1>1, <2>1, StreamOK
  <2>3. Stream[1][2] = 1
    BY <1>1, <2>2, FirstFrame DEF CalmInv
  <2>4. QED
    BY <2>1, <2>2, <2>3
<1>2. QED
  BY <1>1, CalmInvariant, StreamInvariant, PTL

-----------------------------------------------------------------------------
(* The stream goes on from one frame to the next, and ends with the last   *)
(* one that has been written.                                              *)
GoesOn(s) ==
  \A i \in 1 .. Len(s) :
    i > 1 => \/ s[i][1] = s[i - 1][1] /\ s[i][2] # 1
             \/ s[i][1] = s[i - 1][1] + 1 /\ s[i][2] = 1

Contiguous ==
  /\ GoesOn(Stream)
  /\ Len(Stream) > 0 => Stream[Len(Stream)][1] = Len(written)

LEMMA ContiguousNext ==
  DataInv /\ ReadInv /\ Contiguous /\ Next => Contiguous'
<1> SUFFICES ASSUME DataInv, ReadInv, Contiguous, Next PROVE Contiguous'
  OBVIOUS
<1>1. ASSUME NEW m, Drops(m), UNCHANGED written PROVE Contiguous'
  <2>1. /\ m \in 0 .. Len(Stream) /\ Len(Stream) \in Nat /\ Len(Stream') = Len(Stream) - m
        /\ \A i \in 1 .. Len(Stream') : Stream'[i] = Stream[i + m]
    BY <1>1, Dropped
  <2>2. ASSUME NEW i \in 1 .. Len(Stream'), i > 1
        PROVE  \/ Stream'[i][1] = Stream'[i - 1][1] /\ Stream'[i][2] # 1
               \/ Stream'[i][1] = Stream'[i - 1][1] + 1 /\ Stream'[i][2] = 1
    <3>1. i + m \in 1 .. Len(Stream) /\ i + m > 1 /\ i - 1 \in 1 .. Len(Stream')
          /\ (i - 1) + m = (i + m) - 1
      BY <2>1, <2>2
    <3>2. Stream'[i] = Stream[i + m] /\ Stream'[i - 1] = Stream[(i + m) - 1]
      BY <2>1, <3>1
    <3>3. QED
      BY <3>1, <3>2 DEF Contiguous, GoesOn
  <2>3. ASSUME Len(Stream') > 0 PROVE Stream'[Len(Stream')][1] = Len(written')
    <3>1. Len(Stream') \in 1 .. Len(Stream') /\ Len(Stream') + m = Len(Stream)
          /\ Len(Stream) > 0
      BY <2>1, <2>3
    <3>2. QED
      BY <1>1, <2>1, <3>1 DEF Contiguous
  <2>4. QED
    BY <2>2, <2>3 DEF Contiguous, GoesOn
<1>2. CASE Sends
  <2>1. PICK frame \in Frames :
          /\ written' = Append(written, frame)
          /\ Stream' = Stream \o Bytes(Len(written) + 1, frame)
    BY <1>2 DEF Sends
  <2>2. /\ Len(written') = Len(written) + 1 /\ Len(written) \in Nat
        /\ frame.data \in Nat /\ Len(Stream) \in Nat /\ HeaderBytes \in Nat \ {0}
        /\ Len(Stream') = Len(Stream) + HeaderBytes + frame.data
        /\ \A i \in 1 .. Len(Stream') :
             Stream'[i] = IF i <= Len(Stream) THEN Stream[i]
                          ELSE <<Len(written) + 1, i - Len(Stream)>>
    <3>1. Len(written) \in Nat /\ HeaderBytes \in Nat \ {0}
      BY Sizes DEF DataInv
    <3>2. QED
      BY <2>1, <3>1, Sent
  <2>3. ASSUME NEW i \in 1 .. Len(Stream'), i > 1
        PROVE  \/ Stream'[i][1] = Stream'[i - 1][1] /\ Stream'[i][2] # 1
               \/ Stream'[i][1] = Stream'[i - 1][1] + 1 /\ Stream'[i][2] = 1
    <3>1. i \in Nat /\ i - 1 \in 1 .. Len(Stream')
      BY <2>2, <2>3
    <3>2. CASE i <= Len(Stream)
      <4>1. Stream'[i] = Stream[i] /\ Stream'[i - 1] = Stream[i - 1] /\ i \in 1 .. Len(Stream)
        BY <2>2, <3>1, <3>2
      <4>2. QED
        BY <2>3, <4>1 DEF Contiguous, GoesOn
    <3>3. CASE i = Len(Stream) + 1
      <4>1. Stream'[i] = <<Len(written) + 1, 1>> /\ Stream'[i - 1] = Stream[Len(Stream)]
            /\ Len(Stream) > 0
        BY <2>2, <2>3, <3>1, <3>3
      <4>2. QED
        BY <4>1 DEF Contiguous
    <3>4. CASE i > Len(Stream) + 1
      <4>1. Stream'[i] = <<Len(written) + 1, i - Len(Stream)>> /\ i - Len(Stream) # 1
            /\ Stream'[i - 1] = <<Len(written) + 1, (i - 1) - Len(Stream)>>
        BY <2>2, <3>1, <3>4
      <4>2. QED
        BY <4>1
    <3>5. QED
      BY <2>2, <3>1, <3>2, <3>3, <3>4
  <2>4. Stream'[Len(Stream')][1] = Len(written')
    <3>1. Len(Stream') \in 1 .. Len(Stream') /\ ~(Len(Stream') <= Len(Stream))
      BY <2>2
    <3>2. QED
      BY <2>2, <3>1
  <2>5. QED
    BY <2>3, <2>4 DEF Contiguous, GoesOn
<1>3. QED
  BY <1>1, <1>2, StreamStep DEF Keeps, Delivers

LEMMA ContiguousInvariant == Spec => []Contiguous
<1>1. Init => Contiguous
  BY StreamInit, StreamOK DEF Init, Contiguous, GoesOn
<1>2. Contiguous /\ UNCHANGED vars => Contiguous'
  <2>1. UNCHANGED vars => UNCHANGED <<Stream, written>>
    BY DEF Stream, vars, pycan, handler
  <2>2. QED
    BY <2>1 DEF Contiguous, GoesOn
<1>3. QED
  BY <1>1, <1>2, ContiguousNext, StreamInvariant, PTL DEF Spec

(* The numbers from a to b, and what FrameNumbers makes of such a stream.  *)
Numbers(a, b) == [k \in 1 .. (b - a + 1) |-> a + k - 1]

LEMMA NumbersAppended ==
  ASSUME NEW a \in Nat, NEW b \in Nat, a <= b + 1
  PROVE  /\ Numbers(a, b) \in Seq(Nat)
         /\ Numbers(a, b + 1) = Append(Numbers(a, b), b + 1)
<1>1. Numbers(a, b) \in [1 .. (b - a + 1) -> Nat] /\ b - a + 1 \in Nat
  BY DEF Numbers
<1>2. Numbers(a, b) \in Seq(Nat) /\ Len(Numbers(a, b)) = b - a + 1
  BY <1>1
<1> DEFINE t == Append(Numbers(a, b), b + 1)
<1>3. /\ t \in Seq(Nat) /\ Len(t) = b - a + 2
      /\ \A k \in 1 .. (b - a + 1) : t[k] = a + k - 1
      /\ t[b - a + 2] = b + 1
  <2>1. Append(Numbers(a, b), b + 1) = [k \in 1 .. (b - a + 2) |-> 
          IF k = b - a + 2 THEN b + 1 ELSE Numbers(a, b)[k]]
    BY <1>1, <1>2
  <2>2. QED
    BY <1>1, <1>2, AppendProperties DEF Numbers
<1> HIDE DEF t
<1>4. DOMAIN t = 1 .. ((b + 1) - a + 1) /\ t = [k \in 1 .. Len(t) |-> t[k]]
  BY <1>3
<1>5. \A k \in 1 .. ((b + 1) - a + 1) : t[k] = a + k - 1
  BY <1>3
<1>6. t = Numbers(a, b + 1)
  BY <1>3, <1>4, <1>5 DEF Numbers
<1>7. QED
  BY <1>2, <1>6 DEF t

LEMMA FramesAreNumbers ==
  ASSUME NEW s \in Seq(Byte), GoesOn(s), Len(s) > 0 => s[1][2] = 1,
         \A i \in 1 .. Len(s) : s[1][1] <= s[i][1]
  PROVE  FrameNumbers(s) = IF Len(s) = 0 THEN <<>> ELSE Numbers(s[1][1], s[Len(s)][1])
<1> DEFINE n == Len(s)
           Step(u, k) == IF k = 0 THEN <<>>
                         ELSE IF s[k][2] = 1 THEN Append(u[k - 1], s[k][1])
                         ELSE u[k - 1]
           g == [k \in 0 .. n |-> IF k = 0 THEN <<>> ELSE Numbers(s[1][1], s[k][1])]
           upTo == CHOOSE u : u = [k \in 0 .. n |-> Step(u, k)]
<1>1. n \in Nat /\ \A i \in 1 .. n : s[i][1] \in Nat
  BY DEF Byte, FrameNumber
<1>2. /\ g = [k \in 0 .. n |-> g[k]]
      /\ g[0] = <<>> /\ \A k \in 1 .. n : g[k] = Numbers(s[1][1], s[k][1])
  BY <1>1
<1> HIDE DEF g
<1>3. ASSUME NEW k \in 0 .. n PROVE g[k] = Step(g, k)
  <2>1. CASE k = 0
    BY <1>2, <2>1
  <2>2. CASE k = 1
    <3>1. s[1][2] = 1 /\ s[1][1] \in Nat /\ 1 \in 1 .. n
      BY <1>1, <2>2
    <3>2. g[1] = Numbers(s[1][1], s[1][1])
      BY <1>2, <3>1
    <3>3. Numbers(s[1][1], s[1][1]) = <<s[1][1]>>
      <4>1. s[1][1] - s[1][1] + 1 = 1 /\ s[1][1] + 1 - 1 = s[1][1]
        BY <3>1
      <4>2. QED
        BY <4>1 DEF Numbers
    <3>4. Append(<<>>, s[1][1]) = <<s[1][1]>>
      OBVIOUS
    <3>5. Step(g, k) = Append(g[0], s[1][1])
      <4>1. k # 0 /\ k - 1 = 0
        BY <2>2
      <4>2. QED
        BY <2>2, <3>1, <4>1
    <3>6. QED
      BY <1>2, <2>2, <3>2, <3>3, <3>4, <3>5
  <2>3. CASE k > 1
    <3>1. k \in 1 .. n /\ k - 1 \in 1 .. n /\ k - 1 # 0 /\ k # 0
      BY <1>1, <2>3
    <3>2. /\ s[1][1] \in Nat /\ s[k - 1][1] \in Nat /\ s[1][1] <= s[k - 1][1]
          /\ g[k - 1] = Numbers(s[1][1], s[k - 1][1]) /\ g[k] = Numbers(s[1][1], s[k][1])
      <4>1. s[1][1] \in Nat /\ s[k - 1][1] \in Nat
        <5>1. 1 \in 1 .. n
          BY <3>1
        <5>2. QED
          BY <1>1, <3>1, <5>1
      <4>2. s[1][1] <= s[k - 1][1]
        BY <3>1
      <4>3. g[k - 1] = Numbers(s[1][1], s[k - 1][1]) /\ g[k] = Numbers(s[1][1], s[k][1])
        BY <1>2, <3>1
      <4>4. QED
        BY <4>1, <4>2, <4>3
    <3>3. \/ s[k][1] = s[k - 1][1] /\ s[k][2] # 1
          \/ s[k][1] = s[k - 1][1] + 1 /\ s[k][2] = 1
      BY <2>3, <3>1 DEF GoesOn
    <3>4. Numbers(s[1][1], s[k - 1][1] + 1)
            = Append(Numbers(s[1][1], s[k - 1][1]), s[k - 1][1] + 1)
      <4>1. \A a, b \in Nat : a <= b + 1 => Numbers(a, b + 1) = Append(Numbers(a, b), b + 1)
        BY NumbersAppended
      <4>2. s[1][1] <= s[k - 1][1] + 1
        BY <3>2
      <4>3. QED
        BY <3>2, <4>1, <4>2, Zenon
    <3>5. CASE s[k][2] = 1
      <4>1. s[k][1] = s[k - 1][1] + 1
        BY <3>3, <3>5
      <4>2. g[k] = Append(g[k - 1], s[k][1])
        BY <3>2, <3>4, <4>1
      <4>3. QED
        BY <3>1, <3>5, <4>2
    <3>6. CASE s[k][2] # 1
      <4>1. g[k] = g[k - 1]
        BY <3>2, <3>3, <3>6
      <4>2. QED
        BY <3>1, <3>6, <4>1
    <3>7. QED
      BY <3>5, <3>6
  <2>4. QED
    BY <1>1, <2>1, <2>2, <2>3
<1>4. g = [k \in 0 .. n |-> Step(g, k)]
  BY <1>3, <1>2
<1>5. upTo = [k \in 0 .. n |-> Step(upTo, k)]
  BY <1>4
<1>6. FrameNumbers(s) = upTo[n]
  BY DEF FrameNumbers
<1> HIDE DEF upTo
<1>7. \A k \in 0 .. n : upTo[k] = g[k]
  <2> DEFINE I == {k \in 0 .. n : upTo[k] # g[k]}
             R == {ss \in Nat \X Nat : ss[1] < ss[2]}
  <2> SUFFICES ASSUME I # {} PROVE FALSE
    OBVIOUS
  <2>1. IsWellFoundedOn(R, Nat)
    BY NatLessThanWellFounded DEF OpToRel
  <2>2. I \subseteq Nat
    BY <1>1
  <2> HIDE DEF R
  <2>3. PICK x \in I : \A y \in I : ~(<<y, x>> \in R)
    BY <2>1, <2>2, WFMin
  <2>4. x \in 0 .. n /\ upTo[x] # g[x]
    OBVIOUS
  <2>5. upTo[x] = Step(upTo, x) /\ g[x] = Step(g, x)
    BY <1>3, <1>5, <2>4
  <2>6. x # 0
    BY <2>4, <2>5
  <2>7. x - 1 \in 0 .. n /\ <<x - 1, x>> \in R
    BY <1>1, <2>4, <2>6 DEF R
  <2>8. upTo[x - 1] = g[x - 1]
    BY <2>3, <2>7
  <2>9. QED
    BY <2>4, <2>5, <2>8
<1>8. FrameNumbers(s) = g[n]
  BY <1>1, <1>6, <1>7
<1>9. CASE n = 0
  BY <1>8, <1>9, <1>2
<1>10. CASE n # 0
  <2>1. n \in 1 .. n
    BY <1>1, <1>10
  <2>2. g[n] = Numbers(s[1][1], s[n][1])
    BY <1>2, <2>1
  <2>3. QED
    BY <1>8, <1>10, <2>2
<1>11. QED
  BY <1>9, <1>10

-----------------------------------------------------------------------------
(* What is on its way through an undisturbed pipe: all from the first      *)
(* frame of the stream to the last one written.                            *)
LEMMA CalmQueue ==
  DataInv /\ StreamInv /\ Contiguous /\ CalmInv /\ ~disturbed
    => FrameNumbers(Stream) = IF Len(Stream) = 0 THEN <<>>
                              ELSE Numbers(Stream[1][1], Len(written))
<1> SUFFICES ASSUME DataInv, StreamInv, Contiguous, CalmInv, ~disturbed
             PROVE  FrameNumbers(Stream) = IF Len(Stream) = 0 THEN <<>>
                                           ELSE Numbers(Stream[1][1], Len(written))
  OBVIOUS
<1>1. Stream \in Seq(Byte) /\ Len(Stream) \in Nat /\ \A i \in 1 .. Len(Stream) : Stream[i] \in Byte
  BY StreamOK
<1>2. Len(Stream) > 0 => Stream[1][2] = 1
  BY FirstFrame DEF CalmInv
<1>3. ASSUME NEW i \in 1 .. Len(Stream) PROVE Stream[1][1] <= Stream[i][1]
  <2>1. 1 \in 1 .. Len(Stream) /\ i \in Nat
    BY <1>1
  <2>2. Stream[1][1] \in Nat /\ Stream[i][1] \in Nat
    BY <1>1, <2>1 DEF Byte, FrameNumber
  <2>3. CASE i = 1
    BY <2>2, <2>3
  <2>4. CASE i > 1
    <3>1. Before(Stream[1], Stream[i])
      BY <2>1, <2>4 DEF StreamInv, InOrder
    <3>2. QED
      BY <2>2, <3>1 DEF Before
  <2>5. QED
    BY <1>1, <2>1, <2>3, <2>4
<1>4. FrameNumbers(Stream) = IF Len(Stream) = 0 THEN <<>>
                             ELSE Numbers(Stream[1][1], Stream[Len(Stream)][1])
  BY <1>1, <1>2, <1>3, FramesAreNumbers DEF Contiguous
<1>5. QED
  BY <1>1, <1>4 DEF Contiguous

LEMMA CalmQueueNext ==
  (DataInv /\ StreamInv /\ Contiguous /\ CalmInv /\ ~disturbed)'
    => (FrameNumbers(Stream) = IF Len(Stream) = 0 THEN <<>>
                               ELSE Numbers(Stream[1][1], Len(written)))'
BY CalmQueue, PTL

(* A frame goes.                                                           *)
LEMMA ChannelSends ==
  ASSUME DataInv, StreamInv, Contiguous, CalmInv, ~disturbed,
         (DataInv /\ StreamInv /\ Contiguous /\ CalmInv /\ ~disturbed)', Sends
  PROVE  Channel!Send
<1>1. PICK frame \in Frames :
        /\ written' = Append(written, frame)
        /\ Stream' = Stream \o Bytes(Len(written) + 1, frame)
        /\ UNCHANGED delivered
  BY DEF Sends
<1>2. /\ Len(written') = Len(written) + 1 /\ frame.data \in Nat /\ Len(Stream) \in Nat
      /\ Len(Stream') = Len(Stream) + HeaderBytes + frame.data
      /\ \A i \in 1 .. Len(Stream') :
           Stream'[i] = IF i <= Len(Stream) THEN Stream[i]
                        ELSE <<Len(written) + 1, i - Len(Stream)>>
  BY <1>1, Sent
<1>3. Len(written) \in Nat /\ HeaderBytes \in Nat \ {0}
  BY Sizes DEF DataInv
<1>4. 1 \in 1 .. Len(Stream') /\ Len(Stream') # 0
  BY <1>2, <1>3
<1>5. FrameNumbers(Stream') = Numbers(Stream'[1][1], Len(written) + 1)
  <2>1. FrameNumbers(Stream') = IF Len(Stream') = 0 THEN <<>>
                                ELSE Numbers(Stream'[1][1], Len(written'))
    BY CalmQueueNext
  <2>2. QED
    BY <1>2, <1>4, <2>1
<1>6. FrameNumbers(Stream') = Append(FrameNumbers(Stream), Len(written) + 1)
  <2>1. CASE Len(Stream) = 0
    <3>1. Stream'[1][1] = Len(written) + 1 /\ FrameNumbers(Stream) = <<>>
      BY <1>2, <1>4, <2>1, CalmQueue
    <3>2. Numbers(Len(written) + 1, Len(written) + 1) = <<Len(written) + 1>>
      <4> DEFINE n == Len(written) + 1
      <4>1. n - n + 1 = 1 /\ n + 1 - 1 = n
        BY <1>3
      <4> HIDE DEF n
      <4>2. Numbers(n, n) = <<n>>
        BY <4>1 DEF Numbers
      <4>3. QED
        BY <4>2 DEF n
    <3>3. QED
      BY <1>5, <3>1, <3>2
  <2>2. CASE Len(Stream) # 0
    <3>1. 1 \in 1 .. Len(Stream) /\ Stream'[1] = Stream[1]
      BY <1>2, <1>4, <2>2
    <3>2. FrameNumbers(Stream) = Numbers(Stream[1][1], Len(written))
      BY <2>2, CalmQueue
    <3>3. Stream[1][1] \in 1 .. Len(written)
      BY <3>1, ByteOfFrame
    <3>4. PICK a \in Nat : a = Stream[1][1]
      BY <3>3
    <3>5. a <= Len(written) + 1
      BY <1>3, <3>3, <3>4
    <3>6. Numbers(a, Len(written) + 1) = Append(Numbers(a, Len(written)), Len(written) + 1)
      BY <1>3, <3>5, NumbersAppended
    <3>7. QED
      BY <1>5, <3>1, <3>2, <3>4, <3>6
  <2>3. QED
    BY <2>1, <2>2
<1>7. QED
  BY <1>1, <1>2, <1>6 DEF Channel!Send, Stream

LEMMA NumbersTaken ==
  ASSUME NEW a \in Nat, NEW b \in Nat, a <= b
  PROVE  /\ Numbers(a, b) # <<>> /\ Head(Numbers(a, b)) = a
         /\ Tail(Numbers(a, b)) = IF a = b THEN <<>> ELSE Numbers(a + 1, b)
<1> DEFINE s == Numbers(a, b)
<1>1. s \in Seq(Nat) /\ Len(s) = b - a + 1 /\ \A k \in 1 .. (b - a + 1) : s[k] = a + k - 1
  <2>1. Numbers(a, b) \in [1 .. (b - a + 1) -> Nat] /\ b - a + 1 \in Nat
    BY DEF Numbers
  <2>2. QED
    BY <2>1 DEF Numbers
<1> HIDE DEF s
<1>2. s # <<>> /\ Head(s) = a
  <2>1. Len(s) > 0 /\ 1 \in 1 .. (b - a + 1)
    BY <1>1
  <2>2. QED
    BY <1>1, <2>1
<1>3. Tail(s) = [k \in 1 .. (b - a) |-> s[k + 1]]
  <2>1. Len(s) - 1 = b - a /\ Len(s) \in Nat
    BY <1>1
  <2>2. /\ Tail(s) \in Seq(Nat) /\ Len(Tail(s)) = Len(s) - 1
        /\ \A k \in 1 .. (Len(s) - 1) : Tail(s)[k] = s[k + 1]
    BY <1>1, <1>2, HeadTailProperties
  <2> DEFINE t == Tail(s)
  <2> HIDE DEF t
  <2>3. t = [k \in 1 .. Len(t) |-> t[k]] /\ Len(t) = b - a
    <3>1. t \in Seq(Nat) /\ Len(t) = b - a
      BY <2>1, <2>2 DEF t
    <3>2. QED
      BY <3>1
  <2>4. \A k \in 1 .. (b - a) : t[k] = s[k + 1]
    BY <2>1, <2>2 DEF t
  <2>5. QED
    BY <2>3, <2>4 DEF t
<1>4. \A k \in 1 .. (b - a) : s[k + 1] = a + 1 + k - 1
  BY <1>1
<1>5. Tail(s) = [k \in 1 .. (b - a) |-> a + 1 + k - 1]
  BY <1>3, <1>4
<1>6. CASE a = b
  BY <1>2, <1>5, <1>6 DEF s
<1>7. CASE a # b
  <2>1. b - (a + 1) + 1 = b - a
    OBVIOUS
  <2>2. QED
    BY <1>2, <1>5, <1>7, <2>1 DEF s, Numbers
<1>8. QED
  BY <1>6, <1>7

(* The frame that is handed over is the first on its way.                  *)
LEMMA ChannelReceives ==
  ASSUME DataInv, StreamInv, Contiguous, CalmInv, ~disturbed,
         (DataInv /\ StreamInv /\ Contiguous /\ CalmInv /\ ~disturbed)', Delivers
  PROVE  Channel!Receive
<1> DEFINE m == HeaderBytes + sdlc
           f == Stream[1][1]
<1>1. /\ Drops(m) /\ UNCHANGED <<written, sdlc>> /\ sdlc \in Nat /\ HeaderBytes \in Nat \ {0}
      /\ delivered' = Append(delivered, FrameOf(SubSeq(Stream, 1, m), sdlc))
  BY Sizes DEF Delivers, DataInv
<1>2. m \in 1 .. Len(Stream) /\ Len(Stream) \in Nat
  BY <1>1, Dropped
<1>3. /\ f \in 1 .. Len(written) /\ written[f] \in Frame
      /\ sdlc = written[f].dlc /\ m = HeaderBytes + written[f].data
      /\ \A k \in 1 .. m : Stream[k] = <<f, k>>
  BY <1>1, <1>2, FirstFrame, SMTT(30) DEF CalmInv, LengthKnown, Delivers
<1>4. /\ Len(Stream') = Len(Stream) - m /\ Len(Stream') \in Nat
      /\ \A i \in 1 .. Len(Stream') : Stream'[i] = Stream[i + m]
  BY <1>1, <1>2, Dropped
<1> HIDE DEF m, f
<1>5. FrameOf(SubSeq(Stream, 1, m), sdlc) = f
  <2>1. SubSeq(Stream, 1, m) = Bytes(f, written[f])
    <3>1. SubSeq(Stream, 1, m) = [k \in 1 .. m |-> Stream[k]]
      <4>1. Stream \in Seq(Byte)
        BY StreamOK
      <4>2. QED
        BY <1>2, <4>1
    <3>2. SubSeq(Stream, 1, m) = [k \in 1 .. m |-> <<f, k>>]
      BY <1>3, <3>1
    <3>3. QED
      BY <1>3, <3>2 DEF Bytes
  <2>2. Bytes(f, written[f])[1][1] = f
    <3>1. 1 \in 1 .. m
      BY <1>2
    <3>2. QED
      BY <1>3, <3>1 DEF Bytes
  <2>3. QED
    BY <1>3, <2>1, <2>2 DEF FrameOf
<1>6. FrameNumbers(Stream) = Numbers(f, Len(written))
  BY <1>2, CalmQueue DEF f
<1>7. PICK a \in Nat : a = f /\ a <= Len(written) /\ Len(written) \in Nat
  BY <1>3 DEF DataInv
<1>8. FrameNumbers(Stream') = IF a = Len(written) THEN <<>> ELSE Numbers(a + 1, Len(written))
  <2>1. CASE Len(Stream') = 0
    <3>1. Stream[Len(Stream)][1] = Len(written) /\ m = Len(Stream)
      BY <1>2, <1>4, <2>1 DEF Contiguous
    <3>2. f = Len(written)
      BY <1>2, <1>3, <3>1
    <3>3. QED
      BY <1>7, <2>1, <3>2, CalmQueueNext
  <2>2. CASE Len(Stream') # 0
    <3>1. 1 \in 1 .. Len(Stream') /\ m + 1 \in 1 .. Len(Stream) /\ m + 1 > 1
          /\ (m + 1) - 1 = m /\ 1 + m = m + 1 /\ m \in 1 .. m
      BY <1>2, <1>4, <2>2
    <3>2. Stream'[1] = Stream[m + 1] /\ Stream[m] = <<f, m>>
      BY <1>3, <1>4, <3>1
    <3>3. Stream'[1][2] = 1
      <4>1. DataInv' /\ StreamInv' /\ Whole' /\ Len(Stream') > 0
        BY <1>4, <2>2 DEF CalmInv
      <4>2. (DataInv /\ StreamInv /\ Whole /\ Len(Stream) > 0)' => (Stream[1][2] = 1)'
        BY FirstFrame, PTL
      <4>3. QED
        BY <4>1, <4>2
    <3>4. Stream'[1][1] = f + 1
      BY <3>1, <3>2, <3>3 DEF Contiguous, GoesOn
    <3>5. FrameNumbers(Stream') = Numbers(a + 1, Len(written))
      BY <1>1, <1>7, <2>2, <3>4, CalmQueueNext
    <3>6. a # Len(written)
      <4>1. Stream'[1][1] <= Len(written')
        BY <3>1 DEF StreamInv, FromFrames
      <4>2. QED
        BY <1>1, <1>7, <3>4, <4>1
    <3>7. QED
      BY <3>5, <3>6
  <2>3. QED
    BY <2>1, <2>2
<1>9. /\ FrameNumbers(Stream) # <<>> /\ Head(FrameNumbers(Stream)) = f
      /\ FrameNumbers(Stream') = Tail(FrameNumbers(Stream))
  <2>1. \A c, d \in Nat : c <= d =>
          /\ Numbers(c, d) # <<>> /\ Head(Numbers(c, d)) = c
          /\ Tail(Numbers(c, d)) = IF c = d THEN <<>> ELSE Numbers(c + 1, d)
    BY NumbersTaken
  <2>2. FrameNumbers(Stream) = Numbers(a, Len(written))
    BY <1>6, <1>7
  <2>3. QED
    <3>1. PICK b \in Nat : b = Len(written)
      BY <1>7
    <3>2. /\ Numbers(a, b) # <<>> /\ Head(Numbers(a, b)) = a
          /\ Tail(Numbers(a, b)) = IF a = b THEN <<>> ELSE Numbers(a + 1, b)
      BY <1>7, <2>1, <3>1
    <3>3. FrameNumbers(Stream) = Numbers(a, b)
      BY <2>2, <3>1
    <3>4. FrameNumbers(Stream') = IF a = b THEN <<>> ELSE Numbers(a + 1, b)
      BY <1>8, <3>1
    <3>5. a = f
      BY <1>7
    <3>6. QED
      BY <3>2, <3>3, <3>4, <3>5, Zenon
<1>10. QED
  BY <1>1, <1>5, <1>9 DEF Channel!Receive, Stream, m

(* Only a frame that is read in full is handed over, and a read that ends  *)
(* a disturbance is short.                                                 *)
LEMMA RecoveredAlone ==
  ASSUME DataInv, Next, disturbed, ~disturbed'
  PROVE  UNCHANGED delivered
<1>1. CASE readPayload
  BY <1>1 DEF readPayload
<1>2. CASE Writer
  BY <1>2 DEF Writer, setup_bus, mkfifo, create_pipe, closePipe, interruptStart,
     restartWriter, send_message_on_pipe, handler
<1>3. CASE createFWInstance \/ initialize \/ mainLoop \/ pollTimeout \/ pollReady
           \/ readTimestamp \/ readIdx \/ readDlc
  BY <1>3 DEF createFWInstance, initialize, StartStep, mainLoop, pollTimeout, pollReady,
     readTimestamp, readIdx, readDlc
<1>4. CASE overrun \/ sig_handler \/ kill \/ restartReader
  BY <1>4 DEF overrun, sig_handler, kill, restartReader
<1>5. QED
  BY <1>1, <1>2, <1>3, <1>4 DEF Next, Reader, runHandler

ChannelInv == DataInv /\ ReadInv /\ StreamInv /\ Contiguous /\ CalmInv

LEMMA ChannelInvariant == Spec => []ChannelInv
BY StreamInvariant, ContiguousInvariant, CalmInvariant, PTL DEF ChannelInv

(* Every step of the two processes is one of the channel, or none.         *)
LEMMA ChannelNext ==
  ChannelInv /\ ChannelInv' /\ Next => Channel!Next \/ UNCHANGED Channel!vars
<1> SUFFICES ASSUME ChannelInv, ChannelInv', Next
             PROVE  Channel!Next \/ UNCHANGED Channel!vars
  OBVIOUS
<1>1. /\ DataInv /\ ReadInv /\ StreamInv /\ Contiguous /\ CalmInv
      /\ DataInv' /\ StreamInv' /\ Contiguous' /\ CalmInv'
  BY DEF ChannelInv
<1>2. Keeps \/ Sends \/ Delivers
  BY <1>1, StreamStep
<1>3. CASE disturbed'
  <2>1. CASE UNCHANGED <<written, delivered>>
    BY <1>3, <2>1 DEF Channel!Next, Channel!Disturb, Channel!Garble
  <2>2. CASE Sends
    <3>1. Len(written') = Len(written) + 1 /\ UNCHANGED delivered
      BY <1>1, <2>2, Sent DEF Sends
    <3>2. QED
      BY <1>3, <3>1 DEF Channel!Next, Channel!Disturb, Channel!Garble
  <2>3. CASE Delivers
    <3> DEFINE n == FrameOf(SubSeq(Stream, 1, HeaderBytes + sdlc), sdlc)
    <3>1. delivered' = Append(delivered, n) /\ UNCHANGED written
      BY <2>3 DEF Delivers
    <3> HIDE DEF n
    <3>2. Len(delivered') = Len(delivered) + 1 /\ delivered'[Len(delivered) + 1] = n
          /\ Len(delivered) \in Nat
      BY <1>1, <3>1, AppendProperties DEF DataInv
    <3>3. n \in 0 .. Len(written)
      <4>1. Len(delivered) + 1 \in 1 .. Len(delivered')
        BY <3>2
      <4>2. n \in Nat
        BY <1>1, <3>2, <4>1 DEF DataInv
      <4>3. n <= Len(written')
        BY <1>1, <3>2, <4>1 DEF StreamInv, DeliveredFirst
      <4>4. QED
        BY <1>1, <3>1, <4>2, <4>3 DEF DataInv
    <3>4. QED
      BY <1>3, <3>1, <3>3 DEF Channel!Next, Channel!Disturb, Channel!Garble
  <2>4. QED
    BY <1>2, <2>1, <2>2, <2>3 DEF Keeps
<1>4. CASE disturbed /\ ~disturbed'
  <2>1. Stream' = <<>>
    BY <1>1, <1>4, CalmStep DEF Emptied, SameStream, CalmSend, CalmDeliver
  <2>2. UNCHANGED <<written, delivered>>
    <3>1. UNCHANGED delivered
      BY <1>1, <1>4, RecoveredAlone
    <3>2. ~Sends
      BY <1>1, <2>1, Sent, Sizes DEF Sends
    <3>3. ~Delivers
      BY <1>1, <3>1 DEF Delivers, DataInv
    <3>4. QED
      BY <1>2, <3>2, <3>3 DEF Keeps
  <2>3. FrameNumbers(Stream') = <<>>
    <3>1. Len(Stream') = 0
      BY <2>1
    <3>2. QED
      BY <1>1, <1>4, <3>1, CalmQueueNext
  <2>4. Channel!Recover
    BY <1>4, <2>2, <2>3 DEF Channel!Recover, Stream
  <2>5. QED
    BY <2>4 DEF Channel!Next
<1>5. CASE ~disturbed /\ ~disturbed'
  <2>1. (DataInv /\ StreamInv /\ Contiguous /\ CalmInv /\ ~disturbed)'
    BY <1>1, <1>5
  <2>2. CASE Sends
    BY <1>1, <1>5, <2>1, <2>2, ChannelSends DEF Channel!Next
  <2>3. CASE Delivers
    BY <1>1, <1>5, <2>1, <2>3, ChannelReceives DEF Channel!Next
  <2>4. CASE Keeps /\ Emptied
    <3>1. FrameNumbers(Stream') = <<>>
      <4>1. Len(Stream') = 0
        BY <2>4 DEF Emptied
      <4>2. QED
        BY <2>1, <4>1, CalmQueueNext
    <3>2. Channel!Lose
      BY <2>4, <3>1 DEF Channel!Lose, Keeps, Stream
    <3>3. QED
      BY <1>5, <3>2 DEF Channel!Next
  <2>5. CASE Keeps /\ SameStream
    <3>1. UNCHANGED <<Stream, written, delivered>> /\ (~disturbed)' = ~disturbed
      BY <1>5, <2>5 DEF Keeps, SameStream
    <3>2. FrameNumbers(Stream') = FrameNumbers(Stream)
      BY <3>1
    <3>3. QED
      BY <3>1, <3>2 DEF Channel!vars, Stream
  <2>6. CASE Keeps /\ CalmSend
    <3>1. PICK frame \in Frames : written' = Append(written, frame)
      BY <2>6 DEF CalmSend
    <3>2. written' # written
      BY <1>1, <3>1 DEF DataInv
    <3>3. QED
      BY <2>6, <3>2 DEF Keeps
  <2>7. QED
    BY <1>1, <1>2, <1>5, <2>2, <2>3, <2>4, <2>5, <2>6, CalmStep DEF CalmDeliver
<1>6. QED
  BY <1>3, <1>4, <1>5

(* The pipe is a channel of frames: whatever becomes of the two processes, *)
(* frames arrive whole and in order while nothing has disturbed the        *)
(* stream, and again once runHandler has read it empty.                    *)
THEOREM Refinement == Spec => ImplementsChannel
<1>1. Init => Channel!Init
  <2> SUFFICES ASSUME Init PROVE Channel!Init
    OBVIOUS
  <2>1. ChannelInv /\ Len(Stream) = 0 /\ ~disturbed
    BY StreamInit, StreamOK
       DEF Init, ChannelInv, Contiguous, GoesOn, CalmInv, Whole, LengthKnown
  <2>2. FrameNumbers(Stream) = <<>>
    BY <2>1, CalmQueue DEF ChannelInv
  <2>3. QED
    BY <2>1, <2>2 DEF Init, Channel!Init, Stream
<1>2. ChannelInv /\ ChannelInv' /\ [Next]_vars => [Channel!Next]_Channel!vars
  <2>1. UNCHANGED vars => UNCHANGED Channel!vars
    BY DEF vars, pycan, handler, Channel!vars
  <2>2. QED
    BY <2>1, ChannelNext
<1>3. QED
  BY <1>1, <1>2, ChannelInvariant, PTL DEF Spec, ImplementsChannel, Channel!Spec
=============================================================================
