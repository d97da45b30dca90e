------------------------------ MODULE CANPipe ------------------------------
(***************************************************************************)
(* The named pipe between pycan (pycan_rec.py, pycan_com.py), which writes *)
(* each CAN frame with one write, and CANHandler::runHandler, which takes  *)
(* it apart with four reads that do not block.  A byte is the number of    *)
(* its frame and its offset in it.  A write of a frame is shorter than     *)
(* PIPE_BUF, so the kernel puts it in the pipe whole or blocks.  Either of *)
(* the two processes may start first, and makes the pipe if it is not      *)
(* there.                                                                  *)
(***************************************************************************)
EXTENDS Integers, SequencesExt

CONSTANTS
  TsBytes, IdBytes,  (* 6 and 4                                            *)
  PayloadSize,       (* 8: the buffer the payload is read into             *)
  Dlcs,              (* data lengths of frames on the bus                  *)
  RemoteDlcs,        (* data lengths of remote frames, which have no data  *)
  ByteValues,        (* values a byte that is not a dlc may have           *)
  Capacity,          (* bytes the pipe holds                               *)
  MaxFrames,         (* BOUND: frames on the bus                           *)
  MaxKills           (* BOUND: times the firewall is killed                *)

ASSUME PipeAssumption ==
  /\ TsBytes \in Nat \ {0} /\ IdBytes \in Nat \ {0}
  /\ PayloadSize \in 0 .. 255     (* a length is one byte                 *)
  /\ Dlcs \subseteq 0 .. PayloadSize
  /\ RemoteDlcs \subseteq 0 .. PayloadSize
  /\ ByteValues \subseteq 0 .. 255
  /\ Capacity \in Nat /\ Capacity >= TsBytes + IdBytes + 1 + PayloadSize
  /\ MaxFrames \in Nat
  /\ MaxKills \in Nat

VARIABLES
  fifo,        (* the path exists; nobody removes it                       *)
  pipe,        (* bytes in the pipe                                        *)
  pipeout,     (* pycan: the pipe, or what its start is about to do        *)
  can_bus,     (* pycan: the bus could be opened                           *)
  written,     (* frames written: [dlc, data], data the length of the data *)
  reader,      (* CANHandler: where main and runHandler stand              *)
  got,         (* CANHandler: bytes of this frame read so far              *)
  sdlc,        (* CANHandler: the length it has read                       *)
  g_exit,      (* main: SIGINT has been received                           *)
  delivered,   (* frames handed to the callback; 0 for one that is not one *)
  kills,       (* times the firewall has been killed                       *)
  disturbed,   (* GHOST: since the pipe was last read empty a remote frame *)
               (* with a length was written or a reader died on a frame    *)
  refused      (* GHOST: times the pipe was there when pycan made it       *)

pycan   == <<pipeout, can_bus, written, refused>>
handler == <<reader, got, sdlc, g_exit, delivered, kills>>
vars    == <<fifo, pipe, pycan, handler, disturbed>>

-----------------------------------------------------------------------------
HeaderBytes == TsBytes + IdBytes + 1

Bytes(n, frame) == [k \in 1 .. (HeaderBytes + frame.data) |-> <<n, k>>]

(* A data frame has as many bytes as its dlc says, a remote frame none.    *)
Frames == {[dlc |-> d, data |-> d] : d \in Dlcs}
          \cup {[dlc |-> d, data |-> 0] : d \in RemoteDlcs}

Init ==
  /\ fifo \in BOOLEAN
  /\ pipe = <<>>
  /\ pipeout = "start"
  /\ can_bus = FALSE
  /\ written = <<>>
  /\ reader = "createFW"
  /\ got = <<>>
  /\ sdlc = 0
  /\ g_exit = FALSE
  /\ delivered = <<>>
  /\ kills = 0
  /\ disturbed = FALSE
  /\ refused = 0

-----------------------------------------------------------------------------
(* The firewall has the pipe open; the firewall runs.                      *)
ReaderUp == reader \in {"loop", "poll", "timestamp", "idx", "dlc", "payload"}

FirewallUp == ReaderUp \/ reader \in {"createFW", "mkfifo", "open"}

(* The writer: setup_bus, and the look at the path that create_pipe begins *)
(* with.  main goes on to the pipe without a bus, and ends after it.       *)
setup_bus ==
  /\ pipeout = "start"
  /\ can_bus' \in BOOLEAN
  /\ pipeout' = IF fifo THEN "opening" ELSE "mkfifo"
  /\ UNCHANGED <<fifo, pipe, written, refused, handler, disturbed>>

(* The path was not there a moment ago.  os.mkfifo raises when it is now,  *)
(* and nobody catches that.                                                *)
mkfifo ==
  /\ pipeout = "mkfifo"
  /\ fifo' = TRUE
  /\ pipeout' = IF fifo THEN "closed" ELSE "opening"
  /\ refused' = IF fifo THEN refused + 1 ELSE refused
  /\ UNCHANGED <<pipe, can_bus, written, handler, disturbed>>

(* MUTANT of create_pipe: the last frame is written once more.             *)
create_pipeResend ==
  /\ pipeout = "opening"
  /\ ReaderUp
  /\ pipeout' = "open"
  /\ pipe' = IF written = <<>> THEN pipe
             ELSE pipe \o Bytes(Len(written), Last(written))
  /\ UNCHANGED <<fifo, can_bus, written, refused, handler, disturbed>>

(* os.open for writing blocks until the pipe has a reader.                 *)
create_pipe ==
  /\ pipeout = "opening"
  /\ ReaderUp
  /\ pipeout' = "open"
  /\ UNCHANGED <<fifo, pipe, can_bus, written, refused, handler, disturbed>>

(* MUTANT of send_message_on_pipe: the write does not block.               *)
send_message_on_pipeNoBlock(frame) ==
  /\ pipeout = "open" /\ can_bus
  /\ ReaderUp
  /\ Len(written) < MaxFrames
  /\ written' = Append(written, frame)
  /\ pipe' = pipe \o Bytes(Len(written) + 1, frame)
  /\ disturbed' = (disturbed \/ frame.data # frame.dlc)
  /\ UNCHANGED <<fifo, pipeout, can_bus, refused, handler>>

send_message_on_pipe(frame) ==
  /\ pipeout = "open" /\ can_bus
  /\ ReaderUp
  /\ Len(written) < MaxFrames
  /\ Len(pipe) + HeaderBytes + frame.data <= Capacity
  /\ written' = Append(written, frame)
  /\ pipe' = pipe \o Bytes(Len(written) + 1, frame)
  /\ disturbed' = (disturbed \/ frame.data # frame.dlc)
  /\ UNCHANGED <<fifo, pipeout, can_bus, refused, handler>>

(* MUTANT of closePipe: the path is removed, too.                          *)
closePipeRemoves ==
  /\ pipeout = "open"
  /\ pipeout' = "closed"
  /\ fifo' = FALSE
  /\ pipe' = IF ReaderUp THEN pipe ELSE <<>>
  /\ disturbed' = (disturbed /\ ReaderUp)
  /\ UNCHANGED <<can_bus, written, refused, handler>>

(* Ctrl-C, a write without a reader, or no bus; a frame in hand is lost.   *)
(* What is in the pipe is gone when neither end is open.                   *)
closePipe ==
  /\ pipeout = "open"
  /\ pipeout' = "closed"
  /\ pipe' = IF ReaderUp THEN pipe ELSE <<>>
  /\ disturbed' = (disturbed /\ ReaderUp)
  /\ UNCHANGED <<fifo, can_bus, written, refused, handler>>

interruptStart ==
  /\ pipeout \in {"mkfifo", "opening"}
  /\ pipeout' = "closed"
  /\ UNCHANGED <<fifo, pipe, can_bus, written, refused, handler, disturbed>>

(* pycan is started again.                                                 *)
restartWriter ==
  /\ pipeout = "closed"
  /\ pipeout' = "start"
  /\ UNCHANGED <<fifo, pipe, can_bus, written, refused, handler, disturbed>>

-----------------------------------------------------------------------------
(* The start of the firewall: main and CANHandler::initialize.  Whatever   *)
(* fails ends the process.                                                 *)
StartStep(from, to) ==
  /\ reader = from
  /\ reader' \in {to, "down"}
  /\ UNCHANGED <<pipe, pycan, got, sdlc, g_exit, delivered, kills, disturbed>>

(* createFWInstance may wait for the log pipe for as long as it likes.     *)
createFWInstance == StartStep("createFW", "mkfifo") /\ UNCHANGED fifo

(* mkfifo, which does not mind a pipe that is there, and open for reading, *)
(* which does not wait.                                                    *)
initialize ==
  \/ StartStep("mkfifo", "open") /\ fifo' = (fifo \/ reader' = "open")
  \/ StartStep("open", "loop") /\ UNCHANGED fifo

(* MUTANT of mainLoop: the signal is not looked at.                        *)
mainLoopForEver ==
  /\ reader = "loop"
  /\ reader' = "poll"
  /\ UNCHANGED <<fifo, pipe, pycan, got, sdlc, g_exit, delivered, kills,
                 disturbed>>

(* The loop of main; the result of runHandler is not looked at.            *)
mainLoop ==
  /\ reader = "loop"
  /\ reader' = IF g_exit THEN "exited" ELSE "poll"
  /\ pipe' = IF g_exit /\ pipeout # "open" THEN <<>> ELSE pipe
  /\ UNCHANGED <<fifo, pycan, got, sdlc, g_exit, delivered, kills, disturbed>>

(* poll with nothing to read, or interrupted by the signal.  (A closed     *)
(* writer makes poll return at once, and the read that follows finds the   *)
(* end of the file: the same step.)                                        *)
pollTimeout ==
  /\ reader = "poll"
  /\ pipe = <<>> \/ g_exit
  /\ reader' = "loop"
  /\ disturbed' = (disturbed /\ pipe # <<>>)
  /\ UNCHANGED <<fifo, pipe, pycan, got, sdlc, g_exit, delivered, kills>>

(* MUTANT of pollReady: a hang-up hides the bytes that are left.           *)
pollReadyNoHangup ==
  /\ reader = "poll"
  /\ pipe # <<>> /\ pipeout = "open"
  /\ reader' = "timestamp"
  /\ UNCHANGED <<fifo, pipe, pycan, got, sdlc, g_exit, delivered, kills,
                 disturbed>>

pollReady ==
  /\ reader = "poll"
  /\ pipe # <<>>
  /\ reader' = "timestamp"
  /\ UNCHANGED <<fifo, pipe, pycan, got, sdlc, g_exit, delivered, kills,
                 disturbed>>

(* read(fd, buffer, n): what there is, up to n bytes.  Fewer than n end    *)
(* the call of runHandler, and what was read is not kept.                  *)
Enough(n)  == n <= Len(pipe)
Consume(n) == pipe' = IF Enough(n) THEN SubSeq(pipe, n + 1, Len(pipe)) ELSE <<>>

ShortRead(n) ==
  /\ ~Enough(n)
  /\ Consume(n)
  /\ got' = <<>>
  /\ reader' = "loop"
  /\ disturbed' = FALSE

FullRead(n, next) ==
  /\ Enough(n)
  /\ Consume(n)
  /\ got' = got \o SubSeq(pipe, 1, n)
  /\ reader' = next
  /\ UNCHANGED disturbed

readTimestamp ==
  /\ reader = "timestamp"
  /\ ShortRead(TsBytes) \/ FullRead(TsBytes, "idx")
  /\ UNCHANGED <<fifo, pycan, sdlc, g_exit, delivered, kills>>

(* MUTANT of readIdx: one byte too few.                                    *)
readIdxOneLess ==
  /\ reader = "idx"
  /\ ShortRead(IdBytes - 1) \/ FullRead(IdBytes - 1, "dlc")
  /\ UNCHANGED <<fifo, pycan, sdlc, g_exit, delivered, kills>>

readIdx ==
  /\ reader = "idx"
  /\ ShortRead(IdBytes) \/ FullRead(IdBytes, "dlc")
  /\ UNCHANGED <<fifo, pycan, sdlc, g_exit, delivered, kills>>

(* The value of a byte that is not a length is anything.                   *)
ValueOf(byte) ==
  IF byte[2] = HeaderBytes THEN {written[byte[1]].dlc} ELSE ByteValues

readDlc ==
  /\ reader = "dlc"
  /\ ShortRead(1) \/ FullRead(1, "payload")
  /\ IF Enough(1) THEN sdlc' \in ValueOf(Head(pipe)) ELSE UNCHANGED sdlc
  /\ UNCHANGED <<fifo, pycan, g_exit, delivered, kills>>

(* The frame that a sequence of bytes is, with the length read for it, or  *)
(* 0 when it is none.                                                      *)
FrameOf(bytes, dlc) ==
  LET n == bytes[1][1] IN
  IF bytes = Bytes(n, written[n]) /\ dlc = written[n].dlc THEN n ELSE 0

(* MUTANT of readPayload: the callback is made whatever was read.          *)
readPayloadUnchecked ==
  /\ reader = "payload"
  /\ Consume(sdlc)
  /\ got' = <<>>
  /\ reader' = "loop"
  /\ delivered' = Append(delivered, FrameOf(got \o pipe, sdlc))
  /\ UNCHANGED <<fifo, pycan, sdlc, g_exit, kills, disturbed>>

(* The callback, when the payload could be read.                           *)
readPayload ==
  /\ reader = "payload"
  /\ Consume(sdlc)
  /\ got' = <<>>
  /\ reader' = "loop"
  /\ IF Enough(sdlc)
     THEN /\ delivered' = Append(delivered,
                                 FrameOf(got \o SubSeq(pipe, 1, sdlc), sdlc))
          /\ UNCHANGED disturbed
     ELSE disturbed' = FALSE /\ UNCHANGED delivered
  /\ UNCHANGED <<fifo, pycan, sdlc, g_exit, kills>>

(* A length above PayloadSize lets read write past the end of the payload, *)
(* which may end the process.                                              *)
overrun ==
  /\ reader = "payload"
  /\ sdlc > PayloadSize /\ Len(pipe) > PayloadSize
  /\ IF pipeout = "open" THEN Consume(sdlc) ELSE pipe' = <<>>
  /\ got' = <<>>
  /\ reader' = "down"
  /\ UNCHANGED <<fifo, pycan, sdlc, g_exit, delivered, kills, disturbed>>

(* The handler is installed before anything else.                          *)
sig_handler ==
  /\ FirewallUp
  /\ ~g_exit
  /\ g_exit' = TRUE
  /\ UNCHANGED <<fifo, pipe, pycan, reader, got, sdlc, delivered, kills,
                 disturbed>>

(* The firewall is killed (in its start, that is a start that fails); the  *)
(* pipe keeps its bytes while pycan has it open.                           *)
kill ==
  /\ ReaderUp
  /\ kills < MaxKills
  /\ kills' = kills + 1
  /\ reader' = "down"
  /\ pipe' = IF pipeout = "open" THEN pipe ELSE <<>>
  /\ disturbed' = (pipeout = "open" /\ (disturbed \/ got # <<>>))
  /\ got' = <<>>
  /\ UNCHANGED <<fifo, pycan, sdlc, g_exit, delivered>>

restartReader ==
  /\ reader = "down"
  /\ reader' = "createFW"
  /\ g_exit' = FALSE
  /\ UNCHANGED <<fifo, pipe, pycan, got, sdlc, delivered, kills, disturbed>>

-----------------------------------------------------------------------------
Writer ==
  setup_bus \/ mkfifo \/ create_pipe \/ closePipe \/ interruptStart \/ restartWriter
  \/ \E frame \in Frames : send_message_on_pipe(frame)

runHandler ==
  pollTimeout \/ pollReady \/ readTimestamp \/ readIdx \/ readDlc \/ readPayload

Reader == initialize \/ mainLoop \/ runHandler

Next ==
  Writer \/ createFWInstance \/ Reader \/ overrun \/ sig_handler \/ kill \/ restartReader

Spec == Init /\ [][Next]_vars

(* The firewall process is scheduled; createFWInstance may never return.   *)
FairSpec == Spec /\ WF_vars(Reader)

-----------------------------------------------------------------------------
(* Every variable has its type, and the pipe has no more than fits in it.  *)
TypeOK ==
  /\ fifo \in BOOLEAN
  /\ can_bus \in BOOLEAN
  /\ refused \in Nat
  /\ pipe \in Seq((1 .. Len(written)) \X (1 .. (HeaderBytes + PayloadSize)))
  /\ Len(pipe) <= Capacity
  /\ pipeout \in {"start", "mkfifo", "opening", "open", "closed"}
  /\ written \in Seq(Frames) /\ Len(written) <= MaxFrames
  /\ FirewallUp \/ reader \in {"down", "exited"}
  /\ pipe # <<>> \/ ReaderUp \/ pipeout \in {"open", "opening"} => fifo
  /\ sdlc \in 0 .. 255
  /\ g_exit \in BOOLEAN
  /\ delivered \in Seq(0 .. Len(written))
  /\ kills \in 0 .. MaxKills
  /\ disturbed \in BOOLEAN

(* Frames that get through do so in order and at most once, disturbed or   *)
(* not.                                                                    *)
OrderKept ==
  \A i, j \in DOMAIN delivered :
    i < j /\ delivered[i] # 0 /\ delivered[j] # 0 => delivered[i] < delivered[j]

(* Between two frames an undisturbed reader stands at the start of one.    *)
Aligned ==
  reader \in {"loop", "poll"} /\ ~disturbed /\ pipe # <<>> => Head(pipe)[2] = 1

(* A frame in the pipe leaves it, and if the stream is undisturbed it is   *)
(* handed to the callback; or the firewall is not there to read, or the    *)
(* stream is disturbed first.                                              *)
InPipe(n) == \E k \in DOMAIN pipe : pipe[k][1] = n

FramesArrive ==
  \A n \in 1 .. MaxFrames :
    /\ InPipe(n) ~> ~InPipe(n) \/ ~ReaderUp
    /\ InPipe(n) /\ ~disturbed
         ~> (\E i \in DOMAIN delivered : delivered[i] = n) \/ disturbed \/ ~ReaderUp

(* SIGINT ends the process, also one that comes while it starts, unless    *)
(* createFWInstance does not return.                                       *)
SignalStops == g_exit /\ reader # "createFW" ~> ~g_exit \/ ~FirewallUp

(* pycan looks for the pipe and then makes it; when the firewall makes it  *)
(* in between, pycan ends.  That happens once at most: whatever ends and   *)
(* starts again, the next pycan finds the pipe.                            *)
RefusedOnce == refused <= 1

-----------------------------------------------------------------------------
(* The pipe is a channel of frames, reliable unless and until it has been  *)
(* disturbed and again once it has run empty.  The frame being read is     *)
(* still on its way.                                                       *)
FrameNumbers(bytes) ==
  LET upTo[k \in 0 .. Len(bytes)] ==
        IF k = 0 THEN <<>>
        ELSE IF bytes[k][2] = 1 THEN Append(upTo[k - 1], bytes[k][1])
        ELSE upTo[k - 1]
  IN  upTo[Len(bytes)]

Channel == INSTANCE FrameChannel WITH
  sent     <- Len(written),
  queue    <- FrameNumbers(got \o pipe),
  received <- delivered,
  reliable <- ~disturbed

ImplementsChannel == Channel!Spec
=============================================================================
