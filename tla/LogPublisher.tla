---------------------------- MODULE LogPublisher ----------------------------
(***************************************************************************)
(* pyclient_mqtt.py: the process that follows the firewall's log file and  *)
(* publishes its lines over MQTT, with the position it keeps in a cache    *)
(* file across restarts.  Three actors: the main thread, interrupted by    *)
(* signal handlers; the network thread of the MQTT library; the logger     *)
(* that writes the file.                                                   *)
(*                                                                         *)
(* A line of the log is written in one or two writes, so a position in the *)
(* file is counted in half lines: line n is from 2n - 2 to 2n, and an odd  *)
(* size is a file that ends in the middle of a line.                       *)
(***************************************************************************)
EXTENDS Naturals, Sequences, FiniteSets

CONSTANTS
  MaxLines,    (* BOUND: lines ever written to the log                     *)
  MaxStarts,   (* BOUND: times the publisher is started                    *)
  Absent,      (* the cache file does not exist                            *)
  Empty        (* the cache file is empty                                  *)

ASSUME PublisherAssumption ==
  /\ MaxLines \in Nat
  /\ MaxStarts \in Nat
  /\ Absent # Empty
  /\ {Absent, Empty} \cap Nat = {}

VARIABLES
  size,            (* the log file                                         *)
  log_cache,       (* the cache file                                       *)
  pc,              (* main thread                                          *)
  handler,         (* the stop() that interrupts it: "none" or a step      *)
  _file_position,
  tell,            (* the position of log_file                             *)
  line,            (* what readline returned: [from, to]                   *)
  is_connected,    (* MQTT library: the session is up                      *)
  _start_event,
  loop,            (* MQTT library: the network thread runs                *)
  outbox,          (* MQTT library: messages not yet sent                  *)
  telemetry,       (* messages the broker has received                     *)
  starts,          (* times the publisher was started                      *)
  dropped,         (* GHOST: lines a run read and the broker will not get  *)
                   (* whole from that run                                  *)
  dumped,          (* GHOST: the last thing this run did to the cache file *)
                   (* was to write its position                            *)
  since            (* GHOST: length of telemetry when this run began       *)

files  == <<size, log_cache>>
client == <<pc, handler, _file_position, tell, line>>
mqtt   == <<is_connected, _start_event, loop, outbox, telemetry>>
run    == <<dumped, since>>
vars   == <<files, client, mqtt, starts, dropped, run>>

-----------------------------------------------------------------------------
NoLine == [from |-> 0, to |-> 0]

Whole(l) == l.from % 2 = 0

LineOf(l) == l.to \div 2

Init ==
  /\ size = 0
  /\ log_cache = Absent
  /\ pc = "down"
  /\ handler = "none"
  /\ _file_position = 0
  /\ tell = 0
  /\ line = NoLine
  /\ is_connected = FALSE
  /\ _start_event = FALSE
  /\ loop = FALSE
  /\ outbox = <<>>
  /\ telemetry = <<>>
  /\ starts = 0
  /\ dropped = {}
  /\ dumped = FALSE
  /\ since = 0

(* The logger writes half a line or a line.                                *)
WriteLog ==
  /\ \E n \in {1, 2} : size' = size + n /\ (n = 2 => size % 2 = 0)
  /\ size' <= 2 * MaxLines
  /\ UNCHANGED <<log_cache, client, mqtt, starts, dropped, run>>

-----------------------------------------------------------------------------
(* GHOST: lines handed to the library and not sent; lines read and not     *)
(* sent.                                                                   *)
Unsent == {LineOf(outbox[i]) : i \in DOMAIN outbox}

InHand ==
  Unsent \cup (IF pc \in {"position", "publish"} THEN {LineOf(line)} ELSE {})

(* The process ends, by itself or killed: what was in it is gone.          *)
Down ==
  /\ pc' = "down"
  /\ handler' = "none"
  /\ _file_position' = 0
  /\ tell' = 0
  /\ line' = NoLine
  /\ is_connected' = FALSE
  /\ _start_event' = FALSE
  /\ loop' = FALSE
  /\ outbox' = <<>>
  /\ dropped' = dropped \cup InHand

(* MUTANT of start: what int() does not accept is 0.                       *)
startEmptyAsZero ==
  /\ pc = "down"
  /\ starts < MaxStarts
  /\ starts' = starts + 1
  /\ dumped' = FALSE
  /\ since' = Len(telemetry)
  /\ pc' = "connect"
  /\ _file_position' = IF log_cache \in {Absent, Empty} THEN 0 ELSE log_cache
  /\ UNCHANGED <<files, handler, tell, line, mqtt, dropped>>

(* __init__ and _load; int() of an empty line is an exception.             *)
start ==
  /\ pc = "down"
  /\ starts < MaxStarts
  /\ starts' = starts + 1
  /\ dumped' = FALSE
  /\ since' = Len(telemetry)
  /\ IF log_cache = Empty
     THEN UNCHANGED <<pc, _file_position>>
     ELSE /\ pc' = "connect"
          /\ _file_position' = IF log_cache = Absent THEN 0 ELSE log_cache
  /\ UNCHANGED <<files, handler, tell, line, mqtt, dropped>>

Running == handler = "none"

(* loop_start and connect, which raises when the host is not there.        *)
connect ==
  /\ pc = "connect" /\ Running
  /\ \/ /\ loop' = TRUE
        /\ pc' = "wait"
        /\ UNCHANGED <<handler, _file_position, tell, line, is_connected,
                       _start_event, outbox, dropped>>
     \/ Down
  /\ UNCHANGED <<files, telemetry, starts, run>>

(* push, once the start event is set: open and seek.  The log may be there *)
(* and still be empty.                                                     *)
openLog ==
  /\ pc = "wait" /\ Running
  /\ _start_event
  /\ tell' = _file_position
  /\ pc' = "outer"
  /\ UNCHANGED <<files, handler, _file_position, line, mqtt, starts, dropped,
                 run>>

(* Without a log file (nothing has been written to it then) the position   *)
(* is dumped; the loop then stumbles over a log_file that is None, or is   *)
(* not entered.                                                            *)
openLogFails ==
  /\ pc = "wait" /\ Running
  /\ _start_event
  /\ size = 0
  /\ handler' = "open"
  /\ pc' = "exit"
  /\ UNCHANGED <<files, _file_position, tell, line, mqtt, starts, dropped,
                 run>>

(* The outer loop: without a connection push returns and the process ends, *)
(* without a dump.                                                         *)
pushLoop ==
  /\ pc = "outer" /\ Running
  /\ IF is_connected
     THEN /\ pc' = "tail"
          /\ UNCHANGED <<handler, _file_position, tell, line, is_connected,
                         _start_event, loop, outbox, dropped>>
     ELSE Down
  /\ UNCHANGED <<files, telemetry, starts, run>>

(* The loop of _tail: a line, a piece of one that is thrown away, nothing. *)
NextEnd == 2 * (tell \div 2) + 2

tailEnds ==
  /\ pc = "tail" /\ Running
  /\ ~is_connected
  /\ pc' = "outer"
  /\ UNCHANGED <<files, handler, _file_position, tell, line, mqtt, starts,
                 dropped, run>>

readline ==
  /\ pc = "tail" /\ Running
  /\ is_connected
  /\ NextEnd <= size
  /\ line' = [from |-> tell, to |-> NextEnd]
  /\ tell' = NextEnd
  /\ pc' = "position"
  /\ UNCHANGED <<files, handler, _file_position, mqtt, starts, dropped, run>>

readPartial ==
  /\ pc = "tail" /\ Running
  /\ is_connected
  /\ tell < size /\ size < NextEnd
  /\ tell' = size
  /\ dropped' = dropped \cup {NextEnd \div 2}
  /\ UNCHANGED <<files, pc, handler, _file_position, line, mqtt, starts, run>>

(* MUTANT of setPosition: the end of the file instead of the reader's      *)
(* place in it.                                                            *)
setPositionToEnd ==
  /\ pc = "position" /\ Running
  /\ _file_position' = size
  /\ pc' = "publish"
  /\ UNCHANGED <<files, handler, tell, line, mqtt, starts, dropped, run>>

(* MUTANT of setPosition: the position stays where the run began.          *)
setPositionNever ==
  /\ pc = "position" /\ Running
  /\ pc' = "publish"
  /\ UNCHANGED <<files, handler, _file_position, tell, line, mqtt, starts,
                 dropped, run>>

setPosition ==
  /\ pc = "position" /\ Running
  /\ _file_position' = tell
  /\ pc' = "publish"
  /\ UNCHANGED <<files, handler, tell, line, mqtt, starts, dropped, run>>

(* publish with QoS 0: without a connection the message is dropped.        *)
publish ==
  /\ pc = "publish" /\ Running
  /\ pc' = "tail"
  /\ IF is_connected
     THEN outbox' = Append(outbox, line) /\ UNCHANGED dropped
     ELSE dropped' = dropped \cup {LineOf(line)} /\ UNCHANGED outbox
  /\ UNCHANGED <<files, handler, _file_position, tell, line, is_connected,
                 _start_event, loop, telemetry, starts, run>>

-----------------------------------------------------------------------------
(* MUTANT of stop: the network thread is stopped and nothing else.         *)
stopNoDisconnect ==
  /\ IF is_connected
     THEN /\ handler' = "open"
          /\ loop' = FALSE
          /\ outbox' = <<>>
     ELSE handler' = "none" /\ UNCHANGED <<loop, outbox>>
  /\ UNCHANGED is_connected

(* stop(), called from a signal handler between two steps of the main      *)
(* thread.  It does nothing without a connection.  loop_stop ends the      *)
(* network thread, so what is in the outbox stays there.                   *)
stop ==
  /\ IF is_connected
     THEN /\ handler' = "open"
          /\ loop' = FALSE
          /\ is_connected' = FALSE
          /\ outbox' = <<>>
     ELSE handler' = "none" /\ UNCHANGED <<loop, is_connected, outbox>>

(* SIGTERM: exit_handler, after which the main thread goes on.             *)
exit_handler ==
  /\ pc # "down" /\ Running
  /\ stop
  /\ dropped' = dropped \cup (IF is_connected THEN Unsent ELSE {})
  /\ UNCHANGED <<files, pc, _file_position, tell, line, _start_event,
                 telemetry, starts, run>>

(* SIGINT: KeyboardInterrupt leaves what the main thread was doing; _tail  *)
(* catches it itself, and the loop of push looks at the connection again.  *)
(* A handler is left like anything else, be it in the middle of _dump.     *)
keyboardInterrupt ==
  /\ pc # "down"
  /\ stop
  /\ pc' = IF pc = "tail" THEN "outer" ELSE "exit"
  /\ dropped' = dropped \cup (IF pc = "tail" /\ ~is_connected THEN {} ELSE InHand)
  /\ UNCHANGED <<files, _file_position, tell, line, _start_event, telemetry,
                 starts, run>>

exit ==
  /\ pc = "exit" /\ Running
  /\ Down
  /\ UNCHANGED <<files, telemetry, starts, run>>

(* _dump: opening the file for writing empties it, or fails.               *)
dumpOpen ==
  /\ handler = "open"
  /\ \/ log_cache' = Empty /\ handler' = "write" /\ dumped' = FALSE
     \/ handler' = "none" /\ UNCHANGED <<log_cache, dumped>>
  /\ UNCHANGED <<size, pc, _file_position, tell, line, mqtt, starts, dropped,
                 since>>

(* MUTANT of dumpWrite: the place of the reader is written.                *)
dumpWriteTell ==
  /\ handler = "write"
  /\ log_cache' = tell
  /\ handler' = "none"
  /\ dumped' = TRUE
  /\ UNCHANGED <<size, pc, _file_position, tell, line, mqtt, starts, dropped,
                 since>>

dumpWrite ==
  /\ handler = "write"
  /\ log_cache' = _file_position
  /\ handler' = "none"
  /\ dumped' = TRUE
  /\ UNCHANGED <<size, pc, _file_position, tell, line, mqtt, starts, dropped,
                 since>>

(* SIGKILL, or the power goes.                                             *)
kill ==
  /\ pc # "down"
  /\ Down
  /\ UNCHANGED <<files, telemetry, starts, run>>

-----------------------------------------------------------------------------
(* The network thread: _on_connect, sending, losing the connection, and    *)
(* connecting again, with what was not sent thrown away.                   *)
_on_connect ==
  /\ loop /\ ~is_connected
  /\ is_connected' = TRUE
  /\ _start_event' = TRUE
  /\ outbox' = <<>>
  /\ dropped' = dropped \cup Unsent
  /\ UNCHANGED <<files, client, loop, telemetry, starts, run>>

send ==
  /\ loop /\ is_connected
  /\ outbox # <<>>
  /\ telemetry' = Append(telemetry, Head(outbox))
  /\ outbox' = Tail(outbox)
  /\ UNCHANGED <<files, client, is_connected, _start_event, loop, starts,
                 dropped, run>>

disconnect ==
  /\ loop /\ is_connected
  /\ is_connected' = FALSE
  /\ UNCHANGED <<files, client, _start_event, loop, outbox, telemetry, starts,
                 dropped, run>>

-----------------------------------------------------------------------------
MainThread ==
  \/ connect \/ openLog \/ openLogFails \/ pushLoop \/ tailEnds \/ readline
  \/ readPartial \/ setPosition \/ publish \/ exit

Handler == dumpOpen \/ dumpWrite

Next ==
  \/ WriteLog
  \/ start \/ MainThread
  \/ exit_handler \/ keyboardInterrupt \/ Handler \/ kill
  \/ _on_connect \/ send \/ disconnect

Spec == Init /\ [][Next]_vars

(* The process and its network thread are scheduled.                       *)
FairSpec == Spec /\ WF_vars(MainThread) /\ WF_vars(Handler) /\ WF_vars(send)

-----------------------------------------------------------------------------
Positions == 0 .. 2 * MaxLines

Read == [from : Positions, to : Positions]

(* Every variable has its type.                                            *)
TypeOK ==
  /\ size \in Positions
  /\ log_cache \in Positions \cup {Absent, Empty}
  /\ pc \in {"down", "connect", "wait", "outer", "tail", "position", "publish", "exit"}
  /\ handler \in {"none", "open", "write"}
  /\ _file_position \in Positions /\ _file_position <= size
  /\ tell \in Positions /\ tell <= size
  /\ line \in Read
  /\ is_connected \in BOOLEAN /\ _start_event \in BOOLEAN /\ loop \in BOOLEAN
  /\ outbox \in Seq(Read)
  /\ telemetry \in Seq(Read)
  /\ starts \in 0 .. MaxStarts
  /\ dropped \subseteq 1 .. MaxLines
  /\ dumped \in BOOLEAN
  /\ since \in 0 .. Len(telemetry)
  /\ is_connected => loop /\ _start_event

(* A position that is kept is the start of a line, however the file was    *)
(* being written when it was read: a restart never begins in a line.       *)
PositionAtLineStart ==
  /\ _file_position % 2 = 0
  /\ log_cache \in Nat => log_cache % 2 = 0

(* Nothing is skipped without a cause: a line before the position that is  *)
(* or was kept has reached the broker whole, is in the hand of the process *)
(* or its library, or was dropped in one of the ways that are named.       *)
Accounted(n) ==
  \/ \E i \in DOMAIN telemetry : telemetry[i] = [from |-> 2 * n - 2, to |-> 2 * n]
  \/ \E i \in DOMAIN outbox : outbox[i] = [from |-> 2 * n - 2, to |-> 2 * n]
  \/ pc \in {"position", "publish"} /\ LineOf(line) = n
  \/ n \in dropped

NothingSkipped ==
  /\ \A n \in 1 .. (_file_position \div 2) : Accounted(n)
  /\ log_cache \in Nat => \A n \in 1 .. (log_cache \div 2) : Accounted(n)

(* A run that ended with its position written is resumed where it ended:   *)
(* nothing that the broker got from it is before the reader of the next    *)
(* one, whichever step of the main thread the signal interrupted and       *)
(* whatever that thread still did after it.                                *)
CleanStopResumes ==
  pc = "down" /\ dumped =>
    /\ log_cache \in Nat
    /\ \A i \in since + 1 .. Len(telemetry) : telemetry[i].to <= log_cache

(* SIGTERM during a session ends the process: stop() has begun, and the    *)
(* main thread finds that there is no connection.                          *)
TermEndsSession == handler # "none" ~> pc = "down"

(* While the session lasts the reader gets through the file.               *)
Progress ==
  \A n \in 1 .. MaxLines :
    (pc = "tail" /\ size >= 2 * n) ~> (_file_position >= 2 * n \/ ~is_connected)

(* "New lines in the log file will be publish via MQTT"                    *)
(* (pyclient_mqtt.py:138).  Refuted: of a line that was read while it was  *)
(* being written only the rest is published.                               *)
LinesPublishedWhole == \A i \in DOMAIN telemetry : Whole(telemetry[i])
=============================================================================
