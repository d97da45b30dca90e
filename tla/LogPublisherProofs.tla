-------------------------- MODULE LogPublisherProofs --------------------------
(***************************************************************************)
(* The safety properties of LogPublisher for a log of any length and any   *)
(* number of restarts: where positions are kept, that no line is skipped   *)
(* without a cause, and that a clean stop is resumed where it ended.       *)
(***************************************************************************)
EXTENDS LogPublisher, TLAPS

(* Lines as they are read: from their start, or from their middle.         *)
LogLines ==
  {l \in Read : l.to % 2 = 0 /\ (l.from + 1 = l.to \/ l.from + 2 = l.to)}

(* TypeOK with what the lines in the process are, and with the conditions  *)
(* of the MQTT client apart from the rest.                                 *)
Flags ==
  /\ is_connected \in BOOLEAN /\ _start_event \in BOOLEAN /\ loop \in BOOLEAN
  /\ dumped \in BOOLEAN
  /\ is_connected => loop /\ _start_event

DataInv ==
  /\ size \in Positions
  /\ log_cache \in Positions \cup {Absent, Empty}
  /\ pc \in {"down", "connect", "wait", "outer", "tail", "position", "publish", "exit"}
  /\ handler \in {"none", "open", "write"}
  /\ _file_position \in Positions /\ _file_position <= size
  /\ tell \in Positions /\ tell <= size
  /\ line \in Read
  /\ outbox \in Seq(LogLines)
  /\ telemetry \in Seq(Read)
  /\ starts \in 0 .. MaxStarts
  /\ dropped \subseteq 1 .. MaxLines
  /\ since \in 0 .. Len(telemetry)
  /\ log_cache \in Nat => log_cache <= size
  /\ pc \in {"position", "publish"} => line \in LogLines

TypeInv == Flags /\ DataInv

LEMMA LineNumber ==
  ASSUME NEW l \in LogLines
  PROVE  /\ LineOf(l) \in 1 .. MaxLines
         /\ l.to = 2 * LineOf(l)
         /\ Whole(l) => l = [from |-> 2 * LineOf(l) - 2, to |-> 2 * LineOf(l)]
<1>1. /\ l.to \in Nat /\ l.from \in Nat /\ l.to <= 2 * MaxLines
      /\ l = [from |-> l.from, to |-> l.to]
  BY PublisherAssumption DEF LogLines, Read, Positions
<1>2. PICK n \in Nat : l.to = 2 * n /\ LineOf(l) = n
  BY <1>1 DEF LogLines, LineOf
<1>3. n \in 1 .. MaxLines
  BY <1>1, <1>2, PublisherAssumption DEF LogLines
<1>4. Whole(l) => l.from = 2 * n - 2
  BY <1>1, <1>2, <1>3 DEF LogLines, Whole
<1>5. QED
  BY <1>1, <1>2, <1>3, <1>4

LEMMA LinesAreRead == LogLines \subseteq Read /\ Seq(LogLines) \subseteq Seq(Read)
BY DEF LogLines

LEMMA TypeInvType == TypeInv => TypeOK
<1> SUFFICES ASSUME TypeInv PROVE TypeOK
  OBVIOUS
<1>1. outbox \in Seq(Read)
  BY LinesAreRead DEF TypeInv, DataInv
<1>2. QED
  BY <1>1, Zenon DEF TypeInv, DataInv, Flags, TypeOK

LEMMA InHandType == ASSUME TypeInv PROVE InHand \subseteq 1 .. MaxLines
BY LineNumber DEF TypeInv, DataInv, InHand, Unsent

(* Where the next line ends, and what is left of the one before.           *)
LEMMA NextEndType ==
  ASSUME TypeOK
  PROVE  /\ NextEnd \in Nat /\ NextEnd % 2 = 0
         /\ tell < NextEnd
         /\ tell + 1 = NextEnd \/ tell + 2 = NextEnd
         /\ NextEnd <= tell + 2
         /\ NextEnd \div 2 = (tell \div 2) + 1
         /\ tell % 2 = 0 <=> tell + 2 = NextEnd
<1>1. tell \in Nat
  BY PublisherAssumption DEF TypeOK, Positions
<1> DEFINE k == tell \div 2
<1>2. k \in Nat /\ (tell = 2 * k \/ tell = 2 * k + 1)
  BY <1>1
<1>3. NextEnd = 2 * k + 2
  BY DEF NextEnd
<1> HIDE DEF k
<1>4. NextEnd \div 2 = k + 1 /\ NextEnd % 2 = 0
  BY <1>2, <1>3
<1>5. tell % 2 = 0 <=> tell = 2 * k
  BY <1>2
<1>6. NextEnd \div 2 = (tell \div 2) + 1
  BY <1>4 DEF k
<1>7. QED
  BY <1>1, <1>2, <1>3, <1>4, <1>5, <1>6

LEMMA FlagsNext == Flags /\ [Next]_vars => Flags'
<1> SUFFICES ASSUME Flags, [Next]_vars PROVE Flags'
  OBVIOUS
<1> USE DEF files, client, mqtt, run, Flags
<1>1. CASE WriteLog
  BY <1>1, Zenon DEF WriteLog
<1>2. CASE start
  BY <1>2, Zenon DEF start
<1>3. CASE connect
  <2>1. CASE Down
    BY <1>3, <2>1, Zenon DEF connect, Down
  <2>2. CASE loop' = TRUE /\ UNCHANGED <<is_connected, _start_event>>
    BY <1>3, <2>2, Zenon DEF connect
  <2>3. QED
    BY <1>3, <2>1, <2>2, Zenon DEF connect
<1>4. CASE openLog \/ openLogFails \/ tailEnds \/ readline \/ readPartial \/ setPosition
  <2>1. UNCHANGED <<mqtt, run>>
    BY <1>4 DEF openLog, openLogFails, tailEnds, readline, readPartial, setPosition
  <2>2. QED
    BY <2>1, Zenon
<1>5. CASE pushLoop
  BY <1>5, Zenon DEF pushLoop, Down
<1>7. CASE publish
  BY <1>7, Zenon DEF publish
<1>8. CASE exit \/ kill
  BY <1>8, Zenon DEF exit, kill, Down
<1>9. CASE exit_handler
  BY <1>9, Zenon DEF exit_handler, stop
<1>10. CASE keyboardInterrupt
  BY <1>10, Zenon DEF keyboardInterrupt, stop
<1>11. CASE dumpOpen
  BY <1>11, Zenon DEF dumpOpen
<1>12. CASE dumpWrite
  BY <1>12, Zenon DEF dumpWrite
<1>13. CASE _on_connect \/ send \/ disconnect
  BY <1>13, Zenon DEF _on_connect, send, disconnect
<1>14. CASE UNCHANGED vars
  BY <1>14, Zenon DEF vars
<1>15. QED
  BY <1>1, <1>2, <1>3, <1>4, <1>5, <1>7, <1>8, <1>9, <1>10, <1>11, <1>12,
     <1>13, <1>14, Zenon DEF Next, MainThread, Handler

LEMMA TypeInit == Init => TypeInv
<1> SUFFICES ASSUME Init PROVE TypeInv
  OBVIOUS
<1>1. outbox \in Seq(LogLines) /\ telemetry \in Seq(Read)
  BY DEF Init
<1>2. Len(telemetry) = 0
  BY DEF Init
<1>3. 0 \in Positions /\ NoLine \in Read
  BY PublisherAssumption DEF Positions, Read, NoLine
<1>4. Absent \notin Nat
  BY PublisherAssumption
<1>5. Flags
  BY Zenon DEF Init, Flags
<1>6. DataInv
  BY <1>1, <1>2, <1>3, <1>4, PublisherAssumption DEF Init, DataInv
<1>7. QED
  BY <1>5, <1>6 DEF TypeInv

LEMMA DataNext == TypeInv /\ [Next]_vars => DataInv'
<1> SUFFICES ASSUME TypeInv, [Next]_vars PROVE DataInv'
  OBVIOUS
<1> USE DEF files, client, mqtt, run
<1>0. /\ TypeOK /\ DataInv
      /\ MaxLines \in Nat /\ MaxStarts \in Nat
      /\ Absent \notin Nat /\ Empty \notin Nat
  BY PublisherAssumption, TypeInvType DEF TypeInv
<1>a. \A n : n \in Positions <=> n \in Nat /\ n <= 2 * MaxLines
  BY <1>0 DEF Positions
<1>1. CASE WriteLog
  <2>1. size' \in Positions /\ size <= size'
    BY <1>0, <1>1, <1>a DEF WriteLog, DataInv
  <2>2. QED
    BY <1>0, <1>1, <1>a, <2>1 DEF WriteLog, DataInv
<1>2. CASE start
  <2>1. _file_position' \in Positions /\ _file_position' <= size
    BY <1>0, <1>2, <1>a DEF start, DataInv
  <2>2. since' \in 0 .. Len(telemetry)
    BY <1>0, <1>2 DEF start, DataInv
  <2>3. starts' \in 0 .. MaxStarts
    BY <1>0, <1>2 DEF start, DataInv
  <2>4. pc' \in {"down", "connect"}
    BY <1>2 DEF start
  <2>5. UNCHANGED <<files, handler, tell, line, mqtt, dropped>> /\ dumped' = FALSE
    BY <1>2 DEF start
  <2>6. QED
    BY <1>0, <2>1, <2>2, <2>3, <2>4, <2>5 DEF DataInv
<1>3. ASSUME Down, UNCHANGED <<files, telemetry, starts, run>>
      PROVE  DataInv'
  <2>1. outbox' \in Seq(LogLines)
    BY <1>3 DEF Down
  <2>2. dropped' \subseteq 1 .. MaxLines
    BY <1>0, <1>3, InHandType DEF Down, DataInv
  <2>3. 0 \in Positions /\ NoLine \in Read
    BY <1>0 DEF Positions, Read, NoLine
  <2>4. QED
    BY <1>0, <1>3, <1>a, <2>1, <2>2, <2>3 DEF Down, DataInv
<1>4. CASE connect
  <2>1. CASE Down
    BY <1>3, <1>4, <2>1 DEF connect
  <2>2. CASE ~Down
    BY <1>0, <1>4, <2>2 DEF connect, DataInv
  <2>3. QED
    BY <2>1, <2>2
<1>5. CASE openLog \/ openLogFails \/ tailEnds
  BY <1>0, <1>5 DEF openLog, openLogFails, tailEnds, DataInv
<1>6. CASE pushLoop
  <2>1. CASE is_connected
    BY <1>0, <1>6, <2>1 DEF pushLoop, DataInv
  <2>2. CASE ~is_connected
    BY <1>3, <1>6, <2>2 DEF pushLoop
  <2>3. QED
    BY <2>1, <2>2
<1>7. CASE readline
  <2>1. NextEnd \in Positions /\ tell \in Positions /\ NextEnd <= size
    BY <1>0, <1>7, <1>a, NextEndType DEF readline, DataInv
  <2>2. line' \in LogLines
    BY <1>7, <2>1, <1>0, NextEndType DEF readline, LogLines, Read
  <2>3. QED
    BY <1>0, <1>7, <2>1, <2>2, LinesAreRead DEF readline, DataInv
<1>8. CASE readPartial
  <2>1. NextEnd \div 2 \in 1 .. MaxLines
    <3>1. tell \in Nat /\ tell + 1 <= 2 * MaxLines
      BY <1>0, <1>8, <1>a DEF readPartial, DataInv
    <3>2. (tell \div 2) + 1 \in 1 .. MaxLines
      BY <1>0, <3>1
    <3>3. QED
      BY <1>0, <3>2, NextEndType
  <2>2. dropped' \subseteq 1 .. MaxLines
    BY <1>0, <1>8, <2>1 DEF readPartial, DataInv
  <2>3. /\ tell' = size
        /\ UNCHANGED <<files, pc, handler, _file_position, line, mqtt, starts, run>>
    BY <1>8 DEF readPartial
  <2>4. QED
    BY <1>0, <1>a, <2>2, <2>3 DEF DataInv
<1>9. CASE setPosition
  BY <1>0, <1>9 DEF setPosition, DataInv
<1>10. CASE publish
  <2>1. line \in LogLines /\ LineOf(line) \in 1 .. MaxLines
    BY <1>0, <1>10, LineNumber DEF publish, DataInv
  <2>2. outbox' \in Seq(LogLines)
    <3>1. outbox' = Append(outbox, line) \/ outbox' = outbox
      BY <1>10, Zenon DEF publish
    <3>2. QED
      BY <1>0, <2>1, <3>1, SMTT(30) DEF DataInv
  <2>3. QED
    BY <1>0, <1>10, <2>1, <2>2 DEF publish, DataInv
<1>11. CASE exit
  BY <1>3, <1>11 DEF exit
<1>12. CASE exit_handler \/ keyboardInterrupt
  <2>1. dropped' \subseteq 1 .. MaxLines
    BY <1>0, <1>12, InHandType DEF exit_handler, keyboardInterrupt, DataInv, InHand
  <2>2. outbox' \in Seq(LogLines)
    <3>1. outbox' = <<>> \/ outbox' = outbox
      BY <1>12, Zenon DEF exit_handler, keyboardInterrupt, stop
    <3>2. outbox \in Seq(LogLines) /\ <<>> \in Seq(LogLines)
      BY <1>0 DEF DataInv
    <3>3. QED
      BY <3>1, <3>2
  <2>3. handler' \in {"none", "open"}
    BY <1>12 DEF exit_handler, keyboardInterrupt, stop
  <2>4. pc' \in {pc, "outer", "exit"}
    BY <1>12 DEF exit_handler, keyboardInterrupt
  <2>5. UNCHANGED <<files, _file_position, tell, line, _start_event, telemetry,
                    starts, run>>
    BY <1>12 DEF exit_handler, keyboardInterrupt
  <2>6. QED
    BY <1>0, <2>1, <2>2, <2>3, <2>4, <2>5 DEF DataInv
<1>13. CASE dumpOpen \/ dumpWrite
  BY <1>0, <1>13 DEF dumpOpen, dumpWrite, DataInv
<1>14. CASE kill
  BY <1>3, <1>14 DEF kill
<1>15. CASE _on_connect
  <2>1. dropped' \subseteq 1 .. MaxLines
    BY <1>0, <1>15, InHandType DEF _on_connect, DataInv, InHand
  <2>2. outbox' \in Seq(LogLines)
    BY <1>15 DEF _on_connect
  <2>3. QED
    BY <1>0, <1>15, <2>1, <2>2 DEF _on_connect, DataInv
<1>16. CASE send
  <2>1. Head(outbox) \in LogLines /\ outbox' \in Seq(LogLines)
    BY <1>0, <1>16 DEF send, DataInv
  <2>2. telemetry' \in Seq(Read) /\ Len(telemetry') = Len(telemetry) + 1
    BY <1>0, <1>16, <2>1, LinesAreRead DEF send, DataInv
  <2>3. since' \in 0 .. Len(telemetry')
    BY <1>0, <1>16, <2>2 DEF send, DataInv
  <2>4. UNCHANGED <<files, client, is_connected, _start_event, loop, starts,
                    dropped, run>>
    BY <1>16 DEF send
  <2>5. QED
    BY <1>0, <2>1, <2>2, <2>3, <2>4 DEF DataInv
<1>17. CASE disconnect
  BY <1>0, <1>17 DEF disconnect, DataInv
<1>18. CASE UNCHANGED vars
  BY <1>0, <1>18 DEF vars, DataInv
<1>19. QED
  BY <1>1, <1>2, <1>4, <1>5, <1>6, <1>7, <1>8, <1>9, <1>10, <1>11, <1>12, <1>13,
     <1>14, <1>15, <1>16, <1>17, <1>18 DEF Next, MainThread, Handler

LEMMA TypeNext == TypeInv /\ [Next]_vars => TypeInv'
<1>1. TypeInv /\ [Next]_vars => Flags'
  BY FlagsNext DEF TypeInv
<1>2. QED
  BY <1>1, DataNext DEF TypeInv

LEMMA TypeInvariant == Spec => []TypeInv
BY TypeInit, TypeNext, PTL DEF Spec

(* Type correctness for a log of any length and any number of restarts.    *)
THEOREM TypeCorrect == Spec => []TypeOK
BY TypeInvType, TypeInvariant, PTL

-----------------------------------------------------------------------------
(* Where the reader and the position stand at each step of the loop of     *)
(* _tail: the position is that of the line the reader is in, and of a line *)
(* whose beginning was thrown away that is known.                          *)
ReadInv ==
  /\ PositionAtLineStart
  /\ pc \in {"outer", "tail"} =>
       /\ _file_position = 2 * (tell \div 2)
       /\ tell % 2 = 1 => (tell \div 2) + 1 \in dropped
  /\ pc = "position" => _file_position + 2 = tell
  /\ pc = "publish" => _file_position = tell
  /\ pc \in {"position", "publish"} =>
       line.to = tell /\ (Whole(line) \/ LineOf(line) \in dropped)

LEMMA ReadInit == Init => ReadInv
BY PublisherAssumption DEF Init, ReadInv, PositionAtLineStart

LEMMA DroppedGrows == [Next]_vars => dropped \subseteq dropped'
<1> SUFFICES ASSUME [Next]_vars PROVE dropped \subseteq dropped'
  OBVIOUS
<1> USE DEF files, client, mqtt, run
<1>1. CASE WriteLog \/ start \/ kill \/ _on_connect \/ send \/ disconnect
  BY <1>1 DEF WriteLog, start, kill, Down, _on_connect, send, disconnect
<1>2. CASE MainThread
  BY <1>2 DEF MainThread, connect, openLog, openLogFails, pushLoop, tailEnds, readline,
     readPartial, setPosition, publish, exit, Down
<1>3. CASE exit_handler \/ keyboardInterrupt \/ Handler
  BY <1>3 DEF exit_handler, keyboardInterrupt, Handler, dumpOpen, dumpWrite
<1>4. CASE UNCHANGED vars
  BY <1>4 DEF vars
<1>5. QED
  BY <1>1, <1>2, <1>3, <1>4 DEF Next

LEMMA ReadNext == TypeInv /\ ReadInv /\ [Next]_vars => ReadInv'
<1> SUFFICES ASSUME TypeInv, ReadInv, [Next]_vars PROVE ReadInv'
  OBVIOUS
<1> USE DEF files, client, mqtt, run, ReadInv, PositionAtLineStart
<1>0. /\ TypeOK /\ DataInv
      /\ _file_position \in Nat /\ tell \in Nat /\ size \in Nat
      /\ dropped \subseteq dropped'
      /\ Empty \notin Nat
  BY PublisherAssumption, TypeInvType, DroppedGrows DEF TypeInv, DataInv, Positions
<1>1. CASE WriteLog
  BY <1>1 DEF WriteLog
<1>2. CASE start
  <2>1. _file_position' % 2 = 0
    <3>1. log_cache \in Nat \/ log_cache = Absent \/ log_cache = Empty
      BY <1>0 DEF DataInv, Positions
    <3>2. QED
      BY <1>2, <3>1 DEF start
  <2>2. pc' \in {"down", "connect"} /\ UNCHANGED log_cache
    BY <1>2 DEF start
  <2>3. QED
    BY <2>1, <2>2
<1>3. ASSUME Down, UNCHANGED log_cache PROVE ReadInv'
  BY <1>3 DEF Down
<1>4. CASE connect
  <2>1. CASE Down
    BY <1>3, <1>4, <2>1 DEF connect
  <2>2. CASE ~Down
    BY <1>4, <2>2 DEF connect
  <2>3. QED
    BY <2>1, <2>2
<1>5. CASE openLog
  BY <1>0, <1>5 DEF openLog
<1>6. CASE openLogFails \/ tailEnds
  BY <1>6 DEF openLogFails, tailEnds
<1>7. CASE pushLoop
  <2>1. CASE is_connected
    BY <1>7, <2>1 DEF pushLoop
  <2>2. CASE ~is_connected
    BY <1>3, <1>7, <2>2 DEF pushLoop
  <2>3. QED
    BY <2>1, <2>2
<1>8. CASE readline
  <2>1. /\ pc = "tail" /\ pc' = "position"
        /\ line' = [from |-> tell, to |-> NextEnd] /\ tell' = NextEnd
        /\ UNCHANGED <<_file_position, log_cache, dropped>>
    BY <1>8 DEF readline
  <2>2. _file_position + 2 = NextEnd
    BY <1>0, <2>1 DEF NextEnd
  <2>3. Whole(line)' \/ LineOf(line)' \in dropped'
    BY <1>0, <2>1, NextEndType DEF Whole, LineOf
  <2>4. QED
    BY <2>1, <2>2, <2>3
<1>9. CASE readPartial
  <2>1. /\ pc = "tail" /\ pc' = "tail" /\ tell' = size
        /\ tell < size /\ size < NextEnd
        /\ dropped' = dropped \cup {NextEnd \div 2}
        /\ UNCHANGED <<_file_position, log_cache>>
    BY <1>9 DEF readPartial
  <2>2. size = tell + 1 /\ tell + 2 = NextEnd
    BY <1>0, <2>1, NextEndType
  <2>3. tell = 2 * (tell \div 2)
    BY <1>0, <2>2, NextEndType
  <2>4. size \div 2 = tell \div 2
    BY <1>0, <2>2, <2>3
  <2>5. QED
    BY <1>0, <2>1, <2>4, NextEndType
<1>10. CASE setPosition
  BY <1>0, <1>10 DEF setPosition, DataInv, LogLines
<1>11. CASE publish
  BY <1>0, <1>11 DEF publish, DataInv, LogLines
<1>12. CASE exit \/ kill
  BY <1>3, <1>12 DEF exit, kill
<1>13. CASE exit_handler \/ keyboardInterrupt
  <2>1. /\ UNCHANGED <<log_cache, _file_position, tell, line>>
        /\ pc' = pc \/ pc' = "exit" \/ (pc = "tail" /\ pc' = "outer")
    BY <1>13 DEF exit_handler, keyboardInterrupt
  <2>2. Whole(line)' = Whole(line) /\ LineOf(line)' = LineOf(line)
    BY <2>1 DEF Whole, LineOf
  <2>3. QED
    BY <1>0, <2>1, <2>2
<1>14. CASE dumpOpen \/ dumpWrite
  BY <1>0, <1>14 DEF dumpOpen, dumpWrite, Whole, LineOf
<1>15. CASE _on_connect \/ send \/ disconnect \/ UNCHANGED vars
  BY <1>0, <1>15 DEF _on_connect, send, disconnect, vars, Whole, LineOf
<1>16. QED
  BY <1>1, <1>2, <1>4, <1>5, <1>6, <1>7, <1>8, <1>9, <1>10, <1>11, <1>12, <1>13,
     <1>14, <1>15 DEF Next, MainThread, Handler

LEMMA ReadInvariant == Spec => []ReadInv
BY TypeInvariant, ReadInit, ReadNext, PTL DEF Spec

(* A restart never begins inside a line, however the log was being written *)
(* and whenever the position was dumped.                                   *)
THEOREM PositionTheorem == Spec => []PositionAtLineStart
<1>1. ReadInv => PositionAtLineStart
  BY DEF ReadInv
<1>2. QED
  BY <1>1, ReadInvariant, PTL

-----------------------------------------------------------------------------
(* A message of which the beginning was thrown away is known to be.        *)
SkipInv ==
  /\ \A i \in DOMAIN outbox : Whole(outbox[i]) \/ LineOf(outbox[i]) \in dropped
  /\ NothingSkipped

LEMMA SkipInit == Init => SkipInv
<1> SUFFICES ASSUME Init PROVE SkipInv
  OBVIOUS
<1>1. DOMAIN outbox = {}
  BY DEF Init
<1>2. 1 .. (_file_position \div 2) = {} /\ log_cache \notin Nat
  BY PublisherAssumption DEF Init
<1>3. QED
  BY <1>1, <1>2 DEF SkipInv, NothingSkipped

(* The line a message or the main thread has is the one it accounts for.   *)
LEMMA WholeLine ==
  ASSUME NEW n \in Nat \ {0}
  PROVE  LineOf([from |-> 2 * n - 2, to |-> 2 * n]) = n
BY DEF LineOf

(* What is accounted for at one step is accounted for at the next.         *)
LEMMA AccountsKept ==
  ASSUME TypeInv, ReadInv, SkipInv, [Next]_vars, NEW n \in Nat \ {0}, Accounted(n)
  PROVE  Accounted(n)'
<1> DEFINE whole == [from |-> 2 * n - 2, to |-> 2 * n]
<1> USE DEF files, client, mqtt, run
<1>0. /\ dropped \subseteq dropped' /\ LineOf(whole) = n
      /\ DataInv
  BY DroppedGrows, WholeLine DEF TypeInv
<1>1. CASE \/ WriteLog \/ start \/ openLog \/ openLogFails \/ tailEnds \/ readline
           \/ readPartial \/ setPosition \/ dumpOpen \/ dumpWrite \/ disconnect
           \/ UNCHANGED vars
  <2>1. /\ UNCHANGED <<telemetry, outbox>>
        /\ pc \in {"position", "publish"}
             => pc' \in {"position", "publish"} /\ line' = line
    BY <1>1 DEF WriteLog, start, openLog, openLogFails, tailEnds, readline, readPartial,
                setPosition, dumpOpen, dumpWrite, disconnect, vars
  <2>2. QED
    BY <1>0, <2>1 DEF Accounted, LineOf
<1>2. ASSUME Down, UNCHANGED telemetry PROVE Accounted(n)'
  BY <1>0, <1>2 DEF Down, InHand, Unsent, Accounted
<1>3. CASE connect
  <2>1. CASE Down
    BY <1>2, <1>3, <2>1 DEF connect
  <2>2. CASE ~Down
    BY <1>0, <1>3, <2>2 DEF connect, Accounted
  <2>3. QED
    BY <2>1, <2>2
<1>4. CASE pushLoop
  <2>1. CASE is_connected
    BY <1>0, <1>4, <2>1 DEF pushLoop, Accounted
  <2>2. CASE ~is_connected
    BY <1>2, <1>4, <2>2 DEF pushLoop
  <2>3. QED
    BY <2>1, <2>2
<1>5. CASE publish
  <2>1. UNCHANGED telemetry /\ line \in LogLines /\ outbox \in Seq(LogLines)
    BY <1>0, <1>5 DEF publish, DataInv
  <2>2. CASE is_connected
    <3>1. outbox' = Append(outbox, line)
      BY <1>5, <2>2 DEF publish
    <3>2. /\ DOMAIN outbox' = 1 .. Len(outbox) + 1
          /\ \A i \in DOMAIN outbox : i \in DOMAIN outbox' /\ outbox'[i] = outbox[i]
          /\ outbox'[Len(outbox) + 1] = line
          /\ Len(outbox) + 1 \in DOMAIN outbox'
      BY <2>1, <3>1
    <3>3. LineOf(line) = n => line = whole \/ n \in dropped
      BY <1>5, <2>1, LineNumber DEF publish, ReadInv
    <3>4. QED
      BY <1>0, <2>1, <3>2, <3>3 DEF Accounted
  <2>3. CASE ~is_connected
    BY <1>0, <1>5, <2>1, <2>3 DEF publish, Accounted
  <2>4. QED
    BY <2>2, <2>3
<1>6. CASE exit \/ kill
  BY <1>2, <1>6 DEF exit, kill
<1>7. CASE exit_handler
  <2>1. /\ UNCHANGED <<telemetry, pc, line>>
        /\ UNCHANGED outbox \/ Unsent \subseteq dropped'
    BY <1>7, Zenon DEF exit_handler, stop
  <2>2. QED
    BY <1>0, <2>1 DEF Accounted, Unsent, LineOf
<1>8. CASE keyboardInterrupt
  <2>1. UNCHANGED telemetry
    BY <1>8 DEF keyboardInterrupt
  <2>2. \/ InHand \subseteq dropped'
        \/ pc = "tail" /\ UNCHANGED outbox
    BY <1>8, Zenon DEF keyboardInterrupt, stop
  <2>3. QED
    BY <1>0, <2>1, <2>2 DEF Accounted, InHand, Unsent
<1>9. CASE _on_connect
  BY <1>0, <1>9 DEF _on_connect, Accounted, Unsent, LineOf
<1>10. CASE send
  <2>1. /\ telemetry' = Append(telemetry, Head(outbox))
        /\ outbox' = Tail(outbox)
        /\ outbox \in Seq(LogLines) /\ outbox # <<>>
        /\ telemetry \in Seq(Read)
        /\ UNCHANGED <<pc, line, dropped>>
    BY <1>0, <1>10 DEF send, DataInv
  <2>2. \A i \in DOMAIN telemetry : i \in DOMAIN telemetry' /\ telemetry'[i] = telemetry[i]
    BY <2>1
  <2>3. Len(telemetry) + 1 \in DOMAIN telemetry' /\ telemetry'[Len(telemetry) + 1] = outbox[1]
    BY <2>1
  <2>4. \A i \in DOMAIN outbox : i = 1 \/ (i - 1 \in DOMAIN outbox' /\ outbox'[i - 1] = outbox[i])
    BY <2>1
  <2>5. QED
    BY <2>1, <2>2, <2>3, <2>4, ZenonT(60) DEF Accounted, LineOf
<1>11. QED
  BY <1>1, <1>3, <1>4, <1>5, <1>6, <1>7, <1>8, <1>9, <1>10 DEF Next, MainThread, Handler

LEMMA WholeNext ==
  ASSUME TypeInv, ReadInv, SkipInv, [Next]_vars
  PROVE  (\A i \in DOMAIN outbox : Whole(outbox[i]) \/ LineOf(outbox[i]) \in dropped)'
<1> USE DEF files, client, mqtt, run
<1>0. /\ dropped \subseteq dropped'
      /\ outbox \in Seq(LogLines)
      /\ \A i \in DOMAIN outbox : Whole(outbox[i]) \/ LineOf(outbox[i]) \in dropped
  BY DroppedGrows DEF TypeInv, DataInv, SkipInv
<1>1. CASE outbox' = outbox \/ outbox' = <<>>
  BY <1>0, <1>1 DEF Whole, LineOf
<1>2. CASE publish
  <2>1. CASE is_connected
    <3>1. outbox' = Append(outbox, line) /\ line \in LogLines
      BY <1>2, <2>1 DEF publish, TypeInv, DataInv
    <3>2. Whole(line) \/ LineOf(line) \in dropped
      BY <1>2 DEF publish, ReadInv
    <3>3. QED
      BY <1>0, <3>1, <3>2 DEF Whole, LineOf
  <2>2. CASE ~is_connected
    BY <1>1, <1>2, <2>2 DEF publish
  <2>3. QED
    BY <2>1, <2>2
<1>3. CASE send
  BY <1>0, <1>3 DEF send, Whole, LineOf
<1>4. ASSUME ~publish, ~send PROVE outbox' = outbox \/ outbox' = <<>>
  <2>1. CASE WriteLog \/ start \/ kill \/ _on_connect \/ disconnect \/ Handler \/ UNCHANGED vars
    BY <2>1 DEF WriteLog, start, kill, Down, _on_connect, disconnect, Handler, dumpOpen,
                dumpWrite, vars
  <2>2. CASE MainThread
    BY <1>4, <2>2 DEF MainThread, connect, openLog, openLogFails, pushLoop, tailEnds,
       readline, readPartial, setPosition, exit, Down
  <2>3. CASE exit_handler \/ keyboardInterrupt
    BY <2>3, Zenon DEF exit_handler, keyboardInterrupt, stop
  <2>4. QED
    BY <1>4, <2>1, <2>2, <2>3 DEF Next
<1>5. QED
  BY <1>1, <1>2, <1>3, <1>4

(* Where a position can come from.                                         *)
LEMMA PositionMoves ==
  ASSUME TypeInv, [Next]_vars
  PROVE  /\ \/ _file_position' \in {_file_position, 0}
            \/ log_cache \in Nat /\ _file_position' = log_cache
            \/ pc = "position" /\ _file_position' = tell
         /\ log_cache' \in {log_cache, Empty, _file_position}
<1> USE DEF files, client, mqtt, run
<1>1. CASE WriteLog \/ kill \/ _on_connect \/ send \/ disconnect \/ Handler \/ UNCHANGED vars
  BY <1>1 DEF WriteLog, kill, Down, _on_connect, send, disconnect, Handler, dumpOpen,
              dumpWrite, vars
<1>2. CASE MainThread
  BY <1>2 DEF MainThread, connect, openLog, openLogFails, pushLoop, tailEnds, readline,
     readPartial, setPosition, publish, exit, Down
<1>3. CASE exit_handler \/ keyboardInterrupt
  BY <1>3 DEF exit_handler, keyboardInterrupt
<1>4. CASE start
  <2>1. log_cache \in Nat \/ log_cache \in {Absent, Empty}
    BY PublisherAssumption DEF TypeInv, DataInv, Positions
  <2>2. QED
    BY <1>4, <2>1 DEF start
<1>5. QED
  BY <1>1, <1>2, <1>3, <1>4 DEF Next

LEMMA SkipNext == TypeInv /\ ReadInv /\ SkipInv /\ [Next]_vars => SkipInv'
<1> SUFFICES ASSUME TypeInv, ReadInv, SkipInv, [Next]_vars PROVE SkipInv'
  OBVIOUS
<1>0. /\ _file_position \in Nat /\ _file_position % 2 = 0 /\ tell \in Nat
      /\ \A n \in 1 .. (_file_position \div 2) : Accounted(n)
      /\ log_cache \in Nat => \A n \in 1 .. (log_cache \div 2) : Accounted(n)
      /\ Empty \notin Nat
  BY PublisherAssumption DEF TypeInv, DataInv, Positions, SkipInv, NothingSkipped, ReadInv,
     PositionAtLineStart
<1>1. ASSUME pc = "position" PROVE \A n \in 1 .. (tell \div 2) : Accounted(n)
  <2>1. tell = _file_position + 2 /\ LineOf(line) = tell \div 2
    BY <1>1 DEF ReadInv, LineOf
  <2>2. tell \div 2 = (_file_position \div 2) + 1
    BY <1>0, <2>1
  <2>3. Accounted(tell \div 2)
    BY <1>1, <2>1 DEF Accounted
  <2>4. QED
    BY <1>0, <2>2, <2>3
<1>2. \A n \in 1 .. (_file_position' \div 2) : Accounted(n)
  <2>1. 1 .. (0 \div 2) = {}
    OBVIOUS
  <2>2. QED
    BY <1>0, <1>1, <2>1, PositionMoves
<1>3. log_cache' \in Nat => \A n \in 1 .. (log_cache' \div 2) : Accounted(n)
  BY <1>0, PositionMoves
<1>4. \A n \in Nat \ {0} : Accounted(n) => Accounted(n)'
  BY AccountsKept
<1>5. /\ _file_position' \in Nat /\ _file_position' \div 2 \in Nat
      /\ log_cache' \in Nat => log_cache' \div 2 \in Nat
  BY <1>0, PositionMoves
<1>6. \A m \in Nat : 1 .. m \subseteq Nat \ {0}
  OBVIOUS
<1>7. /\ \A n \in 1 .. (_file_position' \div 2) : Accounted(n)'
      /\ log_cache' \in Nat => \A n \in 1 .. (log_cache' \div 2) : Accounted(n)'
  BY <1>2, <1>3, <1>4, <1>5, <1>6, Zenon
<1>8. NothingSkipped'
  BY <1>7 DEF NothingSkipped
<1>9. QED
  BY <1>8, WholeNext DEF SkipInv

LEMMA SkipInvariant == Spec => []SkipInv
BY TypeInvariant, ReadInvariant, SkipInit, SkipNext, PTL DEF Spec

(* No line before a position is lost without one of the named causes, for  *)
(* any log, any restarts and any loss of the connection.                   *)
THEOREM NothingSkippedTheorem == Spec => []NothingSkipped
<1>1. SkipInv => NothingSkipped
  BY DEF SkipInv
<1>2. QED
  BY <1>1, SkipInvariant, PTL

-----------------------------------------------------------------------------
(* Once stop() has begun, or the position of this run has been dumped, the *)
(* run publishes nothing more.                                             *)
Quiet ==
  /\ outbox = <<>>
  /\ pc # "connect"
  /\ loop => pc = "exit"

Behind(n) == \A i \in since + 1 .. Len(telemetry) : telemetry[i].to <= n

StopInv ==
  /\ pc = "down" => handler = "none"
  /\ pc \in {"down", "connect"} => ~loop
  /\ pc \in {"down", "connect", "wait"} => outbox = <<>>
  /\ \A i \in DOMAIN outbox : outbox[i].to <= _file_position
  /\ pc # "down" => Behind(_file_position)
  /\ pc # "down" /\ (dumped \/ handler # "none") => Quiet
  /\ dumped => log_cache \in Nat /\ Behind(log_cache)

LEMMA StopInit == Init => StopInv
<1> SUFFICES ASSUME Init PROVE StopInv
  OBVIOUS
<1>1. DOMAIN outbox = {}
  BY DEF Init
<1>2. QED
  BY <1>1 DEF Init, StopInv

LEMMA StopNext == TypeInv /\ ReadInv /\ StopInv /\ [Next]_vars => StopInv'
<1> SUFFICES ASSUME TypeInv, ReadInv, StopInv, [Next]_vars PROVE StopInv'
  OBVIOUS
<1> USE DEF files, client, mqtt, run, StopInv
<1>0. /\ Flags /\ DataInv
      /\ _file_position \in Nat /\ tell \in Nat
      /\ since \in Nat /\ telemetry \in Seq(Read)
      /\ outbox \in Seq(LogLines)
  BY DEF TypeInv, DataInv, Positions
<1>1. CASE WriteLog
  BY <1>1 DEF WriteLog, Quiet, Behind
<1>2. CASE start
  <2>1. \A i \in since' + 1 .. Len(telemetry') : FALSE
    BY <1>0, <1>2 DEF start
  <2>2. Behind(_file_position)'
    BY <2>1 DEF Behind
  <2>3. ~dumped' /\ outbox' = <<>> /\ ~loop' /\ handler' = "none" /\ pc' \in {"down", "connect"}
    BY <1>2 DEF start
  <2>4. QED
    BY <2>2, <2>3
<1>3. ASSUME Down, UNCHANGED <<files, telemetry, starts, run>> PROVE StopInv'
  BY <1>3 DEF Down, Behind
<1>4. CASE connect
  <2>1. CASE Down
    BY <1>3, <1>4, <2>1 DEF connect
  <2>2. CASE ~Down
    BY <1>4, <2>2 DEF connect, Quiet, Behind
  <2>3. QED
    BY <2>1, <2>2
<1>5. CASE openLog \/ tailEnds \/ readPartial
  BY <1>5 DEF openLog, tailEnds, readPartial, Quiet, Behind
<1>6. CASE openLogFails
  BY <1>6 DEF openLogFails, Quiet, Behind
<1>7. CASE pushLoop
  <2>1. CASE is_connected
    BY <1>7, <2>1 DEF pushLoop, Quiet, Behind
  <2>2. CASE ~is_connected
    BY <1>3, <1>7, <2>2 DEF pushLoop
  <2>3. QED
    BY <2>1, <2>2
<1>8. CASE readline
  BY <1>8 DEF readline, Quiet, Behind
<1>9. CASE setPosition
  <2>1. /\ _file_position' = tell /\ tell = _file_position + 2
        /\ pc = "position" /\ pc' = "publish"
        /\ UNCHANGED <<files, handler, tell, line, mqtt, starts, dropped, run>>
    BY <1>9 DEF setPosition, ReadInv
  <2>2. \A i \in since + 1 .. Len(telemetry) : telemetry[i].to \in Nat
    <3>1. \A i \in since + 1 .. Len(telemetry) : telemetry[i] \in Read
      BY <1>0
    <3>2. QED
      BY <3>1 DEF Read, Positions
  <2>3. Behind(_file_position)'
    BY <1>0, <2>1, <2>2 DEF Behind
  <2>4. \A i \in DOMAIN outbox : outbox[i].to \in Nat
    BY <1>0 DEF LogLines, Read, Positions
  <2>5. \A i \in DOMAIN outbox : outbox[i].to <= tell
    BY <1>0, <2>1, <2>4
  <2>6. QED
    BY <2>1, <2>3, <2>5 DEF Quiet, Behind
<1>10. CASE publish
  BY <1>0, <1>10 DEF publish, Quiet, Behind, ReadInv, Flags
<1>11. CASE exit \/ kill
  BY <1>3, <1>11 DEF exit, kill
<1>12. CASE exit_handler
  <2>1. CASE is_connected
    <3>1. handler' = "open" /\ ~loop' /\ outbox' = <<>>
      BY <1>12, <2>1 DEF exit_handler, stop
    <3>2. pc # "connect"
      BY <1>0, <2>1 DEF Flags
    <3>3. QED
      BY <1>12, <3>1, <3>2 DEF exit_handler, Quiet, Behind
  <2>2. CASE ~is_connected
    <3>1. handler' = "none" /\ UNCHANGED <<loop, outbox>>
      BY <1>12, <2>2, Zenon DEF exit_handler, stop
    <3>2. QED
      BY <1>12, <3>1 DEF exit_handler, Quiet, Behind
  <2>3. QED
    BY <2>1, <2>2
<1>13. CASE keyboardInterrupt
  BY <1>13 DEF keyboardInterrupt, stop, Quiet, Behind
<1>14. CASE dumpOpen
  BY <1>14 DEF dumpOpen, Quiet, Behind
<1>15. CASE dumpWrite
  BY <1>0, <1>15 DEF dumpWrite, Quiet, Behind
<1>16. CASE _on_connect
  BY <1>16 DEF _on_connect, Quiet, Behind
<1>17. CASE send
  BY <1>0, <1>17 DEF send, Quiet, Behind
<1>18. CASE disconnect
  BY <1>18 DEF disconnect, Quiet, Behind
<1>19. CASE UNCHANGED vars
  BY <1>19 DEF vars, Quiet, Behind
<1>20. QED
  BY <1>1, <1>2, <1>4, <1>5, <1>6, <1>7, <1>8, <1>9, <1>10, <1>11, <1>12, <1>13,
     <1>14, <1>15, <1>16, <1>17, <1>18, <1>19 DEF Next, MainThread, Handler

LEMMA StopInvariant == Spec => []StopInv
BY TypeInvariant, ReadInvariant, StopInit, StopNext, PTL DEF Spec

(* A run that ended with its position written is resumed where it ended,   *)
(* whichever step the signal interrupted.                                  *)
THEOREM CleanStopTheorem == Spec => []CleanStopResumes
<1>1. StopInv => CleanStopResumes
  BY DEF StopInv, Behind, CleanStopResumes
<1>2. QED
  BY <1>1, StopInvariant, PTL
===============================================================================
