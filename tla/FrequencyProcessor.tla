------------------------- MODULE FrequencyProcessor -------------------------
(***************************************************************************)
(* The two threads of FrequencyProcessor.  The thread that handles frames  *)
(* calls processNewID, the notifier thread runs frequencyNotifier; they    *)
(* share idTimestampMap, thReady and the mutex mtx, which processNewID     *)
(* takes only around the first stamp of an ID and not around its later     *)
(* reads and writes.  One action is one access to that shared state.       *)
(*                                                                         *)
(* Time is counted in ticks of an arbitrary number of milliseconds.  The   *)
(* stamp of a frame is six bytes from the pipe, which nothing compares     *)
(* with the clock or with the stamp of the frame before: it may be older   *)
(* than that one, ahead of the clock, or 0.                                *)
(***************************************************************************)
EXTENDS FWCore, FiniteSets

CONSTANTS
  CanIds,        (* identifiers of frames on the bus                       *)
  Frequencies,   (* idFrequencyMap: ID -> [low, high]                      *)
  Timer,         (* notifierTimer * 1000: period and limit of silence      *)
  Start,         (* the time at which the processor is constructed         *)
  Horizon,       (* BOUND: the clock stops here                            *)
  MaxLag,        (* BOUND: how far a stamp may be behind the clock         *)
  MaxLead,       (* BOUND: how far a stamp may be ahead of the clock       *)
  IntRange,      (* 2^31: int holds -IntRange .. IntRange - 1              *)
  ULongRange     (* 2^64                                                   *)

(* The IDs in the frequency file.  Every one has an idTimestampMap entry.  *)
FreqIds == DOMAIN Frequencies

(* The width of int divides that of unsigned long long, and no clock and   *)
(* no stamp comes near the latter.                                         *)
ASSUME FrequencyAssumption ==
  /\ CanIds \subseteq Int
  /\ FreqIds \subseteq CanIds
  /\ IsFiniteSet(FreqIds)
  /\ Frequencies \in [FreqIds -> [low : Nat \ {0}, high : Nat \ {0}]]
  /\ Timer \in Nat
  /\ MaxLag \in Nat
  /\ MaxLead \in Nat
  /\ Start \in Nat
  /\ Horizon \in Nat /\ Horizon >= Start
  /\ IntRange \in Nat \ {0}
  /\ ULongRange \in Nat /\ ULongRange > Horizon + MaxLead + Timer
  /\ ULongRange % (2 * IntRange) = 0

VARIABLES
  now,              (* the clock of gettimeofday                           *)
  idTimestampMap,   (* shared: stamp of each ID, 0 for one not seen        *)
  thReady,          (* shared: there is something for the notifier to scan *)
  thShouldRun,      (* shared: the notifier's loop condition               *)
  mtx,              (* shared: who holds the mutex                         *)
  logobjSet,        (* the logobj handed to the constructor is valid       *)
  alive,            (* the process has not been killed                     *)
  mpc,              (* frame thread: where it stands                       *)
  ID, timestamp,    (* frame thread: the arguments of processNewID         *)
  currFreq,         (* frame thread: time since the previous stamp         *)
  result,           (* frame thread: what processNewID returned last       *)
  npc,              (* notifier: where it stands                           *)
  duration,         (* notifier: what gettimeofday returned                *)
  todo,             (* notifier: IDs from its iterator to the end          *)
  alerts,           (* notifier: IDs with a message in the vector          *)
  wake,             (* notifier: when its sleep ends                       *)
  lastSeen,         (* GHOST: stamp of the last frame of each ID           *)
  touched,          (* GHOST: IDs stored since the last gettimeofday       *)
  resetRace,        (* GHOST: this frame's stamp was reset after line 79   *)
  blank             (* GHOST: IDs whose entry is the 0 of a frame's stamp  *)

shared   == <<idTimestampMap, thReady, thShouldRun, mtx>>
process  == <<logobjSet, alive>>
frame    == <<ID, timestamp>>
main     == <<mpc, frame, currFreq, result>>
notifier == <<npc, duration, todo, alerts, wake>>
ghosts   == <<lastSeen, touched, resetRace, blank>>
vars     == <<now, shared, process, main, notifier, ghosts>>

-----------------------------------------------------------------------------
(* The difference of two unsigned long long.                               *)
Elapsed(t, stamp) ==
  IF stamp <= t THEN t - stamp ELSE t - stamp + ULongRange

(* An unsigned long long, or any integer, assigned to an int.              *)
ToInt(x) == ((x + IntRange) % (2 * IntRange)) - IntRange

verifyFrequency(freq, definedFreq) ==
  IF freq < 0 THEN FWCORE_FREQ_ERROR
  ELSE IF definedFreq.low <= freq /\ freq <= definedFreq.high
  THEN FWCORE_FREQ_OK
  ELSE FWCORE_FREQ_BAD

(* MUTANT of Silent: off by one.                                           *)
SilentAtLimit(id) ==
  /\ Elapsed(duration, idTimestampMap[id]) >= Timer
  /\ idTimestampMap[id] # 0

(* MUTANT of Silent: entries never seen count as silent.                   *)
SilentAlsoUnseen(id) == Elapsed(duration, idTimestampMap[id]) > Timer

(* The notifier's test of one entry.                                       *)
Silent(id) ==
  /\ Elapsed(duration, idTimestampMap[id]) > Timer
  /\ idTimestampMap[id] # 0

-----------------------------------------------------------------------------
(* The constructor has loaded the file.  Nothing assigns TRUE to           *)
(* thShouldRun: the thread starts with whatever the memory held.  The      *)
(* thread itself is there only when initNotifier was called.               *)
Init ==
  /\ now = Start
  /\ idTimestampMap = [id \in FreqIds |-> 0]
  /\ thReady = FALSE
  /\ thShouldRun \in BOOLEAN
  /\ mtx = "free"
  /\ logobjSet \in BOOLEAN
  /\ alive = TRUE
  /\ mpc = "idle"
  /\ ID \in CanIds
  /\ timestamp = 0
  /\ currFreq = 0
  /\ result = 0
  /\ npc \in {"absent", "loop"}
  /\ duration = 0
  /\ todo = {}
  /\ alerts = {}
  /\ wake = 0
  /\ lastSeen = [id \in FreqIds |-> 0]
  /\ touched = {}
  /\ resetRace = FALSE
  /\ blank = {}

Tick ==
  /\ now < Horizon
  /\ now' = now + 1
  /\ UNCHANGED <<shared, process, main, notifier, ghosts>>

-----------------------------------------------------------------------------
(* The frame thread.                                                       *)
processNewID(id, ts) ==
  /\ mpc = "idle"
  /\ ID' = id
  /\ timestamp' = ts
  /\ IF id \in FreqIds
     THEN mpc' = "check" /\ UNCHANGED result
     ELSE result' = 0 /\ UNCHANGED mpc
  /\ resetRace' = FALSE
  /\ UNCHANGED <<now, shared, process, currFreq, notifier, lastSeen, touched, blank>>

(* MUTANT of CheckSeen: the test inverted.                                 *)
CheckSeenInverted ==
  /\ mpc = "check"
  /\ mpc' = IF idTimestampMap[ID] # 0 THEN "lock" ELSE "diff"
  /\ UNCHANGED <<now, shared, process, frame, currFreq, result, notifier, ghosts>>

(* Line 79, without the mutex.                                             *)
CheckSeen ==
  /\ mpc = "check"
  /\ mpc' = IF idTimestampMap[ID] = 0 THEN "lock" ELSE "diff"
  /\ UNCHANGED <<now, shared, process, frame, currFreq, result, notifier, ghosts>>

(* MUTANT of LockFirst: no mutex around the first stamp.                   *)
LockFirstNever ==
  /\ mpc = "lock"
  /\ mpc' = "store"
  /\ UNCHANGED <<now, shared, process, frame, currFreq, result, notifier, ghosts>>

LockFirst ==
  /\ mpc = "lock"
  /\ mtx = "free"
  /\ mtx' = "main"
  /\ mpc' = "store"
  /\ UNCHANGED <<now, idTimestampMap, thReady, thShouldRun, process, frame,
                 currFreq, result, notifier, ghosts>>

(* MUTANT of Store: a frame out of range does not become the previous one. *)
StoreInRangeOnly ==
  /\ idTimestampMap' =
       IF mpc = "update" /\ verifyFrequency(currFreq, Frequencies[ID]) # FWCORE_FREQ_OK
       THEN idTimestampMap
       ELSE [idTimestampMap EXCEPT ![ID] = timestamp]
  /\ lastSeen' = [lastSeen EXCEPT ![ID] = timestamp]
  /\ touched' = touched \cup {ID}
  /\ blank' = IF timestamp = 0 THEN blank \cup {ID} ELSE blank \ {ID}
  /\ UNCHANGED resetRace

(* What both stores do to the map and to the ghosts that follow it.        *)
Store ==
  /\ idTimestampMap' = [idTimestampMap EXCEPT ![ID] = timestamp]
  /\ lastSeen' = [lastSeen EXCEPT ![ID] = timestamp]
  /\ touched' = touched \cup {ID}
  /\ blank' = IF timestamp = 0 THEN blank \cup {ID} ELSE blank \ {ID}
  /\ UNCHANGED resetRace

(* MUTANT of StoreFirst: the unlock is missing.                            *)
StoreFirstKeepsLock ==
  /\ mpc = "store"
  /\ Store
  /\ mpc' = "ready"
  /\ UNCHANGED <<now, thReady, thShouldRun, mtx, process, frame, currFreq, result,
                 notifier>>

StoreFirst ==
  /\ mpc = "store"
  /\ Store
  /\ mtx' = "free"
  /\ mpc' = "ready"
  /\ UNCHANGED <<now, thReady, thShouldRun, process, frame, currFreq, result,
                 notifier>>

SetReady ==
  /\ mpc = "ready"
  /\ thReady' = TRUE
  /\ result' = 0
  /\ mpc' = "idle"
  /\ UNCHANGED <<now, idTimestampMap, thShouldRun, mtx, process, frame, currFreq,
                 notifier, ghosts>>

(* Line 92, without the mutex.                                             *)
ComputeDiff ==
  /\ mpc = "diff"
  /\ currFreq' = ToInt(Elapsed(timestamp, idTimestampMap[ID]))
  /\ mpc' = "update"
  /\ UNCHANGED <<now, shared, process, frame, result, notifier, ghosts>>

(* Line 95, without the mutex, and the verdict.                            *)
StoreNext ==
  /\ mpc = "update"
  /\ Store
  /\ result' = verifyFrequency(currFreq, Frequencies[ID])
  /\ currFreq' = 0
  /\ mpc' = "idle"
  /\ UNCHANGED <<now, thReady, thShouldRun, mtx, process, frame, notifier>>

(* MUTANT of Destruct: the loop condition is left alone.                   *)
DestructNoStop ==
  /\ mpc = "idle"
  /\ mpc' = "join"
  /\ UNCHANGED <<now, shared, process, frame, currFreq, result, notifier, ghosts>>

(* ~FrequencyProcessor: stop the loop, then wait for the thread.  Joining  *)
(* a thread that never started throws out of a destructor.                 *)
Destruct ==
  /\ mpc = "idle"
  /\ thShouldRun' = FALSE
  /\ mpc' = "join"
  /\ UNCHANGED <<now, idTimestampMap, thReady, mtx, process, frame, currFreq,
                 result, notifier, ghosts>>

Join ==
  /\ mpc = "join"
  /\ npc \in {"absent", "done"}
  /\ IF npc = "absent" THEN alive' = FALSE ELSE UNCHANGED alive
  /\ mpc' = "destroyed"
  /\ UNCHANGED <<now, shared, logobjSet, frame, currFreq, result, notifier, ghosts>>

-----------------------------------------------------------------------------
(* The notifier thread.                                                    *)
NotifierLoop ==
  /\ npc = "loop"
  /\ IF ~thShouldRun
     THEN npc' = "done" /\ UNCHANGED wake
     ELSE IF thReady
     THEN npc' = "sample" /\ UNCHANGED wake
     ELSE npc' = "sleep" /\ wake' = now + Timer
  /\ UNCHANGED <<now, shared, process, main, duration, todo, alerts, ghosts>>

(* gettimeofday, before the mutex is taken.                                *)
SampleTime ==
  /\ npc = "sample"
  /\ duration' = now
  /\ touched' = {}
  /\ npc' = "lock"
  /\ UNCHANGED <<now, shared, process, main, todo, alerts, wake, lastSeen, resetRace,
                 blank>>

LockScan ==
  /\ npc = "lock"
  /\ mtx = "free"
  /\ mtx' = "notifier"
  /\ todo' = FreqIds
  /\ npc' = "scan"
  /\ UNCHANGED <<now, idTimestampMap, thReady, thShouldRun, process, main,
                 duration, alerts, wake, ghosts>>

(* The iterator stands on the least ID not yet visited.                    *)
AtIterator(id) == id \in todo /\ \A other \in todo : id <= other

(* Line 237: the entry is silent and will be reset, or is passed over.     *)
ScanCheck(id) ==
  /\ npc = "scan"
  /\ AtIterator(id)
  /\ IF Silent(id)
     THEN npc' = "reset" /\ UNCHANGED todo
     ELSE todo' = todo \ {id} /\ UNCHANGED npc
  /\ UNCHANGED <<now, shared, process, main, duration, alerts, wake, ghosts>>

(* MUTANT of ScanReset: the scan ends with the first alert.                *)
ScanResetThenBreak(id) ==
  /\ npc = "reset"
  /\ AtIterator(id)
  /\ alerts' = alerts \cup {id}
  /\ idTimestampMap' = [idTimestampMap EXCEPT ![id] = 0]
  /\ thReady' = FALSE
  /\ todo' = {}
  /\ npc' = "scan"
  /\ resetRace' = (resetRace \/ (mpc = "diff" /\ ID = id))
  /\ blank' = blank \ {id}
  /\ UNCHANGED <<now, thShouldRun, mtx, process, main, duration, wake,
                 lastSeen, touched>>

(* Lines 244-247.                                                          *)
ScanReset(id) ==
  /\ npc = "reset"
  /\ AtIterator(id)
  /\ alerts' = alerts \cup {id}
  /\ idTimestampMap' = [idTimestampMap EXCEPT ![id] = 0]
  /\ thReady' = FALSE
  /\ todo' = todo \ {id}
  /\ npc' = "scan"
  /\ resetRace' = (resetRace \/ (mpc = "diff" /\ ID = id))
  /\ blank' = blank \ {id}
  /\ UNCHANGED <<now, thShouldRun, mtx, process, main, duration, wake,
                 lastSeen, touched>>

(* MUTANT of UnlockScan: the unlock is missing.                            *)
UnlockScanNever ==
  /\ npc = "scan"
  /\ todo = {}
  /\ npc' = "report"
  /\ UNCHANGED <<now, shared, process, main, duration, todo, alerts, wake, ghosts>>

UnlockScan ==
  /\ npc = "scan"
  /\ todo = {}
  /\ mtx' = "free"
  /\ npc' = "report"
  /\ UNCHANGED <<now, idTimestampMap, thReady, thShouldRun, process, main,
                 duration, todo, alerts, wake, ghosts>>

(* A batch goes to the log unless it names every ID there is.              *)
Suppressed == Cardinality(alerts) = Cardinality(FreqIds)

Discard ==
  /\ npc = "report"
  /\ alerts = {} \/ Suppressed
  /\ alerts' = {}
  /\ wake' = now + Timer
  /\ npc' = "sleep"
  /\ UNCHANGED <<now, shared, process, main, duration, todo, ghosts>>

LockReport ==
  /\ npc = "report"
  /\ alerts # {} /\ ~Suppressed
  /\ mtx = "free"
  /\ mtx' = "notifier"
  /\ npc' = "logging"
  /\ UNCHANGED <<now, idTimestampMap, thReady, thShouldRun, process, main,
                 duration, todo, alerts, wake, ghosts>>

(* logobj->logMessage for each message; logobj is the m_logger of          *)
(* RuleRunner, a pointer nobody set when secureLog is false.               *)
LogAlerts ==
  /\ npc = "logging"
  /\ IF logobjSet
     THEN /\ mtx' = "free"
          /\ alerts' = {}
          /\ wake' = now + Timer
          /\ npc' = "sleep"
          /\ UNCHANGED alive
     ELSE /\ alive' = FALSE
          /\ UNCHANGED <<mtx, alerts, wake, npc>>
  /\ UNCHANGED <<now, idTimestampMap, thReady, thShouldRun, logobjSet, main,
                 duration, todo, ghosts>>

(* Once the clock has stopped every sleep is over.                         *)
WakeUp ==
  /\ npc = "sleep"
  /\ now >= wake \/ now = Horizon
  /\ npc' = "loop"
  /\ UNCHANGED <<now, shared, process, main, duration, todo, alerts, wake, ghosts>>

-----------------------------------------------------------------------------
(* The stamps a frame may have now, whatever the stamps before were.       *)
Stamps == {ts \in (now - MaxLag) .. (now + MaxLead) : ts >= 0}

Frame == \E id \in CanIds, ts \in Stamps : processNewID(id, ts)

(* The frame thread finishing the call it is in.                           *)
MainStep ==
  \/ CheckSeen \/ LockFirst \/ StoreFirst \/ SetReady
  \/ ComputeDiff \/ StoreNext
  \/ Join

NotifierStep ==
  \/ NotifierLoop \/ SampleTime \/ LockScan
  \/ \E id \in FreqIds : ScanCheck(id) \/ ScanReset(id)
  \/ UnlockScan \/ Discard \/ LockReport \/ LogAlerts \/ WakeUp

Next ==
  /\ alive
  /\ Tick \/ Frame \/ Destruct \/ MainStep \/ NotifierStep

Spec == Init /\ [][Next]_vars

(* Both threads are scheduled and time passes; nobody has to send a frame  *)
(* or to destroy the object.  The notifier holds the mutex for a moment    *)
(* and then sleeps for notifierTimer seconds, so a frame thread waiting in *)
(* mtx.lock() is not passed over for ever.                                 *)
Fairness ==
  /\ WF_vars(alive /\ Tick)
  /\ WF_vars(alive /\ MainStep)
  /\ SF_vars(alive /\ LockFirst)
  /\ WF_vars(alive /\ NotifierStep)

FairSpec == Spec /\ Fairness

-----------------------------------------------------------------------------
(* Every variable has its type, and a thread inside a critical section is  *)
(* the holder of the mutex.                                                *)
TypeOK ==
  /\ now \in Start .. Horizon
  /\ idTimestampMap \in [FreqIds -> 0 .. now + MaxLead]
  /\ thReady \in BOOLEAN
  /\ thShouldRun \in BOOLEAN
  /\ mtx \in {"free", "main", "notifier"}
  /\ logobjSet \in BOOLEAN
  /\ alive \in BOOLEAN
  /\ mpc \in {"idle", "check", "lock", "store", "ready", "diff", "update",
              "join", "destroyed"}
  /\ ID \in CanIds
  /\ mpc \in {"check", "lock", "store", "ready", "diff", "update"} => ID \in FreqIds
  /\ timestamp \in 0 .. now + MaxLead
  /\ currFreq \in (0 - IntRange) .. (IntRange - 1)
  /\ result \in FreqCodes
  /\ npc \in {"absent", "loop", "sample", "lock", "scan", "reset", "report",
              "logging", "sleep", "done"}
  /\ duration \in 0 .. now
  /\ todo \subseteq FreqIds
  /\ alerts \subseteq FreqIds
  /\ wake \in 0 .. Horizon + Timer
  /\ lastSeen \in [FreqIds -> 0 .. now + MaxLead]
  /\ touched \subseteq FreqIds
  /\ resetRace \in BOOLEAN
  /\ blank \subseteq FreqIds
  /\ mtx = "main" <=> mpc = "store"
  /\ mtx = "notifier" <=> npc \in {"scan", "reset", "logging"}

(* A frame stamped 0 is about to overwrite the entry of its ID.            *)
StoresZero(id) == mpc \in {"store", "update"} /\ ID = id /\ timestamp = 0

(* The notifier resets an ID (and raises its alert) only when the ID had   *)
(* been silent for longer than the timer at the gettimeofday of that scan, *)
(* when its last stamp was ahead of that gettimeofday, or when the frame   *)
(* thread stored a stamp for it after that gettimeofday.  Nothing else     *)
(* makes an entry 0, but a frame that is itself stamped 0.                 *)
AlertJustified ==
  [][\A id \in FreqIds :
       idTimestampMap[id] # 0 /\ idTimestampMap'[id] = 0 =>
         \/ id \in touched
         \/ duration - lastSeen[id] > Timer
         \/ lastSeen[id] > duration
         \/ StoresZero(id)]_vars

(* A finished scan has missed nothing: every ID that is still watched and  *)
(* was not stored during the scan has been heard within the timer, and not *)
(* after the scan's gettimeofday, and every watched entry is the stamp of  *)
(* the last frame of its ID.                                               *)
ScanMissesNothing ==
  npc \in {"report", "logging"} =>
    \A id \in FreqIds \ touched :
      idTimestampMap[id] # 0 =>
        /\ idTimestampMap[id] = lastSeen[id]
        /\ duration - lastSeen[id] \in 0 .. Timer

(* The time difference a frame is judged by is that to the previous frame  *)
(* of its ID as an int, negative for a frame that is older, although the   *)
(* subtraction is unsigned; or, when the notifier reset the entry between  *)
(* lines 79 and 92, the whole stamp as an int.                             *)
FrequencyMeasured ==
  mpc = "update" =>
    currFreq = ToInt(timestamp - IF resetRace THEN 0 ELSE lastSeen[ID])

(* The notifier scans only while thReady is set, and thReady is set only   *)
(* on the path of a zero entry.                                            *)
Blind ==
  /\ ~thReady
  /\ mpc \notin {"lock", "store", "ready"}
  /\ npc \notin {"sample", "lock", "scan", "reset"}
  /\ \A id \in FreqIds : idTimestampMap[id] # 0

(* Once thReady is 0 while every entry is nonzero and neither thread is on *)
(* its way to change that, no sequence of frames arms the notifier again   *)
(* (but for a frame stamped 0, which makes its entry a zero one): a reset  *)
(* that loses the race against line 95 turns silence detection off for     *)
(* good.                                                                   *)
BlindForEver == [][Blind => Blind' \/ StoresZero(ID)]_vars

-----------------------------------------------------------------------------
(* The life of the alerts, as SilenceWatch has it.  The code itself cannot *)
(* tell an ID whose last frame was stamped 0 from one it does not watch.   *)
Watch == INSTANCE SilenceWatch WITH
  Ids     <- FreqIds,
  watched <- {id \in FreqIds : idTimestampMap[id] # 0} \cup blank,
  raised  <- alerts

(* Every behaviour of the two threads is one of the watch.                 *)
ImplementsWatch == Watch!Spec

(* Neither call is kept waiting for ever: the frame thread gets out of     *)
(* processNewID whatever the notifier does with the mutex, and the         *)
(* destructor comes back from the join.                                    *)
CallsReturn ==
  /\ mpc \in {"check", "lock", "store", "ready", "diff", "update"}
       ~> mpc = "idle" \/ ~alive
  /\ mpc = "join" ~> mpc = "destroyed" \/ ~alive

(* While the notifier runs and is armed, a silent ID does not stay watched *)
(* and unreported: it is reset, heard, or the notifier is no longer armed. *)
OverdueArmed(id) ==
  /\ alive /\ thShouldRun /\ thReady
  /\ npc # "absent"
  /\ idTimestampMap[id] # 0
  /\ now - idTimestampMap[id] > Timer

SilenceNoticed ==
  \A id \in FreqIds : []<>(npc = "done" \/ ~OverdueArmed(id))

-----------------------------------------------------------------------------
(* Refuted: what the source says of itself.                                *)

(* "compute the new frequency based on the previous timestamp"             *)
(* (FrequencyProcessor.cpp:68).  A reset between lines 79 and 92 makes it  *)
(* the difference to 0.                                                    *)
FrequencyFromPrevious ==
  mpc = "update" => currFreq = ToInt(timestamp - lastSeen[ID])

(* "Frame not recieved for: " (FrequencyProcessor.cpp:244).  The time is   *)
(* sampled before the mutex is taken, and the entry read again after a     *)
(* frame may have been stored: an ID heard a moment ago is reported too.   *)
AlertedWereSilent ==
  [][\A id \in FreqIds :
       idTimestampMap[id] # 0 /\ idTimestampMap'[id] = 0 =>
         \/ duration - lastSeen[id] > Timer
         \/ StoresZero(id)]_vars
=============================================================================
