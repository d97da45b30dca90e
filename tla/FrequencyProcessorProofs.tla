---------------------- MODULE FrequencyProcessorProofs ----------------------
(***************************************************************************)
(* The safety properties of FrequencyProcessor for every set of            *)
(* identifiers, timer, clock and integer width.                            *)
(***************************************************************************)
EXTENDS FrequencyProcessor, FiniteSetTheorems, TLAPS

(* A truncation to int is an int, and leaves an int alone.                 *)
LEMMA ToIntRange ==
  ASSUME NEW x \in Int
  PROVE  ToInt(x) \in (0 - IntRange) .. (IntRange - 1)
<1>1. IntRange \in Nat \ {0}
  BY FrequencyAssumption
<1>2. (x + IntRange) % (2 * IntRange) \in 0 .. (2 * IntRange - 1)
  BY <1>1
<1>3. QED
  BY <1>1, <1>2 DEF ToInt

LEMMA ToIntSmall ==
  ASSUME NEW x \in (0 - IntRange) .. (IntRange - 1)
  PROVE  ToInt(x) = x
<1>1. IntRange \in Nat \ {0}
  BY FrequencyAssumption
<1>2. (x + IntRange) % (2 * IntRange) = x + IntRange
  BY <1>1
<1>3. QED
  BY <1>1, <1>2 DEF ToInt

(* Between -n and n there is one multiple of n.                            *)
LEMMA OnlyMultiple ==
  ASSUME NEW n \in Nat \ {0}, NEW k \in Int, -n < n * k, n * k < n
  PROVE  k = 0
<1>1. CASE k >= 1
  <2>1. n * k >= n
    BY <1>1, SMTT(30)
  <2>2. QED
    BY <2>1
<1>2. CASE k <= -1
  <2>1. n * k <= -n
    BY <1>2, SMTT(30)
  <2>2. QED
    BY <2>1
<1>3. QED
  BY <1>1, <1>2

(* Quotient and remainder.                                                 *)
LEMMA DivMod ==
  ASSUME NEW n \in Nat \ {0}, NEW x \in Int
  PROVE  /\ x \div n \in Int
         /\ x % n \in 0 .. (n - 1)
         /\ x = n * (x \div n) + (x % n)
  BY SMTT(30)

(* A remainder is unique.                                                  *)
LEMMA RemainderUnique ==
  ASSUME NEW n \in Nat \ {0}, NEW q \in Int, NEW p \in Int,
         NEW r \in 0 .. (n - 1), NEW s \in 0 .. (n - 1), n * q + r = n * p + s
  PROVE  r = s
<1>1. n * (q - p) = s - r
  BY SMTT(30)
<1>2. q - p \in Int /\ -n < n * (q - p) /\ n * (q - p) < n
  BY <1>1
<1>3. q - p = 0
  BY <1>2, OnlyMultiple
<1>4. QED
  BY <1>1, <1>3

(* Adding a multiple of the modulus leaves the remainder as it is.         *)
LEMMA AddMultiple ==
  ASSUME NEW n \in Nat \ {0}, NEW x \in Int, NEW w \in Int, w % n = 0
  PROVE  (x + w) % n = x % n
<1>1. PICK q \in Int : x = n * q + (x % n)
  BY DivMod
<1>2. PICK k \in Int : w = n * k
  <2>1. w \div n \in Int /\ w = n * (w \div n) + (w % n)
    BY DivMod
  <2>2. w = n * (w \div n)
    BY <2>1
  <2>3. QED
    BY <2>1, <2>2
<1>3. x + w \in Int
  OBVIOUS
<1>4. PICK p \in Int : x + w = n * p + ((x + w) % n)
  BY <1>3, DivMod
<1>5. x % n \in 0 .. (n - 1) /\ (x + w) % n \in 0 .. (n - 1)
  BY <1>3, DivMod
<1>6. n * (q + k) = n * q + n * k
  BY SMTT(30)
<1>7. n * (q + k) + (x % n) = n * p + ((x + w) % n)
  BY <1>1, <1>2, <1>4, <1>5, <1>6
<1>8. q + k \in Int
  OBVIOUS
<1>9. QED
  BY <1>5, <1>7, <1>8, RemainderUnique

(* The unsigned subtraction of line 92, assigned to an int, is the signed  *)
(* difference assigned to an int: the wrap of the one is a multiple of the *)
(* width of the other.                                                     *)
LEMMA ElapsedToInt ==
  ASSUME NEW t \in Nat, NEW s \in Nat
  PROVE  ToInt(Elapsed(t, s)) = ToInt(t - s)
<1>1. CASE s <= t
  BY <1>1 DEF Elapsed
<1>2. CASE ~(s <= t)
  <2>1. /\ 2 * IntRange \in Nat \ {0}
        /\ ULongRange \in Int
        /\ ULongRange % (2 * IntRange) = 0
        /\ t - s + IntRange \in Int
    BY FrequencyAssumption
  <2>2. ((t - s + IntRange) + ULongRange) % (2 * IntRange) = (t - s + IntRange) % (2 * IntRange)
    BY <2>1, AddMultiple
  <2>3. Elapsed(t, s) + IntRange = (t - s + IntRange) + ULongRange
    BY <1>2, <2>1, FrequencyAssumption DEF Elapsed
  <2>4. QED
    BY <2>2, <2>3 DEF ToInt
<1>3. QED
  BY <1>1, <1>2

LEMMA TypeInit == Init => TypeOK
<1> SUFFICES ASSUME Init PROVE TypeOK
  OBVIOUS
<1>1. /\ now \in Start .. Horizon
      /\ timestamp \in 0 .. now + MaxLead
      /\ currFreq \in (0 - IntRange) .. (IntRange - 1)
      /\ duration \in 0 .. now
      /\ wake \in 0 .. Horizon + Timer
  BY FrequencyAssumption DEF Init
<1>2. /\ idTimestampMap \in [FreqIds -> 0 .. now + MaxLead]
      /\ lastSeen \in [FreqIds -> 0 .. now + MaxLead]
  BY <1>1, FrequencyAssumption DEF Init
<1>3. QED
  BY <1>1, <1>2 DEF Init, TypeOK, FreqCodes

LEMMA TypeNext == TypeOK /\ [Next]_vars => TypeOK'
<1> SUFFICES ASSUME TypeOK, [Next]_vars PROVE TypeOK'
  OBVIOUS
<1> USE FrequencyAssumption
<1>1. CASE Tick
  BY <1>1 DEF TypeOK, Tick, shared, process, main, frame, notifier, ghosts
<1>2. CASE Frame
  <2>1. PICK id \in CanIds, ts \in Stamps : processNewID(id, ts)
    BY <1>2 DEF Frame
  <2>2. timestamp' \in 0 .. now' + MaxLead
    BY <2>1 DEF processNewID, TypeOK, Stamps
  <2>3. CASE id \in FreqIds
    BY <2>1, <2>2, <2>3 DEF TypeOK, processNewID, shared, process, notifier
  <2>4. CASE id \notin FreqIds
    BY <2>1, <2>2, <2>4 DEF TypeOK, processNewID, shared, process, notifier, FreqCodes
  <2>5. QED
    BY <2>3, <2>4
<1>3. CASE Destruct
  BY <1>3 DEF TypeOK, Destruct, shared, process, main, frame, notifier, ghosts
<1>4. CASE CheckSeen
  BY <1>4 DEF TypeOK, CheckSeen, shared, process, main, frame, notifier, ghosts
<1>5. CASE LockFirst
  BY <1>5 DEF TypeOK, LockFirst, shared, process, main, frame, notifier, ghosts
<1>6. CASE StoreFirst
  BY <1>6 DEF TypeOK, StoreFirst, Store, shared, process, main, frame, notifier, ghosts
<1>7. CASE SetReady
  BY <1>7 DEF TypeOK, SetReady, shared, process, main, frame, notifier, ghosts, FreqCodes
<1>8. CASE ComputeDiff
  <2>1. ID \in FreqIds /\ timestamp \in Int /\ idTimestampMap[ID] \in Int
    BY <1>8 DEF TypeOK, ComputeDiff
  <2>2. Elapsed(timestamp, idTimestampMap[ID]) \in Int
    BY <2>1, FrequencyAssumption DEF Elapsed
  <2>3. currFreq' \in (0 - IntRange) .. (IntRange - 1)
    BY <1>8, <2>2, ToIntRange DEF ComputeDiff
  <2>4. QED
    BY <1>8, <2>3 DEF TypeOK, ComputeDiff, shared, process, main, frame, notifier, ghosts
<1>9. CASE StoreNext
  BY <1>9 DEF TypeOK, StoreNext, Store, verifyFrequency, shared, process, main, frame, notifier, ghosts, FreqCodes
<1>10. CASE Join
  BY <1>10 DEF TypeOK, Join, shared, process, main, frame, notifier, ghosts
<1>11. CASE NotifierLoop
  BY <1>11 DEF TypeOK, NotifierLoop, shared, process, main, frame, notifier, ghosts
<1>12. CASE SampleTime
  BY <1>12 DEF TypeOK, SampleTime, shared, process, main, frame, notifier, ghosts
<1>13. CASE LockScan
  BY <1>13 DEF TypeOK, LockScan, shared, process, main, frame, notifier, ghosts
<1>14. ASSUME NEW id \in FreqIds, ScanCheck(id) PROVE TypeOK'
  BY <1>14 DEF TypeOK, ScanCheck, AtIterator, shared, process, main, frame, notifier, ghosts
<1>15. ASSUME NEW id \in FreqIds, ScanReset(id) PROVE TypeOK'
  <2>1. resetRace' \in BOOLEAN
    BY <1>15 DEF ScanReset
  <2>2. idTimestampMap' \in [FreqIds -> 0 .. now' + MaxLead]
    BY <1>15 DEF ScanReset, TypeOK
  <2>3. QED
    BY <1>15, <2>1, <2>2 DEF TypeOK, ScanReset, process, main, frame
<1>16. CASE UnlockScan
  BY <1>16 DEF TypeOK, UnlockScan, shared, process, main, frame, notifier, ghosts
<1>17. CASE Discard
  BY <1>17 DEF TypeOK, Discard, shared, process, main, frame, notifier, ghosts
<1>18. CASE LockReport
  BY <1>18 DEF TypeOK, LockReport, shared, process, main, frame, notifier, ghosts
<1>19. CASE LogAlerts
  <2>1. CASE logobjSet
    BY <1>19, <2>1 DEF TypeOK, LogAlerts, main, frame, ghosts
  <2>2. CASE ~logobjSet
    BY <1>19, <2>2 DEF TypeOK, LogAlerts, main, frame, ghosts
  <2>3. QED
    BY <2>1, <2>2
<1>20. CASE WakeUp
  BY <1>20 DEF TypeOK, WakeUp, shared, process, main, frame, notifier, ghosts
<1>21. CASE UNCHANGED vars
  BY <1>21 DEF TypeOK, vars, shared, process, main, frame, notifier, ghosts
<1>22. QED
  BY <1>1, <1>2, <1>3, <1>4, <1>5, <1>6, <1>7, <1>8, <1>9, <1>10, <1>11, <1>12,
     <1>13, <1>14, <1>15, <1>16, <1>17, <1>18, <1>19, <1>20, <1>21
     DEF Next, MainStep, NotifierStep

(* Type correctness, the holder of the mutex included, for every set of    *)
(* watched IDs and every clock.                                            *)
THEOREM TypeCorrect == Spec => []TypeOK
BY TypeInit, TypeNext, PTL DEF Spec

-----------------------------------------------------------------------------
(* Why a frame is judged by the right difference: an entry is 0 or the     *)
(* last stamp, and between lines 79 and 92 only a reset takes it from the  *)
(* one to the other.                                                       *)
StampInv ==
  /\ \A id \in FreqIds : idTimestampMap[id] \in {0, lastSeen[id]}
  /\ mpc = "check" => ~resetRace
  /\ mpc = "diff" => idTimestampMap[ID] = IF resetRace THEN 0 ELSE lastSeen[ID]
  /\ FrequencyMeasured

(* Why a scan is sound and complete: what the iterator has passed and      *)
(* nobody stored since was within the timer, and what it stops at was not, *)
(* or was stamped after the sample.                                        *)
ScanInv ==
  /\ npc \in {"scan", "reset"} =>
       \A id \in FreqIds \ (touched \cup todo) :
         idTimestampMap[id] # 0 => duration - lastSeen[id] \in 0 .. Timer
  /\ npc = "reset" =>
       \A id \in todo :
         AtIterator(id) =>
           \/ id \in touched
           \/ duration - lastSeen[id] > Timer
           \/ lastSeen[id] > duration
  /\ ScanMissesNothing

LEMMA StampInit == Init => StampInv
BY DEF Init, StampInv, FrequencyMeasured

LEMMA StampNext == TypeOK /\ StampInv /\ [Next]_vars => StampInv'
<1> SUFFICES ASSUME TypeOK, StampInv, [Next]_vars PROVE StampInv'
  OBVIOUS
<1> USE FrequencyAssumption
<1>1. CASE Tick
  BY <1>1 DEF StampInv, FrequencyMeasured, Tick, shared, process, main, frame, notifier, ghosts
<1>2. CASE Frame
  BY <1>2 DEF StampInv, FrequencyMeasured, Frame, processNewID, shared
<1>3. CASE Destruct
  BY <1>3 DEF StampInv, FrequencyMeasured, Destruct, ghosts
<1>4. CASE CheckSeen
  BY <1>4 DEF TypeOK, StampInv, FrequencyMeasured, CheckSeen, shared, frame, ghosts
<1>5. CASE LockFirst
  BY <1>5 DEF StampInv, FrequencyMeasured, LockFirst, frame, ghosts
<1>6. CASE StoreFirst
  BY <1>6 DEF TypeOK, StampInv, FrequencyMeasured, StoreFirst, Store, frame
<1>7. CASE SetReady
  BY <1>7 DEF StampInv, FrequencyMeasured, SetReady, frame, ghosts
<1>8. CASE ComputeDiff
  <2>1. /\ ID \in FreqIds /\ timestamp \in Nat /\ idTimestampMap[ID] \in Nat
        /\ idTimestampMap[ID] = IF resetRace THEN 0 ELSE lastSeen[ID]
    BY <1>8 DEF TypeOK, StampInv, ComputeDiff
  <2>2. currFreq' = ToInt(timestamp - idTimestampMap[ID])
    BY <1>8, <2>1, ElapsedToInt DEF ComputeDiff
  <2>3. QED
    BY <1>8, <2>1, <2>2 DEF StampInv, FrequencyMeasured, ComputeDiff, shared, frame, ghosts
<1>9. CASE StoreNext
  BY <1>9 DEF TypeOK, StampInv, FrequencyMeasured, StoreNext, Store, frame
<1>10. CASE Join
  BY <1>10 DEF StampInv, FrequencyMeasured, Join, shared, frame, ghosts
<1>11. CASE NotifierLoop \/ SampleTime \/ LockScan \/ UnlockScan
            \/ Discard \/ LockReport \/ LogAlerts \/ WakeUp \/ UNCHANGED vars
  <2>1. UNCHANGED <<idTimestampMap, lastSeen, resetRace, mpc, ID, timestamp, currFreq>>
    BY <1>11 DEF NotifierLoop, SampleTime, LockScan, UnlockScan, Discard, LockReport,
                 LogAlerts, WakeUp, vars, shared, main, frame, ghosts
  <2>2. QED
    BY <2>1 DEF StampInv, FrequencyMeasured
<1>12. ASSUME NEW id \in FreqIds, ScanCheck(id) PROVE StampInv'
  BY <1>12 DEF StampInv, FrequencyMeasured, ScanCheck, shared, main, frame, ghosts
<1>13. ASSUME NEW id \in FreqIds, ScanReset(id) PROVE StampInv'
  <2>1. CASE mpc = "diff" /\ ID = id
    BY <1>13, <2>1 DEF TypeOK, StampInv, FrequencyMeasured, ScanReset, main, frame
  <2>2. CASE ~(mpc = "diff" /\ ID = id)
    BY <1>13, <2>2 DEF TypeOK, StampInv, FrequencyMeasured, ScanReset, main, frame
  <2>3. QED
    BY <2>1, <2>2
<1>14. QED
  BY <1>1, <1>2, <1>3, <1>4, <1>5, <1>6, <1>7, <1>8, <1>9, <1>10, <1>11, <1>12, <1>13
     DEF Next, MainStep, NotifierStep

LEMMA StampCorrect == Spec => []StampInv
BY TypeCorrect, StampInit, StampNext, PTL DEF Spec

(* A frame is judged by the int difference to the previous frame of its ID *)
(* or, after a reset under its feet, by its whole stamp as an int.         *)
THEOREM MeasuredCorrect == Spec => []FrequencyMeasured
<1>1. StampInv => FrequencyMeasured
  BY DEF StampInv
<1>2. QED
  BY <1>1, StampCorrect, PTL

(* FREQ_ERROR is the answer to a frame that is older than the previous     *)
(* frame of its ID, and to no other, but for two cases: the notifier reset *)
(* the entry between lines 79 and 92, or the time between the two frames   *)
(* does not fit an int.                                                    *)
ErrorMeansOlder ==
  mpc = "update" =>
    \/ resetRace
    \/ timestamp - lastSeen[ID] \notin (0 - IntRange) .. (IntRange - 1)
    \/ verifyFrequency(currFreq, Frequencies[ID]) = FWCORE_FREQ_ERROR
         <=> timestamp < lastSeen[ID]

(* The verdict FREQ_ERROR of lines 121-124 tells an older frame from a     *)
(* younger one although the subtraction of line 92 is unsigned, and fails to*)
(* do so only in the two cases named.                                      *)
THEOREM NegativeExplained == Spec => []ErrorMeansOlder
<1>1. TypeOK /\ StampInv => ErrorMeansOlder
  <2> DEFINE gap == timestamp - lastSeen[ID]
  <2> SUFFICES ASSUME TypeOK, StampInv, mpc = "update", ~resetRace,
                      gap \in (0 - IntRange) .. (IntRange - 1)
               PROVE  verifyFrequency(currFreq, Frequencies[ID]) = FWCORE_FREQ_ERROR
                        <=> timestamp < lastSeen[ID]
    BY DEF ErrorMeansOlder
  <2>1. /\ timestamp \in Int
        /\ lastSeen[ID] \in Int
        /\ gap \in Int
    BY FrequencyAssumption DEF TypeOK
  <2>2. currFreq = ToInt(gap)
    BY DEF StampInv, FrequencyMeasured
  <2>3. currFreq = gap
    BY <2>1, <2>2, ToIntSmall
  <2>4. verifyFrequency(currFreq, Frequencies[ID]) = FWCORE_FREQ_ERROR <=> currFreq < 0
    BY DEF verifyFrequency, FWCORE_FREQ_ERROR, FWCORE_FREQ_OK, FWCORE_FREQ_BAD
  <2>5. QED
    BY <2>1, <2>3, <2>4
<1>2. QED
  BY <1>1, TypeCorrect, StampCorrect, PTL

-----------------------------------------------------------------------------
LEMMA ScanInit == Init => ScanInv
BY DEF Init, ScanInv, ScanMissesNothing

(* What an unsigned difference says of an entry: it is the silence itself, *)
(* or, for a stamp after the sample, larger than any timer.                *)
LEMMA SilentMeans ==
  ASSUME TypeOK, StampInv, NEW id \in FreqIds
  PROVE  /\ Silent(id) => \/ duration - lastSeen[id] > Timer
                          \/ lastSeen[id] > duration
         /\ ~Silent(id) /\ idTimestampMap[id] # 0
              => duration - lastSeen[id] \in 0 .. Timer
<1>1. /\ duration \in 0 .. Horizon
      /\ lastSeen[id] \in 0 .. Horizon + MaxLead
      /\ Timer \in Nat /\ Horizon \in Nat /\ MaxLead \in Nat /\ ULongRange \in Nat
      /\ ULongRange > Horizon + MaxLead + Timer
  BY FrequencyAssumption DEF TypeOK
<1>2. idTimestampMap[id] # 0 => idTimestampMap[id] = lastSeen[id]
  BY DEF StampInv
<1>3. QED
  BY <1>1, <1>2 DEF Silent, Elapsed

LEMMA ScanNext == TypeOK /\ StampInv /\ ScanInv /\ [Next]_vars => ScanInv'
<1> SUFFICES ASSUME TypeOK, StampInv, ScanInv, [Next]_vars PROVE ScanInv'
  OBVIOUS
<1> USE FrequencyAssumption
<1>1. CASE Tick \/ Frame \/ Destruct \/ CheckSeen \/ LockFirst \/ SetReady
           \/ ComputeDiff \/ Join \/ UNCHANGED vars
  <2>1. UNCHANGED <<idTimestampMap, notifier, lastSeen, touched>>
    BY <1>1 DEF Tick, Frame, processNewID, Destruct, CheckSeen, LockFirst, SetReady,
                ComputeDiff, Join, vars, shared, ghosts
  <2>2. QED
    BY <2>1 DEF ScanInv, ScanMissesNothing, AtIterator, notifier
<1>2. CASE StoreFirst \/ StoreNext
  <2>1. /\ UNCHANGED notifier
        /\ touched' = touched \cup {ID}
        /\ ID \in FreqIds
        /\ \A id \in FreqIds \ {ID} : /\ idTimestampMap'[id] = idTimestampMap[id]
                                      /\ lastSeen'[id] = lastSeen[id]
    BY <1>2 DEF TypeOK, StoreFirst, StoreNext, Store
  <2>2. UNCHANGED <<npc, duration, todo>>
    BY <2>1 DEF notifier
  <2>3. ScanMissesNothing'
    BY <2>1, <2>2 DEF ScanInv, ScanMissesNothing
  <2>5. npc' \in {"scan", "reset"} =>
          \A id \in FreqIds \ (touched' \cup todo') :
            idTimestampMap'[id] # 0 => duration' - lastSeen'[id] \in 0 .. Timer
    BY <2>1, <2>2 DEF ScanInv
  <2>6. npc' = "reset" =>
          \A id \in todo' : AtIterator(id)' =>
             \/ id \in touched'
             \/ duration' - lastSeen'[id] > Timer
             \/ lastSeen'[id] > duration'
    <3> SUFFICES ASSUME npc = "reset", NEW id \in todo, AtIterator(id), id \notin touched'
                 PROVE  duration - lastSeen'[id] > Timer \/ lastSeen'[id] > duration
      BY <2>2 DEF AtIterator
    <3>1. id \in FreqIds \ {ID} /\ id \notin touched
      BY <2>1 DEF TypeOK
    <3>2. QED
      BY <2>1, <3>1 DEF ScanInv
  <2>7. QED
    BY <2>3, <2>5, <2>6 DEF ScanInv
<1>3. CASE NotifierLoop \/ WakeUp \/ Discard
  BY <1>3 DEF NotifierLoop, WakeUp, Discard, ScanInv, ScanMissesNothing
<1>4. CASE SampleTime
  BY <1>4 DEF TypeOK, SampleTime, ScanInv, ScanMissesNothing
<1>5. CASE LockScan
  BY <1>5 DEF LockScan, main, ghosts, ScanInv, ScanMissesNothing
<1>6. ASSUME NEW id \in FreqIds, ScanCheck(id) PROVE ScanInv'
  <2>1. /\ UNCHANGED <<idTimestampMap, lastSeen, touched, duration>>
        /\ npc = "scan" /\ AtIterator(id)
    BY <1>6 DEF ScanCheck, shared, ghosts
  <2>3. CASE Silent(id)
    <3>1. npc' = "reset" /\ todo' = todo
      BY <1>6, <2>3 DEF ScanCheck
    <3>2. duration - lastSeen[id] > Timer \/ lastSeen[id] > duration
      BY <2>3, SilentMeans
    <3>3. \A other \in todo : AtIterator(other) => other = id
      BY <2>1 DEF AtIterator, TypeOK
    <3>4. QED
      BY <2>1, <3>1, <3>2, <3>3 DEF ScanInv, ScanMissesNothing, AtIterator
  <2>4. CASE ~Silent(id)
    <3>1. npc' = "scan" /\ todo' = todo \ {id}
      BY <1>6, <2>4, <2>1 DEF ScanCheck
    <3>2. idTimestampMap[id] # 0 => duration - lastSeen[id] \in 0 .. Timer
      BY <2>4, SilentMeans
    <3>3. QED
      BY <2>1, <3>1, <3>2 DEF ScanInv, ScanMissesNothing
  <2>5. QED
    BY <2>3, <2>4
<1>7. ASSUME NEW id \in FreqIds, ScanReset(id) PROVE ScanInv'
  <2>1. /\ UNCHANGED <<lastSeen, touched, duration>>
        /\ npc = "reset" /\ npc' = "scan"
        /\ todo' = todo \ {id}
        /\ idTimestampMap'[id] = 0
        /\ \A other \in FreqIds \ {id} : idTimestampMap'[other] = idTimestampMap[other]
    BY <1>7 DEF TypeOK, ScanReset
  <2>2. QED
    BY <2>1 DEF ScanInv, ScanMissesNothing
<1>8. CASE UnlockScan
  <2>1. /\ UNCHANGED <<idTimestampMap, lastSeen, touched, duration>>
        /\ npc = "scan" /\ npc' = "report" /\ todo = {}
    BY <1>8 DEF UnlockScan, ghosts
  <2>2. \A id \in FreqIds \ touched :
           idTimestampMap[id] # 0 => /\ idTimestampMap[id] = lastSeen[id]
                                     /\ duration - lastSeen[id] \in 0 .. Timer
    BY <2>1 DEF StampInv, ScanInv
  <2>3. ScanMissesNothing'
    BY <2>1, <2>2 DEF ScanMissesNothing
  <2>4. QED
    BY <2>1, <2>3 DEF ScanInv
<1>9. CASE LockReport
  BY <1>9 DEF LockReport, ghosts, ScanInv, ScanMissesNothing
<1>10. CASE LogAlerts
  <2>1. /\ UNCHANGED <<idTimestampMap, lastSeen, touched, duration>>
        /\ npc = "logging" /\ npc' \in {"sleep", "logging"}
    BY <1>10 DEF LogAlerts, ghosts
  <2>2. QED
    BY <2>1 DEF ScanInv, ScanMissesNothing
<1>11. QED
  BY <1>1, <1>2, <1>3, <1>4, <1>5, <1>6, <1>7, <1>8, <1>9, <1>10
     DEF Next, MainStep, NotifierStep

LEMMA ScanCorrect == Spec => []ScanInv
BY TypeCorrect, StampCorrect, ScanInit, ScanNext, PTL DEF Spec

(* A scan that has ended has missed no silent ID it could have seen.       *)
THEOREM NothingMissed == Spec => []ScanMissesNothing
<1>1. ScanInv => ScanMissesNothing
  BY DEF ScanInv
<1>2. QED
  BY <1>1, ScanCorrect, PTL

(* Only an ID that was silent at the sample, stamped after it, or stored   *)
(* since, is ever reset and reported; and but for a frame stamped 0 nothing*)
(* else makes an entry 0.                                                  *)
THEOREM AlertsAreJustified == Spec => AlertJustified
<1> DEFINE J == \A id \in FreqIds :
                  idTimestampMap[id] # 0 /\ idTimestampMap'[id] = 0
                    => \/ id \in touched
                       \/ duration - lastSeen[id] > Timer
                       \/ lastSeen[id] > duration
                       \/ StoresZero(id)
<1>1. TypeOK /\ StampInv /\ ScanInv /\ [Next]_vars => [J]_vars
  <2> SUFFICES ASSUME TypeOK, StampInv, ScanInv, Next PROVE J
    OBVIOUS
  <2> USE FrequencyAssumption
  <2>1. CASE \E id \in FreqIds : ScanReset(id)
    <3>1. PICK id \in FreqIds : ScanReset(id)
      BY <2>1
    <3>2. /\ npc = "reset" /\ id \in todo /\ AtIterator(id)
          /\ \A other \in FreqIds \ {id} : idTimestampMap'[other] = idTimestampMap[other]
      BY <3>1 DEF TypeOK, ScanReset, AtIterator
    <3>3. \/ id \in touched
          \/ duration - lastSeen[id] > Timer
          \/ lastSeen[id] > duration
      BY <3>2 DEF ScanInv
    <3>4. QED
      BY <3>2, <3>3
  <2>2. CASE StoreFirst \/ StoreNext
    <3>1. /\ idTimestampMap' = [idTimestampMap EXCEPT ![ID] = timestamp]
          /\ mpc \in {"store", "update"}
      BY <2>2 DEF StoreFirst, StoreNext, Store
    <3>2. QED
      BY <3>1 DEF TypeOK, StoresZero
  <2>3. CASE UNCHANGED idTimestampMap
    BY <2>3
  <2>4. QED
    BY <2>1, <2>2, <2>3 DEF Next, MainStep, NotifierStep, Tick, Frame, processNewID,
       Destruct, CheckSeen, LockFirst, SetReady, ComputeDiff, Join, NotifierLoop,
       SampleTime, LockScan, ScanCheck, UnlockScan, Discard, LockReport, LogAlerts,
       WakeUp, shared
<1>2. QED
  BY <1>1, TypeCorrect, StampCorrect, ScanCorrect, PTL DEF Spec, AlertJustified

-----------------------------------------------------------------------------
(* The mutex keeps a first stamp out of a scan: while the notifier is in   *)
(* its scan an entry leaves 0 only through the unlocked store of line 95.  *)
NoFirstStampDuringScan ==
  [][\A id \in FreqIds :
       mtx = "notifier" /\ idTimestampMap[id] = 0 /\ idTimestampMap'[id] # 0
         => mpc = "update" /\ ID = id]_vars

(* An entry leaves 0 during a scan only through the unlocked store.        *)
THEOREM FirstStampsExcluded == Spec => NoFirstStampDuringScan
<1> DEFINE J == \A id \in FreqIds :
                  mtx = "notifier" /\ idTimestampMap[id] = 0 /\ idTimestampMap'[id] # 0
                    => mpc = "update" /\ ID = id
<1>1. TypeOK /\ [Next]_vars => [J]_vars
  <2> SUFFICES ASSUME TypeOK, Next PROVE J
    OBVIOUS
  <2>1. CASE StoreFirst
    BY <2>1 DEF TypeOK, StoreFirst
  <2>2. CASE StoreNext
    BY <2>2 DEF TypeOK, StoreNext, Store
  <2>3. CASE \E id \in FreqIds : ScanReset(id)
    BY <2>3 DEF TypeOK, ScanReset
  <2>4. CASE UNCHANGED idTimestampMap
    BY <2>4
  <2>5. QED
    BY <2>1, <2>2, <2>3, <2>4 DEF Next, MainStep, NotifierStep, Tick, Frame,
       processNewID, Destruct, CheckSeen, LockFirst, SetReady, ComputeDiff, Join,
       NotifierLoop, SampleTime, LockScan, ScanCheck, UnlockScan, Discard, LockReport,
       LogAlerts, WakeUp, shared
<1>2. QED
  BY <1>1, TypeCorrect, PTL DEF Spec, NoFirstStampDuringScan

(* A notifier that has gone blind stays blind, unless a frame stamped 0    *)
(* arrives.                                                                *)
THEOREM BlindnessIsFinal == Spec => BlindForEver
<1>1. TypeOK /\ [Next]_vars => [Blind => Blind' \/ StoresZero(ID)]_vars
  <2> SUFFICES ASSUME TypeOK, Next, Blind, ~StoresZero(ID) PROVE Blind'
    OBVIOUS
  <2> USE FrequencyAssumption
  <2>1. CASE Tick \/ Frame \/ Destruct \/ Join
    BY <2>1 DEF Tick, Frame, processNewID, Destruct, Join, Blind, shared, main, notifier
  <2>2. CASE CheckSeen
    BY <2>2 DEF TypeOK, CheckSeen, Blind, shared, notifier
  <2>3. CASE LockFirst \/ StoreFirst \/ SetReady
    BY <2>3 DEF LockFirst, StoreFirst, SetReady, Blind
  <2>4. CASE ComputeDiff
    BY <2>4 DEF ComputeDiff, Blind, shared, notifier
  <2>5. CASE StoreNext
    <3>1. /\ timestamp # 0
          /\ idTimestampMap' = [idTimestampMap EXCEPT ![ID] = timestamp]
      BY <2>5 DEF StoreNext, Store, StoresZero
    <3>2. \A id \in FreqIds : idTimestampMap'[id] # 0
      BY <3>1 DEF TypeOK, Blind
    <3>3. QED
      BY <2>5, <3>2 DEF StoreNext, Blind, notifier
  <2>6. CASE NotifierLoop
    BY <2>6 DEF NotifierLoop, Blind, shared, main
  <2>7. CASE SampleTime \/ LockScan \/ UnlockScan
               \/ \E id \in FreqIds : ScanCheck(id) \/ ScanReset(id)
    BY <2>7 DEF SampleTime, LockScan, UnlockScan, ScanCheck, ScanReset, Blind
  <2>8. CASE Discard \/ LockReport \/ WakeUp
    BY <2>8 DEF Discard, LockReport, WakeUp, Blind, shared, main
  <2>9. CASE LogAlerts
    BY <2>9 DEF LogAlerts, Blind, main
  <2>10. QED
    BY <2>1, <2>2, <2>3, <2>4, <2>5, <2>6, <2>7, <2>8, <2>9
       DEF Next, MainStep, NotifierStep
<1>2. QED
  BY <1>1, TypeCorrect, PTL DEF Spec, BlindForEver

-----------------------------------------------------------------------------
(* Why a batch names an ID once, and only a watched one: the iterator has  *)
(* not reached the IDs still to come, and stops only at a nonzero entry,   *)
(* which may have become the 0 of a frame's stamp since.                   *)
BatchInv ==
  /\ npc \in {"scan", "reset"} => alerts \cap todo = {}
  /\ npc \notin {"scan", "reset", "report", "logging"} => alerts = {}
  /\ npc = "reset" => \A id \in todo : AtIterator(id) => idTimestampMap[id] # 0 \/ id \in blank

LEMMA BatchInit == Init => BatchInv
BY DEF Init, BatchInv

LEMMA BatchNext == TypeOK /\ BatchInv /\ [Next]_vars => BatchInv'
<1> SUFFICES ASSUME TypeOK, BatchInv, [Next]_vars PROVE BatchInv'
  OBVIOUS
<1> USE FrequencyAssumption
<1>1. CASE Tick \/ Frame \/ Destruct \/ CheckSeen \/ LockFirst \/ SetReady
           \/ ComputeDiff \/ Join \/ UNCHANGED vars
  <2>1. UNCHANGED <<idTimestampMap, npc, todo, alerts, blank>>
    BY <1>1 DEF Tick, Frame, processNewID, Destruct, CheckSeen, LockFirst, SetReady,
                ComputeDiff, Join, vars, shared, notifier, ghosts
  <2>2. QED
    BY <2>1 DEF BatchInv, AtIterator
<1>2. CASE StoreFirst \/ StoreNext
  <2>1. /\ UNCHANGED <<npc, todo, alerts>>
        /\ \A id \in FreqIds : idTimestampMap[id] # 0 \/ id \in blank
                                 => idTimestampMap'[id] # 0 \/ id \in blank'
    BY <1>2 DEF TypeOK, StoreFirst, StoreNext, Store, notifier
  <2>2. QED
    BY <2>1 DEF TypeOK, BatchInv, AtIterator
<1>3. CASE NotifierLoop \/ SampleTime \/ LockScan \/ UnlockScan \/ Discard
           \/ LockReport \/ WakeUp
  BY <1>3 DEF NotifierLoop, SampleTime, LockScan, UnlockScan, Discard, LockReport,
              WakeUp, BatchInv
<1>4. CASE LogAlerts
  BY <1>4 DEF LogAlerts, BatchInv
<1>5. ASSUME NEW id \in FreqIds, ScanCheck(id) PROVE BatchInv'
  <2>1. CASE Silent(id)
    <3>1. /\ npc' = "reset" /\ npc = "scan" /\ UNCHANGED <<todo, alerts, idTimestampMap>>
          /\ idTimestampMap[id] # 0
      BY <1>5, <2>1 DEF ScanCheck, Silent, shared
    <3>2. \A other \in todo : AtIterator(other) => other = id
      BY <1>5 DEF ScanCheck, AtIterator, TypeOK
    <3>3. QED
      BY <3>1, <3>2 DEF BatchInv, AtIterator
  <2>2. CASE ~Silent(id)
    BY <1>5, <2>2 DEF ScanCheck, BatchInv
  <2>3. QED
    BY <2>1, <2>2
<1>6. ASSUME NEW id \in FreqIds, ScanReset(id) PROVE BatchInv'
  BY <1>6 DEF ScanReset, BatchInv
<1>7. QED
  BY <1>1, <1>2, <1>3, <1>4, <1>5, <1>6 DEF Next, MainStep, NotifierStep

LEMMA BatchCorrect == Spec => []BatchInv
BY TypeCorrect, BatchInit, BatchNext, PTL DEF Spec

(* The two threads implement the watch: every step hears or raises one ID, *)
(* disposes of a batch, or is invisible.                                   *)
THEOREM WatchImplemented == Spec => ImplementsWatch
<1>1. Init => Watch!Init
  BY DEF Init, Watch!Init
<1>2. TypeOK /\ BatchInv /\ [Next]_vars => [Watch!Next]_Watch!vars
  <2> SUFFICES ASSUME TypeOK, BatchInv, [Next]_vars
               PROVE  Watch!Next \/ UNCHANGED Watch!vars
    OBVIOUS
  <2> USE FrequencyAssumption
  <2>1. CASE UNCHANGED <<idTimestampMap, alerts, blank>>
    BY <2>1 DEF Watch!vars
  <2>2. CASE StoreFirst \/ StoreNext
    <3>1. /\ idTimestampMap' = [idTimestampMap EXCEPT ![ID] = timestamp]
          /\ blank' = IF timestamp = 0 THEN blank \cup {ID} ELSE blank \ {ID}
          /\ ID \in FreqIds /\ alerts' = alerts
      BY <2>2 DEF TypeOK, StoreFirst, StoreNext, Store, notifier
    <3>2. PICK id \in FreqIds : id = ID
      BY <3>1
    <3>3. Watch!Hear(id)
      BY <3>1, <3>2 DEF TypeOK, Watch!Hear
    <3>4. QED
      BY <3>3 DEF Watch!Next
  <2>3. ASSUME NEW id \in FreqIds, ScanReset(id) PROVE Watch!Next
    <3>1. /\ idTimestampMap' = [idTimestampMap EXCEPT ![id] = 0]
          /\ alerts' = alerts \cup {id}
          /\ blank' = blank \ {id}
          /\ id \in todo /\ id \notin alerts
          /\ idTimestampMap[id] # 0 \/ id \in blank
      BY <2>3 DEF ScanReset, BatchInv, AtIterator
    <3>2. Watch!Raise(id)
      BY <3>1 DEF TypeOK, Watch!Raise
    <3>3. QED
      BY <3>2 DEF Watch!Next
  <2>4. CASE Discard \/ LogAlerts
    <3>1. /\ idTimestampMap' = idTimestampMap /\ blank' = blank
          /\ alerts' = {} \/ alerts' = alerts
      BY <2>4 DEF Discard, LogAlerts, shared, ghosts
    <3>2. QED
      BY <3>1 DEF Watch!Next, Watch!Dispose, Watch!vars
  <2>5. QED
    BY <2>1, <2>2, <2>3, <2>4 DEF Next, MainStep, NotifierStep, Tick, Frame,
       processNewID, Destruct, CheckSeen, LockFirst, SetReady, ComputeDiff, Join,
       NotifierLoop, SampleTime, LockScan, ScanCheck, UnlockScan, LockReport,
       WakeUp, vars, shared, notifier, ghosts
<1>3. QED
  BY <1>1, <1>2, TypeCorrect, BatchCorrect, PTL DEF Spec, ImplementsWatch, Watch!Spec


-----------------------------------------------------------------------------
(* How much the notifier has still to do before it gives the mutex up: two *)
(* steps for an entry it has not visited, one for the entry it resets.     *)
HoldLeft ==
  CASE npc = "scan"              -> 2 * Cardinality(todo) + 1
    [] npc = "reset"             -> 2 * Cardinality(todo)
    [] npc = "logging" /\ alive  -> 1
    [] OTHER                     -> 0

(* What a scan has left to visit is a finite set, no larger than the file. *)
LEMMA TodoCounted ==
  ASSUME TypeOK
  PROVE  /\ IsFiniteSet(todo)
         /\ Cardinality(todo) \in Nat
         /\ Cardinality(FreqIds) \in Nat
         /\ Cardinality(todo) <= Cardinality(FreqIds)
<1>1. IsFiniteSet(FreqIds) /\ todo \subseteq FreqIds
  BY FrequencyAssumption DEF TypeOK
<1>2. IsFiniteSet(todo) /\ Cardinality(todo) <= Cardinality(FreqIds)
  BY <1>1, FS_Subset
<1>3. Cardinality(todo) \in Nat /\ Cardinality(FreqIds) \in Nat
  BY <1>1, <1>2, FS_CardinalityType
<1>4. QED
  BY <1>2, <1>3

LEMMA VisitCounts ==
  ASSUME TypeOK, NEW id \in todo
  PROVE  Cardinality(todo \ {id}) = Cardinality(todo) - 1
BY TodoCounted, FS_RemoveElement

LEMMA HoldBounded ==
  ASSUME TypeOK
  PROVE  HoldLeft \in 0 .. (2 * Cardinality(FreqIds) + 1)
<1>1. PICK n \in Nat : n = Cardinality(todo)
  BY TodoCounted
<1>2. PICK m \in Nat : m = Cardinality(FreqIds)
  BY TodoCounted
<1>3. n <= m
  BY <1>1, <1>2, TodoCounted
<1>4. HoldLeft \in {0, 1, 2 * n, 2 * n + 1}
  BY <1>1 DEF HoldLeft
<1>5. HoldLeft \in 0 .. (2 * m + 1)
  BY <1>3, <1>4
<1>6. QED
  BY <1>2, <1>5

LEMMA HoldShrinks ==
  ASSUME TypeOK, [Next]_vars, mtx = "notifier"
  PROVE  UNCHANGED notifier \/ HoldLeft' < HoldLeft
<1> USE DEF main, process, shared, frame, ghosts
<1>1. PICK n \in Nat : n = Cardinality(todo)
  BY TodoCounted
<1>2. npc \in {"scan", "reset", "logging"}
  BY DEF TypeOK
<1>3. CASE Tick \/ Frame \/ Destruct \/ MainStep \/ UNCHANGED vars
  BY <1>3 DEF Tick, Frame, processNewID, Destruct, MainStep, CheckSeen, LockFirst, StoreFirst,
     SetReady, ComputeDiff, StoreNext, Join, vars
<1>4. ASSUME alive, NEW id \in FreqIds, ScanCheck(id)
      PROVE  HoldLeft' < HoldLeft
  <2>1. /\ alive' = alive /\ npc = "scan" /\ id \in todo
        /\ \/ npc' = "reset" /\ todo' = todo
           \/ npc' = "scan" /\ todo' = todo \ {id}
    BY <1>4 DEF ScanCheck, AtIterator
  <2>2. HoldLeft = 2 * n + 1
    BY <1>1, <1>4, <2>1 DEF HoldLeft
  <2>3. Cardinality(todo \ {id}) = n - 1
    BY <1>1, <2>1, VisitCounts
  <2>4. HoldLeft' = 2 * n \/ HoldLeft' = 2 * (n - 1) + 1
    BY <1>1, <1>4, <2>1, <2>3 DEF HoldLeft
  <2>5. QED
    BY <2>2, <2>4
<1>5. ASSUME alive, NEW id \in FreqIds, ScanReset(id)
      PROVE  HoldLeft' < HoldLeft
  <2>1. /\ alive' = alive /\ npc = "reset" /\ id \in todo
        /\ npc' = "scan" /\ todo' = todo \ {id}
    BY <1>5 DEF ScanReset, AtIterator
  <2>2. HoldLeft = 2 * n
    BY <1>1, <1>5, <2>1 DEF HoldLeft
  <2>3. Cardinality(todo \ {id}) = n - 1
    BY <1>1, <2>1, VisitCounts
  <2>4. HoldLeft' = 2 * (n - 1) + 1
    BY <1>5, <2>1, <2>3 DEF HoldLeft
  <2>5. QED
    BY <2>2, <2>4
<1>6. ASSUME alive, UnlockScan
      PROVE  HoldLeft' < HoldLeft
  <2>1. HoldLeft = 2 * n + 1
    BY <1>1, <1>6 DEF HoldLeft, UnlockScan
  <2>2. HoldLeft' = 0
    BY <1>6 DEF HoldLeft, UnlockScan
  <2>3. QED
    BY <2>1, <2>2
<1>7. ASSUME alive, LogAlerts
      PROVE  HoldLeft' < HoldLeft
  <2>1. HoldLeft = 1
    BY <1>7 DEF HoldLeft, LogAlerts
  <2>2. HoldLeft' = 0
    BY <1>7 DEF HoldLeft, LogAlerts
  <2>3. QED
    BY <2>1, <2>2
<1>8. CASE alive /\ NotifierStep
  BY <1>2, <1>4, <1>5, <1>6, <1>7, <1>8 DEF NotifierStep, NotifierLoop, SampleTime, LockScan,
     Discard, LockReport, WakeUp
<1>9. QED
  BY <1>3, <1>8 DEF Next

(* The notifier keeps the mutex for a bounded number of its steps, two for *)
(* each entry of the frequency file and one more, whatever frames arrive   *)
(* meanwhile: a frame thread in mtx.lock() waits for no more than that.    *)
THEOREM MutexIsGivenUp ==
  Spec => /\ [](HoldLeft \in 0 .. (2 * Cardinality(FreqIds) + 1))
          /\ [][mtx = "notifier" => UNCHANGED notifier \/ HoldLeft' < HoldLeft]_vars
<1>1. TypeOK => HoldLeft \in 0 .. (2 * Cardinality(FreqIds) + 1)
  BY HoldBounded
<1>2. TypeOK /\ [Next]_vars =>
        [mtx = "notifier" => UNCHANGED notifier \/ HoldLeft' < HoldLeft]_vars
  BY HoldShrinks
<1>3. QED
  BY <1>1, <1>2, TypeInit, TypeNext, PTL DEF Spec


-----------------------------------------------------------------------------
(* How far the notifier is from the end of its loop when nothing makes it  *)
(* go round once more.                                                     *)
ToEnd ==
  CASE npc = "loop"    -> 1
    [] npc = "sleep"   -> 2
    [] npc = "logging" -> 3
    [] npc = "report"  -> 4
    [] npc = "reset"   -> 2 * Cardinality(todo) + 4
    [] npc = "scan"    -> 2 * Cardinality(todo) + 5
    [] npc = "lock"    -> 2 * Cardinality(FreqIds) + 6
    [] npc = "sample"  -> 2 * Cardinality(FreqIds) + 7
    [] OTHER           -> 0

(* The destructor has told the thread to stop, and nothing takes it back.  *)
StopInv == mpc = "join" => ~thShouldRun

LEMMA StopNext == StopInv /\ [Next]_vars => StopInv'
<1> SUFFICES ASSUME StopInv, [Next]_vars PROVE StopInv'
  OBVIOUS
<1> USE DEF main, process, shared, notifier, frame, ghosts
<1>1. CASE Tick \/ Frame \/ Destruct \/ MainStep \/ UNCHANGED vars
  BY <1>1 DEF StopInv, Tick, Frame, processNewID, Destruct, MainStep, CheckSeen, LockFirst,
     StoreFirst, SetReady, ComputeDiff, StoreNext, Join, vars
<1>2. CASE NotifierStep
  BY <1>2 DEF StopInv, NotifierStep, NotifierLoop, SampleTime, LockScan, ScanCheck, ScanReset,
     UnlockScan, Discard, LockReport, LogAlerts, WakeUp
<1>3. QED
  BY <1>1, <1>2 DEF Next

LEMMA EndBounded ==
  ASSUME TypeOK
  PROVE  /\ ToEnd \in 0 .. (2 * Cardinality(FreqIds) + 7)
         /\ ToEnd = 0 <=> npc \in {"absent", "done"}
<1>1. PICK n \in Nat : n = Cardinality(todo)
  BY TodoCounted
<1>2. PICK m \in Nat : m = Cardinality(FreqIds)
  BY TodoCounted
<1>3. n <= m
  BY <1>1, <1>2, TodoCounted
<1>4. CASE npc \in {"absent", "done"}
  <2>1. ToEnd = 0
    BY <1>4 DEF ToEnd
  <2>2. QED
    BY <1>2, <1>4, <2>1
<1>5. CASE npc \notin {"absent", "done"}
  <2>1. npc \in {"loop", "sample", "lock", "scan", "reset", "report", "logging", "sleep"}
    BY <1>5 DEF TypeOK
  <2>2. ToEnd \in {1, 2, 3, 4, 2 * n + 4, 2 * n + 5, 2 * m + 6, 2 * m + 7}
    BY <1>1, <1>2, <2>1 DEF ToEnd
  <2>3. ToEnd \in 0 .. (2 * m + 7) /\ ToEnd # 0
    BY <1>3, <2>2
  <2>4. QED
    BY <1>2, <1>5, <2>3
<1>6. QED
  BY <1>4, <1>5

LEMMA EndComesNearer ==
  ASSUME TypeOK, StopInv, [Next]_vars, mpc = "join"
  PROVE  UNCHANGED notifier \/ ToEnd' < ToEnd
<1> USE DEF main, process, shared, frame, ghosts
<1>1. PICK n \in Nat : n = Cardinality(todo)
  BY TodoCounted
<1>2. PICK m \in Nat : m = Cardinality(FreqIds)
  BY TodoCounted
<1>3. CASE Tick \/ Frame \/ Destruct \/ MainStep \/ UNCHANGED vars
  BY <1>3 DEF Tick, Frame, processNewID, Destruct, MainStep, CheckSeen, LockFirst, StoreFirst,
     SetReady, ComputeDiff, StoreNext, Join, vars
<1>4. CASE NotifierLoop
  <2>1. npc = "loop" /\ npc' = "done"
    BY <1>4 DEF NotifierLoop, StopInv
  <2>2. ToEnd = 1 /\ ToEnd' = 0
    BY <2>1 DEF ToEnd
  <2>3. QED
    BY <2>2
<1>5. CASE SampleTime
  <2>1. ToEnd = 2 * m + 7 /\ ToEnd' = 2 * m + 6
    BY <1>2, <1>5 DEF ToEnd, SampleTime
  <2>2. QED
    BY <2>1
<1>6. CASE LockScan
  <2>1. ToEnd = 2 * m + 6 /\ ToEnd' = 2 * m + 5
    BY <1>2, <1>6 DEF ToEnd, LockScan
  <2>2. QED
    BY <2>1
<1>7. ASSUME NEW id \in FreqIds, ScanCheck(id) \/ ScanReset(id)
      PROVE  ToEnd' < ToEnd
  <2>1. /\ id \in todo
        /\ \/ npc = "scan" /\ npc' = "reset" /\ todo' = todo
           \/ npc = "scan" /\ npc' = "scan" /\ todo' = todo \ {id}
           \/ npc = "reset" /\ npc' = "scan" /\ todo' = todo \ {id}
    BY <1>7 DEF ScanCheck, ScanReset, AtIterator
  <2>2. Cardinality(todo \ {id}) = n - 1
    BY <1>1, <2>1, VisitCounts
  <2>3. CASE npc = "scan" /\ npc' = "reset" /\ todo' = todo
    <3>1. ToEnd = 2 * n + 5 /\ ToEnd' = 2 * n + 4
      BY <1>1, <2>3 DEF ToEnd
    <3>2. QED
      BY <3>1
  <2>4. CASE npc \in {"scan", "reset"} /\ npc' = "scan" /\ todo' = todo \ {id}
    <3>1. ToEnd \in {2 * n + 4, 2 * n + 5} /\ ToEnd' = 2 * (n - 1) + 5
      BY <1>1, <2>2, <2>4 DEF ToEnd
    <3>2. QED
      BY <3>1
  <2>5. QED
    BY <2>1, <2>3, <2>4
<1>8. CASE UnlockScan
  <2>1. ToEnd = 2 * n + 5 /\ ToEnd' = 4
    BY <1>1, <1>8 DEF ToEnd, UnlockScan
  <2>2. QED
    BY <2>1
<1>9. CASE Discard \/ LockReport
  <2>1. ToEnd = 4 /\ ToEnd' \in {2, 3}
    BY <1>9 DEF ToEnd, Discard, LockReport
  <2>2. QED
    BY <2>1
<1>10. CASE LogAlerts
  <2>1. CASE logobjSet
    <3>1. ToEnd = 3 /\ ToEnd' = 2
      BY <1>10, <2>1 DEF ToEnd, LogAlerts
    <3>2. QED
      BY <3>1
  <2>2. CASE ~logobjSet
    BY <1>10, <2>2 DEF LogAlerts, notifier
  <2>3. QED
    BY <2>1, <2>2
<1>11. CASE WakeUp
  <2>1. ToEnd = 2 /\ ToEnd' = 1
    BY <1>11 DEF ToEnd, WakeUp
  <2>2. QED
    BY <2>1
<1>12. QED
  BY <1>3, <1>4, <1>5, <1>6, <1>7, <1>8, <1>9, <1>10, <1>11 DEF Next, NotifierStep

(* The join of the destructor waits for a bounded number of steps of the   *)
(* notifier: one round of the loop at most, wherever thShouldRun found it  *)
(* when it was cleared; and when none is left the guard of join holds.     *)
THEOREM JoinIsBounded ==
  Spec => /\ [](ToEnd \in 0 .. (2 * Cardinality(FreqIds) + 7))
          /\ [](ToEnd = 0 <=> npc \in {"absent", "done"})
          /\ [][mpc = "join" => UNCHANGED notifier \/ ToEnd' < ToEnd]_vars
<1>1. Init => StopInv
  BY DEF Init, StopInv
<1>2. TypeOK => /\ ToEnd \in 0 .. (2 * Cardinality(FreqIds) + 7)
                /\ ToEnd = 0 <=> npc \in {"absent", "done"}
  BY EndBounded
<1>3. TypeOK /\ StopInv /\ [Next]_vars =>
        [mpc = "join" => UNCHANGED notifier \/ ToEnd' < ToEnd]_vars
  BY EndComesNearer
<1>4. QED
  BY <1>1, <1>2, <1>3, StopNext, TypeInit, TypeNext, PTL DEF Spec
=============================================================================
