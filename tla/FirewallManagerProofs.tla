------------------------ MODULE FirewallManagerProofs ------------------------
(***************************************************************************)
(* The safety properties of FirewallManager for any number of instances,   *)
(* any configuration files, and a pipe and batches of any size.            *)
(***************************************************************************)
EXTENDS FirewallManager, TLAPS

(* What one call of createFWInstance has made, and the rest of TypeOK.     *)
Objects ==
  [manager : {"none", "live", "deleted"}, runner : {"none", "live", "deleted"},
   handle : Handles \cup {0},
   secureLog : BOOLEAN, usesFreqProc : BOOLEAN, usesFreqNotifier : BOOLEAN,
   notifierTimer : Int,
   m_logger : {"unset", "live", "deleted"}, m_fd : BOOLEAN,
   fp : {"unset", "live", "deleted"},
   thShouldRun : BOOLEAN, stamped : BOOLEAN,
   th : {"absent", "loop", "scan", "writing", "sleep", "done"}, batch : 0 .. MaxBatch]

ObjectsOK(i) ==
  /\ i \in Objects
  /\ i.th = "writing" <=> i.batch > 0

UnderWay ==
  {"openPipe", "newFP", "parseFile", "deleteLogger", "deleteFP", "join", "deleteManager"}

CallerOK ==
  /\ made \in 0 .. MaxInstances
  /\ DOMAIN g_mapFWInstances \subseteq Handles
  /\ \A h \in DOMAIN g_mapFWInstances : g_mapFWInstances[h] \in 1 .. made
  /\ g_lastInstIdx \in FirstInstIdx .. FirstInstIdx + made
  /\ pc \in {"openPipe", "newFP", "parseFile"} => g_lastInstIdx < FirstInstIdx + made
  /\ g_lastError \in {FWCORE_RESULT_OK, FWCORE_ERROR_INITFAILED,
                      FWCORE_ERROR_INSTNOTFOUND}
  /\ pc \in UnderWay \cup {"idle", "lock", "decide", "write"}
  /\ cur \in 0 .. made /\ (cur = 0 <=> pc = "idle")
  /\ lines \in 0 .. 2
  /\ pc = "write" => lines > 0
  /\ returned \in Handles \cup {FWCORE_RESULT_OK, FWCORE_ERROR, FWCORE_PROC_PERMIT,
                                FWCORE_PROC_DROP_LOG}

PipeOK ==
  /\ pipe \in 0 .. PipeLines
  /\ readerUp \in BOOLEAN
  /\ process \in {"running", "crashed", "sigpipe"}

TypeInv ==
  /\ inst \in [Instances -> Objects]
  /\ \A n \in Instances : ObjectsOK(inst[n])
  /\ CallerOK
  /\ PipeOK

LEMMA TypeInvType == TypeInv => TypeOK
BY DEF TypeInv, TypeOK, Objects, ObjectsOK, CallerOK, PipeOK, UnderWay

LEMMA NothingOK == ObjectsOK(Nothing)
BY ManagerAssumption DEF Nothing, ObjectsOK, Objects

LEMMA TypeInit == Init => TypeInv
<1> SUFFICES ASSUME Init PROVE TypeInv
  OBVIOUS
<1>1. inst \in [Instances -> Objects] /\ \A n \in Instances : ObjectsOK(inst[n])
  BY NothingOK DEF Init, ObjectsOK
<1>2. CallerOK
  BY ManagerAssumption DEF Init, CallerOK, UnderWay, FirstInstIdx, FWCORE_RESULT_OK
<1>3. PipeOK
  <2>1. pipe \in 0 .. PipeLines
    BY ManagerAssumption DEF Init
  <2>2. QED
    BY <2>1, Zenon DEF Init, PipeOK
<1>4. QED
  BY <1>1, <1>2, <1>3 DEF TypeInv

LEMMA CallerNext == TypeInv /\ Next => CallerOK'
<1> SUFFICES ASSUME TypeInv, Next PROVE CallerOK'
  OBVIOUS
<1> USE DEF globals, caller, logPipe
<1>0. CallerOK /\ MaxInstances \in Nat
  BY ManagerAssumption DEF TypeInv
<1>a. Handles = 101 .. 100 + MaxInstances /\ FirstInstIdx = 100
  BY DEF Handles, FirstInstIdx
<1>1. ASSUME NEW cfg \in Configs, createNoConfig(cfg) \/ createFWInstance(cfg)
      PROVE  CallerOK'
  BY <1>0, <1>1, <1>a DEF createNoConfig, createFWInstance, Return, CallerOK, UnderWay
<1>2. ASSUME NEW h \in Handles, destroyFWInstance(h) \/ instNotFound(h) \/ processMessage(h)
      PROVE  CallerOK'
  <2>1. CASE destroyFWInstance(h)
    BY <1>0, <2>1 DEF destroyFWInstance, Erase, Return, CallerOK, UnderWay
  <2>2. CASE instNotFound(h)
    BY <1>0, <2>2 DEF instNotFound, Return, CallerOK, UnderWay
  <2>3. CASE processMessage(h)
    <3>1. pc' \in {"lock", "decide"}
      BY <2>3 DEF processMessage
    <3>2. QED
      BY <1>0, <2>3, <3>1 DEF processMessage, CallerOK, UnderWay
  <2>4. QED
    BY <1>2, <2>1, <2>2, <2>3
<1>3. CASE openPipe \/ newFP
  BY <1>0, <1>3 DEF openPipe, newFP, CallerOK, UnderWay
<1>4. CASE parseFile
  BY <1>0, <1>4, <1>a DEF parseFile, Return, CallerOK, UnderWay
<1>5. CASE deleteLogger
  BY <1>0, <1>5 DEF deleteLogger, CallerOK, UnderWay
<1>6. CASE deleteFP
  BY <1>0, <1>6 DEF deleteFP, CallerOK, UnderWay
<1>7. CASE join
  BY <1>0, <1>7 DEF join, CallerOK, UnderWay
<1>8. CASE deleteManager
  BY <1>0, <1>8 DEF deleteManager, Return, CallerOK, UnderWay
<1>9. CASE firstStamp
  BY <1>0, <1>9 DEF firstStamp, CallerOK, UnderWay
<1>10. CASE dropUndefined
  BY <1>0, <1>10 DEF dropUndefined, CallerOK, UnderWay
<1>11. CASE returnVerdict
  BY <1>0, <1>11 DEF returnVerdict, CallerOK, UnderWay
<1>12. CASE writeLine
  BY <1>0, <1>12 DEF writeLine, CallerOK, UnderWay
<1>13. CASE (\E n \in Instances : NotifierStep(n)) \/ ReaderStep
  <2>1. UNCHANGED <<made, globals, caller>>
    BY <1>13 DEF NotifierStep, testShouldRun, scan, writeAlert, wakeUp, ReaderStep,
       openReader, closeReader, readLine
  <2>2. QED
    BY <1>0, <2>1 DEF CallerOK
<1>14. QED
  BY <1>1, <1>2, <1>3, <1>4, <1>5, <1>6, <1>7, <1>8, <1>9, <1>10, <1>11, <1>12, <1>13
     DEF Next, Call, MainStep

LEMMA WrittenOK ==
  ASSUME PipeOK, NEW n, Written(n)
  PROVE  pipe' \in 0 .. PipeLines /\ process' \in {process, "sigpipe"}
<1>1. CASE ~inst[n].m_fd /\ UNCHANGED <<pipe, process>>
  BY <1>1 DEF PipeOK
<1>2. CASE process' = "sigpipe" /\ UNCHANGED pipe
  BY <1>2 DEF PipeOK
<1>3. CASE pipe < PipeLines /\ pipe' = pipe + 1 /\ UNCHANGED process
  BY <1>3, ManagerAssumption DEF PipeOK
<1>4. QED
  BY <1>1, <1>2, <1>3 DEF Written

LEMMA PipeNext == TypeInv /\ Next => PipeOK'
<1> SUFFICES ASSUME TypeInv, Next PROVE PipeOK'
  OBVIOUS
<1> USE DEF globals, caller, logPipe
<1>0. PipeOK /\ PipeLines \in Nat \ {0} /\ process = "running"
  BY ManagerAssumption DEF TypeInv, Next
<1>1. CASE Call
  <2>1. UNCHANGED <<logPipe, process>>
    BY <1>1 DEF Call, createNoConfig, createFWInstance, destroyFWInstance, instNotFound,
       processMessage
  <2>2. QED
    BY <1>0, <2>1 DEF PipeOK
<1>2. CASE openPipe \/ newFP \/ parseFile \/ deleteManager \/ firstStamp \/ returnVerdict
  <2>1. UNCHANGED <<logPipe, process>>
    BY <1>2 DEF openPipe, newFP, parseFile, deleteManager, firstStamp, returnVerdict
  <2>2. QED
    BY <1>0, <2>1 DEF PipeOK
<1>3. CASE deleteLogger
  <2>1. pipe' \in {pipe, 0} /\ process' \in {"running", "crashed"} /\ UNCHANGED readerUp
    BY <1>0, <1>3 DEF deleteLogger, AfterClose
  <2>2. QED
    BY <1>0, <2>1 DEF PipeOK
<1>4. CASE deleteFP \/ join \/ dropUndefined
  <2>1. UNCHANGED logPipe /\ process' \in {"running", "crashed"}
    BY <1>0, <1>4 DEF deleteFP, join, dropUndefined
  <2>2. QED
    BY <1>0, <2>1 DEF PipeOK
<1>5. CASE writeLine
  BY <1>0, <1>5, WrittenOK DEF writeLine, PipeOK
<1>6. ASSUME NEW n \in Instances, testShouldRun(n) \/ scan(n) \/ wakeUp(n) PROVE PipeOK'
  <2>1. UNCHANGED <<logPipe, process>>
    BY <1>6 DEF testShouldRun, scan, wakeUp
  <2>2. QED
    BY <1>0, <2>1 DEF PipeOK
<1>7. ASSUME NEW n \in Instances, writeAlert(n) PROVE PipeOK'
  <2>1. \/ process' = "crashed" /\ UNCHANGED pipe
        \/ Written(n)
    BY <1>7 DEF writeAlert
  <2>2. UNCHANGED readerUp
    BY <1>7 DEF writeAlert
  <2>3. QED
    BY <1>0, <2>1, <2>2, WrittenOK DEF PipeOK
<1>8. CASE openReader \/ closeReader
  <2>1. /\ pipe' \in {pipe, 0} /\ UNCHANGED process
        /\ readerUp' = TRUE \/ readerUp' = FALSE
    BY <1>8 DEF openReader, closeReader
  <2>2. readerUp' \in BOOLEAN
    BY <2>1, Zenon
  <2>3. QED
    BY <1>0, <2>1, <2>2 DEF PipeOK
<1>9. CASE readLine
  BY <1>0, <1>9 DEF readLine, PipeOK
<1>10. QED
  BY <1>1, <1>2, <1>3, <1>4, <1>5, <1>6, <1>7, <1>8, <1>9
     DEF Next, MainStep, NotifierStep, ReaderStep

-----------------------------------------------------------------------------
(* What holds of the objects of every call, whatever runs: the thread of a *)
(* notifier has its frequency processor, it reports only for an instance   *)
(* that has a handle - the stamp comes with a frame, and a runner on its   *)
(* way down has had none -, and an instance with a handle is complete.     *)
OwnInv(i) ==
  /\ i.m_fd => i.m_logger = "live"
  /\ i.stamped => i.handle # 0
  /\ i.th = "writing" => i.stamped
  /\ i.th \in {"loop", "scan", "writing", "sleep"} => i.fp = "live"
  /\ i.fp = "unset" => i.th = "absent"
  /\ i.fp = "live" => i.usesFreqProc /\ (i.th = "absent" <=> ~i.usesFreqNotifier)
  /\ i.m_logger = "unset" => ~i.secureLog
  /\ i.handle # 0 => /\ Complete(i) /\ i.manager # "none"
                     /\ i.m_logger # "deleted" /\ i.fp # "deleted"

(* What holds of the instance the thread of the API works on.              *)
StageInv(i) ==
  /\ pc \in UnderWay =>
       cur = made /\ i.handle = 0 /\ i.manager = "live" /\ i.runner = "live"
  /\ pc \in {"openPipe", "newFP", "parseFile", "deleteLogger"} =>
       (i.secureLog => i.m_logger = "live") /\ i.m_logger # "deleted"
  /\ pc = "openPipe" => i.m_logger = "live"
  /\ pc \in {"openPipe", "newFP"} => i.fp = "unset"
  /\ pc \in {"parseFile", "deleteLogger", "deleteFP"} =>
       (i.usesFreqProc => i.fp = "live") /\ i.fp # "deleted"
  /\ pc \in {"deleteFP", "join", "deleteManager"} => i.m_logger # "live"
  /\ pc = "join" => i.fp = "live"
  /\ pc = "deleteManager" /\ process = "running" => i.fp # "live"
  /\ pc \in {"lock", "decide", "write"} => i.handle # 0

(* The table and the objects name each other.                              *)
TableInv ==
  /\ \A h \in DOMAIN g_mapFWInstances :
       /\ inst[g_mapFWInstances[h]].handle = h
       /\ inst[g_mapFWInstances[h]].manager = "live"
  /\ \A n \in Instances :
       /\ inst[n].handle <= g_lastInstIdx
       /\ inst[n].handle # 0 /\ inst[n].manager = "live" =>
            /\ inst[n].handle \in DOMAIN g_mapFWInstances
            /\ g_mapFWInstances[inst[n].handle] = n

(* Calls that have not been made have no objects, those that have failed   *)
(* have left none.                                                         *)
GoneInv ==
  /\ \A n \in Instances : n > made => inst[n] = Nothing
  /\ \A n \in 1 .. made :
       (n # cur \/ pc \notin UnderWay) /\ inst[n].handle = 0 => Gone(inst[n])

LifeInv ==
  /\ \A n \in Instances : OwnInv(inst[n])
  /\ pc # "idle" => StageInv(inst[cur])
  /\ TableInv
  /\ GoneInv

LEMMA LifeInit == Init => LifeInv
<1> SUFFICES ASSUME Init PROVE LifeInv
  OBVIOUS
<1>1. \A n \in Instances : inst[n] = Nothing
  BY DEF Init
<1>2. OwnInv(Nothing)
  BY DEF Nothing, OwnInv
<1>3. DOMAIN g_mapFWInstances = {} /\ Nothing.handle = 0 /\ g_lastInstIdx = 100
      /\ 1 .. made = {}
  BY DEF Init, Nothing, FirstInstIdx
<1>4. QED
  BY <1>1, <1>2, <1>3 DEF Init, LifeInv, TableInv, GoneInv

(* A step that replaces one object.                                        *)
LEMMA OneObject ==
  ASSUME TypeInv, LifeInv, NEW c \in Instances, NEW r,
         inst' = [inst EXCEPT ![c] = r], ObjectsOK(r), OwnInv(r)
  PROVE  /\ inst' \in [Instances -> Objects]
         /\ \A n \in Instances : ObjectsOK(inst'[n]) /\ OwnInv(inst'[n])
         /\ inst'[c] = r
         /\ \A n \in Instances \ {c} : inst'[n] = inst[n]
<1>1. r \in Objects
  BY DEF ObjectsOK
<1>2. /\ inst \in [Instances -> Objects]
      /\ \A n \in Instances : ObjectsOK(inst[n]) /\ OwnInv(inst[n])
  BY DEF TypeInv, LifeInv
<1>3. /\ inst' \in [Instances -> Objects]
      /\ inst'[c] = r
      /\ \A n \in Instances \ {c} : inst'[n] = inst[n]
  BY <1>1, <1>2
<1>4. QED
  BY <1>2, <1>3

ObjectsInv ==
  /\ inst \in [Instances -> Objects]
  /\ \A n \in Instances : ObjectsOK(inst[n]) /\ OwnInv(inst[n])

LEMMA CurrentObject ==
  ASSUME TypeInv, LifeInv, pc # "idle"
  PROVE  /\ cur \in Instances /\ inst[cur] \in Objects
         /\ ObjectsOK(inst[cur]) /\ OwnInv(inst[cur]) /\ StageInv(inst[cur])
BY ManagerAssumption DEF TypeInv, LifeInv, CallerOK, Instances, ObjectsOK

LEMMA MainObjects == TypeInv /\ LifeInv /\ process = "running" /\ MainStep => ObjectsInv'
<1> SUFFICES ASSUME TypeInv, LifeInv, process = "running", MainStep PROVE ObjectsInv'
  OBVIOUS
<1> DEFINE i == inst[cur]
<1>0. pc # "idle"
  BY DEF MainStep, openPipe, newFP, parseFile, deleteLogger, deleteFP, join, deleteManager,
     firstStamp, dropUndefined, returnVerdict, writeLine
<1>1. /\ cur \in Instances /\ i \in Objects
      /\ ObjectsOK(i) /\ OwnInv(i) /\ StageInv(i)
  BY <1>0, CurrentObject
<1>2. ASSUME UNCHANGED inst PROVE ObjectsInv'
  BY <1>2 DEF ObjectsInv, TypeInv, LifeInv
<1>3. ASSUME NEW r, inst' = [inst EXCEPT ![cur] = r], ObjectsOK(r), OwnInv(r)
      PROVE  ObjectsInv'
  BY <1>1, <1>3, OneObject DEF ObjectsInv
<1>4. CASE openPipe
  <2> DEFINE r == [i EXCEPT !.m_fd = TRUE]
  <2>1. CASE UNCHANGED inst
    BY <1>2, <2>1
  <2>2. CASE inst' = [inst EXCEPT ![cur] = r]
    <3>1. ObjectsOK(r) /\ OwnInv(r)
      BY <1>1, <1>4 DEF openPipe, ObjectsOK, OwnInv, StageInv, Objects, Complete
    <3>2. QED
      BY <1>3, <2>2, <3>1
  <2>3. QED
    BY <1>4, <2>1, <2>2 DEF openPipe
<1>5. CASE newFP
  <2>1. CASE i.usesFreqProc
    <3>1. PICK run \in BOOLEAN :
            inst' = [inst EXCEPT ![cur] =
                       [i EXCEPT !.fp = "live", !.thShouldRun = run,
                                 !.th = IF i.usesFreqNotifier THEN "loop" ELSE "absent"]]
      BY <1>1, <1>5, <2>1 DEF newFP, TypeInv
    <3> DEFINE r == [i EXCEPT !.fp = "live", !.thShouldRun = run,
                              !.th = IF i.usesFreqNotifier THEN "loop" ELSE "absent"]
    <3>2. ObjectsOK(r) /\ OwnInv(r)
      BY <1>1, <1>5, <2>1 DEF newFP, ObjectsOK, OwnInv, StageInv, Objects, Complete, UnderWay
    <3>3. QED
      BY <1>3, <3>1, <3>2
  <2>2. CASE ~i.usesFreqProc
    BY <1>2, <1>5, <2>2 DEF newFP
  <2>3. QED
    BY <2>1, <2>2
<1>6. CASE parseFile
  <2> DEFINE r == [i EXCEPT !.handle = g_lastInstIdx + 1]
  <2>1. CASE UNCHANGED inst
    BY <1>2, <2>1
  <2>2. CASE inst' = [inst EXCEPT ![cur] = r]
    <3>1. g_lastInstIdx + 1 \in Handles \ {0}
      BY <1>6, ManagerAssumption DEF parseFile, TypeInv, CallerOK, Handles, FirstInstIdx
    <3>2. ObjectsOK(r) /\ OwnInv(r)
      BY <1>1, <1>6, <3>1 DEF parseFile, ObjectsOK, OwnInv, StageInv, Objects, Complete, UnderWay
    <3>3. QED
      BY <1>3, <2>2, <3>2
  <2>3. QED
    BY <1>6, <2>1, <2>2 DEF parseFile
<1>7. CASE deleteLogger
  <2> DEFINE r == [i EXCEPT !.m_logger = "deleted", !.m_fd = FALSE]
  <2>1. CASE UNCHANGED inst
    BY <1>2, <2>1
  <2>2. CASE inst' = [inst EXCEPT ![cur] = r]
    <3>1. ObjectsOK(r) /\ OwnInv(r)
      BY <1>1, <1>7 DEF deleteLogger, ObjectsOK, OwnInv, StageInv, Objects, Complete, UnderWay
    <3>2. QED
      BY <1>3, <2>2, <3>1
  <2>3. QED
    BY <1>1, <1>7, <2>1, <2>2 DEF deleteLogger, TypeInv
<1>8. CASE deleteFP
  <2> DEFINE r == [i EXCEPT !.thShouldRun = FALSE]
  <2>1. CASE UNCHANGED inst
    BY <1>2, <2>1
  <2>2. CASE inst' = [inst EXCEPT ![cur] = r]
    <3>1. ObjectsOK(r) /\ OwnInv(r)
      BY <1>1, <1>8 DEF deleteFP, ObjectsOK, OwnInv, StageInv, Objects, Complete, UnderWay
    <3>2. QED
      BY <1>3, <2>2, <3>1
  <2>3. QED
    BY <1>8, <2>1, <2>2 DEF deleteFP
<1>9. CASE join
  <2> DEFINE r == [i EXCEPT !.fp = "deleted"]
  <2>1. CASE UNCHANGED inst
    BY <1>2, <2>1
  <2>2. CASE i.th = "done" /\ inst' = [inst EXCEPT ![cur] = r]
    <3>1. ObjectsOK(r) /\ OwnInv(r)
      BY <1>1, <1>9, <2>2 DEF join, ObjectsOK, OwnInv, StageInv, Objects, Complete, UnderWay
    <3>2. QED
      BY <1>3, <2>2, <3>1
  <2>3. QED
    BY <1>9, <2>1, <2>2 DEF join
<1>10. CASE deleteManager
  <2> DEFINE r == [i EXCEPT !.runner = "deleted", !.manager = "deleted"]
  <2>1. inst' = [inst EXCEPT ![cur] = r]
    BY <1>1, <1>10 DEF deleteManager, TypeInv
  <2>2. ObjectsOK(r) /\ OwnInv(r)
    BY <1>1, <1>10 DEF deleteManager, ObjectsOK, OwnInv, StageInv, Objects, Complete, UnderWay
  <2>3. QED
    BY <1>3, <2>1, <2>2
<1>11. CASE firstStamp
  <2> DEFINE r == [i EXCEPT !.stamped = TRUE]
  <2>1. inst' = [inst EXCEPT ![cur] = r]
    BY <1>11 DEF firstStamp
  <2>2. ObjectsOK(r) /\ OwnInv(r)
    BY <1>1, <1>11 DEF firstStamp, ObjectsOK, OwnInv, StageInv, Objects, Complete, UnderWay
  <2>3. QED
    BY <1>3, <2>1, <2>2
<1>12. CASE dropUndefined \/ returnVerdict \/ writeLine
  BY <1>2, <1>12 DEF dropUndefined, returnVerdict, writeLine
<1>13. QED
  BY <1>4, <1>5, <1>6, <1>7, <1>8, <1>9, <1>10, <1>11, <1>12 DEF MainStep

LEMMA ThreadState ==
  ASSUME NEW i, ObjectsOK(i), OwnInv(i), i.fp = "live", i.th # "absent",
         NEW t \in {"loop", "scan", "writing", "sleep", "done"},
         NEW b \in 0 .. MaxBatch,
         t = "writing" <=> b > 0, b > 0 => i.stamped,
         NEW r, r = [i EXCEPT !.th = t, !.batch = b]
  PROVE  ObjectsOK(r) /\ OwnInv(r)
BY DEF ObjectsOK, OwnInv, Objects, Complete

(* What a step of a notifier does to the objects: its own state and batch, *)
(* and that of a live frequency processor.                                 *)
LEMMA NotifierTouch ==
  ASSUME TypeInv, LifeInv, NEW n \in Instances, NotifierStep(n)
  PROVE  /\ UNCHANGED <<made, globals, caller>>
         /\ process = "running" => process' # "crashed" \/ inst[n].m_logger = "unset"
         /\ inst[n].fp = "live" /\ (process' = "crashed" => inst[n].stamped \/ process = "crashed")
         /\ \/ UNCHANGED inst
            \/ \E t \in {"loop", "scan", "writing", "sleep", "done"}, b \in 0 .. MaxBatch :
                 LET r == [inst[n] EXCEPT !.th = t, !.batch = b]
                 IN  inst' = [inst EXCEPT ![n] = r] /\ ObjectsOK(r) /\ OwnInv(r)
<1> USE DEF globals, caller
<1> DEFINE i == inst[n]
           New(t, b) == [inst[n] EXCEPT !.th = t, !.batch = b]
<1>1. /\ i \in Objects /\ ObjectsOK(i) /\ OwnInv(i)
      /\ inst \in [Instances -> Objects]
      /\ MaxBatch \in Nat \ {0}
  BY ManagerAssumption DEF TypeInv, LifeInv
<1>2. /\ i.th \in {"loop", "scan", "writing", "sleep"}
      /\ UNCHANGED <<made, globals, caller>>
  BY DEF NotifierStep, testShouldRun, scan, writeAlert, wakeUp
<1>3. i.fp = "live"
  BY <1>1, <1>2 DEF OwnInv
<1>4. CASE testShouldRun(n)
  <2>1. PICK t \in {"scan", "done"} : inst' = [inst EXCEPT ![n].th = t]
    BY <1>4 DEF testShouldRun
  <2>2. inst' = [inst EXCEPT ![n] = New(t, i.batch)]
    BY <1>1, <2>1 DEF Objects
  <2>3. i.batch \in 0 .. MaxBatch /\ ObjectsOK(New(t, i.batch)) /\ OwnInv(New(t, i.batch))
    BY <1>1, <1>4 DEF testShouldRun, ObjectsOK, OwnInv, Objects, Complete
  <2>4. UNCHANGED process
    BY <1>4 DEF testShouldRun
  <2>5. QED
    BY <1>2, <1>3, <2>2, <2>3, <2>4
<1>5. CASE scan(n)
  <2>1. PICK k \in 0 .. (IF i.stamped /\ i.notifierTimer >= 0 THEN MaxBatch ELSE 0) :
          inst' = [inst EXCEPT ![n].th = IF k = 0 THEN "sleep" ELSE "writing",
                               ![n].batch = k]
    BY <1>5 DEF scan
  <2> DEFINE t == IF k = 0 THEN "sleep" ELSE "writing"
  <2>2. inst' = [inst EXCEPT ![n] = New(t, k)]
    BY <1>1, <2>1 DEF Objects
  <2>3. k \in 0 .. MaxBatch /\ (k > 0 => i.stamped)
    BY <1>1, <2>1
  <2>4. ObjectsOK(New(t, k)) /\ OwnInv(New(t, k))
    <3>1. /\ t \in {"sleep", "writing"} /\ (t = "writing" <=> k > 0)
          /\ i.th # "absent"
      BY <1>2, <2>1
    <3>2. QED
      BY <1>1, <1>3, <2>3, <3>1, ThreadState
  <2>5. UNCHANGED process
    BY <1>5 DEF scan
  <2>6. QED
    BY <1>2, <1>3, <2>2, <2>3, <2>4, <2>5
<1>6. CASE writeAlert(n)
  <2>0. i.th = "writing" /\ i.stamped
    BY <1>1, <1>6 DEF writeAlert, OwnInv
  <2>1. CASE i.m_logger = "unset"
    <3>1. UNCHANGED inst
      BY <1>6, <2>1 DEF writeAlert
    <3>2. QED
      BY <1>2, <1>3, <2>0, <2>1, <3>1
  <2>2. CASE i.m_logger # "unset"
    <3> DEFINE t == IF i.batch = 1 THEN "sleep" ELSE i.th
    <3>1. inst' = [inst EXCEPT ![n] = New(t, i.batch - 1)]
      <4>1. inst' = [inst EXCEPT ![n] = [i EXCEPT !.batch = @ - 1, !.th = t]]
        BY <1>1, <1>6, <2>2 DEF writeAlert
      <4>2. [i EXCEPT !.batch = @ - 1, !.th = t] = New(t, i.batch - 1)
        BY <1>1 DEF Objects
      <4>3. QED
        BY <4>1, <4>2
    <3>2. i.batch > 0 /\ i.batch \in 0 .. MaxBatch
      BY <1>1, <2>0 DEF ObjectsOK, Objects
    <3>3. /\ i.batch - 1 \in 0 .. MaxBatch /\ t \in {"sleep", "writing"}
          /\ t = "writing" <=> i.batch - 1 > 0
      BY <1>1, <2>0, <3>2
    <3>4. ObjectsOK(New(t, i.batch - 1)) /\ OwnInv(New(t, i.batch - 1))
      BY <1>1, <1>3, <2>0, <3>3, ThreadState
    <3>5. process' \in {process, "sigpipe"}
      BY <1>6, <2>2, WrittenOK DEF writeAlert, TypeInv
    <3>6. QED
      BY <1>2, <1>3, <2>0, <2>2, <3>1, <3>3, <3>4, <3>5
  <2>3. QED
    BY <2>1, <2>2
<1>7. CASE wakeUp(n)
  <2>1. inst' = [inst EXCEPT ![n] = New("loop", i.batch)]
    BY <1>1, <1>7 DEF wakeUp, Objects
  <2>2. i.batch \in 0 .. MaxBatch /\ ObjectsOK(New("loop", i.batch)) /\ OwnInv(New("loop", i.batch))
    BY <1>1, <1>7 DEF wakeUp, ObjectsOK, OwnInv, Objects, Complete
  <2>3. UNCHANGED process
    BY <1>7 DEF wakeUp
  <2>4. QED
    BY <1>2, <1>3, <2>1, <2>2, <2>3
<1>8. QED
  BY <1>4, <1>5, <1>6, <1>7 DEF NotifierStep

(* All but the state and the batch of a thread.                            *)
SameMake(i, j) ==
  /\ j.manager = i.manager /\ j.runner = i.runner /\ j.handle = i.handle
  /\ j.secureLog = i.secureLog
  /\ j.usesFreqProc = i.usesFreqProc /\ j.usesFreqNotifier = i.usesFreqNotifier
  /\ j.m_logger = i.m_logger /\ j.m_fd = i.m_fd /\ j.fp = i.fp /\ j.stamped = i.stamped

LEMMA NotifierKeeps ==
  ASSUME TypeInv, LifeInv, NEW n \in Instances, NotifierStep(n)
  PROVE  /\ \A m \in Instances : SameMake(inst[m], inst'[m])
         /\ \A m \in Instances \ {n} : inst'[m] = inst[m]
<1>1. inst \in [Instances -> Objects]
  BY DEF TypeInv
<1>2. CASE UNCHANGED inst
  BY <1>2 DEF SameMake
<1>3. CASE ~UNCHANGED inst
  <2>1. PICK t \in {"loop", "scan", "writing", "sleep", "done"}, b \in 0 .. MaxBatch :
          inst' = [inst EXCEPT ![n] = [inst[n] EXCEPT !.th = t, !.batch = b]]
    BY <1>3, NotifierTouch, ZenonT(60)
  <2>2. /\ inst'[n] = [inst[n] EXCEPT !.th = t, !.batch = b]
        /\ \A m \in Instances \ {n} : inst'[m] = inst[m]
    BY <1>1, <2>1
  <2>3. inst[n] \in Objects
    BY <1>1
  <2>4. SameMake(inst[n], inst'[n])
    BY <2>2, <2>3 DEF SameMake, Objects
  <2>5. QED
    BY <2>2, <2>4 DEF SameMake
<1>4. QED
  BY <1>2, <1>3

LEMMA NotifierObjects ==
  ASSUME TypeInv, LifeInv, NEW n \in Instances, NotifierStep(n)
  PROVE  ObjectsInv'
<1>1. CASE UNCHANGED inst
  BY <1>1 DEF ObjectsInv, TypeInv, LifeInv
<1>2. CASE ~UNCHANGED inst
  BY <1>2, NotifierTouch, OneObject DEF ObjectsInv
<1>3. QED
  BY <1>1, <1>2

(* The objects of a new instance.                                          *)
Fresh(log, proc, notifier, timer) ==
  [Nothing EXCEPT !.manager = "live", !.runner = "live",
                  !.secureLog = log, !.usesFreqProc = proc,
                  !.usesFreqNotifier = notifier, !.notifierTimer = timer,
                  !.m_logger = IF log THEN "live" ELSE "unset"]

LEMMA FreshObject ==
  ASSUME NEW log \in BOOLEAN, NEW proc \in BOOLEAN, NEW notifier \in BOOLEAN,
         NEW timer \in Int, NEW r, r = Fresh(log, proc, notifier, timer)
  PROVE  /\ ObjectsOK(r) /\ OwnInv(r)
         /\ r.manager = "live" /\ r.runner = "live" /\ r.handle = 0 /\ r.fp = "unset"
         /\ r.secureLog = log
         /\ r.m_logger = IF r.secureLog THEN "live" ELSE "unset"
<1>1. /\ ObjectsOK(Nothing) /\ Nothing.handle = 0 /\ ~Nothing.m_fd /\ ~Nothing.stamped
      /\ Nothing.fp = "unset" /\ Nothing.th = "absent"
  BY NothingOK DEF Nothing
<1>2. QED
  BY <1>1, ZenonT(60) DEF Fresh, ObjectsOK, Objects, OwnInv

LEMMA NewObject ==
  ASSUME TypeInv, LifeInv, NEW cfg \in Configs, createFWInstance(cfg)
  PROVE  \E r : /\ inst' = [inst EXCEPT ![made + 1] = r]
                /\ ObjectsOK(r) /\ OwnInv(r)
                /\ r.manager = "live" /\ r.runner = "live" /\ r.handle = 0 /\ r.fp = "unset"
                /\ r.m_logger = IF r.secureLog THEN "live" ELSE "unset"
                /\ pc' = IF r.secureLog THEN "openPipe" ELSE "newFP"
<1>1. TimerOf[cfg.notifierTimer] \in Int
  BY ManagerAssumption DEF createFWInstance, readConfigFile
<1>2. PICK log \in BOOLEAN, proc \in BOOLEAN, notifier \in BOOLEAN, timer \in Int :
        /\ timer = TimerOf[cfg.notifierTimer]
        /\ log = On(cfg, "secureLog") /\ proc = On(cfg, "usesFreqProc")
        /\ notifier = On(cfg, "usesFreqNotifier")
  BY <1>1, Zenon DEF On
<1>3. inst' = [inst EXCEPT ![made + 1] = Fresh(log, proc, notifier, timer)]
  BY <1>2, Zenon DEF createFWInstance, Fresh
<1>4. pc' = IF log THEN "openPipe" ELSE "newFP"
  BY <1>2, Zenon DEF createFWInstance
<1> DEFINE r == Fresh(log, proc, notifier, timer)
<1>a. r = Fresh(log, proc, notifier, timer)
  OBVIOUS
<1> HIDE DEF r
<1>5. /\ ObjectsOK(r) /\ OwnInv(r)
      /\ r.manager = "live" /\ r.runner = "live" /\ r.handle = 0 /\ r.fp = "unset"
      /\ r.secureLog = log
      /\ r.m_logger = IF r.secureLog THEN "live" ELSE "unset"
  BY <1>a, FreshObject
<1>6. pc' = IF r.secureLog THEN "openPipe" ELSE "newFP"
  BY <1>4, <1>5, Zenon
<1>7. QED
  BY <1>3, <1>5, <1>6, <1>a, Zenon

LEMMA CallObjects == TypeInv /\ LifeInv /\ Call => ObjectsInv'
<1> SUFFICES ASSUME TypeInv, LifeInv, Call PROVE ObjectsInv'
  OBVIOUS
<1>1. /\ inst \in [Instances -> Objects]
      /\ \A n \in Instances : ObjectsOK(inst[n]) /\ OwnInv(inst[n])
  BY DEF TypeInv, LifeInv
<1>2. ASSUME UNCHANGED inst PROVE ObjectsInv'
  BY <1>1, <1>2 DEF ObjectsInv
<1>3. made < MaxInstances => made + 1 \in Instances /\ inst[made + 1] = Nothing
  BY ManagerAssumption DEF TypeInv, CallerOK, LifeInv, GoneInv, Instances
<1>4. ASSUME NEW cfg \in Configs, createNoConfig(cfg) PROVE ObjectsInv'
  <2> DEFINE r == [Nothing EXCEPT !.manager = "deleted"]
  <2>1. made + 1 \in Instances /\ inst' = [inst EXCEPT ![made + 1] = r]
    BY <1>1, <1>3, <1>4 DEF createNoConfig
  <2>2. /\ ObjectsOK(Nothing) /\ Nothing.handle = 0 /\ ~Nothing.m_fd /\ ~Nothing.stamped
        /\ Nothing.fp = "unset" /\ Nothing.th = "absent" /\ ~Nothing.secureLog
    BY NothingOK DEF Nothing
  <2>3. ObjectsOK(r) /\ OwnInv(r)
    BY <2>2 DEF ObjectsOK, Objects, OwnInv
  <2>4. QED
    BY <2>1, <2>3, OneObject DEF ObjectsInv
<1>5. ASSUME NEW cfg \in Configs, createFWInstance(cfg) PROVE ObjectsInv'
  <2>1. made + 1 \in Instances
    BY <1>3, <1>5 DEF createFWInstance
  <2>2. \E r : inst' = [inst EXCEPT ![made + 1] = r] /\ ObjectsOK(r) /\ OwnInv(r)
    BY <1>5, NewObject
  <2>3. QED
    BY <2>1, <2>2, OneObject DEF ObjectsInv
<1>6. ASSUME NEW h \in Handles, destroyFWInstance(h) PROVE ObjectsInv'
  <2> DEFINE c == g_mapFWInstances[h]
             r == [inst[c] EXCEPT !.manager = "deleted"]
  <2>1. c \in Instances /\ inst' = [inst EXCEPT ![c] = r]
    BY <1>1, <1>6, ManagerAssumption DEF destroyFWInstance, TypeInv, CallerOK, Instances
  <2>2. ObjectsOK(r) /\ OwnInv(r)
    BY <1>1, <2>1 DEF ObjectsOK, Objects, OwnInv, Complete
  <2>3. QED
    BY <2>1, <2>2, OneObject DEF ObjectsInv
<1>7. ASSUME NEW h \in Handles, instNotFound(h) \/ processMessage(h) PROVE ObjectsInv'
  BY <1>2, <1>7 DEF instNotFound, processMessage
<1>8. QED
  BY <1>4, <1>5, <1>6, <1>7 DEF Call

LEMMA ObjectsNext == TypeInv /\ LifeInv /\ Next => ObjectsInv'
<1> SUFFICES ASSUME TypeInv, LifeInv, Next PROVE ObjectsInv'
  OBVIOUS
<1>1. CASE ReaderStep
  BY <1>1 DEF ReaderStep, openReader, closeReader, readLine, ObjectsInv, TypeInv, LifeInv
<1>2. QED
  BY <1>1, CallObjects, MainObjects, NotifierObjects DEF Next

LEMMA TypeNext == TypeInv /\ LifeInv /\ Next => TypeInv'
BY ObjectsNext, CallerNext, PipeNext DEF TypeInv, ObjectsInv

(* The instance in hand goes through the stages of its life.               *)
LEMMA StageNext == TypeInv /\ LifeInv /\ Next => (pc # "idle" => StageInv(inst[cur]))'
<1> SUFFICES ASSUME TypeInv, LifeInv, Next, pc' # "idle" PROVE StageInv(inst[cur])'
  OBVIOUS
<1> USE DEF globals, caller, logPipe
<1> DEFINE i == inst[cur]
<1>0. /\ process = "running"
      /\ inst \in [Instances -> Objects]
      /\ \A n \in Instances : inst[n] \in Objects
  BY DEF Next, TypeInv
<1>1. ASSUME pc # "idle"
      PROVE  /\ cur \in Instances /\ i \in Objects
             /\ ObjectsOK(i) /\ OwnInv(i) /\ StageInv(i)
  BY <1>1, CurrentObject
<1>2. ASSUME NEW cfg \in Configs, createFWInstance(cfg) PROVE StageInv(inst[cur])'
  <2>1. PICK r : /\ inst' = [inst EXCEPT ![made + 1] = r]
                 /\ r.manager = "live" /\ r.runner = "live" /\ r.handle = 0
                 /\ r.fp = "unset"
                 /\ r.m_logger = IF r.secureLog THEN "live" ELSE "unset"
                 /\ pc' = IF r.secureLog THEN "openPipe" ELSE "newFP"
    BY <1>2, NewObject
  <2>2. /\ cur' = made + 1 /\ made' = made + 1 /\ made + 1 \in Instances
    BY <1>2, ManagerAssumption DEF createFWInstance, TypeInv, CallerOK, Instances
  <2>3. inst'[cur'] = r
    BY <1>0, <2>1, <2>2
  <2>4. QED
    BY <2>1, <2>2, <2>3 DEF StageInv, UnderWay
<1>3. ASSUME NEW h \in Handles, processMessage(h) PROVE StageInv(inst[cur])'
  <2>1. /\ cur' = g_mapFWInstances[h] /\ h \in DOMAIN g_mapFWInstances
        /\ pc' \in {"lock", "decide"} /\ UNCHANGED inst
    BY <1>3 DEF processMessage
  <2>2. inst[cur'].handle = h /\ h # 0
    BY <2>1, ManagerAssumption DEF LifeInv, TableInv, Handles, FirstInstIdx
  <2>3. QED
    BY <2>1, <2>2 DEF StageInv, UnderWay
<1>4. CASE openPipe
  <2>1. /\ pc = "openPipe" /\ pc' = "newFP" /\ UNCHANGED <<cur, made, process>>
    BY <1>4 DEF openPipe
  <2>2. inst' = inst \/ inst' = [inst EXCEPT ![cur] = [i EXCEPT !.m_fd = TRUE]]
    BY <1>4 DEF openPipe
  <2>3. inst'[cur] = i \/ inst'[cur] = [i EXCEPT !.m_fd = TRUE]
    BY <1>0, <1>1, <2>1, <2>2
  <2>4. QED
    BY <1>1, <2>1, <2>3 DEF StageInv, UnderWay, Objects
<1>5. CASE newFP
  <2>1. /\ pc = "newFP" /\ pc' = "parseFile" /\ UNCHANGED <<cur, made, process>>
    BY <1>5 DEF newFP
  <2>2. CASE i.usesFreqProc
    <3>1. PICK run \in BOOLEAN :
            inst' = [inst EXCEPT ![cur] =
                       [i EXCEPT !.fp = "live", !.thShouldRun = run,
                                 !.th = IF i.usesFreqNotifier THEN "loop" ELSE "absent"]]
      BY <1>0, <1>1, <1>5, <2>1, <2>2 DEF newFP
    <3>2. inst'[cur] = [i EXCEPT !.fp = "live", !.thShouldRun = run,
                                 !.th = IF i.usesFreqNotifier THEN "loop" ELSE "absent"]
      BY <1>0, <1>1, <2>1, <3>1
    <3>3. QED
      BY <1>1, <2>1, <3>2 DEF StageInv, UnderWay, Objects
  <2>3. CASE ~i.usesFreqProc
    BY <1>1, <1>5, <2>1, <2>3 DEF newFP, StageInv, UnderWay
  <2>4. QED
    BY <2>2, <2>3
<1>6. CASE parseFile
  <2>1. /\ pc = "parseFile" /\ pc' = "deleteLogger"
        /\ UNCHANGED <<cur, made, process, inst>>
    BY <1>6 DEF parseFile, Return
  <2>2. QED
    BY <1>1, <2>1 DEF StageInv, UnderWay
<1>7. CASE deleteLogger
  <2>1. /\ pc = "deleteLogger" /\ pc' = "deleteFP" /\ UNCHANGED <<cur, made>>
    BY <1>7 DEF deleteLogger
  <2>2. CASE i.m_logger = "live"
    <3>1. inst' = [inst EXCEPT ![cur] = [i EXCEPT !.m_logger = "deleted", !.m_fd = FALSE]]
      BY <1>0, <1>1, <1>7, <2>1, <2>2 DEF deleteLogger
    <3>2. inst'[cur] = [i EXCEPT !.m_logger = "deleted", !.m_fd = FALSE]
      BY <1>0, <1>1, <2>1, <3>1
    <3>3. QED
      BY <1>1, <2>1, <3>2 DEF StageInv, UnderWay, Objects
  <2>3. CASE i.m_logger # "live"
    BY <1>1, <1>7, <2>1, <2>3 DEF deleteLogger, StageInv, UnderWay
  <2>4. QED
    BY <2>2, <2>3
<1>8. CASE deleteFP
  <2>1. pc = "deleteFP" /\ UNCHANGED <<cur, made>>
    BY <1>8 DEF deleteFP
  <2>2. CASE i.fp = "live"
    <3>1. pc' = "join" /\ inst' = [inst EXCEPT ![cur] = [i EXCEPT !.thShouldRun = FALSE]]
      BY <1>8, <2>2 DEF deleteFP
    <3>2. inst'[cur] = [i EXCEPT !.thShouldRun = FALSE]
      BY <1>0, <1>1, <2>1, <3>1
    <3>3. QED
      BY <1>1, <2>1, <2>2, <3>1, <3>2 DEF StageInv, UnderWay, Objects
  <2>3. CASE i.fp # "live"
    BY <1>1, <1>8, <2>1, <2>3 DEF deleteFP, StageInv, UnderWay
  <2>4. QED
    BY <2>2, <2>3
<1>9. CASE join
  <2>1. pc = "join" /\ pc' = "deleteManager" /\ UNCHANGED <<cur, made>>
    BY <1>9 DEF join
  <2>2. CASE i.th = "absent"
    BY <1>1, <1>9, <2>1, <2>2 DEF join, StageInv, UnderWay
  <2>3. CASE i.th # "absent"
    <3>1. inst' = [inst EXCEPT ![cur] = [i EXCEPT !.fp = "deleted"]]
      BY <1>9, <2>3 DEF join
    <3>2. inst'[cur] = [i EXCEPT !.fp = "deleted"]
      BY <1>0, <1>1, <2>1, <3>1
    <3>3. QED
      BY <1>1, <2>1, <3>2 DEF StageInv, UnderWay, Objects
  <2>4. QED
    BY <2>2, <2>3
<1>10. CASE firstStamp
  <2>1. /\ pc = "lock" /\ pc' = "decide" /\ UNCHANGED <<cur, made>>
        /\ inst' = [inst EXCEPT ![cur] = [i EXCEPT !.stamped = TRUE]]
    BY <1>10 DEF firstStamp
  <2>2. inst'[cur].handle = i.handle
    BY <1>0, <1>1, <2>1 DEF Objects
  <2>3. QED
    BY <1>1, <2>1, <2>2 DEF StageInv, UnderWay
<1>11. CASE dropUndefined \/ returnVerdict \/ writeLine
  <2>1. /\ pc \in {"decide", "write"} /\ pc' \in {"decide", "write"}
        /\ UNCHANGED <<cur, made, inst>>
    BY <1>11 DEF dropUndefined, returnVerdict, writeLine
  <2>2. QED
    BY <1>1, <2>1 DEF StageInv, UnderWay
<1>12. ASSUME NEW n \in Instances, NotifierStep(n) PROVE StageInv(inst[cur])'
  <2>1. UNCHANGED <<made, globals, caller>>
    BY <1>12, NotifierTouch
  <2>2. SameMake(i, inst'[cur])
    BY <1>1, <1>12, <2>1, NotifierKeeps
  <2>3. QED
    BY <1>0, <1>1, <2>1, <2>2 DEF StageInv, UnderWay, SameMake
<1>13. CASE ReaderStep
  BY <1>1, <1>13 DEF ReaderStep, openReader, closeReader, readLine, StageInv, UnderWay
<1>14. QED
  <2>1. ~(\E cfg \in Configs : createNoConfig(cfg)) /\ ~deleteManager
        /\ ~(\E h \in Handles : destroyFWInstance(h) \/ instNotFound(h))
    BY DEF createNoConfig, deleteManager, destroyFWInstance, Erase, instNotFound, Return
  <2>2. QED
    BY <2>1, <1>2, <1>3, <1>4, <1>5, <1>6, <1>7, <1>8, <1>9, <1>10, <1>11, <1>12, <1>13
       DEF Next, Call, MainStep

(* A step of the call in hand leaves the other objects alone, and makes or *)
(* takes a handle only where parseFile does.                               *)
Registered ==
  /\ pc = "parseFile" /\ pc' = "idle"
  /\ g_lastInstIdx' = g_lastInstIdx + 1
  /\ g_mapFWInstances' =
       [h \in DOMAIN g_mapFWInstances \cup {g_lastInstIdx'} |->
          IF h = g_lastInstIdx' THEN cur ELSE g_mapFWInstances[h]]
  /\ inst'[cur] = [inst[cur] EXCEPT !.handle = g_lastInstIdx']

LEMMA MainTouch ==
  ASSUME TypeInv, LifeInv, MainStep
  PROVE  /\ pc # "idle" /\ made' = made
         /\ \A n \in Instances \ {cur} : inst'[n] = inst[n]
         /\ \/ Registered
            \/ /\ UNCHANGED <<g_mapFWInstances, g_lastInstIdx>>
               /\ inst'[cur].handle = inst[cur].handle
               /\ inst'[cur].manager = inst[cur].manager \/ inst[cur].handle = 0
<1> USE DEF globals, caller
<1> DEFINE i == inst[cur]
<1>0. pc # "idle" /\ made' = made
  BY DEF MainStep, openPipe, newFP, parseFile, deleteLogger, deleteFP, join, deleteManager,
     firstStamp, dropUndefined, returnVerdict, writeLine
<1>1. /\ cur \in Instances /\ i \in Objects /\ inst \in [Instances -> Objects]
      /\ pc \in UnderWay => i.handle = 0
  BY <1>0, CurrentObject DEF TypeInv, StageInv
<1>2. ASSUME UNCHANGED g_mapFWInstances, UNCHANGED g_lastInstIdx,
             NEW r, inst' = [inst EXCEPT ![cur] = r],
             r.handle = i.handle, r.manager = i.manager \/ i.handle = 0
      PROVE  /\ \A n \in Instances \ {cur} : inst'[n] = inst[n]
             /\ UNCHANGED <<g_mapFWInstances, g_lastInstIdx>>
             /\ inst'[cur].handle = inst[cur].handle
             /\ inst'[cur].manager = inst[cur].manager \/ inst[cur].handle = 0
  BY <1>1, <1>2
<1>3. ASSUME UNCHANGED <<inst, g_mapFWInstances, g_lastInstIdx>>
      PROVE  /\ \A n \in Instances \ {cur} : inst'[n] = inst[n]
             /\ UNCHANGED <<g_mapFWInstances, g_lastInstIdx>>
             /\ inst'[cur].handle = inst[cur].handle
             /\ inst'[cur].manager = inst[cur].manager \/ inst[cur].handle = 0
  BY <1>3
<1>4. CASE openPipe
  <2>1. /\ UNCHANGED g_mapFWInstances /\ UNCHANGED g_lastInstIdx
        /\ UNCHANGED inst \/ inst' = [inst EXCEPT ![cur] = [i EXCEPT !.m_fd = TRUE]]
    BY <1>4 DEF openPipe
  <2>2. QED
    BY <1>0, <1>1, <1>2, <1>3, <2>1 DEF Objects
<1>5. CASE newFP
  <2>1. UNCHANGED g_mapFWInstances /\ UNCHANGED g_lastInstIdx
    BY <1>5 DEF newFP
  <2>2. CASE i.usesFreqProc
    <3>1. PICK run \in BOOLEAN :
            inst' = [inst EXCEPT ![cur] =
                       [i EXCEPT !.fp = "live", !.thShouldRun = run,
                                 !.th = IF i.usesFreqNotifier THEN "loop" ELSE "absent"]]
      BY <1>1, <1>5, <2>2 DEF newFP
    <3>2. QED
      BY <1>0, <1>1, <1>2, <2>1, <3>1 DEF Objects
  <2>3. CASE ~i.usesFreqProc
    BY <1>0, <1>3, <1>5, <2>1, <2>3 DEF newFP
  <2>4. QED
    BY <2>2, <2>3
<1>6. CASE parseFile
  <2>1. CASE pc' = "deleteLogger"
    BY <1>0, <1>3, <1>6, <2>1 DEF parseFile, Return
  <2>2. CASE pc' # "deleteLogger"
    <3>1. inst' = [inst EXCEPT ![cur] = [i EXCEPT !.handle = g_lastInstIdx']]
      BY <1>6, <2>2 DEF parseFile
    <3>2. /\ inst'[cur] = [i EXCEPT !.handle = g_lastInstIdx']
          /\ \A n \in Instances \ {cur} : inst'[n] = inst[n]
      BY <1>1, <3>1
    <3>3. Registered
      BY <1>6, <2>2, <3>2 DEF parseFile, Return, Registered
    <3>4. QED
      BY <1>0, <3>2, <3>3
  <2>3. QED
    BY <2>1, <2>2
<1>7. CASE deleteLogger
  <2>1. /\ UNCHANGED g_mapFWInstances /\ UNCHANGED g_lastInstIdx
        /\ \/ UNCHANGED inst
           \/ inst' = [inst EXCEPT ![cur] = [i EXCEPT !.m_logger = "deleted", !.m_fd = FALSE]]
    BY <1>1, <1>7 DEF deleteLogger
  <2>2. QED
    BY <1>0, <1>1, <1>2, <1>3, <2>1 DEF Objects
<1>8. CASE deleteFP
  <2>1. /\ UNCHANGED g_mapFWInstances /\ UNCHANGED g_lastInstIdx
        /\ UNCHANGED inst \/ inst' = [inst EXCEPT ![cur] = [i EXCEPT !.thShouldRun = FALSE]]
    BY <1>8 DEF deleteFP
  <2>2. QED
    BY <1>0, <1>1, <1>2, <1>3, <2>1 DEF Objects
<1>9. CASE join
  <2>1. /\ UNCHANGED g_mapFWInstances /\ UNCHANGED g_lastInstIdx
        /\ UNCHANGED inst \/ inst' = [inst EXCEPT ![cur] = [i EXCEPT !.fp = "deleted"]]
    BY <1>9 DEF join
  <2>2. QED
    BY <1>0, <1>1, <1>2, <1>3, <2>1 DEF Objects
<1>10. CASE deleteManager
  <2>1. /\ UNCHANGED g_mapFWInstances /\ UNCHANGED g_lastInstIdx
        /\ inst' = [inst EXCEPT ![cur] =
             [i EXCEPT !.runner = "deleted", !.manager = "deleted"]]
        /\ i.handle = 0
    BY <1>1, <1>10 DEF deleteManager, UnderWay
  <2>2. QED
    BY <1>0, <1>1, <1>2, <2>1 DEF Objects
<1>11. CASE firstStamp
  <2>1. /\ UNCHANGED g_mapFWInstances /\ UNCHANGED g_lastInstIdx
        /\ inst' = [inst EXCEPT ![cur] = [i EXCEPT !.stamped = TRUE]]
    BY <1>11 DEF firstStamp
  <2>2. QED
    BY <1>0, <1>1, <1>2, <2>1 DEF Objects
<1>12. CASE dropUndefined \/ returnVerdict \/ writeLine
  BY <1>0, <1>3, <1>12 DEF dropUndefined, returnVerdict, writeLine
<1>13. QED
  BY <1>4, <1>5, <1>6, <1>7, <1>8, <1>9, <1>10, <1>11, <1>12 DEF MainStep


LEMMA NewTouch ==
  ASSUME TypeInv, LifeInv, NEW cfg \in Configs,
         createNoConfig(cfg) \/ createFWInstance(cfg)
  PROVE  /\ pc = "idle" /\ made + 1 \in Instances /\ made' = made + 1
         /\ UNCHANGED <<g_mapFWInstances, g_lastInstIdx>>
         /\ inst[made + 1] = Nothing /\ inst'[made + 1].handle = 0
         /\ \A n \in Instances \ {made + 1} : inst'[n] = inst[n]
         /\ (cur' = made + 1 /\ pc' \in UnderWay) \/ Gone(inst'[made + 1])
<1> USE DEF globals, caller
<1>1. /\ pc = "idle" /\ made + 1 \in Instances /\ made' = made + 1
      /\ UNCHANGED <<g_mapFWInstances, g_lastInstIdx>>
      /\ inst \in [Instances -> Objects]
  BY ManagerAssumption DEF createNoConfig, createFWInstance, TypeInv, CallerOK, Instances
<1>2. inst[made + 1] = Nothing
  BY <1>1 DEF LifeInv, GoneInv, TypeInv, CallerOK
<1>3. CASE createNoConfig(cfg)
  <2>1. inst' = [inst EXCEPT ![made + 1] = [Nothing EXCEPT !.manager = "deleted"]]
    BY <1>1, <1>2, <1>3 DEF createNoConfig
  <2>2. /\ inst'[made + 1] = [Nothing EXCEPT !.manager = "deleted"]
        /\ \A n \in Instances \ {made + 1} : inst'[n] = inst[n]
    BY <1>1, <2>1
  <2>3. Gone(inst'[made + 1]) /\ inst'[made + 1].handle = 0
    BY <2>2 DEF Gone, Nothing
  <2>4. QED
    BY <1>1, <1>2, <2>2, <2>3
<1>4. CASE createFWInstance(cfg)
  <2>1. PICK r : /\ inst' = [inst EXCEPT ![made + 1] = r]
                 /\ r.handle = 0
                 /\ pc' = IF r.secureLog THEN "openPipe" ELSE "newFP"
    BY <1>4, NewObject
  <2>2. /\ inst'[made + 1] = r
        /\ \A n \in Instances \ {made + 1} : inst'[n] = inst[n]
    BY <1>1, <2>1
  <2>3. cur' = made + 1
    BY <1>4 DEF createFWInstance
  <2>4. QED
    BY <1>1, <1>2, <2>1, <2>2, <2>3 DEF UnderWay
<1>5. QED
  BY <1>3, <1>4

(* The table and the objects still name each other after a step that       *)
(* leaves table and handles alone.                                         *)
LEMMA TableKept ==
  ASSUME TypeInv, LifeInv, UNCHANGED <<g_mapFWInstances, g_lastInstIdx>>,
         \A n \in Instances : /\ inst'[n].handle = inst[n].handle
                              /\ inst'[n].manager = inst[n].manager \/ inst[n].handle = 0
  PROVE  TableInv'
<1>1. \A h \in DOMAIN g_mapFWInstances : h # 0 /\ g_mapFWInstances[h] \in Instances
  BY ManagerAssumption DEF TypeInv, CallerOK, Instances, Handles, FirstInstIdx
<1>2. ASSUME NEW h \in DOMAIN g_mapFWInstances
      PROVE  /\ inst'[g_mapFWInstances[h]].handle = h
             /\ inst'[g_mapFWInstances[h]].manager = "live"
  BY <1>1, <1>2 DEF LifeInv, TableInv
<1>3. ASSUME NEW n \in Instances
      PROVE  /\ inst'[n].handle <= g_lastInstIdx
             /\ inst'[n].handle # 0 /\ inst'[n].manager = "live" =>
                  /\ inst'[n].handle \in DOMAIN g_mapFWInstances
                  /\ g_mapFWInstances[inst'[n].handle] = n
  BY <1>3 DEF LifeInv, TableInv
<1>4. QED
  BY <1>2, <1>3 DEF TableInv

(* A new handle is larger than all there were.                             *)
LEMMA TableGrows ==
  ASSUME TypeInv, LifeInv, pc # "idle", Registered,
         \A n \in Instances \ {cur} : inst'[n] = inst[n]
  PROVE  TableInv'
<1> DEFINE k == g_lastInstIdx + 1
<1>1. /\ cur \in Instances /\ inst[cur] \in Objects /\ inst[cur].manager = "live"
      /\ k \in Nat \ {0} /\ g_lastInstIdx \in Nat
  BY CurrentObject, ManagerAssumption DEF Registered, StageInv, UnderWay, TypeInv, CallerOK,
     FirstInstIdx
<1>2. inst'[cur].handle = k /\ inst'[cur].manager = "live" /\ g_lastInstIdx' = k
  BY <1>1 DEF Registered, Objects
<1>3. /\ DOMAIN g_mapFWInstances' = DOMAIN g_mapFWInstances \cup {k}
      /\ g_mapFWInstances'[k] = cur
      /\ \A h \in DOMAIN g_mapFWInstances \ {k} :
           g_mapFWInstances'[h] = g_mapFWInstances[h]
  BY <1>2 DEF Registered
<1>4. /\ \A h \in DOMAIN g_mapFWInstances :
           /\ g_mapFWInstances[h] \in Instances /\ g_mapFWInstances[h] # cur
           /\ h # k /\ inst[g_mapFWInstances[h]].handle = h
           /\ inst[g_mapFWInstances[h]].manager = "live"
  <2> SUFFICES ASSUME NEW h \in DOMAIN g_mapFWInstances
               PROVE  /\ g_mapFWInstances[h] \in Instances /\ g_mapFWInstances[h] # cur
                      /\ h # k /\ inst[g_mapFWInstances[h]].handle = h
                      /\ inst[g_mapFWInstances[h]].manager = "live"
    OBVIOUS
  <2>1. h # 0 /\ g_mapFWInstances[h] \in Instances
    BY ManagerAssumption DEF TypeInv, CallerOK, Instances, Handles, FirstInstIdx
  <2>2. /\ inst[g_mapFWInstances[h]].handle = h
        /\ inst[g_mapFWInstances[h]].manager = "live"
    BY DEF LifeInv, TableInv
  <2>3. h <= g_lastInstIdx
    BY <2>1, <2>2 DEF LifeInv, TableInv
  <2>4. h # k
    BY <1>1, <2>3
  <2>5. inst[cur].handle = 0
    BY CurrentObject DEF Registered, StageInv, UnderWay
  <2>6. QED
    BY <2>1, <2>2, <2>4, <2>5
<1>5. \A h \in DOMAIN g_mapFWInstances' :
        /\ inst'[g_mapFWInstances'[h]].handle = h
        /\ inst'[g_mapFWInstances'[h]].manager = "live"
  BY <1>2, <1>3, <1>4
<1>6. ASSUME NEW n \in Instances
      PROVE  /\ inst'[n].handle <= g_lastInstIdx'
             /\ inst'[n].handle # 0 /\ inst'[n].manager = "live" =>
                  /\ inst'[n].handle \in DOMAIN g_mapFWInstances'
                  /\ g_mapFWInstances'[inst'[n].handle] = n
  <2>1. CASE n = cur
    BY <1>1, <1>2, <1>3, <2>1
  <2>2. CASE n # cur
    <3>1. inst'[n] = inst[n] /\ inst[n] \in Objects
      BY <2>2 DEF TypeInv
    <3>2. /\ inst[n].handle \in Int /\ inst[n].handle <= g_lastInstIdx
          /\ inst[n].handle # 0 /\ inst[n].manager = "live" =>
               /\ inst[n].handle \in DOMAIN g_mapFWInstances
               /\ g_mapFWInstances[inst[n].handle] = n
      BY <3>1, ManagerAssumption DEF LifeInv, TableInv, Objects, Handles, FirstInstIdx
    <3>3. inst[n].handle <= k
      BY <1>1, <3>2
    <3>4. QED
      BY <1>2, <1>3, <1>4, <3>1, <3>2, <3>3
  <2>3. QED
    BY <2>1, <2>2
<1>7. QED
  BY <1>5, <1>6 DEF TableInv


(* destroyFWInstance takes the handle and the manager.                     *)
LEMMA TableShrinks ==
  ASSUME TypeInv, LifeInv, NEW h \in Handles, destroyFWInstance(h)
  PROVE  TableInv'
<1> DEFINE c == g_mapFWInstances[h]
<1>1. /\ h \in DOMAIN g_mapFWInstances /\ c \in Instances /\ inst[c] \in Objects
      /\ inst \in [Instances -> Objects] /\ inst[c].handle = h
  BY ManagerAssumption DEF destroyFWInstance, TypeInv, CallerOK, LifeInv, TableInv, Instances
<1>2. /\ inst' = [inst EXCEPT ![c] = [inst[c] EXCEPT !.manager = "deleted"]]
      /\ g_mapFWInstances' = [k \in DOMAIN g_mapFWInstances \ {h} |-> g_mapFWInstances[k]]
      /\ g_lastInstIdx' = g_lastInstIdx
  BY <1>1 DEF destroyFWInstance, Erase
<1>3. /\ inst'[c].handle = h /\ inst'[c].manager = "deleted"
      /\ \A n \in Instances \ {c} : inst'[n] = inst[n]
  BY <1>1, <1>2 DEF Objects
<1>4. ASSUME NEW k \in DOMAIN g_mapFWInstances'
      PROVE  /\ inst'[g_mapFWInstances'[k]].handle = k
             /\ inst'[g_mapFWInstances'[k]].manager = "live"
  <2>1. k \in DOMAIN g_mapFWInstances /\ k # h /\ g_mapFWInstances'[k] = g_mapFWInstances[k]
    BY <1>2, <1>4
  <2>2. g_mapFWInstances[k] \in Instances
    BY <2>1, ManagerAssumption DEF TypeInv, CallerOK, Instances
  <2>3. /\ inst[g_mapFWInstances[k]].handle = k
        /\ inst[g_mapFWInstances[k]].manager = "live"
    BY <2>1 DEF LifeInv, TableInv
  <2>4. QED
    BY <1>1, <1>3, <2>1, <2>2, <2>3
<1>5. ASSUME NEW n \in Instances
      PROVE  /\ inst'[n].handle <= g_lastInstIdx'
             /\ inst'[n].handle # 0 /\ inst'[n].manager = "live" =>
                  /\ inst'[n].handle \in DOMAIN g_mapFWInstances'
                  /\ g_mapFWInstances'[inst'[n].handle] = n
  <2>1. /\ inst[n].handle <= g_lastInstIdx
        /\ inst[n].handle # 0 /\ inst[n].manager = "live" =>
             /\ inst[n].handle \in DOMAIN g_mapFWInstances
             /\ g_mapFWInstances[inst[n].handle] = n
    BY DEF LifeInv, TableInv
  <2>2. CASE n = c
    BY <1>1, <1>2, <1>3, <2>1, <2>2
  <2>3. CASE n # c
    BY <1>1, <1>2, <1>3, <2>1, <2>3
  <2>4. QED
    BY <2>2, <2>3
<1>6. QED
  BY <1>4, <1>5 DEF TableInv

LEMMA TableNext == TypeInv /\ LifeInv /\ Next => TableInv'
<1> SUFFICES ASSUME TypeInv, LifeInv, Next PROVE TableInv'
  OBVIOUS
<1> USE DEF globals
<1>1. ASSUME NEW cfg \in Configs, createNoConfig(cfg) \/ createFWInstance(cfg)
      PROVE  TableInv'
  <2>1. Nothing.handle = 0
    BY DEF Nothing
  <2>2. /\ UNCHANGED <<g_mapFWInstances, g_lastInstIdx>>
        /\ inst[made + 1] = Nothing /\ inst'[made + 1].handle = 0
        /\ \A n \in Instances \ {made + 1} : inst'[n] = inst[n]
    BY <1>1, NewTouch
  <2>3. \A n \in Instances : /\ inst'[n].handle = inst[n].handle
                             /\ inst'[n].manager = inst[n].manager \/ inst[n].handle = 0
    BY <2>1, <2>2
  <2>4. QED
    BY <2>2, <2>3, TableKept
<1>2. ASSUME NEW h \in Handles, destroyFWInstance(h) PROVE TableInv'
  BY <1>2, TableShrinks
<1>3. ASSUME NEW h \in Handles, instNotFound(h) \/ processMessage(h) PROVE TableInv'
  <2>1. UNCHANGED <<inst, g_mapFWInstances, g_lastInstIdx>>
    BY <1>3 DEF instNotFound, processMessage
  <2>2. QED
    BY <2>1, TableKept
<1>4. CASE MainStep
  <2>1. CASE Registered
    BY <1>4, <2>1, MainTouch, TableGrows
  <2>2. CASE ~Registered
    BY <1>4, <2>2, MainTouch, TableKept
  <2>3. QED
    BY <2>1, <2>2
<1>5. ASSUME NEW n \in Instances, NotifierStep(n) PROVE TableInv'
  <2>1. UNCHANGED <<g_mapFWInstances, g_lastInstIdx>>
    BY <1>5, NotifierTouch
  <2>2. \A m \in Instances : inst'[m].handle = inst[m].handle /\ inst'[m].manager = inst[m].manager
    BY <1>5, NotifierKeeps DEF SameMake
  <2>3. QED
    BY <2>1, <2>2, TableKept
<1>6. CASE ReaderStep
  <2>1. UNCHANGED <<inst, g_mapFWInstances, g_lastInstIdx>>
    BY <1>6 DEF ReaderStep, openReader, closeReader, readLine
  <2>2. QED
    BY <2>1, TableKept
<1>7. QED
  BY <1>1, <1>2, <1>3, <1>4, <1>5, <1>6 DEF Next, Call

(* deleteManager is the last of a failed call: logger, end of the pipe,    *)
(* frequency processor and thread have gone before.                        *)
LEMMA FailedIsGone ==
  ASSUME TypeInv, LifeInv, process = "running", deleteManager
  PROVE  Gone(inst'[cur])
<1>1. /\ cur \in Instances /\ inst[cur] \in Objects /\ inst \in [Instances -> Objects]
      /\ ObjectsOK(inst[cur]) /\ OwnInv(inst[cur]) /\ StageInv(inst[cur])
      /\ pc = "deleteManager"
  BY CurrentObject DEF deleteManager, TypeInv
<1>2. inst'[cur] = [inst[cur] EXCEPT !.runner = "deleted", !.manager = "deleted"]
  BY <1>1 DEF deleteManager
<1>3. /\ inst[cur].m_logger # "live" /\ inst[cur].fp # "live"
  BY <1>1 DEF StageInv
<1>4. ~inst[cur].m_fd /\ inst[cur].th \in {"absent", "done"}
  BY <1>1, <1>3 DEF OwnInv, Objects
<1>5. QED
  BY <1>1, <1>2, <1>3, <1>4 DEF Gone, Objects

LEMMA GoneNext == TypeInv /\ LifeInv /\ Next => GoneInv'
<1> SUFFICES ASSUME TypeInv, LifeInv, Next PROVE GoneInv'
  OBVIOUS
<1> USE DEF globals, caller
<1>0. /\ made \in Nat /\ MaxInstances \in Nat /\ made <= MaxInstances
      /\ Instances = 1 .. MaxInstances
      /\ cur \in 0 .. made /\ (cur = 0 <=> pc = "idle")
      /\ \A n \in Instances : n > made => inst[n] = Nothing
      /\ \A n \in 1 .. made :
           (n # cur \/ pc \notin UnderWay) /\ inst[n].handle = 0 => Gone(inst[n])
  BY ManagerAssumption DEF TypeInv, CallerOK, Instances, LifeInv, GoneInv
<1>1. ASSUME NEW cfg \in Configs, createNoConfig(cfg) \/ createFWInstance(cfg)
      PROVE  GoneInv'
  <2>1. /\ pc = "idle" /\ made + 1 \in Instances /\ made' = made + 1
        /\ \A n \in Instances \ {made + 1} : inst'[n] = inst[n]
        /\ (cur' = made + 1 /\ pc' \in UnderWay) \/ Gone(inst'[made + 1])
    BY <1>1, NewTouch
  <2>2. ASSUME NEW n \in Instances, n > made' PROVE inst'[n] = Nothing
    BY <1>0, <2>1, <2>2
  <2>3. ASSUME NEW n \in 1 .. made', n # cur' \/ pc' \notin UnderWay,
               inst'[n].handle = 0
        PROVE  Gone(inst'[n])
    <3>1. CASE n = made + 1
      BY <2>1, <2>3, <3>1
    <3>2. CASE n # made + 1
      <4>1. n \in 1 .. made /\ n \in Instances /\ pc \notin UnderWay
        BY <1>0, <2>1, <2>3, <3>2 DEF UnderWay
      <4>2. inst'[n] = inst[n]
        BY <2>1, <3>2, <4>1
      <4>3. QED
        BY <1>0, <2>3, <4>1, <4>2
    <3>3. QED
      BY <3>1, <3>2
  <2>4. QED
    BY <2>2, <2>3 DEF GoneInv
<1>2. ASSUME NEW h \in Handles, destroyFWInstance(h) PROVE GoneInv'
  <2> DEFINE c == g_mapFWInstances[h]
  <2>1. /\ pc = "idle" /\ pc' = "idle" /\ made' = made
        /\ c \in 1 .. made /\ c \in Instances /\ inst[c].handle = h /\ h # 0
        /\ inst[c] \in Objects /\ inst \in [Instances -> Objects]
    BY <1>0, <1>2, ManagerAssumption DEF destroyFWInstance, Erase, Return, TypeInv, CallerOK,
       LifeInv, TableInv, Handles, FirstInstIdx
  <2>2. inst' = [inst EXCEPT ![c] = [inst[c] EXCEPT !.manager = "deleted"]]
    BY <1>2, <2>1 DEF destroyFWInstance
  <2>3. inst'[c].handle # 0 /\ \A n \in Instances \ {c} : inst'[n] = inst[n]
    BY <2>1, <2>2 DEF Objects
  <2>4. 1 .. made \subseteq Instances /\ pc \notin UnderWay
    BY <1>0, <2>1 DEF UnderWay
  <2>5. QED
    BY <1>0, <2>1, <2>3, <2>4 DEF GoneInv
<1>3. ASSUME NEW h \in Handles, instNotFound(h) \/ processMessage(h) PROVE GoneInv'
  <2>1. pc \notin UnderWay /\ pc' \notin UnderWay /\ UNCHANGED <<inst, made>>
    BY <1>3 DEF instNotFound, processMessage, Return, UnderWay
  <2>2. QED
    BY <1>0, <2>1 DEF GoneInv
<1>4. CASE MainStep
  <2>1. /\ pc # "idle" /\ made' = made /\ cur \in Instances /\ cur \in 1 .. made
        /\ StageInv(inst[cur]) /\ inst[cur] \in Objects
        /\ \A n \in Instances \ {cur} : inst'[n] = inst[n]
    BY <1>0, <1>4, MainTouch, CurrentObject
  <2>2. /\ cur' = cur \/ pc' = "idle"
        /\ pc \in UnderWay => pc' \in UnderWay \/ Registered \/ deleteManager
        /\ pc \notin UnderWay => pc \in {"lock", "decide", "write"}
    <3>1. cur' = cur \/ pc' = "idle"
      BY <1>4 DEF MainStep, openPipe, newFP, parseFile, deleteLogger, deleteFP, join,
         deleteManager, firstStamp, dropUndefined, returnVerdict, writeLine, Return
    <3>2. pc \in UnderWay =>
            openPipe \/ newFP \/ parseFile \/ deleteLogger \/ deleteFP \/ join \/ deleteManager
      BY <1>4 DEF MainStep, UnderWay, firstStamp, dropUndefined, returnVerdict, writeLine
    <3>3. parseFile => pc' = "deleteLogger" \/ Registered
      <4> SUFFICES ASSUME parseFile, pc' # "deleteLogger" PROVE Registered
        OBVIOUS
      <4>1. g_lastInstIdx' = g_lastInstIdx + 1 /\ g_lastInstIdx \in Int
        BY ManagerAssumption DEF parseFile, TypeInv, CallerOK, FirstInstIdx
      <4>2. QED
        BY <1>4, <4>1, MainTouch
    <3>4. pc \in UnderWay => pc' \in UnderWay \/ Registered \/ deleteManager
      BY <3>2, <3>3 DEF openPipe, newFP, deleteLogger, deleteFP, join, UnderWay
    <3>5. pc \notin UnderWay => pc \in {"lock", "decide", "write"}
      BY <2>1 DEF TypeInv, CallerOK
    <3>6. QED
      BY <3>1, <3>4, <3>5
  <2>3. ASSUME NEW n \in Instances, n > made' PROVE inst'[n] = Nothing
    BY <1>0, <2>1, <2>3
  <2>4. ASSUME NEW n \in 1 .. made', n # cur' \/ pc' \notin UnderWay,
               inst'[n].handle = 0
        PROVE  Gone(inst'[n])
    <3>0. n \in Instances /\ n \in 1 .. made
      BY <1>0, <2>1
    <3>1. CASE n # cur
      BY <1>0, <2>1, <2>4, <3>0, <3>1
    <3>2. CASE n = cur /\ pc \notin UnderWay
      <4>1. inst[cur].handle # 0
        BY <2>1, <2>2, <3>2 DEF StageInv
      <4>2. ~Registered
        BY <3>2 DEF Registered, UnderWay
      <4>3. QED
        BY <1>4, <2>4, <3>2, <4>1, <4>2, MainTouch
    <3>3. CASE n = cur /\ pc \in UnderWay
      <4>1. pc' \notin UnderWay
        BY <2>2, <2>4, <3>3 DEF UnderWay
      <4>2. CASE Registered
        <5>1. g_lastInstIdx + 1 # 0
          BY ManagerAssumption DEF TypeInv, CallerOK, FirstInstIdx
        <5>2. inst'[cur].handle = g_lastInstIdx + 1
          BY <2>1, <4>2 DEF Registered, Objects
        <5>3. QED
          BY <2>4, <3>3, <5>1, <5>2
      <4>3. CASE deleteManager
        BY <3>3, <4>3, FailedIsGone DEF Next
      <4>4. QED
        BY <2>2, <3>3, <4>1, <4>2, <4>3
    <3>4. QED
      BY <3>1, <3>2, <3>3
  <2>5. QED
    BY <2>3, <2>4 DEF GoneInv
<1>5. ASSUME NEW k \in Instances, NotifierStep(k) PROVE GoneInv'
  <2>1. UNCHANGED <<made, cur, pc>> /\ inst[k].fp = "live"
    BY <1>5, NotifierTouch
  <2>2. /\ \A n \in Instances \ {k} : inst'[n] = inst[n]
        /\ inst'[k].handle = inst[k].handle
    BY <1>5, NotifierKeeps DEF SameMake
  <2>3. inst[k] # Nothing /\ ~Gone(inst[k])
    BY <2>1 DEF Nothing, Gone
  <2>4. 1 .. made \subseteq Instances
    BY <1>0
  <2>5. QED
    BY <1>0, <2>1, <2>2, <2>3, <2>4 DEF GoneInv
<1>6. CASE ReaderStep
  <2>1. UNCHANGED <<inst, made, cur, pc>>
    BY <1>6 DEF ReaderStep, openReader, closeReader, readLine
  <2>2. QED
    BY <1>0, <2>1 DEF GoneInv
<1>7. QED
  BY <1>1, <1>2, <1>3, <1>4, <1>5, <1>6 DEF Next, Call


LEMMA LifeNext == TypeInv /\ LifeInv /\ Next => LifeInv'
BY ObjectsNext, StageNext, TableNext, GoneNext DEF LifeInv, ObjectsInv

LEMMA LifeStutter == TypeInv /\ LifeInv /\ UNCHANGED vars => TypeInv' /\ LifeInv'
<1> SUFFICES ASSUME TypeInv, LifeInv, UNCHANGED vars PROVE TypeInv' /\ LifeInv'
  OBVIOUS
<1>1. UNCHANGED <<inst, made, g_mapFWInstances, g_lastInstIdx, g_lastError, pc, cur, lines,
                  returned, pipe, readerUp, process>>
  BY DEF vars, globals, caller, logPipe
<1>2. TypeInv'
  BY <1>1 DEF TypeInv, CallerOK, PipeOK
<1>3. LifeInv'
  BY <1>1 DEF LifeInv, StageInv, TableInv, GoneInv
<1>4. QED
  BY <1>2, <1>3

LEMMA LifeInvariant == Spec => [](TypeInv /\ LifeInv)
<1>1. Init => TypeInv /\ LifeInv
  BY TypeInit, LifeInit
<1>2. TypeInv /\ LifeInv /\ [Next]_vars => TypeInv' /\ LifeInv'
  BY TypeNext, LifeNext, LifeStutter
<1>3. QED
  BY <1>1, <1>2, PTL DEF Spec

(* Every variable has its type, for any number of instances and calls.     *)
THEOREM TypeCorrect == Spec => []TypeOK
BY LifeInvariant, TypeInvType, PTL

(* Whoever writes to a logger, the caller or the notifier thread of        *)
(* FrequencyProcessor.cpp:188, writes to one that is still there: only an  *)
(* instance that never got a handle is taken apart, and it has no stamp to *)
(* report and no frame to log.                                             *)
THEOREM LoggerOutlives == Spec => []LoggerOutlivesItsUsers
<1>1. ASSUME TypeInv, LifeInv PROVE LoggerOutlivesItsUsers
  <2> SUFFICES ASSUME NEW n \in Instances,
                      inst[n].th = "writing" \/ (pc = "write" /\ cur = n)
               PROVE  inst[n].m_logger # "deleted" /\ inst[n].fp # "deleted"
    BY DEF LoggerOutlivesItsUsers
  <2>1. OwnInv(inst[n])
    BY <1>1 DEF LifeInv
  <2>2. inst[n].handle # 0
    BY <1>1, <2>1 DEF OwnInv, LifeInv, StageInv
  <2>3. QED
    BY <2>1, <2>2 DEF OwnInv
<1>2. QED
  BY <1>1, LifeInvariant, PTL

(* createFWInstance makes all of an instance or leaves nothing of it, and  *)
(* the table of dllmain.cpp knows exactly the managers that live.          *)
THEOREM AllOrNothing == Spec => []CreateAllOrNothing
<1>1. ASSUME TypeInv, LifeInv PROVE CreateAllOrNothing
  <2> SUFFICES ASSUME NEW n \in 1 .. made,
                      pc \in {"idle", "lock", "decide", "write"} \/ n # cur
               PROVE  IF inst[n].handle = 0 THEN Gone(inst[n])
                      ELSE /\ Complete(inst[n])
                           /\ inst[n].manager = "live" <=>
                                /\ inst[n].handle \in DOMAIN g_mapFWInstances
                                /\ g_mapFWInstances[inst[n].handle] = n
    BY DEF CreateAllOrNothing
  <2>1. n \in Instances /\ OwnInv(inst[n])
    BY <1>1, ManagerAssumption DEF TypeInv, CallerOK, LifeInv, Instances
  <2>2. CASE inst[n].handle = 0
    BY <1>1, <2>2 DEF LifeInv, GoneInv, UnderWay
  <2>3. CASE inst[n].handle # 0
    <3>1. Complete(inst[n])
      BY <2>1, <2>3 DEF OwnInv
    <3>2. inst[n].manager = "live" <=>
            /\ inst[n].handle \in DOMAIN g_mapFWInstances
            /\ g_mapFWInstances[inst[n].handle] = n
      BY <1>1, <2>1, <2>3 DEF LifeInv, TableInv
    <3>3. QED
      BY <2>3, <3>1, <3>2
  <2>4. QED
    BY <2>2, <2>3
<1>2. QED
  BY <1>1, LifeInvariant, PTL


(* The process dies of a pointer in one of five places; each time the      *)
(* instance at hand is one the configuration did not make whole.           *)
LEMMA SoundNext == TypeInv /\ LifeInv /\ Next => SoundConfigsSurvive'
<1> SUFFICES ASSUME TypeInv, LifeInv, Next, process' = "crashed"
             PROVE  \E n \in Instances :
                      /\ inst'[n].runner = "live"
                      /\ \/ ~inst'[n].secureLog
                         \/ /\ pc' = "deleteManager" /\ cur' = n
                            /\ ~(inst'[n].usesFreqProc /\ inst'[n].usesFreqNotifier)
  BY DEF SoundConfigsSurvive
<1> USE DEF globals, caller, logPipe
<1>0. process = "running"
  BY DEF Next
<1>1. ASSUME NEW n, Written(n) PROVE FALSE
  BY <1>0, <1>1 DEF Written
<1>2. ASSUME pc # "idle"
      PROVE  /\ cur \in Instances /\ OwnInv(inst[cur]) /\ StageInv(inst[cur])
             /\ inst[cur].runner = "live"
  BY <1>0, <1>2, CurrentObject
     DEF StageInv, OwnInv, Complete, TypeInv, CallerOK
<1>3. CASE deleteLogger
  <2>1. pc = "deleteLogger" /\ inst[cur].m_logger # "live" /\ UNCHANGED inst
    BY <1>0, <1>3 DEF deleteLogger
  <2>2. QED
    BY <1>2, <2>1 DEF StageInv
<1>4. CASE deleteFP
  <2>1. /\ pc = "deleteFP" /\ inst[cur].fp # "live" /\ UNCHANGED <<inst, cur>>
        /\ pc' = "deleteManager"
    BY <1>0, <1>4 DEF deleteFP
  <2>2. QED
    BY <1>2, <2>1 DEF StageInv
<1>5. CASE join
  <2>1. /\ pc = "join" /\ inst[cur].th = "absent" /\ UNCHANGED <<inst, cur>>
        /\ pc' = "deleteManager"
    BY <1>0, <1>5 DEF join
  <2>2. ~inst[cur].usesFreqNotifier
    BY <1>2, <2>1 DEF StageInv, OwnInv
  <2>3. QED
    BY <1>2, <2>1, <2>2
<1>6. CASE dropUndefined
  <2>1. pc = "decide" /\ ~inst[cur].secureLog /\ UNCHANGED inst
    BY <1>0, <1>6 DEF dropUndefined
  <2>2. QED
    BY <1>2, <2>1
<1>7. CASE writeLine
  BY <1>1, <1>7 DEF writeLine
<1>8. ASSUME NEW n \in Instances, NotifierStep(n)
      PROVE  /\ inst'[n].runner = "live" /\ ~inst'[n].secureLog
  <2>1. writeAlert(n)
    BY <1>0, <1>8 DEF NotifierStep, testShouldRun, scan, wakeUp
  <2>2. inst[n].th = "writing" /\ inst[n].m_logger = "unset" /\ UNCHANGED inst
    BY <1>1, <2>1 DEF writeAlert
  <2>3. inst[n].handle # 0 /\ OwnInv(inst[n])
    BY <2>2 DEF LifeInv, OwnInv
  <2>4. QED
    BY <2>2, <2>3 DEF OwnInv, Complete
<1>9. ~Call /\ ~ReaderStep
  BY <1>0 DEF Call, createNoConfig, createFWInstance, destroyFWInstance, instNotFound,
     processMessage, ReaderStep, openReader, closeReader, readLine
<1>10. ~(openPipe \/ newFP \/ parseFile \/ deleteManager \/ firstStamp \/ returnVerdict)
  BY <1>0 DEF openPipe, newFP, parseFile, deleteManager, firstStamp, returnVerdict
<1>11. QED
  BY <1>3, <1>4, <1>5, <1>6, <1>7, <1>8, <1>9, <1>10 DEF Next, MainStep

(* No indeterminate pointer of ~RuleRunner and no m_logger nobody set      *)
(* kills the process while every instance has a secure log, and every one  *)
(* with a bad rule file a frequency processor with its notifier.           *)
THEOREM SoundSurvive == Spec => []SoundConfigsSurvive
<1>1. Init => SoundConfigsSurvive
  BY DEF Init, SoundConfigsSurvive
<1>2. TypeInv /\ LifeInv /\ SoundConfigsSurvive /\ [Next]_vars => SoundConfigsSurvive'
  <2>1. SoundConfigsSurvive /\ UNCHANGED vars => SoundConfigsSurvive'
    BY DEF SoundConfigsSurvive, vars, caller
  <2>2. QED
    BY <2>1, SoundNext
<1>3. QED
  BY <1>1, <1>2, LifeInvariant, PTL DEF Spec



-----------------------------------------------------------------------------
(* How far a notifier that has been told to stop is from its end, when it  *)
(* has nothing to report.                                                  *)
JoinLeft(th) ==
  CASE th = "scan"  -> 3
    [] th = "sleep" -> 2
    [] th = "loop"  -> 1
    [] OTHER        -> 0

(* The thread that is joined has been told to stop.                        *)
ToldToStop == pc = "join" => ~inst[cur].thShouldRun

(* What runs during the join: notifiers, and the reader of the pipe.       *)
LEMMA WhileJoining ==
  ASSUME Next, pc = "join"
  PROVE  \/ pc' # "join"
         \/ UNCHANGED <<inst, pc, cur>>
         \/ \E n \in Instances : NotifierStep(n) /\ UNCHANGED <<pc, cur>>
<1>1. CASE Call
  BY <1>1 DEF Call, createNoConfig, createFWInstance, destroyFWInstance, instNotFound,
     processMessage
<1>2. CASE MainStep
  BY <1>2 DEF MainStep, openPipe, newFP, parseFile, deleteLogger, deleteFP, join,
     deleteManager, firstStamp, dropUndefined, returnVerdict, writeLine
<1>3. ASSUME NEW n \in Instances, NotifierStep(n)
      PROVE  UNCHANGED <<pc, cur>>
  BY <1>3 DEF NotifierStep, testShouldRun, scan, writeAlert, wakeUp, caller
<1>4. CASE ReaderStep
  BY <1>4 DEF ReaderStep, openReader, closeReader, readLine, caller
<1>5. QED
  BY <1>1, <1>2, <1>3, <1>4 DEF Next

(* The instance that is joined never had a handle, so its notifier has no  *)
(* stamp to report: it comes to its end without the pipe.                  *)
LEMMA JoinedThread ==
  ASSUME TypeInv, LifeInv, pc = "join"
  PROVE  /\ cur \in Instances /\ inst[cur] \in Objects
         /\ ~inst[cur].stamped
         /\ inst[cur].th # "writing"
<1>1. /\ cur \in Instances /\ inst[cur] \in Objects
      /\ OwnInv(inst[cur]) /\ StageInv(inst[cur])
  BY CurrentObject
<1>2. inst[cur].handle = 0
  BY <1>1 DEF StageInv, UnderWay
<1>3. QED
  BY <1>1, <1>2 DEF OwnInv

(* A step of a notifier leaves the instance that is joined alone, or takes *)
(* its thread on.                                                          *)
LEMMA ThreadGoesOn ==
  ASSUME TypeInv, LifeInv, ToldToStop, pc = "join",
         NEW n \in Instances, NotifierStep(n)
  PROVE  /\ inst'[cur].thShouldRun = inst[cur].thShouldRun
         /\ \/ inst'[cur].th = inst[cur].th
            \/ JoinLeft(inst'[cur].th) < JoinLeft(inst[cur].th)
<1> DEFINE i == inst[cur]
<1>1. /\ cur \in Instances /\ i \in Objects /\ ~i.stamped /\ i.th # "writing"
      /\ inst \in [Instances -> Objects]
  BY JoinedThread DEF TypeInv
<1>2. CASE n # cur
  BY <1>1, <1>2, NotifierKeeps
<1>3. CASE n = cur /\ testShouldRun(n)
  <2>1. i.th = "loop" /\ ~i.thShouldRun /\ inst' = [inst EXCEPT ![cur].th = "done"]
    BY <1>3 DEF testShouldRun, ToldToStop
  <2>2. inst'[cur].th = "done" /\ inst'[cur].thShouldRun = i.thShouldRun
    BY <1>1, <2>1 DEF Objects
  <2>3. JoinLeft(i.th) = 1 /\ JoinLeft(inst'[cur].th) = 0
    BY <2>1, <2>2 DEF JoinLeft
  <2>4. QED
    BY <2>2, <2>3
<1>4. CASE n = cur /\ scan(n)
  <2>1. /\ i.th = "scan"
        /\ \E k \in 0 .. 0 :
             inst' = [inst EXCEPT ![cur].th = IF k = 0 THEN "sleep" ELSE "writing",
                                  ![cur].batch = k]
    BY <1>1, <1>4 DEF scan
  <2>2. inst' = [inst EXCEPT ![cur].th = "sleep", ![cur].batch = 0]
    BY <2>1
  <2>3. inst'[cur].th = "sleep" /\ inst'[cur].thShouldRun = i.thShouldRun
    BY <1>1, <2>2 DEF Objects
  <2>4. JoinLeft(i.th) = 3 /\ JoinLeft(inst'[cur].th) = 2
    BY <2>1, <2>3 DEF JoinLeft
  <2>5. QED
    BY <2>3, <2>4
<1>5. CASE n = cur /\ wakeUp(n)
  <2>1. i.th = "sleep" /\ inst' = [inst EXCEPT ![cur].th = "loop"]
    BY <1>5 DEF wakeUp
  <2>2. inst'[cur].th = "loop" /\ inst'[cur].thShouldRun = i.thShouldRun
    BY <1>1, <2>1 DEF Objects
  <2>3. JoinLeft(i.th) = 2 /\ JoinLeft(inst'[cur].th) = 1
    BY <2>1, <2>2 DEF JoinLeft
  <2>4. QED
    BY <2>2, <2>3
<1>6. CASE n = cur /\ writeAlert(n)
  BY <1>1, <1>6 DEF writeAlert
<1>7. QED
  BY <1>2, <1>3, <1>4, <1>5, <1>6 DEF NotifierStep

LEMMA StopNext == TypeInv /\ LifeInv /\ ToldToStop /\ [Next]_vars => ToldToStop'
<1> SUFFICES ASSUME TypeInv, LifeInv, ToldToStop, [Next]_vars, pc' = "join"
             PROVE  ~inst'[cur'].thShouldRun
  BY DEF ToldToStop
<1>1. CASE UNCHANGED vars
  BY <1>1 DEF vars, caller, ToldToStop
<1>2. CASE Next /\ pc = "join"
  <2>1. CASE UNCHANGED <<inst, pc, cur>>
    BY <1>2, <2>1 DEF ToldToStop
  <2>2. ASSUME NEW n \in Instances, NotifierStep(n), UNCHANGED cur
        PROVE  ~inst'[cur'].thShouldRun
    BY <1>2, <2>2, ThreadGoesOn DEF ToldToStop
  <2>3. QED
    BY <1>2, <2>1, <2>2, WhileJoining
<1>3. CASE Next /\ pc # "join"
  <2>1. deleteFP
    BY <1>3 DEF Next, Call, createNoConfig, createFWInstance, destroyFWInstance, instNotFound,
       processMessage, Erase, Return, MainStep, openPipe, newFP, parseFile, deleteLogger, join,
       deleteManager, firstStamp, dropUndefined, returnVerdict, writeLine, NotifierStep,
       testShouldRun, scan, writeAlert, wakeUp, ReaderStep, openReader, closeReader, readLine,
       caller
  <2>2. cur \in Instances /\ inst[cur] \in Objects /\ inst \in [Instances -> Objects]
    BY <2>1, CurrentObject DEF deleteFP, TypeInv
  <2>3. inst' = [inst EXCEPT ![cur].thShouldRun = FALSE] /\ cur' = cur
    BY <2>1 DEF deleteFP
  <2>4. QED
    BY <2>2, <2>3 DEF Objects
<1>4. QED
  BY <1>1, <1>2, <1>3

(* A failed createFWInstance waits in join for its own notifier and for    *)
(* nothing else: whoever holds the log pipe or reads it, the thread writes *)
(* nothing any more and is at most three steps from its end, the sleep     *)
(* being one of them.                                                      *)
THEOREM JoinIsBounded ==
  Spec => /\ [](pc = "join" => inst[cur].th # "writing")
          /\ [][pc = "join" /\ pc' = "join" =>
                  \/ inst'[cur'].th = inst[cur].th
                  \/ JoinLeft(inst'[cur'].th) < JoinLeft(inst[cur].th)]_vars
<1> DEFINE Wait == pc = "join" /\ pc' = "join" =>
                     \/ inst'[cur'].th = inst[cur].th
                     \/ JoinLeft(inst'[cur'].th) < JoinLeft(inst[cur].th)
<1>1. Init => ToldToStop
  BY DEF Init, ToldToStop
<1>2. TypeInv /\ LifeInv => (pc = "join" => inst[cur].th # "writing")
  BY JoinedThread
<1>3. TypeInv /\ LifeInv /\ ToldToStop /\ [Next]_vars => [Wait]_vars
  <2> SUFFICES ASSUME TypeInv, LifeInv, ToldToStop, Next, pc = "join", pc' = "join"
               PROVE  \/ inst'[cur'].th = inst[cur].th
                      \/ JoinLeft(inst'[cur'].th) < JoinLeft(inst[cur].th)
    OBVIOUS
  <2>1. CASE UNCHANGED <<inst, pc, cur>>
    BY <2>1
  <2>2. ASSUME NEW n \in Instances, NotifierStep(n), UNCHANGED cur
        PROVE  \/ inst'[cur'].th = inst[cur].th
               \/ JoinLeft(inst'[cur'].th) < JoinLeft(inst[cur].th)
    BY <2>2, ThreadGoesOn
  <2>3. QED
    BY <2>1, <2>2, WhileJoining
<1>4. QED
  BY <1>1, <1>2, <1>3, StopNext, LifeInvariant, PTL DEF Spec
==============================================================================
