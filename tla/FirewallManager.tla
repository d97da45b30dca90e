--------------------------- MODULE FirewallManager ---------------------------
(***************************************************************************)
(* The life of firewall instances: the calls of the C API (dllmain.cpp),   *)
(* made by one thread; FirewallManager::initialize; the runner with what   *)
(* it owns - the logger with its end of the log pipe, the frequency        *)
(* processor, the notifier thread; and the pipe, which is bounded and has  *)
(* a reader outside.  What RuleRunner and FrequencyProcessor decide is a   *)
(* choice here; the locks and pointers that tie them together are not.     *)
(***************************************************************************)
EXTENDS FWCore

CONSTANTS
  Configs,       (* configuration files: parameter -> string              *)
  TimerOf,       (* string -> int, for strings that start with a number   *)
  MaxInstances,  (* BOUND: calls of createFWInstance                       *)
  MaxBatch,      (* BOUND: alerts in a batch                               *)
  PipeLines      (* lines the log pipe holds                               *)

ASSUME ManagerAssumption ==
  /\ \A cfg \in Configs : DOMAIN cfg \subseteq STRING
  /\ \A s \in DOMAIN TimerOf : TimerOf[s] \in Int
  /\ MaxInstances \in Nat
  /\ MaxBatch \in Nat \ {0}
  /\ PipeLines \in Nat \ {0}

VARIABLES
  inst,              (* the objects of each call of createFWInstance       *)
  made,              (* calls of createFWInstance                          *)
  g_mapFWInstances, g_lastInstIdx, g_lastError,
  pc,                (* the thread of the API                              *)
  cur,               (* the instance it works on                           *)
  lines,             (* lines it still has to write for this frame         *)
  returned,          (* what the last call returned, or the one that runs  *)
                     (* will; 0 until it is known                           *)
  pipe,              (* lines in the log pipe                              *)
  readerUp,          (* the log pipe has a reader                          *)
  process            (* "running", "crashed" or "sigpipe"                  *)

globals == <<g_mapFWInstances, g_lastInstIdx, g_lastError>>
caller  == <<pc, cur, lines, returned>>
logPipe == <<pipe, readerUp>>
vars    == <<inst, made, globals, caller, logPipe, process>>

-----------------------------------------------------------------------------
Instances == 1 .. MaxInstances

(* "This should be greater than the last code defined in FWCore"           *)
FirstInstIdx == 100

Handles == (FirstInstIdx + 1) .. (FirstInstIdx + MaxInstances)

(* An object, by what has become of it.  A pointer nobody has set is       *)
(* "unset": what it holds is indeterminate.                                *)
Nothing ==
  [manager |-> "none", runner |-> "none", handle |-> 0,
   secureLog |-> FALSE, usesFreqProc |-> FALSE, usesFreqNotifier |-> FALSE,
   notifierTimer |-> 0,
   m_logger |-> "unset", m_fd |-> FALSE, fp |-> "unset",
   thShouldRun |-> FALSE, stamped |-> FALSE, th |-> "absent", batch |-> 0]

Init ==
  /\ inst = [n \in Instances |-> Nothing]
  /\ made = 0
  /\ g_mapFWInstances = <<>>
  /\ g_lastInstIdx = FirstInstIdx
  /\ g_lastError = FWCORE_RESULT_OK
  /\ pc = "idle"
  /\ cur = 0
  /\ lines = 0
  /\ returned = FWCORE_RESULT_OK
  /\ pipe = 0
  /\ readerUp = FALSE
  /\ process = "running"

-----------------------------------------------------------------------------
Return(code, error) ==
  /\ returned' = code
  /\ g_lastError' = error
  /\ pc' = "idle"
  /\ cur' = 0

(* getParameter: the value of a parameter the file gives as a string.      *)
Given(cfg, parameter) == parameter \in DOMAIN cfg

On(cfg, parameter) == cfg[parameter] = "true"

(* All five parameters are there, and the timer is a number.               *)
readConfigFile(cfg) ==
  /\ \A p \in {"ruleFile", "secureLog", "usesFreqProc", "usesFreqNotifier",
              "notifierTimer"} : Given(cfg, p)
  /\ cfg.notifierTimer \in DOMAIN TimerOf

createNoConfig(cfg) ==
  /\ pc = "idle" /\ made < MaxInstances
  /\ ~readConfigFile(cfg)
  /\ made' = made + 1
  /\ inst' = [inst EXCEPT ![made + 1].manager = "deleted"]
  /\ Return(FWCORE_ERROR, FWCORE_ERROR_INITFAILED)
  /\ UNCHANGED <<g_mapFWInstances, g_lastInstIdx, lines, logPipe, process>>

(* The configuration has been read; the constructor of the runner begins.  *)
createFWInstance(cfg) ==
  /\ pc = "idle" /\ made < MaxInstances
  /\ readConfigFile(cfg)
  /\ made' = made + 1
  /\ cur' = made + 1
  /\ inst' = [inst EXCEPT ![made + 1] =
       [Nothing EXCEPT !.manager = "live", !.runner = "live",
                       !.secureLog = On(cfg, "secureLog"),
                       !.usesFreqProc = On(cfg, "usesFreqProc"),
                       !.usesFreqNotifier = On(cfg, "usesFreqNotifier"),
                       !.notifierTimer = TimerOf[cfg.notifierTimer],
                       !.m_logger = IF On(cfg, "secureLog") THEN "live" ELSE "unset"]]
  /\ pc' = IF On(cfg, "secureLog") THEN "openPipe" ELSE "newFP"
  /\ returned' = FWCORE_RESULT_OK
  /\ UNCHANGED <<globals, lines, logPipe, process>>

(* TPMLogger::initialize: open blocks until the pipe has a reader.  When   *)
(* it fails, nobody looks at the result.                                   *)
openPipe ==
  /\ pc = "openPipe"
  /\ \/ readerUp /\ inst' = [inst EXCEPT ![cur].m_fd = TRUE]
     \/ UNCHANGED inst
  /\ pc' = "newFP"
  /\ UNCHANGED <<made, globals, cur, lines, returned, logPipe, process>>

(* MUTANT of newFP: the notifier thread is not started.                    *)
newFPNoThread ==
  /\ pc = "newFP"
  /\ pc' = "parseFile"
  /\ inst' = [inst EXCEPT ![cur].fp = IF inst[cur].usesFreqProc THEN "live" ELSE @]
  /\ UNCHANGED <<made, globals, cur, lines, returned, logPipe, process>>

(* The frequency processor, whose thShouldRun is what the memory held, and *)
(* its thread.                                                             *)
newFP ==
  /\ pc = "newFP"
  /\ pc' = "parseFile"
  /\ IF inst[cur].usesFreqProc
     THEN \E run \in BOOLEAN :
            inst' = [inst EXCEPT
              ![cur].fp = "live",
              ![cur].thShouldRun = run,
              ![cur].th = IF inst[cur].usesFreqNotifier THEN "loop" ELSE "absent"]
     ELSE UNCHANGED inst
  /\ UNCHANGED <<made, globals, cur, lines, returned, logPipe, process>>

(* initialize and parseFile: the instance gets its handle, or goes.  A     *)
(* rule file may also end the process inside the parser; that is in        *)
(* RuleFileProcessor and is not repeated here.                             *)
parseFile ==
  /\ pc = "parseFile"
  /\ \/ /\ g_lastInstIdx' = g_lastInstIdx + 1
        /\ g_mapFWInstances' =
             [h \in DOMAIN g_mapFWInstances \cup {g_lastInstIdx'} |->
                IF h = g_lastInstIdx' THEN cur ELSE g_mapFWInstances[h]]
        /\ inst' = [inst EXCEPT ![cur].handle = g_lastInstIdx']
        /\ Return(g_lastInstIdx', FWCORE_RESULT_OK)
     \/ /\ pc' = "deleteLogger"
        /\ UNCHANGED <<inst, globals, returned, cur>>
  /\ UNCHANGED <<made, lines, logPipe, process>>

-----------------------------------------------------------------------------
(* What becomes of the lines in the pipe when its last writer closes it    *)
(* and nobody reads.                                                       *)
AfterClose(n) ==
  IF readerUp \/ \E m \in Instances \ {n} : inst[m].m_fd THEN pipe ELSE 0

(* delete m_logger; a pointer nobody set is NULL or kills the process.     *)
deleteLogger ==
  /\ pc = "deleteLogger"
  /\ IF inst[cur].m_logger = "live"
     THEN /\ inst' = [inst EXCEPT ![cur].m_logger = "deleted", ![cur].m_fd = FALSE]
          /\ pipe' = AfterClose(cur)
          /\ UNCHANGED process
     ELSE UNCHANGED <<inst, pipe>> /\ process' \in {"running", "crashed"}
  /\ pc' = "deleteFP"
  /\ UNCHANGED <<made, globals, cur, lines, returned, readerUp>>

(* delete fp, likewise: ~FrequencyProcessor stops the loop of the thread.  *)
deleteFP ==
  /\ pc = "deleteFP"
  /\ IF inst[cur].fp = "live"
     THEN /\ inst' = [inst EXCEPT ![cur].thShouldRun = FALSE]
          /\ pc' = "join"
          /\ UNCHANGED process
     ELSE /\ process' \in {"running", "crashed"}
          /\ pc' = "deleteManager"
          /\ UNCHANGED inst
  /\ UNCHANGED <<made, globals, cur, lines, returned, logPipe>>

(* MUTANT of join: the thread is left to itself.                           *)
joinDetach ==
  /\ pc = "join"
  /\ inst' = [inst EXCEPT ![cur].fp = "deleted"]
  /\ pc' = "deleteManager"
  /\ UNCHANGED <<made, globals, cur, lines, returned, logPipe, process>>

(* Joining a thread that was never started throws out of a destructor.     *)
join ==
  /\ pc = "join"
  /\ inst[cur].th \in {"absent", "done"}
  /\ IF inst[cur].th = "absent"
     THEN process' = "crashed" /\ UNCHANGED inst
     ELSE inst' = [inst EXCEPT ![cur].fp = "deleted"] /\ UNCHANGED process
  /\ pc' = "deleteManager"
  /\ UNCHANGED <<made, globals, cur, lines, returned, logPipe>>

(* The rest of the failed createFWInstance.                                *)
deleteManager ==
  /\ pc = "deleteManager"
  /\ inst' = [inst EXCEPT ![cur].runner = "deleted", ![cur].manager = "deleted"]
  /\ Return(FWCORE_ERROR, FWCORE_ERROR_INITFAILED)
  /\ UNCHANGED <<made, g_mapFWInstances, g_lastInstIdx, lines, logPipe, process>>

-----------------------------------------------------------------------------
(* The end of destroyFWInstance: the handle is erased.                     *)
Erase(h) ==
  /\ g_mapFWInstances' = [k \in DOMAIN g_mapFWInstances \ {h} |-> g_mapFWInstances[k]]
  /\ Return(FWCORE_RESULT_OK, FWCORE_RESULT_OK)

(* MUTANT of destroyFWInstance: the manager takes its runner along, logger *)
(* first.                                                                  *)
destroyFWInstanceDeep(h) ==
  /\ pc = "idle"
  /\ h \in DOMAIN g_mapFWInstances
  /\ inst' = [inst EXCEPT ![g_mapFWInstances[h]].manager = "deleted",
                          ![g_mapFWInstances[h]].runner = "deleted",
                          ![g_mapFWInstances[h]].m_logger = "deleted"]
  /\ Erase(h)
  /\ UNCHANGED <<made, g_lastInstIdx, lines, logPipe, process>>

(* MUTANT of destroyFWInstance: the handle stays in the table.             *)
destroyFWInstanceKeep(h) ==
  /\ pc = "idle"
  /\ h \in DOMAIN g_mapFWInstances
  /\ inst' = [inst EXCEPT ![g_mapFWInstances[h]].manager = "deleted"]
  /\ Return(FWCORE_RESULT_OK, FWCORE_RESULT_OK)
  /\ UNCHANGED <<made, g_mapFWInstances, g_lastInstIdx, lines, logPipe, process>>

(* The destructor of the manager is empty: the runner, its thread and its  *)
(* end of the pipe stay.                                                   *)
destroyFWInstance(h) ==
  /\ pc = "idle"
  /\ h \in DOMAIN g_mapFWInstances
  /\ inst' = [inst EXCEPT ![g_mapFWInstances[h]].manager = "deleted"]
  /\ Erase(h)
  /\ UNCHANGED <<made, g_lastInstIdx, lines, logPipe, process>>

(* destroyFWInstance and processMessage with a handle that is not known.   *)
instNotFound(h) ==
  /\ pc = "idle"
  /\ h \notin DOMAIN g_mapFWInstances
  /\ Return(FWCORE_ERROR, FWCORE_ERROR_INSTNOTFOUND)
  /\ UNCHANGED <<inst, made, g_mapFWInstances, g_lastInstIdx, lines, logPipe, process>>

-----------------------------------------------------------------------------
(* A frame: it is the first one of an ID in the frequency file, or not.    *)
processMessage(h) ==
  /\ pc = "idle"
  /\ h \in DOMAIN g_mapFWInstances
  /\ cur' = g_mapFWInstances[h]
  /\ g_lastError' = FWCORE_RESULT_OK
  /\ pc' \in IF inst[cur'].usesFreqProc THEN {"lock", "decide"} ELSE {"decide"}
  /\ returned' = FWCORE_RESULT_OK
  /\ UNCHANGED <<inst, made, g_mapFWInstances, g_lastInstIdx, lines, logPipe,
                 process>>

(* The notifier holds FrequencyProcessor::mtx while it writes a batch.     *)
firstStamp ==
  /\ pc = "lock"
  /\ inst[cur].th # "writing"
  /\ inst' = [inst EXCEPT ![cur].stamped = TRUE]
  /\ pc' = "decide"
  /\ UNCHANGED <<made, globals, cur, lines, returned, logPipe, process>>

(* A frame no rule decides: m_logger is used without looking at secureLog. *)
dropUndefined ==
  /\ pc = "decide"
  /\ IF inst[cur].secureLog
     THEN pc' = "write" /\ lines' = 1 /\ UNCHANGED process
     ELSE process' = "crashed" /\ UNCHANGED <<pc, lines>>
  /\ returned' = FWCORE_PROC_DROP_LOG
  /\ UNCHANGED <<inst, made, globals, cur, logPipe>>

(* A frame that is decided: a line for a verdict that wants one, a line    *)
(* for a frequency out of range, which takes an earlier stamp.  One        *)
(* verdict stands for the four.                                            *)
returnVerdict ==
  /\ pc = "decide"
  /\ lines' \in 0 .. (IF ~inst[cur].secureLog THEN 0
                      ELSE IF inst[cur].stamped THEN 2 ELSE 1)
  /\ IF lines' = 0 THEN pc' = "idle" /\ cur' = 0 ELSE pc' = "write" /\ UNCHANGED cur
  /\ returned' = FWCORE_PROC_PERMIT
  /\ UNCHANGED <<inst, made, globals, logPipe, process>>

-----------------------------------------------------------------------------
(* TPMLogger::logMessage for instance n: no pipe, no line; without a       *)
(* reader SIGPIPE; a full pipe blocks.                                     *)
Written(n) ==
  \/ ~inst[n].m_fd /\ UNCHANGED <<pipe, process>>
  \/ inst[n].m_fd /\ ~readerUp /\ process' = "sigpipe" /\ UNCHANGED pipe
  \/ inst[n].m_fd /\ readerUp /\ pipe < PipeLines
     /\ pipe' = pipe + 1 /\ UNCHANGED process

writeLine ==
  /\ pc = "write"
  /\ Written(cur)
  /\ lines' = lines - 1
  /\ IF lines = 1 THEN pc' = "idle" /\ cur' = 0 ELSE UNCHANGED <<pc, cur>>
  /\ UNCHANGED <<inst, made, globals, returned, readerUp>>

(* The head of the notifier's loop.                                        *)
testShouldRun(n) ==
  /\ inst[n].th = "loop"
  /\ inst' = [inst EXCEPT ![n].th = IF inst[n].thShouldRun THEN "scan" ELSE "done"]
  /\ UNCHANGED <<made, globals, caller, logPipe, process>>

(* A scan finds nothing to report, or some IDs silent.  A negative timer,  *)
(* compared as an unsigned number, is longer than any silence.             *)
scan(n) ==
  /\ inst[n].th = "scan"
  /\ \E k \in 0 .. (IF inst[n].stamped /\ inst[n].notifierTimer >= 0
                    THEN MaxBatch ELSE 0) :
       inst' = [inst EXCEPT ![n].th = IF k = 0 THEN "sleep" ELSE "writing",
                            ![n].batch = k]
  /\ UNCHANGED <<made, globals, caller, logPipe, process>>

(* MUTANT of writeAlert: the mutex is not given back.                      *)
writeAlertKeepsLock(n) ==
  /\ inst[n].th = "writing" /\ inst[n].batch > 0
  /\ IF inst[n].m_logger = "unset"
     THEN process' = "crashed" /\ UNCHANGED <<inst, pipe>>
     ELSE Written(n) /\ inst' = [inst EXCEPT ![n].batch = @ - 1]
  /\ UNCHANGED <<made, globals, caller, readerUp>>

writeAlert(n) ==
  /\ inst[n].th = "writing"
  /\ IF inst[n].m_logger = "unset"
     THEN process' = "crashed" /\ UNCHANGED <<inst, pipe>>
     ELSE /\ Written(n)
          /\ inst' = [inst EXCEPT ![n].batch = @ - 1,
                                  ![n].th = IF inst[n].batch = 1 THEN "sleep" ELSE @]
  /\ UNCHANGED <<made, globals, caller, readerUp>>

(* sleep(notifierTimer): a negative number of seconds is 2^32 less that.   *)
wakeUp(n) ==
  /\ inst[n].th = "sleep"
  /\ inst[n].notifierTimer >= 0
  /\ inst' = [inst EXCEPT ![n].th = "loop"]
  /\ UNCHANGED <<made, globals, caller, logPipe, process>>

-----------------------------------------------------------------------------
(* The reader of the log pipe.                                             *)
openReader ==
  /\ ~readerUp
  /\ readerUp' = TRUE
  /\ UNCHANGED <<inst, made, globals, caller, pipe, process>>

closeReader ==
  /\ readerUp
  /\ readerUp' = FALSE
  /\ pipe' = IF \E n \in Instances : inst[n].m_fd THEN pipe ELSE 0
  /\ UNCHANGED <<inst, made, globals, caller, process>>

readLine ==
  /\ readerUp /\ pipe > 0
  /\ pipe' = pipe - 1
  /\ UNCHANGED <<inst, made, globals, caller, readerUp, process>>

-----------------------------------------------------------------------------
Call ==
  \/ \E cfg \in Configs : createNoConfig(cfg) \/ createFWInstance(cfg)
  \/ \E h \in Handles : destroyFWInstance(h) \/ instNotFound(h) \/ processMessage(h)

(* The thread of the API finishing the call it is in.                      *)
MainStep ==
  \/ openPipe \/ newFP \/ parseFile
  \/ deleteLogger \/ deleteFP \/ join \/ deleteManager
  \/ firstStamp \/ dropUndefined \/ returnVerdict \/ writeLine

NotifierStep(n) == testShouldRun(n) \/ scan(n) \/ writeAlert(n) \/ wakeUp(n)

ReaderStep == openReader \/ closeReader \/ readLine

Next ==
  /\ process = "running"
  /\ Call \/ MainStep \/ (\E n \in Instances : NotifierStep(n)) \/ ReaderStep

Spec == Init /\ [][Next]_vars

Running(A) == process = "running" /\ A

(* Threads are scheduled, and the reader reads while it is there.  Writers *)
(* that wait for room in the pipe are woken in turn, and a lock that waits *)
(* for a notifier gets it while that sleeps between two scans: neither is  *)
(* passed over for ever.                                                   *)
FairSpec ==
  /\ Spec
  /\ SF_vars(Running(MainStep))
  /\ \A n \in Instances : SF_vars(Running(NotifierStep(n)))
  /\ WF_vars(Running(readLine))

-----------------------------------------------------------------------------
(* Every variable has its type.                                            *)
TypeOK ==
  /\ inst \in [Instances ->
       [manager : {"none", "live", "deleted"}, runner : {"none", "live", "deleted"},
        handle : Handles \cup {0},
        secureLog : BOOLEAN, usesFreqProc : BOOLEAN, usesFreqNotifier : BOOLEAN,
        notifierTimer : Int,
        m_logger : {"unset", "live", "deleted"}, m_fd : BOOLEAN,
        fp : {"unset", "live", "deleted"},
        thShouldRun : BOOLEAN, stamped : BOOLEAN,
        th : {"absent", "loop", "scan", "writing", "sleep", "done"}, batch : 0 .. MaxBatch]]
  /\ made \in 0 .. MaxInstances
  /\ DOMAIN g_mapFWInstances \subseteq Handles
  /\ \A h \in DOMAIN g_mapFWInstances : g_mapFWInstances[h] \in 1 .. made
  /\ g_lastInstIdx \in FirstInstIdx .. FirstInstIdx + made
  /\ g_lastError \in {FWCORE_RESULT_OK, FWCORE_ERROR_INITFAILED,
                      FWCORE_ERROR_INSTNOTFOUND}
  /\ pc \in {"idle", "openPipe", "newFP", "parseFile", "deleteLogger", "deleteFP",
             "join", "deleteManager", "lock", "decide", "write"}
  /\ cur \in 0 .. made /\ (cur = 0 <=> pc = "idle")
  /\ lines \in 0 .. 2
  /\ returned \in Handles \cup {FWCORE_RESULT_OK, FWCORE_ERROR, FWCORE_PROC_PERMIT,
                                FWCORE_PROC_DROP_LOG}
  /\ pipe \in 0 .. PipeLines
  /\ readerUp \in BOOLEAN
  /\ process \in {"running", "crashed", "sigpipe"}
  /\ \A n \in Instances : inst[n].th = "writing" <=> inst[n].batch > 0

(* ~RuleRunner deletes the logger before it stops the thread that uses it, *)
(* and destroyFWInstance takes no notice of a running thread; all the same *)
(* nobody writes to a logger, or holds the mutex of a frequency processor, *)
(* that has been deleted.                                                  *)
LoggerOutlivesItsUsers ==
  \A n \in Instances :
    inst[n].th = "writing" \/ (pc = "write" /\ cur = n)
      => inst[n].m_logger # "deleted" /\ inst[n].fp # "deleted"

(* createFWInstance makes all of an instance or, in a process that goes    *)
(* on, leaves nothing of it: no object, no thread, no open end of the      *)
(* pipe.  Either way the table tells: a manager lives as long as its       *)
(* handle is there, and the runner for ever.                               *)
Complete(i) ==
  /\ i.runner = "live"
  /\ i.secureLog => i.m_logger = "live"
  /\ i.usesFreqProc => i.fp = "live"

Gone(i) ==
  /\ i.manager = "deleted" /\ i.runner # "live"
  /\ i.m_logger # "live" /\ ~i.m_fd
  /\ i.fp # "live"
  /\ i.th \in {"absent", "done"}

CreateAllOrNothing ==
  \A n \in 1 .. made :
    LET i == inst[n] IN
    pc \in {"idle", "lock", "decide", "write"} \/ n # cur =>
      IF i.handle = 0 THEN Gone(i)
      ELSE /\ Complete(i)
           /\ i.manager = "live" <=>
                i.handle \in DOMAIN g_mapFWInstances /\ g_mapFWInstances[i.handle] = n

(* An unset logger, processor or thread kills the process only when an     *)
(* instance has no secure log, or when the rule file of one is bad that    *)
(* does not have the frequency processor with its notifier.  (The NULL     *)
(* rule of a state chain is in RuleRunner, the exceptions of the parser    *)
(* are in RuleFileProcessor.)                                              *)
SoundConfigsSurvive ==
  process = "crashed" =>
    \E n \in Instances :
      /\ inst[n].runner = "live"
      /\ \/ ~inst[n].secureLog
         \/ /\ pc = "deleteManager" /\ cur = n
            /\ ~(inst[n].usesFreqProc /\ inst[n].usesFreqNotifier)

(* Every call comes back while the log pipe has a reader: with the pipe    *)
(* full, the notifier waiting in write with the mutex, and the caller      *)
(* waiting for that mutex, for the pipe or for the thread to end.  Only a  *)
(* thread put to sleep for a negative time is waited for for ever.         *)
CallReturns ==
  pc # "idle" ~> \/ pc = "idle" \/ process # "running" \/ ~readerUp
                 \/ pc = "join" /\ inst[cur].notifierTimer < 0
==============================================================================
