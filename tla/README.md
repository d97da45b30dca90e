# dias-firewall in TLA+

TLA+ specifications of the CAN firewall in this repository, the TLC runs that
check them on small instances, and the TLAPS proofs about them. The reference is
the code under `src/`; line numbers below are lines of its files. `PROJECT.json`
lists components, runs, mutants, findings, hazards and theorems, and maps every
definition to the lines it stands for.

In `tla/`: `tlc -workers 2 -config X.cfg M.tla` runs a check of section 4,
`tlapm M.tla` checks the proofs of a module of section 6.

## 1. The system

`pycan` (`Utils/pycan_rec.py`, `pycan_com.py`) reads frames from the CAN bus and
writes them to a named pipe. The firewall process (`FWHandlers`) reads the pipe
and hands each frame to the core library (`FWCoreLibrary`) through the C API of
`FWCore.h`; the answer says whether the frame is permitted. Suspicious frames are
written to a second named pipe, read by the secure (TPM) logger; the log file that
comes of it is published over MQTT by a third process (`Utils/pyclient_mqtt.py`).

```
 CAN bus -> pycan =pipe=> CANHandler, main -> dllmain -> FirewallManager
                                                            |
              RuleFileProcessor <-- is a -- RuleRunner <----+
               | Expat, trees                |   |
                                             |   +-> FrequencyProcessor <-> notifier thread
                                             v            v
                                          TPMLogger =pipe=> secure logger -> log file -> pyclient_mqtt
```

| component | state it keeps | operations | what is hard |
|---|---|---|---|
| RuleRunner | rule chains, state chains, an iterator for each state chain that lives across frames, the text to log; logger, frequency processor | `permitMessage` and the functions it calls; constructor, destructor | iterators moved in place over many frames, entries without a rule, pointers set only under some configurations |
| FrequencyProcessor | stamp of each ID, `thReady`, `thShouldRun`, `mtx` | constructor, which reads the frequency file; `processNewID`; `frequencyNotifier` (a thread); destructor with `join` | two threads, a mutex around some of the accesses only, 64-bit differences in an `int`, reads of a file whose failure nobody looks at |
| RuleFileProcessor, ExpatWrapper | section, rule and chain in hand, rule list, chain maps | `onStartElement`, `onEndElement`, `parseFile`, `printRules`, destructor | the handlers meet whatever elements the file has; ownership of trees and lists |
| ExpressionTree, ExprValue | tree under construction, stack of open operators | `operatorStart`, `operatorEnd`, `addSingleValue`, `addBoundValues`, `matchMessage` | bounds, conversions, payloads shorter than the rule |
| dllmain, FirewallManager | table of handles, last error | `createFWInstance`, `destroyFWInstance`, `processMessage`, `getLastError`, `initialize`, `readConfigFile` | failure in the middle of a constructor, objects that outlive their handle, numbers taken as they come |
| CANHandler, main | place in the byte stream, `g_exit` | `initialize`, `runHandler`, the loop of `main`, `sig_handler` | two processes that make the same pipe, four reads a frame, results ignored, signals |
| TPMLogger | its end of the log pipe | `initialize`, `logMessage` | a bounded pipe, written by two threads, one of them inside a mutex |
| pycan | the bus, the pipe | `setup_bus`, `create_pipe`, `send_message_on_pipe`, `listen_and_send` | remote frames, a pipe whose reader goes away |
| pyclient_mqtt | position in the log, cache file, connection | `connect`, `push`, `_tail`, `_load`, `_dump`, `_on_connect`, `stop`, `exit_handler` | pieces of lines, lost connections, signals, restarts |
| Config | - | `getParameter` | a parameter that is missing or not a number |
| LogWriter, BaseLogger, build | - | - | nothing that changes state |

What makes each correct:

- **RuleRunner**: the first entry that decides decides; a state chain moves by one
  element for a frame that satisfies it and by none otherwise; only a dropping
  verdict of a state chain overrides that of the rule chain; the lines logged are
  those of the verdict; no sequence of frames dereferences a missing rule.
- **FrequencyProcessor**: a frame is judged by the time since its predecessor; an
  ID is reported when, and only when, it is silent, and once in a batch; its
  thresholds are those of the file, or at least usable;
  neither thread waits for ever; the destructor returns.
- **RuleFileProcessor, ExpressionTree**: what is loaded can be run and says what
  the file says; each tree and each list has one owner; a file of the documented
  shape does not end the process, wherever it breaks off.
- **dllmain, FirewallManager, TPMLogger**: a handle stands for a complete instance;
  a failed creation leaves nothing behind; nobody uses a deleted logger; every
  call returns.
- **pycan, CANHandler**: frames arrive whole and in order; after a loss of
  alignment the stream recovers; what is in the pipe is delivered; either process
  may start first; a signal ends the firewall.
- **pyclient_mqtt**: no line before the kept position is lost without a cause; a
  restart begins at the start of a line, and after a clean stop behind the last
  line that was sent; a signal ends the process.

## 2. Modules

| module | lines of code it stands for | role |
|---|---|---|
| `FWCore` | `FWCore.h` | the codes of the API |
| `RuleConfig` | `RuleFileProcessor.h`, `RuleRunner.cpp` | entries, chains, matching as RuleRunner sees it |
| `FirewallPolicy` | `RuleRunner.cpp:57-230` | abstract: one frame, one step |
| `RuleRunner` | `RuleRunner.cpp:57-230` | one loop iteration, one step |
| `PayloadMatch` | `ExpressionTree.cpp:154-215` | recursive matching (`RECURSIVE`, used by runs only) |
| `MCFWTests` | `FWTests/main.cpp`, `FWRules.xml` | the test program on the repository's rules |
| `MCRuleRunner` | - | small rule files, and the ones of `MCFWTests` |
| `SilenceWatch` | `FrequencyProcessor.cpp:64-279` | abstract: the life of an alert |
| `FrequencyProcessor` | `FrequencyProcessor.cpp:58-279` | two threads, one access of shared state, one step |
| `FrequencyFile` | `FrequencyProcessor.cpp:108-202, 281-301` | the reading of the frequency file, one entry, one step |
| `MCFrequencyFile` | - | files, broken off anywhere |
| `ExpressionTree` | `ExpressionTree.cpp:20-101` | building a tree |
| `RuleFileProcessor` | `RuleFileProcessor.cpp`, `ExpatWrapper.cpp` | one SAX event, one step |
| `RuleFileMeaning` | - | what the elements of a rule say, followed beside `RuleFileProcessor` |
| `MCRuleFileProcessor` | - | vocabularies of elements |
| `FrameChannel` | - | abstract: a channel of frames, reliable or not |
| `CANPipe` | `pycan_com.py`, `pycan_rec.py`, `CANHandler.cpp`, `main.cpp` | one system call, one step |
| `LogPublisher` | `pyclient_mqtt.py` | one call of the library or the file, one step |
| `FirewallManager` | `dllmain.cpp`, `FirewallManager.cpp`, `Config.cpp`, `TPMLogger.cpp`, constructors and destructors of `RuleRunner` and `FrequencyProcessor` | one object made, used or deleted, one step |
| `MCFirewallManager` | - | configurations, complete and incomplete |
| `RuleRunnerProofs`, `FrequencyProcessorProofs`, `FrequencyFileProofs`, `RuleFileProcessorProofs`, `CANPipeProofs`, `LogPublisherProofs`, `FirewallManagerProofs`, `RuleFileMeaningProofs` | - | theorems about the module of the same name |

Definitions that begin with the comment `MUTANT of` are not part of the system:
each is a faulty variant of a definition, by which a property is shown to be
able to fail.

### RuleRunner and FirewallPolicy

A rule chain and a state chain are sequences of `[rule, action, logMessage]`; the
rule `NULL` is a default entry. `m_lstStateInst` is the list of iterators: the
position in each chain, empty until the first frame. Whether a rule matches a
payload is the constant relation `Matches`, so RuleRunner holds no trees.
`permitMessage`, `permitRuleChain`, `checkStatefulInit`, `permitStateChain`,
`processNewID`, `dropUndefined`, `returnVerdict` follow the code in order; `it` is
the loop iterator. `dereferenceNullRule` is the crash at `rule->cid`, and
`dropUndefined` without a logger the one at `m_logger`. `frCode` is any result of
the frequency processor (with none, the code reads an uninitialised `int` there,
which reaches only a `printf`). `FirewallPolicy` says the same without loops;
`ImplementsPolicy` is the refinement.

### FrequencyProcessor and SilenceWatch

The frame thread (`mpc`) and the notifier (`npc`) share `idTimestampMap`,
`thReady`, `thShouldRun` and `mtx`. Each read and each write of these is a step of
its own: `CheckSeen` is line 79, `LockFirst`/`StoreFirst`/`SetReady` 82-86,
`ComputeDiff` 92, `StoreNext` 95; `SampleTime` is the `gettimeofday` of 222,
before `LockScan` 231; `ScanCheck` and `ScanReset` are the test and the reset of
one entry; `Discard`, `LockReport`, `LogAlerts` 253-264. `thShouldRun` is never
set to true, so its first value is a choice. One access is one step because the
code is built without optimisation (`build.sh` sets no `-O`) for targets on which
an aligned 8-byte access is not split; on a target where it is, the races below
would have more outcomes. `ToInt` cuts a difference to an `int`, `Elapsed` wraps.
The map that the frequency file leaves is the constant `Frequencies`. The stamp of a
frame is whatever came through the pipe (`Stamps`): older than the one before it,
ahead of the clock, or 0, which the code cannot tell from an ID never seen.
`lastSeen`, `touched`, `resetRace` and `blank` (the IDs stamped 0) are ghosts: no
action reads them in a guard.

### FrequencyFile

The file is a sequence of words, `next` the place of the stream in it. The four
strings live outside the loop, so `extract` leaves a string as it was when the
words have run out: at the end of the file the last entry is read a second time
(and not inserted, its ID is there), or, when the file breaks off in an entry, an
entry is made of its words and the remaining ones of the entry before. `GoodAfter`
is `good()` at the head of the loop, which depends on white space at the end of the
file. An error ends the reading, and the processor is used with what has been
inserted by then. `ThresholdsUsable` is what `FrequencyProcessor` and the notifier
take for granted of `Frequencies`.

### RuleFileProcessor and ExpressionTree

Expat is any properly nested sequence of the constant `Elements`, cut off
anywhere (`ParseError`) or complete. `trees` and `lists` are the heap: an address
is `NULL` or the number of an allocation. `StartElement` is the start handler with
the test of `m_continueProcessing` around it, as `ExpatWrapper` has it: a parser
that has been stopped in the start handler of an empty tag still calls the end
handler once (phase `stopping`). Strings are what `atoi` and `stoi` make of them
(`Numbers`) and, if they have a dot, the two strings `addBoundValues` reads from them
(`Halves`): `stoi` throws when one of these is no number, and nobody catches it; a
value-range that ends with its only dot is read on behind the buffer (`Beyond`), where
any number may stand (`Stray`). A tree in hand is the sequence of its open
expressions, the stack of the code. `regular` records whether the file has had the
form of `FWRules.xml`, its nesting and numbers where `stoi` reads one, and with it
what is promised about a crash.

`RuleFileMeaning` adds three history variables that restrict no step: `nest`, the
elements open with the conditions found in each so far, `meant`, what each finished
rule says, and `plain`, whether the file is still one whose meaning is followed. They
are computed from the elements alone, never from the trees, so that
`TreeIsWhatTheRuleSays` compares two accounts of one file.

### CANPipe and FrameChannel

A byte is the number of its frame and its offset. pycan writes a frame with one
`write` of fewer than `PIPE_BUF` bytes, so the kernel writes it whole or blocks.
`readTimestamp`, `readIdx`, `readDlc` and `readPayload` are the four reads, each
with its early return, after which `main` calls `runHandler` again from the
start. The writer may close and reopen, the reader be killed and restarted; the
bytes stay while one end is open. Both processes are modelled from their start:
pycan sets up the bus, looks for the path (`setup_bus`), makes it (`mkfifo`) or
not, and waits for a reader (`create_pipe`); the firewall makes an instance, makes
the path, opens it and enters the loop (`createFWInstance`, `initialize`), and any
of these may fail. The path is made by either of them and removed by neither.
`disturbed` is set by the two causes for which
the code has no remedy: a remote frame, whose dlc is not the length of its data,
and a death in the middle of a frame. While it is set the stream may be read at
the wrong offset; reading the pipe empty clears it, which is checked by the
refinement of `FrameChannel`.

### LogPublisher

A position is counted in half lines, so that an odd size is a file that ends in
the middle of a line. The main thread (`pc`) goes through `connect`, `push` and
`_tail`; a signal handler (`handler`) may interrupt it between any two steps and
runs `stop` and `_dump`; the network thread of the library connects, sends and
loses the connection, and with it what was not sent. `kill` may come anywhere,
between the truncation of the cache file and the write to it as well, and so may a
second SIGINT (`keyboardInterrupt`), which leaves the handler where it stands.
`dumped` and `since` are ghosts for `CleanStopResumes`.

### FirewallManager

`inst` holds, for every call of `createFWInstance`, what has become of its
manager, runner, logger, frequency processor and thread; a pointer the
constructor does not set is `unset`, and deleting it either does nothing or ends
the process, as the memory has it. A configuration file is a partial function from
parameter to string (`getParameter` returns NULL for the rest); a switch is on
when it is `true`, and the timer is what `stoi` makes of it, of either sign: a
negative one is compared as an unsigned number, so that no ID is ever silent for
longer, and slept for as one, so that the notifier does not wake up
(`wakeUp`). `createFWInstance` up to `parseFile` is the
way up, `deleteLogger` to `deleteManager` the way down, in the order of
`~RuleRunner` (the logger first). `destroyFWInstance` deletes the manager, whose
destructor is empty: `FirewallManager::destroy` exists and nobody calls it.
A rule file that ends the process inside the parser is in `RuleFileProcessor` only:
`parseFile` here returns, with one result or the other.
The two other modules are here at a coarse grain: a frame may be the first of its
ID (`firstStamp` takes `FrequencyProcessor::mtx`), is decided by a choice, and
writes up to two lines; the notifier tests its condition, scans, and writes a
batch of lines with the mutex held. `pipe` is the number of lines in the log pipe:
`Written` blocks on a full one, and on one without a reader ends the process by
SIGPIPE, which nobody handles.

### How the modules fit together

`RuleFileProcessor` ends with a loaded configuration; `LoadedConfigSound` is what
`RuleRunner` assumes of its chains, except that a default entry in a state chain
and an empty chain, which the parser accepts, stay possible there. `RuleRunner`
calls the frequency processor for a code and nothing else, and the notifier
touches none of the runner's state, which is why the two are separate modules;
what they do share, the log pipe and the order of deletion, is in
`FirewallManager`. Between `CANPipe` and `RuleRunner` a frame is a value passed in
one call by one thread; between the log pipe and `LogPublisher` stands the secure
logger, which is not in this repository.

## 3. Hazards

`PROJECT.json` lists them by line with the properties that guard them. Eight kinds
carry the weight:

1. Unlocked reads in `processNewID` against resets by the notifier.
2. State that lives across frames: state chain iterators, `thReady`.
3. A `NULL` rule or an unset logger met many frames after the file was loaded.
4. Handlers that accept elements in any order.
5. A byte stream without frame marks, read in four pieces.
6. Threads, a mutex and a bounded pipe that are torn down in an order of their own.
7. Reads whose failure nobody looks at: the words of the frequency file.
8. Files and pipes shared by processes that start, stop and die on their own.

Some hazards that the list leaves out because no property is about them: a
SIGTERM is ignored while the publisher has no connection (`pyclient_mqtt.py:47`);
the mutexes of `RuleRunner` and `FrequencyProcessor` around `logMessage` do not
exclude each other (`RuleRunner.cpp:103`), which is harmless as long as a line is
one write of fewer than `PIPE_BUF` bytes.

## 4. Runs

No run looks for deadlock as such (`CHECK_DEADLOCK FALSE`): a process may crash, exit or be destroyed,
a file may end and the clock stops at its bound, after which nothing has to
happen. Whether something must happen is a liveness property where it is so.

| run | what it checks | states |
|---|---|---|
| `rule_runner` | `FirstMatchDecides`, `EachChainMovesOnce`, `SoundConfigNeverCrashes`, `ImplementsPolicy` over small rule files and frames in any order, and over `FWRules.xml` with its real trees and the frames of the test program, up to the one that makes it return | 81 000 |
| `frequency` | `FrequencyMeasured`, `ScanMissesNothing`, `AlertJustified`, `BlindForEver`, `ImplementsWatch` | 10.9 million |
| `frequency_liveness` | `CallsReturn`, `SilenceNoticed` | 1.1 million |
| `rule_file` | `TreesOwnedOnce`, `LoadedConfigSound`, `RegularFileSurvives`, `TreeIsWhatTheRuleSays`, `StoredIsFinal`, `MatchesAsWritten` | 6.4 million |
| `frequency_file` | `ThresholdsUsable`, `LoadedIsTheFile` | 20 000 |
| `can_pipe` | `OrderKept`, `Aligned`, `RefusedOnce`, `ImplementsChannel`, `FramesArrive`, `SignalStops` | 285 000 |
| `log_publisher` | `PositionAtLineStart`, `NothingSkipped`, `CleanStopResumes`, `TermEndsSession`, `Progress` | 61 000 |
| `firewall_manager` | `LoggerOutlivesItsUsers`, `CreateAllOrNothing`, `SoundConfigsSurvive`, `CallReturns` | 624 000 |

Each of them also checks the type invariant of its module (`frequency_liveness`
leaves it to `frequency`; `ThresholdsUsable` says what there is to say of the types
of `FrequencyFile`). What some of them show that is not obvious:

- `AlertJustified`, `FrequencyMeasured`: the races of the frequency processor have
  exactly the outcomes they name (`touched`, `resetRace`) and no others, whatever the
  stamps are. A stamp ahead of the time sampled makes the unsigned difference wrap, so
  that the ID is reported; a stamp older than the one before makes the difference of
  its frame negative, which is what line 121 is for.
- `BlindForEver`: after one alert `thReady` is 0 and only the path of a zero entry
  sets it. If the reset loses the race against line 95 all entries are nonzero,
  and silence detection is off for the rest of the run, unless a frame is stamped 0.
  `SilenceNoticed` is therefore stated for an armed notifier.
- `LoadedConfigSound` holds for any nesting of elements; `RegularFileSurvives`
  only for regular ones: `</operator>` after a `</rule>` inside an operator, an
  entry before any chain, or a value-range such as `7.9` or `x..9`, both halves of
  which `stoi` must read, does kill the process.
- `MatchesAsWritten`: a rule made of bytes matches the payloads that its elements
  describe, with inclusive bounds and nothing for a byte the payload does not have,
  however its operators are nested. Numbers above 255 are cut to `unsigned char` by the
  comparison; the property says of them only that a payload cut short matches no more.
- `LoggerOutlivesItsUsers`: the order in `~RuleRunner` is harmless because a
  runner is only ever deleted before its first frame, when the notifier has
  nothing to report. A `destroyFWInstance` that deleted the runner would break it,
  which is what its mutant does. The price is that a destroyed instance keeps its
  thread, its pipe and its alerts.
- `SoundConfigsSurvive`: a bad rule file ends `createFWInstance` with an error only
  when the secure log, the frequency processor and the notifier are all on;
  otherwise `~RuleRunner` deletes a pointer nobody has set or joins a thread that
  was never started. The property is about these pointers; a `NULL` rule in a state
  chain (`SoundConfigNeverCrashes`) and an exception in the parser
  (`RegularFileSurvives`) end the process under any configuration.
- `CreateAllOrNothing`: no object, thread or open end of the pipe is left by a
  creation that fails, except in a process that has just been ended by the
  pointers above; a thread left to itself by the destructor breaks it.
- `CallReturns`: a full log pipe holds up the notifier with the mutex in its hand
  and then the frame thread; both go on as long as the pipe has a reader. The one
  call that does not return is a `createFWInstance` that fails with a negative
  timer: it joins a thread that sleeps for 136 years.
- `LoadedIsTheFile`: a frequency file that breaks off in its last entry is reported
  as loaded when the words of two entries together make an acceptable one.
- `RefusedOnce`: pycan can lose the race for the pipe, and ends, but only once in
  the life of the path.
- `CleanStopResumes`: the main thread may move on by a line after the position has
  been written, but cannot send it. A cache file left empty by a kill, or by a
  second SIGINT, cannot be read by any later start, which ends with an exception.
- `FramesArrive`: in an undisturbed stream, while the firewall is there.

### Runs that refute what the source says

| run | statement | what the code does |
|---|---|---|
| `state_chain_test` | `FWTests/main.cpp:86` expects `FWCORE_PROC_PERMIT` for ID 25 | an ID without a rule chain is dropped whatever its state chain says |
| `previous_stamp` | `FrequencyProcessor.cpp:68` "based on the previous timestamp" | a reset between lines 79 and 92 makes the difference the whole stamp |
| `false_alert` | `FrequencyProcessor.cpp:244` "Frame not recieved for: " | an ID heard after the time was sampled is reported |
| `partial_line` | `pyclient_mqtt.py:138` "New lines in the log file will be publish via MQTT" | of a line read while it is written only the rest is published |

Remarks without a run: `RuleRunner.cpp:144` ("In case no default value is defined,
then we PERMIT!!!!") is not so: such a frame is dropped and logged, which
`ImplementsPolicy` includes. `FrequencyProcessor.cpp:196` says "Frequency file
loaded!" of a file whose last entry was mixed. `FrequencyProcessor.cpp:81`
("This only happens the first
time a new ID is encountered") is wrong after every alert.
`RuleFileProcessor.cpp:207` ("This should not happen") happens at every
`<expression>`, since `<rule>` has made a tree already, and `:190` at a rule inside
a rule. `FWTests/main.cpp`
calls `processMessage` with four arguments, the API of this commit has five; the
model passes no stamp to the rules. Since the test of the state chains returns with
its first frame, its other three are never sent with this rule file. The result of `TPMLogger::initialize` is
ignored (`RuleRunner.cpp:36`): a pipe that cannot be opened means no log.

### Bounds

- `rule_runner`: two identifiers, two classes of payloads and three rules beside
  the rules of the repository. The files have no chain, an empty chain, a chain
  without default, a default at the end and one that hides a rule; state chains
  that reset at once, that one frame moves with opposite verdicts, with a default
  entry after a move, and an empty one. The state is finite without a bound: any
  number of frames.
- `frequency`: two watched IDs and one unknown, so that a batch can be partial or
  name all IDs; clock from 2 to 4, timer 1: enough for a silence, an alert and a
  second first stamp. Stamps are up to two ticks behind the clock and one ahead of it,
  so that each may be older than the one before, 0, or after the time sampled.
  `IntRange` 3 makes a difference and a
  whole stamp overflow; `ULongRange` 18 is above both and a multiple of the width of
  an int, as 2^64 is of 2^32. `frequency_liveness`: clock from 1 to 3, stamps up to
  one tick late; at the bound all sleeps end, so the clock's stop holds up
  nobody.
- `rule_file`: seven elements: a section, two rules or chains, and what can go
  wrong in or between them; three vocabularies (rules, chains, ways to write a byte)
  because the handlers of rules and of chains share no state but the section and the
  rule list. `MatchesAsWritten` tries all payloads of up to two bytes out of six values,
  on and next to every bound.
- `frequency_file`: three entries out of nine, good ones, one with an ID that comes
  twice and one for each way to be refused, broken off after any number of words,
  with and without white space at the end: enough for a mixed entry after a first,
  a second and a repeated one.
- `can_pipe`: three frames, one kill, a pipe of 30 bytes (two frames but not three,
  so that it does fill), lengths 0 and 2, remote frames with 0 and 8; any number of
  starts and ends of pycan, of starts of the firewall that fail, and of signals.
- `log_publisher`: three lines, two starts: a line before, across and after the
  restart.
- `firewall_manager`: two instances, so that one may be alive, or destroyed with
  its thread running, while the other is created, fails or is used; batches of up
  to two lines and a pipe of one, so that both writers meet a full pipe. The switches
  of the configuration are on and off in the combinations that the constructors
  tell apart; the timer is 5, -1 and not a number; each parameter is missing once.

### Fairness

- `RuleRunner`: none is needed, its properties are safety properties.
- `FrequencyProcessor`: weak fairness of the clock, of the frame thread inside a
  call and of the notifier; strong fairness of `LockFirst`, because the notifier
  holds the mutex for a moment and sleeps for `notifierTimer` seconds after each
  round. No fairness of frames or of the destructor.
- `CANPipe`: weak fairness of the firewall process, except of `createFWInstance`,
  which may wait for the reader of the log pipe; none of pycan or of signals.
- `LogPublisher`: weak fairness of the main thread, of a handler that has begun,
  and of the sending of a connected library; none of connecting, signals or the
  logger.
- `FrequencyFile`: none is needed, its properties are safety properties.
- `FirewallManager`: strong fairness of the caller's thread and of each notifier,
  weak fairness of the reader while it is there. Strong because they wait for each
  other at a mutex and at a pipe: waiting writers are woken in turn, and the
  notifier sleeps between two rounds.

## 5. Abstract specifications

`FirewallPolicy` (`ImplementsPolicy`), `SilenceWatch` (`ImplementsWatch`) and
`FrameChannel` (`ImplementsChannel`), each checked on a small instance and proved
for every value of the constants. The policy is
seen through the positions at the entry of a call (`posAtCall`), because the code
moves the iterators before it answers; the channel through the frames whose first
byte is in the pipe or in the reader's hand.

## 6. Proofs

Every invariant, action property and refinement that a passing run checks is also
a theorem, with the exceptions named at the end of this section. Each is proved
from an inductive invariant, found inductive by TLC first where it is not obvious.

What is assumed of the constants:

- `ConfigAssumption`: the maps have the types the parser gives them.
- `FrequencyAssumption`: the clock and the ranges are natural numbers, the set of IDs
  is finite, the width of an `int` divides that of an `unsigned long long`, and no clock
  or stamp comes near the latter. Nothing is assumed of the order of stamps.
- `WordAssumption`: `stoi` gives integers, and refuses a string nothing was read into.
- `PipeAssumption`: lengths of frames fit their buffer and a byte, and the pipe holds
  at least one frame.
- `FileAssumption`, `PublisherAssumption`, `ManagerAssumption`: types; `NULL`, `Absent`
  and `Empty` are no numbers; a batch and the log pipe hold at least one line.

Rule files, chains, payloads, IDs, clocks, integer widths, sizes of pipes and frames,
logs, configurations, and the number of frames, kills, restarts and instances are
otherwise arbitrary. The provers do not know that a string literal is a `STRING`,
so `TypeOK` of `RuleFileProcessor` takes the strings the elements have.

**RuleRunner**

- `TypeInv` is `TypeOK` with what holds inside a call: the text has
  been reset, the frame has a chain while the loop runs, the instances exist after
  `checkStatefulInit`. `TypeCorrect` follows.
- `RuleInv` adds that the loop has passed only entries that do not decide.
  Without it `FirstMatchDecides` says nothing while the loop runs.
  `FirstMatchTheorem` follows, for chains of any length.
- `MoveInv` adds that the chains before the iterator stand where the policy puts
  them and the others where the call found them. `MovesOnceTheorem` follows, for
  any number of chains.
- `SoundConfigSafe` is inductive with `TypeInv`: an iterator is never at `end()`,
  and the configuration does not change.
- `LoopInv` (neither iterator is beyond `end()`) makes `Remaining`, the steps a call
  has left, a natural number that every step of the call decreases:
  `CallsAreFinite`.
- `VerdictInv` adds what the two verdicts and the text are in the middle of a call:
  the text is that of the last chain moved. With it every step up to the
  answer is a stutter of `FirewallPolicy` and the answer is its one step: `Refinement`.

**FrequencyProcessor**

- `StampInv`: an entry is 0 or the last stamp of its ID, and
  between lines 79 and 92 only a reset, which sets `resetRace`, takes it from the
  one to the other. `MeasuredCorrect` follows: the unsigned
  wrap is a multiple of the width of an `int` and disappears in it (`ElapsedToInt`).
  Its corollary `NegativeExplained` (`ErrorMeansOlder`) is what line 121 is for: unless
  that reset came between, or the gap does not fit an `int`, a frame is an error if and
  only if it is older than the one before.
- `ScanInv`: what the iterator has passed and is still watched was heard within the
  timer and not after the sample; what it stops at was silent, is stamped after the
  sample (the difference wraps, `SilentMeans`), or has been stored since.
  `NothingMissed` and `AlertsAreJustified` follow.
- `FirstStampsExcluded` (the mutex keeps first stamps out of a scan; no run has it)
  and `BlindnessIsFinal` follow from `TypeOK`, which contains
  who holds the mutex.
- `BatchInv`: a batch names an ID once, and only IDs that were watched; an ID stamped
  0 is watched as `SilenceWatch` has it, although the code forgets it. With it
  every step of the two threads is a step of `SilenceWatch` or none:
  `WatchImplemented`.
- `MutexIsGivenUp`: while the notifier holds the mutex each of its steps decreases
  `HoldLeft`, which two for each entry and one more bound; `SF(LockFirst)` asks for no
  more than to be woken then. `JoinIsBounded`: the same for the way from
  anywhere in the loop to its end (`ToEnd`), once the destructor has cleared
  `thShouldRun`, which nothing sets again (`StopInv`).

**FrequencyFile**

- `ThresholdsUsable` is inductive as it stands: what `Accepted` lets
  through has three positive numbers in order, whether its words come from one
  entry or from two, and `Insert` changes the two maps alike. `LoadedIsUsable`
  states it for files of any length.
- `LoaderInv` says how far the reading is: in the middle of the file (`MiddleInv`) a
  number of whole entries have been read, all good, and the strings hold the last one;
  at the end (`EndInv`) the next one was bad, or the words had run out and what
  they made with the words of the entry before was inserted or not (`Broken`). In both
  the map is that of the first entry of each ID (`MapIs`). `FileLoaded` follows; that
  an ID has a *first* entry takes a minimal element of a set of numbers (`WFMin`).
- `PlaceInv`: the loop goes on only with all its reads inside the file. `ReadingEnds`
  follows: every turn uses up words.

**RuleFileProcessor**

- `TypeInv` (`Flags`, `ParserInv`, `RulesInv`, `ChainsInv`): every address held
  or used has been handed out by the heap. `TypeCorrect` follows, and with the handlers
  sorted by what they do to rules (`RulesStep`) and to chains (`ChainsStep`),
  `StoredTheorem`.
- `TreesOwnedOnce` is inductive with it (`TreesTheorem`).
- `LoadedTheorem` needs where the parser stands. `ReadInv` is the nesting of the open
  elements with the flags of the handlers (`NestInv`), what is in hand in each of
  them (`HandInv`), and that no two chains share a list (`LinksInv`). `DepthInv` bounds
  the open expressions of a tree by the operators open in its rule, so that a rule that
  ends has a finished one. `PrintedInv` is what `printRules` has seen: had it met a NULL,
  the process would not have lived to say *loaded*.
- `RegularInv`: in a file nested like `FWRules.xml` there is a tree in hand inside a
  rule, a list inside a chain, and both in what is stored. `RegularTheorem` follows:
  no handler dereferences NULL or meets an exception that nobody catches.
- `MeaningTheorem` is about `RuleFileMeaning`, whose steps are steps of
  `RuleFileProcessor` (`MeaningIsSpec`), so that all of the above holds of it too.
  `MeaningInv` has three parts: `nest` has the open elements and no others
  (`NestFollows`); inside a rule the tree in hand is `TreeOf` of `nest`, its root standing
  for everything from the rule to the element it was made for and each further
  expression for one operator open inside (`TreeFollows`); the trees of finished rules
  are those of `meant` (`MeantInv`). What the three operations on a tree do to a `TreeOf`
  are lemmas of their own (`AddValueTree`, `OperatorOpensTree`, `OperatorClosesTree`); the
  root is the union of several elements (`Upto`), which is why a `</payload>` may hand its
  conditions to the rule without a change of the tree. A `<byte>` adds its condition
  at its start and `nest` gets it at its end: `TreeFollows` counts an open one as its
  parent's.

**CANPipe**

- The bytes read and the bytes in the pipe are one stream. `StreamStep` sorts all
  actions by what they do to it: lose bytes at its beginning (`Keeps`), gain a frame
  (`Sends`), hand one over (`Delivers`). `DataInv` and `ReadInv` (as many bytes have been
  read as the place in `runHandler` says) make that so.
- `StreamInv`: the bytes of the stream are of frames written, in order, none twice,
  and all of later frames than those handed over. It is kept because a frame handed
  over whole was the first of the stream, and no byte of it is left (`FrameTaken`).
  `OrderTheorem` follows, disturbed or not.
- `CalmInv`: an undisturbed stream is made of whole frames (`Whole`), and the length in
  hand is that of the first (`LengthKnown`). Without the second a read of the payload
  could end anywhere. `AlignedTheorem` follows.
- `Contiguous`: the stream goes on from one frame to the next, and ends with the last
  one written. With `CalmInv` the queue of `FrameChannel` is then all numbers from the
  first frame to the last (`CalmQueue`), and each kind of step is one of
  the channel: `Refinement`. `FrameNumbers` is a recursive function over the
  stream; `FramesAreNumbers` finds its value by exhibiting one that satisfies its
  equation and taking the least place where the two could differ.
- `PathInv`: the path, once made, stays, and pycan is refused only between its look
  at a path that is not there and its `mkfifo`. `RefusedTheorem` follows.

**LogPublisher**

- `TypeInv` is `TypeOK` with what kind of line is where. `TypeCorrect` follows.
- `ReadInv`: at each step of the loop of `_tail` the position is that of the line the
  reader is in. `PositionTheorem` follows.
- `SkipInv`: every line before the position is sent, on its way, in the main thread's
  hand, or has a named cause (`WholeLine`, `AccountsKept`), at every step and
  through a handler. `NothingSkippedTheorem` follows.
- `StopInv`: once `stop()` has begun, or the position of this run has been dumped,
  the run publishes nothing more (`Quiet`). Without it a signal between two steps could
  leave a position behind a line still to be sent. `CleanStopTheorem` follows.

**FirewallManager**

- `LifeInv` is `OwnInv` (per instance: the thread has its frequency processor, a handle
  means all objects are there), `StageInv` (what the instance in hand has at each
  stage of its making or unmaking), `TableInv` (the table and the objects name
  each other) and `GoneInv` (a call not made has nothing, one that failed has left
  nothing). The four need each other: a failed call leaves nothing because it was the
  stage that said what there was. `TypeCorrect`, `LoggerOutlives` and `AllOrNothing` follow.
- `SoundSurvive` adds that the only five places where a pointer kills the process
  each meet an instance whose configuration did not make it whole.
- `JoinIsBounded`: the thread that is joined belongs to an instance that never had a
  handle, so it has nothing to report (`JoinedThread`), and it has been told to stop
  (`ToldToStop`): at most three of its steps are left and none of them needs the log
  pipe. What `CallReturns` has left to fairness, and to the sign of the timer, is
  that the thread takes these steps.

Only model-checked:

- All liveness (`CallsReturn`, `SilenceNoticed`, `FramesArrive`, `SignalStops`,
  `TermEndsSession`, `Progress`, `CallReturns`): it rests on fairness and `ENABLED`, which
  the provers do not treat. What of it is safety is proved: `CallsAreFinite`,
  `MutexIsGivenUp`, `ReadingEnds` and the two `JoinIsBounded` give the measures that the
  steps of a call, of a critical section, of a loop and of a thread about to be
  joined decrease, and bound them.
- `MatchesAsWritten`: matching is recursive over trees (`PayloadMatch`).

## 7. Not modelled

- How libconfig makes a parameter of the text of a configuration file; the path
  `canPipe` is one path for both processes, as the installed files have it.
- What `ifstream` and `stoi` make of characters: a file is its words, and a word has
  a number or none.
- The tools of pycan that send to the bus, the set-up of its logger, `printTree`,
  build scripts: no state of the firewall.
- Texts of log lines, except which of them is written.
- That a line of the log is one write of fewer than `PIPE_BUF` bytes is assumed:
  the two mutexes of `RuleRunner` and `FrequencyProcessor` do not exclude each other.

## 8. Plan

All safety properties of the runs that are about the modules are proved. What could
come next:

1. A recursive function in place of the recursive operators of `PayloadMatch`, and
   with it lemmas about matching: a finished tree has a verdict, and evaluating the
   operands in another order does not change it. Both need an induction over trees.
2. A theorem that joins the components: what `LoadedConfigSound` says of a loaded file
   is, with entries in every chain, what `ConfigAssumption` and `SoundConfig` of
   `RuleRunner` take for granted.
