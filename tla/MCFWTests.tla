------------------------------ MODULE MCFWTests ------------------------------
(***************************************************************************)
(* The repository's own rule file (FWRules.xml) and the frames its own     *)
(* test program (FWTests/main.cpp) sends, run through RuleRunner.          *)
(***************************************************************************)
EXTENDS RuleRunner, PayloadMatch

VARIABLE call   (* how many frames the test program has sent               *)

(* FWRules.xml, <rules>.  Bytes outside an <expression> hang at the root.  *)
Engine    == And({}, {And({SingleValue(0, 10), BoundedValue(1, 2, 10)}, {})})
EngineEx  == And({}, {And({SingleValue(6, 10), BoundedValue(7, 2, 10)},
               {Or({}, {And({BoundedValue(1, 1, 200), BoundedValue(2, 3, 19)}, {}),
                        And({BoundedValue(1, 201, 220), BoundedValue(2, 20, 25)}, {})})})})
Lambda    == And({SingleValue(2, 10)}, {})
LambdaEx  == And({SingleValue(2, 15)}, {})
M1        == And({SingleValue(3, 75), BoundedValue(7, 2, 10)}, {})
M2        == And({SingleValue(1, 13), BoundedValue(2, 2, 5)}, {})
M3        == And({SingleValue(1, 17), BoundedValue(2, 2, 5)}, {})

TestRules == {"engine", "engine_ex", "lambda", "lambda_ex", "m1", "m2", "m3"}

TestCid ==
  [r \in TestRules |->
     CASE r \in {"engine", "engine_ex"} -> 23
       [] r \in {"lambda", "lambda_ex"} -> 24
       [] r = "m1" -> 25
       [] r = "m2" -> 26
       [] r = "m3" -> 27]

Tree(r) ==
  CASE r = "engine"    -> Engine
    [] r = "engine_ex" -> EngineEx
    [] r = "lambda"    -> Lambda
    [] r = "lambda_ex" -> LambdaEx
    [] r = "m1"        -> M1
    [] r = "m2"        -> M2
    [] r = "m3"        -> M3

(* FWTests/main.cpp: the frames of its three tests, in the order of main.  *)
Frames ==
  << [id |-> 23, payload |-> <<10, 8, 233, 45>>],
     [id |-> 23, payload |-> <<0, 210, 25, 0, 0, 0, 10, 2>>],
     [id |-> 25, payload |-> <<0, 210, 25, 75, 0, 0, 10, 2>>],
     [id |-> 26, payload |-> <<0, 13, 5, 75, 0, 0, 10, 2>>],
     [id |-> 27, payload |-> <<0, 17, 3, 75, 0, 0, 10, 2>>],
     [id |-> 23, payload |-> <<10, 2, 3, 75, 0, 0, 10, 2>>] >>

TestMsgIds   == {23, 24, 25, 26, 27}
TestPayloads == {Frames[n].payload : n \in DOMAIN Frames}
TestMatches  == {rp \in TestRules \X TestPayloads : recursiveMatch(Tree(rp[1]), rp[2])}
TestLogTexts == {"test message", "another message"}

E(rule, action, text) == [rule |-> rule, action |-> action, logMessage |-> text]

TestRuleChainMaps ==
  { [id \in {23, 24} |->
       IF id = 23
       THEN << E("engine", ACTION_PERMIT_LOG, "test message"),
               E("engine_ex", ACTION_DROP, NoText),
               E(NULL, ACTION_PERMIT, NoText) >>
       ELSE << E("lambda", ACTION_DROP, "another message"),
               E(NULL, ACTION_PERMIT, NoText) >>] }

TestStateChainMaps ==
  { << << E("m1", ACTION_PERMIT, NoText), E("m2", ACTION_PERMIT, NoText),
          E("m3", ACTION_PERMIT, NoText), E("engine", ACTION_DROP, NoText) >>,
       << E("lambda_ex", ACTION_PERMIT, NoText),
          E("engine_ex", ACTION_DROP, NoText) >> >> }

TestInit ==
  /\ Init
  /\ m_mapRuleChains \in TestRuleChainMaps
  /\ m_mapStateChains \in TestStateChainMaps
  /\ useTPM
  /\ iMsgID = Frames[1].id /\ pPayload = Frames[1].payload
  /\ call = 0

(* The next frame is sent.  The first two are tests of their own; the      *)
(* other four are test_state_chain, which returns with the first of them   *)
(* but the last that is not permitted.                                     *)
TestCall ==
  /\ call \in 0 .. (Len(Frames) - 1)
  /\ call >= 3 => returned = FWCORE_PROC_PERMIT
  /\ permitMessage(Frames[call + 1].id, Frames[call + 1].payload)
  /\ call' = call + 1

TestNext == TestCall \/ (Step /\ UNCHANGED call)

TestSpec == TestInit /\ [][TestNext]_<<vars, call>>

Answered(n) == call = n /\ pc = "idle"

(* "processMessage(fwInst, idx1, payload1, sizeof(payload1)) !=            *)
(* FWCORE_PROC_PERMIT" fails test_state_chain (FWTests/main.cpp:86, and    *)
(* likewise :90, :94).  Refuted: FWRules.xml has no rule chain for 25 to   *)
(* 27, and such a frame is dropped and logged whatever its state chain     *)
(* says.                                                                   *)
StateChainPermits == Answered(3) => returned = FWCORE_PROC_PERMIT
=============================================================================
