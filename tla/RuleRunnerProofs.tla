-------------------------- MODULE RuleRunnerProofs --------------------------
(***************************************************************************)
(* The safety properties of RuleRunner for every rule file: any number of  *)
(* chains of any length, any rules, any payloads.                          *)
(***************************************************************************)
EXTENDS RuleRunner, TLAPS

(* TypeOK with what holds at particular points of a call.                  *)
TypeInv ==
  /\ TypeOK
  /\ pc # "idle" => m_sLogMessage \in LogLines
  /\ pc = "ruleChain" => iMsgID \in DOMAIN m_mapRuleChains
  /\ pc \in {"stateChain", "decide"} => m_lstStateInst = Positions

(* Chains and their entries have the types of the parsed file.             *)
LEMMA ChainTypes ==
  ASSUME TypeOK
  PROVE  /\ m_mapStateChains \in Seq(Chain)
         /\ DOMAIN m_mapRuleChains \subseteq MsgIds
         /\ \A id \in DOMAIN m_mapRuleChains : m_mapRuleChains[id] \in Chain
         /\ \A k \in DOMAIN m_mapStateChains : m_mapStateChains[k] \in Chain
BY ConfigAssumption DEF TypeOK

LEMMA EntryTypes ==
  ASSUME NEW chain \in Chain, NEW i \in DOMAIN chain
  PROVE  /\ chain[i] \in Entry
         /\ decodeAction(chain[i].action) \in ProcCodes \ {FWCORE_PROC_CHAINUNDEFINED}
         /\ \A old \in LogLines : TextOr(chain[i], old) \in LogLines
         /\ Advance(chain, i) \in DOMAIN chain
<1>1. chain[i] \in Entry
  BY DEF Chain
<1>2. decodeAction(chain[i].action) \in ProcCodes \ {FWCORE_PROC_CHAINUNDEFINED}
  BY <1>1 DEF Entry, decodeAction, ProcCodes, FWCORE_PROC_PERMIT, FWCORE_PROC_DROP,
              FWCORE_PROC_PERMIT_LOG, FWCORE_PROC_DROP_LOG, FWCORE_PROC_CHAINUNDEFINED
<1>3. \A old \in LogLines : TextOr(chain[i], old) \in LogLines
  BY <1>1 DEF Entry, TextOr, LogLines
<1>4. Advance(chain, i) \in DOMAIN chain
  BY DEF Chain, Advance
<1>5. QED
  BY <1>1, <1>2, <1>3, <1>4

(* Before the instances exist every chain stands at its beginning.         *)
LEMMA PositionsType ==
  ASSUME TypeOK
  PROVE  /\ Positions \in Seq(Nat \ {0})
         /\ Positions \in [DOMAIN m_mapStateChains -> Nat \ {0}]
         /\ Len(Positions) = Len(m_mapStateChains)
<1>1. m_mapStateChains \in Seq(Chain)
  BY ChainTypes
<1>2. CASE m_lstStateInst = <<>>
  BY <1>1, <1>2 DEF Positions
<1>3. CASE m_lstStateInst # <<>>
  BY <1>1, <1>3 DEF Positions, TypeOK
<1>4. QED
  BY <1>2, <1>3

LEMMA TypeInit == Init => TypeInv
<1> SUFFICES ASSUME Init PROVE TypeInv
  OBVIOUS
<1>1. /\ m_lstStateInst \in Seq(Nat \ {0})
      /\ logged \in Seq(LogLines)
  BY DEF Init
<1>2. \A k \in DOMAIN m_mapStateChains : Positions[k] = 1
  BY DEF Init, Positions
<1>3. posAtCall \in [DOMAIN m_mapStateChains -> Nat \ {0}]
  BY DEF Init, Positions
<1>4. QED
  BY <1>1, <1>2, <1>3 DEF Init, TypeInv, TypeOK, ProcCodes, FreqCodes,
     FWCORE_PROC_PERMIT, FWCORE_PROC_CHAINUNDEFINED

LEMMA TypeNext == TypeInv /\ [Next]_vars => TypeInv'
<1> SUFFICES ASSUME TypeInv, [Next]_vars PROVE TypeInv'
  OBVIOUS
<1> USE DEF config, frame, result
<1>0. TypeOK
  BY DEF TypeInv
<1>1. ASSUME NEW id \in MsgIds, NEW payload \in Payloads, permitMessage(id, payload)
      PROVE  TypeInv'
  <2>1. Positions' = Positions
    BY <1>1 DEF permitMessage, Positions
  <2>2. posAtCall' \in [DOMAIN m_mapStateChains -> Nat \ {0}]
    BY <1>1, <1>0, PositionsType DEF permitMessage
  <2>3. QED
    BY <1>0, <1>1, <2>1, <2>2 DEF permitMessage, TypeInv, TypeOK, LogLines, ProcCodes,
       FWCORE_PROC_PERMIT, FWCORE_PROC_CHAINUNDEFINED
<1>2. CASE permitRuleChain
  <2>1. Positions' = Positions
    BY <1>2 DEF permitRuleChain, Positions
  <2>2. /\ m_mapRuleChains[iMsgID] \in Chain
        /\ m_sLogMessage \in LogLines
    BY <1>2, <1>0, ChainTypes DEF permitRuleChain, TypeInv
  <2>3. retCode' \in ProcCodes /\ m_sLogMessage' \in LogLines
    <3>1. CASE it > Len(m_mapRuleChains[iMsgID])
      BY <1>2, <1>0, <2>2, <3>1 DEF permitRuleChain, TypeOK, Chain
    <3>2. CASE it <= Len(m_mapRuleChains[iMsgID])
      <4>1. it \in DOMAIN m_mapRuleChains[iMsgID]
        BY <1>0, <2>2, <3>2 DEF TypeOK, Chain
      <4>2. QED
        BY <1>2, <1>0, <2>2, <4>1, EntryTypes DEF permitRuleChain, TypeOK
    <3>3. QED
      BY <1>0, <2>2, <3>1, <3>2 DEF TypeOK, Chain
  <2>4. QED
    BY <1>0, <1>2, <2>1, <2>3 DEF permitRuleChain, TypeInv, TypeOK
<1>3. CASE checkStatefulInit
  <2>1. m_lstStateInst' = Positions /\ UNCHANGED m_mapStateChains
    BY <1>3 DEF checkStatefulInit
  <2>2. Positions' = Positions
    BY <2>1, <1>0, PositionsType, ChainTypes DEF Positions
  <2>3. QED
    BY <1>0, <1>3, <2>1, <2>2, PositionsType DEF checkStatefulInit, TypeInv, TypeOK, ProcCodes,
       FWCORE_PROC_PERMIT, FWCORE_PROC_CHAINUNDEFINED
<1>4. CASE permitStateChain
  <2> DEFINE chain == m_mapStateChains[it]
             at    == m_lstStateInst[it]
  <2>1. /\ m_lstStateInst = Positions
        /\ Len(m_lstStateInst) = Len(m_mapStateChains)
        /\ it \in DOMAIN m_mapStateChains
        /\ m_mapStateChains \in Seq(Chain)
    BY <1>4, <1>0, PositionsType, ChainTypes DEF permitStateChain, TypeInv, TypeOK
  <2>2. chain \in Chain /\ at \in DOMAIN chain
    BY <1>4, <2>1 DEF permitStateChain, RuleAt
  <2>3. CASE Satisfied(chain[at], iMsgID, pPayload)
    <3>1. /\ stCode' = decodeAction(chain[at].action)
          /\ m_sLogMessage' = TextOr(chain[at], m_sLogMessage)
          /\ m_lstStateInst' = [m_lstStateInst EXCEPT ![it] = Advance(chain, at)]
      BY <1>4, <2>3 DEF permitStateChain
    <3>2. /\ stCode' \in ProcCodes \ {FWCORE_PROC_CHAINUNDEFINED}
          /\ m_sLogMessage' \in LogLines
          /\ Advance(chain, at) \in DOMAIN chain
      BY <1>4, <2>2, <3>1, EntryTypes DEF permitStateChain, TypeInv
    <3>3. Advance(chain, at) \in Nat \ {0}
      BY <2>2, <3>2 DEF Chain
    <3>4. /\ m_lstStateInst' \in Seq(Nat \ {0})
          /\ Len(m_lstStateInst') = Len(m_lstStateInst)
          /\ m_lstStateInst' # <<>>
      BY <1>0, <2>1, <3>1, <3>3 DEF TypeOK
    <3>5. Positions' = m_lstStateInst'
      BY <3>4 DEF Positions
    <3>6. \A k \in DOMAIN m_mapStateChains :
             Positions'[k] \in DOMAIN m_mapStateChains[k] \cup {1}
      BY <1>0, <2>1, <3>1, <3>2, <3>5 DEF TypeOK
    <3>7. QED
      BY <1>4, <1>0, <2>1, <3>2, <3>4, <3>5, <3>6 DEF permitStateChain, TypeInv, TypeOK
  <2>4. CASE ~Satisfied(chain[at], iMsgID, pPayload)
    <3>1. UNCHANGED <<stCode, m_sLogMessage, m_lstStateInst, m_mapStateChains>>
      BY <1>4, <2>4 DEF permitStateChain
    <3>2. Positions' = Positions
      BY <3>1 DEF Positions
    <3>3. QED
      BY <1>4, <1>0, <3>1, <3>2 DEF permitStateChain, TypeInv, TypeOK
  <2>5. QED
    BY <2>3, <2>4
<1>5. CASE dereferenceNullRule
  <2>1. Positions' = Positions
    BY <1>5 DEF dereferenceNullRule, Positions
  <2>2. QED
    BY <1>0, <1>5, <2>1 DEF dereferenceNullRule, TypeInv, TypeOK
<1>6. CASE processNewID
  <2>1. Positions' = Positions
    BY <1>6 DEF processNewID, Positions
  <2>2. QED
    BY <1>0, <1>6, <2>1 DEF processNewID, TypeInv, TypeOK
<1>7. CASE dropUndefined
  <2>1. Positions' = Positions
    BY <1>7 DEF dropUndefined, Positions
  <2>2. logged' \in Seq(LogLines) /\ returned' \in ProcCodes \cup {0}
    <3>1. /\ m_sLogMessage \in LogLines
          /\ FWCORE_PROC_DROP_LOG \in ProcCodes
      BY <1>7 DEF dropUndefined, TypeInv, ProcCodes, FWCORE_PROC_DROP_LOG,
         FWCORE_PROC_PERMIT, FWCORE_PROC_CHAINUNDEFINED
    <3>2. CASE useTPM
      <4>1. logged' = <<m_sLogMessage>> /\ returned' = FWCORE_PROC_DROP_LOG
        BY <1>7, <3>2 DEF dropUndefined
      <4>2. <<m_sLogMessage>> \in Seq(LogLines)
        BY <3>1
      <4>3. QED
        BY <3>1, <4>1, <4>2
    <3>3. CASE ~useTPM
      BY <1>0, <1>7, <3>3 DEF dropUndefined, TypeOK
    <3>4. QED
      BY <3>2, <3>3
  <2>3. pc' \in {"idle", "crashed"} /\ pc = "decide"
    BY <1>7 DEF dropUndefined
  <2>4. /\ UNCHANGED <<config, m_lstStateInst, m_sLogMessage, frame, it,
                       retCode, stCode, frCode>>
        /\ m_sLogMessage \in LogLines
    BY <1>7, <2>3 DEF dropUndefined, TypeInv
  <2>5. QED
    BY <1>0, <2>1, <2>2, <2>3, <2>4 DEF TypeInv, TypeOK
<1>8. CASE returnVerdict
  <2>1. Positions' = Positions
    BY <1>8 DEF returnVerdict, Positions
  <2>2. m_sLogMessage \in LogLines /\ FreqText \in LogLines
    BY <1>8 DEF returnVerdict, TypeInv, LogLines
  <2>3. logged' \in Seq(LogLines) /\ returned' \in ProcCodes \cup {0}
    BY <1>0, <1>8, <2>2 DEF returnVerdict, FinalCode, TypeOK
  <2>4. QED
    BY <1>0, <1>8, <2>1, <2>3 DEF returnVerdict, TypeInv, TypeOK
<1>9. CASE UNCHANGED vars
  <2>1. Positions' = Positions
    BY <1>9 DEF vars, Positions
  <2>2. QED
    BY <1>0, <1>9, <2>1 DEF vars, TypeInv, TypeOK
<1>10. QED
  BY <1>1, <1>2, <1>3, <1>4, <1>5, <1>6, <1>7, <1>8, <1>9 DEF Next, Step

LEMMA TypeInvariant == Spec => []TypeInv
BY TypeInit, TypeNext, PTL DEF Spec

(* Type correctness for every rule file, with the iterators of the state   *)
(* chains never left at end().                                             *)
THEOREM TypeCorrect == Spec => []TypeOK
<1>1. TypeInv => TypeOK
  BY DEF TypeInv
<1>2. QED
  BY <1>1, TypeInvariant, PTL

-----------------------------------------------------------------------------
(* The loop of permitRuleChain has passed only entries that do not decide, *)
(* and after the loop the result is that of the first one that does.       *)
RuleInv ==
  /\ pc = "ruleChain" =>
       /\ retCode = FWCORE_PROC_CHAINUNDEFINED
       /\ \A j \in DOMAIN m_mapRuleChains[iMsgID] :
            j < it => ~Hit(m_mapRuleChains[iMsgID][j], pPayload)
  /\ FirstMatchDecides

(* The policy reads the rule file through the same operators.              *)
LEMMA SameOperators ==
  /\ \A entry, payload : Policy!Hit(entry, payload) = Hit(entry, payload)
  /\ \A action : Policy!decodeAction(action) = decodeAction(action)
  /\ Policy!FWCORE_PROC_CHAINUNDEFINED = FWCORE_PROC_CHAINUNDEFINED
BY DEF Hit, decodeAction, Policy!Hit, Policy!decodeAction, ACTION_PERMIT,
   ACTION_PERMIT_LOG, ACTION_DROP, Policy!ACTION_PERMIT, Policy!ACTION_PERMIT_LOG,
   Policy!ACTION_DROP, FWCORE_PROC_PERMIT, FWCORE_PROC_PERMIT_LOG, FWCORE_PROC_DROP,
   FWCORE_PROC_DROP_LOG, Policy!FWCORE_PROC_PERMIT, Policy!FWCORE_PROC_PERMIT_LOG,
   Policy!FWCORE_PROC_DROP, Policy!FWCORE_PROC_DROP_LOG, FWCORE_PROC_CHAINUNDEFINED,
   Policy!FWCORE_PROC_CHAINUNDEFINED

(* The abstract verdict, from either way the loop ends.                    *)
LEMMA NoHit ==
  ASSUME Policy!Hits(iMsgID, pPayload) = {}
  PROVE  Policy!RuleVerdict(iMsgID, pPayload) = FWCORE_PROC_CHAINUNDEFINED
BY SameOperators DEF Policy!RuleVerdict

LEMMA FirstHitDecides ==
  ASSUME iMsgID \in DOMAIN m_mapRuleChains,
         m_mapRuleChains[iMsgID] \in Chain,
         NEW i \in DOMAIN m_mapRuleChains[iMsgID],
         Hit(m_mapRuleChains[iMsgID][i], pPayload),
         \A j \in DOMAIN m_mapRuleChains[iMsgID] :
            j < i => ~Hit(m_mapRuleChains[iMsgID][j], pPayload)
  PROVE  /\ i \in Policy!Hits(iMsgID, pPayload)
         /\ Policy!Deciding(iMsgID, pPayload) = m_mapRuleChains[iMsgID][i]
<1> DEFINE H == Policy!Hits(iMsgID, pPayload)
<1>1. H = {j \in DOMAIN m_mapRuleChains[iMsgID] :
             Hit(m_mapRuleChains[iMsgID][j], pPayload)}
  BY SameOperators DEF Policy!Hits
<1>2. H \subseteq Int
  BY <1>1 DEF Chain
<1>3. i \in H /\ \A j \in H : i <= j
  BY <1>1, <1>2
<1>4. (CHOOSE k \in H : \A j \in H : k <= j) = i
  <2>1. \A k \in H : (\A j \in H : k <= j) => k = i
    BY <1>2, <1>3
  <2>2. QED
    BY <1>3, <2>1
<1>5. QED
  BY <1>3, <1>4 DEF Policy!Deciding

LEMMA FirstHit ==
  ASSUME iMsgID \in DOMAIN m_mapRuleChains,
         m_mapRuleChains[iMsgID] \in Chain,
         NEW i \in DOMAIN m_mapRuleChains[iMsgID],
         Hit(m_mapRuleChains[iMsgID][i], pPayload),
         \A j \in DOMAIN m_mapRuleChains[iMsgID] :
            j < i => ~Hit(m_mapRuleChains[iMsgID][j], pPayload)
  PROVE  Policy!RuleVerdict(iMsgID, pPayload)
           = decodeAction(m_mapRuleChains[iMsgID][i].action)
<1>1. /\ i \in Policy!Hits(iMsgID, pPayload)
      /\ Policy!Deciding(iMsgID, pPayload) = m_mapRuleChains[iMsgID][i]
  BY FirstHitDecides
<1>2. QED
  BY <1>1, SameOperators DEF Policy!RuleVerdict

LEMMA RuleInit == Init => RuleInv
BY DEF Init, RuleInv, FirstMatchDecides

LEMMA RuleNext == TypeInv /\ RuleInv /\ [Next]_vars => RuleInv'
<1> SUFFICES ASSUME TypeInv, RuleInv, [Next]_vars PROVE RuleInv'
  OBVIOUS
<1> USE DEF config, frame, result
<1>0. TypeOK
  BY DEF TypeInv
<1>1. ASSUME NEW id \in MsgIds, NEW payload \in Payloads, permitMessage(id, payload)
      PROVE  RuleInv'
  <2>1. /\ UNCHANGED m_mapRuleChains
        /\ retCode' = FWCORE_PROC_CHAINUNDEFINED
        /\ it' = 1 /\ iMsgID' = id /\ pPayload' = payload
        /\ pc' = IF id \in DOMAIN m_mapRuleChains THEN "ruleChain" ELSE "stateInit"
    BY <1>1 DEF permitMessage
  <2>2. CASE id \in DOMAIN m_mapRuleChains
    <3>1. \A j \in DOMAIN m_mapRuleChains[id] : ~(j < 1)
      BY <1>0, <2>2, ChainTypes DEF Chain
    <3>2. QED
      BY <2>1, <2>2, <3>1 DEF RuleInv, FirstMatchDecides
  <2>3. CASE id \notin DOMAIN m_mapRuleChains
    BY <2>1, <2>3, SameOperators
       DEF RuleInv, FirstMatchDecides, Policy!RuleVerdict, Policy!Hits
  <2>4. QED
    BY <2>2, <2>3
<1>2. CASE permitRuleChain
  <2> DEFINE chain == m_mapRuleChains[iMsgID]
  <2>1. /\ iMsgID \in DOMAIN m_mapRuleChains
        /\ chain \in Chain
        /\ it \in Nat \ {0}
        /\ pc = "ruleChain"
        /\ UNCHANGED <<m_mapRuleChains, iMsgID, pPayload>>
    BY <1>0, <1>2, ChainTypes DEF permitRuleChain, TypeInv, TypeOK
  <2>2. CASE it > Len(chain)
    <3>1. \A j \in DOMAIN chain : ~Hit(chain[j], pPayload)
      BY <2>1, <2>2 DEF RuleInv, Chain
    <3>2. Policy!Hits(iMsgID, pPayload) = {}
      BY <3>1, SameOperators DEF Policy!Hits
    <3>3. retCode = Policy!RuleVerdict(iMsgID, pPayload)
      BY <2>1, <3>2, NoHit DEF RuleInv
    <3>4. pc' = "stateInit" /\ retCode' = retCode
      BY <1>2, <2>1, <2>2 DEF permitRuleChain, Chain
    <3>5. Policy!RuleVerdict(iMsgID, pPayload)' = Policy!RuleVerdict(iMsgID, pPayload)
      BY <2>1 DEF Policy!RuleVerdict, Policy!Hits, Policy!Deciding
    <3>6. QED
      BY <3>3, <3>4, <3>5 DEF RuleInv, FirstMatchDecides
  <2>3. CASE it <= Len(chain) /\ Hit(chain[it], pPayload)
    <3>1. it \in DOMAIN chain
      BY <2>1, <2>3 DEF Chain
    <3>2. Policy!RuleVerdict(iMsgID, pPayload) = decodeAction(chain[it].action)
      BY <2>1, <2>3, <3>1, FirstHit DEF RuleInv
    <3>3. pc' = "stateInit" /\ retCode' = decodeAction(chain[it].action)
      BY <1>2, <2>1, <2>3 DEF permitRuleChain, Chain
    <3>4. Policy!RuleVerdict(iMsgID, pPayload)' = Policy!RuleVerdict(iMsgID, pPayload)
      BY <2>1 DEF Policy!RuleVerdict, Policy!Hits, Policy!Deciding
    <3>5. QED
      BY <3>2, <3>3, <3>4 DEF RuleInv, FirstMatchDecides
  <2>4. CASE it <= Len(chain) /\ ~Hit(chain[it], pPayload)
    <3>1. it' = it + 1 /\ UNCHANGED <<pc, retCode>>
      BY <1>2, <2>1, <2>4 DEF permitRuleChain, Chain
    <3>2. \A j \in DOMAIN chain : j < it + 1 => ~Hit(chain[j], pPayload)
      BY <2>1, <2>4 DEF RuleInv, Chain
    <3>3. QED
      BY <2>1, <3>1, <3>2 DEF RuleInv, FirstMatchDecides
  <2>5. QED
    BY <2>1, <2>2, <2>3, <2>4 DEF Chain
<1>3. CASE checkStatefulInit \/ permitStateChain \/ dereferenceNullRule
           \/ processNewID \/ dropUndefined \/ returnVerdict \/ UNCHANGED vars
  <2>1. /\ UNCHANGED <<m_mapRuleChains, iMsgID, pPayload, retCode>>
        /\ pc' # "ruleChain" \/ UNCHANGED vars
        /\ pc' \in {"stateInit", "stateChain", "decide"}
             => pc \in {"stateInit", "stateChain", "decide"}
    BY <1>3 DEF checkStatefulInit, permitStateChain, dereferenceNullRule, processNewID,
                dropUndefined, returnVerdict, vars
  <2>2. Policy!RuleVerdict(iMsgID, pPayload)' = Policy!RuleVerdict(iMsgID, pPayload)
    BY <2>1 DEF Policy!RuleVerdict, Policy!Hits, Policy!Deciding
  <2>3. QED
    BY <2>1, <2>2 DEF RuleInv, FirstMatchDecides, vars
<1>4. QED
  BY <1>1, <1>2, <1>3 DEF Next, Step

LEMMA RuleInvariant == Spec => []RuleInv
BY TypeInvariant, RuleInit, RuleNext, PTL DEF Spec

(* The loop over a rule chain finds the first entry that decides the       *)
(* frame, whatever the chain.                                              *)
THEOREM FirstMatchTheorem == Spec => []FirstMatchDecides
<1>1. RuleInv => FirstMatchDecides
  BY DEF RuleInv
<1>2. QED
  BY <1>1, RuleInvariant, PTL

-----------------------------------------------------------------------------
(* Under a sound configuration no step reaches a missing rule or logger.   *)
LEMMA SoundStep ==
  TypeInv /\ SoundConfigNeverCrashes /\ [Next]_vars => SoundConfigNeverCrashes'
<1> SUFFICES ASSUME TypeInv, SoundConfigNeverCrashes, [Next]_vars, SoundConfig', pc' = "crashed"
             PROVE  FALSE
  BY DEF SoundConfigNeverCrashes
<1> USE DEF config, frame, result
<1>1. UNCHANGED <<m_mapStateChains, useTPM>>
  BY DEF Next, Step, permitMessage, permitRuleChain, checkStatefulInit, permitStateChain,
     dereferenceNullRule, processNewID, dropUndefined, returnVerdict, vars
<1>2. SoundConfig /\ pc # "crashed"
  BY <1>1 DEF SoundConfig, SoundConfigNeverCrashes
<1>3. dereferenceNullRule \/ dropUndefined
  BY <1>2 DEF Next, Step, permitMessage, permitRuleChain, checkStatefulInit,
     permitStateChain, processNewID, returnVerdict, vars
<1>4. ~dereferenceNullRule
  <2> SUFFICES ASSUME dereferenceNullRule PROVE FALSE
    OBVIOUS
  <2>1. /\ TypeOK
        /\ m_lstStateInst = Positions
        /\ it \in DOMAIN m_mapStateChains
        /\ RuleAt(m_mapStateChains[it], m_lstStateInst[it]) = NULL
    BY PositionsType, ChainTypes DEF dereferenceNullRule, TypeInv, TypeOK
  <2>2. Positions[it] \in DOMAIN m_mapStateChains[it]
    BY <1>2, <2>1, ChainTypes DEF SoundConfig, TypeOK, Chain
  <2>3. QED
    BY <1>2, <2>1, <2>2 DEF SoundConfig, RuleAt
<1>5. ~dropUndefined
  BY <1>2 DEF dropUndefined, SoundConfig
<1>6. QED
  BY <1>3, <1>4, <1>5

(* With a logger and whole state chains the code never dereferences NULL.  *)
THEOREM SoundConfigSafe == Spec => []SoundConfigNeverCrashes
<1>1. Init => SoundConfigNeverCrashes
  BY DEF Init, SoundConfigNeverCrashes
<1>2. QED
  BY <1>1, SoundStep, TypeInvariant, PTL DEF Spec

-----------------------------------------------------------------------------
(* The loop of permitStateChain has put the chains it has passed where the *)
(* policy puts them, and left the others where the call found them.        *)
After == Policy!PosAfter(iMsgID, pPayload)

MoveInv ==
  /\ pc \in {"ruleChain", "stateInit"} => posAtCall = Positions
  /\ pc = "stateChain" =>
       \A k \in DOMAIN m_mapStateChains :
         m_lstStateInst[k] = IF k < it THEN After[k] ELSE posAtCall[k]
  /\ EachChainMovesOnce

LEMMA SameMoves ==
  /\ \A entry, id, payload :
       Policy!Satisfied(entry, id, payload) = Satisfied(entry, id, payload)
  /\ \A chain, i : Policy!Advance(chain, i) = Advance(chain, i)
BY DEF Satisfied, Advance, Policy!Satisfied, Policy!Advance

(* Where the policy puts a chain, during a call.                           *)
LEMMA AfterValue ==
  ASSUME pc # "idle"
  PROVE  After = [k \in DOMAIN m_mapStateChains |->
                    IF Satisfied(m_mapStateChains[k][posAtCall[k]], iMsgID, pPayload)
                    THEN Advance(m_mapStateChains[k], posAtCall[k])
                    ELSE posAtCall[k]]
BY SameMoves DEF After, Policy!PosAfter, Policy!Movers

LEMMA MoveInit == Init => MoveInv
BY DEF Init, MoveInv, EachChainMovesOnce

LEMMA MoveNext == TypeInv /\ MoveInv /\ [Next]_vars => MoveInv'
<1> SUFFICES ASSUME TypeInv, MoveInv, [Next]_vars PROVE MoveInv'
  OBVIOUS
<1> USE DEF config, frame, result
<1>0. TypeOK
  BY DEF TypeInv
<1>1. ASSUME NEW id \in MsgIds, NEW payload \in Payloads, permitMessage(id, payload)
      PROVE  MoveInv'
  BY <1>1 DEF permitMessage, Positions, MoveInv, EachChainMovesOnce
<1>2. CASE permitRuleChain
  BY <1>2 DEF permitRuleChain, Positions, MoveInv, EachChainMovesOnce
<1>3. CASE checkStatefulInit
  <2>1. /\ m_lstStateInst' = posAtCall' /\ it' = 1 /\ pc' = "stateChain"
        /\ UNCHANGED m_mapStateChains
    BY <1>3 DEF checkStatefulInit, MoveInv
  <2>2. \A k \in DOMAIN m_mapStateChains : ~(k < 1)
    BY <1>0, ChainTypes
  <2>3. QED
    BY <2>1, <2>2 DEF MoveInv, EachChainMovesOnce
<1>4. CASE permitStateChain
  <2> DEFINE chain == m_mapStateChains[it]
  <2>1. /\ m_lstStateInst = Positions
        /\ it \in DOMAIN m_mapStateChains
        /\ DOMAIN m_mapStateChains \subseteq Nat
        /\ it' = it + 1
        /\ pc = "stateChain" /\ pc' = "stateChain"
        /\ UNCHANGED <<m_mapStateChains, posAtCall, iMsgID, pPayload>>
    BY <1>0, <1>4, PositionsType, ChainTypes DEF permitStateChain, TypeInv, TypeOK
  <2>2. m_lstStateInst[it] = posAtCall[it]
    BY <2>1 DEF MoveInv
  <2>3. /\ m_lstStateInst'[it] = IF Satisfied(chain[posAtCall[it]], iMsgID, pPayload)
                                  THEN Advance(chain, posAtCall[it])
                                  ELSE posAtCall[it]
        /\ \A k \in DOMAIN m_mapStateChains \ {it} :
             m_lstStateInst'[k] = m_lstStateInst[k]
    <3>1. m_lstStateInst \in [DOMAIN m_mapStateChains -> Nat \ {0}]
      BY <1>0, <2>1, PositionsType
    <3>2. QED
      BY <1>4, <2>1, <2>2, <3>1 DEF permitStateChain
  <2>4. After' = After
    BY <2>1 DEF After, Policy!PosAfter, Policy!Movers
  <2>5. m_lstStateInst'[it] = After[it]
    BY <2>1, <2>3, AfterValue
  <2>6. \A k \in DOMAIN m_mapStateChains :
           m_lstStateInst'[k] = IF k < it + 1 THEN After[k] ELSE posAtCall[k]
    BY <1>0, <2>1, <2>3, <2>5 DEF MoveInv, TypeOK
  <2>7. QED
    BY <2>1, <2>4, <2>6 DEF MoveInv, EachChainMovesOnce
<1>5. CASE processNewID
  <2>1. /\ pc = "stateChain" /\ pc' = "decide"
        /\ it > Len(m_mapStateChains)
        /\ m_lstStateInst \in [DOMAIN m_mapStateChains -> Nat \ {0}]
        /\ UNCHANGED <<m_mapStateChains, m_lstStateInst, posAtCall, iMsgID, pPayload>>
    BY <1>0, <1>5, PositionsType DEF processNewID, TypeInv
  <2>2. \A k \in DOMAIN m_mapStateChains : m_lstStateInst[k] = After[k]
    BY <1>0, <2>1, ChainTypes DEF MoveInv, TypeOK
  <2>3. m_lstStateInst = After
    BY <2>1, <2>2, AfterValue
  <2>4. After' = After
    BY <2>1 DEF After, Policy!PosAfter, Policy!Movers
  <2>5. QED
    BY <2>1, <2>3, <2>4 DEF MoveInv, EachChainMovesOnce, After
<1>6. CASE dereferenceNullRule \/ dropUndefined \/ returnVerdict
  BY <1>6 DEF dereferenceNullRule, dropUndefined, returnVerdict, MoveInv, EachChainMovesOnce
<1>7. CASE UNCHANGED vars
  <2>1. After' = After /\ Positions' = Positions
    BY <1>7 DEF vars, After, Policy!PosAfter, Policy!Movers, Positions
  <2>2. QED
    BY <1>7, <2>1 DEF vars, MoveInv, EachChainMovesOnce, After
<1>8. QED
  BY <1>1, <1>2, <1>3, <1>4, <1>5, <1>6, <1>7 DEF Next, Step

LEMMA MoveInvariant == Spec => []MoveInv
BY TypeInvariant, MoveInit, MoveNext, PTL DEF Spec

(* One frame moves each state chain it satisfies by one element, and no    *)
(* other, whatever the chains.                                             *)
THEOREM MovesOnceTheorem == Spec => []EachChainMovesOnce
<1>1. MoveInv => EachChainMovesOnce
  BY DEF MoveInv
<1>2. QED
  BY <1>1, MoveInvariant, PTL

-----------------------------------------------------------------------------
(* The rest of what the policy says: the verdict of the state chains and   *)
(* the text.  The loop of permitStateChain has passed no chain without a   *)
(* rule; what it holds is what the last of the chains it has passed that   *)
(* move had to say, and of those with a text for the text.                 *)
Waiting(k) == m_mapStateChains[k][posAtCall[k]]

Moving(n) == {k \in DOMAIN m_mapStateChains :
                k < n /\ Satisfied(Waiting(k), iMsgID, pPayload)}

Texted(n) == {k \in Moving(n) : Waiting(k).logMessage # NoText}

IsLast(k, S) == k \in S /\ \A j \in S : j <= k

StateCodeInv ==
  IF Moving(it) = {} THEN stCode = FWCORE_PROC_PERMIT
  ELSE \E k \in Moving(it) : /\ IsLast(k, Moving(it))
                             /\ stCode = decodeAction(Waiting(k).action)

StateTextInv ==
  IF Texted(it) = {} THEN m_sLogMessage = Policy!RuleText(iMsgID, pPayload)
  ELSE \E k \in Texted(it) : /\ IsLast(k, Texted(it))
                             /\ m_sLogMessage = Waiting(k).logMessage

VerdictInv ==
  /\ pc = "ruleChain" => m_sLogMessage = IllegalText
  /\ pc = "stateInit" => m_sLogMessage = Policy!RuleText(iMsgID, pPayload)
  /\ pc = "stateChain" =>
       /\ \A k \in DOMAIN m_mapStateChains :
            k < it => RuleAt(m_mapStateChains[k], posAtCall[k]) # NULL
       /\ StateCodeInv
       /\ StateTextInv
  /\ pc = "decide" =>
       /\ ~Policy!Dangling
       /\ stCode = Policy!StateVerdict(iMsgID, pPayload)
       /\ m_sLogMessage = Policy!FinalText(iMsgID, pPayload)

LEMMA SameTexts ==
  /\ \A entry, old : Policy!TextOr(entry, old) = TextOr(entry, old)
  /\ \A chain, i : Policy!RuleAt(chain, i) = RuleAt(chain, i)
  /\ Policy!IllegalText = IllegalText /\ Policy!FreqText = FreqText
  /\ Policy!NoText = NoText
BY DEF TextOr, RuleAt, NoText, IllegalText, FreqText, Policy!TextOr, Policy!RuleAt,
   Policy!NoText, Policy!IllegalText, Policy!FreqText

LEMMA SameCodes ==
  /\ Policy!FWCORE_PROC_PERMIT = FWCORE_PROC_PERMIT
  /\ Policy!FWCORE_PROC_DROP_LOG = FWCORE_PROC_DROP_LOG
  /\ Policy!FWCORE_FREQ_BAD = FWCORE_FREQ_BAD
  /\ Policy!FreqCodes = FreqCodes
  /\ Policy!DropCodes = DropCodes /\ Policy!LogCodes = LogCodes
BY DEF FWCORE_PROC_PERMIT, FWCORE_PROC_DROP_LOG, FWCORE_PROC_DROP, FWCORE_PROC_PERMIT_LOG,
   FWCORE_FREQ_BAD, FWCORE_FREQ_OK, FWCORE_FREQ_ERROR, FreqCodes, DropCodes, LogCodes,
   Policy!FWCORE_PROC_PERMIT, Policy!FWCORE_PROC_DROP_LOG, Policy!FWCORE_PROC_DROP,
   Policy!FWCORE_PROC_PERMIT_LOG, Policy!FWCORE_FREQ_BAD, Policy!FWCORE_FREQ_OK,
   Policy!FWCORE_FREQ_ERROR, Policy!FreqCodes, Policy!DropCodes, Policy!LogCodes

(* The last element of a set of integers is the one CHOOSE finds.          *)
LEMMA ChooseLast ==
  ASSUME NEW S \in SUBSET Int, NEW k \in S, IsLast(k, S)
  PROVE  (CHOOSE i \in S : \A j \in S : j <= i) = k
<1>1. \A i \in S : (\A j \in S : j <= i) => i = k
  BY DEF IsLast
<1>2. \A j \in S : j <= k
  BY DEF IsLast
<1>3. QED
  BY <1>1, <1>2

(* Both walks over the rule chain end with the text of the entry that      *)
(* decides.                                                                *)
LEMMA NoHitText ==
  ASSUME Policy!Hits(iMsgID, pPayload) = {}
  PROVE  Policy!RuleText(iMsgID, pPayload) = IllegalText
BY SameTexts DEF Policy!RuleText

LEMMA FirstHitText ==
  ASSUME iMsgID \in DOMAIN m_mapRuleChains,
         m_mapRuleChains[iMsgID] \in Chain,
         NEW i \in DOMAIN m_mapRuleChains[iMsgID],
         Hit(m_mapRuleChains[iMsgID][i], pPayload),
         \A j \in DOMAIN m_mapRuleChains[iMsgID] :
            j < i => ~Hit(m_mapRuleChains[iMsgID][j], pPayload)
  PROVE  Policy!RuleText(iMsgID, pPayload)
           = TextOr(m_mapRuleChains[iMsgID][i], IllegalText)
<1>1. /\ i \in Policy!Hits(iMsgID, pPayload)
      /\ Policy!Deciding(iMsgID, pPayload) = m_mapRuleChains[iMsgID][i]
  BY FirstHitDecides
<1>2. QED
  BY <1>1, SameTexts DEF Policy!RuleText

(* Past the last chain the walk has seen every chain.                      *)
LEMMA WholeWalk ==
  ASSUME TypeOK, pc # "idle", it > Len(m_mapStateChains)
  PROVE  /\ Moving(it) = Policy!Movers(iMsgID, pPayload)
         /\ Moving(it) \in SUBSET Int
<1>1. \A k \in DOMAIN m_mapStateChains : k < it
  BY ChainTypes DEF TypeOK
<1>2. Moving(it) = Policy!Movers(iMsgID, pPayload)
  BY <1>1, SameMoves DEF Moving, Waiting, Policy!Movers
<1>3. DOMAIN m_mapStateChains \subseteq Int
  BY ChainTypes
<1>4. QED
  BY <1>2, <1>3 DEF Moving

LEMMA WalkVerdict ==
  ASSUME TypeOK, pc # "idle", it > Len(m_mapStateChains), StateCodeInv
  PROVE  stCode = Policy!StateVerdict(iMsgID, pPayload)
<1> DEFINE movers == Policy!Movers(iMsgID, pPayload)
<1>1. Moving(it) = movers /\ movers \in SUBSET Int
  BY WholeWalk
<1>2. CASE movers = {}
  BY <1>1, <1>2, SameCodes DEF StateCodeInv, Policy!StateVerdict
<1>3. CASE movers # {}
  <2>1. PICK k \in movers : /\ IsLast(k, movers)
                            /\ stCode = decodeAction(Waiting(k).action)
    BY <1>1, <1>3 DEF StateCodeInv
  <2> DEFINE last == CHOOSE i \in movers : \A j \in movers : j <= i
  <2>2. last = k
    BY <1>1, <2>1, ChooseLast
  <2>3. Policy!StateVerdict(iMsgID, pPayload)
          = Policy!decodeAction(m_mapStateChains[last][posAtCall[last]].action)
    BY <1>3 DEF Policy!StateVerdict
  <2> HIDE DEF last
  <2>4. QED
    BY <2>1, <2>2, <2>3, SameOperators DEF Waiting
<1>4. QED
  BY <1>2, <1>3

LEMMA WalkText ==
  ASSUME TypeOK, pc # "idle", it > Len(m_mapStateChains), StateTextInv
  PROVE  m_sLogMessage = Policy!FinalText(iMsgID, pPayload)
<1> DEFINE texts == {k \in Policy!Movers(iMsgID, pPayload) :
                       m_mapStateChains[k][posAtCall[k]].logMessage # NoText}
<1>1. Texted(it) = texts /\ texts \in SUBSET Int
  BY WholeWalk DEF Texted, Waiting
<1>2. texts = {k \in Policy!Movers(iMsgID, pPayload) :
                 m_mapStateChains[k][(IF pc = "idle" THEN Positions ELSE posAtCall)[k]].logMessage
                   # Policy!NoText}
  BY SameTexts
<1>3. CASE texts = {}
  BY <1>1, <1>2, <1>3 DEF StateTextInv, Policy!FinalText
<1>4. CASE texts # {}
  <2>1. PICK k \in texts : /\ IsLast(k, texts)
                           /\ m_sLogMessage = Waiting(k).logMessage
    BY <1>1, <1>4 DEF StateTextInv
  <2> DEFINE last == CHOOSE i \in texts : \A j \in texts : j <= i
  <2>2. last = k
    BY <1>1, <2>1, ChooseLast
  <2>3. Policy!FinalText(iMsgID, pPayload)
          = m_mapStateChains[last][posAtCall[last]].logMessage
    BY <1>2, <1>4 DEF Policy!FinalText
  <2> HIDE DEF last
  <2>4. QED
    BY <2>1, <2>2, <2>3 DEF Waiting
<1>5. QED
  BY <1>3, <1>4

(* One iteration of permitStateChain's loop: the chain it handles becomes  *)
(* the last one passed.                                                    *)
LEMMA WalkStep ==
  ASSUME TypeInv, MoveInv, VerdictInv, permitStateChain
  PROVE  VerdictInv'
<1> USE DEF config, frame, result
<1> DEFINE chain == m_mapStateChains[it]
           at    == m_lstStateInst[it]
<1>1. /\ TypeOK
      /\ it \in DOMAIN m_mapStateChains
      /\ DOMAIN m_mapStateChains \subseteq Int
      /\ it' = it + 1
      /\ pc = "stateChain" /\ pc' = "stateChain"
      /\ UNCHANGED <<m_mapRuleChains, m_mapStateChains, posAtCall, iMsgID, pPayload>>
  BY PositionsType, ChainTypes DEF permitStateChain, TypeInv, TypeOK
<1>2. at = posAtCall[it] /\ chain[at] = Waiting(it)
  BY <1>1 DEF MoveInv, Waiting
<1>3. \A k \in DOMAIN m_mapStateChains :
         k < it + 1 => RuleAt(m_mapStateChains[k], posAtCall[k]) # NULL
  <2>1. RuleAt(chain, at) # NULL
    BY DEF permitStateChain
  <2>2. QED
    BY <1>1, <1>2, <2>1 DEF VerdictInv
<1>4. /\ \A k : Waiting(k)' = Waiting(k)
      /\ Moving(it)' = Moving(it + 1) /\ Texted(it)' = Texted(it + 1)
      /\ Policy!RuleText(iMsgID, pPayload)' = Policy!RuleText(iMsgID, pPayload)
  BY <1>1 DEF Waiting, Moving, Texted, Policy!RuleText, Policy!Hits, Policy!Deciding
<1>5. /\ Moving(it) \subseteq DOMAIN m_mapStateChains
      /\ Texted(it) \subseteq Moving(it)
      /\ \A k \in Moving(it) : k < it
  BY DEF Moving, Texted
<1>6. CASE Satisfied(Waiting(it), iMsgID, pPayload)
  <2>1. /\ stCode' = decodeAction(Waiting(it).action)
        /\ m_sLogMessage' = TextOr(Waiting(it), m_sLogMessage)
    BY <1>2, <1>6 DEF permitStateChain
  <2>2. Moving(it + 1) = Moving(it) \cup {it}
    BY <1>1, <1>6 DEF Moving
  <2>3. IsLast(it, Moving(it + 1))
    BY <1>1, <1>5, <2>2 DEF IsLast
  <2>4. StateCodeInv'
    BY <1>1, <1>4, <2>1, <2>2, <2>3 DEF StateCodeInv, IsLast
  <2>5. CASE Waiting(it).logMessage # NoText
    <3>1. m_sLogMessage' = Waiting(it).logMessage
      BY <2>1, <2>5 DEF TextOr
    <3>2. Texted(it + 1) = Texted(it) \cup {it}
      BY <1>1, <2>2, <2>5 DEF Texted
    <3>3. IsLast(it, Texted(it + 1))
      BY <1>1, <1>5, <3>2 DEF IsLast
    <3>4. StateTextInv'
      BY <1>1, <1>4, <3>1, <3>2, <3>3 DEF StateTextInv, IsLast
    <3>5. QED
      BY <1>1, <1>3, <2>4, <3>4 DEF VerdictInv
  <2>6. CASE Waiting(it).logMessage = NoText
    <3>1. m_sLogMessage' = m_sLogMessage
      BY <2>1, <2>6 DEF TextOr
    <3>2. Texted(it + 1) = Texted(it)
      BY <1>1, <2>2, <2>6 DEF Texted
    <3>3. StateTextInv'
      BY <1>1, <1>4, <3>1, <3>2 DEF StateTextInv, VerdictInv, IsLast
    <3>4. QED
      BY <1>1, <1>3, <2>4, <3>3 DEF VerdictInv
  <2>7. QED
    BY <2>5, <2>6
<1>7. CASE ~Satisfied(Waiting(it), iMsgID, pPayload)
  <2>1. UNCHANGED <<stCode, m_sLogMessage>>
    BY <1>2, <1>7 DEF permitStateChain
  <2>2. Moving(it + 1) = Moving(it)
    BY <1>1, <1>7 DEF Moving
  <2>3. Texted(it + 1) = Texted(it)
    BY <2>2 DEF Texted
  <2>4. StateCodeInv' /\ StateTextInv'
    BY <1>1, <1>4, <2>1, <2>2, <2>3 DEF StateCodeInv, StateTextInv, VerdictInv, IsLast
  <2>5. QED
    BY <1>1, <1>3, <2>4 DEF VerdictInv
<1>8. QED
  BY <1>6, <1>7

LEMMA VerdictInit == Init => VerdictInv
BY DEF Init, VerdictInv

LEMMA VerdictNext ==
  TypeInv /\ RuleInv /\ MoveInv /\ VerdictInv /\ [Next]_vars => VerdictInv'
<1> SUFFICES ASSUME TypeInv, RuleInv, MoveInv, VerdictInv, [Next]_vars PROVE VerdictInv'
  OBVIOUS
<1> USE DEF config, frame, result
<1>0. TypeOK
  BY DEF TypeInv
<1>1. ASSUME NEW id \in MsgIds, NEW payload \in Payloads, permitMessage(id, payload)
      PROVE  VerdictInv'
  <2>1. /\ UNCHANGED m_mapRuleChains
        /\ m_sLogMessage' = IllegalText
        /\ iMsgID' = id /\ pPayload' = payload
        /\ pc' = IF id \in DOMAIN m_mapRuleChains THEN "ruleChain" ELSE "stateInit"
    BY <1>1 DEF permitMessage
  <2>2. id \notin DOMAIN m_mapRuleChains
          => Policy!RuleText(iMsgID, pPayload)' = IllegalText
    BY <2>1, SameTexts DEF Policy!RuleText, Policy!Hits
  <2>3. QED
    BY <2>1, <2>2 DEF VerdictInv
<1>2. CASE permitRuleChain
  <2> DEFINE chain == m_mapRuleChains[iMsgID]
  <2>1. /\ iMsgID \in DOMAIN m_mapRuleChains
        /\ chain \in Chain
        /\ it \in Nat \ {0}
        /\ pc = "ruleChain" /\ m_sLogMessage = IllegalText
        /\ UNCHANGED <<m_mapRuleChains, iMsgID, pPayload>>
    BY <1>0, <1>2, ChainTypes DEF permitRuleChain, TypeInv, TypeOK, VerdictInv
  <2>2. Policy!RuleText(iMsgID, pPayload)' = Policy!RuleText(iMsgID, pPayload)
    BY <2>1 DEF Policy!RuleText, Policy!Hits, Policy!Deciding
  <2>3. CASE it > Len(chain)
    <3>1. \A j \in DOMAIN chain : ~Hit(chain[j], pPayload)
      BY <2>1, <2>3 DEF RuleInv, Chain
    <3>2. Policy!Hits(iMsgID, pPayload) = {}
      BY <3>1, SameOperators DEF Policy!Hits
    <3>3. pc' = "stateInit" /\ m_sLogMessage' = m_sLogMessage
      BY <1>2, <2>1, <2>3 DEF permitRuleChain, Chain
    <3>4. QED
      BY <2>1, <2>2, <3>2, <3>3, NoHitText DEF VerdictInv
  <2>4. CASE it <= Len(chain) /\ Hit(chain[it], pPayload)
    <3>1. it \in DOMAIN chain
      BY <2>1, <2>4 DEF Chain
    <3>2. Policy!RuleText(iMsgID, pPayload) = TextOr(chain[it], IllegalText)
      BY <2>1, <2>4, <3>1, FirstHitText DEF RuleInv
    <3>3. pc' = "stateInit" /\ m_sLogMessage' = TextOr(chain[it], m_sLogMessage)
      BY <1>2, <2>1, <2>4 DEF permitRuleChain, Chain
    <3>4. QED
      BY <2>1, <2>2, <3>2, <3>3 DEF VerdictInv
  <2>5. CASE it <= Len(chain) /\ ~Hit(chain[it], pPayload)
    <3>1. UNCHANGED <<pc, m_sLogMessage>>
      BY <1>2, <2>1, <2>5 DEF permitRuleChain, Chain
    <3>2. QED
      BY <2>1, <3>1 DEF VerdictInv
  <2>6. QED
    BY <2>1, <2>3, <2>4, <2>5 DEF Chain
<1>3. CASE checkStatefulInit
  <2>1. /\ UNCHANGED <<m_mapRuleChains, m_mapStateChains, m_sLogMessage, iMsgID,
                       pPayload, posAtCall>>
        /\ stCode' = FWCORE_PROC_PERMIT /\ it' = 1
        /\ pc = "stateInit" /\ pc' = "stateChain"
    BY <1>3 DEF checkStatefulInit
  <2>2. Policy!RuleText(iMsgID, pPayload)' = Policy!RuleText(iMsgID, pPayload)
    BY <2>1 DEF Policy!RuleText, Policy!Hits, Policy!Deciding
  <2>3. \A k \in DOMAIN m_mapStateChains : ~(k < 1)
    BY <1>0, ChainTypes
  <2>4. Moving(it)' = {} /\ Texted(it)' = {}
    BY <2>1, <2>3 DEF Moving, Texted
  <2>5. QED
    BY <2>1, <2>2, <2>3, <2>4 DEF VerdictInv, StateCodeInv, StateTextInv
<1>4. CASE permitStateChain
  BY <1>0, <1>4, WalkStep
<1>5. CASE processNewID
  <2>1. /\ UNCHANGED <<m_mapRuleChains, m_mapStateChains, m_sLogMessage, stCode, iMsgID,
                       pPayload, posAtCall>>
        /\ it > Len(m_mapStateChains)
        /\ pc = "stateChain" /\ pc' = "decide"
    BY <1>0, <1>5, PositionsType DEF processNewID, TypeInv
  <2>2. /\ Policy!StateVerdict(iMsgID, pPayload)' = Policy!StateVerdict(iMsgID, pPayload)
        /\ Policy!FinalText(iMsgID, pPayload)' = Policy!FinalText(iMsgID, pPayload)
    BY <2>1 DEF Policy!StateVerdict, Policy!FinalText, Policy!Movers, Policy!RuleText,
                Policy!Hits, Policy!Deciding
  <2>3. \A k \in DOMAIN m_mapStateChains :
           RuleAt(m_mapStateChains[k], posAtCall[k]) # NULL
    BY <1>0, <2>1, ChainTypes DEF VerdictInv, TypeOK
  <2>4. ~Policy!Dangling'
    BY <2>1, <2>3, SameTexts DEF Policy!Dangling
  <2>5. QED
    BY <1>0, <2>1, <2>2, <2>4, WalkVerdict, WalkText DEF VerdictInv
<1>6. CASE dereferenceNullRule \/ dropUndefined \/ returnVerdict
  BY <1>6 DEF dereferenceNullRule, dropUndefined, returnVerdict, VerdictInv
<1>7. CASE UNCHANGED vars
  <2>1. /\ Policy!RuleText(iMsgID, pPayload)' = Policy!RuleText(iMsgID, pPayload)
        /\ Policy!StateVerdict(iMsgID, pPayload)' = Policy!StateVerdict(iMsgID, pPayload)
        /\ Policy!FinalText(iMsgID, pPayload)' = Policy!FinalText(iMsgID, pPayload)
        /\ Policy!Dangling' = Policy!Dangling
    BY <1>7 DEF vars, Policy!StateVerdict, Policy!FinalText, Policy!Movers, Policy!RuleText,
                Policy!Hits, Policy!Deciding, Policy!Dangling, Positions
  <2>2. /\ StateCodeInv' = StateCodeInv /\ StateTextInv' = StateTextInv
    BY <1>7, <2>1 DEF vars, StateCodeInv, StateTextInv, Moving, Texted, Waiting
  <2>3. QED
    BY <1>7, <2>1, <2>2 DEF vars, VerdictInv
<1>8. QED
  BY <1>1, <1>2, <1>3, <1>4, <1>5, <1>6, <1>7 DEF Next, Step

LEMMA VerdictInvariant == Spec => []VerdictInv
BY TypeInvariant, RuleInvariant, MoveInvariant, VerdictInit, VerdictNext, PTL DEF Spec

-----------------------------------------------------------------------------
(* The steps of the loops against those of the policy.                     *)
LEMMA PolicyInit == Init => Policy!Init
BY DEF Init, Policy!Init, Positions

(* Up to the decision nothing the policy sees changes.                     *)
LEMMA CallStutters ==
  ASSUME MoveInv,
         \/ \E id \in MsgIds, payload \in Payloads : permitMessage(id, payload)
         \/ permitRuleChain \/ checkStatefulInit \/ permitStateChain \/ processNewID
         \/ UNCHANGED vars
  PROVE  UNCHANGED Policy!vars
<1> USE DEF config, frame, result
<1>1. ASSUME NEW id \in MsgIds, NEW payload \in Payloads, permitMessage(id, payload)
      PROVE  UNCHANGED Policy!vars
  BY <1>1 DEF permitMessage, Policy!vars, Positions
<1>2. CASE permitRuleChain \/ checkStatefulInit \/ permitStateChain \/ processNewID
  BY <1>2 DEF permitRuleChain, checkStatefulInit, permitStateChain, processNewID, Policy!vars
<1>3. CASE UNCHANGED vars
  BY <1>3 DEF vars, Policy!vars, Positions
<1>4. QED
  BY <1>1, <1>2, <1>3

(* A rule that is not there, met in the loop, is one the policy sees.      *)
LEMMA NullRuleDies ==
  ASSUME TypeInv, MoveInv, dereferenceNullRule
  PROVE  Policy!Die(iMsgID, pPayload)
<1>1. /\ TypeOK
      /\ it \in DOMAIN m_mapStateChains
      /\ RuleAt(m_mapStateChains[it], m_lstStateInst[it]) = NULL
      /\ pc = "stateChain" /\ pc' = "crashed"
  BY PositionsType, ChainTypes DEF dereferenceNullRule, TypeInv, TypeOK
<1>2. m_lstStateInst[it] = posAtCall[it]
  BY <1>1, ChainTypes DEF MoveInv, TypeOK
<1>3. Policy!Dangling
  BY <1>1, <1>2, SameTexts DEF Policy!Dangling
<1>4. QED
  BY <1>1, <1>3 DEF dereferenceNullRule, Policy!Die, config, frame, result

(* The decision is the policy's step: its verdict, its lines, its move.    *)
LEMMA DropUndefinedImplements ==
  ASSUME TypeInv, RuleInv, MoveInv, VerdictInv, dropUndefined
  PROVE  \/ Policy!Permit(iMsgID, pPayload, frCode)
         \/ Policy!Die(iMsgID, pPayload)
<1> USE DEF config, frame, result
<1>1. /\ pc = "decide"
      /\ retCode = FWCORE_PROC_CHAINUNDEFINED
      /\ Policy!RuleVerdict(iMsgID, pPayload) = FWCORE_PROC_CHAINUNDEFINED
      /\ UNCHANGED <<config, m_lstStateInst, posAtCall>>
  BY DEF dropUndefined, RuleInv, FirstMatchDecides
<1>2. Policy!NeedsLogger(iMsgID, pPayload)
  BY <1>1, SameOperators DEF Policy!NeedsLogger
<1>3. CASE ~useTPM
  BY <1>1, <1>2, <1>3 DEF dropUndefined, Policy!Die
<1>4. CASE useTPM
  <2>1. /\ pc' = "idle"
        /\ returned' = FWCORE_PROC_DROP_LOG
        /\ logged' = <<m_sLogMessage>>
    BY <1>4 DEF dropUndefined
  <2>2. Positions' = Policy!PosAfter(iMsgID, pPayload)
    <3>1. Positions' = Positions
      BY <1>1 DEF Positions
    <3>2. Positions = m_lstStateInst
      BY <1>1 DEF TypeInv
    <3>3. QED
      BY <1>1, <3>1, <3>2 DEF MoveInv, EachChainMovesOnce
  <2>3. Policy!Verdict(iMsgID, pPayload) = FWCORE_PROC_DROP_LOG
    BY <1>1, SameOperators, SameCodes DEF Policy!Verdict
  <2>4. Policy!Lines(iMsgID, pPayload, frCode) = <<m_sLogMessage>>
    <3>1. Policy!Lines(iMsgID, pPayload, frCode)
            = <<Policy!FinalText(iMsgID, pPayload)>> \o <<>>
      BY <1>1, <2>3, SameOperators, SameCodes DEF Policy!Lines, LogCodes
    <3>2. m_sLogMessage = Policy!FinalText(iMsgID, pPayload)
      BY <1>1 DEF VerdictInv
    <3>3. <<m_sLogMessage>> \o <<>> = <<m_sLogMessage>>
      OBVIOUS
    <3>4. QED
      BY <3>1, <3>2, <3>3
  <2>5. ~Policy!Dangling
    BY <1>1 DEF VerdictInv
  <2>6. QED
    BY <1>1, <1>4, <2>1, <2>2, <2>3, <2>4, <2>5 DEF Policy!Permit
<1>5. QED
  BY <1>3, <1>4

LEMMA ReturnVerdictImplements ==
  ASSUME TypeInv, RuleInv, MoveInv, VerdictInv, returnVerdict
  PROVE  Policy!Permit(iMsgID, pPayload, frCode)
<1> USE DEF config, frame, result
<1>1. /\ pc = "decide" /\ pc' = "idle"
      /\ retCode # FWCORE_PROC_CHAINUNDEFINED
      /\ Policy!RuleVerdict(iMsgID, pPayload) = retCode
      /\ Policy!StateVerdict(iMsgID, pPayload) = stCode
      /\ Policy!FinalText(iMsgID, pPayload) = m_sLogMessage
      /\ ~Policy!Dangling
      /\ UNCHANGED <<config, m_lstStateInst, posAtCall>>
  BY DEF returnVerdict, RuleInv, FirstMatchDecides, VerdictInv
<1>2. Positions' = Policy!PosAfter(iMsgID, pPayload)
  <2>1. Positions' = Positions
    BY <1>1 DEF Positions
  <2>2. Positions = m_lstStateInst
    BY <1>1 DEF TypeInv
  <2>3. QED
    BY <1>1, <2>1, <2>2 DEF MoveInv, EachChainMovesOnce
<1>3. Policy!Verdict(iMsgID, pPayload) = FinalCode
  BY <1>1, SameOperators, SameCodes DEF Policy!Verdict, FinalCode
<1>4. Policy!Lines(iMsgID, pPayload, frCode) = logged'
  BY <1>1, <1>3, SameOperators, SameCodes, SameTexts DEF Policy!Lines, returnVerdict
<1>5. returned' = FinalCode
  BY DEF returnVerdict
<1>6. ~Policy!NeedsLogger(iMsgID, pPayload)
  BY <1>1, SameOperators DEF Policy!NeedsLogger
<1>7. QED
  BY <1>1, <1>2, <1>3, <1>4, <1>5, <1>6 DEF Policy!Permit

LEMMA PolicyNext ==
  TypeInv /\ RuleInv /\ MoveInv /\ VerdictInv /\ [Next]_vars => [Policy!Next]_(Policy!vars)
<1> SUFFICES ASSUME TypeInv, RuleInv, MoveInv, VerdictInv, [Next]_vars
             PROVE  [Policy!Next]_(Policy!vars)
  OBVIOUS
<1>1. iMsgID \in MsgIds /\ pPayload \in Payloads /\ frCode \in Policy!FreqCodes
  BY SameCodes DEF TypeInv, TypeOK
<1>2. CASE \/ \E id \in MsgIds, payload \in Payloads : permitMessage(id, payload)
           \/ permitRuleChain \/ checkStatefulInit \/ permitStateChain \/ processNewID
           \/ UNCHANGED vars
  BY <1>2, CallStutters
<1>3. CASE dereferenceNullRule
  BY <1>1, <1>3, NullRuleDies DEF Policy!Next
<1>4. CASE dropUndefined
  BY <1>1, <1>4, DropUndefinedImplements DEF Policy!Next
<1>5. CASE returnVerdict
  BY <1>1, <1>5, ReturnVerdictImplements DEF Policy!Next
<1>6. QED
  BY <1>2, <1>3, <1>4, <1>5 DEF Next, Step

(* permitMessage implements the one-step policy for every rule file: what  *)
(* its loops and in-place iterators return, log and move for one frame is  *)
(* what the policy says for it, and the process dies only on a rule or a   *)
(* logger the policy says is missing.                                      *)
THEOREM Refinement == Spec => ImplementsPolicy
BY TypeInvariant, RuleInvariant, MoveInvariant, VerdictInvariant, PolicyInit, PolicyNext,
   PTL DEF Spec, ImplementsPolicy, Policy!Spec


-----------------------------------------------------------------------------
(* How many steps a call has still before it, at most: the rest of the     *)
(* loop it is in, and what follows that loop.                              *)
Remaining ==
  CASE pc = "ruleChain"  -> (Len(m_mapRuleChains[iMsgID]) - it) + Len(m_mapStateChains) + 5
    [] pc = "stateInit"  -> Len(m_mapStateChains) + 3
    [] pc = "stateChain" -> (Len(m_mapStateChains) - it) + 3
    [] pc = "decide"     -> 1
    [] OTHER             -> 0

(* Neither loop goes beyond the end of the list it walks.                  *)
LoopInv ==
  /\ pc = "ruleChain"  => it <= Len(m_mapRuleChains[iMsgID]) + 1
  /\ pc = "stateChain" => it <= Len(m_mapStateChains) + 1

InCall == pc \notin {"idle", "crashed"}

(* The lists of the loops have lengths, and the instances are as many as   *)
(* the state chains.                                                       *)
LEMMA LoopLengths ==
  ASSUME TypeInv
  PROVE  /\ Len(m_mapStateChains) \in Nat
         /\ pc = "ruleChain" => Len(m_mapRuleChains[iMsgID]) \in Nat
         /\ pc = "stateChain" => Len(m_lstStateInst) = Len(m_mapStateChains)
         /\ it \in Nat \ {0}
<1>1. TypeOK
  BY DEF TypeInv
<1>2. Len(m_mapStateChains) \in Nat
  BY <1>1, ChainTypes
<1>3. pc = "ruleChain" => Len(m_mapRuleChains[iMsgID]) \in Nat
  BY <1>1, ChainTypes DEF TypeInv, Chain
<1>4. pc = "stateChain" => Len(m_lstStateInst) = Len(m_mapStateChains)
  BY <1>1, PositionsType DEF TypeInv
<1>5. QED
  BY <1>1, <1>2, <1>3, <1>4 DEF TypeOK

LEMMA LoopNext == TypeInv /\ LoopInv /\ [Next]_vars => LoopInv'
<1> SUFFICES ASSUME TypeInv, LoopInv, [Next]_vars PROVE LoopInv'
  OBVIOUS
<1> USE DEF config, frame, result
<1>0. PICK s \in Nat : s = Len(m_mapStateChains)
  BY LoopLengths
<1>1. ASSUME NEW id \in MsgIds, NEW payload \in Payloads, permitMessage(id, payload)
      PROVE  LoopInv'
  <2>1. /\ it' = 1 /\ iMsgID' = id
        /\ m_mapRuleChains' = m_mapRuleChains
        /\ pc' = IF id \in DOMAIN m_mapRuleChains THEN "ruleChain" ELSE "stateInit"
    BY <1>1 DEF permitMessage
  <2>2. id \in DOMAIN m_mapRuleChains => Len(m_mapRuleChains[id]) \in Nat
    BY ChainTypes DEF TypeInv, Chain
  <2>3. QED
    BY <2>1, <2>2 DEF LoopInv
<1>2. CASE permitRuleChain
  <2>1. PICK n \in Nat : n = Len(m_mapRuleChains[iMsgID])
    BY <1>2, LoopLengths DEF permitRuleChain
  <2>2. /\ m_mapRuleChains' = m_mapRuleChains /\ iMsgID' = iMsgID
        /\ \/ pc' = "stateInit"
           \/ pc' = "ruleChain" /\ it <= n /\ it' = it + 1
    BY <1>2, <2>1 DEF permitRuleChain
  <2>3. QED
    BY <2>1, <2>2, LoopLengths DEF LoopInv
<1>3. CASE checkStatefulInit
  BY <1>0, <1>3 DEF checkStatefulInit, LoopInv
<1>4. CASE permitStateChain
  <2>1. /\ m_mapStateChains' = m_mapStateChains /\ pc' = "stateChain"
        /\ it' = it + 1 /\ it <= s
    BY <1>0, <1>4, LoopLengths DEF permitStateChain
  <2>2. QED
    BY <1>0, <2>1, LoopLengths DEF LoopInv
<1>5. CASE dereferenceNullRule \/ processNewID \/ dropUndefined \/ returnVerdict
  BY <1>5 DEF dereferenceNullRule, processNewID, dropUndefined, returnVerdict, LoopInv
<1>6. CASE UNCHANGED vars
  BY <1>6 DEF vars, LoopInv
<1>7. QED
  BY <1>1, <1>2, <1>3, <1>4, <1>5, <1>6 DEF Next, Step

LEMMA RemainingIsNumber == TypeInv /\ LoopInv => Remaining \in Nat
<1> SUFFICES ASSUME TypeInv, LoopInv PROVE Remaining \in Nat
  OBVIOUS
<1>0. PICK s \in Nat : s = Len(m_mapStateChains)
  BY LoopLengths
<1>1. CASE pc = "ruleChain"
  <2>1. PICK n \in Nat : n = Len(m_mapRuleChains[iMsgID])
    BY <1>1, LoopLengths
  <2>2. it \in Nat /\ it <= n + 1
    BY <1>1, <2>1, LoopLengths DEF LoopInv
  <2>3. Remaining = (n - it) + s + 5
    BY <1>0, <1>1, <2>1 DEF Remaining
  <2>4. QED
    BY <2>2, <2>3
<1>2. CASE pc = "stateChain"
  <2>1. it \in Nat /\ it <= s + 1
    BY <1>0, <1>2, LoopLengths DEF LoopInv
  <2>2. Remaining = (s - it) + 3
    BY <1>0, <1>2 DEF Remaining
  <2>3. QED
    BY <2>1, <2>2
<1>3. CASE pc \notin {"ruleChain", "stateChain"}
  BY <1>0, <1>3 DEF Remaining
<1>4. QED
  BY <1>1, <1>2, <1>3

LEMMA RemainingDecreases ==
  TypeInv /\ LoopInv /\ InCall /\ Next => Remaining' < Remaining
<1> SUFFICES ASSUME TypeInv, LoopInv, InCall, Next PROVE Remaining' < Remaining
  OBVIOUS
<1> USE DEF config, frame, result
<1>0. PICK s \in Nat : s = Len(m_mapStateChains)
  BY LoopLengths
<1>1. Step
  BY DEF InCall, Next, permitMessage
<1>2. CASE permitRuleChain
  <2>1. PICK n \in Nat : n = Len(m_mapRuleChains[iMsgID])
    BY <1>2, LoopLengths DEF permitRuleChain
  <2>2. it \in Nat /\ it <= n + 1
    BY <1>2, <2>1, LoopLengths DEF LoopInv, permitRuleChain
  <2>3. Remaining = (n - it) + s + 5
    BY <1>0, <1>2, <2>1 DEF Remaining, permitRuleChain
  <2>4. /\ m_mapRuleChains' = m_mapRuleChains /\ m_mapStateChains' = m_mapStateChains
        /\ iMsgID' = iMsgID
        /\ \/ pc' = "stateInit"
           \/ pc' = "ruleChain" /\ it' = it + 1
    BY <1>2 DEF permitRuleChain
  <2>5. CASE pc' = "stateInit"
    <3>1. Remaining' = s + 3
      BY <1>0, <2>4, <2>5 DEF Remaining
    <3>2. QED
      BY <2>2, <2>3, <3>1
  <2>6. CASE pc' = "ruleChain" /\ it' = it + 1
    <3>1. Remaining' = (n - (it + 1)) + s + 5
      BY <1>0, <2>1, <2>4, <2>6 DEF Remaining
    <3>2. QED
      BY <2>2, <2>3, <3>1
  <2>7. QED
    BY <2>4, <2>5, <2>6
<1>3. CASE checkStatefulInit
  <2>1. Remaining = s + 3
    BY <1>0, <1>3 DEF Remaining, checkStatefulInit
  <2>2. Remaining' = (s - 1) + 3
    BY <1>0, <1>3 DEF Remaining, checkStatefulInit
  <2>3. QED
    BY <2>1, <2>2
<1>4. CASE permitStateChain \/ dereferenceNullRule \/ processNewID
  <2>1. it \in Nat /\ it <= s + 1
    BY <1>0, <1>4, LoopLengths DEF LoopInv, permitStateChain, dereferenceNullRule, processNewID
  <2>2. Remaining = (s - it) + 3
    BY <1>0, <1>4 DEF Remaining, permitStateChain, dereferenceNullRule, processNewID
  <2>3. CASE permitStateChain
    <3>1. Remaining' = (s - (it + 1)) + 3
      BY <1>0, <2>3 DEF Remaining, permitStateChain
    <3>2. QED
      BY <2>1, <2>2, <3>1
  <2>4. CASE dereferenceNullRule
    <3>1. Remaining' = 0
      BY <2>4 DEF Remaining, dereferenceNullRule
    <3>2. QED
      BY <2>1, <2>2, <3>1
  <2>5. CASE processNewID
    <3>1. Remaining' = 1
      BY <2>5 DEF Remaining, processNewID
    <3>2. QED
      BY <2>1, <2>2, <3>1
  <2>6. QED
    BY <1>4, <2>3, <2>4, <2>5
<1>5. CASE dropUndefined \/ returnVerdict
  <2>1. Remaining = 1
    BY <1>5 DEF Remaining, dropUndefined, returnVerdict
  <2>2. Remaining' = 0
    BY <1>5 DEF Remaining, dropUndefined, returnVerdict
  <2>3. QED
    BY <2>1, <2>2
<1>6. QED
  BY <1>1, <1>2, <1>3, <1>4, <1>5 DEF Step

(* A call of permitMessage ends: whatever happens while it runs brings it  *)
(* nearer to its end, by a number of steps that the lengths of the chains  *)
(* bound, so no rule file makes its loops run for ever.                    *)
THEOREM CallsAreFinite ==
  Spec => [](Remaining \in Nat) /\ [][InCall => Remaining' < Remaining]_vars
<1>1. Init => LoopInv
  BY DEF Init, LoopInv
<1>2. TypeInv /\ LoopInv /\ [Next]_vars => [InCall => Remaining' < Remaining]_vars
  BY RemainingDecreases
<1>3. QED
  BY <1>1, <1>2, LoopNext, RemainingIsNumber, TypeInvariant, PTL DEF Spec
=============================================================================
