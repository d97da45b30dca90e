---------------------------- MODULE MCRuleRunner ----------------------------
(***************************************************************************)
(* Small rule files for RuleRunner: two identifiers, two payload classes,  *)
(* three rules.  The rule chains cover no chain, an empty chain, a chain   *)
(* without default, a default at the end and a default that hides a rule;  *)
(* the state chains cover none, a single element (reset at once), two      *)
(* chains that one frame advances with opposite verdicts, a default entry  *)
(* met only after a move, and an empty chain.  They are run with frames in *)
(* any order; beside them the rule file of the repository is run with the  *)
(* frames of its test program.                                             *)
(***************************************************************************)
EXTENDS MCFWTests

CONSTANTS a, b, p, q, r1, r2, r3

FreeIds      == {a, b}
FreePayloads == {p, q}

MCMsgIds   == FreeIds \cup TestMsgIds
MCPayloads == FreePayloads \cup TestPayloads
MCRules    == {r1, r2, r3} \cup TestRules
MCCid      == [r \in MCRules |->
                 IF r \in TestRules THEN TestCid[r] ELSE IF r = r3 THEN b ELSE a]
MCMatches  == {<<r1, p>>, <<r2, p>>, <<r2, q>>, <<r3, q>>} \cup TestMatches
MCLogTexts == {"t1", "t2"} \cup TestLogTexts

ChainsOfA ==
  { <<>>,
    <<E(r1, ACTION_PERMIT_LOG, "t1"), E(r2, ACTION_DROP, NoText)>>,
    <<E(r1, ACTION_DROP_LOG, NoText)>>,
    <<E(r1, ACTION_DROP, "t1"), E(NULL, ACTION_PERMIT, NoText)>>,
    <<E(NULL, ACTION_PERMIT_LOG, NoText), E(r1, ACTION_DROP, "t1")>> }

FreeRuleChainMaps ==
  {[id \in {a} |-> c] : c \in ChainsOfA}
  \cup {[id \in {a, b} |-> IF id = a THEN c ELSE <<E(r3, ACTION_PERMIT, NoText)>>]
          : c \in ChainsOfA}

Two   == <<E(r2, ACTION_PERMIT, "t2"), E(r3, ACTION_DROP_LOG, NoText)>>
One   == <<E(r1, ACTION_DROP, NoText)>>
Ends  == <<E(r1, ACTION_PERMIT, NoText), E(NULL, ACTION_DROP, NoText)>>

FreeStateChainMaps == { <<>>, <<Two>>, <<One, Two>>, <<Two, One>>, <<Ends, Two>>,
                        <<Two, <<>>>> }

MCRuleChainMaps  == FreeRuleChainMaps \cup TestRuleChainMaps
MCStateChainMaps == FreeStateChainMaps \cup TestStateChainMaps

-----------------------------------------------------------------------------
FreeInit ==
  /\ Init
  /\ m_mapRuleChains \in FreeRuleChainMaps
  /\ m_mapStateChains \in FreeStateChainMaps
  /\ iMsgID \in FreeIds /\ pPayload \in FreePayloads
  /\ call = -1

FreeCall ==
  /\ call = -1
  /\ \E id \in FreeIds, payload \in FreePayloads : permitMessage(id, payload)
  /\ UNCHANGED call

MCNext == FreeCall \/ TestCall \/ (Step /\ UNCHANGED call)

MCSpec == (FreeInit \/ TestInit) /\ [][MCNext]_<<vars, call>>
=============================================================================
