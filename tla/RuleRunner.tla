----------------------------- MODULE RuleRunner -----------------------------
(***************************************************************************)
(* RuleRunner::permitMessage and the functions it calls, one loop          *)
(* iteration per step: the walk over the frame's rule chain, the lazy set  *)
(* up of the state chain instances, the walk over those instances with     *)
(* their iterators advanced in place, the call into the frequency          *)
(* processor, and the decision with its log lines.  Only the main thread   *)
(* runs this code; the notifier thread shares none of its state.           *)
(***************************************************************************)
EXTENDS RuleConfig

VARIABLES
  m_mapRuleChains,   (* parsed rule chains; fixed once loaded              *)
  m_mapStateChains,  (* parsed state chains, in map order; fixed           *)
  useTPM,            (* configuration: secureLog.  m_logger is assigned    *)
                     (* only when it is set and otherwise uninitialised    *)
  useFreqProc,       (* configuration: usesFreqProc                        *)
  m_lstStateInst,    (* currState of every chain instance; empty until the *)
                     (* first frame                                        *)
  m_sLogMessage,     (* text to log, kept in a member across the calls     *)
  pc,                (* where permitMessage stands                         *)
  iMsgID, pPayload,  (* the frame being handled, or handled last           *)
  it,                (* loop iterator                                      *)
  retCode, stCode,   (* results of the two walks                           *)
  frCode,            (* result of processNewID                             *)
  returned,          (* what permitMessage returned last; 0 before         *)
  logged,            (* lines that call handed to the logger, or printed   *)
  posAtCall          (* GHOST: chain positions when the call began         *)

config  == <<m_mapRuleChains, m_mapStateChains, useTPM, useFreqProc>>
frame   == <<iMsgID, pPayload, posAtCall>>
result  == <<returned, logged>>
vars    == <<config, m_lstStateInst, m_sLogMessage, pc, frame, it,
             retCode, stCode, frCode, result>>

(* Position of every state chain; the lists are set up at begin().         *)
Positions ==
  IF m_lstStateInst = <<>>
  THEN [k \in DOMAIN m_mapStateChains |-> 1]
  ELSE m_lstStateInst

-----------------------------------------------------------------------------
Init ==
  /\ m_mapRuleChains \in RuleChainMaps
  /\ m_mapStateChains \in StateChainMaps
  /\ useTPM \in BOOLEAN
  /\ useFreqProc \in BOOLEAN
  /\ m_lstStateInst = <<>>
  /\ m_sLogMessage = NoText
  /\ pc = "idle"
  /\ iMsgID \in MsgIds
  /\ pPayload \in Payloads
  /\ posAtCall = Positions
  /\ it = 1
  /\ retCode = FWCORE_PROC_CHAINUNDEFINED
  /\ stCode = FWCORE_PROC_PERMIT
  /\ frCode = 0
  /\ returned = 0
  /\ logged = <<>>

(* Entry of permitMessage and of permitRuleChain: the text is reset, the   *)
(* chain of the identifier looked up.                                      *)
permitMessage(id, payload) ==
  /\ pc = "idle"
  /\ iMsgID' = id
  /\ pPayload' = payload
  /\ posAtCall' = Positions
  /\ m_sLogMessage' = IllegalText
  /\ retCode' = FWCORE_PROC_CHAINUNDEFINED
  /\ it' = 1
  /\ pc' = IF id \in DOMAIN m_mapRuleChains THEN "ruleChain" ELSE "stateInit"
  /\ UNCHANGED <<config, m_lstStateInst, stCode, frCode, result>>

(* MUTANT of permitRuleChain: no break, the last match wins.               *)
permitRuleChainNoBreak ==
  /\ pc = "ruleChain"
  /\ LET chain == m_mapRuleChains[iMsgID] IN
     \/ /\ it > Len(chain)
        /\ pc' = "stateInit"
        /\ UNCHANGED <<it, retCode, m_sLogMessage>>
     \/ /\ it <= Len(chain)
        /\ Hit(chain[it], pPayload)
        /\ retCode' = decodeAction(chain[it].action)
        /\ m_sLogMessage' = TextOr(chain[it], m_sLogMessage)
        /\ it' = it + 1
        /\ UNCHANGED pc
     \/ /\ it <= Len(chain)
        /\ ~Hit(chain[it], pPayload)
        /\ it' = it + 1
        /\ UNCHANGED <<pc, retCode, m_sLogMessage>>
  /\ UNCHANGED <<config, m_lstStateInst, frame, stCode, frCode, result>>

(* One iteration of permitRuleChain's loop: the first default entry or     *)
(* matching rule decides and leaves the loop.                              *)
permitRuleChain ==
  /\ pc = "ruleChain"
  /\ LET chain == m_mapRuleChains[iMsgID] IN
     \/ /\ it > Len(chain)
        /\ pc' = "stateInit"
        /\ UNCHANGED <<it, retCode, m_sLogMessage>>
     \/ /\ it <= Len(chain)
        /\ Hit(chain[it], pPayload)
        /\ retCode' = decodeAction(chain[it].action)
        /\ m_sLogMessage' = TextOr(chain[it], m_sLogMessage)
        /\ pc' = "stateInit"
        /\ UNCHANGED it
     \/ /\ it <= Len(chain)
        /\ ~Hit(chain[it], pPayload)
        /\ it' = it + 1
        /\ UNCHANGED <<pc, retCode, m_sLogMessage>>
  /\ UNCHANGED <<config, m_lstStateInst, frame, stCode, frCode, result>>

(* MUTANT of checkStatefulInit: the instances are rebuilt on every frame.  *)
checkStatefulInitAlways ==
  /\ pc = "stateInit"
  /\ m_lstStateInst' = [k \in DOMAIN m_mapStateChains |-> 1]
  /\ stCode' = FWCORE_PROC_PERMIT
  /\ it' = 1
  /\ pc' = "stateChain"
  /\ UNCHANGED <<config, m_sLogMessage, frame, retCode, frCode, result>>

(* Entry of permitStateChain; the instances are created when none exist.   *)
checkStatefulInit ==
  /\ pc = "stateInit"
  /\ m_lstStateInst' = Positions
  /\ stCode' = FWCORE_PROC_PERMIT
  /\ it' = 1
  /\ pc' = "stateChain"
  /\ UNCHANGED <<config, m_sLogMessage, frame, retCode, frCode, result>>

(* One iteration of permitStateChain's loop over the instances.            *)
permitStateChain ==
  /\ pc = "stateChain"
  /\ it <= Len(m_lstStateInst)
  /\ LET chain == m_mapStateChains[it]
         at    == m_lstStateInst[it]
     IN
     /\ RuleAt(chain, at) # NULL
     /\ IF Satisfied(chain[at], iMsgID, pPayload)
        THEN /\ stCode' = decodeAction(chain[at].action)
             /\ m_sLogMessage' = TextOr(chain[at], m_sLogMessage)
             /\ m_lstStateInst' = [m_lstStateInst EXCEPT ![it] = Advance(chain, at)]
        ELSE UNCHANGED <<stCode, m_sLogMessage, m_lstStateInst>>
  /\ it' = it + 1
  /\ UNCHANGED <<config, pc, frame, retCode, frCode, result>>

(* rule->cid with a NULL rule kills the process.                           *)
dereferenceNullRule ==
  /\ pc = "stateChain"
  /\ it <= Len(m_lstStateInst)
  /\ RuleAt(m_mapStateChains[it], m_lstStateInst[it]) = NULL
  /\ pc' = "crashed"
  /\ UNCHANGED <<config, m_lstStateInst, m_sLogMessage, frame, it,
                 retCode, stCode, frCode, result>>

(* After the loop: fp->processNewID when there is a frequency processor.   *)
(* Without one frCode stays uninitialised; whatever it holds only reaches  *)
(* a printf, so the same choice of values stands for it.                   *)
processNewID ==
  /\ pc = "stateChain"
  /\ it > Len(m_lstStateInst)
  /\ frCode' \in FreqCodes
  /\ pc' = "decide"
  /\ UNCHANGED <<config, m_lstStateInst, m_sLogMessage, frame, it,
                 retCode, stCode, result>>

-----------------------------------------------------------------------------
(* MUTANT of FinalCode: any verdict of a state chain overrides a permit.   *)
FinalCodeAnyState == IF retCode \in DropCodes THEN retCode ELSE stCode

(* retCode after the state chain had its say.                              *)
FinalCode == IF stCode \in DropCodes THEN stCode ELSE retCode

(* No rule entry decided: the line goes to m_logger without looking at     *)
(* useTPM, and through a pointer nobody set when it is false.              *)
dropUndefined ==
  /\ pc = "decide"
  /\ retCode = FWCORE_PROC_CHAINUNDEFINED
  /\ IF useTPM
     THEN /\ logged' = <<m_sLogMessage>>
          /\ returned' = FWCORE_PROC_DROP_LOG
          /\ pc' = "idle"
     ELSE /\ pc' = "crashed"
          /\ UNCHANGED result
  /\ UNCHANGED <<config, m_lstStateInst, m_sLogMessage, frame, it,
                 retCode, stCode, frCode>>

(* A rule entry decided.  The code writes the same lines to the secure     *)
(* logger or, without one, to standard output.                             *)
returnVerdict ==
  /\ pc = "decide"
  /\ retCode # FWCORE_PROC_CHAINUNDEFINED
  /\ returned' = FinalCode
  /\ logged' =
       (IF FinalCode \in LogCodes THEN <<m_sLogMessage>> ELSE <<>>)
       \o (IF useFreqProc /\ frCode = FWCORE_FREQ_BAD THEN <<FreqText>> ELSE <<>>)
  /\ pc' = "idle"
  /\ UNCHANGED <<config, m_lstStateInst, m_sLogMessage, frame, it,
                 retCode, stCode, frCode>>

-----------------------------------------------------------------------------
(* permitMessage running to its return, once called.                       *)
Step ==
  \/ permitRuleChain
  \/ checkStatefulInit
  \/ permitStateChain
  \/ dereferenceNullRule
  \/ processNewID
  \/ dropUndefined
  \/ returnVerdict

Next ==
  \/ \E id \in MsgIds, payload \in Payloads : permitMessage(id, payload)
  \/ Step

Spec == Init /\ [][Next]_vars

-----------------------------------------------------------------------------
(* The atomic policy seen through this state: its positions are those at   *)
(* the entry of the call until the call returns.                           *)
Policy == INSTANCE FirewallPolicy WITH
  ruleChains  <- m_mapRuleChains,
  stateChains <- m_mapStateChains,
  secureLog   <- useTPM,
  freqProc    <- useFreqProc,
  pos         <- IF pc = "idle" THEN Positions ELSE posAtCall,
  alive       <- pc # "crashed",
  outcome     <- [verdict |-> returned, lines |-> logged]

(* Every variable has its type; iterators stay inside the lists they walk. *)
TypeOK ==
  /\ m_mapRuleChains \in RuleChainMaps
  /\ m_mapStateChains \in StateChainMaps
  /\ useTPM \in BOOLEAN
  /\ useFreqProc \in BOOLEAN
  /\ m_lstStateInst \in Seq(Nat \ {0})
  /\ m_lstStateInst # <<>> => Len(m_lstStateInst) = Len(m_mapStateChains)
  /\ m_sLogMessage \in LogLines \cup {NoText}
  /\ pc \in {"idle", "ruleChain", "stateInit", "stateChain", "decide", "crashed"}
  /\ iMsgID \in MsgIds
  /\ pPayload \in Payloads
  /\ posAtCall \in [DOMAIN m_mapStateChains -> Nat \ {0}]
  /\ it \in Nat \ {0}
  /\ retCode \in ProcCodes
  /\ stCode \in ProcCodes \ {FWCORE_PROC_CHAINUNDEFINED}
  /\ frCode \in FreqCodes
  /\ returned \in ProcCodes \cup {0}
  /\ logged \in Seq(LogLines)
  /\ \A k \in DOMAIN m_mapStateChains :
       Positions[k] \in DOMAIN m_mapStateChains[k] \cup {1}

(* Once the walk over the rule chain of a frame is over, its result is the *)
(* action of the first entry that decides the frame, or undefined when     *)
(* there is none, whatever the chain (permitRuleChain's loop, its early    *)
(* break and its default entry).                                           *)
FirstMatchDecides ==
  pc \in {"stateInit", "stateChain", "decide"} =>
    retCode = Policy!RuleVerdict(iMsgID, pPayload)

(* Handling one frame moves every state chain the frame satisfies by       *)
(* exactly one element and no other, measured from the positions at entry: *)
(* no chain is moved twice, skipped, or left at its end() iterator         *)
(* (permitStateChain's in-place ++currState and its reset).                *)
EachChainMovesOnce ==
  pc = "decide" => m_lstStateInst = Policy!PosAfter(iMsgID, pPayload)

(* With a secure logger and only non-empty state chains without default    *)
(* entries, no sequence of frames brings permitMessage to a dereference of *)
(* a missing rule or logger.                                               *)
SoundConfig ==
  /\ useTPM
  /\ \A k \in DOMAIN m_mapStateChains :
       /\ m_mapStateChains[k] # <<>>
       /\ \A i \in DOMAIN m_mapStateChains[k] : m_mapStateChains[k][i].rule # NULL

SoundConfigNeverCrashes == SoundConfig => pc # "crashed"

(* Every behaviour of the loops is a behaviour of the atomic policy: one   *)
(* verdict, one set of log lines and one move of the state chains a frame. *)
ImplementsPolicy == Policy!Spec
=============================================================================
