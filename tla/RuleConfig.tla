----------------------------- MODULE RuleConfig -----------------------------
(***************************************************************************)
(* What the rule file leaves in memory once it is parsed: the RULE         *)
(* objects, the rule chains keyed by CAN identifier and the state chains   *)
(* in the order of the std::map that holds them.  Payloads are classes of  *)
(* payload bytes; Matches says which rule's expression tree accepts which  *)
(* class (ExpressionTree is a module of its own).                          *)
(***************************************************************************)
EXTENDS FWCore, Sequences

CONSTANTS
  MsgIds,          (* CAN identifiers that appear on the bus               *)
  Payloads,        (* payload classes                                      *)
  Rules,           (* the RULE objects of m_lstRules                       *)
  Cid,             (* RULE.cid                                             *)
  Matches,         (* <<r, p>>: r->pExpTree->matchMessage accepts p        *)
  NULL,            (* the rule pointer of a <default> entry                *)
  LogTexts,        (* texts of "message" attributes                        *)
  RuleChainMaps,   (* candidates for m_mapRuleChains                       *)
  StateChainMaps   (* candidates for m_mapStateChains                      *)

(* enum CHAIN_ACTION                                                       *)
ACTION_PERMIT     == 0
ACTION_PERMIT_LOG == 1
ACTION_DROP       == 2
ACTION_DROP_LOG   == 3
ChainActions      == ACTION_PERMIT .. ACTION_DROP_LOG

(* An attribute that is absent leaves the empty string.                    *)
NoText == ""

(* permitMessage's own texts, one per kind.                                *)
IllegalText == "Found illegal CAN ID"
FreqText    == "Frequency out of range CAN ID"

LogLines == LogTexts \cup {IllegalText, FreqText}

(* std::pair<RULE*, ACTION_SET>; the pointer is NULL for <default>.        *)
Entry == [rule : Rules \cup {NULL}, action : ChainActions,
          logMessage : LogTexts \cup {NoText}]

Chain == Seq(Entry)

ASSUME ConfigAssumption ==
  /\ NULL \notin Rules
  /\ Cid \in [Rules -> MsgIds]
  /\ Matches \subseteq (Rules \X Payloads)
  /\ NoText \notin LogTexts
  /\ \A m \in RuleChainMaps :
       /\ DOMAIN m \subseteq MsgIds
       /\ m \in [DOMAIN m -> Chain]
  /\ \A m \in StateChainMaps : m \in Seq(Chain)

(* MUTANT of decodeAction: the enumerator is returned as it is.            *)
decodeActionRaw(action) == action

(* RuleRunner::decodeAction: anything but the first three is DROP_LOG.     *)
decodeAction(action) ==
  IF action = ACTION_PERMIT THEN FWCORE_PROC_PERMIT
  ELSE IF action = ACTION_PERMIT_LOG THEN FWCORE_PROC_PERMIT_LOG
  ELSE IF action = ACTION_DROP THEN FWCORE_PROC_DROP
  ELSE FWCORE_PROC_DROP_LOG

(* An entry of a rule chain decides the frame: the default entry, or a     *)
(* rule whose expression accepts the payload (the rule's cid is not read). *)
Hit(entry, payload) ==
  entry.rule = NULL \/ <<entry.rule, payload>> \in Matches

(* An entry of a state chain is satisfied by the frame.                    *)
Satisfied(entry, id, payload) ==
  Cid[entry.rule] = id /\ <<entry.rule, payload>> \in Matches

(* "Also store the log message (if there is one)".                         *)
TextOr(entry, old) ==
  IF entry.logMessage # NoText THEN entry.logMessage ELSE old

(* The rule the chain iterator stands on.  Dereferencing end() of an empty *)
(* std::list yields the list header, whose value area holds the size 0: a  *)
(* NULL rule.                                                              *)
RuleAt(chain, i) == IF i \in DOMAIN chain THEN chain[i].rule ELSE NULL

(* MUTANT of Advance: the chain is not reset at its end.                   *)
AdvanceNoReset(chain, i) == i + 1

(* ++currState, and back to begin() when that reaches end().               *)
Advance(chain, i) == IF i = Len(chain) THEN 1 ELSE i + 1
=============================================================================
