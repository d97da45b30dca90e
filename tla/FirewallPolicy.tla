--------------------------- MODULE FirewallPolicy ---------------------------
(***************************************************************************)
(* What RuleRunner promises for one frame, said without loops: the verdict *)
(* of the first entry that decides in the frame's rule chain, overridden   *)
(* by a dropping verdict of the last state chain the frame advances, every *)
(* state chain whose current element the frame satisfies moving by one.    *)
(* One step handles one frame.                                             *)
(***************************************************************************)
EXTENDS RuleConfig

VARIABLES
  ruleChains,    (* CAN id -> chain                                        *)
  stateChains,   (* the state chains, in map order                         *)
  secureLog,     (* a secure logger is configured                          *)
  freqProc,      (* the frequency processor is configured                  *)
  pos,           (* element each state chain waits for                     *)
  alive,         (* the process has not been killed by a bad dereference   *)
  outcome        (* verdict and log lines of the last frame                *)

vars == <<ruleChains, stateChains, secureLog, freqProc, pos, alive, outcome>>

-----------------------------------------------------------------------------
(* Indices of the entries of the frame's rule chain that would decide it.  *)
Hits(id, payload) ==
  IF id \in DOMAIN ruleChains
  THEN {i \in DOMAIN ruleChains[id] : Hit(ruleChains[id][i], payload)}
  ELSE {}

(* The entry that does decide it: the first.                               *)
Deciding(id, payload) ==
  ruleChains[id][CHOOSE i \in Hits(id, payload) :
                   \A j \in Hits(id, payload) : i <= j]

RuleVerdict(id, payload) ==
  IF Hits(id, payload) = {}
  THEN FWCORE_PROC_CHAINUNDEFINED
  ELSE decodeAction(Deciding(id, payload).action)

RuleText(id, payload) ==
  IF Hits(id, payload) = {}
  THEN IllegalText
  ELSE TextOr(Deciding(id, payload), IllegalText)

-----------------------------------------------------------------------------
(* The state chains this frame advances, and where that leaves every chain.*)
Movers(id, payload) ==
  {k \in DOMAIN stateChains : Satisfied(stateChains[k][pos[k]], id, payload)}

PosAfter(id, payload) ==
  [k \in DOMAIN stateChains |->
     IF k \in Movers(id, payload) THEN Advance(stateChains[k], pos[k]) ELSE pos[k]]

(* Among several moving chains the last in map order has the say.          *)
StateVerdict(id, payload) ==
  LET movers == Movers(id, payload)
      last   == CHOOSE k \in movers : \A j \in movers : j <= k
  IN  IF movers = {}
      THEN FWCORE_PROC_PERMIT
      ELSE decodeAction(stateChains[last][pos[last]].action)

(* A moving chain replaces the text only when its element has one.         *)
FinalText(id, payload) ==
  LET texts == {k \in Movers(id, payload) :
                  stateChains[k][pos[k]].logMessage # NoText}
      last  == CHOOSE k \in texts : \A j \in texts : j <= k
  IN  IF texts = {}
      THEN RuleText(id, payload)
      ELSE stateChains[last][pos[last]].logMessage

-----------------------------------------------------------------------------
(* A frame no rule entry decides is dropped whatever the state chains say. *)
Verdict(id, payload) ==
  IF RuleVerdict(id, payload) = FWCORE_PROC_CHAINUNDEFINED
  THEN FWCORE_PROC_DROP_LOG
  ELSE IF StateVerdict(id, payload) \in DropCodes
  THEN StateVerdict(id, payload)
  ELSE RuleVerdict(id, payload)

(* The lines the frame leaves in the log: the text of a *_LOG verdict,     *)
(* then the frequency alarm; an undecided frame never gets the alarm.      *)
Lines(id, payload, freq) ==
  (IF Verdict(id, payload) \in LogCodes THEN <<FinalText(id, payload)>> ELSE <<>>)
  \o
  (IF /\ freqProc
      /\ freq = FWCORE_FREQ_BAD
      /\ RuleVerdict(id, payload) # FWCORE_PROC_CHAINUNDEFINED
   THEN <<FreqText>> ELSE <<>>)

(* A state chain stands on an element without a rule.                      *)
Dangling == \E k \in DOMAIN stateChains : RuleAt(stateChains[k], pos[k]) = NULL

(* The frame needs the secure logger unconditionally: no rule decides it.  *)
NeedsLogger(id, payload) ==
  RuleVerdict(id, payload) = FWCORE_PROC_CHAINUNDEFINED

-----------------------------------------------------------------------------
Init ==
  /\ ruleChains \in RuleChainMaps
  /\ stateChains \in StateChainMaps
  /\ secureLog \in BOOLEAN
  /\ freqProc \in BOOLEAN
  /\ pos = [k \in DOMAIN stateChains |-> 1]
  /\ alive = TRUE
  /\ outcome = [verdict |-> 0, lines |-> <<>>]

Permit(id, payload, freq) ==
  /\ alive
  /\ ~Dangling
  /\ secureLog \/ ~NeedsLogger(id, payload)
  /\ pos' = PosAfter(id, payload)
  /\ outcome' = [verdict |-> Verdict(id, payload),
                 lines   |-> Lines(id, payload, freq)]
  /\ UNCHANGED <<ruleChains, stateChains, secureLog, freqProc, alive>>

(* The process dies only on one of the two dereferences named above.       *)
Die(id, payload) ==
  /\ alive
  /\ Dangling \/ (~secureLog /\ NeedsLogger(id, payload))
  /\ alive' = FALSE
  /\ UNCHANGED <<ruleChains, stateChains, secureLog, freqProc, pos, outcome>>

Next ==
  \E id \in MsgIds, payload \in Payloads :
    \/ \E freq \in FreqCodes : Permit(id, payload, freq)
    \/ Die(id, payload)

Spec == Init /\ [][Next]_vars
=============================================================================
