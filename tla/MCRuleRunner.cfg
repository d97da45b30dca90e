CONSTANTS
  a = a
  b = b
  p = p
  q = q
  r1 = r1
  r2 = r2
  r3 = r3
  NULL = NULL
  MsgIds <- MCMsgIds
  Payloads <- MCPayloads
  Rules <- MCRules
  Cid <- MCCid
  Matches <- MCMatches
  LogTexts <- MCLogTexts
  RuleChainMaps <- MCRuleChainMaps
  StateChainMaps <- MCStateChainMaps
SPECIFICATION MCSpec
INVARIANTS
  TypeOK
  FirstMatchDecides
  EachChainMovesOnce
  SoundConfigNeverCrashes
PROPERTIES
  ImplementsPolicy
CHECK_DEADLOCK FALSE
