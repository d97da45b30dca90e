CONSTANTS
  NULL = NULL
  MsgIds <- TestMsgIds
  Payloads <- TestPayloads
  Rules <- TestRules
  Cid <- TestCid
  Matches <- TestMatches
  LogTexts <- TestLogTexts
  RuleChainMaps <- TestRuleChainMaps
  StateChainMaps <- TestStateChainMaps
SPECIFICATION TestSpec
INVARIANT StateChainPermits
CHECK_DEADLOCK FALSE
