------------------------- MODULE MCFirewallManager -------------------------
(***************************************************************************)
(* Configuration files with the secure log, the frequency processor and    *)
(* its notifier switched on and off - a notifier without a processor is    *)
(* never looked at -, with a negative timer, with one that is not a        *)
(* number, and with each of the parameters missing.                        *)
(***************************************************************************)
EXTENDS FirewallManager

MCTimerOf == [s \in {"5", "-1"} |-> IF s = "5" THEN 5 ELSE -1]

Config(log, proc, notifier, timer) ==
  [ruleFile |-> "FWRules.xml", secureLog |-> log, usesFreqProc |-> proc,
   usesFreqNotifier |-> notifier, notifierTimer |-> timer]

(* diasfw.cfg, without some of it                                          *)
Without(parameter) ==
  LET full == Config("true", "true", "true", "5")
  IN  [p \in DOMAIN full \ {parameter} |-> full[p]]

MCConfigs ==
  {Config("true", "true", "true", timer) : timer \in {"5", "-1", "five"}}
  \cup {Config(log, "false", "false", "5") : log \in {"true", "false"}}
  \cup {Config("true", "true", "false", "5"), Config("false", "true", "true", "5")}
  \cup {Without(p) : p \in {"ruleFile", "secureLog", "usesFreqProc",
                            "usesFreqNotifier", "notifierTimer"}}
=============================================================================
