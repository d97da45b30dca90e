------------------------------- MODULE FWCore -------------------------------
(***************************************************************************)
(* The integer codes of the FW Core API (FWCore.h).  Error codes, verdicts *)
(* and frequency results share one integer space with each other and with  *)
(* the instance handles of dllmain.cpp, so they keep their values here.    *)
(***************************************************************************)
EXTENDS Integers

FWCORE_RESULT_OK          == 0
FWCORE_ERROR              == -1
FWCORE_ERROR_INITFAILED   == -2
FWCORE_ERROR_INSTNOTFOUND == -3

FWCORE_PROC_PERMIT         == 1
FWCORE_PROC_DROP           == 2
FWCORE_PROC_PERMIT_LOG     == 3
FWCORE_PROC_DROP_LOG       == 4
FWCORE_PROC_CHAINUNDEFINED == 5

FWCORE_FREQ_OK    == 6
FWCORE_FREQ_BAD   == 7
FWCORE_FREQ_ERROR == 8

(* Verdicts a rule or a state chain can hand to permitMessage.             *)
ProcCodes == FWCORE_PROC_PERMIT .. FWCORE_PROC_CHAINUNDEFINED

(* Results of FrequencyProcessor::processNewID; the bare 0 it returns for  *)
(* an ID it does not watch, or sees for the first time, has no name.       *)
FreqCodes == {0, FWCORE_FREQ_OK, FWCORE_FREQ_BAD, FWCORE_FREQ_ERROR}

DropCodes == {FWCORE_PROC_DROP, FWCORE_PROC_DROP_LOG}
LogCodes  == {FWCORE_PROC_PERMIT_LOG, FWCORE_PROC_DROP_LOG}
=============================================================================
