---------------------------- MODULE SilenceWatch ----------------------------
(***************************************************************************)
(* What the two threads of FrequencyProcessor make of a silent identifier, *)
(* without clocks, locks or program counters: an ID is watched from its    *)
(* first frame on, a watched ID may be raised and is then no longer        *)
(* watched, an ID is raised at most once in a batch, and a batch is        *)
(* disposed of as a whole.                                                 *)
(***************************************************************************)
CONSTANT Ids

VARIABLES watched, raised

vars == <<watched, raised>>

Init ==
  /\ watched = {}
  /\ raised = {}

Hear(id) ==
  /\ watched' = watched \cup {id}
  /\ UNCHANGED raised

Raise(id) ==
  /\ id \in watched \ raised
  /\ watched' = watched \ {id}
  /\ raised' = raised \cup {id}

Dispose ==
  /\ raised # {}
  /\ raised' = {}
  /\ UNCHANGED watched

Next == Dispose \/ \E id \in Ids : Hear(id) \/ Raise(id)

Spec == Init /\ [][Next]_vars
=============================================================================
