------------------------ MODULE MCFrequencyProcessor ------------------------
(***************************************************************************)
(* Two watched identifiers and one that is not in the frequency file.  The *)
(* timer is one tick, so an ID is silent from the second tick on; IntRange *)
(* is small enough for a difference, and for a whole stamp, to overflow.   *)
(* Stamps are late by two ticks at most, which lets a frame be older than  *)
(* the one before it, and be stamped 0; and early by one.                  *)
(***************************************************************************)
EXTENDS FrequencyProcessor

MCCanIds   == {1, 2, 3}
WatchedIds == {1, 2}

MCFrequencies ==
  [id \in WatchedIds |-> IF id = 1 THEN [low |-> 1, high |-> 2]
                                   ELSE [low |-> 2, high |-> 2]]
=============================================================================
