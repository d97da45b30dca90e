-------------------------- MODULE MCFrequencyFile --------------------------
(***************************************************************************)
(* Files of up to three entries, each one that is accepted, one with an ID *)
(* that comes twice, or one that is not accepted, broken off after any     *)
(* word.                                                                   *)
(***************************************************************************)
EXTENDS FrequencyFile, SequencesExt

MCWords == {"0", "1", "2", "3", "x"}

MCIntOf == [w \in MCWords \ {"x"} |->
              CASE w = "0" -> 0 [] w = "1" -> 1 [] w = "2" -> 2 [] w = "3" -> 3]

Entries ==
  { <<"1", "1", "2", "3">>, <<"2", "2", "2", "2">>, <<"1", "2", "3", "3">>,
    <<"3", "1", "3", "3">>,
    <<"2", "3", "2", "3">>, <<"2", "1", "3", "2">>, <<"2", "0", "1", "1">>,
    <<"x", "1", "1", "1">>, <<"2", "1", "x", "1">> }

Files ==
  {SubSeq(FlattenSeq(entries), 1, n) :
     entries \in TupleOf(Entries, 3), n \in 0 .. 12}

MCInit == words \in Files /\ Init

MCSpec == MCInit /\ [][Next]_vars
=============================================================================
