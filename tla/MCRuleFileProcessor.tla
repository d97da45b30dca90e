------------------------ MODULE MCRuleFileProcessor ------------------------
(***************************************************************************)
(* Rule files of a few elements in every order and nesting, with the words *)
(* of the rules section, those of the sections of chains, or the ways to   *)
(* write a byte; and beside what the handlers build what the file says.    *)
(***************************************************************************)
EXTENDS RuleFileMeaning, PayloadMatch

VARIABLE vocabulary  (* the elements of this file                          *)

MCNumbers == [s \in {"0", "1", "7", "9", "263"} |->
                CASE s = "0" -> 0 [] s = "1" -> 1 [] s = "7" -> 7 [] s = "9" -> 9
                  [] s = "263" -> 263]

MCHalves == [s \in {"7..9", "7.9", "x..9", "7."} |->
               CASE s = "7..9" -> <<"7", "9">>
                 [] s = "7.9"  -> <<"7", "">>
                 [] s = "x..9" -> <<"x", "9">>
                 [] s = "7."   -> <<"7", Beyond>>]

MCStray == {9}

El(name, attrs) == [name |-> name, attrs |-> attrs]

Frame == {El("firewall-definition", <<>>), El("rules", <<>>)}

RuleElements ==
  Frame \cup
  { El("rule", <<"id", "a", "cid", "7">>),
    El("rule", <<"id", "b">>),
    El("payload", <<>>), El("expression", <<>>),
    El("byte", <<"index", "0", "value", "7">>),
    El("byte", <<"index", "1", "value-range", "7..9">>),
    El("byte", <<"index", "1", "value-range", "7">>),
    El("byte", <<"index", "x", "value", "7">>),
    El("operator", <<"type", "AND">>), El("operator", <<"type", "OR">>),
    El("operator", <<>>) }

ChainElements ==
  Frame \cup
  { El("rule-chains", <<>>), El("state-chains", <<>>),
    El("rule", <<"id", "a", "cid", "7", "action", "DROP">>),
    El("rule", <<"id", "b", "cid", "7", "action", "PERMIT">>),
    El("chain", <<"cid", "7", "id", "s">>),
    El("chain", <<"cid", "9", "id", "s">>),
    El("chain", <<>>),
    El("default", <<"action", "DENY", "message", "m">>),
    El("network", <<"id", "n">>), El("networks", <<>>) }

ByteElements ==
  Frame \cup
  { El("rule", <<"id", "a", "cid", "7">>), El("payload", <<>>),
    El("operator", <<"type", "AND">>), El("operator", <<"type", "OR">>),
    El("byte", <<"index", "0", "value", "7">>),
    El("byte", <<"index", "1", "value-range", "7..9">>),
    El("byte", <<"index", "1", "value", "263">>),
    El("byte", <<"index", "0", "value-range", "7.9">>),
    El("byte", <<"index", "0", "value-range", "x..9">>),
    El("byte", <<"index", "1", "value-range", "7.">>) }

MCElements == RuleElements \cup ChainElements \cup ByteElements

-----------------------------------------------------------------------------
MCInit == MeaningInit /\ vocabulary \in {RuleElements, ChainElements, ByteElements}

MCNext == Follow(vocabulary) /\ UNCHANGED vocabulary

MCSpec == MCInit /\ [][MCNext]_<<vars, history, vocabulary>>

-----------------------------------------------------------------------------
(* The payloads tried, and what an expression says of them when its bounds *)
(* are compared as the numbers they are and a byte that a payload does not *)
(* have satisfies nothing.                                                 *)
Bytes == {6, 7, 8, 9, 10, 255}

Payloads == UNION {[1 .. n -> Bytes] : n \in 0 .. 2}

Having(v) == {p \in Payloads : /\ v.index + 1 \in DOMAIN p
                               /\ p[v.index + 1] \in v.lowerBound .. v.upperBound}

RECURSIVE Accepted(_)
Accepted(expr) ==
  LET parts == {Having(v) : v \in expr.lstValues} \cup
               {Accepted(sub) : sub \in expr.lstExpr}
  IN  IF expr.opType = "AND"
      THEN {p \in Payloads : \A part \in parts : p \in part}
      ELSE UNION parts

(* The numbers of an expression, all of them bytes.                        *)
RECURSIVE OfBytes(_)
OfBytes(expr) ==
  /\ \A v \in expr.lstValues : {v.lowerBound, v.upperBound} \subseteq 0 .. 255
  /\ \A sub \in expr.lstExpr : OfBytes(sub)

Matched(i) == {p \in Payloads :
                 recursiveMatch(Last(trees[m_lstRules[i].pExpTree]), p)}

(* A rule of a loaded file matches the payloads its elements describe and  *)
(* no other, if the numbers in it are bytes; and whatever they are (the    *)
(* comparison cuts them to unsigned char), a rule never matches a frame    *)
(* for the bytes that frame does not have: cut short, it matches no more   *)
(* than whole.                                                             *)
MatchesAsWritten ==
  phase = "loaded" /\ plain =>
    \A i \in DOMAIN m_lstRules :
      /\ OfBytes(meant[i]) => Matched(i) = Accepted(meant[i])
      /\ \A p \in Payloads :
           p # <<>> /\ Front(p) \in Matched(i) => p \in Matched(i)
=============================================================================
