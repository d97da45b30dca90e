--------------------------- MODULE RuleFileMeaning ---------------------------
(***************************************************************************)
(* What a rule file says, followed beside what the handlers build from it: *)
(* the elements open, each with the values and the operators found in it   *)
(* so far.  The three history variables never restrict a step.             *)
(***************************************************************************)
EXTENDS RuleFileProcessor

VARIABLES
  nest,     (* open elements: [el, values, exprs]                          *)
  meant,    (* what each finished rule says, in file order                 *)
  plain     (* the file is regular and no condition precedes <expression>  *)

history == <<nest, meant, plain>>

-----------------------------------------------------------------------------
(* The condition an element adds to the element around it.                 *)
Said(el) ==
  CASE Attr(el, "value") # NoAttr ->
         {SingleValue(Numbers[Attr(el, "index")], Numbers[Attr(el, "value")])}
    [] Attr(el, "value") = NoAttr /\ Attr(el, "value-range") \in DOMAIN Ranges ->
         {BoundedValue(Numbers[Attr(el, "index")], Ranges[Attr(el, "value-range")][1],
                       Ranges[Attr(el, "value-range")][2])}
    [] OTHER -> {}

Opened(el) == [el |-> el, values |-> {}, exprs |-> {}]

(* <operator> is one expression of its parent, a rule adds nothing to its  *)
(* parent, everything else is part of it.                                  *)
ValuesOf(inner) ==
  CASE inner.el.name = "byte"                 -> Said(inner.el)
    [] inner.el.name \in {"operator", "rule"} -> {}
    [] OTHER                                  -> inner.values

ExprsOf(inner) ==
  CASE inner.el.name = "operator" -> {[opType |-> Attr(inner.el, "type"),
                                       lstValues |-> inner.values,
                                       lstExpr |-> inner.exprs]}
    [] inner.el.name \in {"byte", "rule"} -> {}
    [] OTHER                              -> inner.exprs

(* nest without its innermost element, whose conditions go to the parent.  *)
Closed ==
  LET parent == Len(nest) - 1
      inner  == nest[Len(nest)]
  IN  [n \in 1 .. parent |->
         IF n = parent
         THEN [el     |-> nest[n].el,
               values |-> nest[n].values \cup ValuesOf(inner),
               exprs  |-> nest[n].exprs \cup ExprsOf(inner)]
         ELSE nest[n]]

(* Conditions before <expression>, or a second one in a rule, are lost     *)
(* (the tree starts again); the meaning of such a file is not followed.    *)
KeepsConditions(el) ==
  el.name = "expression" =>
    \A n \in DOMAIN nest : nest[n].values = {} /\ nest[n].exprs = {}

-----------------------------------------------------------------------------
MeaningInit == Init /\ nest = <<>> /\ meant = <<>> /\ plain = TRUE

FollowStart(el) ==
  /\ StartElement(el)
  /\ plain' = (plain /\ regular' /\ KeepsConditions(el))
  /\ nest' = IF plain' THEN Append(nest, Opened(el)) ELSE <<>>
  /\ UNCHANGED meant

FollowEnd ==
  /\ EndElement
  /\ nest' = IF plain THEN Closed ELSE <<>>
  /\ meant' = IF plain /\ Len(m_lstRules') > Len(m_lstRules)
              THEN Append(meant, And(nest[Len(nest)].values, nest[Len(nest)].exprs))
              ELSE meant
  /\ UNCHANGED plain

(* A file written with some of the elements.                               *)
Follow(vocabulary) ==
  /\ alive
  /\ \/ \E el \in vocabulary : FollowStart(el)
     \/ FollowEnd
     \/ (ParseError \/ printRules \/ destructor) /\ UNCHANGED history

MeaningSpec == MeaningInit /\ [][Follow(Elements)]_<<vars, history>>

(* In a regular file whose rules have no condition before <expression>,    *)
(* the tree of a rule is what its elements say: its bytes and operators,   *)
(* nested as they are.                                                     *)
TreeIsWhatTheRuleSays ==
  plain /\ phase \in {"parsing", "parsed", "loaded"} =>
    \A i \in DOMAIN m_lstRules : trees[m_lstRules[i].pExpTree] = <<meant[i]>>
=============================================================================
