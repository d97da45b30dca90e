--------------------------- MODULE ExpressionTree ---------------------------
(***************************************************************************)
(* ExpressionTree and ExprValue: the tree a rule's conditions are kept in, *)
(* and how it is built.  An expression is [opType, lstValues, lstExpr];    *)
(* the lists are sets here, since neither the order nor a repetition of    *)
(* pure tests changes a conjunction or a disjunction.  A tree under        *)
(* construction is the sequence of its open expressions: the root first,   *)
(* m_pCurrentExpr last, m_lstExprStack what is between.  The code hangs an *)
(* operator into its parent when it is opened; here that is done when it   *)
(* is closed, and a reader of the tree sees no difference once all are.    *)
(***************************************************************************)
EXTENDS Integers, Sequences, SequencesExt

(* The conversion of an int to unsigned char.                              *)
UnsignedChar(i) == i % 256

SingleValue(index, value) ==
  [index |-> index, lowerBound |-> value, upperBound |-> value]

BoundedValue(index, lower, upper) ==
  [index |-> index, lowerBound |-> lower, upperBound |-> upper]

(* MUTANT of matchValue: the upper bound is excluded.                      *)
matchValueExclusive(v, payload) ==
  /\ v.index < Len(payload)
  /\ UnsignedChar(v.lowerBound) <= payload[v.index + 1]
  /\ payload[v.index + 1] < UnsignedChar(v.upperBound)

(* A byte the payload does not have matches nothing.                       *)
matchValue(v, payload) ==
  /\ v.index < Len(payload)
  /\ UnsignedChar(v.lowerBound) <= payload[v.index + 1]
  /\ payload[v.index + 1] <= UnsignedChar(v.upperBound)

And(values, exprs) == [opType |-> "AND", lstValues |-> values, lstExpr |-> exprs]
Or(values, exprs)  == [opType |-> "OR",  lstValues |-> values, lstExpr |-> exprs]

-----------------------------------------------------------------------------
(* new ExpressionTree()                                                    *)
EmptyTree == <<And({}, {})>>

operatorStart(tree, type) ==
  Append(tree, IF type = "AND" THEN And({}, {}) ELSE Or({}, {}))

(* MUTANT of operatorEnd: the stack is not popped.                         *)
operatorEndNoPop(tree) == tree

(* An end without an open operator is ignored.                             *)
operatorEnd(tree) ==
  IF Len(tree) = 1 THEN tree
  ELSE LET closed == tree[Len(tree)]
           rest   == Front(tree)
       IN  [rest EXCEPT ![Len(rest)].lstExpr = @ \cup {closed}]

addValue(tree, v) == [tree EXCEPT ![Len(tree)].lstValues = @ \cup {v}]
=============================================================================
