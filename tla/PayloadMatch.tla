---------------------------- MODULE PayloadMatch ----------------------------
(***************************************************************************)
(* ExpressionTree::matchMessage: a payload, the sequence of its nPayloadSz *)
(* bytes, against the root expression of a tree.                           *)
(***************************************************************************)
EXTENDS ExpressionTree

RECURSIVE recursiveMatch(_, _)
recursiveMatch(expr, payload) ==
  IF expr.opType = "AND"
  THEN /\ \A v \in expr.lstValues : matchValue(v, payload)
       /\ \A sub \in expr.lstExpr : recursiveMatch(sub, payload)
  ELSE \/ \E v \in expr.lstValues : matchValue(v, payload)
       \/ \E sub \in expr.lstExpr : recursiveMatch(sub, payload)
=============================================================================
