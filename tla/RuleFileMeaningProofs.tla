------------------------ MODULE RuleFileMeaningProofs ------------------------
(***************************************************************************)
(* The tree of a rule is what its elements say, for every vocabulary of    *)
(* elements and files of any length and depth.                             *)
(***************************************************************************)
EXTENDS RuleFileMeaning, RuleFileProcessorProofs

-----------------------------------------------------------------------------
(* The union of the sets of the elements from the rule down to element b.  *)
Upto(F, b) == UNION {F[n] : n \in 3 .. b}

(* The tree under construction: its root stands for the elements 3 to b,   *)
(* each of its other expressions for one operator open inside of them.     *)
Expression(j, b, T, V, X) ==
  IF j = 1
  THEN And(Upto(V, b), Upto(X, b))
  ELSE [opType |-> T[b + j - 1], lstValues |-> V[b + j - 1], lstExpr |-> X[b + j - 1]]

TreeOf(b, d, T, V, X) == [j \in 1 .. (d - b + 1) |-> Expression(j, b, T, V, X)]

(* F and G say the same of the elements i to d.                            *)
Agree(F, G, i, d) == \A n \in i .. d : F[n] = G[n]

LEMMA SequenceOf ==
  ASSUME NEW n \in Nat, NEW f, DOMAIN f = 1 .. n, f = [j \in DOMAIN f |-> f[j]]
  PROVE  /\ \E S : f \in Seq(S)
         /\ Len(f) = n
<1> DEFINE S == {f[j] : j \in 1 .. n}
<1>1. f \in [1 .. n -> S]
  OBVIOUS
<1> HIDE DEF S
<1>2. f \in Seq(S) /\ Len(f) = n
  BY <1>1
<1>3. QED
  BY <1>2

LEMMA TreeOfIsTree ==
  ASSUME NEW b \in Nat, NEW d \in Nat, b <= d, NEW T, NEW V, NEW X
  PROVE  /\ IsTree(TreeOf(b, d, T, V, X))
         /\ Len(TreeOf(b, d, T, V, X)) = d - b + 1
         /\ \A j \in 1 .. (d - b + 1) : TreeOf(b, d, T, V, X)[j] = Expression(j, b, T, V, X)
<1> DEFINE tree == TreeOf(b, d, T, V, X)
<1>1. PICK m \in Nat : m = d - b + 1 /\ m >= 1
  OBVIOUS
<1>2. /\ DOMAIN tree = 1 .. m /\ tree = [j \in DOMAIN tree |-> tree[j]]
      /\ \A j \in 1 .. m : tree[j] = Expression(j, b, T, V, X)
  BY <1>1 DEF TreeOf
<1> HIDE DEF tree
<1>3. (\E S : tree \in Seq(S)) /\ Len(tree) = m
  BY <1>2, SequenceOf, Zenon
<1>4. IsTree(tree)
  BY <1>1, <1>3 DEF IsTree
<1>5. QED
  BY <1>1, <1>2, <1>3, <1>4 DEF tree

(* Only what is said of the elements 3 to d matters.                       *)
LEMMA UptoAgrees ==
  ASSUME NEW b, NEW F, NEW G, Agree(F, G, 3, b)
  PROVE  Upto(F, b) = Upto(G, b)
<1>1. {F[n] : n \in 3 .. b} = {G[n] : n \in 3 .. b}
  BY DEF Agree
<1>2. QED
  BY <1>1, Zenon DEF Upto

LEMMA TreeAgrees ==
  ASSUME NEW b \in Nat, NEW d \in Nat, 3 <= b, b <= d,
         NEW T, NEW T2, Agree(T, T2, b + 1, d),
         NEW V, NEW V2, Agree(V, V2, 3, d),
         NEW X, NEW X2, Agree(X, X2, 3, d)
  PROVE  TreeOf(b, d, T, V, X) = TreeOf(b, d, T2, V2, X2)
<1>1. Agree(V, V2, 3, b) /\ Agree(X, X2, 3, b)
  BY DEF Agree
<1>2. Upto(V, b) = Upto(V2, b) /\ Upto(X, b) = Upto(X2, b)
  BY <1>1, UptoAgrees
<1>3. ASSUME NEW j \in 1 .. (d - b + 1)
      PROVE  Expression(j, b, T, V, X) = Expression(j, b, T2, V2, X2)
  <2>1. j # 1 => b + j - 1 \in (b + 1) .. d
    OBVIOUS
  <2>2. j # 1 => T[b + j - 1] = T2[b + j - 1] /\ V[b + j - 1] = V2[b + j - 1]
                 /\ X[b + j - 1] = X2[b + j - 1]
    BY <2>1 DEF Agree
  <2>3. QED
    BY <1>2, <2>2 DEF Expression
<1>4. QED
  BY <1>3, Zenon DEF TreeOf


(* An expression is a record, whatever the values in it are.               *)
LEMMA ValueAdded ==
  ASSUME NEW e, NEW type, NEW values, NEW exprs, NEW v,
         e = [opType |-> type, lstValues |-> values, lstExpr |-> exprs]
  PROVE  [e EXCEPT !.lstValues = @ \cup {v}] =
           [opType |-> type, lstValues |-> values \cup {v}, lstExpr |-> exprs]
OBVIOUS

LEMMA ExprAdded ==
  ASSUME NEW e, NEW type, NEW values, NEW exprs, NEW x,
         NEW e2,
         e = [opType |-> type, lstValues |-> values, lstExpr |-> exprs],
         e2 = [opType |-> type, lstValues |-> values, lstExpr |-> exprs \cup {x}]
  PROVE  [e EXCEPT !.lstExpr = @ \cup {x}] = e2
OBVIOUS

(* A condition found in the innermost element.                             *)
LEMMA AddValueTree ==
  ASSUME NEW b \in Nat, NEW d \in Nat, 3 <= b, b <= d, NEW T, NEW V, NEW X, NEW v,
         NEW V2, Agree(V, V2, 3, d - 1), V2[d] = V[d] \cup {v}
  PROVE  addValue(TreeOf(b, d, T, V, X), v) = TreeOf(b, d, T, V2, X)
<1> DEFINE tree == TreeOf(b, d, T, V, X)
           e(j) == Expression(j, b, T, V, X)
           e2(j) == Expression(j, b, T, V2, X)
<1>1. PICK m \in Nat : m = d - b + 1 /\ m >= 1
  OBVIOUS
<1>2. Len(tree) = m /\ tree = [j \in 1 .. m |-> e(j)]
  BY <1>1, TreeOfIsTree DEF TreeOf
<1>3. addValue(tree, v) =
        [j \in 1 .. m |-> IF j = m THEN [e(m) EXCEPT !.lstValues = @ \cup {v}] ELSE e(j)]
  <2> HIDE DEF e, tree
  <2>1. addValue(tree, v) = [tree EXCEPT ![m] = [tree[m] EXCEPT !.lstValues = @ \cup {v}]]
    BY <1>2 DEF addValue
  <2>2. tree[m] = e(m)
    BY <1>1, <1>2
  <2>3. QED
    BY <1>2, <2>1, <2>2
<1>4. ASSUME NEW j \in 1 .. (m - 1) PROVE e(j) = e2(j)
  <2>1. Agree(V, V2, 3, b) \/ j # 1
    BY <1>1 DEF Agree
  <2>2. j = 1 => Upto(V, b) = Upto(V2, b)
    <3>1. j = 1 => Agree(V, V2, 3, b)
      BY <1>1, <1>4 DEF Agree
    <3>2. QED
      BY <3>1, UptoAgrees
  <2>3. j # 1 => b + j - 1 \in 3 .. (d - 1)
    BY <1>1
  <2>4. j # 1 => V[b + j - 1] = V2[b + j - 1]
    BY <2>3 DEF Agree
  <2>5. QED
    BY <2>2, <2>4 DEF Expression
<1>5. [e(m) EXCEPT !.lstValues = @ \cup {v}] = e2(m)
  <2>1. CASE m = 1
    <3>1. Upto(V2, b) = Upto(V, b) \cup {v}
      <4>1. b = d
        BY <1>1, <2>1
      <4>a. \A n \in 3 .. b : n = b \/ n \in 3 .. (d - 1)
        BY <4>1
      <4>2. \A n \in 3 .. b : V2[n] = IF n = b THEN V[b] \cup {v} ELSE V[n]
        BY <4>1, <4>a DEF Agree
      <4>3. b \in 3 .. b
        OBVIOUS
      <4>4. QED
        BY <4>2, <4>3 DEF Upto
    <3>2. /\ e(m) = [opType |-> "AND", lstValues |-> Upto(V, b), lstExpr |-> Upto(X, b)]
          /\ e2(m) = [opType |-> "AND", lstValues |-> Upto(V2, b), lstExpr |-> Upto(X, b)]
      BY <2>1 DEF Expression, And
    <3> HIDE DEF e, e2
    <3>3. QED
      BY <3>1, <3>2, ValueAdded
  <2>2. CASE m # 1
    <3>1. b + m - 1 = d
      BY <1>1
    <3>2. /\ e(m) = [opType |-> T[d], lstValues |-> V[d], lstExpr |-> X[d]]
          /\ e2(m) = [opType |-> T[d], lstValues |-> V2[d], lstExpr |-> X[d]]
      BY <2>2, <3>1 DEF Expression
    <3> HIDE DEF e, e2
    <3>3. QED
      BY <3>2, ValueAdded
  <2>3. QED
    BY <2>1, <2>2
<1>6. \A j \in 1 .. m : (IF j = m THEN [e(m) EXCEPT !.lstValues = @ \cup {v}] ELSE e(j)) = e2(j)
  <2> HIDE DEF e, e2
  <2>1. \A j \in 1 .. m : j = m \/ j \in 1 .. (m - 1)
    BY <1>1
  <2>2. QED
    BY <1>4, <1>5, <2>1
<1>7. TreeOf(b, d, T, V2, X) = [j \in 1 .. m |-> e2(j)]
  BY <1>1 DEF TreeOf
<1>8. QED
  BY <1>3, <1>6, <1>7, Zenon DEF tree

(* <operator>                                                              *)
LEMMA OperatorOpensTree ==
  ASSUME NEW b \in Nat, NEW d \in Nat, 3 <= b, b <= d, NEW T, NEW V, NEW X,
         NEW type \in {"AND", "OR"},
         NEW T2, Agree(T, T2, b + 1, d), T2[d + 1] = type,
         NEW V2, Agree(V, V2, 3, d), V2[d + 1] = {},
         NEW X2, Agree(X, X2, 3, d), X2[d + 1] = {}
  PROVE  operatorStart(TreeOf(b, d, T, V, X), type) = TreeOf(b, d + 1, T2, V2, X2)
<1> DEFINE tree == TreeOf(b, d, T2, V2, X2)
           new  == [opType |-> type, lstValues |-> {}, lstExpr |-> {}]
           e(j) == Expression(j, b, T2, V2, X2)
<1>1. TreeOf(b, d, T, V, X) = tree
  BY TreeAgrees
<1>2. PICK m \in Nat : m = d - b + 1 /\ m >= 1
  OBVIOUS
<1>3. /\ Len(tree) = m /\ (\E S : tree \in Seq(S))
      /\ \A j \in 1 .. m : tree[j] = e(j)
  BY <1>2, TreeOfIsTree DEF IsTree
<1>4. operatorStart(tree, type) = Append(tree, new)
  BY DEF operatorStart, And, Or
<1>5. new = e(m + 1)
  <2>1. b + (m + 1) - 1 = d + 1 /\ m + 1 # 1
    BY <1>2
  <2>2. QED
    BY <2>1 DEF Expression
<1> HIDE DEF tree, new, e
<1>6. Append(tree, new) = [j \in 1 .. (m + 1) |-> e(j)]
  <2>1. PICK S : tree \in Seq(S)
    BY <1>3
  <2>2. Append(tree, new) = [j \in 1 .. (m + 1) |-> IF j <= m THEN tree[j] ELSE new]
    <3> DEFINE s == Append(tree, new)
    <3>1. tree \in Seq(S \cup {new}) /\ new \in S \cup {new}
      BY <2>1, SeqMonotonic
    <3>2. /\ s \in Seq(S \cup {new}) /\ Len(s) = m + 1
          /\ \A j \in 1 .. m : s[j] = tree[j]
          /\ s[m + 1] = new
      BY <1>3, <3>1, AppendProperties
    <3> HIDE DEF s
    <3>3. s = [j \in 1 .. (m + 1) |-> s[j]]
      BY <3>2
    <3>4. \A j \in 1 .. (m + 1) : IF j <= m THEN j \in 1 .. m ELSE j = m + 1
      BY <1>2
    <3>5. \A j \in 1 .. (m + 1) : s[j] = IF j <= m THEN tree[j] ELSE new
      BY <3>2, <3>4
    <3>6. QED
      BY <3>3, <3>5, Zenon DEF s
  <2>3. \A j \in 1 .. (m + 1) : (IF j <= m THEN tree[j] ELSE new) = e(j)
    <3>1. \A j \in 1 .. (m + 1) : IF j <= m THEN j \in 1 .. m ELSE j = m + 1
      BY <1>2
    <3>2. QED
      BY <1>3, <1>5, <3>1
  <2>4. QED
    BY <2>2, <2>3, Zenon
<1>7. TreeOf(b, d + 1, T2, V2, X2) = [j \in 1 .. (m + 1) |-> e(j)]
  BY <1>2 DEF TreeOf, e
<1>8. QED
  BY <1>1, <1>4, <1>6, <1>7, Zenon


(* </operator>: what it says is one expression of its parent.              *)
Closes(b, d, T, V, X, T2, V2, X2) ==
  /\ b \in Nat /\ d \in Nat /\ 3 <= b /\ b < d
  /\ Agree(T, T2, b + 1, d - 1)
  /\ Agree(V, V2, 3, d - 1)
  /\ Agree(X, X2, 3, d - 2)
  /\ X2[d - 1] = X[d - 1] \cup {[opType |-> T[d], lstValues |-> V[d], lstExpr |-> X[d]]}

LEMMA OperatorClosesTree ==
  ASSUME NEW b, NEW d, NEW T, NEW V, NEW X, NEW T2, NEW V2, NEW X2,
         Closes(b, d, T, V, X, T2, V2, X2)
  PROVE  operatorEnd(TreeOf(b, d, T, V, X)) = TreeOf(b, d - 1, T2, V2, X2)
<1>0. /\ b \in Nat /\ d \in Nat /\ 3 <= b /\ b < d
      /\ Agree(T, T2, b + 1, d - 1)
      /\ Agree(V, V2, 3, d - 1)
      /\ Agree(X, X2, 3, d - 2)
      /\ X2[d - 1] = X[d - 1] \cup {[opType |-> T[d], lstValues |-> V[d], lstExpr |-> X[d]]}
  BY Zenon DEF Closes
<1> USE <1>0
<1> DEFINE tree == TreeOf(b, d, T, V, X)
           rest == Front(tree)
           e(j) == Expression(j, b, T, V, X)
           e2(j) == Expression(j, b, T2, V2, X2)
<1>1. PICK m \in Nat : m = d - b /\ m >= 1
  OBVIOUS
<1>2. /\ Len(tree) = m + 1 /\ (\E S : tree \in Seq(S))
      /\ \A j \in 1 .. (m + 1) : tree[j] = e(j)
  <2>1. d - b + 1 = m + 1
    BY <1>1
  <2>2. QED
    BY <2>1, TreeOfIsTree DEF IsTree
<1>3. rest = [j \in 1 .. m |-> e(j)] /\ Len(rest) = m
  <2> HIDE DEF e, tree
  <2>1. PICK S : tree \in Seq(S)
    BY <1>2
  <2>2. tree # <<>>
    BY <1>1, <1>2
  <2>3. /\ rest \in Seq(S) /\ Len(rest) = m
        /\ \A j \in 1 .. m : rest[j] = tree[j]
    <3>1. Len(tree) - 1 = m
      BY <1>1, <1>2
    <3>2. QED
      BY <2>1, <2>2, <3>1, ShorterIsSeq
  <2> HIDE DEF rest
  <2>4. rest = [j \in 1 .. m |-> rest[j]]
    BY <2>3
  <2>5. \A j \in 1 .. m : rest[j] = e(j)
    BY <1>1, <1>2, <2>3
  <2>6. QED
    BY <2>3, <2>4, <2>5, Zenon
<1>4. e(m + 1) = [opType |-> T[d], lstValues |-> V[d], lstExpr |-> X[d]]
  <2>1. b + (m + 1) - 1 = d /\ m + 1 # 1
    BY <1>1
  <2>2. QED
    BY <2>1 DEF Expression
<1>5. operatorEnd(tree) =
        [j \in 1 .. m |-> IF j = m THEN [e(m) EXCEPT !.lstExpr = @ \cup {e(m + 1)}] ELSE e(j)]
  <2> HIDE DEF e, tree
  <2>1. operatorEnd(tree) =
          [rest EXCEPT ![Len(rest)] = [rest[Len(rest)] EXCEPT !.lstExpr = @ \cup {tree[Len(tree)]}]]
    BY <1>1, <1>2 DEF operatorEnd
  <2>2. tree[Len(tree)] = e(m + 1)
    BY <1>1, <1>2
  <2> HIDE DEF rest
  <2>3. operatorEnd(tree) = [rest EXCEPT ![m] = [rest[m] EXCEPT !.lstExpr = @ \cup {e(m + 1)}]]
    BY <1>3, <2>1, <2>2
  <2>4. rest[m] = e(m)
    BY <1>1, <1>3
  <2>5. QED
    BY <1>3, <2>3, <2>4
<1>6. ASSUME NEW j \in 1 .. (m - 1) PROVE e(j) = e2(j)
  <2>1. j = 1 => Upto(V, b) = Upto(V2, b) /\ Upto(X, b) = Upto(X2, b)
    <3>1. j = 1 => Agree(V, V2, 3, b) /\ Agree(X, X2, 3, b)
      BY <1>1, <1>6 DEF Agree
    <3>2. QED
      BY <3>1, UptoAgrees
  <2>2. j # 1 => b + j - 1 \in (b + 1) .. (d - 2) /\ b + j - 1 \in 3 .. (d - 2)
    BY <1>1
  <2>3. j # 1 => T[b + j - 1] = T2[b + j - 1] /\ V[b + j - 1] = V2[b + j - 1]
                 /\ X[b + j - 1] = X2[b + j - 1]
    BY <2>2 DEF Agree
  <2>4. QED
    BY <2>1, <2>3 DEF Expression
<1>7. [e(m) EXCEPT !.lstExpr = @ \cup {e(m + 1)}] = e2(m)
  <2> DEFINE x == e(m + 1)
  <2>1. X2[d - 1] = X[d - 1] \cup {x}
    BY <1>4
  <2>2. V2[d - 1] = V[d - 1]
    BY <1>1 DEF Agree
  <2> HIDE DEF x
  <2>3. \E type, values, exprs :
          /\ e(m) = [opType |-> type, lstValues |-> values, lstExpr |-> exprs]
          /\ e2(m) = [opType |-> type, lstValues |-> values, lstExpr |-> exprs \cup {x}]
    <3>1. CASE m = 1
      <4>1. b = d - 1
        BY <1>1, <3>1
      <4>2. Upto(V2, b) = Upto(V, b)
        BY <4>1, UptoAgrees
      <4>3. Upto(X2, b) = Upto(X, b) \cup {x}
        <5>1. \A n \in 3 .. b : n = b \/ n \in 3 .. (d - 2)
          BY <4>1
        <5>2. \A n \in 3 .. b : X2[n] = IF n = b THEN X[b] \cup {x} ELSE X[n]
          BY <2>1, <4>1, <5>1 DEF Agree
        <5>3. b \in 3 .. b
          OBVIOUS
        <5>4. QED
          BY <5>2, <5>3 DEF Upto
      <4>4. /\ e(m) = [opType |-> "AND", lstValues |-> Upto(V, b), lstExpr |-> Upto(X, b)]
            /\ e2(m) = [opType |-> "AND", lstValues |-> Upto(V2, b), lstExpr |-> Upto(X2, b)]
        BY <3>1 DEF Expression, And
      <4> HIDE DEF e, e2
      <4>5. QED
        BY <4>2, <4>3, <4>4
    <3>2. CASE m # 1
      <4>1. b + m - 1 = d - 1 /\ d - 1 \in (b + 1) .. (d - 1)
        BY <1>1, <3>2
      <4>2. T2[d - 1] = T[d - 1]
        BY <4>1 DEF Agree
      <4>3. /\ e(m) = [opType |-> T[d - 1], lstValues |-> V[d - 1], lstExpr |-> X[d - 1]]
            /\ e2(m) = [opType |-> T2[d - 1], lstValues |-> V2[d - 1], lstExpr |-> X2[d - 1]]
        BY <3>2, <4>1 DEF Expression
      <4> HIDE DEF e, e2
      <4>4. e2(m) = [opType |-> T[d - 1], lstValues |-> V[d - 1],
                     lstExpr |-> X[d - 1] \cup {x}]
        BY <2>1, <2>2, <4>2, <4>3
      <4>5. QED
        BY <4>3, <4>4, Zenon
    <3>3. QED
      BY <3>1, <3>2
  <2> HIDE DEF e, e2
  <2>4. [e(m) EXCEPT !.lstExpr = @ \cup {x}] = e2(m)
    <3>1. PICK a, a2 : a = e(m) /\ a2 = e2(m)
      OBVIOUS
    <3>2. PICK type, values, exprs :
            /\ a = [opType |-> type, lstValues |-> values, lstExpr |-> exprs]
            /\ a2 = [opType |-> type, lstValues |-> values, lstExpr |-> exprs \cup {x}]
      BY <2>3, <3>1
    <3>3. [a EXCEPT !.lstExpr = @ \cup {x}] = a2
      BY <3>2, ExprAdded
    <3>4. QED
      BY <3>1, <3>3
  <2>5. QED
    BY <2>4 DEF x
<1>8. \A j \in 1 .. m :
        (IF j = m THEN [e(m) EXCEPT !.lstExpr = @ \cup {e(m + 1)}] ELSE e(j)) = e2(j)
  <2> HIDE DEF e, e2
  <2>1. \A j \in 1 .. m : j = m \/ j \in 1 .. (m - 1)
    BY <1>1
  <2>2. QED
    BY <1>6, <1>7, <2>1
<1>9. TreeOf(b, d - 1, T2, V2, X2) = [j \in 1 .. m |-> e2(j)]
  <2>1. (d - 1) - b + 1 = m
    BY <1>1
  <2>2. QED
    BY <2>1 DEF TreeOf
<1>10. QED
  BY <1>5, <1>8, <1>9, Zenon DEF tree

(* Nothing but the root: what is said from the rule down to element b.     *)
LEMMA RootAlone ==
  ASSUME NEW b \in Nat, NEW T, NEW V, NEW X
  PROVE  TreeOf(b, b, T, V, X) = <<And(Upto(V, b), Upto(X, b))>>
<1>1. b - b + 1 = 1
  OBVIOUS
<1>2. TreeOf(b, b, T, V, X) = [j \in 1 .. 1 |-> Expression(j, b, T, V, X)]
  BY <1>1 DEF TreeOf
<1>3. \A j \in 1 .. 1 : Expression(j, b, T, V, X) = And(Upto(V, b), Upto(X, b))
  BY DEF Expression
<1> DEFINE x == And(Upto(V, b), Upto(X, b))
<1>4. TreeOf(b, b, T, V, X) = [j \in 1 .. 1 |-> x]
  BY <1>2, <1>3, Zenon
<1> HIDE DEF x
<1>5. [j \in 1 .. 1 |-> x] = <<x>>
  OBVIOUS
<1>6. QED
  BY <1>4, <1>5 DEF x

LEMMA UptoOpens ==
  ASSUME NEW b \in Nat, 3 <= b, NEW F, NEW G, Agree(F, G, 3, b), G[b + 1] = {}
  PROVE  Upto(G, b + 1) = Upto(F, b)
<1>1. \A n \in 3 .. (b + 1) : n \in 3 .. b \/ n = b + 1
  OBVIOUS
<1>2. 3 .. b \subseteq 3 .. (b + 1)
  OBVIOUS
<1>3. \A n \in 3 .. b : F[n] = G[n]
  BY DEF Agree
<1>4. QED
  BY <1>1, <1>2, <1>3 DEF Upto

LEMMA UnionWith ==
  ASSUME NEW I, NEW c, NEW F,
         NEW A, A = UNION {F[n] : n \in I},
         NEW B, B = UNION {F[n] : n \in I \cup {c}}
  PROVE  B = A \cup F[c]
<1>1. \A y : y \in A <=> \E n \in I : y \in F[n]
  OBVIOUS
<1>2. \A y : y \in B <=> \E n \in I \cup {c} : y \in F[n]
  OBVIOUS
<1>3. \A y : y \in B <=> y \in A \/ y \in F[c]
  BY <1>1, <1>2
<1>4. QED
  BY <1>3

LEMMA UptoCloses ==
  ASSUME NEW b \in Nat, 4 <= b, NEW F, NEW G, Agree(F, G, 3, b - 2),
         G[b - 1] = F[b - 1] \cup F[b]
  PROVE  Upto(G, b - 1) = Upto(F, b)
<1>1. PICK c \in Nat : c = b - 1 /\ c >= 3
  OBVIOUS
<1>2. /\ \A n \in 3 .. b : n \in 3 .. (b - 2) \/ n = c \/ n = b
      /\ \A n \in 3 .. c : n \in 3 .. (b - 2) \/ n = c
      /\ \A n \in 3 .. (b - 2) : n \in 3 .. b /\ n \in 3 .. c
      /\ b \in 3 .. b /\ c \in 3 .. b /\ c \in 3 .. c
  BY <1>1
<1>3. \A n \in 3 .. (b - 2) : F[n] = G[n]
  BY DEF Agree
<1>4. G[c] = F[c] \cup F[b]
  BY <1>1
<1>5. Upto(G, c) = Upto(F, b)
  <2> DEFINE I == 3 .. (b - 2)
             J == 3 .. b
             K == 3 .. c
  <2>1. J = (I \cup {c}) \cup {b} /\ K = I \cup {c}
    BY <1>2
  <2>2. Upto(F, b) = UNION {F[n] : n \in J} /\ Upto(G, c) = UNION {G[n] : n \in K}
    BY DEF Upto
  <2>3. \A n \in I : F[n] = G[n]
    BY <1>3
  <2> HIDE DEF I, J, K
  <2>4. PICK A, C, E, H : /\ A = UNION {F[n] : n \in I}
                          /\ C = UNION {F[n] : n \in I \cup {c}}
                          /\ E = UNION {F[n] : n \in (I \cup {c}) \cup {b}}
                          /\ H = UNION {G[n] : n \in I \cup {c}}
    OBVIOUS
  <2>5. A = UNION {G[n] : n \in I}
    <3>1. {G[n] : n \in I} = {F[n] : n \in I}
      BY <2>3
    <3>2. QED
      BY <2>4, <3>1, Zenon
  <2>6. C = A \cup F[c] /\ E = C \cup F[b] /\ H = A \cup G[c]
    <3>1. C = A \cup F[c]
      BY <2>4, UnionWith
    <3>2. H = A \cup G[c]
      <4>1. H = UNION {G[n] : n \in I \cup {c}}
        BY <2>4
      <4>2. QED
        BY <2>5, <4>1, UnionWith
    <3>3. E = C \cup F[b]
      BY <2>4, UnionWith
    <3>4. QED
      BY <3>1, <3>2, <3>3
  <2>7. Upto(F, b) = E /\ Upto(G, c) = H
    BY <2>1, <2>2, <2>4, Zenon
  <2>8. QED
    BY <1>4, <2>6, <2>7
<1>6. QED
  BY <1>1, <1>5

LEMMA UptoRule ==
  ASSUME NEW F
  PROVE  Upto(F, 3) = F[3]
<1>1. 3 .. 3 = {3}
  OBVIOUS
<1>2. QED
  BY <1>1, Zenon DEF Upto

LEMMA UptoNothing ==
  ASSUME NEW b, NEW F, \A n \in 3 .. b : F[n] = {}
  PROVE  Upto(F, b) = {}
BY DEF Upto


-----------------------------------------------------------------------------
(* A byte adds its condition to the tree when it starts, and to the nest   *)
(* when it ends: in between it counts as said by its parent.               *)
Depth == IF Last(open) = "byte" THEN Len(open) - 1 ELSE Len(open)

Types == [n \in 1 .. Len(open) |-> Attr(nest[n].el, "type")]

Values ==
  [n \in 1 .. Len(open) |->
     nest[n].values \cup
       (IF n = Depth /\ Last(open) = "byte" THEN Said(nest[Len(open)].el) ELSE {})]

Exprs == [n \in 1 .. Len(open) |-> nest[n].exprs]

Scopes == {"source", "destination", "payload", "expression"}

(* The elements 3 to b are a rule and what only groups conditions, those   *)
(* below are operators.                                                    *)
ScopesTo(b) ==
  /\ b \in 3 .. Depth
  /\ open[3] = "rule"
  /\ \A n \in 4 .. b : open[n] \in Scopes
  /\ \A n \in (b + 1) .. Depth : open[n] = "operator"

NestFollows ==
  plain =>
    /\ \E S : nest \in Seq(S)
    /\ Len(nest) = Len(open)
    /\ \A n \in 1 .. Len(open) : nest[n].el.name = open[n]

InRule == phase = "parsing" /\ m_stGlobal = "rules" /\ Len(open) >= 3

TreeFollows ==
  plain /\ InRule =>
    \E b \in 3 .. Len(open) :
      ScopesTo(b) /\ trees[m_currentRule.pExpTree] = TreeOf(b, Depth, Types, Values, Exprs)

MeantInv ==
  plain /\ phase \in {"parsing", "parsed", "loaded"} =>
    /\ \E S : meant \in Seq(S)
    /\ Len(meant) = Len(m_lstRules)
    /\ \A i \in DOMAIN m_lstRules :
         /\ m_lstRules[i].pExpTree \in DOMAIN trees
         /\ trees[m_lstRules[i].pExpTree] = <<meant[i]>>

MeaningInv == (plain => regular) /\ NestFollows /\ TreeFollows /\ MeantInv

(* What is known of the parser, whatever the file means.                   *)
ParserKnown == TypeInv /\ TreesOwnedOnce /\ NestInv /\ RegularInv

LEMMA FollowIsNext == [Follow(Elements)]_<<vars, history>> => [Next]_vars
BY DEF Follow, FollowStart, FollowEnd, Next

LEMMA MeaningIsSpec == MeaningSpec => Spec
<1>1. MeaningInit => Init
  BY DEF MeaningInit
<1>2. QED
  BY <1>1, FollowIsNext, PTL DEF MeaningSpec, Spec

(* The nest while tags start and end.                                      *)
LEMMA NestPushed ==
  ASSUME NEW el \in Elements, ParserInv, NestFollows, FollowStart(el), plain'
  PROVE  /\ plain /\ regular' /\ KeepsConditions(el)
         /\ \E S : nest \in Seq(S)
         /\ Len(nest) = Len(open) /\ Len(open) \in Nat
         /\ \E S : nest' \in Seq(S)
         /\ Len(nest') = Len(open) + 1
         /\ \A n \in 1 .. Len(open) : nest'[n] = nest[n]
         /\ nest'[Len(open) + 1] = Opened(el)
<1>1. plain /\ regular' /\ KeepsConditions(el)
  BY Zenon DEF FollowStart
<1>2. (\E S : nest \in Seq(S)) /\ Len(nest) = Len(open)
  BY <1>1 DEF NestFollows
<1>3. nest' = Append(nest, Opened(el))
  BY DEF FollowStart
<1> DEFINE e == Opened(el)
<1>4. PICK S : nest \in Seq(S)
  BY <1>2
<1>5. nest \in Seq(S \cup {e}) /\ e \in S \cup {e}
  BY <1>4, SeqMonotonic
<1> HIDE DEF e
<1>6. /\ Append(nest, e) \in Seq(S \cup {e}) /\ Len(Append(nest, e)) = Len(nest) + 1
      /\ \A n \in 1 .. Len(nest) : Append(nest, e)[n] = nest[n]
      /\ Append(nest, e)[Len(nest) + 1] = e
  BY <1>5, AppendProperties
<1>7. Len(open) \in Nat
  BY DEF ParserInv
<1>8. QED
  BY <1>1, <1>2, <1>3, <1>6, <1>7 DEF e

LEMMA NestPopped ==
  ASSUME ParserInv, NestFollows, FollowEnd, plain
  PROVE  /\ \E S : nest' \in Seq(S)
         /\ Len(open) \in Nat \ {0} /\ Len(nest) = Len(open)
         /\ Len(nest') = Len(open) - 1
         /\ \A n \in 1 .. (Len(open) - 2) : nest'[n] = nest[n]
         /\ Len(open) >= 2 =>
              /\ nest'[Len(open) - 1].el = nest[Len(open) - 1].el
              /\ nest'[Len(open) - 1].values =
                    nest[Len(open) - 1].values \cup ValuesOf(nest[Len(open)])
              /\ nest'[Len(open) - 1].exprs =
                    nest[Len(open) - 1].exprs \cup ExprsOf(nest[Len(open)])
<1>1. PICK m \in Nat : m = Len(open) - 1
  BY Popped DEF FollowEnd
<1>2. Len(open) = m + 1 /\ Len(open) \in Nat \ {0} /\ Len(nest) = m + 1
  BY <1>1, Popped DEF FollowEnd, NestFollows
<1>3. nest' = Closed
  BY DEF FollowEnd
<1> DEFINE e == [el     |-> nest[m].el,
                 values |-> nest[m].values \cup ValuesOf(nest[m + 1]),
                 exprs  |-> nest[m].exprs \cup ExprsOf(nest[m + 1])]
<1>4. nest' = [n \in 1 .. m |-> IF n = m THEN e ELSE nest[n]]
  <2>1. Len(nest) - 1 = m
    BY <1>2
  <2>2. Closed = [n \in 1 .. m |-> IF n = m
                    THEN [el     |-> nest[n].el,
                          values |-> nest[n].values \cup ValuesOf(nest[m + 1]),
                          exprs  |-> nest[n].exprs \cup ExprsOf(nest[m + 1])]
                    ELSE nest[n]]
    BY <1>2, <2>1, Zenon DEF Closed
  <2>3. QED
    BY <1>3, <2>2
<1>5. m >= 1 =>
        /\ e.el = nest[m].el
        /\ e.values = nest[m].values \cup ValuesOf(nest[m + 1])
        /\ e.exprs = nest[m].exprs \cup ExprsOf(nest[m + 1])
  OBVIOUS
<1> HIDE DEF e
<1>6. DOMAIN nest' = 1 .. m /\ nest' = [n \in DOMAIN nest' |-> nest'[n]]
  BY <1>4
<1>7. (\E S : nest' \in Seq(S)) /\ Len(nest') = m
  BY <1>6, SequenceOf, Zenon
<1>8. \A n \in 1 .. (m - 1) : nest'[n] = nest[n]
  BY <1>4
<1>9. m >= 1 => nest'[m] = e
  BY <1>4
<1>10. QED
  BY <1>1, <1>2, <1>5, <1>7, <1>8, <1>9


LEMMA NestFollowsNext ==
  ASSUME ParserInv, NestFollows, Follow(Elements)
  PROVE  NestFollows'
<1> SUFFICES ASSUME plain' PROVE NestFollows'
  BY DEF NestFollows
<1>1. ASSUME NEW el \in Elements, FollowStart(el) PROVE NestFollows'
  <2>1. PICK m \in Nat : m = Len(open)
    BY DEF ParserInv
  <2>2. /\ Len(open') = m + 1 /\ open'[m + 1] = el.name
        /\ \A n \in 1 .. m : open'[n] = open[n]
    BY <1>1, <2>1, Pushed DEF FollowStart
  <2>3. /\ plain /\ Len(nest') = m + 1 /\ nest'[m + 1].el = el
        /\ \E S : nest' \in Seq(S)
        /\ \A n \in 1 .. m : nest'[n] = nest[n]
    <3>1. Opened(el).el = el
      BY DEF Opened
    <3>2. QED
      BY <1>1, <2>1, <3>1, NestPushed
  <2>4. \A n \in 1 .. (m + 1) : n \in 1 .. m \/ n = m + 1
    OBVIOUS
  <2>5. \A n \in 1 .. (m + 1) : nest'[n].el.name = open'[n]
    BY <2>1, <2>2, <2>3, <2>4 DEF NestFollows
  <2>6. QED
    BY <2>2, <2>3, <2>5 DEF NestFollows
<1>2. CASE FollowEnd
  <2>1. plain
    BY <1>2, Zenon DEF FollowEnd
  <2>2. PICK m \in Nat : m = Len(open) - 1
    BY <1>2, Popped DEF FollowEnd
  <2>3. Len(open) = m + 1 /\ Len(open') = m /\ \A n \in 1 .. m : open'[n] = open[n]
    BY <1>2, <2>2, Popped DEF FollowEnd
  <2>4. /\ Len(nest') = m /\ \E S : nest' \in Seq(S)
        /\ \A n \in 1 .. (m - 1) : nest'[n] = nest[n]
        /\ m >= 1 => nest'[m].el = nest[m].el
    BY <1>2, <2>1, <2>2, <2>3, NestPopped
  <2>5. \A n \in 1 .. m : n \in 1 .. (m - 1) \/ (n = m /\ m >= 1)
    OBVIOUS
  <2>6. \A n \in 1 .. m : nest[n].el.name = open[n]
    BY <2>1, <2>3 DEF NestFollows
  <2>7. \A n \in 1 .. m : nest'[n].el = nest[n].el
    BY <2>4, <2>5
  <2>8. QED
    BY <2>3, <2>4, <2>6, <2>7 DEF NestFollows
<1>3. CASE (ParseError \/ printRules \/ destructor) /\ UNCHANGED history
  <2>1. UNCHANGED <<open, nest, plain>>
    BY <1>3 DEF ParseError, printRules, destructor, expat, history
  <2>2. QED
    BY <2>1 DEF NestFollows
<1>4. QED
  BY <1>1, <1>2, <1>3 DEF Follow

-----------------------------------------------------------------------------
(* A start tag in the section of the rules.                                *)
StartsInRules(el) ==
  /\ FollowStart(el)
  /\ plain' /\ phase' = "parsing" /\ m_stGlobal' = "rules" /\ Len(open') >= 3

LEMMA StartContext ==
  ASSUME NEW el \in Elements, ParserKnown, plain => regular, NestFollows, StartsInRules(el)
  PROVE  /\ plain /\ Regular(el) /\ KeepsConditions(el)
         /\ phase = "parsing" /\ m_stGlobal = "rules" /\ Lined /\ InHand
         /\ processRules(el) /\ ~Reject
         /\ Len(open) \in Nat /\ Len(open) >= 2
         /\ Last(open) # "byte"
         /\ Len(open) = 2 => el.name = "rule"
         /\ Len(open) >= 3 => el.name \in Scopes \cup {"byte", "operator"}
<1>1. /\ StartElement(el) /\ phase = "parsing" /\ phase' = "parsing" /\ ~Reject
      /\ regular' = (regular /\ Regular(el))
  BY DEF StartsInRules, FollowStart, StartElement, Reject
<1>2. plain /\ regular' /\ KeepsConditions(el) /\ Len(open) \in Nat
  BY NestPushed DEF ParserKnown, TypeInv, StartsInRules
<1>3. regular /\ Regular(el)
  BY <1>1, <1>2, Zenon
<1>4. Lined /\ InHand
  BY <1>1, <1>3 DEF ParserKnown, RegularInv
<1>5. Len(open) >= 2
  BY <1>1, Pushed DEF ParserKnown, TypeInv, StartsInRules
<1>6. m_stGlobal \in Sections
  BY <1>1, <1>4, <1>5, RegularPlace DEF ParserKnown, TypeInv
<1>7. m_stGlobal = "rules" /\ processRules(el) /\ el.name \in Words("rules")
  BY <1>1, <1>6, Accepted DEF StartsInRules, Sections, InChains
<1>8. /\ Len(open) <= 2 => el.name = "rule"
      /\ Len(open) >= 3 => el.name # "rule"
  BY <1>1, <1>3, <1>4, <1>7, RegularTag DEF ParserKnown, TypeInv
<1>9. Last(open) # "byte"
  <2>1. open # <<>>
    BY <1>5 DEF ParserKnown, TypeInv, ParserInv
  <2>2. el.name \in Inside(Last(open))
    BY <1>3, <2>1 DEF Regular
  <2>3. Inside("byte") = {}
    BY DEF Inside
  <2>4. QED
    BY <2>2, <2>3
<1>10. Len(open) >= 3 => el.name \in Scopes \cup {"byte", "operator"}
  BY <1>7, <1>8 DEF Words, Scopes
<1>11. QED
  BY <1>1, <1>2, <1>3, <1>4, <1>5, <1>7, <1>8, <1>9, <1>10

(* What a start tag adds to what the file says.                            *)
LEMMA StartSays ==
  ASSUME NEW el \in Elements, ParserInv, NestFollows, FollowStart(el), plain',
         NEW n \in Nat \ {0}, n = Len(open), Last(open) # "byte"
  PROVE  /\ Depth = n /\ Depth' = IF el.name = "byte" THEN n ELSE n + 1
         /\ Agree(Types, Types', 1, n) /\ Types'[n + 1] = Attr(el, "type")
         /\ Agree(Exprs, Exprs', 1, n) /\ Exprs'[n + 1] = {}
         /\ Agree(Values, Values', 1, n - 1)
         /\ Values'[n] = Values[n] \cup (IF el.name = "byte" THEN Said(el) ELSE {})
         /\ el.name # "byte" => Values'[n + 1] = {}
<1>1. /\ Len(open') = n + 1 /\ Last(open') = el.name
      /\ \A k \in 1 .. n : open'[k] = open[k]
  <2>1. open' \in Seq({e.name : e \in Elements}) /\ open' # <<>>
    BY DEF FollowStart, StartElement, ParserInv
  <2>2. Last(open') = open'[Len(open')]
    BY <2>1, ShorterIsSeq
  <2>3. QED
    BY <2>2, Pushed DEF FollowStart
<1>2. /\ \A k \in 1 .. n : nest'[k] = nest[k]
      /\ nest'[n + 1].el = el /\ nest'[n + 1].values = {} /\ nest'[n + 1].exprs = {}
  <2>1. Opened(el).el = el /\ Opened(el).values = {} /\ Opened(el).exprs = {}
    BY DEF Opened
  <2>2. QED
    BY <2>1, NestPushed
<1>3. Depth = n /\ Depth' = IF el.name = "byte" THEN n ELSE n + 1
  BY <1>1 DEF Depth
<1>4. n + 1 \in 1 .. (n + 1) /\ \A k \in 1 .. n : k \in 1 .. (n + 1)
  OBVIOUS
<1>5. /\ Types = [k \in 1 .. n |-> Attr(nest[k].el, "type")]
      /\ Types' = [k \in 1 .. (n + 1) |-> Attr(nest'[k].el, "type")]
  BY <1>1, Zenon DEF Types
<1>6. Agree(Types, Types', 1, n) /\ Types'[n + 1] = Attr(el, "type")
  BY <1>2, <1>4, <1>5 DEF Agree
<1>7. /\ Exprs = [k \in 1 .. n |-> nest[k].exprs]
      /\ Exprs' = [k \in 1 .. (n + 1) |-> nest'[k].exprs]
  BY <1>1, Zenon DEF Exprs
<1>8. Agree(Exprs, Exprs', 1, n) /\ Exprs'[n + 1] = {}
  BY <1>2, <1>4, <1>7 DEF Agree
<1>9. \A k \in 1 .. n : Values[k] = nest[k].values
  BY DEF Values
<1>10. \A k \in 1 .. (n + 1) :
         Values'[k] = nest'[k].values \cup
                        (IF k = Depth' /\ el.name = "byte" THEN Said(el) ELSE {})
  BY <1>1, <1>2 DEF Values
<1>11. Agree(Values, Values', 1, n - 1)
  <2>1. ASSUME NEW k \in 1 .. (n - 1) PROVE Values[k] = Values'[k]
    <3>1. k \in 1 .. n /\ k \in 1 .. (n + 1) /\ k # Depth'
      BY <1>3
    <3>2. Values'[k] = nest'[k].values
      BY <1>10, <3>1
    <3>3. Values[k] = nest[k].values /\ nest'[k] = nest[k]
      BY <1>2, <1>9, <3>1
    <3>4. QED
      BY <3>2, <3>3
  <2>2. QED
    BY <2>1 DEF Agree
<1>12. Values'[n] = Values[n] \cup (IF el.name = "byte" THEN Said(el) ELSE {})
  BY <1>2, <1>3, <1>9, <1>10
<1>13. el.name # "byte" => Values'[n + 1] = {}
  BY <1>2, <1>4, <1>10
<1>14. QED
  BY <1>3, <1>6, <1>8, <1>11, <1>12, <1>13


(* The tree in hand is a new one: a rule starts, or an expression before   *)
(* which nothing has been said.                                            *)
LEMMA Planted ==
  ASSUME PlantTree
  PROVE  trees'[m_currentRule'.pExpTree] = EmptyTree
<1>1. trees' = Put(Free(trees, m_currentRule.pExpTree), brk + 1, EmptyTree)
      /\ m_currentRule'.pExpTree = brk + 1
  BY DEF PlantTree, newTree
<1>2. QED
  BY <1>1 DEF Put

LEMMA NothingSaid ==
  ASSUME NEW b \in Nat, NEW T, NEW V, NEW X, \A n \in 3 .. b : V[n] = {} /\ X[n] = {}
  PROVE  TreeOf(b, b, T, V, X) = EmptyTree
<1>1. Upto(V, b) = {} /\ Upto(X, b) = {}
  BY UptoNothing
<1>2. QED
  BY <1>1, RootAlone DEF EmptyTree

LEMMA RuleStartsTree ==
  ASSUME NEW el \in Elements, ParserKnown, plain => regular, NestFollows, StartsInRules(el),
         Len(open) = 2
  PROVE  TreeFollows'
<1>1. /\ processRules(el) /\ ~Reject /\ el.name = "rule" /\ m_stGlobal = "rules"
      /\ Last(open) # "byte"
  BY StartContext
<1>2. trees'[m_currentRule'.pExpTree] = EmptyTree
  <2>1. startRule(el)
    BY <1>1 DEF processRules, startExpression, startByte, startOperator, startOther
  <2>2. QED
    BY <1>1, <2>1, StartPlants, Planted DEF ParserKnown, TypeInv
<1>3. /\ Len(open') = 3 /\ open'[3] = "rule"
  BY <1>1, Pushed DEF StartsInRules, FollowStart, ParserKnown, TypeInv
<1>4. 2 \in Nat \ {0} /\ 2 + 1 = 3
  OBVIOUS
<1>5. Depth' = 3 /\ Values'[3] = {} /\ Exprs'[3] = {}
  BY <1>1, <1>4, StartSays DEF StartsInRules, ParserKnown, TypeInv
<1>6. TreeOf(3, 3, Types', Values', Exprs') = EmptyTree
  BY <1>5, NothingSaid
<1>7. ScopesTo(3)'
  BY <1>3, <1>5 DEF ScopesTo
<1>8. 3 \in 3 .. Len(open')
  BY <1>3
<1>9. QED
  BY <1>2, <1>5, <1>6, <1>7, <1>8 DEF TreeFollows

(* Inside of a rule: what was said before is in the tree in hand.          *)
LEMMA InsideContext ==
  ASSUME NEW el \in Elements, ParserKnown, plain => regular, NestFollows, TreeFollows,
         StartsInRules(el), NEW n \in Nat, n = Len(open), n >= 3
  PROVE  /\ \E b \in 3 .. n :
              /\ ScopesTo(b)
              /\ trees[m_currentRule.pExpTree] = TreeOf(b, n, Types, Values, Exprs)
              /\ open[n] # "operator" => b = n
         /\ Depth = n
         /\ Len(open') = n + 1 /\ open'[n + 1] = el.name
         /\ \A k \in 1 .. n : open'[k] = open[k]
         /\ m_currentRule.pExpTree # NULL
<1>1. /\ plain /\ phase = "parsing" /\ m_stGlobal = "rules" /\ Last(open) # "byte"
      /\ InHand
  BY StartContext
<1>2. Depth = n
  BY <1>1 DEF Depth
<1>3. PICK b \in 3 .. n :
        /\ ScopesTo(b)
        /\ trees[m_currentRule.pExpTree] = TreeOf(b, n, Types, Values, Exprs)
  BY <1>1, <1>2 DEF TreeFollows, InRule
<1>4. open[n] # "operator" => b = n
  BY <1>2, <1>3 DEF ScopesTo
<1>5. /\ Len(open') = n + 1 /\ open'[n + 1] = el.name
      /\ \A k \in 1 .. n : open'[k] = open[k]
  BY Pushed DEF StartsInRules, FollowStart, ParserKnown, TypeInv
<1>6. m_currentRule.pExpTree # NULL
  BY <1>1 DEF InHand
<1>7. QED
  BY <1>2, <1>3, <1>4, <1>5, <1>6

LEMMA ScopeStartsTree ==
  ASSUME NEW el \in Elements, ParserKnown, plain => regular, NestFollows, TreeFollows,
         StartsInRules(el), Len(open) >= 3, el.name \in Scopes
  PROVE  TreeFollows'
<1>1. /\ processRules(el) /\ ~Reject /\ Regular(el) /\ KeepsConditions(el)
      /\ Len(open) \in Nat /\ Last(open) # "byte" /\ plain
  BY StartContext
<1>2. PICK n \in Nat : n = Len(open) /\ n >= 3 /\ n # 0
  BY <1>1
<1>3. open[n] # "operator"
  <2>1. open # <<>> /\ Last(open) = open[n]
    <3>1. open # <<>>
      BY <1>2 DEF ParserKnown, TypeInv, ParserInv
    <3>2. QED
      BY <1>2, <3>1, ShorterIsSeq DEF ParserKnown, TypeInv, ParserInv
  <2>2. el.name \in Inside(open[n])
    BY <1>1, <2>1 DEF Regular
  <2>3. Inside("operator") = {"byte", "operator"}
    BY DEF Inside
  <2>4. QED
    BY <2>2, <2>3 DEF Scopes
<1>4. /\ ScopesTo(n) /\ Depth = n
      /\ trees[m_currentRule.pExpTree] = TreeOf(n, n, Types, Values, Exprs)
      /\ Len(open') = n + 1 /\ open'[n + 1] = el.name
      /\ \A k \in 1 .. n : open'[k] = open[k]
  BY <1>2, <1>3, InsideContext
<1>5. /\ Depth' = n + 1
      /\ Agree(Exprs, Exprs', 1, n) /\ Exprs'[n + 1] = {}
      /\ Agree(Values, Values', 1, n - 1) /\ Values'[n] = Values[n]
      /\ Values'[n + 1] = {}
  <2>1. el.name # "byte"
    BY DEF Scopes
  <2>2. n \in Nat \ {0}
    BY <1>2
  <2>3. QED
    <3>1. ParserInv /\ FollowStart(el) /\ plain'
      BY DEF StartsInRules, ParserKnown, TypeInv
    <3>2. /\ Depth = n /\ Depth' = IF el.name = "byte" THEN n ELSE n + 1
          /\ Agree(Types, Types', 1, n) /\ Types'[n + 1] = Attr(el, "type")
          /\ Agree(Exprs, Exprs', 1, n) /\ Exprs'[n + 1] = {}
          /\ Agree(Values, Values', 1, n - 1)
          /\ Values'[n] = Values[n] \cup (IF el.name = "byte" THEN Said(el) ELSE {})
          /\ el.name # "byte" => Values'[n + 1] = {}
      BY <1>1, <1>2, <2>2, <3>1, StartSays, Zenon
    <3>3. Values[n] \cup {} = Values[n]
      OBVIOUS
    <3>4. QED
      BY <2>1, <3>2, <3>3
<1>6. Agree(Exprs, Exprs', 3, n) /\ Agree(Values, Values', 3, n)
  <2>1. \A k \in 3 .. n : k \in 1 .. n /\ (k \in 1 .. (n - 1) \/ k = n)
    BY <1>2
  <2>2. QED
    BY <1>5, <2>1 DEF Agree
<1>7. ScopesTo(n + 1)'
  <2>1. \A k \in 4 .. (n + 1) : k \in 4 .. n \/ k = n + 1
    OBVIOUS
  <2>2. \A k \in 4 .. (n + 1) : open'[k] \in Scopes
    BY <1>2, <1>4, <2>1 DEF ScopesTo
  <2>3. open'[3] = "rule" /\ n + 1 \in 3 .. Depth'
    BY <1>2, <1>4, <1>5 DEF ScopesTo
  <2>4. \A k \in ((n + 1) + 1) .. Depth' : FALSE
    BY <1>5
  <2>5. QED
    BY <2>2, <2>3, <2>4 DEF ScopesTo
<1>8. trees'[m_currentRule'.pExpTree] = TreeOf(n + 1, n + 1, Types', Values', Exprs')
  <2>1. CASE el.name = "expression"
    <3>1. trees'[m_currentRule'.pExpTree] = EmptyTree
      <4>1. startExpression(el)
        BY <1>1, <2>1 DEF processRules, startRule, startByte, startOperator, startOther
      <4>2. QED
        BY <1>1, <4>1, StartPlants, Planted DEF ParserKnown, TypeInv
    <3>2. ASSUME NEW k \in 3 .. (n + 1) PROVE Values'[k] = {} /\ Exprs'[k] = {}
      <4>1. CASE k = n + 1
        BY <1>5, <4>1
      <4>2. CASE k \in 3 .. n
        <5>1. nest[k].values = {} /\ nest[k].exprs = {}
          <6>1. k \in DOMAIN nest
            <7>1. Len(nest) = n /\ \E S : nest \in Seq(S)
              BY <1>1, <1>2 DEF NestFollows
            <7>2. QED
              BY <4>2, <7>1
          <6>2. QED
            BY <1>1, <2>1, <6>1 DEF KeepsConditions
        <5>2. Values[k] = {} /\ Exprs[k] = {}
          BY <1>1, <1>2, <4>2, <5>1 DEF Values, Exprs
        <5>3. QED
          BY <1>6, <4>2, <5>2 DEF Agree
      <4>3. QED
        BY <4>1, <4>2
    <3>3. QED
      BY <3>1, <3>2, NothingSaid
  <2>2. CASE el.name # "expression"
    <3>1. UNCHANGED <<m_currentRule, trees>>
      BY <1>1, <2>2 DEF processRules, startRule, startExpression, startByte, startOperator,
                        startOther, Scopes
    <3>2. Upto(Values', n + 1) = Upto(Values, n) /\ Upto(Exprs', n + 1) = Upto(Exprs, n)
      BY <1>2, <1>5, <1>6, UptoOpens
    <3>3. QED
      BY <1>4, <3>1, <3>2, RootAlone
  <2>3. QED
    BY <2>1, <2>2
<1>9. n + 1 \in 3 .. Len(open')
  BY <1>2, <1>4
<1>10. QED
  BY <1>5, <1>7, <1>8, <1>9 DEF TreeFollows


(* The tree gets the condition that the tag of a byte says.                *)
LEMMA ByteAdds ==
  ASSUME NEW el, startByte(el), ~Reject, Regular(el)
  PROVE  /\ m_currentRule' = m_currentRule
         /\ \/ /\ Said(el) = {} /\ trees' = trees
            \/ \E v : /\ Said(el) = {v}
                      /\ trees'[m_currentRule.pExpTree] =
                           addValue(trees[m_currentRule.pExpTree], v)
<1> DEFINE p     == m_currentRule.pExpTree
           index == Attr(el, "index")
           value == Attr(el, "value")
           range == Attr(el, "value-range")
<1>1. addByte(el) /\ Has(el, "index") /\ m_currentRule' = m_currentRule
  BY DEF startByte
<1>2. index \in DOMAIN Numbers /\ (value # NoAttr => value \in DOMAIN Numbers)
  BY <1>1 DEF Regular, Has
<1>3. \A v : trees' = Put(trees, p, addValue(trees[p], v))
               => trees'[p] = addValue(trees[p], v)
  BY DEF Put
<1>4. CASE value # NoAttr
  <2> DEFINE v == SingleValue(Numbers[index], Numbers[value])
  <2>1. trees' = Put(trees, p, addValue(trees[p], v))
    BY <1>1, <1>2, <1>4 DEF addByte
  <2>2. Said(el) = {v}
    BY <1>4 DEF Said
  <2>3. QED
    BY <1>1, <1>3, <2>1, <2>2
<1>5. CASE value = NoAttr /\ range \in DOMAIN Ranges
  <2> DEFINE v == BoundedValue(Numbers[index], Ranges[range][1], Ranges[range][2])
  <2>1. trees' = Put(trees, p, addValue(trees[p], v))
    <3>1. range \in DOMAIN Halves
      BY <1>5 DEF Ranges
    <3>2. QED
      BY <1>1, <1>2, <1>5, <3>1 DEF addByte
  <2>2. Said(el) = {v}
    BY <1>5 DEF Said
  <2>3. QED
    BY <1>1, <1>3, <2>1, <2>2
<1>6. CASE value = NoAttr /\ range \notin DOMAIN Ranges
  <2>1. trees' = trees
    <3>1. range \notin DOMAIN Halves
      BY <1>6 DEF Regular
    <3>2. QED
      BY <1>1, <1>2, <1>6, <3>1 DEF addByte
  <2>2. Said(el) = {}
    BY <1>6 DEF Said
  <2>3. QED
    BY <1>1, <2>1, <2>2
<1>7. QED
  BY <1>4, <1>5, <1>6

LEMMA ByteStartsTree ==
  ASSUME NEW el \in Elements, ParserKnown, plain => regular, NestFollows, TreeFollows,
         StartsInRules(el), Len(open) >= 3, el.name = "byte"
  PROVE  TreeFollows'
<1>1. /\ processRules(el) /\ ~Reject /\ Regular(el)
      /\ Len(open) \in Nat /\ Last(open) # "byte"
  BY StartContext
<1>2. PICK n \in Nat : n = Len(open) /\ n >= 3 /\ n \in Nat \ {0}
  BY <1>1
<1>3. PICK b \in 3 .. n :
        /\ ScopesTo(b) /\ Depth = n
        /\ trees[m_currentRule.pExpTree] = TreeOf(b, n, Types, Values, Exprs)
        /\ Len(open') = n + 1
        /\ \A k \in 1 .. n : open'[k] = open[k]
  BY <1>2, InsideContext
<1>4. /\ Depth' = n
      /\ Agree(Types, Types', 1, n) /\ Agree(Exprs, Exprs', 1, n)
      /\ Agree(Values, Values', 1, n - 1) /\ Values'[n] = Values[n] \cup Said(el)
  BY <1>1, <1>2, StartSays DEF StartsInRules, ParserKnown, TypeInv
<1>5. /\ Agree(Types, Types', b + 1, n) /\ Agree(Exprs, Exprs', 3, n)
      /\ Agree(Values, Values', 3, n - 1)
  <2>1. (b + 1) .. n \subseteq 1 .. n /\ 3 .. n \subseteq 1 .. n /\ 3 .. (n - 1) \subseteq 1 .. (n - 1)
    OBVIOUS
  <2>2. QED
    BY <1>4, <2>1 DEF Agree
<1>6. ScopesTo(b)'
  <2>1. /\ b \in 3 .. Depth' /\ 3 \in 1 .. n
        /\ 4 .. b \subseteq 1 .. n /\ (b + 1) .. Depth' \subseteq 1 .. n
    BY <1>4
  <2>2. QED
    BY <1>3, <1>4, <2>1 DEF ScopesTo
<1>7. trees'[m_currentRule'.pExpTree] = TreeOf(b, n, Types', Values', Exprs')
  <2>1. startByte(el)
    BY <1>1 DEF processRules, startRule, startExpression, startOperator, startOther
  <2>2. m_currentRule' = m_currentRule
    BY <1>1, <2>1, ByteAdds
  <2>3. CASE Said(el) = {} /\ trees' = trees
    <3>1. Agree(Values, Values', 3, n)
      <4>1. \A k \in 3 .. n : k \in 3 .. (n - 1) \/ k = n
        OBVIOUS
      <4>2. QED
        BY <1>4, <1>5, <2>3, <4>1 DEF Agree
    <3>2. QED
      BY <1>2, <1>3, <1>5, <2>2, <2>3, <3>1, TreeAgrees
  <2>4. ASSUME NEW v, Said(el) = {v},
               trees'[m_currentRule.pExpTree] = addValue(trees[m_currentRule.pExpTree], v)
        PROVE  trees'[m_currentRule'.pExpTree] = TreeOf(b, n, Types', Values', Exprs')
    <3>1. addValue(TreeOf(b, n, Types, Values, Exprs), v) = TreeOf(b, n, Types, Values', Exprs)
      BY <1>2, <1>4, <1>5, <2>4, AddValueTree
    <3>2. Agree(Values', Values', 3, n)
      BY DEF Agree
    <3>3. TreeOf(b, n, Types, Values', Exprs) = TreeOf(b, n, Types', Values', Exprs')
      BY <1>2, <1>5, <3>2, TreeAgrees
    <3>4. QED
      BY <1>3, <2>2, <2>4, <3>1, <3>3
  <2>5. QED
    BY <1>1, <2>1, <2>3, <2>4, ByteAdds
<1>8. b \in 3 .. Len(open')
  BY <1>3
<1>9. QED
  BY <1>4, <1>6, <1>7, <1>8 DEF TreeFollows

LEMMA OperatorStartsTree ==
  ASSUME NEW el \in Elements, ParserKnown, plain => regular, NestFollows, TreeFollows,
         StartsInRules(el), Len(open) >= 3, el.name = "operator"
  PROVE  TreeFollows'
<1>1. /\ processRules(el) /\ ~Reject
      /\ Len(open) \in Nat /\ Last(open) # "byte"
  BY StartContext
<1>2. PICK n \in Nat : n = Len(open) /\ n >= 3 /\ n \in Nat \ {0}
  BY <1>1
<1>3. PICK b \in 3 .. n :
        /\ ScopesTo(b) /\ Depth = n
        /\ trees[m_currentRule.pExpTree] = TreeOf(b, n, Types, Values, Exprs)
        /\ Len(open') = n + 1 /\ open'[n + 1] = "operator"
        /\ \A k \in 1 .. n : open'[k] = open[k]
  BY <1>2, InsideContext
<1>4. /\ Depth' = n + 1
      /\ Agree(Types, Types', 1, n) /\ Types'[n + 1] = Attr(el, "type")
      /\ Agree(Exprs, Exprs', 1, n) /\ Exprs'[n + 1] = {}
      /\ Agree(Values, Values', 1, n - 1) /\ Values'[n] = Values[n]
      /\ Values'[n + 1] = {}
  <2>1. ParserInv /\ FollowStart(el) /\ plain'
    BY DEF StartsInRules, ParserKnown, TypeInv
  <2>2. /\ Depth = n /\ Depth' = IF el.name = "byte" THEN n ELSE n + 1
        /\ Agree(Types, Types', 1, n) /\ Types'[n + 1] = Attr(el, "type")
        /\ Agree(Exprs, Exprs', 1, n) /\ Exprs'[n + 1] = {}
        /\ Agree(Values, Values', 1, n - 1)
        /\ Values'[n] = Values[n] \cup (IF el.name = "byte" THEN Said(el) ELSE {})
        /\ el.name # "byte" => Values'[n + 1] = {}
    BY <1>1, <1>2, <2>1, StartSays, Zenon
  <2>3. el.name # "byte" /\ Values[n] \cup {} = Values[n]
    OBVIOUS
  <2>4. QED
    BY <2>2, <2>3
<1>5. /\ Agree(Types, Types', b + 1, n) /\ Agree(Exprs, Exprs', 3, n)
      /\ Agree(Values, Values', 3, n)
  <2>1. (b + 1) .. n \subseteq 1 .. n /\ 3 .. n \subseteq 1 .. n
    OBVIOUS
  <2>2. \A k \in 3 .. n : k \in 1 .. (n - 1) \/ k = n
    OBVIOUS
  <2>3. QED
    BY <1>4, <2>1, <2>2 DEF Agree
<1>6. ScopesTo(b)'
  <2>1. /\ b \in 3 .. Depth' /\ 3 \in 1 .. n /\ 4 .. b \subseteq 1 .. n
        /\ \A k \in (b + 1) .. Depth' : k \in (b + 1) .. n \/ k = n + 1
    BY <1>2, <1>4
  <2>a. (b + 1) .. n \subseteq 1 .. n
    OBVIOUS
  <2>2. /\ open'[3] = "rule" /\ \A k \in 4 .. b : open'[k] \in Scopes
    BY <1>3, <2>1 DEF ScopesTo
  <2>3. \A k \in (b + 1) .. Depth' : open'[k] = "operator"
    BY <1>3, <2>1, <2>a DEF ScopesTo
  <2>4. QED
    BY <2>1, <2>2, <2>3 DEF ScopesTo
<1>7. trees'[m_currentRule'.pExpTree] = TreeOf(b, n + 1, Types', Values', Exprs')
  <2>1. startOperator(el)
    BY <1>1 DEF processRules, startRule, startExpression, startByte, startOther
  <2> DEFINE p == m_currentRule.pExpTree
             type == Attr(el, "type")
  <2>2. /\ type \in {"AND", "OR"} /\ m_currentRule' = m_currentRule
        /\ trees' = Put(trees, p, operatorStart(trees[p], type))
    BY <1>1, <2>1 DEF startOperator
  <2>3. trees'[p] = operatorStart(trees[p], type)
    BY <2>2 DEF Put
  <2> HIDE DEF type
  <2>4. operatorStart(TreeOf(b, n, Types, Values, Exprs), type) =
          TreeOf(b, n + 1, Types', Values', Exprs')
    <3>1. b \in Nat /\ n \in Nat /\ 3 <= b /\ b <= n
      BY <1>2
    <3>2. type \in {"AND", "OR"} /\ Types'[n + 1] = type
      BY <1>4, <2>2 DEF type
    <3>3. Exprs'[n + 1] = {} /\ Values'[n + 1] = {}
      BY <1>4
    <3>4. QED
      BY <1>5, <3>1, <3>2, <3>3, OperatorOpensTree, SMTT(60)
  <2>5. QED
    BY <1>3, <2>2, <2>3, <2>4
<1>8. b \in 3 .. Len(open')
  BY <1>3
<1>9. QED
  BY <1>4, <1>6, <1>7, <1>8 DEF TreeFollows

LEMMA TreeFollowsStart ==
  ASSUME NEW el \in Elements, ParserKnown, plain => regular, NestFollows, TreeFollows,
         FollowStart(el)
  PROVE  TreeFollows'
<1> SUFFICES ASSUME plain', InRule' PROVE TreeFollows'
  BY DEF TreeFollows
<1>1. StartsInRules(el)
  BY DEF StartsInRules, InRule
<1>2. /\ Len(open) \in Nat /\ Len(open) >= 2
      /\ Len(open) = 2 => el.name = "rule"
      /\ Len(open) >= 3 => el.name \in Scopes \cup {"byte", "operator"}
  BY <1>1, StartContext
<1>3. Len(open) = 2 \/ Len(open) >= 3
  <2>1. PICK n \in Nat : n = Len(open) /\ n >= 2
    BY <1>2
  <2>2. n = 2 \/ n >= 3
    BY <2>1
  <2>3. QED
    BY <2>1, <2>2
<1>4. QED
  BY <1>1, <1>2, <1>3, RuleStartsTree, ScopeStartsTree, ByteStartsTree, OperatorStartsTree


-----------------------------------------------------------------------------
(* What an end tag does to what the file says, by the tag.                 *)
LEMMA EndSays ==
  ASSUME ParserInv, NestFollows, FollowEnd, plain,
         NEW n \in Nat, n >= 1, Len(open) = n + 1, open[n] # "byte"
  PROVE  /\ Last(open) = open[n + 1] /\ Len(open') = n
         /\ \A k \in 1 .. n : open'[k] = open[k]
         /\ Depth = (IF Last(open) = "byte" THEN n ELSE n + 1) /\ Depth' = n
         /\ Agree(Types, Types', 1, n)
         /\ Agree(Values, Values', 1, n - 1)
         /\ Agree(Exprs, Exprs', 1, n - 1)
         /\ Last(open) = "byte" => Values'[n] = Values[n] /\ Exprs'[n] = Exprs[n]
         /\ Last(open) = "operator" =>
              /\ Values'[n] = Values[n]
              /\ Exprs'[n] = Exprs[n] \cup {[opType    |-> Types[n + 1],
                                             lstValues |-> Values[n + 1],
                                             lstExpr   |-> Exprs[n + 1]]}
         /\ Last(open) \in Scopes =>
              /\ Values'[n] = Values[n] \cup Values[n + 1]
              /\ Exprs'[n] = Exprs[n] \cup Exprs[n + 1]
<1>1. /\ Last(open) = open[n + 1] /\ Len(open') = n
      /\ \A k \in 1 .. n : open'[k] = open[k]
  <2>1. Len(open) - 1 = n
    OBVIOUS
  <2>2. QED
    BY <2>1, Popped DEF FollowEnd
<1>2. Last(open') = open[n]
  <2>1. open' \in Seq({el.name : el \in Elements})
    BY Popped, ShorterIsSeq DEF FollowEnd, EndElement, ParserInv
  <2>2. open' # <<>>
    BY <1>1, <2>1
  <2>3. Last(open') = open'[n]
    BY <1>1, <2>1, <2>2, ShorterIsSeq
  <2>4. QED
    BY <1>1, <2>3
<1>3. Depth = (IF Last(open) = "byte" THEN n ELSE n + 1) /\ Depth' = n
  BY <1>1, <1>2 DEF Depth
<1>4. /\ \A k \in 1 .. (n - 1) : nest'[k] = nest[k]
      /\ nest'[n].el = nest[n].el
      /\ nest'[n].values = nest[n].values \cup ValuesOf(nest[n + 1])
      /\ nest'[n].exprs = nest[n].exprs \cup ExprsOf(nest[n + 1])
  <2>1. (n + 1) - 1 = n /\ (n + 1) - 2 = n - 1 /\ n + 1 >= 2
    OBVIOUS
  <2>2. QED
    BY <2>1, NestPopped
<1>5. nest[n + 1].el.name = Last(open)
  <2>1. n + 1 \in 1 .. (n + 1)
    OBVIOUS
  <2>2. QED
    BY <1>1, <2>1 DEF NestFollows
<1>6. /\ \A k \in 1 .. n : k \in 1 .. (n - 1) \/ k = n
      /\ \A k \in 1 .. (n - 1) : k \in 1 .. n /\ k \in 1 .. (n + 1) /\ k # n
      /\ n \in 1 .. n /\ n \in 1 .. (n + 1) /\ n + 1 \in 1 .. (n + 1)
      /\ \A k \in 1 .. n : k \in 1 .. (n + 1)
  OBVIOUS
<1>7. Agree(Types, Types', 1, n)
  <2>1. /\ Types = [k \in 1 .. (n + 1) |-> Attr(nest[k].el, "type")]
        /\ Types' = [k \in 1 .. n |-> Attr(nest'[k].el, "type")]
    BY <1>1, Zenon DEF Types
  <2>2. \A k \in 1 .. n : nest'[k].el = nest[k].el
    BY <1>4, <1>6
  <2>3. QED
    BY <1>6, <2>1, <2>2 DEF Agree
<1>8. /\ \A k \in 1 .. (n + 1) : Exprs[k] = nest[k].exprs
      /\ \A k \in 1 .. n : Exprs'[k] = nest'[k].exprs
  BY <1>1 DEF Exprs
<1>9. Agree(Exprs, Exprs', 1, n - 1)
  BY <1>4, <1>6, <1>8 DEF Agree
<1>10. /\ \A k \in 1 .. n : Values'[k] = nest'[k].values
       /\ \A k \in 1 .. (n + 1) :
            Values[k] = nest[k].values \cup
              (IF k = Depth /\ Last(open) = "byte" THEN Said(nest[n + 1].el) ELSE {})
  <2>1. Last(open') # "byte"
    BY <1>2
  <2>2. QED
    BY <1>1, <2>1 DEF Values
<1>11. Agree(Values, Values', 1, n - 1)
  <2>1. ASSUME NEW k \in 1 .. (n - 1) PROVE Values[k] = Values'[k]
    <3>1. k \in 1 .. n /\ k \in 1 .. (n + 1) /\ ~(k = Depth /\ Last(open) = "byte")
      BY <1>3, <1>6
    <3>2. Values[k] = nest[k].values
      BY <1>10, <3>1
    <3>3. Values'[k] = nest'[k].values
      BY <1>10, <3>1
    <3>4. nest'[k] = nest[k]
      BY <1>4
    <3>5. QED
      BY <3>2, <3>3, <3>4
  <2>2. QED
    BY <2>1 DEF Agree
<1>12. ASSUME Last(open) = "byte" PROVE Values'[n] = Values[n] /\ Exprs'[n] = Exprs[n]
  <2>1. ValuesOf(nest[n + 1]) = Said(nest[n + 1].el) /\ ExprsOf(nest[n + 1]) = {}
    BY <1>5, <1>12 DEF ValuesOf, ExprsOf
  <2>2. QED
    BY <1>3, <1>4, <1>6, <1>8, <1>10, <1>12, <2>1
<1>13. ASSUME Last(open) = "operator"
       PROVE  /\ Values'[n] = Values[n]
              /\ Exprs'[n] = Exprs[n] \cup {[opType    |-> Types[n + 1],
                                             lstValues |-> Values[n + 1],
                                             lstExpr   |-> Exprs[n + 1]]}
  <2>1. /\ ValuesOf(nest[n + 1]) = {}
        /\ ExprsOf(nest[n + 1]) = {[opType    |-> Attr(nest[n + 1].el, "type"),
                                    lstValues |-> nest[n + 1].values,
                                    lstExpr   |-> nest[n + 1].exprs]}
    BY <1>5, <1>13 DEF ValuesOf, ExprsOf
  <2>2. Types[n + 1] = Attr(nest[n + 1].el, "type")
    BY <1>6 DEF Types
  <2>3. /\ Values[n + 1] = nest[n + 1].values /\ Values[n] = nest[n].values
        /\ Exprs[n + 1] = nest[n + 1].exprs
    BY <1>6, <1>8, <1>10, <1>13
  <2>4. QED
    BY <1>4, <1>6, <1>8, <1>10, <2>1, <2>2, <2>3
<1>14. ASSUME Last(open) \in Scopes
       PROVE  /\ Values'[n] = Values[n] \cup Values[n + 1]
              /\ Exprs'[n] = Exprs[n] \cup Exprs[n + 1]
  <2>1. Last(open) \notin {"byte", "operator", "rule"}
    BY <1>14 DEF Scopes
  <2>2. ValuesOf(nest[n + 1]) = nest[n + 1].values /\ ExprsOf(nest[n + 1]) = nest[n + 1].exprs
    BY <1>5, <2>1 DEF ValuesOf, ExprsOf
  <2>3. QED
    BY <1>4, <1>6, <1>8, <1>10, <2>1, <2>2
<1>15. QED
  BY <1>1, <1>3, <1>7, <1>9, <1>11, <1>12, <1>13, <1>14


(* An end tag that leaves the parser inside of a rule.                     *)
LEMMA EndContext ==
  ASSUME ParserKnown, plain => regular, NestFollows, TreeFollows, FollowEnd, plain', InRule'
  PROVE  /\ plain /\ m_stGlobal = "rules" /\ Len(open) \in Nat /\ Len(open) >= 4
         /\ IF Last(open) = "operator" THEN endOperator ELSE endOther(Last(open))
         /\ m_currentRule.pExpTree # NULL
         /\ \E b \in 3 .. Len(open) :
              /\ ScopesTo(b)
              /\ trees[m_currentRule.pExpTree] = TreeOf(b, Depth, Types, Values, Exprs)
<1>1. EndElement /\ phase = "parsing"
  BY DEF FollowEnd, EndElement, InRule
<1>2. plain /\ regular
  BY Zenon DEF FollowEnd
<1>3. Lined /\ InHand
  BY <1>1, <1>2 DEF ParserKnown, RegularInv
<1>4. Len(open) \in Nat /\ Len(open) >= 4
  BY <1>1, Popped DEF InRule, ParserKnown, TypeInv
<1>5. m_stGlobal' = m_stGlobal /\ (m_stGlobal = "rules" => Last(open) # "rule")
  BY <1>1, <1>3, <1>4, RegularEndTag DEF ParserKnown, TypeInv
<1>6. m_stGlobal = "rules" /\ Last(open) # "rule"
  BY <1>5 DEF InRule
<1>7. IF Last(open) = "operator" THEN endOperator ELSE endOther(Last(open))
  BY <1>1, <1>6 DEF EndElement, onEndElement
<1>8. m_currentRule.pExpTree # NULL
  BY <1>3, <1>4, <1>6 DEF InHand
<1>9. InRule
  BY <1>1, <1>4, <1>6 DEF InRule
<1>10. QED
  BY <1>2, <1>4, <1>6, <1>7, <1>8, <1>9 DEF TreeFollows

LEMMA TreeFollowsEnd ==
  ASSUME ParserKnown, plain => regular, NestFollows, TreeFollows, FollowEnd
  PROVE  TreeFollows'
<1> SUFFICES ASSUME plain', InRule' PROVE TreeFollows'
  BY DEF TreeFollows
<1> DEFINE p == m_currentRule.pExpTree
<1>1. /\ plain /\ Len(open) \in Nat /\ Len(open) >= 4 /\ p # NULL
      /\ IF Last(open) = "operator" THEN endOperator ELSE endOther(Last(open))
  BY EndContext
<1>2. PICK n \in Nat : Len(open) = n + 1 /\ n >= 3
  <2>1. PICK m \in Nat : m = Len(open)
    BY <1>1
  <2>2. m - 1 \in Nat /\ m = (m - 1) + 1 /\ m - 1 >= 3
    BY <1>1, <2>1
  <2>3. QED
    BY <2>1, <2>2
<1>3. PICK b \in 3 .. Len(open) :
        ScopesTo(b) /\ trees[p] = TreeOf(b, Depth, Types, Values, Exprs)
  BY EndContext
<1>4. Last(open) = open[n + 1]
  <2>1. Len(open) = n + 1
    BY <1>2
  <2>2. QED
    BY <2>1, Popped DEF FollowEnd, ParserKnown, TypeInv
<1>5. Depth = IF Last(open) = "byte" THEN n ELSE n + 1
  BY <1>2 DEF Depth
<1>6. b \in Nat /\ 3 <= b /\ b <= Depth
  BY <1>2, <1>3 DEF ScopesTo
<1>7. open[n] # "byte"
  <2>1. n \in 3 .. Depth
    BY <1>2, <1>5
  <2>2. n = 3 \/ n \in 4 .. b \/ n \in (b + 1) .. Depth
    BY <1>5, <1>6, <2>1
  <2>3. QED
    BY <1>3, <2>2 DEF ScopesTo, Scopes
<1>8. /\ Len(open') = n /\ \A k \in 1 .. n : open'[k] = open[k]
      /\ Depth' = n
      /\ Agree(Types, Types', 1, n)
      /\ Agree(Values, Values', 1, n - 1)
      /\ Agree(Exprs, Exprs', 1, n - 1)
      /\ Last(open) = "byte" => Values'[n] = Values[n] /\ Exprs'[n] = Exprs[n]
      /\ Last(open) = "operator" =>
           /\ Values'[n] = Values[n]
           /\ Exprs'[n] = Exprs[n] \cup {[opType    |-> Types[n + 1],
                                          lstValues |-> Values[n + 1],
                                          lstExpr   |-> Exprs[n + 1]]}
      /\ Last(open) \in Scopes =>
           /\ Values'[n] = Values[n] \cup Values[n + 1]
           /\ Exprs'[n] = Exprs[n] \cup Exprs[n + 1]
  <2>1. n >= 1 /\ Len(open) = n + 1
    BY <1>2
  <2>2. QED
    BY <1>1, <1>7, <2>1, EndSays DEF ParserKnown, TypeInv
<1>9. ASSUME Last(open) # "byte"
      PROVE  \/ Last(open) = "operator" /\ b <= n
             \/ Last(open) \in Scopes /\ b = n + 1
  <2>2. Depth = n + 1 /\ n + 1 \in 4 .. (n + 1) /\ (b = n + 1 \/ b <= n)
    BY <1>2, <1>5, <1>6, <1>9
  <2>3. b = n + 1 => open[n + 1] \in Scopes
    BY <1>3, <2>2 DEF ScopesTo
  <2>4. b <= n => open[n + 1] = "operator"
    <3>1. b <= n => n + 1 \in (b + 1) .. (n + 1)
      BY <1>6
    <3>2. QED
      BY <1>3, <2>2, <3>1 DEF ScopesTo
  <2>5. QED
    BY <1>4, <2>2, <2>3, <2>4
<1>10. ASSUME NEW c \in 3 .. n, c <= b, c = b \/ (c = n /\ b = n + 1)
       PROVE  ScopesTo(c)'
  <2>1. /\ 3 \in 1 .. n /\ 4 .. c \subseteq 1 .. n /\ 4 .. c \subseteq 4 .. b
        /\ \A k \in (c + 1) .. n : k \in 1 .. n /\ k \in (b + 1) .. Depth
    BY <1>2, <1>5, <1>6, <1>10
  <2>2. open'[3] = "rule" /\ \A k \in 4 .. c : open'[k] \in Scopes
    BY <1>3, <1>8, <2>1 DEF ScopesTo
  <2>3. \A k \in (c + 1) .. n : open'[k] = "operator"
    BY <1>3, <1>8, <2>1 DEF ScopesTo
  <2>4. QED
    BY <1>8, <2>2, <2>3 DEF ScopesTo
<1>11. CASE Last(open) = "byte"
  <2>1. UNCHANGED <<m_currentRule, trees>>
    BY <1>1, <1>11 DEF endOther, rules
  <2>2. /\ Agree(Types, Types', b + 1, n) /\ Agree(Values, Values', 3, n)
        /\ Agree(Exprs, Exprs', 3, n)
    <3>1. \A k \in 3 .. n : k \in 1 .. (n - 1) \/ k = n
      OBVIOUS
    <3>2. \A k \in (b + 1) .. n : k \in 1 .. n
      BY <1>6
    <3>3. QED
      BY <1>8, <1>11, <3>1, <3>2 DEF Agree
  <2>3. b <= n /\ Depth = n
    BY <1>5, <1>6, <1>11
  <2>4. TreeOf(b, n, Types, Values, Exprs) = TreeOf(b, n, Types', Values', Exprs')
    BY <1>6, <2>2, <2>3, TreeAgrees
  <2>5. b \in 3 .. n
    BY <1>6, <2>3
  <2>6. ScopesTo(b)'
    BY <1>6, <1>10, <2>5
  <2>7. trees'[m_currentRule'.pExpTree] = TreeOf(b, Depth', Types', Values', Exprs')
    BY <1>3, <1>8, <2>1, <2>3, <2>4
  <2>8. QED
    BY <1>8, <2>5, <2>6, <2>7 DEF TreeFollows
<1>12. CASE Last(open) = "operator" /\ b <= n
  <2>1. /\ m_currentRule' = m_currentRule
        /\ trees' = Put(trees, p, operatorEnd(trees[p]))
    BY <1>1, <1>12 DEF endOperator
  <2>2. trees'[p] = operatorEnd(trees[p])
    BY <2>1 DEF Put
  <2>3. Depth = n + 1 /\ b < n + 1 /\ n + 1 \in Nat /\ (n + 1) - 1 = n /\ (n + 1) - 2 = n - 1
    BY <1>5, <1>6, <1>12
  <2>4. /\ Agree(Types, Types', b + 1, n) /\ Agree(Values, Values', 3, n)
        /\ Agree(Exprs, Exprs', 3, n - 1)
    <3>1. \A k \in 3 .. n : k \in 1 .. (n - 1) \/ k = n
      OBVIOUS
    <3>2. \A k \in (b + 1) .. n : k \in 1 .. n
      BY <1>6
    <3>3. \A k \in 3 .. (n - 1) : k \in 1 .. (n - 1)
      OBVIOUS
    <3>4. Agree(Types, Types', b + 1, n)
      BY <1>8, <3>2 DEF Agree
    <3>5. Agree(Exprs, Exprs', 3, n - 1)
      BY <1>8, <3>3 DEF Agree
    <3>6. Agree(Values, Values', 3, n)
      <4>1. Values'[n] = Values[n] /\ \A k \in 1 .. (n - 1) : Values[k] = Values'[k]
        BY <1>8, <1>12 DEF Agree
      <4>2. \A k \in 3 .. n : Values[k] = Values'[k]
        BY <3>1, <4>1
      <4>3. QED
        BY <4>2 DEF Agree
    <3>7. QED
      BY <3>4, <3>5, <3>6
  <2>5. operatorEnd(TreeOf(b, n + 1, Types, Values, Exprs)) =
          TreeOf(b, n, Types', Values', Exprs')
    <3>1. PICK d \in Nat : d = n + 1 /\ b < d /\ d - 1 = n /\ d - 2 = n - 1
      BY <2>3
    <3>2. /\ Agree(Types, Types', b + 1, d - 1) /\ Agree(Values, Values', 3, d - 1)
          /\ Agree(Exprs, Exprs', 3, d - 2)
          /\ Exprs'[d - 1] = Exprs[d - 1] \cup {[opType    |-> Types[d],
                                                 lstValues |-> Values[d],
                                                 lstExpr   |-> Exprs[d]]}
      BY <1>8, <1>12, <2>4, <3>1
    <3>3. operatorEnd(TreeOf(b, d, Types, Values, Exprs)) =
            TreeOf(b, d - 1, Types', Values', Exprs')
      <4>1. b \in Nat /\ 3 <= b
        BY <1>6
      <4>2. Closes(b, d, Types, Values, Exprs, Types', Values', Exprs')
        BY <3>1, <3>2, <4>1 DEF Closes
      <4>3. QED
        BY <4>2, OperatorClosesTree
    <3>4. QED
      BY <3>1, <3>3
  <2>6. b \in 3 .. n
    BY <1>6, <1>12
  <2>7. ScopesTo(b)'
    BY <1>6, <1>10, <2>6
  <2>8. trees'[m_currentRule'.pExpTree] = TreeOf(b, Depth', Types', Values', Exprs')
    BY <1>3, <1>8, <2>1, <2>2, <2>3, <2>5
  <2>9. QED
    BY <1>8, <2>6, <2>7, <2>8 DEF TreeFollows
<1>13. CASE Last(open) \in Scopes /\ b = n + 1
  <2>1. UNCHANGED <<m_currentRule, trees>>
    BY <1>1, <1>13 DEF endOther, rules, Scopes
  <2>2. Depth = n + 1
    BY <1>5, <1>13 DEF Scopes
  <2>3. Agree(Values, Values', 3, n - 1) /\ Agree(Exprs, Exprs', 3, n - 1)
    BY <1>8 DEF Agree
  <2>4. Upto(Values', n) = Upto(Values, n + 1) /\ Upto(Exprs', n) = Upto(Exprs, n + 1)
    <3>1. PICK d \in Nat : d = n + 1 /\ 4 <= d /\ d - 1 = n /\ d - 2 = n - 1
      BY <1>2
    <3>2. /\ Agree(Values, Values', 3, d - 2) /\ Values'[d - 1] = Values[d - 1] \cup Values[d]
          /\ Agree(Exprs, Exprs', 3, d - 2) /\ Exprs'[d - 1] = Exprs[d - 1] \cup Exprs[d]
      BY <1>8, <1>13, <2>3, <3>1
    <3>3. /\ Upto(Values', d - 1) = Upto(Values, d)
          /\ Upto(Exprs', d - 1) = Upto(Exprs, d)
      BY <3>1, <3>2, UptoCloses
    <3>4. QED
      BY <3>1, <3>3
  <2>5. TreeOf(n + 1, n + 1, Types, Values, Exprs) = TreeOf(n, n, Types', Values', Exprs')
    BY <2>4, RootAlone
  <2>6. n \in 3 .. n /\ n <= b
    BY <1>2, <1>13
  <2>7. ScopesTo(n)'
    BY <1>10, <1>13, <2>6
  <2>8. trees'[m_currentRule'.pExpTree] = TreeOf(n, Depth', Types', Values', Exprs')
    BY <1>3, <1>8, <1>13, <2>1, <2>2, <2>5
  <2>9. QED
    BY <1>8, <2>6, <2>7, <2>8 DEF TreeFollows
<1>14. QED
  BY <1>9, <1>11, <1>12, <1>13


-----------------------------------------------------------------------------
(* The rules that are finished.                                            *)
LEMMA MeantKept ==
  ASSUME ParserKnown, MeantInv, RulesStep, plain, phase = "parsing", phase' # "destroyed"
  PROVE  \A i \in DOMAIN m_lstRules :
           /\ m_lstRules'[i] = m_lstRules[i]
           /\ m_lstRules[i].pExpTree \in DOMAIN trees'
           /\ trees'[m_lstRules[i].pExpTree] = <<meant[i]>>
<1>1. NULL \notin DOMAIN trees
  BY FileAssumption DEF ParserKnown, TypeInv, RulesInv, ParserInv
<1>2. ASSUME NEW i \in DOMAIN m_lstRules
      PROVE  /\ m_lstRules[i].pExpTree \in RuleTrees
             /\ trees[m_lstRules[i].pExpTree] = <<meant[i]>>
  BY <1>1, <1>2 DEF MeantInv, RuleTrees
<1>3. QED
  BY <1>2, RulesKept DEF ParserKnown, TypeInv

LEMMA MeantStart ==
  ASSUME NEW el \in Elements, ParserKnown, MeantInv, FollowStart(el), plain',
         phase' = "parsing"
  PROVE  MeantInv'
<1>1. plain
  BY Zenon DEF FollowStart
<1>2. phase = "parsing" /\ UNCHANGED <<m_lstRules, meant>>
  BY DEF FollowStart, StartElement
<1>3. RulesStep
  BY StartSteps DEF FollowStart, ParserKnown, TypeInv
<1>4. QED
  BY <1>1, <1>2, <1>3, MeantKept DEF MeantInv

LEMMA MeantFinish ==
  ASSUME ParserKnown, plain => regular, NestFollows, TreeFollows, MeantInv, FollowEnd,
         plain, phase = "parsing", m_stGlobal = "rules", Last(open) = "rule"
  PROVE  MeantInv'
<1>1. EndElement /\ endRule /\ RulesStep /\ phase' # "destroyed"
  BY EndSteps DEF FollowEnd, EndElement, onEndElement, ParserKnown, TypeInv
<1>2. Lined /\ InHand
  BY DEF ParserKnown, RegularInv
<1>3. Len(open) = 3
  <2>1. PICK n \in Nat : n = Len(open)
    BY DEF ParserKnown, TypeInv, ParserInv
  <2>2. n >= 3 /\ ~ n >= 4
    BY <1>1, <1>2, <2>1, RegularEndTag DEF ParserKnown, TypeInv
  <2>3. QED
    BY <2>1, <2>2
<1> DEFINE p == m_currentRule.pExpTree
           said == And(nest[3].values, nest[3].exprs)
<1>4. trees[p] = <<said>>
  <2>1. Depth = 3
    BY <1>3 DEF Depth
  <2>2. trees[p] = TreeOf(3, 3, Types, Values, Exprs)
    BY <1>3, <2>1 DEF TreeFollows, InRule
  <2>3. Values[3] = nest[3].values /\ Exprs[3] = nest[3].exprs
    BY <1>3 DEF Values, Exprs
  <2>4. QED
    BY <2>2, <2>3, RootAlone, UptoRule
<1>5. p \in DOMAIN trees /\ trees' = trees
  BY <1>1, <1>2, <1>3 DEF InHand, ParserKnown, TreesOwnedOnce, endRule
<1>6. FinishRule
  BY <1>1 DEF endRule, FinishRule, EndElement
<1>7. PICK n \in Nat : n = Len(m_lstRules)
  BY DEF ParserKnown, TypeInv, RulesInv
<1>8. /\ DOMAIN m_lstRules = 1 .. n /\ DOMAIN m_lstRules' = 1 .. (n + 1)
      /\ Len(m_lstRules') = n + 1 /\ m_lstRules'[n + 1] = m_currentRule
  BY <1>6, <1>7 DEF FinishRule, ParserKnown, TypeInv, RulesInv
<1>9. meant' = Append(meant, said)
  <2>1. Len(nest) = 3
    BY <1>3 DEF NestFollows
  <2>2. Len(m_lstRules') > Len(m_lstRules)
    BY <1>7, <1>8
  <2>3. QED
    BY <2>1, <2>2 DEF FollowEnd
<1> HIDE DEF said
<1>10. /\ \E S : meant' \in Seq(S)
       /\ Len(meant') = n + 1 /\ meant'[n + 1] = said
       /\ \A i \in 1 .. n : meant'[i] = meant[i]
  <2>1. PICK S : meant \in Seq(S)
    BY DEF MeantInv
  <2>2. meant \in Seq(S \cup {said}) /\ said \in S \cup {said} /\ Len(meant) = n
    BY <1>7, <2>1, SeqMonotonic DEF MeantInv
  <2>3. QED
    BY <1>9, <2>2, AppendProperties
<1>11. \A i \in 1 .. n : /\ m_lstRules'[i] = m_lstRules[i]
                         /\ m_lstRules[i].pExpTree \in DOMAIN trees'
                         /\ trees'[m_lstRules[i].pExpTree] = <<meant[i]>>
  BY <1>1, <1>8, MeantKept
<1>12. \A i \in 1 .. (n + 1) : i \in 1 .. n \/ i = n + 1
  OBVIOUS
<1>13. \A i \in 1 .. (n + 1) : /\ m_lstRules'[i].pExpTree \in DOMAIN trees'
                               /\ trees'[m_lstRules'[i].pExpTree] = <<meant'[i]>>
  BY <1>4, <1>5, <1>8, <1>10, <1>11, <1>12
<1>14. QED
  BY <1>8, <1>10, <1>13 DEF MeantInv

LEMMA MeantEnd ==
  ASSUME ParserKnown, plain => regular, NestFollows, TreeFollows, MeantInv, FollowEnd,
         plain', phase' \in {"parsing", "parsed"}
  PROVE  MeantInv'
<1>1. plain
  BY Zenon DEF FollowEnd
<1>2. EndElement /\ phase = "parsing"
  BY DEF FollowEnd, EndElement
<1>3. CASE ~(m_stGlobal = "rules" /\ Last(open) = "rule")
  <2>1. m_lstRules' = m_lstRules
    BY <1>2, <1>3
       DEF EndElement, onEndElement, endOperator, endChain, endOther, rules
  <2>2. ~(Len(m_lstRules') > Len(m_lstRules))
    <3>1. PICK n \in Nat : n = Len(m_lstRules)
      BY DEF ParserKnown, TypeInv, RulesInv
    <3>2. QED
      BY <2>1, <3>1
  <2>3. meant' = meant
    BY <2>2 DEF FollowEnd
  <2>4. RulesStep
    BY <1>2, EndSteps DEF ParserKnown, TypeInv
  <2>5. QED
    BY <1>1, <1>2, <2>1, <2>3, <2>4, MeantKept DEF MeantInv
<1>4. QED
  BY <1>1, <1>2, <1>3, MeantFinish

LEMMA MeaningNext ==
  ParserKnown /\ ParserKnown' /\ MeaningInv /\ [Follow(Elements)]_<<vars, history>> => MeaningInv'
<1> SUFFICES ASSUME ParserKnown, MeaningInv, [Follow(Elements)]_<<vars, history>>
             PROVE  MeaningInv'
  OBVIOUS
<1>1. CASE UNCHANGED <<vars, history>>
  <2>1. UNCHANGED <<m_stGlobal, m_currentRule, m_lstRules, trees, phase, open, regular,
                    nest, meant, plain>>
    BY <1>1 DEF vars, state, rules, expat, history
  <2>2. UNCHANGED <<Depth, Types, Values, Exprs>>
    BY <2>1 DEF Depth, Types, Values, Exprs
  <2>3. (plain => regular)' /\ NestFollows' /\ MeantInv'
    BY <2>1 DEF MeaningInv, NestFollows, MeantInv
  <2>4. TreeFollows'
    BY <2>1, <2>2 DEF MeaningInv, TreeFollows, InRule, ScopesTo
  <2>5. QED
    BY <2>3, <2>4 DEF MeaningInv
<1>2. CASE Follow(Elements)
  <2>1. NestFollows'
    BY <1>2, NestFollowsNext DEF MeaningInv, ParserKnown, TypeInv
  <2>2. ASSUME NEW el \in Elements, FollowStart(el) PROVE MeaningInv'
    <3>1. plain' => regular'
      BY <2>2, Zenon DEF FollowStart
    <3>2. TreeFollows'
      BY <2>2, TreeFollowsStart DEF MeaningInv
    <3>3. phase' \in {"parsing", "stopping"}
      BY <2>2 DEF FollowStart, StartElement
    <3>4. MeantInv'
      BY <2>2, <3>3, MeantStart DEF MeaningInv, MeantInv
    <3>5. QED
      BY <2>1, <3>1, <3>2, <3>4 DEF MeaningInv
  <2>3. CASE FollowEnd
    <3>1. plain' => regular'
      BY <2>3, Zenon DEF FollowEnd, EndElement, MeaningInv
    <3>2. TreeFollows'
      BY <2>3, TreeFollowsEnd DEF MeaningInv
    <3>3. phase' \in {"parsing", "parsed", "failed"}
      BY <2>3 DEF FollowEnd, EndElement
    <3>4. MeantInv'
      BY <2>3, <3>3, MeantEnd DEF MeaningInv, MeantInv
    <3>5. QED
      BY <2>1, <3>1, <3>2, <3>4 DEF MeaningInv
  <2>4. CASE (ParseError \/ printRules \/ destructor) /\ UNCHANGED history
    <3>1. UNCHANGED <<regular, plain, meant, nest>>
      BY <2>4 DEF ParseError, printRules, destructor, expat, history
    <3>2. phase' \in {"failed", "destroyed"} \/ (printRules /\ phase = "parsed")
      BY <2>4 DEF ParseError, printRules, destructor
    <3>3. TreeFollows'
      <4>1. phase' # "parsing"
        BY <3>2 DEF printRules
      <4>2. QED
        BY <4>1 DEF TreeFollows, InRule
    <3>4. MeantInv'
      <4>1. CASE phase' \in {"failed", "destroyed"}
        BY <4>1 DEF MeantInv
      <4>2. CASE printRules /\ phase = "parsed"
        BY <3>1, <4>2 DEF MeantInv, MeaningInv, printRules, rules
      <4>3. QED
        BY <3>2, <4>1, <4>2
    <3>5. QED
      BY <2>1, <3>1, <3>3, <3>4 DEF MeaningInv
  <2>5. QED
    BY <1>2, <2>2, <2>3, <2>4 DEF Follow
<1>3. QED
  BY <1>1, <1>2


LEMMA MeaningStarts == MeaningInit => MeaningInv
<1> SUFFICES ASSUME MeaningInit PROVE MeaningInv
  OBVIOUS
<1>1. /\ open = <<>> /\ phase = "parsing" /\ m_stGlobal = "NONE"
      /\ m_lstRules = <<>> /\ DOMAIN m_lstRules = {}
  BY Initially DEF MeaningInit
<1>2. nest = <<>> /\ meant = <<>>
  BY DEF MeaningInit
<1>3. regular
  BY Zenon DEF MeaningInit, Init
<1>4. \A S : <<>> \in Seq(S)
  OBVIOUS
<1>5. NestFollows /\ MeantInv /\ TreeFollows
  BY <1>1, <1>2, <1>4 DEF NestFollows, MeantInv, TreeFollows, InRule
<1>6. QED
  BY <1>3, <1>5 DEF MeaningInv

LEMMA KnownInvariant == Spec => []ParserKnown
BY TypeInvariant, TreesInvariant, ReadInvariant, RegularInvariant, PTL DEF ParserKnown, ReadInv

(* In a regular file whose rules have no condition before <expression>,    *)
(* the tree of a rule is what its elements say: its bytes and operators,   *)
(* nested as they are.                                                     *)
THEOREM MeaningTheorem == MeaningSpec => []TreeIsWhatTheRuleSays
<1>1. MeaningInv => TreeIsWhatTheRuleSays
  BY DEF MeaningInv, MeantInv, TreeIsWhatTheRuleSays
<1>2. QED
  BY <1>1, MeaningStarts, MeaningNext, MeaningIsSpec, KnownInvariant, PTL DEF MeaningSpec

=============================================================================
