----------------------- MODULE RuleFileProcessorProofs -----------------------
(***************************************************************************)
(* The safety properties of RuleFileProcessor for every vocabulary of      *)
(* elements and files of any length.                                       *)
(***************************************************************************)
EXTENDS RuleFileProcessor, FiniteSetTheorems, SequenceTheorems, TLAPS

-----------------------------------------------------------------------------
(* What the helpers return.                                                *)
LEMMA MinIsElement ==
  ASSUME NEW I, I \subseteq Nat, I # {}
  PROVE  Min(I) \in I
<1> DEFINE R == {ss \in Nat \X Nat : ss[1] < ss[2]}
<1>1. IsWellFoundedOn(R, Nat)
  BY NatLessThanWellFounded DEF OpToRel
<1> HIDE DEF R
<1>2. PICK x \in I : \A y \in I : ~(<<y, x>> \in R)
  BY <1>1, WFMin
<1>3. ASSUME NEW y \in I PROVE x <= y
  <2>1. x \in Nat /\ y \in Nat /\ ~(<<y, x>> \in R)
    BY <1>2
  <2>2. QED
    BY <2>1 DEF R
<1>4. QED
  BY <1>3 DEF Min

LEMMA AttrType ==
  ASSUME NEW el \in Elements, NEW name, Has(el, name)
  PROVE  Attr(el, name) \in Strings
<1> DEFINE I == {i \in 1 .. Len(el.attrs) : el.attrs[i] = name}
           i == IF I # {} THEN Min(I) ELSE 0
<1>1. el.attrs \in Seq(STRING)
  BY FileAssumption
<1>2. i \in 0 .. Len(el.attrs)
  <2>1. I \subseteq Nat /\ I \subseteq 1 .. Len(el.attrs)
    BY <1>1
  <2>2. Len(el.attrs) \in Nat
    BY <1>1
  <2> HIDE DEF I
  <2>3. I # {} => Min(I) \in 1 .. Len(el.attrs)
    BY <2>1, MinIsElement
  <2>4. QED
    BY <2>2, <2>3
<1>3. Attr(el, name) = IF i = 0 \/ i = Len(el.attrs) THEN NoAttr ELSE el.attrs[i + 1]
  BY DEF Attr, SelectInSeq
<1> HIDE DEF i
<1>4. i \in 1 .. (Len(el.attrs) - 1)
  BY <1>1, <1>2, <1>3 DEF Has
<1>5. i + 1 \in DOMAIN el.attrs /\ Attr(el, name) = el.attrs[i + 1]
  BY <1>1, <1>3, <1>4
<1>6. Attr(el, name) \in Range(el.attrs)
  BY <1>5 DEF Range
<1>7. QED
  BY <1>6 DEF Strings

LEMMA RulePtrType ==
  ASSUME NEW id, NEW R, m_lstRules \in Seq(R)
  PROVE  getRulePtr(id) \in {NULL} \cup DOMAIN m_lstRules
<1> DEFINE I == {i \in 1 .. Len(m_lstRules) : m_lstRules[i].id = id}
           i == IF I # {} THEN Min(I) ELSE 0
<1>1. i \in 0 .. Len(m_lstRules)
  <2>1. I \subseteq Nat /\ I \subseteq 1 .. Len(m_lstRules)
    OBVIOUS
  <2>2. Len(m_lstRules) \in Nat
    OBVIOUS
  <2> HIDE DEF I
  <2>3. I # {} => Min(I) \in 1 .. Len(m_lstRules)
    BY <2>1, MinIsElement
  <2>4. QED
    BY <2>2, <2>3
<1>2. getRulePtr(id) = IF i = 0 THEN NULL ELSE i
  BY DEF getRulePtr, SelectInSeq
<1> HIDE DEF i
<1>3. QED
  BY <1>1, <1>2

LEMMA Numbering ==
  /\ \A s : atoi(s) \in Int
  /\ \A s : decodeAction(s) \in 0 .. 3
BY FileAssumption DEF atoi, decodeAction

LEMMA ShorterIsSeq ==
  ASSUME NEW S, NEW s \in Seq(S), s # <<>>
  PROVE  /\ Front(s) \in Seq(S)
         /\ Len(Front(s)) = Len(s) - 1
         /\ \A i \in 1 .. (Len(s) - 1) : Front(s)[i] = s[i]
         /\ Len(s) \in Nat \ {0}
         /\ Last(s) = s[Len(s)] /\ Last(s) \in S
<1>1. Len(s) \in Nat \ {0} /\ \A i \in 1 .. Len(s) : s[i] \in S
  OBVIOUS
<1>2. \A i \in 1 .. (Len(s) - 1) : s[i] \in S
  BY <1>1
<1>3. PICK n \in Nat : n = Len(s) - 1
  BY <1>1
<1>4. /\ SubSeq(s, 1, n) \in Seq(S)
      /\ Len(SubSeq(s, 1, n)) = IF 1 <= n THEN n - 1 + 1 ELSE 0
      /\ \A i \in 1 .. (n - 1 + 1) : SubSeq(s, 1, n)[i] = s[1 + i - 1]
  BY <1>2, <1>3, 1 \in Int, n \in Int, SubSeqProperties
<1>5. Len(SubSeq(s, 1, n)) = n /\ \A i \in 1 .. n : SubSeq(s, 1, n)[i] = s[i]
  BY <1>3, <1>4
<1>6. QED
  BY <1>1, <1>3, <1>4, <1>5 DEF Front, Last

(* A tree is a sequence of expressions, the root first.                    *)
IsTree(tree) == (\E S : tree \in Seq(S)) /\ Len(tree) >= 1

LEMMA ChangedIsTree ==
  ASSUME NEW tree, IsTree(tree), NEW i \in 1 .. Len(tree), NEW e
  PROVE  /\ IsTree([tree EXCEPT ![i] = e])
         /\ Len([tree EXCEPT ![i] = e]) = Len(tree)
<1>1. PICK S : tree \in Seq(S)
  BY DEF IsTree
<1>2. tree \in Seq(S \cup {e}) /\ e \in S \cup {e}
  BY <1>1, SeqMonotonic
<1>3. /\ [tree EXCEPT ![i] = e] \in Seq(S \cup {e})
      /\ Len([tree EXCEPT ![i] = e]) = Len(tree)
  BY <1>2, ExceptSeq
<1>4. QED
  BY <1>3 DEF IsTree

LEMMA EmptyIsTree == IsTree(EmptyTree) /\ Len(EmptyTree) = 1
<1>1. EmptyTree \in Seq({And({}, {})})
  BY DEF EmptyTree
<1>2. Len(EmptyTree) = 1
  BY DEF EmptyTree
<1>3. QED
  BY <1>1, <1>2 DEF IsTree

LEMMA AddValueKeeps ==
  ASSUME NEW tree, IsTree(tree), NEW v
  PROVE  IsTree(addValue(tree, v)) /\ Len(addValue(tree, v)) = Len(tree)
<1> DEFINE e == [tree[Len(tree)] EXCEPT !.lstValues = @ \cup {v}]
<1>1. addValue(tree, v) = [tree EXCEPT ![Len(tree)] = e]
  BY DEF addValue
<1>2. Len(tree) \in 1 .. Len(tree)
  BY DEF IsTree
<1> HIDE DEF e
<1>3. /\ IsTree([tree EXCEPT ![Len(tree)] = e])
      /\ Len([tree EXCEPT ![Len(tree)] = e]) = Len(tree)
  BY <1>2, ChangedIsTree, Zenon
<1>4. QED
  BY <1>1, <1>3, Zenon

LEMMA OperatorStartGrows ==
  ASSUME NEW tree, IsTree(tree), NEW type
  PROVE  /\ IsTree(operatorStart(tree, type))
         /\ Len(operatorStart(tree, type)) = Len(tree) + 1
<1> DEFINE e == IF type = "AND" THEN And({}, {}) ELSE Or({}, {})
<1>1. PICK S : tree \in Seq(S)
  BY DEF IsTree
<1>2. tree \in Seq(S \cup {e}) /\ e \in S \cup {e}
  BY <1>1, SeqMonotonic
<1> HIDE DEF e
<1>3. Append(tree, e) \in Seq(S \cup {e}) /\ Len(Append(tree, e)) = Len(tree) + 1
  BY <1>2, AppendProperties
<1>4. operatorStart(tree, type) = Append(tree, e)
  BY DEF operatorStart, e
<1>5. QED
  BY <1>2, <1>3, <1>4 DEF IsTree

LEMMA OperatorEndShrinks ==
  ASSUME NEW tree, IsTree(tree)
  PROVE  /\ IsTree(operatorEnd(tree))
         /\ Len(operatorEnd(tree)) = IF Len(tree) = 1 THEN 1 ELSE Len(tree) - 1
<1>1. PICK S : tree \in Seq(S)
  BY DEF IsTree
<1>2. CASE Len(tree) = 1
  BY <1>2 DEF operatorEnd
<1>3. CASE Len(tree) # 1
  <2> DEFINE rest == Front(tree)
             e == [rest[Len(rest)] EXCEPT !.lstExpr = @ \cup {tree[Len(tree)]}]
  <2>1. operatorEnd(tree) = [rest EXCEPT ![Len(rest)] = e]
    BY <1>3 DEF operatorEnd
  <2>2. Len(tree) \in Nat /\ Len(tree) >= 2 /\ tree # <<>>
    <3>1. Len(tree) \in Nat
      BY <1>1
    <3>2. Len(tree) >= 1
      BY DEF IsTree
    <3>3. QED
      BY <1>3, <3>1, <3>2
  <2>3. rest \in Seq(S) /\ Len(rest) = Len(tree) - 1
    BY <1>1, <2>2, ShorterIsSeq
  <2>4. IsTree(rest) /\ Len(rest) \in 1 .. Len(rest)
    BY <2>2, <2>3 DEF IsTree
  <2> HIDE DEF e, rest
  <2>5. /\ IsTree([rest EXCEPT ![Len(rest)] = e])
        /\ Len([rest EXCEPT ![Len(rest)] = e]) = Len(rest)
    BY <2>4, ChangedIsTree, Zenon
  <2>6. IsTree(operatorEnd(tree)) /\ Len(operatorEnd(tree)) = Len(rest)
    BY <2>1, <2>5, Zenon
  <2>7. QED
    BY <1>3, <2>3, <2>6
<1>4. QED
  BY <1>2, <1>3

LEMMA EmptyString == "" \in Strings
BY DEF Strings

-----------------------------------------------------------------------------
(* TypeOK in parts: the flags, the parser, the rules and the chains, with  *)
(* what a list pointer points to while the file is read.                   *)
Flags ==
  /\ m_continueProcessing \in BOOLEAN /\ alive \in BOOLEAN /\ regular \in BOOLEAN
  /\ phase = "parsing" => m_continueProcessing

ParserInv ==
  /\ m_stGlobal \in Sections \cup {"NONE"}
  /\ phase \in {"parsing", "stopping", "parsed", "loaded", "failed", "destroyed"}
  /\ open \in Seq({el.name : el \in Elements})
  /\ count \in 0 .. MaxElements
  /\ brk \in 0 .. count

Rules == [id : Strings, cid : Int, pExpTree : {NULL} \cup 1 .. brk]

RulesInv ==
  /\ m_currentRule \in Rules
  /\ m_lstRules \in Seq(Rules)
  /\ DOMAIN trees \subseteq 1 .. brk

Chains == [id : Strings, cid : Int, plstRules : {NULL, Indeterminate} \cup 1 .. brk]

Entries == [rule : {NULL} \cup DOMAIN m_lstRules, action : 0 .. 3, logMessage : Strings]

Reading == phase \in {"parsing", "stopping", "parsed", "loaded"}

ChainsInv ==
  /\ m_currentChain \in Chains
  /\ DOMAIN m_mapRuleChains \subseteq Int
  /\ DOMAIN m_mapStateChains \subseteq Strings
  /\ DOMAIN lists \subseteq 1 .. brk
  /\ \A p \in DOMAIN lists : lists[p] \in Seq(Entries)
  /\ Reading => m_currentChain.plstRules \in {NULL, Indeterminate} \cup DOMAIN lists

TypeInv == Flags /\ ParserInv /\ RulesInv /\ ChainsInv

LEMMA TypeInvType == TypeInv => TypeOK
<1> SUFFICES ASSUME TypeInv PROVE TypeOK
  OBVIOUS
<1>1. brk \in 0 .. MaxElements
  BY FileAssumption DEF TypeInv, ParserInv
<1>2. DOMAIN trees \cup DOMAIN lists \subseteq 1 .. brk
  BY Zenon DEF TypeInv, RulesInv, ChainsInv
<1>3. QED
  BY <1>1, <1>2, Zenon
     DEF TypeInv, TypeOK, Flags, ParserInv, RulesInv, ChainsInv, Rules, Chains, Entries


-----------------------------------------------------------------------------
(* What a start tag does to the rules.                                     *)
NoteRule ==
  /\ m_currentRule' \in [id : Strings, cid : Int, pExpTree : {m_currentRule.pExpTree}]
  /\ UNCHANGED <<trees, brk>>

PlantTree ==
  /\ newTree
  /\ m_currentRule' \in [id : Strings, cid : Int, pExpTree : {brk + 1}]

EditTree ==
  /\ m_currentRule.pExpTree # NULL
  /\ \E tree : /\ trees' = Put(trees, m_currentRule.pExpTree, tree)
               /\ IsTree(trees[m_currentRule.pExpTree]) => IsTree(tree)
  /\ UNCHANGED <<m_currentRule, brk>>

(* What a start tag does to the chains.                                    *)
NewList ==
  /\ m_currentChain' \in [id : Strings, cid : Int, plstRules : {brk + 1}]
  /\ lists' = Put(lists, brk + 1, <<>>)
  /\ brk' = brk + 1

AddEntry ==
  /\ m_currentChain.plstRules \notin {NULL, Indeterminate}
  /\ \E entry \in Entries :
       lists' = Put(lists, m_currentChain.plstRules,
                    Append(lists[m_currentChain.plstRules], entry))
  /\ UNCHANGED <<m_currentChain, brk>>

LEMMA AddByteEdits ==
  ASSUME NEW el, addByte(el), m_currentRule.pExpTree # NULL, UNCHANGED <<m_currentRule, brk>>
  PROVE  EditTree \/ UNCHANGED <<m_currentRule, trees, brk>>
BY AddValueKeeps DEF addByte, EditTree

LEMMA StartRules ==
  ASSUME NEW el \in Elements, processRules(el), RulesInv
  PROVE  /\ NoteRule \/ PlantTree \/ EditTree
         /\ UNCHANGED <<m_lstRules, chains>>
<1> SUFFICES NoteRule \/ PlantTree \/ EditTree
  BY DEF processRules
<1> DEFINE p == m_currentRule.pExpTree
<1>a. /\ m_currentRule = [id |-> m_currentRule.id, cid |-> m_currentRule.cid, pExpTree |-> p]
      /\ m_currentRule.id \in Strings /\ m_currentRule.cid \in Int
  BY DEF RulesInv, Rules
<1>b. UNCHANGED <<m_currentRule, trees, brk>> => NoteRule
  BY <1>a DEF NoteRule
<1>1. CASE startRule(el)
  <2>1. CASE Has(el, "id") /\ Has(el, "cid")
    <3>1. m_currentRule' = [id |-> Attr(el, "id"), cid |-> atoi(Attr(el, "cid")),
                            pExpTree |-> brk + 1]
      BY <1>1, <2>1 DEF startRule
    <3>2. newTree
      BY <1>1, <2>1 DEF startRule
    <3>3. QED
      BY <2>1, <3>1, <3>2, AttrType, Numbering DEF PlantTree
  <2>2. CASE Has(el, "id") /\ ~Has(el, "cid")
    <3>1. /\ m_currentRule' = [m_currentRule EXCEPT !.id = Attr(el, "id")]
          /\ UNCHANGED <<trees, brk>>
      BY <1>1, <2>2 DEF startRule
    <3>2. QED
      BY <1>a, <2>2, <3>1, AttrType DEF NoteRule
  <2>3. CASE ~Has(el, "id")
    BY <1>1, <1>b, <2>3 DEF startRule
  <2>4. QED
    BY <2>1, <2>2, <2>3
<1>2. CASE startExpression(el)
  BY <1>2, <1>a DEF startExpression, PlantTree
<1>3. CASE startByte(el)
  BY <1>3, <1>b, AddByteEdits DEF startByte
<1>4. CASE startOperator(el)
  BY <1>4, <1>b, OperatorStartGrows DEF startOperator, EditTree
<1>5. CASE startOther(el)
  BY <1>5, <1>b DEF startOther
<1>6. QED
  BY <1>1, <1>2, <1>3, <1>4, <1>5 DEF processRules

LEMMA StartChains ==
  ASSUME NEW el \in Elements, processChains(el), RulesInv, ChainsInv
  PROVE  /\ NewList \/ AddEntry \/ UNCHANGED <<m_currentChain, lists, brk>>
         /\ UNCHANGED <<rules, m_mapRuleChains, m_mapStateChains>>
<1> SUFFICES NewList \/ AddEntry \/ UNCHANGED <<m_currentChain, lists, brk>>
  BY DEF processChains
<1>1. CASE startChain(el)
  <2>1. Has(el, "id") => Attr(el, "id") \in Strings
    BY AttrType
  <2>2. atoi(Attr(el, "cid")) \in Int /\ m_currentChain.cid \in Int
    BY Numbering DEF ChainsInv, Chains
  <2>3. QED
    BY <1>1, <2>1, <2>2 DEF startChain, NewList
<1>2. CASE startEntry(el)
  <2> DEFINE p    == m_currentChain.plstRules
             rule == IF el.name = "rule" THEN getRulePtr(Attr(el, "id")) ELSE NULL
             entry == [rule |-> rule, action |-> decodeAction(Attr(el, "action")),
                       logMessage |-> IF Has(el, "message") THEN Attr(el, "message") ELSE ""]
  <2>1. entry \in Entries
    <3>1. getRulePtr(Attr(el, "id")) \in {NULL} \cup DOMAIN m_lstRules
      BY RulePtrType DEF RulesInv
    <3>2. rule \in {NULL} \cup DOMAIN m_lstRules
      BY <3>1
    <3>3. decodeAction(Attr(el, "action")) \in 0 .. 3
      BY Numbering
    <3>4. (IF Has(el, "message") THEN Attr(el, "message") ELSE "") \in Strings
      <4>1. "" \in Strings
        BY DEF Strings
      <4>2. QED
        BY <4>1, AttrType
    <3> HIDE DEF rule
    <3>5. QED
      BY <3>2, <3>3, <3>4 DEF Entries
  <2>2. \/ UNCHANGED <<m_currentChain, lists, brk>>
        \/ /\ p \notin {NULL, Indeterminate}
           /\ lists' = Put(lists, p, Append(lists[p], entry))
           /\ UNCHANGED <<m_currentChain, brk>>
    BY <1>2 DEF startEntry
  <2> HIDE DEF entry
  <2>3. QED
    BY <2>1, <2>2 DEF AddEntry
<1>3. QED
  BY <1>1, <1>2 DEF processChains


-----------------------------------------------------------------------------
(* What a step does to the rules, and what it does to the chains.          *)
FinishRule ==
  /\ m_lstRules' = Append(m_lstRules, m_currentRule)
  /\ m_currentRule' = [m_currentRule EXCEPT !.pExpTree = NULL]
  /\ UNCHANGED <<trees, brk>>

RulesStep ==
  /\ phase # "destroyed"
  /\ \/ /\ UNCHANGED rules /\ brk' \in {brk, brk + 1}
        /\ phase' # "destroyed"
     \/ /\ (NoteRule \/ PlantTree \/ EditTree) /\ UNCHANGED m_lstRules
        /\ phase \in {"parsing", "stopping"} /\ phase' # "destroyed"
     \/ /\ FinishRule
        /\ phase \in {"parsing", "stopping"} /\ phase' # "destroyed"
     \/ /\ trees' = [a \in DOMAIN trees \ RuleTrees |-> trees[a]]
        /\ UNCHANGED <<m_currentRule, m_lstRules, brk>>
        /\ phase' = "destroyed"

FinishChain ==
  /\ \/ /\ m_stGlobal = "rule-chains"
        /\ m_mapRuleChains' = Insert(m_mapRuleChains, m_currentChain.cid, m_currentChain)
        /\ UNCHANGED m_mapStateChains
     \/ /\ m_stGlobal = "state-chains"
        /\ m_mapStateChains' = Insert(m_mapStateChains, m_currentChain.id, m_currentChain)
        /\ UNCHANGED m_mapRuleChains
  /\ m_currentChain' = [id |-> "", cid |-> -1, plstRules |-> NULL]
  /\ UNCHANGED <<lists, brk>>

ChainsStep ==
  /\ phase # "destroyed"
  /\ Reading' => Reading
  /\ \/ /\ UNCHANGED chains /\ brk' \in {brk, brk + 1}
        /\ phase' # "destroyed"
     \/ /\ (NewList \/ AddEntry) /\ UNCHANGED <<m_mapRuleChains, m_mapStateChains>>
        /\ phase = "parsing" /\ phase' \in {"parsing", "stopping"}
     \/ /\ FinishChain
        /\ \/ /\ phase = "parsing" /\ phase' \in {"parsing", "parsed"}
              /\ open # <<>> /\ Last(open) = "chain"
           \/ phase = "stopping" /\ phase' = "failed"
     \/ /\ lists' = [a \in DOMAIN lists \ ChainLists |-> lists[a]]
        /\ UNCHANGED <<m_currentChain, m_mapRuleChains, m_mapStateChains, brk>>
        /\ phase' = "destroyed"

LEMMA StartSteps ==
  ASSUME NEW el \in Elements, StartElement(el), RulesInv, ChainsInv
  PROVE  RulesStep /\ ChainsStep
<1>a. phase = "parsing" /\ phase' \in {"parsing", "stopping"}
  BY DEF StartElement
<1>b. UNCHANGED m_lstRules /\ UNCHANGED <<m_mapRuleChains, m_mapStateChains>>
  BY DEF StartElement
<1>1. CASE startGlobal(el) \/ processNetworks(el)
  <2>1. UNCHANGED <<rules, chains, brk>>
    BY <1>1 DEF startGlobal, processNetworks
  <2>2. QED
    BY <1>a, <2>1 DEF RulesStep, ChainsStep, Reading
<1>2. CASE processRules(el)
  <2>1. (NoteRule \/ PlantTree \/ EditTree) /\ UNCHANGED chains
    BY <1>2, StartRules
  <2>2. brk' \in {brk, brk + 1}
    BY <2>1 DEF NoteRule, PlantTree, newTree, EditTree
  <2>3. QED
    BY <1>a, <1>b, <2>1, <2>2 DEF RulesStep, ChainsStep, Reading
<1>3. CASE processChains(el)
  <2>1. (NewList \/ AddEntry \/ UNCHANGED <<m_currentChain, lists, brk>>) /\ UNCHANGED rules
    BY <1>3, StartChains
  <2>2. brk' \in {brk, brk + 1}
    BY <2>1 DEF NewList, AddEntry
  <2>3. QED
    BY <1>a, <1>b, <2>1, <2>2 DEF RulesStep, ChainsStep, Reading, chains
<1>4. QED
  BY <1>1, <1>2, <1>3 DEF StartElement

LEMMA EndSteps ==
  ASSUME EndElement, RulesInv, ChainsInv
  PROVE  RulesStep /\ ChainsStep
<1>a. /\ phase \in {"parsing", "stopping"} /\ brk' = brk
      /\ phase = "parsing" => phase' \in {"parsing", "parsed"}
      /\ phase = "stopping" => phase' = "failed"
      /\ open # <<>>
  BY DEF EndElement
<1>1. CASE endOperator
  <2>1. (EditTree \/ UNCHANGED <<m_currentRule, trees, brk>>) /\ UNCHANGED <<m_lstRules, chains>>
    BY <1>1, <1>a, OperatorEndShrinks DEF endOperator, EditTree
  <2>2. QED
    BY <1>a, <2>1 DEF RulesStep, ChainsStep, Reading, rules
<1>2. CASE endRule
  BY <1>2, <1>a DEF endRule, FinishRule, RulesStep, ChainsStep, Reading
<1>3. CASE endChain /\ m_stGlobal \in {"rule-chains", "state-chains"} /\ Last(open) = "chain"
  BY <1>3, <1>a DEF endChain, FinishChain, RulesStep, ChainsStep, Reading
<1>4. CASE \E name : endOther(name)
  BY <1>4, <1>a DEF endOther, RulesStep, ChainsStep, Reading
<1>5. QED
  BY <1>1, <1>2, <1>3, <1>4 DEF EndElement, onEndElement

LEMMA Steps == RulesInv /\ ChainsInv /\ Next => RulesStep /\ ChainsStep
<1> SUFFICES ASSUME RulesInv, ChainsInv, Next PROVE RulesStep /\ ChainsStep
  OBVIOUS
<1>1. CASE ParseError \/ printRules
  <2>1. /\ UNCHANGED <<rules, chains, brk>>
        /\ phase # "destroyed" /\ phase' # "destroyed" /\ Reading
    BY <1>1 DEF ParseError, printRules, Reading
  <2>2. QED
    BY <2>1 DEF RulesStep, ChainsStep
<1>2. CASE destructor
  BY <1>2 DEF destructor, RulesStep, ChainsStep, Reading
<1>3. QED
  BY <1>1, <1>2, StartSteps, EndSteps DEF Next


LEMMA FlagsNext == Flags /\ Next => Flags'
<1> SUFFICES ASSUME Flags, Next PROVE Flags'
  OBVIOUS
<1>1. ASSUME NEW el \in Elements, StartElement(el) PROVE Flags'
  <2>1. m_continueProcessing' \in BOOLEAN /\ alive' \in BOOLEAN
    BY <1>1, Zenon
       DEF Flags, StartElement, startGlobal, processNetworks, processRules, processChains,
           startRule, startExpression, startByte, addByte, startOperator, startOther,
           startChain, startEntry, Accept, Reject, Die
  <2>2. regular' \in BOOLEAN
    BY <1>1, Zenon DEF StartElement
  <2>3. phase' = "parsing" => m_continueProcessing'
    BY <1>1 DEF StartElement
  <2>4. QED
    BY <2>1, <2>2, <2>3, Zenon DEF Flags
<1>2. CASE EndElement
  <2>1. alive' \in BOOLEAN
    BY <1>2, Zenon
       DEF Flags, EndElement, onEndElement, endOperator, endRule, endChain, endOther
  <2>2. UNCHANGED <<m_continueProcessing, regular>>
    BY <1>2 DEF EndElement
  <2>3. phase' = "parsing" => phase = "parsing"
    BY <1>2 DEF EndElement
  <2>4. QED
    BY <2>1, <2>2, <2>3, Zenon DEF Flags
<1>3. CASE ParseError \/ printRules \/ destructor
  <2>1. UNCHANGED <<m_continueProcessing, regular>>
    BY <1>3 DEF ParseError, printRules, destructor, state, expat
  <2>2. phase' # "parsing"
    BY <1>3 DEF ParseError, printRules, destructor
  <2>3. alive' \in BOOLEAN
    BY <1>3, Zenon DEF Flags, ParseError, printRules, destructor
  <2>4. QED
    BY <2>1, <2>2, <2>3, Zenon DEF Flags
<1>4. QED
  BY <1>1, <1>2, <1>3 DEF Next

LEMMA ParserNext == ParserInv /\ RulesInv /\ ChainsInv /\ Next => ParserInv'
<1> SUFFICES ASSUME ParserInv, RulesInv, ChainsInv, Next PROVE ParserInv'
  OBVIOUS
<1>1. ASSUME NEW el \in Elements, StartElement(el) PROVE ParserInv'
  <2>1. m_stGlobal' \in Sections \cup {"NONE"}
    BY <1>1 DEF ParserInv, StartElement, startGlobal, processNetworks, processRules, processChains
  <2>2. open' \in Seq({e.name : e \in Elements})
    BY <1>1 DEF ParserInv, StartElement
  <2>3. count' \in 0 .. MaxElements /\ count' = count + 1 /\ count \in Nat
    BY <1>1, FileAssumption DEF ParserInv, StartElement
  <2>4. phase' \in {"parsing", "stopping"}
    BY <1>1 DEF StartElement
  <2>5. brk' \in {brk, brk + 1}
    BY <1>1, StartSteps
       DEF RulesStep, NoteRule, PlantTree, newTree, EditTree, FinishRule
  <2>6. brk' \in 0 .. count'
    BY <2>3, <2>5 DEF ParserInv
  <2>7. QED
    BY <2>1, <2>2, <2>3, <2>4, <2>6 DEF ParserInv
<1>2. CASE EndElement
  <2>1. m_stGlobal' \in Sections \cup {"NONE"}
    BY <1>2 DEF ParserInv, EndElement, onEndElement, endOperator, endRule, endChain, endOther
  <2>2. open' \in Seq({e.name : e \in Elements})
    BY <1>2, ShorterIsSeq DEF ParserInv, EndElement
  <2>3. phase' \in {"failed", "parsed", "parsing"} /\ UNCHANGED <<count, brk>>
    BY <1>2 DEF EndElement
  <2>4. QED
    BY <2>1, <2>2, <2>3 DEF ParserInv
<1>3. CASE ParseError \/ printRules \/ destructor
  <2>1. UNCHANGED <<m_stGlobal, open, count, brk>>
    BY <1>3 DEF ParseError, printRules, destructor, state, expat
  <2>2. phase' \in {"failed", "loaded", "destroyed", phase}
    BY <1>3 DEF ParseError, printRules, destructor
  <2>3. QED
    BY <2>1, <2>2 DEF ParserInv
<1>4. QED
  BY <1>1, <1>2, <1>3 DEF Next

LEMMA RulesNext == ParserInv /\ RulesInv /\ RulesStep => RulesInv'
<1> SUFFICES ASSUME ParserInv, RulesInv, RulesStep PROVE RulesInv'
  OBVIOUS
<1> DEFINE p == m_currentRule.pExpTree
<1>1. brk \in Nat /\ brk' \in {brk, brk + 1} /\ NULL \notin Nat
  BY FileAssumption
     DEF ParserInv, RulesStep, NoteRule, PlantTree, newTree, EditTree, FinishRule
<1>2. p \in {NULL} \cup 1 .. brk /\ DOMAIN trees \subseteq 1 .. brk
  BY DEF RulesInv, Rules
<1>3. Rules \subseteq Rules' /\ 1 .. brk \subseteq 1 .. brk'
  BY <1>1 DEF Rules
<1>4. m_currentRule \in Rules' /\ m_lstRules \in Seq(Rules')
  BY <1>3, SeqMonotonic DEF RulesInv
<1>5. CASE NoteRule /\ UNCHANGED m_lstRules
  <2>1. m_currentRule' \in Rules'
    BY <1>2, <1>3, <1>5 DEF NoteRule, Rules
  <2>2. QED
    BY <1>2, <1>3, <1>4, <1>5, <2>1 DEF NoteRule, RulesInv
<1>6. CASE PlantTree /\ UNCHANGED m_lstRules
  <2>1. m_currentRule' \in Rules' /\ brk' = brk + 1
    BY <1>1, <1>6 DEF PlantTree, Rules, newTree
  <2>2. DOMAIN trees' = (DOMAIN trees \ {p}) \cup {brk + 1}
    BY <1>6 DEF PlantTree, newTree, Put, Free
  <2>3. DOMAIN trees' \subseteq 1 .. brk'
    BY <1>1, <1>2, <2>1, <2>2
  <2>4. QED
    BY <1>4, <1>6, <2>1, <2>3 DEF RulesInv
<1>7. CASE EditTree /\ UNCHANGED m_lstRules
  <2>1. DOMAIN trees' = DOMAIN trees \cup {p}
    BY <1>7 DEF EditTree, Put
  <2>2. QED
    BY <1>2, <1>3, <1>4, <1>7, <2>1 DEF EditTree, RulesInv
<1>8. CASE FinishRule
  <2>1. m_currentRule' \in Rules'
    BY <1>4, <1>8 DEF FinishRule, Rules
  <2>2. m_lstRules' \in Seq(Rules')
    BY <1>4, <1>8 DEF FinishRule
  <2>3. QED
    BY <1>2, <1>3, <1>8, <2>1, <2>2 DEF FinishRule, RulesInv
<1>9. CASE UNCHANGED <<m_currentRule, m_lstRules>> /\ DOMAIN trees' \subseteq DOMAIN trees
  BY <1>2, <1>3, <1>4, <1>9 DEF RulesInv
<1>10. QED
  BY <1>5, <1>6, <1>7, <1>8, <1>9 DEF RulesStep, rules

LEMMA ChainsNext == ParserInv /\ RulesInv /\ ChainsInv /\ RulesStep /\ ChainsStep => ChainsInv'
<1> SUFFICES ASSUME ParserInv, RulesInv, ChainsInv, RulesStep, ChainsStep PROVE ChainsInv'
  OBVIOUS
<1> DEFINE p == m_currentChain.plstRules
<1>1. brk \in Nat /\ brk' \in {brk, brk + 1} /\ NULL \notin Nat
  BY FileAssumption
     DEF ParserInv, RulesStep, NoteRule, PlantTree, newTree, EditTree, FinishRule
<1>2. p \in {NULL, Indeterminate} \cup 1 .. brk /\ DOMAIN lists \subseteq 1 .. brk
  BY DEF ChainsInv, Chains
<1>3. Chains \subseteq Chains' /\ 1 .. brk \subseteq 1 .. brk'
  BY <1>1 DEF Chains, Indeterminate
<1>4. Entries \subseteq Entries'
  <2>1. DOMAIN m_lstRules \subseteq DOMAIN m_lstRules'
    <3>1. m_lstRules' \in {m_lstRules, Append(m_lstRules, m_currentRule)}
      BY DEF RulesStep, rules, FinishRule
    <3>2. QED
      BY <3>1 DEF RulesInv
  <2>2. QED
    BY <2>1 DEF Entries
<1>5. \A a \in DOMAIN lists : lists[a] \in Seq(Entries')
  BY <1>4, SeqMonotonic DEF ChainsInv
<1>6. CASE NewList /\ UNCHANGED <<m_mapRuleChains, m_mapStateChains>>
  <2>1. m_currentChain' \in Chains' /\ brk' = brk + 1
        /\ m_currentChain'.plstRules = brk + 1
    BY <1>1, <1>6 DEF NewList, Chains
  <2>2. /\ DOMAIN lists' = DOMAIN lists \cup {brk + 1}
        /\ lists'[brk + 1] = <<>>
        /\ \A a \in DOMAIN lists \ {brk + 1} : lists'[a] = lists[a]
    BY <1>6 DEF NewList, Put
  <2>3. DOMAIN lists' \subseteq 1 .. brk'
    BY <1>1, <1>2, <2>1, <2>2
  <2>4. \A a \in DOMAIN lists' : lists'[a] \in Seq(Entries')
    <3>1. <<>> \in Seq(Entries')
      BY EmptySeq
    <3>2. QED
      BY <1>5, <2>2, <3>1
  <2>5. QED
    BY <1>6, <2>1, <2>2, <2>3, <2>4 DEF ChainsInv
<1>7. CASE AddEntry /\ UNCHANGED <<m_mapRuleChains, m_mapStateChains>> /\ phase = "parsing"
  <2>1. PICK entry \in Entries :
          lists' = Put(lists, p, Append(lists[p], entry))
    BY <1>7 DEF AddEntry
  <2>2. p \in DOMAIN lists
    BY <1>7 DEF AddEntry, ChainsInv, Reading
  <2>3. /\ DOMAIN lists' = DOMAIN lists
        /\ lists'[p] = Append(lists[p], entry)
        /\ \A a \in DOMAIN lists \ {p} : lists'[a] = lists[a]
    BY <2>1, <2>2 DEF Put
  <2>4. entry \in Entries'
    BY <1>4
  <2>5. lists'[p] \in Seq(Entries')
    <3>1. lists[p] \in Seq(Entries')
      BY <1>5, <2>2
    <3>2. QED
      BY <2>3, <2>4, <3>1, AppendProperties
  <2>6. \A a \in DOMAIN lists' : lists'[a] \in Seq(Entries')
    BY <1>5, <2>3, <2>5
  <2>7. m_currentChain' = m_currentChain
    BY <1>7 DEF AddEntry
  <2>8. QED
    BY <1>2, <1>3, <1>7, <2>2, <2>3, <2>6, <2>7 DEF ChainsInv
<1>8. CASE FinishChain
  <2>1. m_currentChain' \in Chains' /\ m_currentChain'.plstRules = NULL
    <3>1. m_currentChain' = [id |-> "", cid |-> -1, plstRules |-> NULL]
      BY <1>8 DEF FinishChain
    <3>2. -1 \in Int
      OBVIOUS
    <3>3. NULL \in {NULL, Indeterminate} \cup 1 .. brk'
      OBVIOUS
    <3>4. QED
      BY <3>1, <3>2, <3>3, EmptyString DEF Chains
  <2>2. m_currentChain.cid \in Int /\ m_currentChain.id \in Strings
    BY DEF ChainsInv, Chains
  <2>3. DOMAIN m_mapRuleChains' \subseteq Int /\ DOMAIN m_mapStateChains' \subseteq Strings
    <3>1. DOMAIN m_mapRuleChains' \subseteq DOMAIN m_mapRuleChains \cup {m_currentChain.cid}
      BY <1>8 DEF FinishChain, Insert, Put
    <3>2. DOMAIN m_mapStateChains' \subseteq DOMAIN m_mapStateChains \cup {m_currentChain.id}
      BY <1>8 DEF FinishChain, Insert, Put
    <3>3. QED
      BY <2>2, <3>1, <3>2 DEF ChainsInv
  <2>4. lists' = lists
    BY <1>8 DEF FinishChain
  <2>5. QED
    BY <1>2, <1>3, <1>5, <2>1, <2>3, <2>4 DEF ChainsInv
<1>9. CASE UNCHANGED chains
  <2>1. Reading' => Reading
    BY DEF ChainsStep
  <2>2. QED
    BY <1>2, <1>3, <1>5, <1>9, <2>1 DEF ChainsInv, chains
<1>10. CASE phase' = "destroyed"
  <2>1. /\ lists' = [a \in DOMAIN lists \ ChainLists |-> lists[a]]
        /\ UNCHANGED <<m_currentChain, m_mapRuleChains, m_mapStateChains>>
    BY <1>10 DEF ChainsStep
  <2>2. QED
    BY <1>2, <1>3, <1>5, <1>10, <2>1 DEF ChainsInv, Reading
<1>11. QED
  BY <1>6, <1>7, <1>8, <1>9, <1>10 DEF ChainsStep


LEMMA EmptyHeap == DOMAIN <<>> = {}
OBVIOUS

LEMMA Initially ==
  Init => /\ m_stGlobal = "NONE" /\ phase = "parsing" /\ open = <<>> /\ count = 0 /\ brk = 0
          /\ m_currentRule.pExpTree = NULL
          /\ m_currentRule \in [id : {""}, cid : {0}, pExpTree : {NULL}]
          /\ m_lstRules = <<>> /\ DOMAIN m_lstRules = {} /\ DOMAIN trees = {}
          /\ m_currentChain.id = "" /\ m_currentChain.cid = 0
          /\ m_currentChain \in [id : {""}, cid : {0}, plstRules : {NULL, Indeterminate}]
          /\ DOMAIN m_mapRuleChains = {} /\ DOMAIN m_mapStateChains = {} /\ DOMAIN lists = {}
<1> HAVE Init
<1>1. /\ m_lstRules = <<>> /\ trees = <<>> /\ lists = <<>>
      /\ m_mapRuleChains = <<>> /\ m_mapStateChains = <<>>
  BY Zenon DEF Init
<1>2. /\ m_stGlobal = "NONE" /\ phase = "parsing" /\ open = <<>> /\ count = 0 /\ brk = 0
      /\ m_currentRule = [id |-> "", cid |-> 0, pExpTree |-> NULL]
      /\ m_currentChain \in [id : {""}, cid : {0}, plstRules : {NULL, Indeterminate}]
  BY Zenon DEF Init
<1>3. m_currentRule.pExpTree = NULL /\ m_currentRule \in [id : {""}, cid : {0}, pExpTree : {NULL}]
  <2>1. m_currentRule = [id |-> "", cid |-> 0, pExpTree |-> NULL]
    BY <1>2
  <2>2. QED
    BY <2>1
<1>4. QED
  BY <1>1, <1>2, <1>3, EmptyHeap

LEMMA TypeInit == Init => TypeInv
<1> SUFFICES ASSUME Init PROVE TypeInv
  OBVIOUS
<1>1. Flags
  BY Zenon DEF Init, Flags
<1>2. ParserInv
  <2>1. /\ m_stGlobal = "NONE" /\ phase = "parsing" /\ open = <<>> /\ count = 0 /\ brk = 0
    BY Initially
  <2>2. QED
    BY <2>1, FileAssumption DEF ParserInv
<1>3. RulesInv
  <2>1. m_currentRule \in [id : {""}, cid : {0}, pExpTree : {NULL}]
    BY Initially
  <2>2. m_currentRule \in Rules
    <3>1. {""} \subseteq Strings
      BY EmptyString, Zenon
    <3>2. {0} \subseteq Int /\ {NULL} \subseteq {NULL} \cup 1 .. brk
      OBVIOUS
    <3>3. QED
      BY <2>1, <3>1, <3>2, Zenon DEF Rules
  <2>3. m_lstRules = <<>> /\ DOMAIN trees = {}
    BY Initially
  <2>4. QED
    BY <2>2, <2>3 DEF RulesInv
<1>4. ChainsInv
  <2>1. m_currentChain \in [id : {""}, cid : {0}, plstRules : {NULL, Indeterminate}]
    BY Initially
  <2>2. m_currentChain \in Chains /\ m_currentChain.plstRules \in {NULL, Indeterminate}
    <3>1. {""} \subseteq Strings
      BY EmptyString, Zenon
    <3>2. {0} \subseteq Int /\ {NULL, Indeterminate} \subseteq {NULL, Indeterminate} \cup 1 .. brk
      OBVIOUS
    <3>3. QED
      BY <2>1, <3>1, <3>2, Zenon DEF Chains
  <2>3. DOMAIN m_mapRuleChains = {} /\ DOMAIN m_mapStateChains = {} /\ DOMAIN lists = {}
    BY Initially
  <2>4. QED
    BY <2>2, <2>3 DEF ChainsInv
<1>5. QED
  BY <1>1, <1>2, <1>3, <1>4 DEF TypeInv

LEMMA TypeNext == TypeInv /\ [Next]_vars => TypeInv'
<1>1. TypeInv /\ UNCHANGED vars => TypeInv'
  <2> SUFFICES ASSUME TypeInv, UNCHANGED vars PROVE TypeInv'
    OBVIOUS
  <2>1. Flags' /\ ParserInv' /\ RulesInv' /\ ChainsInv'
    BY DEF TypeInv, Flags, ParserInv, RulesInv, ChainsInv, Rules, Chains, Entries, Reading,
           vars, state, rules, chains, expat
  <2>2. QED
    BY <2>1 DEF TypeInv
<1>2. TypeInv /\ Next => TypeInv'
  BY Steps, FlagsNext, ParserNext, RulesNext, ChainsNext DEF TypeInv
<1>3. QED
  BY <1>1, <1>2

LEMMA TypeInvariant == Spec => []TypeInv
BY TypeInit, TypeNext, PTL DEF Spec

(* Every variable keeps its type, and every address held or used has been  *)
(* handed out.                                                             *)
THEOREM TypeCorrect == Spec => []TypeOK
BY TypeInvariant, TypeInvType, PTL

-----------------------------------------------------------------------------
LEMMA RuleStored ==
  ASSUME RulesInv, FinishRule
  PROVE  /\ DOMAIN m_lstRules \subseteq DOMAIN m_lstRules'
         /\ \A i \in DOMAIN m_lstRules : m_lstRules'[i] = m_lstRules[i]
         /\ \A i \in DOMAIN m_lstRules' \ DOMAIN m_lstRules :
              i = Len(m_lstRules) + 1 /\ m_lstRules'[i] = m_currentRule
         /\ RuleTrees' = RuleTrees \cup ({m_currentRule.pExpTree} \ {NULL})
         /\ m_currentRule'.pExpTree = NULL
<1>1. /\ DOMAIN m_lstRules = 1 .. Len(m_lstRules) /\ Len(m_lstRules) \in Nat
      /\ DOMAIN m_lstRules' = 1 .. (Len(m_lstRules) + 1)
      /\ \A i \in 1 .. Len(m_lstRules) : m_lstRules'[i] = m_lstRules[i]
      /\ m_lstRules'[Len(m_lstRules) + 1] = m_currentRule
  BY DEF RulesInv, FinishRule
<1>2. \A i \in DOMAIN m_lstRules' :
        i \in DOMAIN m_lstRules \/ i = Len(m_lstRules) + 1
  BY <1>1
<1>3. m_currentRule'.pExpTree = NULL
  BY DEF RulesInv, Rules, FinishRule
<1>4. RuleTrees' = RuleTrees \cup ({m_currentRule.pExpTree} \ {NULL})
  <2>1. DOMAIN m_lstRules' = DOMAIN m_lstRules \cup {Len(m_lstRules) + 1}
    BY <1>1
  <2>2. \A i \in DOMAIN m_lstRules : m_lstRules'[i].pExpTree = m_lstRules[i].pExpTree
    BY <1>1
  <2>3. m_lstRules'[Len(m_lstRules) + 1].pExpTree = m_currentRule.pExpTree
    BY <1>1
  <2>4. QED
    BY <2>1, <2>2, <2>3 DEF RuleTrees
<1>5. QED
  BY <1>1, <1>2, <1>3, <1>4

LEMMA TreesInit == Init => TreesOwnedOnce
<1> SUFFICES ASSUME Init PROVE TreesOwnedOnce
  OBVIOUS
<1>1. m_lstRules = <<>> /\ DOMAIN m_lstRules = {} /\ DOMAIN trees = {}
      /\ m_currentRule.pExpTree = NULL
  BY Initially
<1>2. RuleTrees = {}
  BY <1>1 DEF RuleTrees
<1>3. QED
  BY <1>1, <1>2 DEF TreesOwnedOnce

LEMMA TreesNext == ParserInv /\ RulesInv /\ TreesOwnedOnce /\ RulesStep => TreesOwnedOnce'
<1> SUFFICES ASSUME ParserInv, RulesInv, TreesOwnedOnce, RulesStep, phase' # "destroyed"
             PROVE  TreesOwnedOnce'
  BY DEF TreesOwnedOnce
<1> DEFINE p == m_currentRule.pExpTree
<1>1. /\ DOMAIN trees = (RuleTrees \cup {p}) \ {NULL}
      /\ p \notin RuleTrees
      /\ \A i, j \in DOMAIN m_lstRules :
           m_lstRules[i].pExpTree = m_lstRules[j].pExpTree
             => i = j \/ m_lstRules[i].pExpTree = NULL
  BY DEF RulesStep, TreesOwnedOnce
<1>2. /\ brk \in Nat /\ NULL \notin Nat /\ p \in {NULL} \cup 1 .. brk
      /\ DOMAIN trees \subseteq 1 .. brk /\ NULL \notin RuleTrees
  BY FileAssumption DEF ParserInv, RulesInv, Rules, RuleTrees
<1>3. brk + 1 \notin RuleTrees /\ brk + 1 # NULL
  BY <1>1, <1>2
<1>4. CASE UNCHANGED m_lstRules
  <2>1. RuleTrees' = RuleTrees
    BY <1>4 DEF RuleTrees
  <2>2. SUFFICES /\ DOMAIN trees' = (RuleTrees \cup {m_currentRule'.pExpTree}) \ {NULL}
                 /\ m_currentRule'.pExpTree \notin RuleTrees
    BY <1>1, <1>4, <2>1 DEF TreesOwnedOnce
  <2>3. CASE NoteRule
    BY <1>1, <2>3 DEF NoteRule
  <2>4. CASE PlantTree
    <3>1. DOMAIN trees' = (DOMAIN trees \ {p}) \cup {brk + 1}
      BY <2>4 DEF PlantTree, newTree, Put, Free
    <3>2. m_currentRule'.pExpTree = brk + 1
      BY <2>4 DEF PlantTree
    <3>3. QED
      BY <1>1, <1>2, <1>3, <3>1, <3>2
  <2>5. CASE EditTree
    <3>1. DOMAIN trees' = DOMAIN trees \cup {p} /\ p # NULL /\ m_currentRule' = m_currentRule
      BY <2>5 DEF EditTree, Put
    <3>2. QED
      BY <1>1, <3>1
  <2>6. CASE UNCHANGED rules
    BY <1>1, <2>6 DEF rules
  <2>7. CASE FinishRule
    BY <1>4, <2>7 DEF FinishRule, RulesInv
  <2>8. QED
    BY <2>3, <2>4, <2>5, <2>6, <2>7 DEF RulesStep
<1>5. CASE FinishRule
  <2>1. /\ RuleTrees' = RuleTrees \cup ({p} \ {NULL})
        /\ m_currentRule'.pExpTree = NULL /\ trees' = trees
        /\ \A i \in DOMAIN m_lstRules : m_lstRules'[i] = m_lstRules[i]
        /\ \A i \in DOMAIN m_lstRules' \ DOMAIN m_lstRules :
             i = Len(m_lstRules) + 1 /\ m_lstRules'[i] = m_currentRule
    BY <1>5, RuleStored DEF FinishRule
  <2>2. DOMAIN trees' = (RuleTrees' \cup {NULL}) \ {NULL} /\ NULL \notin RuleTrees'
    BY <1>1, <1>2, <2>1
  <2>3. \A i \in DOMAIN m_lstRules : m_lstRules[i].pExpTree \in RuleTrees \cup {NULL}
    BY DEF RuleTrees
  <2>4. \A i, j \in DOMAIN m_lstRules' :
          m_lstRules'[i].pExpTree = m_lstRules'[j].pExpTree
            => i = j \/ m_lstRules'[i].pExpTree = NULL
    BY <1>1, <2>1, <2>3
  <2>5. QED
    BY <2>1, <2>2, <2>4 DEF TreesOwnedOnce
<1>6. QED
  BY <1>4, <1>5 DEF RulesStep, rules

LEMMA TreesInvariant == Spec => []TreesOwnedOnce
<1>1. TypeInv /\ TreesOwnedOnce /\ [Next]_vars => TreesOwnedOnce'
  <2>1. TreesOwnedOnce /\ UNCHANGED vars => TreesOwnedOnce'
    BY DEF TreesOwnedOnce, RuleTrees, vars, rules
  <2>2. QED
    BY <2>1, Steps, TreesNext DEF TypeInv
<1>2. QED
  BY <1>1, TreesInit, TypeInvariant, PTL DEF Spec

(* While a file is read no tree is leaked, deleted twice or used after its *)
(* deletion: each one in memory belongs to one finished rule or is in hand.*)
THEOREM TreesTheorem == Spec => []TreesOwnedOnce
BY TreesInvariant


-----------------------------------------------------------------------------
(* Where the parser stands: the elements open are <firewall-definition>s   *)
(* and, in a section, its tag and words of the section.                    *)
Words(section) ==
  CASE section = "networks" -> {"network"}
    [] section = "rules"    -> {"rule", "expression", "byte", "operator", "source",
                                "destination", "payload"}
    [] section \in {"rule-chains", "state-chains"} -> {"chain", "rule", "default"}
    [] OTHER -> {}

InSection(j) ==
  /\ open[j] = m_stGlobal
  /\ \A i \in 1 .. (j - 1) : open[i] = "firewall-definition"
  /\ \A i \in (j + 1) .. Len(open) : open[i] \in Words(m_stGlobal)

NestInv ==
  phase = "parsing" =>
    \/ /\ m_stGlobal = "NONE"
       /\ \A i \in 1 .. Len(open) : open[i] = "firewall-definition"
    \/ /\ m_stGlobal \in Sections
       /\ \E j \in 1 .. Len(open) : InSection(j)

InChains == m_stGlobal \in {"rule-chains", "state-chains"}

LEMMA WordsAreNoSections ==
  \A section : \A word \in Words(section) : word \notin Sections
BY DEF Words, Sections

LEMMA Pushed ==
  ASSUME NEW el \in Elements, ParserInv, StartElement(el)
  PROVE  /\ Len(open) \in Nat /\ Len(open') = Len(open) + 1
         /\ \A i \in 1 .. Len(open) : open'[i] = open[i]
         /\ open'[Len(open) + 1] = el.name
BY DEF ParserInv, StartElement

LEMMA Popped ==
  ASSUME ParserInv, EndElement
  PROVE  /\ Len(open) \in Nat \ {0} /\ Len(open') = Len(open) - 1
         /\ \A i \in 1 .. (Len(open) - 1) : open'[i] = open[i]
         /\ Last(open) = open[Len(open)]
BY ShorterIsSeq DEF ParserInv, EndElement

(* A start tag the handlers accept.                                        *)
LEMMA Accepted ==
  ASSUME NEW el \in Elements, StartElement(el), phase' = "parsing"
  PROVE  \/ /\ m_stGlobal = "NONE" /\ el.name \in Sections /\ m_stGlobal' = el.name
            /\ UNCHANGED <<rules, chains>>
         \/ /\ m_stGlobal = "NONE" /\ el.name = "firewall-definition" /\ UNCHANGED m_stGlobal
            /\ UNCHANGED <<rules, chains>>
         \/ /\ m_stGlobal = "networks" /\ el.name = "network" /\ UNCHANGED m_stGlobal
            /\ UNCHANGED <<rules, chains>>
         \/ /\ m_stGlobal = "rules" /\ el.name \in Words("rules") /\ UNCHANGED m_stGlobal
            /\ processRules(el)
         \/ /\ InChains /\ el.name \in Words("rule-chains") /\ UNCHANGED m_stGlobal
            /\ processChains(el)
<1>1. ~Reject
  BY DEF StartElement, Reject
<1>2. CASE startGlobal(el)
  BY <1>1, <1>2 DEF startGlobal
<1>3. CASE processNetworks(el)
  BY <1>1, <1>3 DEF processNetworks
<1>4. CASE processRules(el)
  <2>1. el.name \in Words("rules")
    BY <1>1, <1>4 DEF processRules, startRule, startExpression, startByte, startOperator,
                      startOther, Words
  <2>2. QED
    BY <1>4, <2>1 DEF processRules
<1>5. CASE processChains(el)
  <2>1. el.name \in Words("rule-chains")
    BY <1>1, <1>5 DEF processChains, startChain, startEntry, Words
  <2>2. QED
    BY <1>5, <2>1 DEF processChains, InChains
<1>6. QED
  BY <1>2, <1>3, <1>4, <1>5 DEF StartElement

LEMMA NestStart ==
  ASSUME NEW el \in Elements, ParserInv, NestInv, StartElement(el)
  PROVE  NestInv'
<1> SUFFICES ASSUME phase' = "parsing" PROVE NestInv'
  BY DEF NestInv
<1>1. phase = "parsing"
  BY DEF StartElement
<1>2. CASE m_stGlobal = "NONE"
  <2>1. \A i \in 1 .. Len(open) : open[i] = "firewall-definition"
    BY <1>1, <1>2 DEF NestInv, Sections
  <2>2. CASE el.name \in Sections /\ m_stGlobal' = el.name
    <3>1. PICK j \in Nat : j = Len(open) + 1
      BY Pushed
    <3>2. j \in 1 .. Len(open') /\ InSection(j)'
      BY <2>1, <2>2, <3>1, Pushed DEF InSection
    <3>3. QED
      BY <2>2, <3>2 DEF NestInv
  <2>3. CASE el.name = "firewall-definition" /\ m_stGlobal' = m_stGlobal
    <3>1. \A i \in 1 .. Len(open') : open'[i] = "firewall-definition"
      BY <2>1, <2>3, Pushed
    <3>2. QED
      BY <1>2, <2>3, <3>1 DEF NestInv
  <2>4. QED
    BY <1>2, <2>2, <2>3, Accepted DEF InChains
<1>3. CASE m_stGlobal \in Sections
  <2>1. PICK j \in 1 .. Len(open) : InSection(j)
    BY <1>1, <1>3 DEF NestInv, Sections
  <2>2. m_stGlobal' = m_stGlobal /\ el.name \in Words(m_stGlobal)
    BY <1>3, Accepted DEF Sections, Words, InChains
  <2>3. j \in 1 .. Len(open') /\ InSection(j)'
    BY <2>1, <2>2, Pushed, SMTT(30) DEF InSection
  <2>4. QED
    BY <1>3, <2>2, <2>3 DEF NestInv
<1>4. QED
  BY <1>2, <1>3 DEF ParserInv

(* What an end tag does to the section.                                    *)
LEMMA SectionLeft ==
  ASSUME EndElement
  PROVE  m_stGlobal' = IF Last(open) \in Sections THEN "NONE" ELSE m_stGlobal
BY DEF EndElement, onEndElement, endOperator, endRule, endChain, endOther, Sections

LEMMA NestEnd ==
  ASSUME ParserInv, NestInv, EndElement
  PROVE  NestInv'
<1> SUFFICES ASSUME phase' = "parsing" PROVE NestInv'
  BY DEF NestInv
<1>1. phase = "parsing"
  BY DEF EndElement
<1>2. CASE m_stGlobal = "NONE"
  <2>1. \A i \in 1 .. Len(open) : open[i] = "firewall-definition"
    BY <1>1, <1>2 DEF NestInv, Sections
  <2>2. m_stGlobal' = "NONE" /\ \A i \in 1 .. Len(open') : open'[i] = "firewall-definition"
    BY <1>2, <2>1, Popped, SectionLeft
  <2>3. QED
    BY <2>2 DEF NestInv
<1>3. CASE m_stGlobal \in Sections
  <2>1. PICK j \in 1 .. Len(open) : InSection(j)
    BY <1>1, <1>3 DEF NestInv, Sections
  <2>2. CASE j = Len(open)
    <3>1. m_stGlobal' = "NONE" /\ \A i \in 1 .. Len(open') : open'[i] = "firewall-definition"
      BY <1>3, <2>1, <2>2, Popped, SectionLeft DEF InSection
    <3>2. QED
      BY <3>1 DEF NestInv
  <2>3. CASE j # Len(open)
    <3>1. Len(open) \in (j + 1) .. Len(open)
      BY <2>1, <2>3, Popped
    <3>2. Last(open) \in Words(m_stGlobal)
      BY <2>1, <3>1, Popped DEF InSection
    <3>3. m_stGlobal' = m_stGlobal
      BY <3>2, SectionLeft, WordsAreNoSections
    <3>4. j \in 1 .. Len(open') /\ InSection(j)'
      BY <2>1, <2>3, <3>3, Popped DEF InSection
    <3>5. QED
      BY <1>3, <3>3, <3>4 DEF NestInv
  <2>4. QED
    BY <2>2, <2>3
<1>4. QED
  BY <1>2, <1>3 DEF ParserInv

LEMMA NestNext == ParserInv /\ NestInv /\ Next => NestInv'
<1>1. ParseError \/ printRules \/ destructor => NestInv'
  BY DEF ParseError, printRules, destructor, NestInv
<1>2. QED
  BY <1>1, NestStart, NestEnd DEF Next


-----------------------------------------------------------------------------
(* The chain in hand has a list of its own, once there is one, and every   *)
(* stored chain has its own list, or none, under its own key.              *)
ChainOpen == InChains /\ \E i \in 1 .. Len(open) : open[i] = "chain"

HandInv ==
  phase = "parsing" /\ ChainOpen => m_currentChain.plstRules \in {NULL} \cup DOMAIN lists

LinksInv ==
  Reading =>
    /\ \A k \in DOMAIN m_mapRuleChains :
         /\ m_mapRuleChains[k].cid = k
         /\ m_mapRuleChains[k].plstRules \in {NULL} \cup DOMAIN lists
    /\ \A k \in DOMAIN m_mapStateChains :
         /\ m_mapStateChains[k].id = k
         /\ m_mapStateChains[k].plstRules \in {NULL} \cup DOMAIN lists
    /\ \A k, l \in DOMAIN m_mapRuleChains :
         m_mapRuleChains[k].plstRules = m_mapRuleChains[l].plstRules
           => k = l \/ m_mapRuleChains[k].plstRules = NULL
    /\ \A k, l \in DOMAIN m_mapStateChains :
         m_mapStateChains[k].plstRules = m_mapStateChains[l].plstRules
           => k = l \/ m_mapStateChains[k].plstRules = NULL
    /\ \A k \in DOMAIN m_mapRuleChains, l \in DOMAIN m_mapStateChains :
         m_mapRuleChains[k].plstRules = m_mapStateChains[l].plstRules
           => m_mapRuleChains[k].plstRules = NULL
    /\ m_currentChain.plstRules \notin ChainLists

LEMMA HandStart ==
  ASSUME NEW el \in Elements, ParserInv, RulesInv, ChainsInv, NestInv, HandInv, StartElement(el)
  PROVE  HandInv'
<1> SUFFICES ASSUME phase' = "parsing", ChainOpen'
             PROVE  m_currentChain'.plstRules \in {NULL} \cup DOMAIN lists'
  BY DEF HandInv
<1>1. phase = "parsing"
  BY DEF StartElement
<1>2. PICK i \in 1 .. Len(open') : open'[i] = "chain"
  BY DEF ChainOpen
<1>3. (i \in 1 .. Len(open) /\ open[i] = "chain") \/ el.name = "chain"
  BY <1>2, Pushed
<1>4. InChains /\ processChains(el)
  <2>1. m_stGlobal = "NONE" => \A n \in 1 .. Len(open) : open[n] = "firewall-definition"
    BY <1>1 DEF NestInv, Sections
  <2>2. m_stGlobal' \in {"rule-chains", "state-chains"}
    BY DEF ChainOpen, InChains
  <2>3. m_stGlobal # "NONE"
    BY <1>3, <2>1, Accepted DEF Sections, InChains
  <2>4. QED
    BY <2>2, <2>3, Accepted DEF InChains
<1>5. CASE startChain(el)
  <2>1. m_currentChain'.plstRules = brk + 1 /\ lists' = Put(lists, brk + 1, <<>>)
    <3>1. ~Reject
      BY DEF StartElement, Reject
    <3>2. QED
      BY <1>5, <3>1 DEF startChain
  <2>2. QED
    BY <2>1 DEF Put
<1>6. CASE startEntry(el)
  <2>1. ChainOpen
    BY <1>3, <1>4, <1>6 DEF ChainOpen, startEntry
  <2>2. m_currentChain.plstRules \in {NULL} \cup DOMAIN lists
    BY <1>1, <2>1 DEF HandInv
  <2>3. m_currentChain' = m_currentChain /\ DOMAIN lists \subseteq DOMAIN lists'
    BY <1>6 DEF startEntry, Put
  <2>4. QED
    BY <2>2, <2>3
<1>7. QED
  BY <1>4, <1>5, <1>6 DEF processChains

LEMMA HandEnd ==
  ASSUME ParserInv, HandInv, EndElement
  PROVE  HandInv'
<1> SUFFICES ASSUME phase' = "parsing", ChainOpen'
             PROVE  m_currentChain'.plstRules \in {NULL} \cup DOMAIN lists'
  BY DEF HandInv
<1>1. phase = "parsing"
  BY DEF EndElement
<1>2. CASE endChain
  BY <1>2 DEF endChain
<1>3. CASE endOperator \/ endRule \/ endOther(Last(open))
  <2>1. m_stGlobal' \in {"NONE", m_stGlobal} /\ UNCHANGED chains
    BY <1>3 DEF endOperator, endRule, endOther
  <2>2. ChainOpen
    BY <2>1, Popped DEF ChainOpen, InChains
  <2>3. QED
    BY <1>1, <2>1, <2>2 DEF HandInv, chains
<1>4. QED
  BY <1>2, <1>3 DEF EndElement, onEndElement

LEMMA HandNext == ParserInv /\ RulesInv /\ ChainsInv /\ NestInv /\ HandInv /\ Next => HandInv'
<1>1. ParseError \/ printRules \/ destructor => HandInv'
  BY DEF ParseError, printRules, destructor, HandInv
<1>2. QED
  BY <1>1, HandStart, HandEnd DEF Next

LEMMA ChainStored ==
  ASSUME FinishChain
  PROVE  /\ \A k \in DOMAIN m_mapRuleChains' :
              \/ k \in DOMAIN m_mapRuleChains /\ m_mapRuleChains'[k] = m_mapRuleChains[k]
              \/ /\ k = m_currentChain.cid /\ m_mapRuleChains'[k] = m_currentChain
                 /\ m_mapStateChains' = m_mapStateChains
         /\ \A k \in DOMAIN m_mapStateChains' :
              \/ k \in DOMAIN m_mapStateChains /\ m_mapStateChains'[k] = m_mapStateChains[k]
              \/ /\ k = m_currentChain.id /\ m_mapStateChains'[k] = m_currentChain
                 /\ m_mapRuleChains' = m_mapRuleChains
         /\ \A k \in DOMAIN m_mapRuleChains :
              k \in DOMAIN m_mapRuleChains' /\ m_mapRuleChains'[k] = m_mapRuleChains[k]
         /\ \A k \in DOMAIN m_mapStateChains :
              k \in DOMAIN m_mapStateChains' /\ m_mapStateChains'[k] = m_mapStateChains[k]
         /\ ChainLists' \subseteq ChainLists \cup ({m_currentChain.plstRules} \ {NULL})
         /\ m_currentChain'.plstRules = NULL /\ lists' = lists
<1>1. m_currentChain'.plstRules = NULL /\ lists' = lists
  BY DEF FinishChain
<1>2. CASE /\ m_mapRuleChains' = Insert(m_mapRuleChains, m_currentChain.cid, m_currentChain)
           /\ m_mapStateChains' = m_mapStateChains
  <2>1. /\ \A k \in DOMAIN m_mapRuleChains' :
             \/ k \in DOMAIN m_mapRuleChains /\ m_mapRuleChains'[k] = m_mapRuleChains[k]
             \/ k = m_currentChain.cid /\ m_mapRuleChains'[k] = m_currentChain
        /\ \A k \in DOMAIN m_mapRuleChains :
             k \in DOMAIN m_mapRuleChains' /\ m_mapRuleChains'[k] = m_mapRuleChains[k]
    BY <1>2 DEF Insert, Put
  <2>2. ASSUME NEW p \in ChainLists'
        PROVE  p \in ChainLists \cup ({m_currentChain.plstRules} \ {NULL})
    BY <1>2, <2>1 DEF ChainLists
  <2>3. QED
    BY <1>2, <2>1, <2>2, <1>1
<1>3. CASE /\ m_mapStateChains' = Insert(m_mapStateChains, m_currentChain.id, m_currentChain)
           /\ m_mapRuleChains' = m_mapRuleChains
  <2>1. /\ \A k \in DOMAIN m_mapStateChains' :
             \/ k \in DOMAIN m_mapStateChains /\ m_mapStateChains'[k] = m_mapStateChains[k]
             \/ k = m_currentChain.id /\ m_mapStateChains'[k] = m_currentChain
        /\ \A k \in DOMAIN m_mapStateChains :
             k \in DOMAIN m_mapStateChains' /\ m_mapStateChains'[k] = m_mapStateChains[k]
    BY <1>3 DEF Insert, Put
  <2>2. ASSUME NEW p \in ChainLists'
        PROVE  p \in ChainLists \cup ({m_currentChain.plstRules} \ {NULL})
    BY <1>3, <2>1 DEF ChainLists
  <2>3. QED
    BY <1>3, <2>1, <2>2, <1>1
<1>4. QED
  BY <1>2, <1>3 DEF FinishChain


LEMMA LinksNext ==
  ParserInv /\ ChainsInv /\ NestInv /\ HandInv /\ LinksInv /\ ChainsStep => LinksInv'
<1> SUFFICES ASSUME ParserInv, ChainsInv, NestInv, HandInv, LinksInv, ChainsStep, Reading'
             PROVE  LinksInv'
  BY DEF LinksInv
<1>1. Reading
  BY DEF ChainsStep
<1>2. /\ \A k \in DOMAIN m_mapRuleChains :
           /\ m_mapRuleChains[k].cid = k
           /\ m_mapRuleChains[k].plstRules \in {NULL} \cup DOMAIN lists
      /\ \A k \in DOMAIN m_mapStateChains :
           /\ m_mapStateChains[k].id = k
           /\ m_mapStateChains[k].plstRules \in {NULL} \cup DOMAIN lists
      /\ \A k, l \in DOMAIN m_mapRuleChains :
           m_mapRuleChains[k].plstRules = m_mapRuleChains[l].plstRules
             => k = l \/ m_mapRuleChains[k].plstRules = NULL
      /\ \A k, l \in DOMAIN m_mapStateChains :
           m_mapStateChains[k].plstRules = m_mapStateChains[l].plstRules
             => k = l \/ m_mapStateChains[k].plstRules = NULL
      /\ \A k \in DOMAIN m_mapRuleChains, l \in DOMAIN m_mapStateChains :
           m_mapRuleChains[k].plstRules = m_mapStateChains[l].plstRules
             => m_mapRuleChains[k].plstRules = NULL
      /\ m_currentChain.plstRules \notin ChainLists
  BY <1>1 DEF LinksInv
<1>3. NULL \notin ChainLists /\ ChainLists \subseteq DOMAIN lists
  BY <1>2 DEF ChainLists
<1>4. CASE UNCHANGED <<m_mapRuleChains, m_mapStateChains>>
  <2>1. ChainLists' = ChainLists
    BY <1>4 DEF ChainLists
  <2>2. SUFFICES DOMAIN lists \subseteq DOMAIN lists' /\ m_currentChain'.plstRules \notin ChainLists
    BY <1>2, <1>4, <2>1 DEF LinksInv
  <2>3. CASE NewList
    <3>1. m_currentChain'.plstRules = brk + 1 /\ DOMAIN lists \subseteq DOMAIN lists'
      BY <2>3 DEF NewList, Put
    <3>2. brk + 1 \notin ChainLists
      BY <1>3 DEF ChainsInv, ParserInv
    <3>3. QED
      BY <3>1, <3>2
  <2>4. CASE AddEntry
    BY <1>2, <2>4 DEF AddEntry, Put
  <2>5. CASE UNCHANGED chains
    BY <1>2, <2>5 DEF chains
  <2>6. CASE FinishChain
    BY <1>3, <2>6 DEF FinishChain
  <2>7. QED
    BY <2>3, <2>4, <2>5, <2>6 DEF ChainsStep, Reading
<1>5. CASE FinishChain /\ ~UNCHANGED <<m_mapRuleChains, m_mapStateChains>>
  <2>1. phase = "parsing" /\ ChainOpen
    <3>1. phase = "parsing" /\ open # <<>> /\ Last(open) = "chain"
      BY <1>5 DEF ChainsStep, Reading, chains
    <3>2. Last(open) = open[Len(open)] /\ Len(open) \in 1 .. Len(open)
      <4>1. open \in Seq({el.name : el \in Elements})
        BY DEF ParserInv
      <4>2. Last(open) = open[Len(open)] /\ Len(open) \in Nat \ {0}
        BY <3>1, <4>1, ShorterIsSeq
      <4>3. QED
        BY <4>2
    <3>3. InChains
      BY <1>5 DEF FinishChain, InChains
    <3>4. QED
      BY <3>1, <3>2, <3>3 DEF ChainOpen
  <2>2. m_currentChain.plstRules \in {NULL} \cup DOMAIN lists
    BY <2>1 DEF HandInv
  <2>3. /\ \A k \in DOMAIN m_mapRuleChains : m_mapRuleChains[k].plstRules \in {NULL} \cup ChainLists
        /\ \A k \in DOMAIN m_mapStateChains : m_mapStateChains[k].plstRules \in {NULL} \cup ChainLists
    BY DEF ChainLists
  <2>4. \A k \in DOMAIN m_mapRuleChains' :
          \/ k \in DOMAIN m_mapRuleChains /\ m_mapRuleChains'[k] = m_mapRuleChains[k]
          \/ /\ k = m_currentChain.cid /\ m_mapRuleChains'[k] = m_currentChain
             /\ m_mapStateChains' = m_mapStateChains
    BY <1>5, ChainStored
  <2>5. \A k \in DOMAIN m_mapStateChains' :
          \/ k \in DOMAIN m_mapStateChains /\ m_mapStateChains'[k] = m_mapStateChains[k]
          \/ /\ k = m_currentChain.id /\ m_mapStateChains'[k] = m_currentChain
             /\ m_mapRuleChains' = m_mapRuleChains
    BY <1>5, ChainStored
  <2>6. /\ ChainLists' \subseteq ChainLists \cup ({m_currentChain.plstRules} \ {NULL})
        /\ m_currentChain'.plstRules = NULL /\ lists' = lists
    BY <1>5, ChainStored
  <2>7. \A k \in DOMAIN m_mapRuleChains' :
          /\ m_mapRuleChains'[k].cid = k
          /\ m_mapRuleChains'[k].plstRules \in {NULL} \cup DOMAIN lists'
    BY <1>2, <2>2, <2>4, <2>6
  <2>8. \A k \in DOMAIN m_mapStateChains' :
          /\ m_mapStateChains'[k].id = k
          /\ m_mapStateChains'[k].plstRules \in {NULL} \cup DOMAIN lists'
    BY <1>2, <2>2, <2>5, <2>6
  <2>9. \A k, l \in DOMAIN m_mapRuleChains' :
          m_mapRuleChains'[k].plstRules = m_mapRuleChains'[l].plstRules
            => k = l \/ m_mapRuleChains'[k].plstRules = NULL
    BY <1>2, <2>3, <2>4
  <2>10. \A k, l \in DOMAIN m_mapStateChains' :
          m_mapStateChains'[k].plstRules = m_mapStateChains'[l].plstRules
            => k = l \/ m_mapStateChains'[k].plstRules = NULL
    BY <1>2, <2>3, <2>5
  <2>11. \A k \in DOMAIN m_mapRuleChains', l \in DOMAIN m_mapStateChains' :
          m_mapRuleChains'[k].plstRules = m_mapStateChains'[l].plstRules
            => m_mapRuleChains'[k].plstRules = NULL
    BY <1>2, <2>3, <2>4, <2>5
  <2>12. m_currentChain'.plstRules \notin ChainLists'
    BY <1>3, <2>6
  <2>13. QED
    BY <2>7, <2>8, <2>9, <2>10, <2>11, <2>12, Zenon DEF LinksInv
<1>6. QED
  BY <1>4, <1>5 DEF ChainsStep, Reading, chains

ReadInv == NestInv /\ HandInv /\ LinksInv

LEMMA ReadInvariant == Spec => []ReadInv
<1>1. Init => ReadInv
  <2> SUFFICES ASSUME Init PROVE ReadInv
    OBVIOUS
  <2>1. m_stGlobal = "NONE" /\ open = <<>>
    BY Initially
  <2>2. DOMAIN m_mapRuleChains = {} /\ DOMAIN m_mapStateChains = {}
    BY Initially
  <2>3. NestInv /\ HandInv
    BY <2>1 DEF NestInv, HandInv, ChainOpen, InChains
  <2>4. ChainLists = {}
    BY <2>2 DEF ChainLists
  <2>5. LinksInv
    BY <2>2, <2>4 DEF LinksInv
  <2>6. QED
    BY <2>3, <2>5 DEF ReadInv
<1>2. TypeInv /\ ReadInv /\ [Next]_vars => ReadInv'
  <2>1. ReadInv /\ UNCHANGED vars => ReadInv'
    <3> SUFFICES ASSUME ReadInv, UNCHANGED vars PROVE ReadInv'
      OBVIOUS
    <3>1. UNCHANGED <<m_stGlobal, m_currentChain, m_mapRuleChains, m_mapStateChains, lists,
                      phase, open>>
      BY DEF vars, state, chains, expat
    <3>2. NestInv'
      BY <3>1 DEF ReadInv, NestInv, InSection
    <3>3. HandInv'
      BY <3>1 DEF ReadInv, HandInv, ChainOpen, InChains
    <3>4. LinksInv'
      BY <3>1 DEF ReadInv, LinksInv, Reading, ChainLists
    <3>5. QED
      BY <3>2, <3>3, <3>4 DEF ReadInv
  <2>2. QED
    BY <2>1, Steps, NestNext, HandNext, LinksNext DEF TypeInv, ReadInv
<1>3. QED
  BY <1>1, <1>2, TypeInvariant, PTL DEF Spec

-----------------------------------------------------------------------------
LEMMA RulesKept ==
  ASSUME ParserInv, RulesInv, TreesOwnedOnce, RulesStep
  PROVE  /\ \A i \in DOMAIN m_lstRules : m_lstRules'[i] = m_lstRules[i]
         /\ \A p \in RuleTrees :
              phase' # "destroyed" => p \in DOMAIN trees' /\ trees'[p] = trees[p]
<1>1. \A i \in DOMAIN m_lstRules : m_lstRules'[i] = m_lstRules[i]
  BY RuleStored DEF RulesStep, rules
<1>2. ASSUME NEW p \in RuleTrees, phase' # "destroyed"
      PROVE  p \in DOMAIN trees' /\ trees'[p] = trees[p]
  <2>1. p # m_currentRule.pExpTree /\ p \in DOMAIN trees /\ p \in 1 .. brk /\ brk \in Nat
    BY <1>2 DEF TreesOwnedOnce, RulesStep, RulesInv, RuleTrees, ParserInv
  <2>2. CASE PlantTree
    BY <2>1, <2>2 DEF PlantTree, newTree, Put, Free
  <2>3. CASE EditTree
    BY <2>1, <2>3 DEF EditTree, Put
  <2>4. CASE UNCHANGED trees
    BY <2>1, <2>4
  <2>5. QED
    BY <1>2, <2>2, <2>3, <2>4 DEF RulesStep, NoteRule, FinishRule, rules
<1>3. QED
  BY <1>1, <1>2

LEMMA ChainsKept ==
  ASSUME ParserInv, ChainsInv, LinksInv, ChainsStep
  PROVE  /\ \A k \in DOMAIN m_mapRuleChains : m_mapRuleChains'[k] = m_mapRuleChains[k]
         /\ \A k \in DOMAIN m_mapStateChains : m_mapStateChains'[k] = m_mapStateChains[k]
         /\ \A p \in ChainLists \cap DOMAIN lists :
              phase' # "destroyed" => p \in DOMAIN lists' /\ lists'[p] = lists[p]
<1>1. /\ \A k \in DOMAIN m_mapRuleChains : m_mapRuleChains'[k] = m_mapRuleChains[k]
      /\ \A k \in DOMAIN m_mapStateChains : m_mapStateChains'[k] = m_mapStateChains[k]
  BY ChainStored DEF ChainsStep, chains
<1>2. ASSUME NEW p \in ChainLists \cap DOMAIN lists, phase' # "destroyed"
      PROVE  p \in DOMAIN lists' /\ lists'[p] = lists[p]
  <2>1. p \in 1 .. brk /\ brk \in Nat
    BY <1>2 DEF ChainsInv, ParserInv
  <2>2. CASE NewList
    BY <1>2, <2>1, <2>2 DEF NewList, Put
  <2>3. CASE AddEntry /\ phase = "parsing"
    <3>1. p # m_currentChain.plstRules
      BY <1>2, <2>3 DEF LinksInv, Reading
    <3>2. QED
      BY <1>2, <2>3, <3>1 DEF AddEntry, Put
  <2>4. CASE UNCHANGED lists
    BY <1>2, <2>4
  <2>5. QED
    BY <1>2, <2>2, <2>3, <2>4 DEF ChainsStep, FinishChain, chains
<1>3. QED
  BY <1>1, <1>2

(* What has been stored is final, whatever follows in the file: the rules  *)
(* and their trees, the chains of the maps and their lists.                *)
THEOREM StoredTheorem == Spec => StoredIsFinal
<1> DEFINE Kept ==
      /\ \A i \in DOMAIN m_lstRules : m_lstRules'[i] = m_lstRules[i]
      /\ \A p \in RuleTrees :
           phase' # "destroyed" => p \in DOMAIN trees' /\ trees'[p] = trees[p]
      /\ \A k \in DOMAIN m_mapRuleChains : m_mapRuleChains'[k] = m_mapRuleChains[k]
      /\ \A k \in DOMAIN m_mapStateChains : m_mapStateChains'[k] = m_mapStateChains[k]
      /\ \A p \in ChainLists \cap DOMAIN lists :
           phase' # "destroyed" => p \in DOMAIN lists' /\ lists'[p] = lists[p]
<1>1. TypeInv /\ TreesOwnedOnce /\ ReadInv /\ [Next]_vars => [Kept]_vars
  BY Steps, RulesKept, ChainsKept DEF TypeInv, ReadInv
<1>2. QED
  BY <1>1, TypeInvariant, TreesInvariant, ReadInvariant, PTL DEF Spec, StoredIsFinal


-----------------------------------------------------------------------------
(* The operators open in the innermost rule that is open.                  *)
OpenOperators(s) ==
  {i \in 1 .. Len(s) : s[i] = "operator" /\ \A j \in (i + 1) .. Len(s) : s[j] # "rule"}

LEMMA OperatorsCounted ==
  ASSUME NEW S, NEW s \in Seq(S)
  PROVE  /\ IsFiniteSet(OpenOperators(s))
         /\ Cardinality(OpenOperators(s)) \in Nat
<1>1. OpenOperators(s) \subseteq 1 .. Len(s) /\ Len(s) \in Nat
  BY DEF OpenOperators
<1>2. IsFiniteSet(1 .. Len(s))
  BY <1>1, FS_Interval
<1>3. QED
  BY <1>1, <1>2, FS_Subset, FS_CardinalityType

(* s is longer by the word at its end.                                     *)
LEMMA OperatorsLonger ==
  ASSUME NEW S, NEW s \in Seq(S), NEW t \in Seq(S), Len(t) = Len(s) + 1,
         \A i \in 1 .. Len(s) : t[i] = s[i],
         t[Len(t)] # "rule"
  PROVE  Cardinality(OpenOperators(t)) =
           IF t[Len(t)] = "operator" THEN Cardinality(OpenOperators(s)) + 1
                                     ELSE Cardinality(OpenOperators(s))
<1>1. Len(s) \in Nat /\ Len(t) \in Nat
  OBVIOUS
<1>2. OpenOperators(t) = IF t[Len(t)] = "operator" THEN OpenOperators(s) \cup {Len(t)}
                                                   ELSE OpenOperators(s)
  <2>1. ASSUME NEW i \in 1 .. Len(s)
        PROVE  i \in OpenOperators(t) <=> i \in OpenOperators(s)
    <3>1. (\A j \in (i + 1) .. Len(t) : t[j] # "rule")
            <=> (\A j \in (i + 1) .. Len(s) : s[j] # "rule")
      <4>1. \A j \in (i + 1) .. Len(t) : j \in (i + 1) .. Len(s) \/ j = Len(t)
        BY <1>1
      <4>2. \A j \in (i + 1) .. Len(s) : j \in 1 .. Len(s) /\ j \in (i + 1) .. Len(t)
        BY <1>1
      <4>3. QED
        BY <4>1, <4>2
    <3>2. i \in 1 .. Len(t) /\ t[i] = s[i]
      BY <1>1
    <3>3. QED
      BY <3>1, <3>2 DEF OpenOperators
  <2>2. Len(t) \in OpenOperators(t) <=> t[Len(t)] = "operator"
    BY <1>1 DEF OpenOperators
  <2>3. /\ OpenOperators(t) \subseteq 1 .. Len(t) /\ OpenOperators(s) \subseteq 1 .. Len(s)
        /\ Len(t) \notin 1 .. Len(s)
        /\ \A i \in 1 .. Len(t) : i \in 1 .. Len(s) \/ i = Len(t)
    BY <1>1 DEF OpenOperators
  <2>4. ASSUME NEW i
        PROVE  i \in OpenOperators(t) <=>
                 i \in OpenOperators(s) \/ (i = Len(t) /\ t[Len(t)] = "operator")
    BY <2>1, <2>2, <2>3
  <2>5. QED
    BY <2>4
<1>3. Len(t) \notin OpenOperators(s)
  BY <1>1 DEF OpenOperators
<1>4. QED
  BY <1>2, <1>3, OperatorsCounted, FS_AddElement

LEMMA NoOperatorAfterRule ==
  ASSUME NEW S, NEW s \in Seq(S), Len(s) > 0, s[Len(s)] = "rule"
  PROVE  Cardinality(OpenOperators(s)) = 0
<1>1. OpenOperators(s) = {}
  BY DEF OpenOperators
<1>2. QED
  BY <1>1, FS_EmptySet

LEMMA NoOperators ==
  ASSUME NEW S, NEW s \in Seq(S), \A i \in 1 .. Len(s) : s[i] # "operator"
  PROVE  Cardinality(OpenOperators(s)) = 0
<1>1. OpenOperators(s) = {}
  BY DEF OpenOperators
<1>2. QED
  BY <1>1, FS_EmptySet


-----------------------------------------------------------------------------
(* Every tree in memory is one, the tree of a finished rule has no open    *)
(* operator, and the one in hand not more than the file.                   *)
GrownInv == \A p \in DOMAIN trees : IsTree(trees[p])

DepthInv ==
  /\ Reading => \A p \in RuleTrees : Len(trees[p]) = 1
  /\ phase = "parsing" /\ m_currentRule.pExpTree # NULL =>
       Len(trees[m_currentRule.pExpTree]) <= 1 + Cardinality(OpenOperators(open))

LEMMA GrownNext == RulesInv /\ TreesOwnedOnce /\ GrownInv /\ RulesStep => GrownInv'
<1> SUFFICES ASSUME RulesInv, TreesOwnedOnce, GrownInv, RulesStep, NEW x \in DOMAIN trees'
             PROVE  IsTree(trees'[x])
  BY DEF GrownInv
<1>1. CASE PlantTree
  <2>1. \/ x = brk + 1 /\ trees'[x] = EmptyTree
        \/ x \in DOMAIN trees /\ trees'[x] = trees[x]
    BY <1>1 DEF PlantTree, newTree, Put, Free
  <2>2. QED
    BY <2>1, EmptyIsTree DEF GrownInv
<1>2. CASE EditTree
  <2> DEFINE p == m_currentRule.pExpTree
  <2>1. p \in DOMAIN trees
    BY <1>2 DEF EditTree, TreesOwnedOnce, RulesStep
  <2>2. PICK tree : trees' = Put(trees, p, tree) /\ (IsTree(trees[p]) => IsTree(tree))
    BY <1>2 DEF EditTree
  <2>3. \/ x = p /\ trees'[x] = tree
        \/ x \in DOMAIN trees /\ trees'[x] = trees[x]
    BY <2>2 DEF Put
  <2>4. QED
    BY <2>1, <2>2, <2>3 DEF GrownInv
<1>3. CASE UNCHANGED trees \/ trees' = [b \in DOMAIN trees \ RuleTrees |-> trees[b]]
  BY <1>3 DEF GrownInv
<1>4. QED
  BY <1>1, <1>2, <1>3 DEF RulesStep, NoteRule, FinishRule, rules

(* Outside of <rules> no operator is open.                                 *)
LEMMA NoOperatorElsewhere ==
  ASSUME ParserInv, NestInv, phase = "parsing", m_stGlobal # "rules"
  PROVE  Cardinality(OpenOperators(open)) = 0
<1>1. \A i \in 1 .. Len(open) : open[i] # "operator"
  <2>1. CASE m_stGlobal = "NONE"
    BY <2>1 DEF NestInv, Sections
  <2>2. CASE m_stGlobal \in Sections
    <3>1. PICK j \in 1 .. Len(open) : InSection(j)
      BY <2>2 DEF NestInv, Sections
    <3>2. "operator" \notin Words(m_stGlobal) \cup Sections
      BY DEF Words, Sections
    <3>3. ASSUME NEW i \in 1 .. Len(open) PROVE open[i] # "operator"
      <4>1. i = j \/ i \in 1 .. (j - 1) \/ i \in (j + 1) .. Len(open)
        BY DEF ParserInv
      <4>2. QED
        BY <2>2, <3>1, <3>2, <4>1 DEF InSection
    <3>4. QED
      BY <3>3
  <2>3. QED
    BY <2>1, <2>2 DEF ParserInv
<1>2. open \in Seq({el.name : el \in Elements})
  BY DEF ParserInv
<1>3. QED
  BY <1>1, <1>2, NoOperators

LEMMA StartPlants ==
  ASSUME NEW el \in Elements, (startRule(el) /\ ~Reject) \/ startExpression(el), RulesInv
  PROVE  PlantTree
<1>1. CASE startRule(el) /\ ~Reject
  <2>1. /\ newTree /\ Has(el, "id")
        /\ m_currentRule' = [id |-> Attr(el, "id"), cid |-> atoi(Attr(el, "cid")),
                             pExpTree |-> brk + 1]
    BY <1>1 DEF startRule
  <2>2. QED
    BY <2>1, AttrType, Numbering DEF PlantTree
<1>2. CASE startExpression(el)
  <2>1. m_currentRule.id \in Strings /\ m_currentRule.cid \in Int
    BY DEF RulesInv, Rules
  <2>2. m_currentRule' = [id |-> m_currentRule.id, cid |-> m_currentRule.cid,
                          pExpTree |-> brk + 1]
    BY <1>2 DEF startExpression, RulesInv, Rules
  <2>3. QED
    BY <1>2, <2>1, <2>2 DEF startExpression, PlantTree
<1>3. QED
  BY <1>1, <1>2

LEMMA DepthStart ==
  ASSUME NEW el \in Elements, ParserInv, RulesInv, ChainsInv, TreesOwnedOnce, GrownInv, NestInv,
         DepthInv, ParserInv', StartElement(el)
  PROVE  DepthInv'
<1> DEFINE p == m_currentRule.pExpTree
           n == Cardinality(OpenOperators(open))
<1>1. phase = "parsing" /\ phase' \in {"parsing", "stopping"} /\ UNCHANGED m_lstRules
  BY DEF StartElement
<1>2. \A a \in RuleTrees' : Len(trees'[a]) = 1
  <2>1. RuleTrees' = RuleTrees
    BY <1>1 DEF RuleTrees
  <2>2. \A a \in RuleTrees : trees'[a] = trees[a]
    BY <1>1, StartSteps, RulesKept
  <2>3. QED
    BY <1>1, <2>1, <2>2 DEF DepthInv, Reading
<1>3. ASSUME phase' = "parsing", m_currentRule'.pExpTree # NULL
      PROVE  Len(trees'[m_currentRule'.pExpTree]) <= 1 + Cardinality(OpenOperators(open'))
  <2> DEFINE k == Cardinality(OpenOperators(open'))
             q == m_currentRule'.pExpTree
  <2>1. /\ open \in Seq({e.name : e \in Elements}) /\ open' \in Seq({e.name : e \in Elements})
        /\ Len(open') = Len(open) + 1
        /\ \A i \in 1 .. Len(open) : open'[i] = open[i]
        /\ open'[Len(open')] = el.name
    BY Pushed DEF ParserInv
  <2>2. n \in Nat /\ k \in Nat
    BY <2>1, OperatorsCounted
  <2>3. el.name # "rule" => k = IF el.name = "operator" THEN n + 1 ELSE n
    BY <2>1, OperatorsLonger
  <2>4. p # NULL => p \in DOMAIN trees /\ IsTree(trees[p]) /\ Len(trees[p]) <= 1 + n
    BY <1>1 DEF TreesOwnedOnce, GrownInv, DepthInv
  <2>5. p # NULL => Len(trees[p]) \in Nat
    <3>1. ASSUME NEW tree, IsTree(tree) PROVE Len(tree) \in Nat
      BY <3>1 DEF IsTree
    <3>2. QED
      BY <2>4, <3>1
  <2> HIDE DEF n, k, p, q
  <2>6. CASE UNCHANGED rules /\ m_stGlobal # "rules"
    <3>1. n = 0
      BY <1>1, <2>6, NoOperatorElsewhere DEF n
    <3>2. q = p /\ trees' = trees
      BY <2>6 DEF rules, q, p
    <3>3. QED
      BY <1>3, <2>2, <2>4, <2>5, <3>1, <3>2 DEF k, q
  <2>7. CASE processRules(el)
    <3>1. CASE PlantTree
      <4>1. q = brk + 1 /\ trees'[q] = EmptyTree
        BY <3>1 DEF PlantTree, newTree, Put, q
      <4>2. QED
        BY <2>2, <4>1, EmptyIsTree DEF k, q
    <3>2. CASE q = p /\ Len(trees'[p]) = Len(trees[p]) /\ el.name \notin {"rule", "operator"}
      BY <1>3, <2>2, <2>3, <2>4, <2>5, <3>2 DEF k, q
    <3>3. ~Reject
      BY <1>3 DEF StartElement, Reject
    <3>4. CASE startRule(el)
      BY <3>1, <3>3, <3>4, StartPlants
    <3>5. CASE startExpression(el)
      BY <3>1, <3>5, StartPlants
    <3>6. CASE startByte(el)
      <4>1. q = p /\ el.name = "byte"
        BY <3>6 DEF startByte, q, p
      <4>2. trees' = trees \/ \E v : trees' = Put(trees, p, addValue(trees[p], v))
        BY <3>6 DEF startByte, addByte, p
      <4>3. Len(trees'[p]) = Len(trees[p])
        BY <1>3, <2>4, <4>1, <4>2, AddValueKeeps DEF Put, q
      <4>4. QED
        BY <3>2, <4>1, <4>3
    <3>7. CASE startOperator(el)
      <4>1. q = p /\ el.name = "operator"
        BY <3>7 DEF startOperator, q, p
      <4>2. \E type : trees' = Put(trees, p, operatorStart(trees[p], type))
        BY <3>3, <3>7 DEF startOperator, p
      <4>3. Len(trees'[p]) = Len(trees[p]) + 1
        BY <1>3, <2>4, <4>1, <4>2, OperatorStartGrows DEF Put, q
      <4>4. QED
        BY <1>3, <2>2, <2>3, <2>4, <2>5, <4>1, <4>3 DEF k, q
    <3>8. CASE startOther(el)
      BY <3>2, <3>8 DEF startOther, q, p
    <3>9. QED
      BY <2>7, <3>4, <3>5, <3>6, <3>7, <3>8 DEF processRules
  <2>8. m_stGlobal = "rules" => processRules(el)
    BY <1>3, Accepted DEF InChains
  <2>9. m_stGlobal # "rules" => UNCHANGED rules
    BY <1>3, Accepted, StartChains
  <2>10. QED
    BY <2>6, <2>7, <2>8, <2>9
<1>4. QED
  BY <1>2, <1>3 DEF DepthInv


LEMMA DepthEnd ==
  ASSUME ParserInv, RulesInv, ChainsInv, TreesOwnedOnce, GrownInv, NestInv, DepthInv, ParserInv',
         EndElement
  PROVE  DepthInv'
<1> DEFINE p == m_currentRule.pExpTree
           n == Cardinality(OpenOperators(open))
           k == Cardinality(OpenOperators(open'))
<1> SUFFICES ASSUME phase = "parsing"
             PROVE  /\ \A a \in RuleTrees' : Len(trees'[a]) = 1
                    /\ m_currentRule'.pExpTree # NULL =>
                         Len(trees'[m_currentRule'.pExpTree]) <= 1 + k
  BY DEF DepthInv, Reading, EndElement
<1>1. /\ open \in Seq({e.name : e \in Elements}) /\ open' \in Seq({e.name : e \in Elements})
      /\ Len(open) = Len(open') + 1 /\ Len(open) > 0
      /\ \A i \in 1 .. Len(open') : open[i] = open'[i]
      /\ open[Len(open)] = Last(open)
  BY Popped DEF ParserInv
<1>2. n \in Nat /\ k \in Nat
  BY <1>1, OperatorsCounted
<1>3. Last(open) # "rule" => n = IF Last(open) = "operator" THEN k + 1 ELSE k
  BY <1>1, OperatorsLonger
<1>4. p # NULL => p \in DOMAIN trees /\ IsTree(trees[p]) /\ Len(trees[p]) <= 1 + n
  BY DEF TreesOwnedOnce, GrownInv, DepthInv
<1>5. ASSUME NEW tree, IsTree(tree) PROVE Len(tree) \in Nat /\ Len(tree) >= 1
  BY <1>5 DEF IsTree
<1>6. /\ \A a \in RuleTrees : Len(trees[a]) = 1
      /\ \A a \in RuleTrees : trees'[a] = trees[a]
  <2>1. RulesStep /\ phase' # "destroyed"
    BY EndSteps DEF EndElement
  <2>2. QED
    BY <2>1, RulesKept DEF DepthInv, Reading
<1>7. UNCHANGED m_lstRules => \A a \in RuleTrees' : Len(trees'[a]) = 1
  <2>1. UNCHANGED m_lstRules => RuleTrees' = RuleTrees
    BY DEF RuleTrees
  <2>2. QED
    BY <1>6, <2>1
<1>8. CASE endRule /\ Last(open) = "rule"
  <2>1. n = 0
    BY <1>1, <1>8, NoOperatorAfterRule
  <2>2. ASSUME p # NULL PROVE Len(trees[p]) = 1
    <3>1. Len(trees[p]) \in Nat /\ Len(trees[p]) >= 1
      BY <1>4, <1>5, <2>2
    <3>2. Len(trees[p]) <= 1 + 0
      BY <1>4, <2>1, <2>2
    <3>3. PICK m \in Nat : m = Len(trees[p])
      BY <3>1
    <3>4. m >= 1
      BY <3>1, <3>3
    <3>5. m <= 1
      BY <3>2, <3>3
    <3>6. m = 1
      BY <3>4, <3>5
    <3>7. QED
      BY <3>3, <3>6
  <2>3. /\ RuleTrees' = RuleTrees \cup ({p} \ {NULL})
        /\ m_currentRule'.pExpTree = NULL /\ trees' = trees
    <3>1. FinishRule
      BY <1>8 DEF endRule, FinishRule, EndElement
    <3>2. QED
      BY <3>1, RuleStored DEF FinishRule
  <2>4. QED
    BY <1>6, <2>2, <2>3
<1>9. CASE endOperator /\ Last(open) = "operator"
  <2>1. n = k + 1
    BY <1>3, <1>9
  <2>2. UNCHANGED <<m_lstRules, m_currentRule>>
    BY <1>9 DEF endOperator
  <2>3. ASSUME p # NULL PROVE Len(trees'[p]) <= 1 + k
    <3>1. trees'[p] = operatorEnd(trees[p])
      BY <1>9, <2>3 DEF endOperator, Put
    <3>2. Len(trees'[p]) = IF Len(trees[p]) = 1 THEN 1 ELSE Len(trees[p]) - 1
      BY <1>4, <2>3, <3>1, OperatorEndShrinks
    <3>3. Len(trees[p]) \in Nat /\ Len(trees[p]) <= 1 + n
      BY <1>4, <1>5, <2>3
    <3> HIDE DEF n, k, p
    <3>4. QED
      BY <1>2, <2>1, <3>2, <3>3
  <2>4. QED
    BY <1>7, <2>2, <2>3
<1>10. CASE /\ UNCHANGED rules
            /\ m_stGlobal = "rules" => Last(open) \notin {"operator", "rule"}
  <2>1. n <= k
    BY <1>2, <1>3, <1>10, NoOperatorElsewhere
  <2>2. p # NULL => Len(trees[p]) <= 1 + k
    <3>1. p # NULL => Len(trees[p]) \in Nat
      BY <1>4, <1>5
    <3> HIDE DEF n, k, p
    <3>2. QED
      BY <1>2, <1>4, <2>1, <3>1
  <2>3. QED
    BY <1>7, <1>10, <2>2 DEF rules
<1>11. QED
  <2>1. onEndElement(Last(open))
    BY DEF EndElement
  <2>2. QED
    BY <1>8, <1>9, <1>10, <2>1 DEF onEndElement, endChain, endOther

LEMMA DepthNext ==
  TypeInv /\ TypeInv' /\ TreesOwnedOnce /\ GrownInv /\ NestInv /\ DepthInv /\ Next => DepthInv'
<1> SUFFICES ASSUME TypeInv, TypeInv', TreesOwnedOnce, GrownInv, NestInv, DepthInv, Next
             PROVE  DepthInv'
  OBVIOUS
<1>1. CASE ParseError \/ printRules
  <2>1. UNCHANGED rules /\ phase' # "parsing" /\ (Reading' => Reading)
    BY <1>1 DEF ParseError, printRules, Reading
  <2>2. QED
    BY <2>1 DEF DepthInv, RuleTrees, rules
<1>2. CASE destructor
  BY <1>2 DEF destructor, DepthInv, Reading
<1>3. QED
  BY <1>1, <1>2, DepthStart, DepthEnd DEF Next, TypeInv

(* Every tree is finished when its rule is.                                *)
LEMMA DepthInvariant == Spec => [](GrownInv /\ DepthInv)
<1>1. Init => GrownInv /\ DepthInv
  <2> SUFFICES ASSUME Init PROVE GrownInv /\ DepthInv
    OBVIOUS
  <2>1. DOMAIN m_lstRules = {} /\ DOMAIN trees = {} /\ m_currentRule.pExpTree = NULL
    BY Initially
  <2>2. QED
    BY <2>1 DEF GrownInv, DepthInv, RuleTrees
<1>2. /\ TypeInv /\ TypeInv' /\ TreesOwnedOnce /\ ReadInv
      /\ GrownInv /\ DepthInv /\ [Next]_vars
      => (GrownInv /\ DepthInv)'
  <2>1. GrownInv /\ DepthInv /\ UNCHANGED vars => (GrownInv /\ DepthInv)'
    BY DEF GrownInv, DepthInv, RuleTrees, Reading, vars, rules, expat
  <2>2. QED
    BY <2>1, Steps, GrownNext, DepthNext DEF TypeInv, ReadInv
<1>3. QED
  BY <1>1, <1>2, TypeInvariant, TreesInvariant, ReadInvariant, PTL DEF Spec



-----------------------------------------------------------------------------
(* The maps are finite, and what is loaded has been printed: no pointer in *)
(* it is NULL.                                                             *)
PrintedInv ==
  /\ IsFiniteSet(DOMAIN m_mapRuleChains) /\ IsFiniteSet(DOMAIN m_mapStateChains)
  /\ phase = "loaded" =>
       /\ \A i \in DOMAIN m_lstRules : m_lstRules[i].pExpTree # NULL
       /\ \A k \in DOMAIN m_mapRuleChains : m_mapRuleChains[k].plstRules # NULL
       /\ \A k \in DOMAIN m_mapStateChains : m_mapStateChains[k].plstRules # NULL

LEMMA MapsFinite ==
  ASSUME IsFiniteSet(DOMAIN m_mapRuleChains), IsFiniteSet(DOMAIN m_mapStateChains), ChainsStep
  PROVE  IsFiniteSet(DOMAIN m_mapRuleChains') /\ IsFiniteSet(DOMAIN m_mapStateChains')
<1>1. CASE FinishChain
  <2>1. /\ IsFiniteSet(DOMAIN m_mapRuleChains \cup {m_currentChain.cid})
        /\ IsFiniteSet(DOMAIN m_mapStateChains \cup {m_currentChain.id})
    BY FS_AddElement
  <2>2. /\ DOMAIN m_mapRuleChains' \in
             {DOMAIN m_mapRuleChains, DOMAIN m_mapRuleChains \cup {m_currentChain.cid}}
        /\ DOMAIN m_mapStateChains' \in
             {DOMAIN m_mapStateChains, DOMAIN m_mapStateChains \cup {m_currentChain.id}}
    BY <1>1 DEF FinishChain, Insert, Put
  <2>3. QED
    BY <2>1, <2>2
<1>2. QED
  BY <1>1 DEF ChainsStep, chains

LEMMA PrintedNext == PrintedInv /\ ChainsStep /\ Next => PrintedInv'
<1> SUFFICES ASSUME PrintedInv, ChainsStep, Next PROVE PrintedInv'
  OBVIOUS
<1>1. IsFiniteSet(DOMAIN m_mapRuleChains') /\ IsFiniteSet(DOMAIN m_mapStateChains')
  BY MapsFinite DEF PrintedInv
<1>2. CASE printRules /\ phase' = "loaded"
  <2>1. /\ \A i \in DOMAIN m_lstRules : m_lstRules[i].pExpTree # NULL
        /\ \A k \in DOMAIN m_mapRuleChains : m_mapRuleChains[k].plstRules # NULL
        /\ \A k \in DOMAIN m_mapStateChains : m_mapStateChains[k].plstRules # NULL
    BY <1>2 DEF printRules
  <2>2. UNCHANGED <<m_lstRules, m_mapRuleChains, m_mapStateChains>>
    BY <1>2 DEF printRules, rules, chains
  <2>3. QED
    BY <1>1, <2>1, <2>2 DEF PrintedInv
<1>3. CASE phase' # "loaded"
  BY <1>1, <1>3 DEF PrintedInv
<1>4. QED
  BY <1>2, <1>3 DEF Next, StartElement, EndElement, ParseError, destructor

LEMMA PrintedInvariant == Spec => []PrintedInv
<1>1. Init => PrintedInv
  <2> SUFFICES ASSUME Init PROVE PrintedInv
    OBVIOUS
  <2>1. phase = "parsing" /\ DOMAIN m_mapRuleChains = {} /\ DOMAIN m_mapStateChains = {}
    BY Initially
  <2>2. QED
    BY <2>1, FS_EmptySet DEF PrintedInv
<1>2. TypeInv /\ PrintedInv /\ [Next]_vars => PrintedInv'
  <2>1. PrintedInv /\ UNCHANGED vars => PrintedInv'
    BY DEF PrintedInv, vars, rules, chains
  <2>2. QED
    BY <2>1, Steps, PrintedNext DEF TypeInv
<1>3. QED
  BY <1>1, <1>2, TypeInvariant, PTL DEF Spec

(* Chains with a list each have as many lists as there are chains.         *)
LEMMA OneListEach ==
  ASSUME NEW map, IsFiniteSet(DOMAIN map),
         \A k, l \in DOMAIN map : map[k].plstRules = map[l].plstRules => k = l
  PROVE  /\ IsFiniteSet({map[k].plstRules : k \in DOMAIN map})
         /\ Cardinality({map[k].plstRules : k \in DOMAIN map}) = Cardinality(DOMAIN map)
<1> DEFINE L == {map[k].plstRules : k \in DOMAIN map}
           f == [k \in DOMAIN map |-> map[k].plstRules]
<1>1. f \in Surjection(DOMAIN map, L)
  BY DEF Surjection
<1>2. f \in Injection(DOMAIN map, L)
  BY DEF Injection, IsInjective
<1> HIDE DEF f, L
<1>3. IsFiniteSet(L) /\ Cardinality(L) = Cardinality(DOMAIN map)
  BY <1>1, <1>2, FS_Surjection
<1>4. QED
  BY <1>3 DEF L

LEMMA LoadedSound ==
  RulesInv /\ TreesOwnedOnce /\ LinksInv /\ DepthInv /\ PrintedInv => LoadedConfigSound
<1> SUFFICES ASSUME RulesInv, TreesOwnedOnce, LinksInv, DepthInv, PrintedInv, phase = "loaded"
             PROVE  LoadedConfigSound
  BY DEF LoadedConfigSound
<1>1. Reading
  BY DEF Reading
<1>2. \A i \in DOMAIN m_lstRules :
        m_lstRules[i].pExpTree \in DOMAIN trees /\ Len(trees[m_lstRules[i].pExpTree]) = 1
  <2>1. \A i \in DOMAIN m_lstRules : m_lstRules[i].pExpTree \in RuleTrees
    BY DEF PrintedInv, RuleTrees
  <2>2. RuleTrees \subseteq DOMAIN trees /\ \A p \in RuleTrees : Len(trees[p]) = 1
    BY <1>1 DEF TreesOwnedOnce, DepthInv, RuleTrees
  <2>3. QED
    BY <2>1, <2>2
<1>3. /\ \A k \in DOMAIN m_mapRuleChains :
           m_mapRuleChains[k].cid = k /\ m_mapRuleChains[k].plstRules \in DOMAIN lists
      /\ \A k \in DOMAIN m_mapStateChains :
           m_mapStateChains[k].id = k /\ m_mapStateChains[k].plstRules \in DOMAIN lists
  BY <1>1 DEF LinksInv, PrintedInv
<1>4. Cardinality(ChainLists) =
        Cardinality(DOMAIN m_mapRuleChains) + Cardinality(DOMAIN m_mapStateChains)
  <2> DEFINE R == {m_mapRuleChains[k].plstRules : k \in DOMAIN m_mapRuleChains}
             S == {m_mapStateChains[k].plstRules : k \in DOMAIN m_mapStateChains}
  <2>1. ChainLists = R \cup S /\ R \cap S = {}
    BY <1>1 DEF LinksInv, PrintedInv, ChainLists
  <2>2. IsFiniteSet(R) /\ Cardinality(R) = Cardinality(DOMAIN m_mapRuleChains)
    BY <1>1, OneListEach DEF LinksInv, PrintedInv
  <2>3. IsFiniteSet(S) /\ Cardinality(S) = Cardinality(DOMAIN m_mapStateChains)
    BY <1>1, OneListEach DEF LinksInv, PrintedInv
  <2> HIDE DEF R, S
  <2>4. Cardinality(R \cup S) = Cardinality(R) + Cardinality(S)
    <3>1. Cardinality(R \cup S) = Cardinality(R) + Cardinality(S) - Cardinality(R \cap S)
      BY <2>2, <2>3, FS_Union
    <3>2. Cardinality(R \cap S) = 0 /\ Cardinality(R) \in Nat /\ Cardinality(S) \in Nat
      BY <2>1, <2>2, <2>3, FS_EmptySet, FS_CardinalityType
    <3>3. QED
      BY <3>1, <3>2
  <2>5. QED
    BY <2>1, <2>2, <2>3, <2>4
<1>5. QED
  BY <1>2, <1>3, <1>4 DEF LoadedConfigSound

(* Whatever the file says, what is loaded can be run: every rule has a     *)
(* finished tree in memory, every chain a list of its own under its key.   *)
THEOREM LoadedTheorem == Spec => []LoadedConfigSound
BY LoadedSound, TypeInvariant, TreesInvariant, ReadInvariant, DepthInvariant, PrintedInvariant, PTL
   DEF TypeInv, ReadInv



-----------------------------------------------------------------------------
(* A file nested like FWRules.xml.  Lined: one <firewall-definition>, and  *)
(* no chain or rule inside another.  InHand: in a rule there is a tree, in *)
(* a chain a list.  Complete: what is stored has both.                     *)
Lined ==
  /\ open # <<>> => open[1] = "firewall-definition"
  /\ \A i \in 2 .. Len(open) : open[i] # "firewall-definition"
  /\ \A i \in 4 .. Len(open) :
       open[i] # "chain" /\ (m_stGlobal = "rules" => open[i] # "rule")

InHand ==
  Len(open) >= 3 =>
    /\ m_stGlobal = "rules" => m_currentRule.pExpTree # NULL
    /\ InChains => m_currentChain.plstRules \in DOMAIN lists

Complete ==
  /\ \A i \in DOMAIN m_lstRules : m_lstRules[i].pExpTree # NULL
  /\ \A k \in DOMAIN m_mapRuleChains : m_mapRuleChains[k].plstRules # NULL
  /\ \A k \in DOMAIN m_mapStateChains : m_mapStateChains[k].plstRules # NULL

Stopping ==
  /\ m_stGlobal = "rules" /\ Last(open) = "operator" => m_currentRule.pExpTree # NULL
  /\ InChains => Last(open) # "chain"

RegularInv ==
  regular =>
    /\ alive
    /\ phase = "parsing" => Lined /\ InHand
    /\ phase = "stopping" => Stopping
    /\ phase \in {"parsing", "stopping", "parsed"} => Complete
    /\ phase = "failed" => ChainLists \subseteq DOMAIN lists

LEMMA RegularPlace ==
  ASSUME ParserInv, NestInv, Lined, phase = "parsing"
  PROVE  /\ Len(open) \in Nat
         /\ Len(open) <= 1 => m_stGlobal = "NONE"
         /\ Len(open) >= 2 =>
              /\ m_stGlobal \in Sections /\ open[2] = m_stGlobal
              /\ \A i \in 3 .. Len(open) : open[i] \in Words(m_stGlobal)
<1>1. Len(open) \in Nat /\ (Len(open) >= 1 => open # <<>>)
  BY DEF ParserInv
<1>2. CASE m_stGlobal = "NONE"
  <2>1. \A i \in 1 .. Len(open) : open[i] = "firewall-definition"
    BY <1>2 DEF NestInv, Sections
  <2>2. Len(open) < 2
    BY <1>1, <2>1 DEF Lined
  <2>3. QED
    BY <1>1, <1>2, <2>2
<1>3. CASE m_stGlobal \in Sections
  <2>1. PICK j \in 1 .. Len(open) : InSection(j)
    BY <1>3 DEF NestInv, Sections
  <2>2. j # 1
    BY <1>1, <1>3, <2>1 DEF Lined, InSection, Sections
  <2>3. ~ 3 <= j
    BY <1>1, <2>1 DEF Lined, InSection
  <2>4. j = 2 /\ Len(open) >= 2
    BY <1>1, <2>1, <2>2, <2>3
  <2>5. QED
    BY <1>1, <1>3, <2>1, <2>4 DEF InSection
<1>4. QED
  BY <1>2, <1>3 DEF ParserInv

LEMMA RegularTag ==
  ASSUME NEW el \in Elements, ParserInv, NestInv, Lined, phase = "parsing", Regular(el)
  PROVE  /\ open = <<>> => el.name = "firewall-definition"
         /\ open # <<>> => el.name # "firewall-definition"
         /\ Len(open) <= 2 /\ m_stGlobal = "rules" => el.name = "rule"
         /\ InChains => (el.name = "chain" <=> Len(open) <= 2)
         /\ Len(open) >= 3 => el.name # "chain" /\ (m_stGlobal = "rules" => el.name # "rule")
<1>1. /\ open = <<>> => el.name = "firewall-definition"
      /\ open # <<>> => el.name \in Inside(Last(open))
      /\ m_stGlobal = "rules" /\ open # <<>> /\ el.name = "rule" => Len(open) = 2
  BY DEF Regular
<1>2. /\ Len(open) \in Nat /\ (Len(open) >= 1 => open # <<>>)
      /\ open # <<>> => Last(open) = open[Len(open)] /\ Len(open) >= 1
  <2>1. open \in Seq({e.name : e \in Elements})
    BY DEF ParserInv
  <2>2. Len(open) \in Nat /\ (Len(open) >= 1 => open # <<>>)
    BY <2>1
  <2>3. open # <<>> => Last(open) = open[Len(open)] /\ Len(open) \in Nat \ {0}
    BY <2>1, ShorterIsSeq
  <2>4. QED
    BY <2>2, <2>3
<1>3. \A s : "firewall-definition" \notin Inside(s)
  BY DEF Inside, Sections
<1>4. Inside("rules") = {"rule"} /\ \A s \in {"rule-chains", "state-chains"} : Inside(s) = {"chain"}
  BY DEF Inside
<1>5. \A section : \A s \in Words(section) : "chain" \notin Inside(s)
  BY DEF Inside, Words
<1>6. ASSUME Len(open) <= 2, m_stGlobal = "rules" \/ InChains
      PROVE  /\ m_stGlobal = "rules" => el.name = "rule"
             /\ InChains => el.name = "chain"
  <2>1. PICK n \in Nat : n = Len(open)
    BY <1>2
  <2>2. n = 2 /\ m_stGlobal = open[2]
    BY <1>6, <2>1, RegularPlace DEF InChains
  <2>3. open # <<>> /\ Last(open) = m_stGlobal
    BY <1>2, <2>1, <2>2
  <2>4. QED
    BY <1>1, <1>4, <2>3 DEF InChains
<1>7. ASSUME Len(open) >= 3 PROVE el.name # "chain"
  <2>1. open # <<>> /\ Last(open) \in Words(m_stGlobal)
    BY <1>2, <1>7, RegularPlace
  <2>2. QED
    BY <1>1, <1>5, <2>1
<1>8. InChains => (el.name = "chain" <=> Len(open) <= 2)
  BY <1>2, <1>6, <1>7
<1>9. Len(open) >= 3 => el.name # "chain" /\ (m_stGlobal = "rules" => el.name # "rule")
  BY <1>1, <1>2, <1>7
<1>10. open # <<>> => el.name # "firewall-definition"
  BY <1>1, <1>3
<1>11. QED
  BY <1>1, <1>6, <1>8, <1>9, <1>10

LEMMA RegularStartLives ==
  ASSUME NEW el \in Elements, ParserInv, ChainsInv, NestInv, Lined, InHand, Regular(el),
         StartElement(el)
  PROVE  UNCHANGED alive
<1>1. CASE startGlobal(el) \/ processNetworks(el)
  BY <1>1 DEF startGlobal, processNetworks, Accept, Reject
<1>2. CASE processRules(el)
  <2>1. CASE startByte(el)
    <3>1. /\ Has(el, "index") => Attr(el, "index") \in DOMAIN Numbers
          /\ Has(el, "value") => Attr(el, "value") \in DOMAIN Numbers
      BY DEF Regular, Has
    <3>2. Attr(el, "value-range") \in DOMAIN Halves =>
            Attr(el, "value-range") \in DOMAIN Ranges
      BY DEF Regular
    <3>3. CASE addByte(el) /\ Has(el, "index")
      BY <3>1, <3>2, <3>3 DEF addByte, Accept, Has
    <3>4. QED
      BY <2>1, <3>3 DEF startByte, Reject
  <2>2. QED
    BY <1>2, <2>1
       DEF processRules, startRule, startExpression, startOperator, startOther, Accept, Reject
<1>3. CASE processChains(el)
  <2>1. InChains /\ phase = "parsing"
    BY <1>3 DEF processChains, InChains, StartElement
  <2>2. CASE startEntry(el)
    <3>1. Len(open) >= 3
      <4>1. ~ Len(open) <= 2
        BY <2>1, <2>2, RegularTag DEF startEntry
      <4>2. Len(open) \in Nat
        BY <2>1, RegularPlace
      <4>3. QED
        BY <4>1, <4>2
    <3>2. m_currentChain.plstRules \in 1 .. brk
      BY <2>1, <3>1 DEF InHand, ChainsInv
    <3>3. m_currentChain.plstRules # Indeterminate
      BY <3>2 DEF Indeterminate, ParserInv
    <3>4. QED
      BY <2>2, <3>3 DEF startEntry, Accept, Reject
  <2>3. QED
    BY <1>3, <2>2 DEF processChains, startChain, Accept, Reject
<1>4. QED
  BY <1>1, <1>2, <1>3 DEF StartElement


LEMMA RegularStartLined ==
  ASSUME NEW el \in Elements, ParserInv, NestInv, Lined, Regular(el), StartElement(el),
         phase' = "parsing"
  PROVE  Lined'
<1>1. phase = "parsing"
  BY DEF StartElement
<1>2. PICK n \in Nat : n = Len(open)
  BY Pushed
<1>3. /\ Len(open') = n + 1 /\ open'[n + 1] = el.name
      /\ \A i \in 1 .. n : open'[i] = open[i]
  BY <1>2, Pushed
<1>4. n >= 1 <=> open # <<>>
  BY <1>2 DEF ParserInv
<1>5. open'[1] = "firewall-definition"
  BY <1>1, <1>3, <1>4, RegularTag DEF Lined
<1>6. ASSUME NEW i \in 2 .. (n + 1) PROVE open'[i] # "firewall-definition"
  <2>1. i \in 2 .. n \/ i = n + 1
    OBVIOUS
  <2>2. QED
    BY <1>1, <1>2, <1>3, <1>4, <1>6, <2>1, RegularTag DEF Lined
<1>7. ASSUME NEW i \in 4 .. (n + 1)
      PROVE  open'[i] # "chain" /\ (m_stGlobal' = "rules" => open'[i] # "rule")
  <2>1. i \in 4 .. n \/ i = n + 1
    OBVIOUS
  <2>2. m_stGlobal' = m_stGlobal
    BY <1>1, <1>2, <1>7, RegularPlace, Accepted DEF Sections
  <2>3. i = n + 1 => el.name # "chain" /\ (m_stGlobal = "rules" => el.name # "rule")
    BY <1>1, <1>2, <1>7, RegularTag
  <2>4. QED
    BY <1>2, <1>3, <2>1, <2>2, <2>3 DEF Lined
<1>8. QED
  BY <1>3, <1>5, <1>6, <1>7 DEF Lined

LEMMA RegularStartHand ==
  ASSUME NEW el \in Elements, ParserInv, RulesInv, ChainsInv, NestInv, Lined, InHand,
         Regular(el), StartElement(el), phase' = "parsing"
  PROVE  InHand'
<1> SUFFICES ASSUME Len(open') >= 3
             PROVE  /\ m_stGlobal' = "rules" => m_currentRule'.pExpTree # NULL
                    /\ InChains' => m_currentChain'.plstRules \in DOMAIN lists'
  BY DEF InHand
<1>1. phase = "parsing" /\ ~Reject
  BY DEF StartElement, Reject
<1>2. Len(open) \in Nat /\ Len(open) >= 2
  BY Pushed
<1>3. m_stGlobal' = m_stGlobal
  BY <1>1, <1>2, RegularPlace, Accepted DEF Sections
<1>4. ASSUME m_stGlobal = "rules" PROVE m_currentRule'.pExpTree # NULL
  <2>1. processRules(el)
    BY <1>4, Accepted DEF InChains
  <2>2. PlantTree => m_currentRule'.pExpTree # NULL
    BY FileAssumption DEF PlantTree, ParserInv
  <2>3. CASE Len(open) <= 2
    <3>1. startRule(el)
      BY <1>1, <1>4, <2>1, <2>3, RegularTag
         DEF processRules, startExpression, startByte, startOperator, startOther
    <3>2. QED
      BY <1>1, <2>2, <3>1, StartPlants
  <2>4. CASE ~ Len(open) <= 2
    <3>1. m_currentRule.pExpTree # NULL
      BY <1>2, <1>4, <2>4 DEF InHand
    <3>2. QED
      BY <2>1, <2>2, <3>1, StartRules DEF NoteRule, EditTree
  <2>5. QED
    BY <2>3, <2>4
<1>5. ASSUME InChains PROVE m_currentChain'.plstRules \in DOMAIN lists'
  <2>1. processChains(el)
    BY <1>5, Accepted DEF InChains
  <2>2. CASE Len(open) <= 2
    <3>1. startChain(el)
      BY <1>1, <1>5, <2>1, <2>2, RegularTag DEF processChains, startEntry
    <3>2. m_currentChain'.plstRules = brk + 1 /\ lists' = Put(lists, brk + 1, <<>>)
      BY <1>1, <3>1 DEF startChain
    <3>3. QED
      BY <3>2 DEF Put
  <2>3. CASE ~ Len(open) <= 2
    <3>1. m_currentChain.plstRules \in DOMAIN lists
      BY <1>2, <1>5, <2>3 DEF InHand
    <3>2. startEntry(el)
      BY <1>1, <1>5, <2>1, <2>3, RegularTag DEF processChains, startChain
    <3>3. m_currentChain' = m_currentChain /\ DOMAIN lists \subseteq DOMAIN lists'
      BY <3>2 DEF startEntry, Put
    <3>4. QED
      BY <3>1, <3>3
  <2>4. QED
    BY <2>2, <2>3
<1>6. QED
  BY <1>3, <1>4, <1>5 DEF InChains

LEMMA RegularStartStops ==
  ASSUME NEW el \in Elements, Flags, ParserInv, RulesInv, ChainsInv, NestInv, Lined, InHand,
         Regular(el), StartElement(el), phase' = "stopping"
  PROVE  Stopping'
<1>1. phase = "parsing" /\ m_continueProcessing /\ ~m_continueProcessing'
  BY DEF StartElement, Flags
<1>2. Last(open') = el.name
  <2>1. open' \in Seq({e.name : e \in Elements}) /\ open' # <<>>
    BY DEF StartElement, ParserInv
  <2>2. Last(open') = open'[Len(open')]
    BY <2>1, ShorterIsSeq
  <2>3. QED
    BY <2>2, Pushed
<1>3. CASE startGlobal(el) \/ processNetworks(el)
  BY <1>2, <1>3 DEF startGlobal, processNetworks, Stopping, InChains, Sections
<1>4. CASE processRules(el)
  <2>1. m_stGlobal = "rules" /\ m_stGlobal' = "rules"
    BY <1>4 DEF processRules
  <2>2. ASSUME el.name = "operator" PROVE m_currentRule'.pExpTree # NULL
    <3>1. ~ Len(open) <= 2 /\ Len(open) \in Nat
      BY <1>1, <2>1, <2>2, RegularTag, RegularPlace
    <3>2. m_currentRule.pExpTree # NULL
      BY <2>1, <3>1 DEF InHand
    <3>3. m_currentRule' = m_currentRule
      BY <1>4, <2>2
         DEF processRules, startRule, startExpression, startByte, startOperator, startOther
    <3>4. QED
      BY <3>2, <3>3
  <2>3. QED
    BY <1>2, <2>1, <2>2 DEF Stopping, InChains
<1>5. CASE processChains(el)
  <2>1. InChains /\ m_stGlobal' = m_stGlobal
    BY <1>5 DEF processChains, InChains
  <2>2. el.name # "chain"
    <3>1. startChain(el) => Accept
      BY <2>1 DEF startChain, Regular
    <3>2. ~Accept
      BY <1>1 DEF Accept
    <3>3. QED
      BY <1>5, <3>1, <3>2 DEF processChains, startEntry, startChain
  <2>3. QED
    BY <1>2, <2>1, <2>2 DEF Stopping, InChains
<1>6. QED
  BY <1>3, <1>4, <1>5 DEF StartElement

LEMMA RegularStart ==
  ASSUME NEW el \in Elements, TypeInv, NestInv, RegularInv, StartElement(el)
  PROVE  RegularInv'
<1> SUFFICES ASSUME regular' PROVE RegularInv'
  BY DEF RegularInv
<1>1. regular /\ Regular(el)
  BY Zenon DEF StartElement
<1>2. phase = "parsing" /\ phase' \in {"parsing", "stopping"}
  BY DEF StartElement
<1>3. Lined /\ InHand /\ Complete /\ alive
  BY <1>1, <1>2 DEF RegularInv
<1>4. alive'
  BY <1>1, <1>3, RegularStartLives DEF TypeInv
<1>5. Complete'
  BY <1>3 DEF StartElement, Complete
<1>6. phase' = "parsing" => Lined' /\ InHand'
  BY <1>1, <1>3, RegularStartLined, RegularStartHand DEF TypeInv
<1>7. phase' = "stopping" => Stopping'
  BY <1>1, <1>3, RegularStartStops DEF TypeInv
<1>8. QED
  BY <1>2, <1>4, <1>5, <1>6, <1>7 DEF RegularInv


(* An end tag of such a file, by its place.                                *)
LEMMA RegularEndTag ==
  ASSUME ParserInv, NestInv, Lined, phase = "parsing", EndElement
  PROVE  /\ m_stGlobal = "rules" /\ Last(open) \in {"rule", "operator"} => Len(open) >= 3
         /\ InChains /\ Last(open) = "chain" => Len(open) >= 3
         /\ Len(open) >= 4 =>
              /\ m_stGlobal' = m_stGlobal /\ Last(open) # "chain"
              /\ m_stGlobal = "rules" => Last(open) # "rule"
<1>1. PICK n \in Nat : n = Len(open)
  BY Popped
<1>2. n >= 1 /\ Last(open) = open[n]
  BY <1>1, Popped
<1>3. n <= 2 => m_stGlobal = "NONE" \/ Last(open) \in Sections
  BY <1>1, <1>2, RegularPlace
<1>4. n >= 4 => Last(open) \in Words(m_stGlobal)
  BY <1>1, <1>2, RegularPlace
<1>5. n >= 4 => m_stGlobal' = m_stGlobal
  BY <1>4, SectionLeft, WordsAreNoSections
<1>6. n >= 4 => Last(open) # "chain" /\ (m_stGlobal = "rules" => Last(open) # "rule")
  BY <1>1, <1>2 DEF Lined
<1>7. QED
  BY <1>1, <1>3, <1>5, <1>6 DEF InChains, Sections

LEMMA RegularEndLined ==
  ASSUME ParserInv, NestInv, Lined, InHand, phase = "parsing", EndElement
  PROVE  Lined' /\ InHand'
<1>1. PICK n \in Nat : n = Len(open')
  <2>1. PICK m \in Nat \ {0} : m = Len(open)
    BY Popped
  <2>2. m - 1 \in Nat /\ m - 1 = Len(open')
    BY <2>1, Popped
  <2>3. QED
    BY <2>2
<1>2. Len(open) = n + 1 /\ \A i \in 1 .. n : open'[i] = open[i]
  BY <1>1, Popped
<1>3. n >= 1 <=> open' # <<>>
  <2>1. open' \in Seq({e.name : e \in Elements})
    BY ShorterIsSeq DEF ParserInv, EndElement
  <2>2. QED
    BY <1>1, <2>1
<1>4. m_stGlobal' = "rules" => m_stGlobal = "rules"
  BY SectionLeft
<1>5. Lined'
  <2>1. open' # <<>> => open'[1] = "firewall-definition"
    BY <1>2, <1>3 DEF Lined, EndElement
  <2>2. \A i \in 2 .. n : open'[i] # "firewall-definition"
    BY <1>2 DEF Lined
  <2>3. \A i \in 4 .. n : open'[i] # "chain" /\ (m_stGlobal' = "rules" => open'[i] # "rule")
    BY <1>2, <1>4 DEF Lined
  <2>4. QED
    BY <1>1, <2>1, <2>2, <2>3 DEF Lined
<1>6. ASSUME n >= 3
      PROVE  /\ m_stGlobal' = "rules" => m_currentRule'.pExpTree # NULL
             /\ InChains' => m_currentChain'.plstRules \in DOMAIN lists'
  <2>1. /\ Len(open) >= 4 /\ m_stGlobal' = m_stGlobal /\ Last(open) # "chain"
        /\ m_stGlobal = "rules" => Last(open) # "rule"
    BY <1>2, <1>6, RegularEndTag
  <2>2. m_currentRule' = m_currentRule /\ UNCHANGED chains
    BY <2>1 DEF EndElement, onEndElement, endOperator, endOther, rules
  <2>3. Len(open) >= 3
    BY <1>2, <1>6
  <2>4. QED
    BY <2>1, <2>2, <2>3 DEF InHand, InChains, chains
<1>7. QED
  BY <1>1, <1>5, <1>6 DEF InHand

LEMMA RegularEndComplete ==
  ASSUME ParserInv, RulesInv, ChainsInv, NestInv, Lined, InHand, Complete, phase = "parsing",
         EndElement
  PROVE  Complete' /\ UNCHANGED alive
<1>1. CASE m_stGlobal = "rules" /\ Last(open) = "operator" /\ endOperator
  <2>1. m_currentRule.pExpTree # NULL
    BY <1>1, RegularEndTag DEF InHand
  <2>2. QED
    BY <1>1, <2>1 DEF endOperator, Complete, chains
<1>2. CASE m_stGlobal = "rules" /\ Last(open) = "rule" /\ endRule
  <2>1. m_currentRule.pExpTree # NULL
    BY <1>2, RegularEndTag DEF InHand
  <2>2. FinishRule
    BY <1>2 DEF endRule, FinishRule, EndElement
  <2>3. \A i \in DOMAIN m_lstRules' : m_lstRules'[i].pExpTree # NULL
    BY <2>1, <2>2, RuleStored DEF Complete
  <2>4. QED
    BY <1>2, <2>3 DEF endRule, Complete, chains
<1>3. CASE InChains /\ Last(open) = "chain" /\ endChain
  <2>1. m_currentChain.plstRules # NULL
    <3>1. m_currentChain.plstRules \in 1 .. brk
      BY <1>3, RegularEndTag DEF InHand, ChainsInv
    <3>2. QED
      BY <3>1, FileAssumption DEF ParserInv
  <2>2. FinishChain
    BY <1>3 DEF endChain, FinishChain, EndElement, InChains
  <2>3. /\ \A k \in DOMAIN m_mapRuleChains' : m_mapRuleChains'[k].plstRules # NULL
        /\ \A k \in DOMAIN m_mapStateChains' : m_mapStateChains'[k].plstRules # NULL
    BY <2>1, <2>2, ChainStored DEF Complete
  <2>4. QED
    BY <1>3, <2>3 DEF endChain, Complete, rules
<1>4. CASE endOther(Last(open))
  BY <1>4 DEF endOther, Complete, rules, chains
<1>5. QED
  BY <1>1, <1>2, <1>3, <1>4 DEF EndElement, onEndElement, InChains

(* The end tag that still comes after the parser has been stopped.         *)
LEMMA RegularEndStopped ==
  ASSUME LinksInv, Stopping, phase = "stopping", EndElement
  PROVE  UNCHANGED alive /\ ChainLists' \subseteq DOMAIN lists'
<1>1. ChainLists \subseteq DOMAIN lists
  BY DEF LinksInv, Reading, ChainLists
<1>2. UNCHANGED alive /\ UNCHANGED chains
  BY DEF Stopping, InChains, EndElement, onEndElement, endOperator, endRule, endOther
<1>3. QED
  BY <1>1, <1>2 DEF chains, ChainLists

LEMMA RegularEnd ==
  ASSUME TypeInv, ReadInv, RegularInv, EndElement
  PROVE  RegularInv'
<1> SUFFICES ASSUME regular' PROVE RegularInv'
  BY DEF RegularInv
<1>1. regular
  BY Zenon DEF EndElement
<1>2. CASE phase = "parsing"
  <2>1. Lined /\ InHand /\ Complete /\ alive
    BY <1>1, <1>2 DEF RegularInv
  <2>2. Complete' /\ alive' /\ Lined' /\ InHand'
    BY <1>2, <2>1, RegularEndComplete, RegularEndLined DEF TypeInv, ReadInv
  <2>3. phase' \in {"parsing", "parsed"}
    BY <1>2 DEF EndElement
  <2>4. QED
    BY <2>2, <2>3 DEF RegularInv
<1>3. CASE phase = "stopping"
  <2>1. Stopping /\ alive
    BY <1>1, <1>3 DEF RegularInv
  <2>2. alive' /\ ChainLists' \subseteq DOMAIN lists'
    BY <1>3, <2>1, RegularEndStopped DEF ReadInv
  <2>3. phase' = "failed"
    BY <1>3 DEF EndElement
  <2>4. QED
    BY <2>2, <2>3 DEF RegularInv
<1>4. QED
  BY <1>2, <1>3 DEF EndElement

LEMMA RegularRest ==
  ASSUME LinksInv, RegularInv, ParseError \/ printRules \/ destructor
  PROVE  RegularInv'
<1> SUFFICES ASSUME regular' PROVE RegularInv'
  BY DEF RegularInv
<1>1. regular
  BY DEF ParseError, printRules, destructor, expat
<1>2. CASE ParseError
  <2>1. ChainLists \subseteq DOMAIN lists /\ alive
    BY <1>1, <1>2 DEF ParseError, LinksInv, Reading, ChainLists, RegularInv
  <2>2. phase' = "failed" /\ UNCHANGED chains /\ UNCHANGED alive
    BY <1>2 DEF ParseError
  <2>3. QED
    BY <2>1, <2>2 DEF RegularInv, chains, ChainLists
<1>3. CASE printRules
  <2>1. Complete /\ alive
    BY <1>1, <1>3 DEF printRules, RegularInv
  <2>2. phase' = "loaded" /\ UNCHANGED alive
    BY <1>3, <2>1 DEF printRules, Complete
  <2>3. QED
    BY <2>1, <2>2 DEF RegularInv
<1>4. CASE destructor
  <2>1. ChainLists \subseteq DOMAIN lists /\ alive
    BY <1>1, <1>4 DEF destructor, RegularInv
  <2>2. phase' = "destroyed" /\ UNCHANGED alive
    BY <1>4, <2>1 DEF destructor
  <2>3. QED
    BY <2>1, <2>2 DEF RegularInv
<1>5. QED
  BY <1>2, <1>3, <1>4

LEMMA RegularInvariant == Spec => []RegularInv
<1>1. Init => RegularInv
  <2> SUFFICES ASSUME Init PROVE RegularInv
    OBVIOUS
  <2>1. /\ open = <<>> /\ phase = "parsing"
        /\ DOMAIN m_lstRules = {} /\ DOMAIN m_mapRuleChains = {} /\ DOMAIN m_mapStateChains = {}
    BY Initially
  <2>2. Lined /\ InHand /\ Complete
    BY <2>1 DEF Lined, InHand, Complete
  <2>3. alive
    BY Zenon DEF Init
  <2>4. QED
    BY <2>1, <2>2, <2>3 DEF RegularInv
<1>2. TypeInv /\ ReadInv /\ RegularInv /\ [Next]_vars => RegularInv'
  <2>1. RegularInv /\ UNCHANGED vars => RegularInv'
    BY DEF RegularInv, Lined, InHand, Complete, Stopping, InChains, ChainLists,
           vars, state, rules, chains, expat
  <2>2. QED
    BY <2>1, RegularStart, RegularEnd, RegularRest DEF Next, ReadInv
<1>3. QED
  BY <1>1, <1>2, TypeInvariant, ReadInvariant, PTL DEF Spec

(* A file nested like FWRules.xml does not kill the process, wherever it   *)
(* is cut off and whichever of its elements the handlers reject.           *)
THEOREM RegularTheorem == Spec => []RegularFileSurvives
<1>1. RegularInv => RegularFileSurvives
  BY DEF RegularInv, RegularFileSurvives
<1>2. QED
  BY <1>1, RegularInvariant, PTL
=============================================================================
