-------------------------- MODULE RuleFileProcessor --------------------------
(***************************************************************************)
(* The rule file parser: the SAX handlers of RuleFileProcessor, driven by  *)
(* Expat through ExpatWrapper with any sequence of elements that nests     *)
(* properly.  Expression trees and chain lists are memory: a pointer is    *)
(* NULL or the number of an allocation, and trees and lists say what is    *)
(* allocated.  RULE* is an index into m_lstRules, a std::list that only    *)
(* grows.                                                                  *)
(***************************************************************************)
EXTENDS ExpressionTree, FiniteSets

CONSTANTS
  Elements,     (* start tags a file may contain: [name, attrs], attrs the  *)
                (* alternation of names and values that Expat hands over    *)
  MaxElements,  (* BOUND: elements in a file                                *)
  Numbers,      (* string -> int, for strings that start with a number      *)
  Halves,       (* string -> the two strings addBoundValues reads from it,  *)
                (* up to its first dot and from two characters after that,  *)
                (* for strings with a dot                                   *)
  Stray,        (* ints that may stand behind a buffer                      *)
  NULL

(* What lies two characters after a dot that ends the string: memory that  *)
(* is not part of the buffer.                                              *)
Beyond == "<beyond>"

ASSUME FileAssumption ==
  /\ NULL \notin Nat
  /\ MaxElements \in Nat
  /\ \A s \in DOMAIN Numbers : Numbers[s] \in Int
  /\ Beyond \notin DOMAIN Numbers
  /\ \A s \in DOMAIN Halves : Halves[s] \in STRING \X STRING
  /\ Stray \subseteq Int
  /\ \A el \in Elements : el.name \in STRING /\ el.attrs \in Seq(STRING)

(* The indeterminate value of m_currentChain.plstRules before any <chain>. *)
Indeterminate == -1

VARIABLES
  m_stGlobal, m_continueProcessing,
  m_currentRule,     (* [id, cid, pExpTree]                                *)
  m_lstRules,        (* finished rules, in file order                      *)
  m_currentChain,    (* [id, cid, plstRules]                               *)
  m_mapRuleChains,   (* cid -> chain                                       *)
  m_mapStateChains,  (* id -> chain                                        *)
  trees, lists,      (* memory: address -> tree, address -> Seq of entries *)
  brk,               (* addresses handed out so far                        *)
  phase,             (* where parseFile stands                             *)
  alive,             (* the process has not been killed                    *)
  open,              (* Expat: names of the open elements                  *)
  count,             (* Expat: elements started                            *)
  regular            (* GHOST: the file has had the form of FWRules.xml    *)

state  == <<m_stGlobal, m_continueProcessing>>
rules  == <<m_currentRule, m_lstRules, trees>>
chains == <<m_currentChain, m_mapRuleChains, m_mapStateChains, lists>>
expat  == <<open, count, regular>>
vars   == <<state, rules, chains, brk, phase, alive, expat>>

-----------------------------------------------------------------------------
NoAttr == "<none>"

(* ExpatWrapper::readAttrValue: what follows the first string equal to the *)
(* name, be it the name of an attribute or the value of an earlier one.    *)
Attr(el, name) ==
  LET i == SelectInSeq(el.attrs, LAMBDA s : s = name)
  IN  IF i = 0 \/ i = Len(el.attrs) THEN NoAttr ELSE el.attrs[i + 1]

Has(el, name) == Attr(el, name) # NoAttr

(* atoi: a string that does not start with a number is 0.                  *)
atoi(s) == IF s \in DOMAIN Numbers THEN Numbers[s] ELSE 0

(* The bounds of the value-ranges both halves of which are numbers.        *)
Ranges ==
  [s \in {t \in DOMAIN Halves : /\ Halves[t][1] \in DOMAIN Numbers
                               /\ Halves[t][2] \in DOMAIN Numbers} |->
     <<Numbers[Halves[s][1]], Numbers[Halves[s][2]]>>]

(* RuleFileProcessor::decodeAction: an unknown word is PERMIT.             *)
decodeAction(action) ==
  CASE action = "PERMIT-LOG" -> 1
    [] action = "DROP"       -> 2
    [] action = "DROP-LOG"   -> 3
    [] OTHER                 -> 0

(* getRulePtr: the first rule with the id, or NULL.                        *)
getRulePtr(id) ==
  LET i == SelectInSeq(m_lstRules, LAMBDA r : r.id = id)
  IN  IF i = 0 THEN NULL ELSE i

(* delete p                                                                *)
Free(heap, p) == [a \in DOMAIN heap \ {p} |-> heap[a]]

(* *p = object, p allocated before or by this step                         *)
Put(heap, p, object) ==
  [a \in DOMAIN heap \cup {p} |-> IF a = p THEN object ELSE heap[a]]

Accept == UNCHANGED <<m_continueProcessing, alive>>
Reject == m_continueProcessing' = FALSE /\ UNCHANGED alive

(* An exception nobody catches, or a wild or NULL pointer dereferenced.    *)
Die == alive' = FALSE /\ UNCHANGED m_continueProcessing

-----------------------------------------------------------------------------
Init ==
  /\ m_stGlobal = "NONE"
  /\ m_continueProcessing = TRUE
  /\ m_currentRule = [id |-> "", cid |-> 0, pExpTree |-> NULL]
  /\ m_lstRules = <<>>
  /\ m_currentChain \in [id : {""}, cid : {0}, plstRules : {NULL, Indeterminate}]
  /\ m_mapRuleChains = <<>>
  /\ m_mapStateChains = <<>>
  /\ trees = <<>>
  /\ lists = <<>>
  /\ brk = 0
  /\ phase = "parsing"
  /\ alive = TRUE
  /\ open = <<>>
  /\ count = 0
  /\ regular = TRUE

Sections == {"networks", "rules", "rule-chains", "state-chains"}

(* Start tags outside of the four sections.                                *)
startGlobal(el) ==
  /\ m_stGlobal = "NONE"
  /\ IF el.name \in Sections
     THEN m_stGlobal' = el.name /\ Accept
     ELSE /\ UNCHANGED m_stGlobal
          /\ IF el.name = "firewall-definition" THEN Accept ELSE Reject
  /\ UNCHANGED <<rules, chains, brk>>

processNetworks(el) ==
  /\ m_stGlobal = "networks"
  /\ IF el.name = "network" /\ Has(el, "id") THEN Accept ELSE Reject
  /\ UNCHANGED <<m_stGlobal, rules, chains, brk>>

-----------------------------------------------------------------------------
(* MUTANT of newTree: the tree in hand is forgotten, not deleted.          *)
newTreeLeak ==
  /\ brk' = brk + 1
  /\ trees' = Put(trees, brk + 1, EmptyTree)

(* delete m_currentRule.pExpTree, if any; pExpTree = new ExpressionTree()  *)
newTree ==
  /\ brk' = brk + 1
  /\ trees' = Put(Free(trees, m_currentRule.pExpTree), brk + 1, EmptyTree)

(* MUTANT of startRule: the tree is left to <expression>.                  *)
startRuleNoTree(el) ==
  /\ el.name = "rule"
  /\ IF Has(el, "id") /\ Has(el, "cid")
     THEN /\ trees' = Free(trees, m_currentRule.pExpTree)
          /\ m_currentRule' = [id |-> Attr(el, "id"), cid |-> atoi(Attr(el, "cid")),
                               pExpTree |-> NULL]
          /\ Accept
     ELSE Reject /\ UNCHANGED <<m_currentRule, trees>>
  /\ UNCHANGED brk

startRule(el) ==
  /\ el.name = "rule"
  /\ IF Has(el, "id") /\ Has(el, "cid")
     THEN /\ newTree
          /\ m_currentRule' = [id |-> Attr(el, "id"), cid |-> atoi(Attr(el, "cid")),
                               pExpTree |-> brk + 1]
          /\ Accept
     ELSE /\ Reject
          /\ UNCHANGED <<trees, brk>>
          /\ IF Has(el, "id")
             THEN m_currentRule' = [m_currentRule EXCEPT !.id = Attr(el, "id")]
             ELSE UNCHANGED m_currentRule

startExpression(el) ==
  /\ el.name = "expression"
  /\ newTree
  /\ m_currentRule' = [m_currentRule EXCEPT !.pExpTree = brk + 1]
  /\ Accept

(* std::stoi throws on what is not a number, be it an index, a value or    *)
(* one half of a value-range.  A value-range without a dot adds no         *)
(* condition; the upper half of one that ends with its only dot is read    *)
(* behind the buffer, and is whatever is found there.                      *)
addByte(el) ==
  LET p     == m_currentRule.pExpTree
      index == Attr(el, "index")
      value == Attr(el, "value")
      range == Attr(el, "value-range")
      Add(v) == trees' = Put(trees, p, addValue(trees[p], v)) /\ Accept
  IN
  IF index \notin DOMAIN Numbers THEN Die /\ UNCHANGED trees
  ELSE IF value # NoAttr
  THEN IF value \in DOMAIN Numbers
       THEN Add(SingleValue(Numbers[index], Numbers[value]))
       ELSE Die /\ UNCHANGED trees
  ELSE IF range \notin DOMAIN Halves THEN Accept /\ UNCHANGED trees
  ELSE IF range \in DOMAIN Ranges
  THEN Add(BoundedValue(Numbers[index], Ranges[range][1], Ranges[range][2]))
  ELSE \/ Die /\ UNCHANGED trees
       \/ /\ Halves[range][1] \in DOMAIN Numbers
          /\ Halves[range][2] = Beyond
          /\ \E upper \in Stray :
               Add(BoundedValue(Numbers[index], Numbers[Halves[range][1]], upper))

startByte(el) ==
  /\ el.name = "byte"
  /\ IF /\ m_currentRule.pExpTree # NULL
        /\ Has(el, "index")
        /\ Has(el, "value") \/ Has(el, "value-range")
     THEN addByte(el)
     ELSE Reject /\ UNCHANGED trees
  /\ UNCHANGED <<m_currentRule, brk>>

startOperator(el) ==
  /\ el.name = "operator"
  /\ LET p == m_currentRule.pExpTree IN
     IF p # NULL /\ Attr(el, "type") \in {"AND", "OR"}
     THEN trees' = Put(trees, p, operatorStart(trees[p], Attr(el, "type"))) /\ Accept
     ELSE Reject /\ UNCHANGED trees
  /\ UNCHANGED <<m_currentRule, brk>>

(* <source>, <destination>, <payload> and what is not known.               *)
startOther(el) ==
  /\ el.name \notin {"rule", "expression", "byte", "operator"}
  /\ IF \/ el.name \in {"source", "destination"} /\ Has(el, "network")
        \/ el.name = "payload"
     THEN Accept ELSE Reject
  /\ UNCHANGED <<m_currentRule, trees, brk>>

processRules(el) ==
  /\ m_stGlobal = "rules"
  /\ startRule(el) \/ startExpression(el) \/ startByte(el) \/ startOperator(el)
     \/ startOther(el)
  /\ UNCHANGED <<m_stGlobal, m_lstRules, chains>>

-----------------------------------------------------------------------------
(* A rule chain needs a cid and an id, a state chain an id and keeps the   *)
(* cid that m_currentChain had.                                            *)
startChain(el) ==
  /\ el.name = "chain"
  /\ LET cidRead == m_stGlobal = "rule-chains" IN
     IF Has(el, "id") /\ (cidRead => Has(el, "cid"))
     THEN /\ m_currentChain' =
               [id |-> Attr(el, "id"),
                cid |-> IF cidRead THEN atoi(Attr(el, "cid")) ELSE m_currentChain.cid,
                plstRules |-> brk + 1]
          /\ lists' = Put(lists, brk + 1, <<>>)
          /\ brk' = brk + 1
          /\ Accept
     ELSE Reject /\ UNCHANGED <<m_currentChain, lists, brk>>

(* processChain: one entry for a known rule or for <default>.              *)
startEntry(el) ==
  /\ el.name # "chain"
  /\ LET p    == m_currentChain.plstRules
         rule == IF el.name = "rule" THEN getRulePtr(Attr(el, "id")) ELSE NULL
         entry == [rule |-> rule, action |-> decodeAction(Attr(el, "action")),
                   logMessage |-> IF Has(el, "message") THEN Attr(el, "message") ELSE ""]
     IN
     IF /\ el.name \in {"rule", "default"}
        /\ p # NULL
        /\ Has(el, "action")
        /\ el.name = "rule" => Has(el, "id") /\ rule # NULL
     THEN IF p = Indeterminate
          THEN Die /\ UNCHANGED lists
          ELSE lists' = Put(lists, p, Append(lists[p], entry)) /\ Accept
     ELSE Reject /\ UNCHANGED lists
  /\ UNCHANGED <<m_currentChain, brk>>

processChains(el) ==
  /\ m_stGlobal \in {"rule-chains", "state-chains"}
  /\ startChain(el) \/ startEntry(el)
  /\ UNCHANGED <<m_stGlobal, rules, m_mapRuleChains, m_mapStateChains>>

-----------------------------------------------------------------------------
(* GHOST: what FWRules.xml puts where.  Numbers are numbers, a range is    *)
(* two of them, and a chain has its attributes.                            *)
Inside(parent) ==
  CASE parent = "firewall-definition"            -> Sections
    [] parent = "networks"                       -> {"network"}
    [] parent = "rules"                          -> {"rule"}
    [] parent = "rule"                           -> {"source", "destination", "payload"}
    [] parent = "payload"                        -> {"expression", "byte", "operator"}
    [] parent \in {"expression", "operator"}     -> {"byte", "operator"}
    [] parent \in {"rule-chains", "state-chains"} -> {"chain"}
    [] parent = "chain"                          -> {"rule", "default"}
    [] OTHER                                     -> {}

Regular(el) ==
  /\ IF open = <<>>
     THEN el.name = "firewall-definition"
     ELSE /\ el.name \in Inside(Last(open))
          /\ el.name = "rule" => Len(open) = (IF m_stGlobal = "rules" THEN 2 ELSE 3)
  /\ \A a \in {"index", "value"} : Attr(el, a) \in DOMAIN Numbers \cup {NoAttr}
  /\ Attr(el, "value-range") \in DOMAIN Halves =>
       Attr(el, "value-range") \in DOMAIN Ranges
  /\ el.name = "chain" =>
       Has(el, "id") /\ (m_stGlobal = "rule-chains" => Has(el, "cid"))

(* MUTANT of StartElement: the handler's opinion is not asked.             *)
StartElementGoesOn(el) ==
  /\ phase = "parsing"
  /\ count < MaxElements
  /\ open # <<>> \/ count = 0
  /\ startGlobal(el) \/ processNetworks(el) \/ processRules(el) \/ processChains(el)
  /\ UNCHANGED <<m_lstRules, m_mapRuleChains, m_mapStateChains, phase>>
  /\ open' = Append(open, el.name)
  /\ count' = count + 1
  /\ regular' = (regular /\ Regular(el))

(* Expat finds a start tag; startElementHandler stops the parser when the  *)
(* handler is not content.                                                 *)
StartElement(el) ==
  /\ phase = "parsing"
  /\ count < MaxElements
  /\ open # <<>> \/ count = 0
  /\ startGlobal(el) \/ processNetworks(el) \/ processRules(el) \/ processChains(el)
  /\ UNCHANGED <<m_lstRules, m_mapRuleChains, m_mapStateChains>>
  /\ phase' = IF m_continueProcessing' THEN "parsing" ELSE "stopping"
  /\ open' = Append(open, el.name)
  /\ count' = count + 1
  /\ regular' = (regular /\ Regular(el))

-----------------------------------------------------------------------------
(* </operator>; without a tree a NULL pointer is dereferenced.             *)
endOperator ==
  /\ LET p == m_currentRule.pExpTree IN
     IF p = NULL
     THEN alive' = FALSE /\ UNCHANGED trees
     ELSE trees' = Put(trees, p, operatorEnd(trees[p])) /\ UNCHANGED alive
  /\ UNCHANGED <<m_stGlobal, m_currentRule, m_lstRules, chains>>

(* MUTANT of endRule: the pointer is kept.                                 *)
endRuleKeep ==
  /\ m_lstRules' = Append(m_lstRules, m_currentRule)
  /\ UNCHANGED <<m_stGlobal, m_currentRule, trees, chains, alive>>

endRule ==
  /\ m_lstRules' = Append(m_lstRules, m_currentRule)
  /\ m_currentRule' = [m_currentRule EXCEPT !.pExpTree = NULL]
  /\ UNCHANGED <<m_stGlobal, trees, chains, alive>>

(* map::insert: a key that is there already keeps its chain.               *)
Insert(m, key, chain) == IF key \in DOMAIN m THEN m ELSE Put(m, key, chain)

(* MUTANT of endChain: the pointer is kept.                                *)
endChainKeep ==
  /\ IF m_stGlobal = "rule-chains"
     THEN /\ m_mapRuleChains' = Insert(m_mapRuleChains, m_currentChain.cid, m_currentChain)
          /\ UNCHANGED m_mapStateChains
     ELSE /\ m_mapStateChains' = Insert(m_mapStateChains, m_currentChain.id, m_currentChain)
          /\ UNCHANGED m_mapRuleChains
  /\ m_currentChain' = [m_currentChain EXCEPT !.id = "", !.cid = -1]
  /\ UNCHANGED <<m_stGlobal, rules, lists, alive>>

endChain ==
  /\ IF m_stGlobal = "rule-chains"
     THEN /\ m_mapRuleChains' = Insert(m_mapRuleChains, m_currentChain.cid, m_currentChain)
          /\ UNCHANGED m_mapStateChains
     ELSE /\ m_mapStateChains' = Insert(m_mapStateChains, m_currentChain.id, m_currentChain)
          /\ UNCHANGED m_mapRuleChains
  /\ m_currentChain' = [id |-> "", cid |-> -1, plstRules |-> NULL]
  /\ UNCHANGED <<m_stGlobal, rules, lists, alive>>

(* The other end tags; only those of the sections have an effect.          *)
endOther(name) ==
  /\ m_stGlobal' = IF name \in Sections THEN "NONE" ELSE m_stGlobal
  /\ UNCHANGED <<rules, chains, alive>>

onEndElement(name) ==
  IF m_stGlobal = "rules" /\ name = "operator" THEN endOperator
  ELSE IF m_stGlobal = "rules" /\ name = "rule" THEN endRule
  ELSE IF m_stGlobal \in {"rule-chains", "state-chains"} /\ name = "chain" THEN endChain
  ELSE endOther(name)

(* Expat closes the innermost element.  When the parser was stopped by the *)
(* start handler of an empty tag, the end handler of that tag still runs.  *)
EndElement ==
  /\ phase \in {"parsing", "stopping"}
  /\ open # <<>>
  /\ onEndElement(Last(open))
  /\ open' = Front(open)
  /\ phase' = IF phase = "stopping" THEN "failed"
              ELSE IF Len(open) = 1 THEN "parsed" ELSE "parsing"
  /\ UNCHANGED <<m_continueProcessing, brk, count, regular>>

(* parseFile returns false: the parser was stopped, the file cannot be     *)
(* opened or is not well-formed.                                           *)
ParseError ==
  /\ phase \in {"parsing", "stopping"}
  /\ phase' = "failed"
  /\ UNCHANGED <<state, rules, chains, brk, alive, expat>>

(* FirewallManager::initialize prints a file it has accepted, through      *)
(* every tree and every list.                                              *)
printRules ==
  /\ phase = "parsed"
  /\ IF \/ \E i \in DOMAIN m_lstRules : m_lstRules[i].pExpTree = NULL
        \/ \E k \in DOMAIN m_mapRuleChains : m_mapRuleChains[k].plstRules = NULL
        \/ \E k \in DOMAIN m_mapStateChains : m_mapStateChains[k].plstRules = NULL
     THEN alive' = FALSE /\ UNCHANGED phase
     ELSE phase' = "loaded" /\ UNCHANGED alive
  /\ UNCHANGED <<state, rules, chains, brk, expat>>

(* The addresses the destructor deletes, one delete for each rule and each *)
(* chain.                                                                  *)
RuleTrees  == {m_lstRules[i].pExpTree : i \in DOMAIN m_lstRules} \ {NULL}
ChainLists == ({m_mapRuleChains[k].plstRules : k \in DOMAIN m_mapRuleChains} \cup
               {m_mapStateChains[k].plstRules : k \in DOMAIN m_mapStateChains}) \ {NULL}

(* ~RuleFileProcessor, run when the file was not accepted.  The tree and   *)
(* the list in hand are not deleted.                                       *)
destructor ==
  /\ phase = "failed"
  /\ trees' = [a \in DOMAIN trees \ RuleTrees |-> trees[a]]
  /\ lists' = [a \in DOMAIN lists \ ChainLists |-> lists[a]]
  /\ phase' = "destroyed"
  /\ IF ChainLists \subseteq DOMAIN lists THEN UNCHANGED alive ELSE alive' = FALSE
  /\ UNCHANGED <<state, m_currentRule, m_lstRules, m_currentChain, m_mapRuleChains,
                 m_mapStateChains, brk, expat>>

Next ==
  /\ alive
  /\ \/ \E el \in Elements : StartElement(el)
     \/ EndElement \/ ParseError \/ printRules \/ destructor

Spec == Init /\ [][Next]_vars

-----------------------------------------------------------------------------
(* The strings a handler can keep: the empty one and those of the file.    *)
Strings == {""} \cup UNION {Range(el.attrs) : el \in Elements}

(* Every variable has its type; addresses have been handed out.            *)
TypeOK ==
  /\ m_stGlobal \in Sections \cup {"NONE"}
  /\ m_continueProcessing \in BOOLEAN
  /\ m_currentRule \in [id : Strings, cid : Int, pExpTree : {NULL} \cup 1 .. brk]
  /\ m_lstRules \in Seq([id : Strings, cid : Int, pExpTree : {NULL} \cup 1 .. brk])
  /\ m_currentChain \in
       [id : Strings, cid : Int, plstRules : {NULL, Indeterminate} \cup 1 .. brk]
  /\ DOMAIN m_mapRuleChains \subseteq Int
  /\ DOMAIN m_mapStateChains \subseteq Strings
  /\ DOMAIN trees \cup DOMAIN lists \subseteq 1 .. brk
  /\ \A p \in DOMAIN lists :
       lists[p] \in Seq([rule : {NULL} \cup DOMAIN m_lstRules, action : 0 .. 3,
                        logMessage : Strings])
  /\ brk \in 0 .. MaxElements
  /\ phase \in {"parsing", "stopping", "parsed", "loaded", "failed", "destroyed"}
  /\ alive \in BOOLEAN
  /\ open \in Seq({el.name : el \in Elements})
  /\ count \in 0 .. MaxElements
  /\ regular \in BOOLEAN
  /\ phase = "parsing" => m_continueProcessing

(* No tree is leaked, deleted twice or used after its deletion while a     *)
(* file is parsed: the trees in memory are those of the finished rules and *)
(* the one in hand, each of which belongs to one rule.                     *)
TreesOwnedOnce ==
  phase # "destroyed" =>
    /\ DOMAIN trees = (RuleTrees \cup {m_currentRule.pExpTree}) \ {NULL}
    /\ m_currentRule.pExpTree \notin RuleTrees
    /\ \A i, j \in DOMAIN m_lstRules :
         m_lstRules[i].pExpTree = m_lstRules[j].pExpTree
           => i = j \/ m_lstRules[i].pExpTree = NULL

(* What has been stored is final: no later element changes the tree of a   *)
(* finished rule, the chain of a key, or a list in a map.                  *)
StoredIsFinal ==
  [][/\ \A i \in DOMAIN m_lstRules : m_lstRules'[i] = m_lstRules[i]
     /\ \A p \in RuleTrees :
         phase' # "destroyed" => p \in DOMAIN trees' /\ trees'[p] = trees[p]
     /\ \A k \in DOMAIN m_mapRuleChains : m_mapRuleChains'[k] = m_mapRuleChains[k]
     /\ \A k \in DOMAIN m_mapStateChains : m_mapStateChains'[k] = m_mapStateChains[k]
     /\ \A p \in ChainLists \cap DOMAIN lists :
         phase' # "destroyed" => p \in DOMAIN lists' /\ lists'[p] = lists[p]]_vars

(* Whatever the file says, what is loaded can be run: every rule has a     *)
(* finished tree, every chain a list of its own under its own key, every   *)
(* entry a rule of the list or none.                                       *)
LoadedConfigSound ==
  phase = "loaded" =>
    /\ \A i \in DOMAIN m_lstRules :
         /\ m_lstRules[i].pExpTree \in DOMAIN trees
         /\ Len(trees[m_lstRules[i].pExpTree]) = 1
    /\ \A k \in DOMAIN m_mapRuleChains :
         /\ m_mapRuleChains[k].cid = k
         /\ m_mapRuleChains[k].plstRules \in DOMAIN lists
    /\ \A k \in DOMAIN m_mapStateChains :
         /\ m_mapStateChains[k].id = k
         /\ m_mapStateChains[k].plstRules \in DOMAIN lists
    /\ Cardinality(ChainLists) =
         Cardinality(DOMAIN m_mapRuleChains) + Cardinality(DOMAIN m_mapStateChains)

(* A file nested like FWRules.xml, and with numbers where std::stoi reads  *)
(* one, does not kill the process, wherever it is cut off and whichever of *)
(* its elements the handlers reject.                                       *)
RegularFileSurvives == regular => alive
==============================================================================
