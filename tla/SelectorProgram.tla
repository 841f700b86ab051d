---------------------------- MODULE SelectorProgram ----------------------------
(***************************************************************************)
(* The selector engine of the stream: a selector is simplified, compiled   *)
(* to a program over clause hits, and judged at the end of a candidate     *)
(* from the hits that the scan has observed; on the way the engine says    *)
(* whether an object can still match, and best-effort capture is given up  *)
(* when it cannot.  Eval is the evaluator of Matches, on whole documents.  *)
(*                                                                         *)
(* A clause (Eq, Contains, Range, ...) is a model value: what matters here *)
(* is whether some value of the candidate satisfies it.  A selector is the *)
(* sequence of its nodes, children before their parents and the root last; *)
(* a node has the numbers of its children, whose order does not matter.    *)
(***************************************************************************)
EXTENDS Naturals, Sequences

CONSTANTS Clauses,       \* the clauses that selectors are made of
          MatchAll,      \* a string clause that simplifySelector takes for true
          Selectors,     \* the selectors to compile
          MaxCandidates  \* bound: candidates of a call

\* A Selector: not is empty for nil; clauses are the fields that are set.
Node(or, not, clauses, and) == [or |-> or, not |-> not, clauses |-> clauses, and |-> and]

NodeType == [or : SUBSET Nat, not : SUBSET Nat,
             clauses : SUBSET (Clauses \cup {MatchAll}), and : SUBSET Nat]

IsSelector(sel) ==
  /\ sel \in Seq(NodeType) \ {<<>>}
  /\ \A i \in DOMAIN sel : sel[i].or \cup sel[i].not \cup sel[i].and \subseteq 1..(i - 1)

ASSUME ClausesAssumption   == MatchAll \notin Clauses
ASSUME SelectorsAssumption == \A sel \in Selectors : IsSelector(sel)
ASSUME BoundsAssumption    == MaxCandidates \in Nat

VARIABLES
  selector,         \* the selector of the request
  program,          \* engine.program
  emptySelector,    \* engine.emptySelector
  pc,               \* "ready", "scan", "judged"
  rootIsObject,     \* the kind of the candidate's root
  hits,             \* engine.hits: the ids of the clauses that are set
  captureDisabled,  \* s.captureDisabled, with pruning active
  matched,          \* engine.match
  satisfied,        \* history: clauses that a value of the candidate satisfied
  candidates        \* bounds the candidates

engine == <<selector, program, emptySelector>>
vars == <<engine, pc, rootIsObject, hits, captureDisabled, matched, satisfied, candidates>>

EmptyNode == Node({}, {}, {}, {})
Empty     == <<EmptyNode>>

Root(sel) == Len(sel)

\* Selector.IsEmpty, of a node whose children are known.
NodeIsEmpty(node, childEmpty) ==
  /\ node.and = {} /\ node.or = {} /\ node.clauses = {}
  /\ \A child \in node.not : childEmpty[child]

EmptyNodes(sel) ==
  LET empty[i \in DOMAIN sel] == NodeIsEmpty(sel[i], [child \in sel[i].not |-> empty[child]])
  IN  empty

IsEmpty(sel) == EmptyNodes(sel)[Root(sel)]

\* matchSelector, for the clauses that hold in a document.
EvalNodes(sel, holds) ==
  LET eval[i \in DOMAIN sel] ==
        IF sel[i].or # {} THEN \E branch \in sel[i].or : eval[branch]
        ELSE /\ \A child \in sel[i].not : ~eval[child]
             /\ sel[i].clauses \subseteq holds
             /\ \A clause \in sel[i].and : eval[clause]
  IN  eval

Eval(sel, holds) == EvalNodes(sel, holds)[Root(sel)]

--------------------------------------------------------------------------------
(* simplifySelectorNode: a truth, and a node when it is "expression".          *)

Truth(truth, node, empty) == [truth |-> truth, node |-> node, empty |-> empty]
True  == Truth("true", EmptyNode, TRUE)
False == Truth("false", EmptyNode, TRUE)

Truths(result, children) == {result[child].truth : child \in children}
Kept(result, children)   == {child \in children : result[child].truth = "expression"}

\* empty is what IsEmpty says of the node.
Expression(result, node) ==
  Truth("expression", node, NodeIsEmpty(node, [child \in node.not |-> result[child].empty]))

SimplifyOr(result, branches) ==
  IF "true" \in Truths(result, branches) THEN True
  ELSE IF Kept(result, branches) = {} THEN False
  ELSE Expression(result, Node(Kept(result, branches), {}, {}, {}))

\* The other fields of a selector with an Or do not count.
SimplifyNode(result, sel) ==
  LET left == Node({}, Kept(result, sel.not), sel.clauses \ {MatchAll}, Kept(result, sel.and))
      out  == Expression(result, left)
  IN  IF sel.or # {} THEN SimplifyOr(result, sel.or)
      ELSE IF "true" \in Truths(result, sel.not) \/ "false" \in Truths(result, sel.and) THEN False
      ELSE IF out.empty THEN True
      ELSE out

SimplifyNodes(sel) ==
  LET result[i \in DOMAIN sel] == SimplifyNode([child \in 1..(i - 1) |-> result[child]], sel[i])
  IN  result

AlwaysFalse == <<EmptyNode, Node({}, {1}, {}, {}), Node({}, {}, {}, {2})>>

SimplifySelector(sel) ==
  LET result == SimplifyNodes(sel)
      truth  == result[Root(sel)].truth
  IN  CASE truth = "true"  -> Empty
        [] truth = "false" -> AlwaysFalse
        [] OTHER -> [i \in DOMAIN sel |-> result[i].node]

--------------------------------------------------------------------------------
(* The program: the same nodes, with the ids of their clauses.                 *)

BuildSelectorProgram(sel) ==
  [i \in DOMAIN sel |-> [or |-> sel[i].or, not |-> sel[i].not,
                         requiredIDs |-> sel[i].clauses, and |-> sel[i].and]]

MatchNodes(prog, set) ==
  LET match[i \in DOMAIN prog] ==
        IF prog[i].or # {} THEN \E branch \in prog[i].or : match[branch]
        ELSE /\ \A child \in prog[i].not : ~match[child]
             /\ prog[i].requiredIDs \subseteq set
             /\ \A child \in prog[i].and : match[child]
  IN  match

MatchProgram(prog, set) == MatchNodes(prog, set)[Root(prog)]

\* programFuturePossibility: can the program still be true, still be false,
\* once more hits are set?
FutureNodes(prog, set) ==
  LET future[i \in DOMAIN prog] ==
        IF prog[i].or # {}
        THEN [canTrue  |-> \E branch \in prog[i].or : future[branch].canTrue,
              canFalse |-> \A branch \in prog[i].or : future[branch].canFalse]
        ELSE [canTrue  |-> /\ \A child \in prog[i].not : future[child].canFalse
                           /\ \A child \in prog[i].and : future[child].canTrue,
              canFalse |-> \/ \E child \in prog[i].not : future[child].canTrue
                           \/ \E child \in prog[i].and : future[child].canFalse
                           \/ prog[i].requiredIDs \ set # {}]
  IN  future

FuturePossibility(prog, set) == FutureNodes(prog, set)[Root(prog)]

\* Mutant: a program that is false now is given up.
CanStillMatchNow(set) == emptySelector \/ MatchProgram(program, set)

CanStillMatchObjectRoot(set) == emptySelector \/ FuturePossibility(program, set).canTrue

--------------------------------------------------------------------------------
(* A candidate.                                                                *)

\* Mutant: the hits of the last candidate stay.
BeginStale ==
  /\ pc # "scan" /\ candidates < MaxCandidates
  /\ candidates' = candidates + 1
  /\ rootIsObject' \in BOOLEAN
  /\ captureDisabled' = FALSE /\ satisfied' = {} /\ matched' = FALSE
  /\ pc' = "scan"
  /\ UNCHANGED <<engine, hits>>

\* consumeCandidate, up to scanValue; engine.reset.
Begin ==
  /\ pc # "scan" /\ candidates < MaxCandidates
  /\ candidates' = candidates + 1
  /\ rootIsObject' \in BOOLEAN
  /\ hits' = {} /\ captureDisabled' = FALSE /\ satisfied' = {} /\ matched' = FALSE
  /\ pc' = "scan"
  /\ UNCHANGED engine

\* A value is scanned: it sets the hits of the clauses that it satisfies, and
\* clears none (observeMatchSignal and maybeDisableCaptureForImpossibleMatch).
\* Pruning is active for objects, unless the selector is empty.
Observe ==
  /\ pc = "scan"
  /\ \E new \in SUBSET Clauses :
       /\ satisfied' = satisfied \cup new
       /\ hits' = IF emptySelector THEN hits ELSE hits \cup new
  /\ captureDisabled' = (\/ captureDisabled
                         \/ rootIsObject /\ ~emptySelector /\ ~CanStillMatchObjectRoot(hits'))
  /\ UNCHANGED <<engine, pc, rootIsObject, matched, candidates>>

\* engine.match.
Match ==
  /\ pc = "scan"
  /\ matched' = (emptySelector \/ (rootIsObject /\ MatchProgram(program, hits)))
  /\ pc' = "judged"
  /\ UNCHANGED <<engine, rootIsObject, hits, captureDisabled, satisfied, candidates>>

--------------------------------------------------------------------------------

\* newStreamSelectorEngine.
Init ==
  /\ selector \in Selectors
  /\ LET simplified == SimplifySelector(selector)
     IN  /\ emptySelector = IsEmpty(simplified)
         /\ program = BuildSelectorProgram(IF emptySelector THEN Empty ELSE simplified)
  /\ pc = "ready" /\ rootIsObject = FALSE
  /\ hits = {} /\ captureDisabled = FALSE /\ matched = FALSE
  /\ satisfied = {} /\ candidates = 0

\* The bound on candidates is used up.
Over == pc # "scan" /\ candidates = MaxCandidates /\ UNCHANGED vars

Next == Begin \/ Observe \/ Match \/ Over

Spec == Init /\ [][Next]_vars

--------------------------------------------------------------------------------

\* A candidate is judged as Matches judges its document: for objects, the
\* simplified and compiled program agrees with the evaluator on the selector as
\* it was written, whatever the order in which values set hits; other roots
\* match the empty selector only, and a selector is taken for that one, which
\* needs no scan, only if every document satisfies it.
MatchAgrees ==
  /\ pc = "judged" =>
       matched = (IF rootIsObject THEN Eval(selector, satisfied \cup {MatchAll})
                                  ELSE emptySelector)
  /\ emptySelector => Eval(selector, satisfied \cup {MatchAll})

\* Best-effort capture is given up only when no continuation of the document
\* can match, so that OnValue never misses a payload (QueryStream relies on it).
PruneLeavesNoMatch ==
  pc = "scan" /\ captureDisabled =>
    \A more \in SUBSET Clauses : ~Eval(selector, satisfied \cup more \cup {MatchAll})

================================================================================
