-------------------------- MODULE SelectorEngineProofs --------------------------
(***************************************************************************)
(* The selector engine: the program that a selector is compiled to, and    *)
(* the scan of a candidate that finds which of its clauses are hit.        *)
(*                                                                         *)
(* 1. The program (SelectorProgram): it agrees with the evaluator for      *)
(*    every selector, and what is given up cannot match.  The functions of *)
(*    SelectorProgram are recursive on the nodes of a selector, whose      *)
(*    children have smaller numbers.  Recursion shows that they exist, and *)
(*    Least gives induction over the nodes: a property that fails at a     *)
(*    node fails at a first one.                                           *)
(* 2. The paths (PathMatch): the matchers of a place and the evaluator's   *)
(*    collector of values agree on every path and every document.          *)
(* 3. The strings (StringMatch): KMP and the automaton find their needles  *)
(*    wherever they begin, and however the string is cut into runs.        *)
(* 4. The scan (ClauseMatch): hits stay, and the matchers of the string    *)
(*    that is read know what its bytes so far decide.                      *)
(***************************************************************************)
EXTENDS SelectorProgram, ClauseMatch, FiniteSetTheorems, WellFoundedInduction, TLAPS

\* A set of natural numbers has a least member.
LEMMA Least ==
  ASSUME NEW S, S \subseteq Nat, S # {}
  PROVE  \E n \in S : \A k \in S : n <= k
<1> DEFINE Less == {ss \in Nat \X Nat : ss[1] < ss[2]}
<1>1. IsWellFoundedOn(Less, Nat)
  BY NatLessThanWellFounded DEF OpToRel
<1>2. PICK n \in S : \A k \in S : <<k, n>> \notin Less
  <2> HIDE DEF Less
  <2> QED
    BY <1>1, WFMin
<1>3. ASSUME NEW k \in S PROVE n <= k
  <2>1. <<k, n>> \in Less <=> k < n
    OBVIOUS
  <2> HIDE DEF Less
  <2> QED
    BY <1>2, <2>1
<1> QED
  BY <1>3

\* What holds at a node if it holds at all smaller ones holds at every node.
LEMMA NodeInduction ==
  ASSUME NEW n \in Nat, NEW Good,
         \A i \in 1..n : (\A j \in 1..(i - 1) : j \in Good) => i \in Good
  PROVE  \A i \in 1..n : i \in Good
<1> DEFINE Bad == {i \in 1..n : i \notin Good}
<1>1. ASSUME Bad # {} PROVE FALSE
  <2>1. PICK i \in Bad : \A j \in Bad : i <= j
    <3>1. Bad \subseteq Nat
      OBVIOUS
    <3> HIDE DEF Bad
    <3> QED
      BY <1>1, <3>1, Least
  <2>2. i \in 1..n /\ i \notin Good
    OBVIOUS
  <2>3. ASSUME NEW j \in 1..(i - 1) PROVE j \in Good
    <3>1. j \in 1..n /\ ~(i <= j)
      BY <2>2, <2>3
    <3>2. j \notin Bad
      BY <2>1, <3>1
    <3> QED
      BY <3>1, <3>2
  <2> QED
    BY <2>2, <2>3
<1> QED
  BY <1>1

\* step gives the value at a node from the values at smaller ones.
Descends(step, n, V) ==
  /\ step \in [[1..n -> V] -> [1..n -> V]]
  /\ \A f, g \in [1..n -> V] : \A i \in 1..n :
       (\A j \in 1..(i - 1) : f[j] = g[j]) => step[f][i] = step[g][i]

\* Then a function with these values exists.
LEMMA Recursion ==
  ASSUME NEW n \in Nat, NEW V, V # {}, NEW step, Descends(step, n, V)
  PROVE  \E f \in [1..n -> V] : step[f] = f
<1> USE DEF Descends
<1> DEFINE Fixed(f, k) == \A i \in 1..k : step[f][i] = f[i]
           Bad == {k \in 0..n : \A f \in [1..n -> V] : ~Fixed(f, k)}
<1>1. ASSUME Bad # {} PROVE FALSE
  <2>1. PICK k \in Bad : \A m \in Bad : k <= m
    <3>1. Bad \subseteq Nat
      OBVIOUS
    <3> HIDE DEF Bad
    <3> QED
      BY <1>1, <3>1, Least
  <2>2. k \in 0..n /\ \A f \in [1..n -> V] : ~Fixed(f, k)
    OBVIOUS
  <2>3. k # 0
    <3>1. PICK v : v \in V
      OBVIOUS
    <3>2. [i \in 1..n |-> v] \in [1..n -> V] /\ Fixed([i \in 1..n |-> v], 0)
      BY <3>1
    <3> QED
      BY <2>2, <3>2
  <2>4. k - 1 \in 0..n /\ k - 1 \notin Bad
    <3>1. k \in Nat /\ ~(k <= k - 1) /\ k - 1 \in 0..n
      BY <2>2, <2>3
    <3> HIDE DEF Bad
    <3> QED
      BY <2>1, <3>1
  <2>5. PICK f \in [1..n -> V] : Fixed(f, k - 1)
    BY <2>4
  <2>6. step[f] \in [1..n -> V]
    OBVIOUS
  <2>7. ASSUME NEW i \in 1..k PROVE step[step[f]][i] = step[f][i]
    <3>1. i \in 1..n
      BY <2>2
    <3>2. \A j \in 1..(i - 1) : step[f][j] = f[j]
      BY <2>2, <2>5
    <3> QED
      BY <2>6, <3>1, <3>2
  <2> QED
    BY <2>2, <2>6, <2>7
<1>2. PICK f \in [1..n -> V] : Fixed(f, n)
  BY <1>1, n \in 0..n
<1>3. step[f] \in [1..n -> V]
  OBVIOUS
<1> QED
  BY <1>2, <1>3

--------------------------------------------------------------------------------
(* The functions satisfy their definitions.                                   *)

LEMMA SelectorFacts ==
  ASSUME NEW sel, IsSelector(sel)
  PROVE  /\ sel \in Seq(NodeType) /\ Len(sel) \in Nat /\ Len(sel) > 0 /\ DOMAIN sel = 1..Len(sel)
         /\ \A i \in 1..Len(sel) : /\ sel[i].or \subseteq 1..(i - 1) /\ sel[i].not \subseteq 1..(i - 1)
                                 /\ sel[i].and \subseteq 1..(i - 1)
                                 /\ sel[i].clauses \subseteq Clauses \cup {MatchAll}
<1>1. sel \in Seq(NodeType) /\ sel # <<>>
  BY DEF IsSelector
<1>2. Len(sel) \in Nat /\ Len(sel) > 0 /\ DOMAIN sel = 1..Len(sel)
  BY <1>1
<1>3. \A i \in 1..Len(sel) : sel[i] \in NodeType
  BY <1>1
<1> QED
  BY <1>1, <1>2, <1>3 DEF IsSelector, NodeType

EvalAt(sel, holds, f, i) ==
  IF sel[i].or # {} THEN \E branch \in sel[i].or : f[branch]
  ELSE /\ \A child \in sel[i].not : ~f[child]
       /\ sel[i].clauses \subseteq holds
       /\ \A clause \in sel[i].and : f[clause]

LEMMA EvalDef ==
  ASSUME NEW sel, IsSelector(sel), NEW holds
  PROVE  EvalNodes(sel, holds) = [i \in DOMAIN sel |-> EvalAt(sel, holds, EvalNodes(sel, holds), i)]
<1> DEFINE n == Len(sel)
           V == BOOLEAN
           step == [f \in [1..n -> V] |-> [i \in 1..n |-> EvalAt(sel, holds, f, i)]]
<1>1. n \in Nat /\ DOMAIN sel = 1..n
  BY SelectorFacts
<1>2. step \in [[1..n -> V] -> [1..n -> V]]
  BY DEF EvalAt
<1>3. ASSUME NEW f \in [1..n -> V], NEW g \in [1..n -> V], NEW i \in 1..n,
             \A j \in 1..(i - 1) : f[j] = g[j]
      PROVE  step[f][i] = step[g][i]
  <2>1. \A j \in sel[i].or \cup sel[i].not \cup sel[i].and : f[j] = g[j]
    BY <1>3, SelectorFacts
  <2> QED
    BY <2>1 DEF EvalAt
<1>4. \E f \in [1..n -> V] : step[f] = f
  <2>1. Descends(step, n, V)
    BY <1>2, <1>3 DEF Descends
  <2>2. V # {}
    OBVIOUS
  <2> HIDE DEF step, n, V
  <2> QED
    BY <1>1, <2>1, <2>2, Recursion
<1>5. \E f : f = [i \in DOMAIN sel |-> EvalAt(sel, holds, f, i)]
  BY <1>1, <1>4
<1>6. EvalNodes(sel, holds) = CHOOSE f : f = [i \in DOMAIN sel |-> EvalAt(sel, holds, f, i)]
  BY DEF EvalNodes, EvalAt
<1> QED
  BY <1>5, <1>6

\* The program of a selector is the selector over the ids of its clauses.
LEMMA MatchIsEval ==
  ASSUME NEW sel, IsSelector(sel), NEW set
  PROVE  \A i \in 1..Len(sel) : MatchNodes(BuildSelectorProgram(sel), set)[i] = EvalNodes(sel, set)[i]
<1> DEFINE n == Len(sel)
           prog == BuildSelectorProgram(sel)
           eval == EvalNodes(sel, set)
           match == MatchNodes(prog, set)
           At(f, i) == IF prog[i].or # {} THEN \E branch \in prog[i].or : f[branch]
                       ELSE /\ \A child \in prog[i].not : ~f[child]
                            /\ prog[i].requiredIDs \subseteq set
                            /\ \A child \in prog[i].and : f[child]
<1>1. n \in Nat /\ DOMAIN sel = 1..n
  BY SelectorFacts
<1>2. DOMAIN prog = 1..n
  BY <1>1 DEF BuildSelectorProgram
<1>3. ASSUME NEW i \in 1..n, NEW f PROVE At(f, i) = EvalAt(sel, set, f, i)
  <2>1. /\ prog[i].or = sel[i].or /\ prog[i].not = sel[i].not /\ prog[i].and = sel[i].and
        /\ prog[i].requiredIDs = sel[i].clauses
    BY <1>1 DEF BuildSelectorProgram
  <2> HIDE DEF prog
  <2> QED
    BY <2>1 DEF EvalAt
<1>4. match = CHOOSE f : f = [i \in DOMAIN prog |-> At(f, i)]
  BY DEF MatchNodes
<1>5. eval = [i \in 1..n |-> EvalAt(sel, set, eval, i)]
  BY <1>1, EvalDef
<1> HIDE DEF prog, eval, At
<1>6. \E f : f = [i \in DOMAIN prog |-> At(f, i)]
  <2>1. eval = [i \in 1..n |-> At(eval, i)]
    BY <1>3, <1>5
  <2> QED
    BY <1>2, <2>1
<1>7. match = [i \in 1..n |-> At(match, i)]
  BY <1>2, <1>4, <1>6
<1> HIDE DEF match
<1> DEFINE Good == {i \in 1..n : match[i] = eval[i]}
<1>8. ASSUME NEW i \in 1..n, \A j \in 1..(i - 1) : j \in Good PROVE i \in Good
  <2>1. \A j \in sel[i].or \cup sel[i].not \cup sel[i].and : match[j] = eval[j]
    BY <1>8, SelectorFacts
  <2>2. EvalAt(sel, set, match, i) = EvalAt(sel, set, eval, i)
    BY <2>1 DEF EvalAt
  <2>3. match[i] = EvalAt(sel, set, match, i) /\ eval[i] = EvalAt(sel, set, eval, i)
    BY <1>3, <1>5, <1>7
  <2> QED
    BY <2>2, <2>3
<1>9. \A i \in 1..n : i \in Good
  <2> HIDE DEF Good
  <2> QED
    BY <1>1, <1>8, NodeInduction
<1> QED
  BY <1>9 DEF prog, match, eval

EmptyAt(sel, f, i) == NodeIsEmpty(sel[i], [child \in sel[i].not |-> f[child]])

LEMMA EmptyDef ==
  ASSUME NEW sel, IsSelector(sel)
  PROVE  EmptyNodes(sel) = [i \in DOMAIN sel |-> EmptyAt(sel, EmptyNodes(sel), i)]
<1> DEFINE n == Len(sel)
           V == BOOLEAN
           step == [f \in [1..n -> V] |-> [i \in 1..n |-> EmptyAt(sel, f, i)]]
<1>1. n \in Nat /\ DOMAIN sel = 1..n
  BY SelectorFacts
<1>2. step \in [[1..n -> V] -> [1..n -> V]]
  BY DEF EmptyAt, NodeIsEmpty
<1>3. ASSUME NEW f \in [1..n -> V], NEW g \in [1..n -> V], NEW i \in 1..n,
             \A j \in 1..(i - 1) : f[j] = g[j]
      PROVE  step[f][i] = step[g][i]
  <2>1. [child \in sel[i].not |-> f[child]] = [child \in sel[i].not |-> g[child]]
    BY <1>3, SelectorFacts
  <2> QED
    BY <2>1 DEF EmptyAt
<1>4. \E f \in [1..n -> V] : step[f] = f
  <2>1. Descends(step, n, V)
    BY <1>2, <1>3 DEF Descends
  <2>2. V # {}
    OBVIOUS
  <2> HIDE DEF step, n, V
  <2> QED
    BY <1>1, <2>1, <2>2, Recursion
<1>5. \E f : f = [i \in DOMAIN sel |-> EmptyAt(sel, f, i)]
  BY <1>1, <1>4
<1>6. EmptyNodes(sel) = CHOOSE f : f = [i \in DOMAIN sel |-> EmptyAt(sel, f, i)]
  BY DEF EmptyNodes, EmptyAt
<1> QED
  BY <1>5, <1>6

FutureAt(sel, set, f, i) ==
  IF sel[i].or # {}
  THEN [canTrue  |-> \E branch \in sel[i].or : f[branch].canTrue,
        canFalse |-> \A branch \in sel[i].or : f[branch].canFalse]
  ELSE [canTrue  |-> /\ \A child \in sel[i].not : f[child].canFalse
                     /\ \A child \in sel[i].and : f[child].canTrue,
        canFalse |-> \/ \E child \in sel[i].not : f[child].canTrue
                     \/ \E child \in sel[i].and : f[child].canFalse
                     \/ sel[i].clauses \ set # {}]

LEMMA FutureDef ==
  ASSUME NEW sel, IsSelector(sel), NEW set, NEW future, future = FutureNodes(BuildSelectorProgram(sel), set)
  PROVE  future = [i \in DOMAIN sel |-> FutureAt(sel, set, future, i)]
<1> DEFINE n == Len(sel)
           V == [canTrue : BOOLEAN, canFalse : BOOLEAN]
           step == [f \in [1..n -> V] |-> [i \in 1..n |-> FutureAt(sel, set, f, i)]]
           prog == BuildSelectorProgram(sel)
           At(f, i) ==
             IF prog[i].or # {}
             THEN [canTrue  |-> \E branch \in prog[i].or : f[branch].canTrue,
                   canFalse |-> \A branch \in prog[i].or : f[branch].canFalse]
             ELSE [canTrue  |-> /\ \A child \in prog[i].not : f[child].canFalse
                                /\ \A child \in prog[i].and : f[child].canTrue,
                   canFalse |-> \/ \E child \in prog[i].not : f[child].canTrue
                                \/ \E child \in prog[i].and : f[child].canFalse
                                \/ prog[i].requiredIDs \ set # {}]
<1>1. n \in Nat /\ DOMAIN sel = 1..n
  BY SelectorFacts
<1>2. step \in [[1..n -> V] -> [1..n -> V]]
  <2>1. \A f \in [1..n -> V] : \A i \in 1..n : FutureAt(sel, set, f, i) \in V
    BY DEF FutureAt
  <2> HIDE DEF V
  <2> QED
    BY <2>1
<1>3. ASSUME NEW f \in [1..n -> V], NEW g \in [1..n -> V], NEW i \in 1..n,
             \A j \in 1..(i - 1) : f[j] = g[j]
      PROVE  step[f][i] = step[g][i]
  <2>1. \A j \in sel[i].or \cup sel[i].not \cup sel[i].and : f[j] = g[j]
    BY <1>3, SelectorFacts
  <2>2. CASE sel[i].or # {}
    <3>1. /\ (\E branch \in sel[i].or : f[branch].canTrue) = (\E branch \in sel[i].or : g[branch].canTrue)
          /\ (\A branch \in sel[i].or : f[branch].canFalse) = (\A branch \in sel[i].or : g[branch].canFalse)
      BY <2>1
    <3>2. FutureAt(sel, set, f, i) = FutureAt(sel, set, g, i)
      BY <2>2, <3>1 DEF FutureAt
    <3> QED
      BY <3>2
  <2>3. CASE sel[i].or = {}
    <3>1. /\ (\A child \in sel[i].not : f[child].canFalse) = (\A child \in sel[i].not : g[child].canFalse)
          /\ (\A child \in sel[i].and : f[child].canTrue) = (\A child \in sel[i].and : g[child].canTrue)
          /\ (\E child \in sel[i].not : f[child].canTrue) = (\E child \in sel[i].not : g[child].canTrue)
          /\ (\E child \in sel[i].and : f[child].canFalse) = (\E child \in sel[i].and : g[child].canFalse)
      BY <2>1
    <3>2. FutureAt(sel, set, f, i) = FutureAt(sel, set, g, i)
      BY <2>3, <3>1 DEF FutureAt
    <3> QED
      BY <3>2
  <2> QED
    BY <2>2, <2>3
<1>4. \E f \in [1..n -> V] : step[f] = f
  <2>1. Descends(step, n, V)
    BY <1>2, <1>3 DEF Descends
  <2>2. V # {}
    <3>1. [canTrue |-> TRUE, canFalse |-> TRUE] \in V
      OBVIOUS
    <3> QED
      BY <3>1
  <2> HIDE DEF step, n, V
  <2> QED
    BY <1>1, <2>1, <2>2, Recursion
<1>5. DOMAIN prog = 1..n
  BY <1>1 DEF BuildSelectorProgram
<1>6. ASSUME NEW i \in 1..n, NEW f PROVE At(f, i) = FutureAt(sel, set, f, i)
  <2>1. /\ prog[i].or = sel[i].or /\ prog[i].not = sel[i].not /\ prog[i].and = sel[i].and
        /\ prog[i].requiredIDs = sel[i].clauses
    BY <1>1 DEF BuildSelectorProgram
  <2> HIDE DEF prog
  <2> QED
    BY <2>1 DEF FutureAt
<1>7. future = CHOOSE f : f = [i \in DOMAIN prog |-> At(f, i)]
  BY DEF FutureNodes
<1>8. PICK g : g = [i \in 1..n |-> FutureAt(sel, set, g, i)]
  BY <1>4
<1> HIDE DEF prog, At
<1>9. g = [i \in DOMAIN prog |-> At(g, i)]
  BY <1>5, <1>6, <1>8
<1>10. future = [i \in DOMAIN prog |-> At(future, i)]
  BY <1>7, <1>9
<1> QED
  BY <1>1, <1>5, <1>6, <1>10

Results == [truth : {"true", "false", "expression"}, node : NodeType, empty : BOOLEAN]

Smaller(f, i) == [child \in 1..(i - 1) |-> f[child]]

LEMMA SimplifyTyped ==
  ASSUME NEW r, NEW node \in NodeType
  PROVE  SimplifyNode(r, node) \in Results
<1>1. EmptyNode \in NodeType
  BY DEF EmptyNode, Node, NodeType
<1>2. True \in Results /\ False \in Results
  BY <1>1 DEF True, False, Truth, Results
<1>3. ASSUME NEW out \in NodeType PROVE Expression(r, out) \in Results
  BY DEF Expression, Truth, Results, NodeIsEmpty
<1>4. Node(Kept(r, node.or), {}, {}, {}) \in NodeType
  BY DEF Node, NodeType, Kept
<1>5. Node({}, Kept(r, node.not), node.clauses \ {MatchAll}, Kept(r, node.and)) \in NodeType
  BY DEF Node, NodeType, Kept
<1> QED
  BY <1>2, <1>3, <1>4, <1>5 DEF SimplifyNode, SimplifyOr

LEMMA SimplifyDef ==
  ASSUME NEW sel, IsSelector(sel), NEW result, result = SimplifyNodes(sel)
  PROVE  /\ result = [i \in DOMAIN sel |-> SimplifyNode(Smaller(result, i), sel[i])]
         /\ \A i \in DOMAIN sel : result[i] \in Results
<1> DEFINE n == Len(sel)
           V == Results
           step == [f \in [1..n -> V] |-> [i \in 1..n |-> SimplifyNode(Smaller(f, i), sel[i])]]
<1>1. n \in Nat /\ DOMAIN sel = 1..n /\ \A i \in 1..n : sel[i] \in NodeType
  BY SelectorFacts
<1>2. step \in [[1..n -> V] -> [1..n -> V]]
  BY <1>1, SimplifyTyped
<1>3. ASSUME NEW f \in [1..n -> V], NEW g \in [1..n -> V], NEW i \in 1..n,
             \A j \in 1..(i - 1) : f[j] = g[j]
      PROVE  step[f][i] = step[g][i]
  <2>1. Smaller(f, i) = Smaller(g, i)
    BY <1>3 DEF Smaller
  <2> QED
    BY <2>1
<1>4. \E f \in [1..n -> V] : step[f] = f
  <2>1. Descends(step, n, V)
    BY <1>2, <1>3 DEF Descends
  <2>2. V # {}
    <3>1. SimplifyNode(<<>>, EmptyNode) \in V
      BY SimplifyTyped DEF EmptyNode, Node, NodeType
    <3> QED
      BY <3>1
  <2> HIDE DEF step, n, V
  <2> QED
    BY <1>1, <2>1, <2>2, Recursion
<1>5. \E f : f = [i \in DOMAIN sel |-> SimplifyNode(Smaller(f, i), sel[i])]
  BY <1>1, <1>4
<1>6. result = CHOOSE f : f = [i \in DOMAIN sel |-> SimplifyNode(Smaller(f, i), sel[i])]
  BY DEF SimplifyNodes, Smaller
<1>7. result = [i \in DOMAIN sel |-> SimplifyNode(Smaller(result, i), sel[i])]
  BY <1>5, <1>6
<1> QED
  BY <1>1, <1>7, SimplifyTyped

--------------------------------------------------------------------------------
(* Simplification and pruning.                                                *)

\* What a node can become: an Or of the branches left, and any other node.
OrLeft(r, node)  == Node(Kept(r, node.or), {}, {}, {})
AndLeft(r, node) == Node({}, Kept(r, node.not), node.clauses \ {MatchAll}, Kept(r, node.and))

Becomes(r, node, res) ==
  \/ /\ node.or # {} /\ "true" \in Truths(r, node.or)
     /\ res.truth = "true" /\ res.node = EmptyNode
  \/ /\ node.or # {} /\ "true" \notin Truths(r, node.or) /\ Kept(r, node.or) = {}
     /\ res.truth = "false" /\ res.node = EmptyNode
  \/ /\ node.or # {} /\ "true" \notin Truths(r, node.or) /\ Kept(r, node.or) # {}
     /\ res.truth = "expression" /\ res.node = OrLeft(r, node) /\ res.empty = FALSE
  \/ /\ node.or = {} /\ ("true" \in Truths(r, node.not) \/ "false" \in Truths(r, node.and))
     /\ res.truth = "false" /\ res.node = EmptyNode
  \/ /\ node.or = {} /\ "true" \notin Truths(r, node.not) /\ "false" \notin Truths(r, node.and)
     /\ res.truth = "true" /\ res.node = EmptyNode
     /\ Kept(r, node.and) = {} /\ node.clauses \ {MatchAll} = {}
     /\ \A child \in Kept(r, node.not) : r[child].empty
  \/ /\ node.or = {} /\ "true" \notin Truths(r, node.not) /\ "false" \notin Truths(r, node.and)
     /\ res.truth = "expression" /\ res.node = AndLeft(r, node) /\ res.empty = FALSE
     /\ ~(Kept(r, node.and) = {} /\ node.clauses \ {MatchAll} = {} /\ Kept(r, node.not) = {})

LEMMA SimplifyCases ==
  ASSUME NEW r, NEW node \in NodeType
  PROVE  Becomes(r, node, SimplifyNode(r, node))
<1> DEFINE out  == Node({}, Kept(r, node.not), node.clauses \ {MatchAll}, Kept(r, node.and))
           orOut == Node(Kept(r, node.or), {}, {}, {})
<1>1. Kept(r, node.or) # {} => Expression(r, orOut).empty = FALSE
  BY DEF Expression, Truth, NodeIsEmpty, Node
<1>2. Expression(r, out).empty \in BOOLEAN
  BY DEF Expression, Truth, NodeIsEmpty
<1>3. Expression(r, out).empty =>
        /\ Kept(r, node.and) = {} /\ node.clauses \ {MatchAll} = {}
        /\ \A child \in Kept(r, node.not) : r[child].empty
  BY DEF Expression, Truth, NodeIsEmpty, Node
<1>4. Kept(r, node.and) = {} /\ node.clauses \ {MatchAll} = {} /\ Kept(r, node.not) = {} => Expression(r, out).empty
  BY DEF Expression, Truth, NodeIsEmpty, Node
<1>5. /\ True.truth = "true" /\ True.node = EmptyNode
      /\ False.truth = "false" /\ False.node = EmptyNode
      /\ \A x : Expression(r, x).truth = "expression" /\ Expression(r, x).node = x
  BY DEF True, False, Expression, Truth
<1>6. SimplifyNode(r, node) =
        IF node.or # {}
        THEN IF "true" \in Truths(r, node.or) THEN True
             ELSE IF Kept(r, node.or) = {} THEN False
             ELSE Expression(r, orOut)
        ELSE IF "true" \in Truths(r, node.not) \/ "false" \in Truths(r, node.and) THEN False
        ELSE IF Expression(r, out).empty THEN True
        ELSE Expression(r, out)
  BY DEF SimplifyNode, SimplifyOr
<1>7. out = AndLeft(r, node) /\ orOut = OrLeft(r, node)
  BY DEF AndLeft, OrLeft
<1> HIDE DEF out, orOut
<1> QED
  BY <1>1, <1>2, <1>3, <1>4, <1>5, <1>6, <1>7 DEF Becomes

\* What simplification leaves of a selector, and the truth it finds at a node,
\* agree with the evaluator.
LEMMA SimplifyAgrees ==
  ASSUME NEW sel, IsSelector(sel), NEW holds, MatchAll \in holds,
         NEW result, result = SimplifyNodes(sel),
         NEW simp, simp = [i \in DOMAIN sel |-> result[i].node]
  PROVE  /\ IsSelector(simp) /\ Len(simp) = Len(sel)
         /\ \A i \in 1..Len(sel) :
              /\ simp[i].clauses \subseteq Clauses
              /\ result[i].truth \in {"true", "false", "expression"}
              /\ result[i].truth = "true" => EvalNodes(sel, holds)[i]
              /\ result[i].truth = "false" => ~EvalNodes(sel, holds)[i]
              /\ result[i].truth = "expression" => /\ EvalNodes(simp, holds)[i] <=> EvalNodes(sel, holds)[i]
                                                   /\ ~EmptyNodes(simp)[i]
<1> DEFINE n == Len(sel)
           eval == EvalNodes(sel, holds)
           left == EvalNodes(simp, holds)
           empty == EmptyNodes(simp)
           truth(i) == result[i].truth
<1>1. n \in Nat /\ n > 0 /\ DOMAIN sel = 1..n /\ \A i \in 1..n : sel[i] \in NodeType
  BY SelectorFacts
<1>2. \A i \in 1..n : /\ sel[i].or \subseteq 1..(i - 1) /\ sel[i].not \subseteq 1..(i - 1)
                      /\ sel[i].and \subseteq 1..(i - 1) /\ sel[i].clauses \subseteq Clauses \cup {MatchAll}
  BY SelectorFacts
<1>3. \A i \in 1..n : result[i] = SimplifyNode(Smaller(result, i), sel[i]) /\ result[i] \in Results
  BY <1>1, SimplifyDef
<1>4. \A i \in 1..n : simp[i] = result[i].node /\ simp[i] \in NodeType
  BY <1>1, <1>3 DEF Results
<1>5. simp \in Seq(NodeType) /\ Len(simp) = n /\ DOMAIN simp = 1..n
  BY <1>1, <1>4
<1>6. ASSUME NEW i \in 1..n, NEW kids, kids \subseteq 1..(i - 1)
      PROVE  /\ Kept(Smaller(result, i), kids) = {child \in kids : truth(child) = "expression"}
             /\ \A t : t \in Truths(Smaller(result, i), kids) <=> \E child \in kids : truth(child) = t
  BY <1>6 DEF Kept, Truths, Smaller
<1>7. ASSUME NEW i \in 1..n
      PROVE  /\ simp[i].or \cup simp[i].not \cup simp[i].and \subseteq 1..(i - 1)
             /\ simp[i].clauses \subseteq Clauses
  <2> DEFINE r == Smaller(result, i)
  <2>1. Becomes(r, sel[i], result[i])
    BY <1>1, <1>3, SimplifyCases
  <2>2. simp[i] = EmptyNode \/ simp[i] = OrLeft(r, sel[i]) \/ simp[i] = AndLeft(r, sel[i])
    BY <1>4, <2>1 DEF Becomes
  <2>3. \A kids : Kept(r, kids) \subseteq kids
    BY DEF Kept
  <2> HIDE DEF r
  <2> QED
    BY <1>2, <2>2, <2>3 DEF EmptyNode, OrLeft, AndLeft, Node
<1>8. IsSelector(simp)
  BY <1>1, <1>5, <1>7 DEF IsSelector
<1>9. /\ \A i \in 1..n : eval[i] = EvalAt(sel, holds, eval, i)
      /\ \A i \in 1..n : left[i] = EvalAt(simp, holds, left, i)
      /\ \A i \in 1..n : empty[i] = EmptyAt(simp, empty, i)
  <2>1. eval = [i \in 1..n |-> EvalAt(sel, holds, eval, i)]
    BY <1>1, EvalDef
  <2>2. left = [i \in 1..n |-> EvalAt(simp, holds, left, i)]
    BY <1>5, <1>8, EvalDef
  <2>3. empty = [i \in 1..n |-> EmptyAt(simp, empty, i)]
    BY <1>5, <1>8, EmptyDef
  <2> HIDE DEF eval, left, empty, n
  <2> QED
    BY <2>1, <2>2, <2>3
<1> HIDE DEF eval, left, empty
<1> DEFINE G(i) == /\ truth(i) = "true" => eval[i]
                   /\ truth(i) = "false" => ~eval[i]
                   /\ truth(i) = "expression" => (left[i] <=> eval[i]) /\ ~empty[i] /\ ~result[i].empty
           Good == {i \in 1..n : G(i)}
<1>10. ASSUME NEW i \in 1..n, \A j \in 1..(i - 1) : j \in Good PROVE i \in Good
  <2> DEFINE r == Smaller(result, i)
             node == sel[i]
             res == result[i]
  <2>1. \A j \in 1..(i - 1) : G(j) /\ truth(j) \in {"true", "false", "expression"} /\ r[j] = result[j]
    <3>1. ASSUME NEW j \in 1..(i - 1) PROVE G(j) /\ truth(j) \in {"true", "false", "expression"} /\ r[j] = result[j]
      <4>1. j \in 1..n /\ j \in Good
        BY <1>10
      <4> QED
        BY <1>3, <4>1 DEF Results, Smaller
    <3> QED
      BY <3>1
  <2>2. /\ node.or \subseteq 1..(i - 1) /\ node.not \subseteq 1..(i - 1) /\ node.and \subseteq 1..(i - 1)
        /\ node.clauses \subseteq Clauses \cup {MatchAll} /\ node \in NodeType
    BY <1>1, <1>2
  <2>3. /\ Kept(r, node.or) = {child \in node.or : truth(child) = "expression"}
        /\ Kept(r, node.not) = {child \in node.not : truth(child) = "expression"}
        /\ Kept(r, node.and) = {child \in node.and : truth(child) = "expression"}
        /\ "true" \in Truths(r, node.or) <=> \E child \in node.or : truth(child) = "true"
        /\ "true" \in Truths(r, node.not) <=> \E child \in node.not : truth(child) = "true"
        /\ "false" \in Truths(r, node.and) <=> \E child \in node.and : truth(child) = "false"
    BY <1>6, <2>2
  <2>4. res = SimplifyNode(r, node) /\ simp[i] = res.node
    BY <1>3, <1>4
  <2>5. /\ eval[i] <=> EvalAt(sel, holds, eval, i)
        /\ left[i] <=> EvalAt(simp, holds, left, i)
        /\ empty[i] <=> EmptyAt(simp, empty, i)
    BY <1>9
  <2> HIDE DEF r
  <2>a. CASE node.or # {} /\ "true" \in Truths(r, node.or) /\ res.truth = "true"
    BY <2>a, <2>1, <2>2, <2>3, <2>5 DEF EvalAt
  <2>b. CASE node.or # {} /\ "true" \notin Truths(r, node.or) /\ Kept(r, node.or) = {} /\ res.truth = "false"
    BY <2>b, <2>1, <2>2, <2>3, <2>5 DEF EvalAt
  <2>c. CASE /\ node.or # {} /\ "true" \notin Truths(r, node.or) /\ Kept(r, node.or) # {}
             /\ res.truth = "expression" /\ res.node = OrLeft(r, node) /\ res.empty = FALSE
    <3>1. simp[i].or = Kept(r, node.or) /\ simp[i].or # {}
      BY <2>4, <2>c DEF OrLeft, Node
    <3>2. left[i] <=> \E child \in Kept(r, node.or) : left[child]
      BY <2>5, <3>1 DEF EvalAt
    <3>3. eval[i] <=> \E child \in node.or : eval[child]
      BY <2>5, <2>c DEF EvalAt
    <3>4. left[i] <=> eval[i]
      BY <2>1, <2>2, <2>3, <2>c, <3>2, <3>3
    <3>5. ~empty[i]
      BY <2>5, <3>1 DEF EmptyAt, NodeIsEmpty
    <3> QED
      BY <2>c, <3>4, <3>5
  <2>d. CASE node.or = {} /\ ("true" \in Truths(r, node.not) \/ "false" \in Truths(r, node.and)) /\ res.truth = "false"
    <3>1. eval[i] => (\A child \in node.not : ~eval[child]) /\ (\A child \in node.and : eval[child])
      BY <2>5, <2>d DEF EvalAt
    <3> QED
      BY <2>1, <2>2, <2>3, <2>d, <3>1
  <2>e. CASE /\ node.or = {} /\ "true" \notin Truths(r, node.not) /\ "false" \notin Truths(r, node.and)
             /\ res.truth = "true" /\ Kept(r, node.and) = {} /\ node.clauses \ {MatchAll} = {}
             /\ \A child \in Kept(r, node.not) : r[child].empty
    <3>1. ASSUME NEW child \in node.not PROVE ~eval[child]
      <4>1. child \in 1..(i - 1) /\ truth(child) # "true"
        BY <2>2, <2>3, <2>e
      <4>2. truth(child) = "expression" => r[child].empty
        BY <2>3, <2>e
      <4> QED
        BY <2>1, <4>1, <4>2
    <3>2. ASSUME NEW child \in node.and PROVE eval[child]
      <4>1. child \in 1..(i - 1) /\ truth(child) # "false" /\ truth(child) # "expression"
        BY <2>2, <2>3, <2>e
      <4> QED
        BY <2>1, <4>1
    <3>3. node.clauses \subseteq holds
      BY <2>e
    <3>4. eval[i]
      BY <2>5, <2>e, <3>1, <3>2, <3>3 DEF EvalAt
    <3> QED
      BY <2>e, <3>4
  <2>f. CASE /\ node.or = {} /\ "true" \notin Truths(r, node.not) /\ "false" \notin Truths(r, node.and)
             /\ res.truth = "expression" /\ res.node = AndLeft(r, node) /\ res.empty = FALSE
             /\ ~(Kept(r, node.and) = {} /\ node.clauses \ {MatchAll} = {} /\ Kept(r, node.not) = {})
    <3>1. /\ simp[i].or = {} /\ simp[i].not = Kept(r, node.not) /\ simp[i].and = Kept(r, node.and)
          /\ simp[i].clauses = node.clauses \ {MatchAll}
      BY <2>4, <2>f DEF AndLeft, Node
    <3>2. left[i] <=> /\ \A child \in Kept(r, node.not) : ~left[child]
                      /\ node.clauses \ {MatchAll} \subseteq holds
                      /\ \A child \in Kept(r, node.and) : left[child]
      BY <2>5, <3>1 DEF EvalAt
    <3>3. eval[i] <=> /\ \A child \in node.not : ~eval[child]
                      /\ node.clauses \subseteq holds
                      /\ \A child \in node.and : eval[child]
      BY <2>5, <2>f DEF EvalAt
    <3>4. (\A child \in Kept(r, node.not) : ~left[child]) <=> \A child \in node.not : ~eval[child]
      BY <2>1, <2>2, <2>3, <2>f
    <3>5. (\A child \in Kept(r, node.and) : left[child]) <=> \A child \in node.and : eval[child]
      BY <2>1, <2>2, <2>3, <2>f
    <3>6. node.clauses \ {MatchAll} \subseteq holds <=> node.clauses \subseteq holds
      OBVIOUS
    <3>7. left[i] <=> eval[i]
      BY <3>2, <3>3, <3>4, <3>5, <3>6
    <3>8. \A child \in Kept(r, node.not) : ~empty[child]
      BY <2>1, <2>2, <2>3
    <3>9. ~empty[i]
      BY <2>5, <2>f, <3>1, <3>8 DEF EmptyAt, NodeIsEmpty
    <3> QED
      BY <2>f, <3>7, <3>9
  <2>7. Becomes(r, node, res)
    BY <2>2, <2>4, SimplifyCases
  <2> HIDE DEF G, Good, node, res
  <2> QED
    BY <2>7, <2>a, <2>b, <2>c, <2>d, <2>e, <2>f DEF Becomes
<1>11. \A i \in 1..n : i \in Good
  <2> HIDE DEF Good
  <2> QED
    BY <1>1, <1>10, NodeInduction
<1> QED
  BY <1>3, <1>5, <1>7, <1>8, <1>11 DEF eval, left, empty, Results

\* What a program cannot become once more hits are set.
LEMMA FutureSound ==
  ASSUME NEW sel, IsSelector(sel), NEW set, NEW more, set \subseteq more,
         NEW future, future = FutureNodes(BuildSelectorProgram(sel), set)
  PROVE  \A i \in 1..Len(sel) : /\ EvalNodes(sel, more)[i] => future[i].canTrue
                                /\ ~EvalNodes(sel, more)[i] => future[i].canFalse
<1> DEFINE n == Len(sel)
           eval == EvalNodes(sel, more)
           Good == {i \in 1..n : (eval[i] => future[i].canTrue) /\ (~eval[i] => future[i].canFalse)}
<1>1. n \in Nat /\ DOMAIN sel = 1..n
  BY SelectorFacts
<1>2. \A i \in 1..n : future[i] = FutureAt(sel, set, future, i)
  BY <1>1, FutureDef
<1>3. \A i \in 1..n : eval[i] = EvalAt(sel, more, eval, i)
  BY <1>1, EvalDef
<1> HIDE DEF eval
<1>4. ASSUME NEW i \in 1..n, \A j \in 1..(i - 1) : j \in Good PROVE i \in Good
  <2>1. \A j \in sel[i].or \cup sel[i].not \cup sel[i].and :
          (eval[j] => future[j].canTrue) /\ (~eval[j] => future[j].canFalse)
    BY <1>4, SelectorFacts
  <2>2. CASE sel[i].or # {}
    <3>1. /\ future[i].canTrue <=> \E branch \in sel[i].or : future[branch].canTrue
          /\ future[i].canFalse <=> \A branch \in sel[i].or : future[branch].canFalse
      <4> DEFINE t == \E branch \in sel[i].or : future[branch].canTrue
                 f == \A branch \in sel[i].or : future[branch].canFalse
      <4>1. future[i] = [canTrue |-> t, canFalse |-> f]
        BY <1>2, <2>2 DEF FutureAt
      <4> HIDE DEF t, f
      <4>2. future[i].canTrue = t /\ future[i].canFalse = f
        BY <4>1
      <4> QED
        BY <4>2 DEF t, f
    <3>2. eval[i] <=> \E branch \in sel[i].or : eval[branch]
      BY <1>3, <2>2 DEF EvalAt
    <3> QED
      BY <2>1, <3>1, <3>2
  <2>3. CASE sel[i].or = {}
    <3>1. /\ future[i].canTrue <=> /\ \A child \in sel[i].not : future[child].canFalse
                                   /\ \A child \in sel[i].and : future[child].canTrue
          /\ future[i].canFalse <=> \/ \E child \in sel[i].not : future[child].canTrue
                                    \/ \E child \in sel[i].and : future[child].canFalse
                                    \/ sel[i].clauses \ set # {}
      <4> DEFINE t == /\ \A child \in sel[i].not : future[child].canFalse
                      /\ \A child \in sel[i].and : future[child].canTrue
                 f == \/ \E child \in sel[i].not : future[child].canTrue
                      \/ \E child \in sel[i].and : future[child].canFalse
                      \/ sel[i].clauses \ set # {}
      <4>1. future[i] = [canTrue |-> t, canFalse |-> f]
        BY <1>2, <2>3 DEF FutureAt
      <4> HIDE DEF t, f
      <4>2. future[i].canTrue = t /\ future[i].canFalse = f
        BY <4>1
      <4> QED
        BY <4>2 DEF t, f
    <3>2. eval[i] <=> /\ \A child \in sel[i].not : ~eval[child]
                      /\ sel[i].clauses \subseteq more
                      /\ \A child \in sel[i].and : eval[child]
      BY <1>3, <2>3 DEF EvalAt
    <3>3. ~(sel[i].clauses \subseteq more) => sel[i].clauses \ set # {}
      OBVIOUS
    <3> QED
      BY <2>1, <3>1, <3>2, <3>3
  <2> QED
    BY <2>2, <2>3
<1>5. \A i \in 1..n : i \in Good
  <2> HIDE DEF Good
  <2> QED
    BY <1>1, <1>4, NodeInduction
<1> QED
  BY <1>5 DEF eval

\* A clause that a selector does not have does not matter to it.
LEMMA EvalSame ==
  ASSUME NEW sel, IsSelector(sel), NEW one, NEW two,
         \A i \in 1..Len(sel) : sel[i].clauses \subseteq one <=> sel[i].clauses \subseteq two
  PROVE  \A i \in 1..Len(sel) : EvalNodes(sel, one)[i] = EvalNodes(sel, two)[i]
<1> DEFINE n == Len(sel)
           left == EvalNodes(sel, one)
           right == EvalNodes(sel, two)
           Good == {i \in 1..n : left[i] = right[i]}
<1>1. n \in Nat /\ DOMAIN sel = 1..n
  BY SelectorFacts
<1>2. \A i \in 1..n : left[i] = EvalAt(sel, one, left, i) /\ right[i] = EvalAt(sel, two, right, i)
  <2>1. /\ left = [i \in 1..n |-> EvalAt(sel, one, left, i)]
        /\ right = [i \in 1..n |-> EvalAt(sel, two, right, i)]
    BY <1>1, EvalDef
  <2> HIDE DEF left, right, n
  <2> QED
    BY <2>1
<1> HIDE DEF left, right
<1>3. ASSUME NEW i \in 1..n, \A j \in 1..(i - 1) : j \in Good PROVE i \in Good
  <2>1. \A j \in sel[i].or \cup sel[i].not \cup sel[i].and : left[j] = right[j]
    BY <1>3, SelectorFacts
  <2>2. EvalAt(sel, one, left, i) = EvalAt(sel, two, right, i)
    BY <2>1 DEF EvalAt
  <2> QED
    BY <1>2, <2>2
<1>4. \A i \in 1..n : i \in Good
  <2> HIDE DEF Good
  <2> QED
    BY <1>1, <1>3, NodeInduction
<1> QED
  BY <1>4 DEF left, right

\* The evaluator gives truths.
LEMMA EvalTyped ==
  ASSUME NEW sel, IsSelector(sel), NEW holds
  PROVE  \A i \in 1..Len(sel) : EvalNodes(sel, holds)[i] \in BOOLEAN /\ EmptyNodes(sel)[i] \in BOOLEAN
<1>1. DOMAIN sel = 1..Len(sel)
  BY SelectorFacts
<1>2. \A i \in 1..Len(sel) : EvalNodes(sel, holds)[i] = EvalAt(sel, holds, EvalNodes(sel, holds), i)
  BY <1>1, EvalDef
<1>3. \A i \in 1..Len(sel) : EmptyNodes(sel)[i] = EmptyAt(sel, EmptyNodes(sel), i)
  BY <1>1, EmptyDef
<1> QED
  BY <1>2, <1>3 DEF EvalAt, EmptyAt, NodeIsEmpty

\* The empty selector holds in every document, and the one that simplification
\* leaves of a selector that is never true in none.
LEMMA EmptyHolds ==
  ASSUME NEW holds
  PROVE  IsSelector(Empty) /\ Len(Empty) = 1 /\ Eval(Empty, holds) /\ IsEmpty(Empty)
<1>1. EmptyNode \in NodeType
  BY DEF EmptyNode, Node, NodeType
<1>2. Empty \in Seq(NodeType) /\ Len(Empty) = 1 /\ DOMAIN Empty = {1} /\ Empty[1] = EmptyNode
  BY <1>1 DEF Empty
<1>3. EmptyNode.or = {} /\ EmptyNode.not = {} /\ EmptyNode.and = {} /\ EmptyNode.clauses = {}
  BY DEF EmptyNode, Node
<1>4. IsSelector(Empty)
  <2>1. Empty # <<>>
    BY DEF Empty
  <2> QED
    BY <1>2, <1>3, <2>1 DEF IsSelector
<1>5. /\ EvalNodes(Empty, holds)[1] = EvalAt(Empty, holds, EvalNodes(Empty, holds), 1)
      /\ EmptyNodes(Empty)[1] = EmptyAt(Empty, EmptyNodes(Empty), 1)
  <2>1. EvalNodes(Empty, holds) = [i \in {1} |-> EvalAt(Empty, holds, EvalNodes(Empty, holds), i)]
    BY <1>2, <1>4, EvalDef
  <2>2. EmptyNodes(Empty) = [i \in {1} |-> EmptyAt(Empty, EmptyNodes(Empty), i)]
    BY <1>2, <1>4, EmptyDef
  <2> QED
    BY <2>1, <2>2
<1> QED
  BY <1>2, <1>3, <1>4, <1>5 DEF Eval, IsEmpty, Root, EvalAt, EmptyAt, NodeIsEmpty

LEMMA AlwaysFalseFails ==
  ASSUME NEW holds
  PROVE  /\ IsSelector(AlwaysFalse) /\ Len(AlwaysFalse) = 3
         /\ ~Eval(AlwaysFalse, holds) /\ ~IsEmpty(AlwaysFalse)
         /\ \A i \in 1..3 : AlwaysFalse[i].clauses = {}
<1> DEFINE sel == AlwaysFalse
           eval == EvalNodes(sel, holds)
           empty == EmptyNodes(sel)
<1>1. /\ sel[1] = EmptyNode /\ sel[2] = Node({}, {1}, {}, {}) /\ sel[3] = Node({}, {}, {}, {2})
      /\ Len(sel) = 3 /\ DOMAIN sel = 1..3 /\ sel # <<>>
  BY DEF AlwaysFalse
<1>2. EmptyNode \in NodeType /\ Node({}, {1}, {}, {}) \in NodeType /\ Node({}, {}, {}, {2}) \in NodeType
  BY DEF EmptyNode, Node, NodeType
<1>3. sel \in Seq(NodeType)
  BY <1>2 DEF AlwaysFalse
<1>4. /\ sel[1].or = {} /\ sel[1].not = {} /\ sel[1].and = {} /\ sel[1].clauses = {}
      /\ sel[2].or = {} /\ sel[2].not = {1} /\ sel[2].and = {} /\ sel[2].clauses = {}
      /\ sel[3].or = {} /\ sel[3].not = {} /\ sel[3].and = {2} /\ sel[3].clauses = {}
  BY <1>1 DEF EmptyNode, Node
<1>5. \A i \in 1..3 : i = 1 \/ i = 2 \/ i = 3
  OBVIOUS
<1> HIDE DEF sel
<1>6. IsSelector(sel)
  <2>1. ASSUME NEW i \in 1..3 PROVE sel[i].or \cup sel[i].not \cup sel[i].and \subseteq 1..(i - 1)
    BY <1>4, <1>5
  <2> QED
    BY <1>1, <1>3, <2>1 DEF IsSelector
<1>7. \A i \in 1..3 : eval[i] = EvalAt(sel, holds, eval, i) /\ empty[i] = EmptyAt(sel, empty, i)
  <2>1. eval = [i \in 1..3 |-> EvalAt(sel, holds, eval, i)] /\ empty = [i \in 1..3 |-> EmptyAt(sel, empty, i)]
    BY <1>1, <1>6, EvalDef, EmptyDef
  <2> HIDE DEF eval, empty
  <2> QED
    BY <2>1
<1> HIDE DEF eval, empty
<1>8. /\ eval[1] = EvalAt(sel, holds, eval, 1) /\ eval[2] = EvalAt(sel, holds, eval, 2)
      /\ eval[3] = EvalAt(sel, holds, eval, 3) /\ empty[3] = EmptyAt(sel, empty, 3)
  BY <1>7
<1>9. eval[1]
  <2>1. EvalAt(sel, holds, eval, 1)
    BY <1>4 DEF EvalAt
  <2> QED
    BY <1>8, <2>1
<1>10. ~eval[2]
  <2>1. EvalAt(sel, holds, eval, 2) = FALSE
    BY <1>4, <1>9 DEF EvalAt
  <2> QED
    BY <1>8, <2>1
<1>11. ~eval[3]
  <2>1. EvalAt(sel, holds, eval, 3) = FALSE
    BY <1>4, <1>10 DEF EvalAt
  <2> QED
    BY <1>8, <2>1
<1>12. ~empty[3]
  <2>1. EmptyAt(sel, empty, 3) = FALSE
    BY <1>4 DEF EmptyAt, NodeIsEmpty
  <2> QED
    BY <1>8, <2>1
<1> QED
  BY <1>1, <1>4, <1>5, <1>6, <1>11, <1>12 DEF Eval, IsEmpty, Root, sel, eval, empty

\* A simplified selector is true of the same documents, where the clause that
\* simplifySelector takes for true holds, and empty only if that is all of them.
LEMMA SimplifySound ==
  ASSUME NEW sel, IsSelector(sel), NEW holds, MatchAll \in holds,
         NEW simple, simple = SimplifySelector(sel)
  PROVE  /\ IsSelector(simple)
         /\ \A i \in 1..Len(simple) : simple[i].clauses \subseteq Clauses
         /\ Eval(simple, holds) <=> Eval(sel, holds)
         /\ IsEmpty(simple) => Eval(sel, holds)
<1> DEFINE result == SimplifyNodes(sel)
           simp == [i \in DOMAIN sel |-> result[i].node]
           root == Len(sel)
<1>1. root \in 1..Len(sel)
  BY SelectorFacts
<1>2. /\ IsSelector(simp) /\ Len(simp) = Len(sel)
      /\ \A i \in 1..Len(sel) :
           /\ simp[i].clauses \subseteq Clauses
           /\ result[i].truth \in {"true", "false", "expression"}
           /\ result[i].truth = "true" => EvalNodes(sel, holds)[i]
           /\ result[i].truth = "false" => ~EvalNodes(sel, holds)[i]
           /\ result[i].truth = "expression" => /\ EvalNodes(simp, holds)[i] <=> EvalNodes(sel, holds)[i]
                                                /\ ~EmptyNodes(simp)[i]
  <2> HIDE DEF result
  <2> QED
    BY SimplifyAgrees DEF result
<1>3. simple = CASE result[root].truth = "true"  -> Empty
                 [] result[root].truth = "false" -> AlwaysFalse
                 [] OTHER -> simp
  BY DEF SimplifySelector, Root
<1> HIDE DEF result, simp
<1>4. CASE result[root].truth = "true"
  <2>1. simple = Empty
    BY <1>3, <1>4
  <2>2. EvalNodes(sel, holds)[root]
    BY <1>1, <1>2, <1>4
  <2>3. Len(simple) = 1 /\ simple[1].clauses = {}
    BY <2>1 DEF Empty, EmptyNode, Node
  <2> QED
    BY <2>1, <2>2, <2>3, EmptyHolds DEF Eval, Root
<1>5. CASE result[root].truth = "false"
  <2>1. simple = AlwaysFalse
    BY <1>3, <1>5
  <2>2. ~EvalNodes(sel, holds)[root]
    BY <1>1, <1>2, <1>5
  <2> QED
    BY <2>1, <2>2, AlwaysFalseFails DEF Eval, Root
<1>6. CASE result[root].truth = "expression"
  <2>1. simple = simp
    BY <1>3, <1>6
  <2>2. EvalNodes(simp, holds)[root] <=> EvalNodes(sel, holds)[root]
    BY <1>1, <1>2, <1>6
  <2>3. ~EmptyNodes(simp)[root]
    BY <1>1, <1>2, <1>6
  <2> QED
    BY <1>2, <2>1, <2>2, <2>3 DEF Eval, IsEmpty, Root
<1> QED
  BY <1>1, <1>2, <1>4, <1>5, <1>6

--------------------------------------------------------------------------------
(* Candidates.                                                                *)

\* The root of a program is that of its selector.
LEMMA ProgramRoot ==
  ASSUME NEW sel, IsSelector(sel)
  PROVE  Root(BuildSelectorProgram(sel)) = Len(sel) /\ Len(sel) \in 1..Len(sel)
<1> DEFINE prog == BuildSelectorProgram(sel)
           n == Len(sel)
<1>1. n \in Nat /\ n > 0 /\ DOMAIN sel = 1..n
  BY SelectorFacts
<1>2. \E f : prog = [i \in 1..n |-> f[i]]
  <2>1. prog = [i \in 1..n |-> prog[i]]
    BY <1>1 DEF BuildSelectorProgram
  <2> QED
    BY <2>1
<1> HIDE DEF prog, n
<1>3. Len(prog) = n
  BY <1>1, <1>2
<1> QED
  BY <1>1, <1>3 DEF Root, prog, n

\* The program judges hits as the evaluator judges a document.
LEMMA ProgramEval ==
  ASSUME NEW sel, IsSelector(sel), NEW set, set \subseteq Clauses,
         NEW simple, simple = SimplifySelector(sel)
  PROVE  /\ MatchProgram(BuildSelectorProgram(simple), set) = Eval(sel, set \cup {MatchAll})
         /\ Eval(sel, set \cup {MatchAll}) \in BOOLEAN /\ IsEmpty(simple) \in BOOLEAN
         /\ IsEmpty(simple) => Eval(sel, set \cup {MatchAll})
<1> DEFINE holds == set \cup {MatchAll}
<1>1. /\ IsSelector(simple) /\ \A i \in 1..Len(simple) : simple[i].clauses \subseteq Clauses
      /\ Eval(simple, holds) <=> Eval(sel, holds)
      /\ IsEmpty(simple) => Eval(sel, holds)
  BY SimplifySound
<1>2. Root(BuildSelectorProgram(simple)) = Len(simple) /\ Len(simple) \in 1..Len(simple)
  BY <1>1, ProgramRoot
<1>3. MatchProgram(BuildSelectorProgram(simple), set) = Eval(simple, set)
  BY <1>1, <1>2, MatchIsEval DEF MatchProgram, Eval, Root
<1>4. Eval(simple, set) = Eval(simple, holds)
  <2>1. \A i \in 1..Len(simple) : simple[i].clauses \subseteq set <=> simple[i].clauses \subseteq holds
    BY <1>1, ClausesAssumption
  <2>2. EvalNodes(simple, set)[Len(simple)] = EvalNodes(simple, holds)[Len(simple)]
    <3> HIDE DEF holds
    <3> QED
      BY <1>1, <1>2, <2>1, EvalSame
  <2> QED
    BY <2>2 DEF Eval, Root
<1>5. Eval(simple, holds) \in BOOLEAN /\ IsEmpty(simple) \in BOOLEAN
  BY <1>1, <1>2, EvalTyped DEF Eval, IsEmpty, Root
<1>6. Eval(sel, holds) \in BOOLEAN
  <2>1. Len(sel) \in 1..Len(sel)
    BY ProgramRoot
  <2> QED
    BY <2>1, EvalTyped DEF Eval, Root
<1> QED
  BY <1>1, <1>3, <1>4, <1>5, <1>6

\* What the program has given up cannot become true.
LEMMA ProgramFuture ==
  ASSUME NEW sel, IsSelector(sel), NEW set, set \subseteq Clauses,
         NEW simple, simple = SimplifySelector(sel),
         ~FuturePossibility(BuildSelectorProgram(simple), set).canTrue,
         NEW more, more \subseteq Clauses
  PROVE  ~Eval(sel, set \cup more \cup {MatchAll})
<1> DEFINE holds == set \cup more \cup {MatchAll}
<1>1. IsSelector(simple) /\ (Eval(simple, holds) <=> Eval(sel, holds))
  BY SimplifySound
<1>2. Root(BuildSelectorProgram(simple)) = Len(simple) /\ Len(simple) \in 1..Len(simple)
  BY <1>1, ProgramRoot
<1>3. ~FutureNodes(BuildSelectorProgram(simple), set)[Len(simple)].canTrue
  BY <1>2 DEF FuturePossibility
<1>4. ~EvalNodes(simple, holds)[Len(simple)]
  BY <1>1, <1>2, <1>3, FutureSound
<1> QED
  BY <1>1, <1>4 DEF Eval, Root

\* The engine is the compiled selector, the hits are what the candidate has
\* satisfied, and a selector that was given up stays impossible.
ProgramInv ==
  /\ selector \in Selectors
  /\ emptySelector = IsEmpty(SimplifySelector(selector))
  /\ program = BuildSelectorProgram(IF emptySelector THEN Empty ELSE SimplifySelector(selector))
  /\ satisfied \subseteq Clauses /\ rootIsObject \in BOOLEAN
  /\ ~emptySelector => hits = satisfied
  /\ captureDisabled =>
       \A more \in SUBSET Clauses : ~Eval(selector, satisfied \cup more \cup {MatchAll})
  /\ MatchAgrees

LEMMA ProgramInvariant == Spec => []ProgramInv
<1>1. Init => ProgramInv
  <2> SUFFICES ASSUME Init PROVE ProgramInv
    OBVIOUS
  <2>1. IsSelector(selector)
    BY SelectorsAssumption DEF Init
  <2>2. emptySelector => Eval(selector, satisfied \cup {MatchAll})
    BY <2>1, ProgramEval DEF Init
  <2> QED
    BY <2>2 DEF Init, ProgramInv, MatchAgrees
<1>2. ProgramInv /\ [Next]_vars => ProgramInv'
  <2> SUFFICES ASSUME ProgramInv, [Next]_vars PROVE ProgramInv'
    OBVIOUS
  <2> USE DEF ProgramInv
  <2>1. IsSelector(selector)
    BY SelectorsAssumption
  <2>2. emptySelector \in BOOLEAN
    BY <2>1, ProgramEval
  <2>3. \A set \in SUBSET Clauses : emptySelector => Eval(selector, set \cup {MatchAll})
    BY <2>1, ProgramEval
  <2>4. CASE Begin
    BY <2>3, <2>4 DEF Begin, engine, MatchAgrees
  <2>5. CASE Observe
    <3>1. satisfied' \subseteq Clauses /\ satisfied \subseteq satisfied' /\ (~emptySelector => hits' = satisfied')
      BY <2>5 DEF Observe
    <3>2. /\ UNCHANGED <<selector, program, emptySelector, pc, rootIsObject, matched>> /\ pc = "scan"
          /\ captureDisabled' => captureDisabled \/ (~emptySelector /\ ~CanStillMatchObjectRoot(hits'))
      BY <2>5 DEF Observe, engine
    <3>3. ASSUME captureDisabled', NEW more \in SUBSET Clauses
          PROVE  ~Eval(selector, satisfied' \cup more \cup {MatchAll})
      <4>1. CASE captureDisabled
        <5>1. satisfied' \cup more = satisfied \cup (satisfied' \cup more)
          BY <3>1
        <5>2. satisfied' \cup more \in SUBSET Clauses
          BY <3>1, <3>3
        <5> QED
          BY <4>1, <5>1, <5>2
      <4>2. CASE ~emptySelector /\ ~CanStillMatchObjectRoot(hits')
        <5>1. ~FuturePossibility(program, satisfied').canTrue
          BY <3>1, <4>2 DEF CanStillMatchObjectRoot
        <5>2. program = BuildSelectorProgram(SimplifySelector(selector))
          BY <4>2
        <5> QED
          BY <2>1, <3>1, <3>3, <5>1, <5>2, ProgramFuture
      <4> QED
        BY <3>2, <3>3, <4>1, <4>2
    <3>4. MatchAgrees'
      BY <2>3, <3>1, <3>2 DEF MatchAgrees
    <3> QED
      BY <3>1, <3>2, <3>3, <3>4
  <2>6. CASE Match
    <3>1. /\ UNCHANGED <<selector, program, emptySelector, rootIsObject, hits, captureDisabled, satisfied>>
          /\ matched' = (emptySelector \/ (rootIsObject /\ MatchProgram(program, hits)))
      BY <2>6 DEF Match, engine
    <3>2. Eval(selector, satisfied \cup {MatchAll}) \in BOOLEAN
      BY <2>1, ProgramEval
    <3>3. matched' = (IF rootIsObject THEN Eval(selector, satisfied \cup {MatchAll}) ELSE emptySelector)
      <4>1. CASE emptySelector
        BY <2>2, <2>3, <3>1, <3>2, <4>1
      <4>2. CASE ~emptySelector
        <5>1. MatchProgram(program, hits) = Eval(selector, satisfied \cup {MatchAll})
          BY <2>1, <4>2, ProgramEval
        <5> QED
          BY <2>2, <3>1, <3>2, <4>2, <5>1
      <4> QED
        BY <4>1, <4>2
    <3> QED
      BY <2>3, <3>1, <3>3 DEF MatchAgrees
  <2>7. CASE UNCHANGED vars
    BY <2>7 DEF vars, engine, MatchAgrees
  <2> QED
    BY <2>4, <2>5, <2>6, <2>7 DEF Next, Over
<1> QED
  BY <1>1, <1>2, PTL DEF Spec

\* Simplified, compiled and judged from the hits, every selector says of every
\* candidate what the evaluator says of its document, and a selector is taken
\* for the empty one only if it holds in all of them.
THEOREM ProgramAgrees == Spec => []MatchAgrees
<1>1. ProgramInv => MatchAgrees
  BY DEF ProgramInv
<1> QED
  BY <1>1, ProgramInvariant, PTL

\* Capture is given up only when nothing that may follow makes a match.
THEOREM PruningSound == Spec => []PruneLeavesNoMatch
<1>1. ProgramInv => PruneLeavesNoMatch
  BY DEF ProgramInv, PruneLeavesNoMatch
<1> QED
  BY <1>1, ProgramInvariant, PTL

\* What holds of 0, and of each number if of the one before it, holds up to n.
LEMMA UpTo ==
  ASSUME NEW n \in Nat, NEW Good, 0 \in Good,
         \A i \in 1..n : i - 1 \in Good => i \in Good
  PROVE  \A i \in 0..n : i \in Good
<1> DEFINE Bad == {i \in 0..n : i \notin Good}
<1>1. ASSUME Bad # {} PROVE FALSE
  <2>1. PICK i \in Bad : \A j \in Bad : i <= j
    <3>1. Bad \subseteq Nat
      OBVIOUS
    <3> HIDE DEF Bad
    <3> QED
      BY <1>1, <3>1, Least
  <2>2. i \in 0..n /\ i \notin Good /\ i # 0
    OBVIOUS
  <2>3. i - 1 \in 0..n /\ ~(i <= i - 1) /\ i \in 1..n
    BY <2>2
  <2>4. i - 1 \notin Bad
    BY <2>1, <2>3
  <2> QED
    BY <2>2, <2>3, <2>4
<1> QED
  BY <1>1

\* The values of a function, one after the other.
Stepwise(step, n, V) == \A i \in 1..n : step[i] \in [V -> V]
Follows(f, v, step, n) == f[0] = v /\ \A i \in 1..n : f[i] = step[i][f[i - 1]]

\* A function of steps, applied n times to v, exists.
LEMMA Iteration ==
  ASSUME NEW n \in Nat, NEW V, NEW v \in V, NEW step, Stepwise(step, n, V)
  PROVE  \E f \in [0..n -> V] : Follows(f, v, step, n)
<1> USE DEF Stepwise, Follows
<1> DEFINE Upto(f, k) == f[0] = v /\ \A i \in 1..k : f[i] = step[i][f[i - 1]]
           Good == {k \in 0..n : \E f \in [0..n -> V] : Upto(f, k)}
<1>1. 0 \in Good
  <2> DEFINE f == [i \in 0..n |-> v]
  <2>1. 0 \in 0..n /\ f \in [0..n -> V] /\ f[0] = v
    OBVIOUS
  <2> HIDE DEF f
  <2>2. Upto(f, 0)
    BY <2>1
  <2> QED
    BY <2>1, <2>2
<1>2. ASSUME NEW k \in 1..n, k - 1 \in Good PROVE k \in Good
  <2>1. PICK f \in [0..n -> V] : Upto(f, k - 1)
    BY <1>2
  <2> DEFINE g == [f EXCEPT ![k] = step[k][f[k - 1]]]
  <2>2. k - 1 \in 0..n /\ k \in 0..n
    OBVIOUS
  <2>3. step[k][f[k - 1]] \in V
    BY <2>2
  <2>4. g \in [0..n -> V] /\ g[k] = step[k][f[k - 1]] /\ \A i \in 0..(k - 1) : g[i] = f[i]
    BY <2>2, <2>3
  <2> HIDE DEF g
  <2>5. g[0] = v
    BY <2>1, <2>4
  <2>6. ASSUME NEW i \in 1..k PROVE g[i] = step[i][g[i - 1]]
    <3>1. CASE i = k
      BY <2>4, <3>1
    <3>2. CASE i # k
      <4>1. i \in 1..(k - 1) /\ i \in 0..(k - 1) /\ i - 1 \in 0..(k - 1)
        BY <3>2
      <4> QED
        BY <2>1, <2>4, <4>1
    <3> QED
      BY <3>1, <3>2
  <2> QED
    BY <2>2, <2>4, <2>5, <2>6
<1>3. n \in Good
  <2> HIDE DEF Good
  <2> QED
    BY <1>1, <1>2, UpTo
<1> QED
  BY <1>3 DEF Follows

--------------------------------------------------------------------------------
(* Paths on a decoded document.                                                *)

ReachedBelow(d, places, segment) ==
  IF segment = "..." THEN UNION {CollectDescendants(d, p) : p \in places}
  ELSE {q \in DOMAIN d \ {<<>>} : Front(q) \in places /\ Selects(segment, d[Front(q)], Last(q))}

\* What is reached by the first segments of a path, one segment after another.
LEMMA ReachedDef ==
  ASSUME NEW d, <<>> \in DOMAIN d, NEW path \in Seq(STRING)
  PROVE  \E f \in [0..Len(path) -> SUBSET DOMAIN d] :
           /\ ValuesAtPath(d, path) = f[Len(path)]
           /\ f[0] = {<<>>}
           /\ \A n \in 1..Len(path) : f[n] = ReachedBelow(d, f[n - 1], path[n])
<1> DEFINE n == Len(path)
           V == SUBSET DOMAIN d
           step == [i \in 1..n |-> [places \in V |-> ReachedBelow(d, places, path[i])]]
           body(f) == [i \in 0..n |-> IF i = 0 THEN {<<>>} ELSE ReachedBelow(d, f[i - 1], path[i])]
           reached == CHOOSE f : f = body(f)
<1>1. n \in Nat
  OBVIOUS
<1>2. \A places \in V, i \in 1..n : ReachedBelow(d, places, path[i]) \in V
  BY DEF ReachedBelow, CollectDescendants
<1> DEFINE start == {<<>>}
<1>3. start \in V /\ Stepwise(step, n, V)
  BY <1>2 DEF Stepwise
<1>4. PICK f \in [0..n -> V] : Follows(f, start, step, n)
  <2> HIDE DEF step, V, n, start
  <2> QED
    BY <1>1, <1>3, Iteration
<1>5. ASSUME NEW i \in 1..n PROVE f[i] = ReachedBelow(d, f[i - 1], path[i])
  <2>1. i - 1 \in 0..n
    BY <1>1
  <2>2. f[i - 1] \in V
    BY <1>4, <2>1
  <2>3. step[i][f[i - 1]] = ReachedBelow(d, f[i - 1], path[i])
    BY <2>2
  <2> QED
    BY <1>4, <2>3 DEF Follows
<1>6. f = body(f)
  <2> HIDE DEF V, step
  <2> QED
    BY <1>1, <1>4, <1>5 DEF Follows
<1>7. reached = body(reached)
  <2> HIDE DEF body
  <2> QED
    BY <1>6
<1>8. ValuesAtPath(d, path) = reached[n]
  BY DEF ValuesAtPath, ReachedBelow
<1> HIDE DEF reached, V, step
<1>9. reached[0] = {<<>>} /\ \A i \in 1..n : reached[i] = ReachedBelow(d, reached[i - 1], path[i])
  <2>1. ASSUME NEW i \in 0..n
        PROVE  reached[i] = IF i = 0 THEN {<<>>} ELSE ReachedBelow(d, reached[i - 1], path[i])
    <3>1. reached[i] = body(reached)[i]
      <4> HIDE DEF body
      <4> QED
        BY <1>7
    <3>2. body(reached)[i] = IF i = 0 THEN {<<>>} ELSE ReachedBelow(d, reached[i - 1], path[i])
      OBVIOUS
    <3> QED
      BY <3>1, <3>2
  <2> QED
    BY <1>1, <2>1
<1>10. \A i \in 0..n : reached[i] \in V
  <2> DEFINE Good == {i \in 0..n : reached[i] \in V}
  <2>1. 0 \in Good
    BY <1>1, <1>9 DEF V
  <2>2. \A i \in 1..n : i - 1 \in Good => i \in Good
    BY <1>1, <1>2, <1>9
  <2> HIDE DEF Good
  <2>3. \A i \in 0..n : i \in Good
    BY <1>1, <2>1, <2>2, UpTo
  <2> QED
    BY <2>3 DEF Good
<1>11. reached = [i \in 0..n |-> reached[i]]
  BY <1>7
<1>12. reached \in [0..n -> V]
  BY <1>10, <1>11
<1> QED
  BY <1>8, <1>9, <1>12 DEF V

--------------------------------------------------------------------------------
(* Paths in the stream: F[n] are the numbers of steps of a place that the      *)
(* first n tokens of a path can lead over.                                     *)

IsForward(F, path, place) ==
  /\ F \in [0..Len(path) -> SUBSET (0..Len(place))]
  /\ F[0] = {0}
  /\ \A n \in 1..Len(path), m \in 0..Len(place) :
       m \in F[n] <=> IF path[n] = "..." THEN \E k \in F[n - 1] : k <= m
                      ELSE m > 0 /\ m - 1 \in F[n - 1] /\ TokenMatches(path[n], place[m])

\* The positions of a place that are reached by the first segments of a path.
LEMMA ForwardExists ==
  ASSUME NEW path \in Seq(STRING), NEW place \in Seq(Steps)
  PROVE  \E F : IsForward(F, path, place)
<1> DEFINE n == Len(path)
           V == SUBSET (0..Len(place))
           Next_(i, before) == {m \in 0..Len(place) :
                                 IF path[i] = "..." THEN \E k \in before : k <= m
                                 ELSE m > 0 /\ m - 1 \in before /\ TokenMatches(path[i], place[m])}
           step == [i \in 1..n |-> [before \in V |-> Next_(i, before)]]
           start == {0}
<1>1. n \in Nat /\ Len(place) \in Nat
  OBVIOUS
<1>2. start \in V /\ Stepwise(step, n, V)
  BY <1>1 DEF Stepwise
<1>3. PICK f \in [0..n -> V] : Follows(f, start, step, n)
  <2> HIDE DEF step, V, n, start
  <2> QED
    BY <1>1, <1>2, Iteration
<1>4. ASSUME NEW i \in 1..n PROVE f[i] = Next_(i, f[i - 1])
  <2>1. i - 1 \in 0..n
    BY <1>1
  <2>2. f[i - 1] \in V
    BY <1>3, <2>1
  <2> HIDE DEF Next_
  <2>3. step[i][f[i - 1]] = Next_(i, f[i - 1])
    BY <2>2
  <2> QED
    BY <1>3, <2>3 DEF Follows
<1>5. IsForward(f, path, place)
  BY <1>3, <1>4 DEF IsForward, Follows
<1> QED
  BY <1>5

\* No "...": token by token.
LEMMA ForwardBefore ==
  ASSUME NEW path \in Seq(STRING), NEW place \in Seq(Steps), NEW F, IsForward(F, path, place),
         NEW r \in 0..Len(path), \A i \in 1..r : path[i] # "..."
  PROVE  \A n \in 0..r : \A m \in 0..Len(place) :
           m \in F[n] <=> m = n /\ \A i \in 1..n : TokenMatches(path[i], place[i])
<1> DEFINE Good == {n \in 0..r : \A m \in 0..Len(place) :
                      m \in F[n] <=> m = n /\ \A i \in 1..n : TokenMatches(path[i], place[i])}
<1>1. r \in Nat /\ Len(path) \in Nat /\ Len(place) \in Nat
  OBVIOUS
<1>2. 0 \in Good
  BY <1>1 DEF IsForward
<1>3. ASSUME NEW n \in 1..r, n - 1 \in Good PROVE n \in Good
  <2>1. n \in 1..Len(path) /\ path[n] # "..." /\ n - 1 \in 0..r
    BY <1>1
  <2>2. ASSUME NEW m \in 0..Len(place)
        PROVE  m \in F[n] <=> m = n /\ \A i \in 1..n : TokenMatches(path[i], place[i])
    <3>1. m \in F[n] <=> m > 0 /\ m - 1 \in F[n - 1] /\ TokenMatches(path[n], place[m])
      BY <2>1 DEF IsForward
    <3>2. m > 0 => (m - 1 \in F[n - 1] <=> m - 1 = n - 1 /\ \A i \in 1..(n - 1) : TokenMatches(path[i], place[i]))
      BY <1>1, <1>3
    <3>3. (\A i \in 1..n : TokenMatches(path[i], place[i]))
          <=> TokenMatches(path[n], place[n]) /\ \A i \in 1..(n - 1) : TokenMatches(path[i], place[i])
      <4>1. \A i \in 1..n : i = n \/ i \in 1..(n - 1)
        OBVIOUS
      <4>2. n \in 1..n /\ 1..(n - 1) \subseteq 1..n
        OBVIOUS
      <4> QED
        BY <4>1, <4>2
    <3> QED
      BY <3>1, <3>2, <3>3
  <2> QED
    BY <1>1, <2>1, <2>2
<1>4. \A n \in 0..r : n \in Good
  <2> HIDE DEF Good
  <2> QED
    BY <1>1, <1>2, <1>3, UpTo
<1> QED
  BY <1>4

\* Without ... the matcher of a plain path tells whether the end is reached.
LEMMA LinearForward ==
  ASSUME NEW path \in Seq(STRING), NEW place \in Seq(Steps), NEW F, IsForward(F, path, place),
         \A i \in DOMAIN path : path[i] # "..."
  PROVE  MatchesLinear(path, place) <=> Len(place) \in F[Len(path)]
<1>1. \A i \in 1..Len(path) : path[i] # "..."
  OBVIOUS
<1>2. Len(path) \in 0..Len(path) /\ Len(place) \in 0..Len(place) /\ DOMAIN path = 1..Len(path)
  OBVIOUS
<1>3. Len(place) \in F[Len(path)] <=> Len(place) = Len(path) /\ \A i \in 1..Len(path) : TokenMatches(path[i], place[i])
  BY <1>1, <1>2, ForwardBefore
<1> QED
  BY <1>2, <1>3 DEF MatchesLinear

\* One "...": what comes after it is compared with the end of the place.
LEMMA SingleForward ==
  ASSUME NEW path \in Seq(STRING), NEW place \in Seq(Steps), NEW F, IsForward(F, path, place),
         NEW r \in 1..Len(path), path[r] = "...", \A i \in 1..Len(path) : i # r => path[i] # "..."
  PROVE  MatchesSingleRecursive(path, place, r) <=> Len(place) \in F[Len(path)]
<1> DEFINE n == Len(path)
           l == Len(place)
           pre == \A i \in 1..r - 1 : i <= Len(place) /\ TokenMatches(path[i], place[i])
           post(k, m) == \A i \in 1..k : TokenMatches(path[r + i], place[m - k + i])
           Good == {k \in 0..(n - r) : \A m \in 0..l : m \in F[r + k] <=> m >= r - 1 + k /\ pre /\ post(k, m)}
<1>1. n \in Nat /\ l \in Nat /\ r \in 1..n
  OBVIOUS
<1>2. 0 \in Good
  <2>1. \A m \in 0..l : m \in F[r - 1] <=> m = r - 1 /\ \A i \in 1..(r - 1) : TokenMatches(path[i], place[i])
    <3>1. r - 1 \in 0..Len(path) /\ \A i \in 1..(r - 1) : path[i] # "..."
      BY <1>1
    <3> HIDE DEF n, l, pre, post, Good
    <3>2. PICK before \in 0..Len(path) : before = r - 1 /\ before \in 0..before
      BY <3>1
    <3>3. \A i \in 1..before : path[i] # "..."
      BY <3>1, <3>2
    <3>4. \A k \in 0..before : \A m \in 0..Len(place) :
            m \in F[k] <=> m = k /\ \A i \in 1..k : TokenMatches(path[i], place[i])
      BY <3>3, ForwardBefore
    <3> QED
      BY <3>2, <3>4 DEF l
  <2>2. F[r - 1] \subseteq 0..l
    <3>1. r - 1 \in 0..Len(path) /\ F \in [0..Len(path) -> SUBSET (0..Len(place))]
      BY <1>1 DEF IsForward
    <3> QED
      BY <3>1
  <2>3. ASSUME NEW m \in 0..l PROVE m \in F[r + 0] <=> m >= r - 1 + 0 /\ pre /\ post(0, m)
    <3>1. m \in F[r] <=> \E k \in F[r - 1] : k <= m
      BY <1>1 DEF IsForward
    <3>2. (\E k \in F[r - 1] : k <= m) <=> r - 1 <= m /\ \A i \in 1..(r - 1) : TokenMatches(path[i], place[i])
      BY <1>1, <2>1, <2>2
    <3>3. r - 1 <= m => (pre <=> \A i \in 1..(r - 1) : TokenMatches(path[i], place[i]))
      BY <1>1
    <3>4. post(0, m)
      OBVIOUS
    <3> HIDE DEF pre, post
    <3> QED
      BY <1>1, <3>1, <3>2, <3>3, <3>4
  <2> QED
    BY <1>1, <2>3
<1>3. ASSUME NEW k \in 1..(n - r), k - 1 \in Good PROVE k \in Good
  <2>1. k - 1 \in 0..(n - r) /\ r + k \in 1..n /\ r + k # r /\ r + k - 1 = r + (k - 1)
    BY <1>1
  <2>2. ASSUME NEW m \in 0..l PROVE m \in F[r + k] <=> m >= r - 1 + k /\ pre /\ post(k, m)
    <3>1. m \in F[r + k] <=> m > 0 /\ m - 1 \in F[r + (k - 1)] /\ TokenMatches(path[r + k], place[m])
      BY <2>1 DEF IsForward
    <3>2. m > 0 => (m - 1 \in F[r + (k - 1)] <=> m - 1 >= r - 1 + (k - 1) /\ pre /\ post(k - 1, m - 1))
      <4>1. \A j \in 0..l : j \in F[r + (k - 1)] <=> j >= r - 1 + (k - 1) /\ pre /\ post(k - 1, j)
        BY <1>3
      <4>2. m > 0 => m - 1 \in 0..l
        BY <1>1
      <4> HIDE DEF pre, post, l
      <4> QED
        BY <4>1, <4>2
    <3>3. post(k, m) <=> post(k - 1, m - 1) /\ TokenMatches(path[r + k], place[m])
      <4>1. \A i : (m - 1) - (k - 1) + i = m - k + i
        BY <1>1
      <4>2. m - k + k = m
        BY <1>1
      <4>3. \A i \in 1..k : i = k \/ i \in 1..(k - 1)
        BY <1>1
      <4>4. k \in 1..k /\ 1..(k - 1) \subseteq 1..k
        BY <1>1
      <4> QED
        BY <4>1, <4>2, <4>3, <4>4
    <3> HIDE DEF pre, post
    <3> QED
      BY <1>1, <3>1, <3>2, <3>3
  <2> QED
    BY <1>1, <2>2
<1>4. n - r \in Good
  <2>1. n - r \in Nat /\ n - r \in 0..(n - r)
    BY <1>1
  <2> HIDE DEF Good
  <2> QED
    BY <1>2, <1>3, <2>1, UpTo
<1>5. l \in F[n] <=> l >= n - 1 /\ pre /\ post(n - r, l)
  <2>1. \A m \in 0..l : m \in F[r + (n - r)] <=> m >= r - 1 + (n - r) /\ pre /\ post(n - r, m)
    BY <1>4
  <2>2. l \in 0..l /\ r + (n - r) = n /\ r - 1 + (n - r) = n - 1
    BY <1>1
  <2> HIDE DEF pre, post, l, n
  <2> QED
    BY <2>1, <2>2
<1>6. r = n => post(n - r, l)
  BY <1>1
<1>7. r = n /\ pre => l >= n - 1
  <2>1. ASSUME r = n, pre, n # 1 PROVE l >= n - 1
    <3>1. n - 1 \in 1..(r - 1)
      BY <1>1, <2>1
    <3> QED
      BY <2>1, <3>1
  <2> QED
    BY <1>1, <2>1
<1>8. l - (n - r) >= r - 1 <=> l >= n - 1
  BY <1>1
<1>9. MatchesSingleRecursive(path, place, r)
      <=> pre /\ (r < n => l - (n - r) >= r - 1 /\ post(n - r, l))
  BY DEF MatchesSingleRecursive
<1> HIDE DEF pre, post
<1> QED
  BY <1>1, <1>5, <1>6, <1>7, <1>8, <1>9

\* The row of a token in the table of streamPathMatchesRecursiveMemo.
MemoRow(path, place, i, after) ==
  IF i > Len(path) THEN {Len(place) + 1}
  ELSE IF path[i] = "..."
       THEN {j \in 1..Len(place) + 1 : i = Len(path) \/ \E k \in j..Len(place) + 1 : k \in after}
  ELSE {j \in 1..Len(place) : TokenMatches(path[i], place[j]) /\ j + 1 \in after}

\* The answers of the recursive matcher, from the last segment to the first.
LEMMA MemoDef ==
  ASSUME NEW path \in Seq(STRING), NEW place \in Seq(Steps)
  PROVE  \E f :
           /\ MatchesRecursiveMemo(path, place) <=> 1 \in f[1]
           /\ f[Len(path) + 1] = {Len(place) + 1}
           /\ \A i \in 1..Len(path) : f[i] = MemoRow(path, place, i, f[i + 1])
<1> DEFINE n == Len(path)
           V == SUBSET (1..Len(place) + 1)
           step == [i \in 1..n |-> [after \in V |-> MemoRow(path, place, n + 1 - i, after)]]
           start == {Len(place) + 1}
           body(f) == [i \in 1..n + 1 |-> MemoRow(path, place, i, f[i + 1])]
           match == CHOOSE f : f = body(f)
<1>1. n \in Nat /\ Len(place) \in Nat
  OBVIOUS
<1>2. \A i \in 1..n, after \in V : MemoRow(path, place, i, after) \in V
  BY <1>1 DEF MemoRow
<1>3. start \in V /\ Stepwise(step, n, V)
  <2>1. \A i \in 1..n : n + 1 - i \in 1..n
    BY <1>1
  <2>2. start \in V
    BY <1>1
  <2> HIDE DEF V
  <2> QED
    BY <1>2, <2>1, <2>2 DEF Stepwise
<1>4. PICK g \in [0..n -> V] : Follows(g, start, step, n)
  <2> HIDE DEF step, V, n, start
  <2> QED
    BY <1>1, <1>3, Iteration
<1>5. ASSUME NEW i \in 1..n PROVE g[i] = MemoRow(path, place, n + 1 - i, g[i - 1])
  <2>1. i - 1 \in 0..n
    BY <1>1
  <2>2. g[i - 1] \in V
    BY <1>4, <2>1
  <2>3. step[i][g[i - 1]] = MemoRow(path, place, n + 1 - i, g[i - 1])
    BY <2>2
  <2> QED
    BY <1>4, <2>3 DEF Follows
<1> DEFINE w == [i \in 1..n + 1 |-> g[n + 1 - i]]
<1>6. ASSUME NEW i \in 1..n + 1 PROVE w[i] = MemoRow(path, place, i, w[i + 1])
  <2>1. w[i] = g[n + 1 - i]
    OBVIOUS
  <2>2. CASE i = n + 1
    <3>1. g[0] = start /\ n + 1 - i = 0 /\ i > Len(path)
      BY <1>1, <1>4, <2>2 DEF Follows
    <3> HIDE DEF w
    <3> QED
      BY <2>1, <3>1 DEF MemoRow
  <2>3. CASE i # n + 1
    <3>1. i + 1 \in 1..n + 1 /\ n + 1 - i \in 1..n /\ n + 1 - (n + 1 - i) = i /\ n + 1 - i - 1 = n + 1 - (i + 1)
      BY <1>1, <2>3
    <3>2. w[i + 1] = g[n + 1 - (i + 1)]
      BY <3>1
    <3>3. g[n + 1 - i] = MemoRow(path, place, n + 1 - (n + 1 - i), g[n + 1 - i - 1])
      <4> HIDE DEF w, step
      <4> QED
        BY <1>5, <3>1
    <3>4. g[n + 1 - i] = MemoRow(path, place, i, g[n + 1 - (i + 1)])
      <4> HIDE DEF w, step, n
      <4> QED
        BY <3>1, <3>3
    <3> HIDE DEF w
    <3> QED
      BY <2>1, <3>2, <3>4
  <2> QED
    BY <2>2, <2>3
<1>7. w = body(w)
  <2>1. w = [i \in 1..n + 1 |-> w[i]]
    OBVIOUS
  <2> HIDE DEF w
  <2> QED
    BY <1>6, <2>1
<1>8. match = body(match)
  <2> HIDE DEF body, w
  <2> QED
    BY <1>7
<1>9. MatchesRecursiveMemo(path, place) <=> 1 \in match[1]
  BY DEF MatchesRecursiveMemo, MemoRow
<1> HIDE DEF match
<1>10. ASSUME NEW i \in 1..n + 1 PROVE match[i] = MemoRow(path, place, i, match[i + 1])
  <2>1. match[i] = body(match)[i]
    <3> HIDE DEF body
    <3> QED
      BY <1>8
  <2>2. body(match)[i] = MemoRow(path, place, i, match[i + 1])
    OBVIOUS
  <2> QED
    BY <2>1, <2>2
<1>11. n + 1 \in 1..n + 1 /\ n + 1 > Len(path) /\ 1..n \subseteq 1..n + 1
  BY <1>1
<1>12. match[n + 1] = {Len(place) + 1}
  BY <1>10, <1>11 DEF MemoRow
<1>13. \A i \in 1..n : match[i] = MemoRow(path, place, i, match[i + 1])
  BY <1>10, <1>11
<1> QED
  BY <1>9, <1>12, <1>13

\* Several "...": at each token, what is reached meets what can still match.
LEMMA MemoForward ==
  ASSUME NEW path \in Seq(STRING), NEW place \in Seq(Steps), NEW F, IsForward(F, path, place)
  PROVE  MatchesRecursiveMemo(path, place) <=> Len(place) \in F[Len(path)]
<1> DEFINE n == Len(path)
           l == Len(place)
<1>1. n \in Nat /\ l \in Nat
  OBVIOUS
<1>2. PICK f : /\ MatchesRecursiveMemo(path, place) <=> 1 \in f[1]
               /\ f[n + 1] = {l + 1}
               /\ \A i \in 1..n : f[i] = MemoRow(path, place, i, f[i + 1])
  BY MemoDef
<1> DEFINE Meet(i) == \E m \in F[i] : m + 1 \in f[i + 1]
<1>3. \A i \in 0..n : F[i] \subseteq 0..l
  BY <1>1 DEF IsForward
<1>4. ASSUME NEW i \in 1..n PROVE Meet(i - 1) <=> Meet(i)
  <2>1. i - 1 \in 0..n /\ i \in 0..n /\ i - 1 + 1 = i /\ ~(i > n)
    BY <1>1
  <2>2. F[i - 1] \subseteq 0..l /\ F[i] \subseteq 0..l
    BY <1>3, <2>1
  <2>3. \A m \in 0..l : m \in F[i] <=> IF path[i] = "..." THEN \E k \in F[i - 1] : k <= m
                                        ELSE m > 0 /\ m - 1 \in F[i - 1] /\ TokenMatches(path[i], place[m])
    BY DEF IsForward
  <2>4. f[i] = MemoRow(path, place, i, f[i + 1])
    BY <1>2
  <2>5. CASE path[i] = "..."
    <3>1. f[i] = {j \in 1..l + 1 : i = n \/ \E k \in j..l + 1 : k \in f[i + 1]}
      BY <2>1, <2>4, <2>5 DEF MemoRow
    <3>2. \A j \in 1..l + 1 : j \in f[i] <=> \E k \in j..l + 1 : k \in f[i + 1]
      <4>1. ASSUME NEW j \in 1..l + 1, i = n PROVE \E k \in j..l + 1 : k \in f[i + 1]
        <5>1. l + 1 \in j..l + 1 /\ l + 1 \in f[i + 1]
          BY <1>1, <1>2, <4>1
        <5> QED
          BY <5>1
      <4> QED
        BY <3>1, <4>1
    <3>3. ASSUME NEW m \in F[i - 1], m + 1 \in f[i] PROVE Meet(i)
      <4>1. PICK k \in (m + 1)..l + 1 : k \in f[i + 1]
        BY <1>1, <2>2, <3>2, <3>3
      <4>2. m \in 0..l /\ k - 1 \in 0..l /\ m <= k - 1 /\ k - 1 + 1 = k
        BY <1>1, <2>2, <4>1
      <4>3. k - 1 \in F[i]
        BY <2>3, <2>5, <3>3, <4>2
      <4> QED
        BY <4>1, <4>2, <4>3
    <3>4. ASSUME NEW m \in F[i], m + 1 \in f[i + 1] PROVE Meet(i - 1)
      <4>1. PICK k \in F[i - 1] : k <= m
        BY <2>2, <2>3, <2>5, <3>4
      <4>2. m \in 0..l /\ k \in 0..l /\ k + 1 \in 1..l + 1 /\ m + 1 \in (k + 1)..l + 1
        BY <1>1, <2>2, <3>4, <4>1
      <4>3. k + 1 \in f[i]
        BY <3>2, <3>4, <4>2
      <4> QED
        BY <2>1, <4>1, <4>3
    <3> QED
      BY <2>1, <3>3, <3>4
  <2>6. CASE path[i] # "..."
    <3>1. f[i] = {j \in 1..l : TokenMatches(path[i], place[j]) /\ j + 1 \in f[i + 1]}
      BY <2>1, <2>4, <2>6 DEF MemoRow
    <3>2. ASSUME NEW m \in F[i - 1], m + 1 \in f[i] PROVE Meet(i)
      <4>1. m + 1 \in 1..l /\ TokenMatches(path[i], place[m + 1]) /\ (m + 1) + 1 \in f[i + 1]
        BY <3>1, <3>2
      <4>2. m + 1 \in 0..l /\ m + 1 > 0 /\ (m + 1) - 1 = m
        BY <1>1, <2>2, <3>2, <4>1
      <4>3. m + 1 \in F[i]
        BY <2>3, <2>6, <3>2, <4>1, <4>2
      <4> QED
        BY <4>1, <4>3
    <3>3. ASSUME NEW m \in F[i], m + 1 \in f[i + 1] PROVE Meet(i - 1)
      <4>1. m \in 0..l /\ m > 0 /\ m - 1 \in F[i - 1] /\ TokenMatches(path[i], place[m])
        BY <2>2, <2>3, <2>6, <3>3
      <4>2. m \in 1..l /\ m - 1 + 1 = m
        BY <1>1, <4>1
      <4>3. m \in f[i]
        BY <3>1, <3>3, <4>1, <4>2
      <4> QED
        BY <2>1, <4>1, <4>2, <4>3
    <3> QED
      BY <2>1, <3>2, <3>3
  <2> QED
    BY <2>5, <2>6
<1>5. Meet(0) <=> 1 \in f[1]
  BY DEF IsForward
<1>6. Meet(n) <=> l \in F[n]
  BY <1>1, <1>2, <1>3
<1>7. Meet(0) <=> Meet(n)
  <2> DEFINE Good == {i \in 0..n : Meet(i) <=> Meet(0)}
  <2>1. 0 \in Good
    BY <1>1
  <2>2. ASSUME NEW i \in 1..n, i - 1 \in Good PROVE i \in Good
    BY <1>1, <1>4, <2>2
  <2>3. n \in 0..n
    BY <1>1
  <2> HIDE DEF Good, n
  <2>4. n \in Good
    BY <1>1, <2>1, <2>2, <2>3, UpTo
  <2> QED
    BY <2>4 DEF Good
<1> QED
  BY <1>2, <1>5, <1>6, <1>7

\* Whatever matcher is chosen for its form, it says the same.
LEMMA PathForward ==
  ASSUME NEW path \in Seq(STRING), NEW place \in Seq(Steps), NEW F, IsForward(F, path, place)
  PROVE  PathMatches(path, place) <=> Len(place) \in F[Len(path)]
<1> DEFINE recursive == {i \in DOMAIN path : path[i] = "..."}
<1>1. CASE recursive = {}
  <2>1. \A i \in DOMAIN path : path[i] # "..."
    BY <1>1
  <2>2. PathMatches(path, place) <=> MatchesLinear(path, place)
    <3>1. Cardinality(recursive) = 0
      BY <1>1, FS_EmptySet
    <3> QED
      BY <1>1, <3>1 DEF PathMatches
  <2> QED
    BY <2>1, <2>2, LinearForward
<1>2. CASE recursive # {} /\ Cardinality(recursive) = 1
  <2> DEFINE r == CHOOSE i \in recursive : TRUE
  <2>1. PathMatches(path, place) <=> MatchesSingleRecursive(path, place, r)
    BY <1>2 DEF PathMatches
  <2>2. r \in recursive
    BY <1>2
  <2>3. PICK x : recursive = {x}
    <3>1. IsFiniteSet(recursive)
      <4>1. IsFiniteSet(1..Len(path))
        BY FS_Interval
      <4>2. recursive \subseteq 1..Len(path)
        OBVIOUS
      <4> HIDE DEF recursive
      <4> QED
        BY <4>1, <4>2, FS_Subset
    <3> HIDE DEF recursive
    <3> QED
      BY <1>2, <3>1, FS_Singleton
  <2>4. r \in 1..Len(path) /\ path[r] = "..." /\ \A i \in 1..Len(path) : i # r => path[i] # "..."
    <3> HIDE DEF r
    <3> QED
      BY <2>2, <2>3
  <2> HIDE DEF r
  <2> QED
    BY <2>1, <2>4, SingleForward
<1>3. CASE recursive # {} /\ Cardinality(recursive) # 1
  <2>1. PathMatches(path, place) <=> MatchesRecursiveMemo(path, place)
    BY <1>3 DEF PathMatches
  <2> QED
    BY <2>1, MemoForward
<1> QED
  BY <1>1, <1>2, <1>3

--------------------------------------------------------------------------------
(* The two kinds of paths.                                                     *)

\* What is above a place of a document is a container, and is in the document.
Above(q, m) == SubSeq(q, 1, m)

\* The place above another is what that one begins with.
LEMMA AboveFacts ==
  ASSUME NEW S, NEW q \in Seq(S), NEW m \in 0..Len(q)
  PROVE  /\ Above(q, m) \in Seq(S) /\ Len(Above(q, m)) = m
         /\ \A i \in 1..m : Above(q, m)[i] = q[i]
         /\ m = Len(q) => Above(q, m) = q
         /\ m = 0 => Above(q, m) = <<>>
         /\ m > 0 => Above(q, m) # <<>> /\ Front(Above(q, m)) = Above(q, m - 1) /\ Last(Above(q, m)) = q[m]
<1>1. Above(q, m) \in Seq(S) /\ Len(Above(q, m)) = m /\ \A i \in 1..m : Above(q, m)[i] = q[i]
  BY DEF Above
<1>2. m = Len(q) => Above(q, m) = q
  BY <1>1
<1>3. m = 0 => Above(q, m) = <<>>
  BY <1>1
<1>4. ASSUME m > 0
      PROVE  Above(q, m) # <<>> /\ Front(Above(q, m)) = Above(q, m - 1) /\ Last(Above(q, m)) = q[m]
  <2>1. Above(q, m) # <<>> /\ Last(Above(q, m)) = q[m]
    BY <1>1, <1>4 DEF Last
  <2>2. Front(Above(q, m)) = Above(q, m - 1)
    <3>1. Front(Above(q, m)) = [i \in 1..m - 1 |-> q[i]]
      BY <1>1, <1>4 DEF Front
    <3>2. Above(q, m - 1) = [i \in 1..m - 1 |-> q[i]]
      BY <1>4 DEF Above
    <3> QED
      BY <3>1, <3>2
  <2> QED
    BY <2>1, <2>2
<1> QED
  BY <1>1, <1>2, <1>3, <1>4

\* The places above a place of a document are in it, and hold objects or arrays.
LEMMA AboveInDocument ==
  ASSUME NEW d, IsDocument(d), NEW q \in DOMAIN d
  PROVE  \A m \in 0..Len(q) :
           /\ Above(q, m) \in DOMAIN d
           /\ m < Len(q) => d[Above(q, m)].kind = IF IsKey(q[m + 1]) THEN "object" ELSE "array"
<1> DEFINE n == Len(q)
           Good == {k \in 0..n : Above(q, n - k) \in DOMAIN d}
<1>1. q \in Seq(Steps) /\ n \in Nat
  BY DEF IsDocument
<1>2. 0 \in Good
  <2>1. n \in 0..n /\ 0 \in 0..n /\ n - 0 = n
    BY <1>1
  <2>2. Above(q, n) = q
    BY <1>1, <2>1, AboveFacts
  <2> QED
    BY <2>1, <2>2
<1>3. ASSUME NEW k \in 1..n, k - 1 \in Good PROVE k \in Good
  <2>1. n - (k - 1) \in 0..n /\ n - (k - 1) > 0 /\ n - (k - 1) - 1 = n - k
    BY <1>1
  <2>2. Above(q, n - (k - 1)) # <<>> /\ Front(Above(q, n - (k - 1))) = Above(q, n - k)
    BY <1>1, <2>1, AboveFacts
  <2>3. Above(q, n - (k - 1)) \in DOMAIN d
    BY <1>3
  <2>4. Above(q, n - k) \in DOMAIN d
    BY <2>2, <2>3 DEF IsDocument
  <2> QED
    BY <1>1, <2>4
<1>4. \A k \in 0..n : k \in Good
  <2> HIDE DEF Good, n
  <2> QED
    BY <1>1, <1>2, <1>3, UpTo
<1>5. ASSUME NEW m \in 0..n PROVE Above(q, m) \in DOMAIN d
  <2>1. n - m \in 0..n /\ n - (n - m) = m
    BY <1>1
  <2> QED
    BY <1>4, <2>1
<1>6. ASSUME NEW m \in 0..n, m < n PROVE d[Above(q, m)].kind = IF IsKey(q[m + 1]) THEN "object" ELSE "array"
  <2>1. m + 1 \in 0..n /\ m + 1 > 0 /\ m + 1 - 1 = m
    BY <1>1, <1>6
  <2>2. Above(q, m + 1) # <<>> /\ Front(Above(q, m + 1)) = Above(q, m) /\ Last(Above(q, m + 1)) = q[m + 1]
    BY <1>1, <2>1, AboveFacts
  <2>3. Above(q, m + 1) \in DOMAIN d \ {<<>>}
    BY <1>5, <2>1, <2>2
  <2> QED
    BY <2>2, <2>3 DEF IsDocument
<1> QED
  BY <1>5, <1>6

\* Below a container, a segment selects the steps that its token matches.
LEMMA SelectsMatches ==
  ASSUME NEW segment \in STRING, segment # "...", NEW step \in Steps, NEW v \in Values,
         v.kind = IF IsKey(step) THEN "object" ELSE "array"
  PROVE  Selects(segment, v, step) <=> TokenMatches(segment, step)
<1>1. CASE IsKey(step)
  BY <1>1 DEF Selects, TokenMatches
<1>2. CASE ~IsKey(step)
  <2>1. step.index \in Nat
    BY <1>2 DEF Steps, IsKey
  <2>2. Atoi(segment) \in Int
    BY DEF Atoi
  <2> QED
    BY <1>2, <2>1, <2>2 DEF Selects, TokenMatches
<1> QED
  BY <1>1, <1>2

\* A place that the decoded document leads to is one that the tokens lead to, and
\* the other way round unless it is a null.
LEMMA ReachedForward ==
  ASSUME NEW d, IsDocument(d), NEW q \in DOMAIN d, NEW path \in Seq(STRING),
         NEW F, IsForward(F, path, q)
  PROVE  /\ q \in ValuesAtPath(d, path) => Len(q) \in F[Len(path)]
         /\ Len(q) \in F[Len(path)] /\ (d[q].kind # "null" \/ path[Len(path)] # "...") => q \in ValuesAtPath(d, path)
<1> DEFINE n == Len(path)
           l == Len(q)
<1>1. n \in Nat /\ l \in Nat /\ q \in Seq(Steps) /\ <<>> \in DOMAIN d
  BY DEF IsDocument
<1>2. PICK f \in [0..Len(path) -> SUBSET DOMAIN d] :
        /\ ValuesAtPath(d, path) = f[Len(path)]
        /\ f[0] = {<<>>}
        /\ \A i \in 1..Len(path) : f[i] = ReachedBelow(d, f[i - 1], path[i])
  <2> HIDE DEF n, l
  <2> QED
    BY <1>1, ReachedDef
<1>3. \A m \in 0..l : /\ Above(q, m) \in DOMAIN d
                      /\ m < l => d[Above(q, m)].kind = IF IsKey(q[m + 1]) THEN "object" ELSE "array"
  BY AboveInDocument
<1> DEFINE Good == {i \in 0..n : \A m \in 0..l :
                      /\ Above(q, m) \in f[i] => m \in F[i]
                      /\ m \in F[i] /\ (d[Above(q, m)].kind # "null" \/ path[i] # "..." \/ i = 0) => Above(q, m) \in f[i]}
<1>4. 0 \in Good
  <2>1. ASSUME NEW m \in 0..l PROVE Above(q, m) = <<>> <=> m = 0
    <3>1. q \in Seq(Steps) /\ m \in 0..Len(q)
      BY <1>1
    <3>2. Above(q, m) \in Seq(Steps) /\ Len(Above(q, m)) = m
      BY ONLY <3>1, AboveFacts
    <3> HIDE DEF Good
    <3> QED
      BY <3>2
  <2> QED
    BY <1>1, <1>2, <2>1 DEF IsForward
<1>5. ASSUME NEW i \in 1..n, i - 1 \in Good PROVE i \in Good
  <2>1. i \in 0..n /\ i - 1 \in 0..n
    BY <1>1
  <2>2. f[i] = ReachedBelow(d, f[i - 1], path[i]) /\ f[i - 1] \subseteq DOMAIN d
    BY <1>2, <2>1
  <2>3. \A m \in 0..l : m \in F[i] <=> IF path[i] = "..." THEN \E k \in F[i - 1] : k <= m
                                        ELSE m > 0 /\ m - 1 \in F[i - 1] /\ TokenMatches(path[i], q[m])
    BY DEF IsForward
  <2>4. F[i - 1] \subseteq 0..l
    BY <1>1, <2>1 DEF IsForward
  <2>5. \A m \in 0..l : /\ Above(q, m) \in f[i - 1] => m \in F[i - 1]
                        /\ m \in F[i - 1] /\ d[Above(q, m)].kind # "null" => Above(q, m) \in f[i - 1]
    BY <1>5
  <2>7. i # 0
    BY <1>1
  <2>6. ASSUME NEW m \in 0..l
        PROVE  /\ Above(q, m) \in f[i] => m \in F[i]
               /\ m \in F[i] /\ (d[Above(q, m)].kind # "null" \/ path[i] # "..." \/ i = 0) => Above(q, m) \in f[i]
    <3>1. CASE path[i] = "..."
      <4>1. Above(q, m) \in f[i] <=> \E p \in f[i - 1] : d[p].kind # "null" /\ IsPrefix(p, Above(q, m))
        BY <1>3, <2>2, <3>1 DEF ReachedBelow, CollectDescendants
      <4>2. ASSUME NEW p \in f[i - 1], IsPrefix(p, Above(q, m)) PROVE m \in F[i]
        <5>1. p \in Seq(Steps)
          BY <2>2 DEF IsDocument
        <5>2. Above(q, m) \in Seq(Steps) /\ Len(Above(q, m)) = m /\ \A j \in 1..m : Above(q, m)[j] = q[j]
          BY <1>1, AboveFacts
        <5>3. Len(p) <= m /\ Len(p) \in 0..l /\ \A j \in 1..Len(p) : p[j] = q[j]
          BY <1>1, <4>2, <5>1, <5>2 DEF IsPrefix
        <5>4. p = Above(q, Len(p))
          BY <1>1, <5>1, <5>3 DEF Above
        <5>5. Len(p) \in F[i - 1]
          BY <2>5, <5>3, <5>4
        <5> QED
          BY <2>3, <3>1, <5>3, <5>5
      <4>3. ASSUME m \in F[i], d[Above(q, m)].kind # "null" PROVE Above(q, m) \in f[i]
        <5>1. PICK k \in F[i - 1] : k <= m
          BY <2>3, <3>1, <4>3
        <5>2. k \in 0..l
          BY <2>4
        <5>3. d[Above(q, k)].kind # "null"
          BY <1>1, <1>3, <4>3, <5>1, <5>2
        <5>4. Above(q, k) \in f[i - 1]
          BY <2>5, <5>1, <5>2, <5>3
        <5>5. IsPrefix(Above(q, k), Above(q, m))
          <6>1. /\ Above(q, k) \in Seq(Steps) /\ Len(Above(q, k)) = k /\ \A j \in 1..k : Above(q, k)[j] = q[j]
                /\ Above(q, m) \in Seq(Steps) /\ Len(Above(q, m)) = m /\ \A j \in 1..m : Above(q, m)[j] = q[j]
            BY <1>1, <5>2, AboveFacts
          <6>2. SubSeq(Above(q, k), 1, k) = SubSeq(Above(q, m), 1, k)
            BY <1>1, <5>1, <5>2, <6>1
          <6> QED
            BY <1>1, <5>1, <5>2, <6>1, <6>2 DEF IsPrefix
        <5> QED
          BY <4>1, <5>3, <5>4, <5>5
      <4> QED
        BY <2>7, <3>1, <4>1, <4>2, <4>3
    <3>2. CASE path[i] # "..."
      <4>1. m = 0 => Above(q, m) = <<>>
        BY <1>1, AboveFacts
      <4>2. f[i] = {p \in DOMAIN d \ {<<>>} : Front(p) \in f[i - 1] /\ Selects(path[i], d[Front(p)], Last(p))}
        BY <2>2, <3>2 DEF ReachedBelow
      <4>3. CASE m = 0
        BY <2>3, <3>2, <4>1, <4>2, <4>3
      <4>4. CASE m # 0
        <5>1. m > 0 /\ m - 1 \in 0..l /\ m - 1 < l /\ m - 1 + 1 = m /\ m \in 1..l
          BY <1>1, <4>4
        <5>2. Above(q, m) # <<>> /\ Front(Above(q, m)) = Above(q, m - 1) /\ Last(Above(q, m)) = q[m]
          BY <1>1, <5>1, AboveFacts
        <5>3. Above(q, m) \in f[i] <=> Above(q, m - 1) \in f[i - 1] /\ Selects(path[i], d[Above(q, m - 1)], q[m])
          BY <1>3, <4>2, <5>2
        <5>4. d[Above(q, m - 1)].kind = IF IsKey(q[m]) THEN "object" ELSE "array"
          BY <1>3, <5>1
        <5>5. d[Above(q, m - 1)] \in Values /\ q[m] \in Steps /\ path[i] \in STRING
          BY <1>1, <1>3, <5>1 DEF IsDocument
        <5>6. Selects(path[i], d[Above(q, m - 1)], q[m]) <=> TokenMatches(path[i], q[m])
          BY <3>2, <5>4, <5>5, SelectsMatches
        <5>7. Above(q, m - 1) \in f[i - 1] <=> m - 1 \in F[i - 1]
          BY <2>5, <5>1, <5>4
        <5> QED
          BY <2>3, <3>2, <5>1, <5>3, <5>6, <5>7
      <4> QED
        BY <4>3, <4>4
    <3> QED
      BY <3>1, <3>2
  <2> QED
    BY <2>1, <2>6
<1>6. n \in Good
  <2>1. n \in 0..n
    BY <1>1
  <2> HIDE DEF Good, n
  <2> QED
    BY <1>1, <1>4, <1>5, <2>1, UpTo
<1>7. l \in 0..l /\ Above(q, l) = q
  <2>1. q \in Seq(Steps) /\ Len(q) \in 0..Len(q)
    BY <1>1
  <2>2. Above(q, Len(q)) = q
    BY ONLY <2>1, AboveFacts
  <2> HIDE DEF Good
  <2> QED
    BY <2>1, <2>2
<1> QED
  BY <1>2, <1>6, <1>7

--------------------------------------------------------------------------------
(* The tail of a path.                                                         *)

\* The last token of a path is compared with the last step of a place: that test
\* is one that no match can fail.
LEMMA TailFollows ==
  ASSUME NEW path \in Seq(STRING) \ {<<>>}, NEW place \in Seq(Steps), NEW F, IsForward(F, path, place),
         Len(place) \in F[Len(path)]
  PROVE  TailMatches(TailFilter(path), place)
<1> DEFINE n == Len(path)
           l == Len(place)
<1>1. n \in 1..n /\ l \in 0..l /\ Last(path) = path[n] /\ path[n] \in STRING /\ l \in Nat
  BY DEF Last
<1>2. CASE ~IsLiteral(Last(path))
  <2>1. ~(Atoi(Last(path)) >= 0)
    BY <1>2 DEF IsLiteral, Wildcards, Atoi
  <2> QED
    BY <1>2, <2>1 DEF TailFilter, TailMatches
<1>3. CASE IsLiteral(Last(path))
  <2>1. path[n] # "..."
    BY <1>1, <1>3 DEF IsLiteral, Wildcards
  <2>2. l > 0 /\ TokenMatches(path[n], place[l])
    BY <1>1, <2>1 DEF IsForward
  <2>3. place # <<>> /\ Last(place) = place[l]
    BY <1>1, <2>2 DEF Last
  <2>4. Atoi(path[n]) \in Int
    BY DEF Atoi
  <2> QED
    BY <1>1, <1>3, <2>2, <2>3, <2>4 DEF TailFilter, TailMatches, TokenMatches, IsLiteral, Wildcards
<1> QED
  BY <1>2, <1>3

\* The lists of the dispatch index are the tails that match.
LEMMA DispatchFollows ==
  ASSUME NEW path \in Seq(STRING) \ {<<>>}, NEW place \in Seq(Steps)
  PROVE  Dispatched(TailFilter(path), place) <=> TailMatches(TailFilter(path), place)
<1> DEFINE tail == TailFilter(path)
<1>1. \/ tail = [kind |-> "none"]
      \/ tail = [kind |-> "numeric", key |-> Last(path), index |-> Atoi(Last(path))]
      \/ tail = [kind |-> "key", key |-> Last(path)]
  BY DEF TailFilter
<1>2. CASE place = <<>>
  BY <1>2 DEF Dispatched, TailMatches
<1>3. CASE place # <<>>
  <2>1. Last(place) \in Steps
    BY <1>3 DEF Last
  <2> DEFINE step == Last(place)
  <2>2. CASE IsKey(step)
    <3>1. step \in [key : STRING]
      BY <2>1, <2>2 DEF Steps, IsKey
    <3>2. \A name : step = Key(name) <=> step.key = name
      BY <3>1 DEF Key
    <3>3. \A index : step # Elem(index)
      <4>1. \A index : DOMAIN Elem(index) = {"index"}
        BY DEF Elem
      <4>2. "key" \in DOMAIN step /\ "key" \notin {"index"}
        BY <2>2 DEF IsKey
      <4> QED
        BY <4>1, <4>2
    <3> HIDE DEF tail, step
    <3> QED
      BY <1>1, <1>3, <2>2, <3>2, <3>3 DEF Dispatched, DispatchTails, TailMatches, step
  <2>3. CASE ~IsKey(step)
    <3>1. step \in [index : Nat]
      BY <2>1, <2>3 DEF Steps, IsKey
    <3>2. \A index : step = Elem(index) <=> step.index = index
      BY <3>1 DEF Elem
    <3>3. \A name : step # Key(name)
      BY <2>3 DEF Key, IsKey
    <3> HIDE DEF tail, step
    <3> QED
      BY <1>1, <1>3, <2>3, <3>2, <3>3 DEF Dispatched, DispatchTails, TailMatches, step
  <2> QED
    BY <2>2, <2>3
<1> QED
  BY <1>2, <1>3

--------------------------------------------------------------------------------
(* The cases.                                                                  *)

CaseOf(r) ==
  /\ IsDocument(r.doc)
  /\ r.clauses \in Seq(ClauseType) /\ \A i \in DOMAIN r.clauses : IsClause(r.clauses[i])

\* What is assumed of the cases, for the one that is asked for.
LEMMA OfCase ==
  ASSUME request \in Cases
  PROVE  /\ IsDocument(doc)
         /\ \A i \in Ids : /\ clauses[i] \in ClauseType /\ IsClause(clauses[i])
                           /\ clauses[i].path \in Seq(STRING) \ {<<>>}
<1>1. IsDocument(doc) /\ clauses \in Seq(ClauseType) /\ \A i \in Ids : IsClause(clauses[i])
  BY CasesAssumption DEF doc, clauses, Ids
<1>2. \A i \in Ids : clauses[i] \in ClauseType
  BY <1>1 DEF IsClause
<1>3. \A c \in ClauseType : c.path \in Seq(STRING) \ {<<>>}
  BY DEF ClauseType
<1> QED
  BY <1>1, <1>2, <1>3

\* The place that is read next is in the document.
LEMMA NextInDocument ==
  ASSUME IsDocument(doc), NEW place \in NextPlaces
  PROVE  place \in DOMAIN doc /\ place \in Seq(Steps)
<1>1. place \in DOMAIN doc
  BY DEF NextPlaces, IsDocument
<1> QED
  BY <1>1 DEF IsDocument

\* A literal path is compared as any other.
LEMMA LiteralFollows ==
  ASSUME NEW path \in Seq(STRING) \ {<<>>}, NEW place \in Seq(Steps),
         \A i \in DOMAIN path : IsLiteral(path[i])
  PROVE  LiteralPathMatches(path, place) <=> PathMatches(path, place)
<1> DEFINE recursive == {i \in DOMAIN path : path[i] = "..."}
<1>1. recursive = {}
  BY DEF IsLiteral, Wildcards
<1>2. PathMatches(path, place) <=> MatchesLinear(path, place)
  <2>1. Cardinality(recursive) = 0
    BY <1>1, FS_EmptySet
  <2> QED
    BY <1>1, <2>1 DEF PathMatches
<1>3. ASSUME NEW i \in DOMAIN path
      PROVE  TokenMatches(path[i], place[i])
             <=> IF IsKey(place[i]) THEN place[i].key = path[i]
                 ELSE Atoi(path[i]) >= 0 /\ place[i].index = Atoi(path[i])
  BY <1>3 DEF TokenMatches, IsLiteral, Wildcards
<1> QED
  BY <1>2, <1>3 DEF MatchesLinear, LiteralPathMatches

\* "..." and a key: the last step decides.
LEMMA RecursiveFollows ==
  ASSUME NEW path \in Seq(STRING), NEW place \in Seq(Steps),
         Len(path) = 2, path[1] = "...", IsLiteral(path[2]), Atoi(path[2]) < 0
  PROVE  TailMatches(TailFilter(path), place) <=> PathMatches(path, place)
<1>1. PICK F : IsForward(F, path, place)
  BY ForwardExists
<1> DEFINE l == Len(place)
<1>2. path # <<>> /\ Last(path) = path[2] /\ path[2] # "..." /\ l \in Nat
  BY DEF Last, IsLiteral, Wildcards
<1>3. PathMatches(path, place) <=> l \in F[2]
  BY <1>1, PathForward
<1>4. \A m \in 0..l : m \in F[1]
  <2>1. 1 \in 1..Len(path) /\ 1 - 1 = 0 /\ F[0] = {0}
    BY <1>1 DEF IsForward
  <2> QED
    BY <1>1, <1>2, <2>1 DEF IsForward
<1>5. l \in F[2] <=> l > 0 /\ TokenMatches(path[2], place[l])
  <2>1. 2 \in 1..Len(path) /\ 2 - 1 = 1 /\ l \in 0..l /\ (l > 0 => l - 1 \in 0..l)
    BY <1>2
  <2> QED
    BY <1>1, <1>2, <1>4, <2>1 DEF IsForward
<1>8. Atoi(path[2]) \in Int /\ ~(Atoi(path[2]) >= 0)
  BY DEF Atoi
<1>6. CASE l = 0
  <2>1. place = <<>>
    BY <1>6
  <2> QED
    BY <1>2, <1>3, <1>5, <1>6, <2>1 DEF TailFilter, TailMatches
<1>7. CASE l # 0
  <2>1. place # <<>> /\ Last(place) = place[l] /\ l > 0
    BY <1>2, <1>7 DEF Last
  <2>2. TokenMatches(path[2], place[l]) <=> IsKey(place[l]) /\ place[l].key = path[2]
    BY <1>8 DEF TokenMatches, IsLiteral, Wildcards
  <2>3. TailFilter(path) = [kind |-> "key", key |-> path[2]]
    BY <1>2, <1>8 DEF TailFilter
  <2>4. TailMatches(TailFilter(path), place) <=> IsKey(place[l]) /\ place[l].key = path[2]
    BY <2>1, <2>3 DEF TailMatches
  <2> QED
    BY <1>3, <1>5, <2>1, <2>2, <2>4
<1> QED
  BY <1>6, <1>7

\* What holds of a place and a path, as PathsAgree says it.
LEMMA PathsFollow ==
  ASSUME request \in Cases, NEW place \in DOMAIN doc, NEW i \in Ids
  PROVE  LET path    == clauses[i].path
             reached == place \in ValuesAtPath(doc, path)
             matches == PathMatches(path, place)
             tail    == TailFilter(path)
         IN  /\ reached => matches /\ TailMatches(tail, place)
             /\ matches => TailMatches(tail, place)
             /\ matches /\ (doc[place].kind # "null" \/ Last(path) # "...") => reached
             /\ Dispatched(tail, place) = TailMatches(tail, place)
             /\ FastEq \/ FastRecursiveEq => FastPathHits(place) = matches
<1> DEFINE path == clauses[i].path
<1>1. path \in Seq(STRING) \ {<<>>} /\ IsDocument(doc) /\ place \in Seq(Steps)
  BY OfCase DEF IsDocument
<1>2. PICK F : IsForward(F, path, place)
  BY <1>1, ForwardExists
<1> HIDE DEF path
<1>3. PathMatches(path, place) <=> Len(place) \in F[Len(path)]
  BY <1>1, <1>2, PathForward
<1>4. PathMatches(path, place) => TailMatches(TailFilter(path), place)
  BY <1>1, <1>2, <1>3, TailFollows
<1>5. /\ place \in ValuesAtPath(doc, path) => PathMatches(path, place)
      /\ PathMatches(path, place) /\ (doc[place].kind # "null" \/ Last(path) # "...") => place \in ValuesAtPath(doc, path)
  BY <1>1, <1>2, <1>3, ReachedForward DEF Last
<1>6. Dispatched(TailFilter(path), place) = TailMatches(TailFilter(path), place)
  <2>1. Dispatched(TailFilter(path), place) <=> TailMatches(TailFilter(path), place)
    BY <1>1, DispatchFollows
  <2>2. /\ Dispatched(TailFilter(path), place) \in BOOLEAN
        /\ TailMatches(TailFilter(path), place) \in BOOLEAN
    BY DEF Dispatched, TailMatches
  <2> QED
    BY <2>1, <2>2
<1>7. ASSUME FastEq \/ FastRecursiveEq PROVE FastPathHits(place) = PathMatches(path, place)
  <2>1. Len(clauses) = 1 /\ DOMAIN clauses = 1..Len(clauses)
    <3>1. clauses \in Seq(ClauseType)
      BY CasesAssumption DEF clauses
    <3> QED
      BY <1>7, <3>1 DEF FastEq, FastRecursiveEq, SimpleEq
  <2>2. i = 1 /\ path = clauses[1].path
    BY <2>1 DEF Ids, path
  <2>5. PathMatches(path, place) \in BOOLEAN
    <3> DEFINE r == CHOOSE j \in {j \in DOMAIN path : path[j] = "..."} : TRUE
    <3>1. PathMatches(path, place) \in {MatchesLinear(path, place), MatchesSingleRecursive(path, place, r),
                                       MatchesRecursiveMemo(path, place)}
      BY Zenon DEF PathMatches
    <3>2. MatchesLinear(path, place) \in BOOLEAN /\ MatchesRecursiveMemo(path, place) \in BOOLEAN
      BY DEF MatchesLinear, MatchesRecursiveMemo
    <3>3. MatchesSingleRecursive(path, place, r) \in BOOLEAN
      BY DEF MatchesSingleRecursive
    <3> QED
      BY <3>1, <3>2, <3>3
  <2>3. CASE FastEq
    <3>1. LiteralPathMatches(path, place) <=> PathMatches(path, place)
      BY <1>1, <2>2, <2>3, LiteralFollows DEF FastEq
    <3>2. LiteralPathMatches(path, place) \in BOOLEAN
      BY DEF LiteralPathMatches
    <3> QED
      BY <2>2, <2>3, <2>5, <3>1, <3>2 DEF FastPathHits
  <2>4. CASE ~FastEq
    <3>1. Len(path) = 2 /\ path[1] = "..." /\ IsLiteral(path[2]) /\ Atoi(path[2]) < 0
      <4>1. FastRecursiveEq
        BY <1>7, <2>4
      <4>2. Len(path) = 2 /\ path[1] = "..." /\ IsLiteral(Tail(path)[1]) /\ Atoi(Tail(path)[1]) < 0
        BY <2>2, <4>1 DEF FastRecursiveEq, TopLevelLiteral
      <4>3. Tail(path)[1] = path[2]
        <5>1. 1 \in 1..Len(path) - 1 /\ path \in Seq(STRING)
          BY <1>1, <4>2
        <5> QED
          BY <4>2, <5>1
      <4> QED
        BY <4>2, <4>3
    <3>2. TailMatches(TailFilter(path), place) <=> PathMatches(path, place)
      BY <1>1, <3>1, RecursiveFollows
    <3>3. TailMatches(TailFilter(path), place) \in BOOLEAN
      BY DEF TailMatches
    <3> QED
      BY <2>2, <2>4, <2>5, <3>2, <3>3 DEF FastPathHits
  <2> QED
    BY <2>3, <2>4
<1> QED
  BY <1>4, <1>5, <1>6, <1>7 DEF path

\* The case does not change.
LEMMA CaseStays ==
  ScanSpec => [](request \in Cases)
<1>1. ScanInit => request \in Cases
  BY DEF ScanInit
<1>2. request \in Cases /\ [ScanNext]_scanVars => (request \in Cases)'
  BY DEF ScanNext, ScanValue, ScanString, FeedString, EndString, ScanRootFast, ScanMemberFastEq,
         ScanMemberFast, ScanMember, Judged, scanVars
<1> QED
  BY <1>1, <1>2, PTL DEF ScanSpec

\* Whatever the documents and the paths, the tests of a path in the stream say of
\* the value the scan comes to next what the evaluator says of it: by the tail and
\* by the dispatch index, by the three matchers, and by the fast forms
\* (streamPathMatchesKnownRecursive, streamPathTailMatches, candidates).
THEOREM PathsAlwaysAgree ==
  ScanSpec => []PathsAgree
<1>1. request \in Cases => PathsAgree
  <2> SUFFICES ASSUME request \in Cases PROVE PathsAgree
    OBVIOUS
  <2>1. \A place \in NextPlaces : place \in DOMAIN doc
    BY OfCase, NextInDocument
  <2> QED
    BY <2>1, PathsFollow DEF PathsAgree
<1> QED
  BY <1>1, CaseStays, PTL

\* No step of the scan withdraws a hit (streamClauseHits only grows between two
\* candidates).
THEOREM HitsAlwaysStay ==
  ScanSpec => HitsStay
<1>1. [ScanNext]_scanVars => [clauseHits \subseteq clauseHits']_scanVars
  BY DEF ScanNext, ScanValue, ScanString, FeedString, EndString, ScanRootFast, ScanMemberFastEq,
         ScanMemberFast, ScanMember, HitsAfter, Judged, scanVars
<1> QED
  BY <1>1, PTL DEF ScanSpec, HitsStay

\* What holds of a number if of all that are less, holds up to n.
LEMMA Strong ==
  ASSUME NEW n \in Nat, NEW Good, \A i \in 0..n : (\A j \in 0..i - 1 : j \in Good) => i \in Good
  PROVE  \A i \in 0..n : i \in Good
<1> DEFINE Bad == {i \in 0..n : i \notin Good}
<1>1. ASSUME Bad # {} PROVE FALSE
  <2>1. PICK i \in Bad : \A j \in Bad : i <= j
    <3>1. Bad \subseteq Nat
      OBVIOUS
    <3> HIDE DEF Bad
    <3> QED
      BY <1>1, <3>1, Least
  <2>2. ASSUME NEW j \in 0..i - 1 PROVE j \in Good
    <3>1. j \in 0..n /\ ~(i <= j)
      OBVIOUS
    <3> QED
      BY <2>1, <3>1
  <2> QED
    BY <2>2
<1> QED
  BY <1>1

\* A set of numbers up to n has a greatest member.
LEMMA Greatest ==
  ASSUME NEW n \in Nat, NEW S, S \subseteq 0..n, S # {}
  PROVE  \E m \in S : \A k \in S : k <= m
<1> DEFINE T == {n - k : k \in S}
<1>1. PICK t \in T : \A u \in T : t <= u
  <2>1. T \subseteq Nat /\ T # {}
    OBVIOUS
  <2> HIDE DEF T
  <2> QED
    BY <2>1, Least
<1>2. PICK m \in S : t = n - m
  OBVIOUS
<1>3. ASSUME NEW k \in S PROVE k <= m
  <2>1. n - k \in T
    OBVIOUS
  <2>2. n - m <= n - k /\ m \in 0..n /\ k \in 0..n
    BY <1>1, <1>2, <2>1
  <2> QED
    BY <2>2
<1> QED
  BY <1>3

--------------------------------------------------------------------------------
(* One needle.                                                                 *)

\* The first k bytes of p are the last of the first e bytes of t.
Ends(p, k, t, e) == k <= e /\ \A i \in 1..k : t[e - k + i] = p[i]

\* The longest such k short of i, of p and itself; what the table has.
IsBorder(p, i, y) ==
  y \in 0..i - 1 /\ Ends(p, y, p, i) /\ \A k \in 0..i - 1 : Ends(p, k, p, i) => k <= y

\* How much of p ends after x bytes of it and b.
IsDelta(p, b, x, y) ==
  /\ y \in 0..x + 1
  /\ y = 0 \/ (Ends(p, y - 1, p, x) /\ b = p[y])
  /\ \A k \in 0..x : Ends(p, k, p, x) /\ b = p[k + 1] => k + 1 <= y

\* What ends where p ends, and is not longer, ends where the first j bytes of p do.
LEMMA EndsWithin ==
  ASSUME NEW p, NEW t, NEW e \in Nat, NEW j \in Nat, NEW k \in 0..j, Ends(p, j, t, e)
  PROVE  Ends(p, k, t, e) <=> Ends(p, k, p, j)
<1>1. ASSUME NEW i \in 1..k PROVE t[e - k + i] = p[j - k + i]
  <2>1. j - k + i \in 1..j /\ e - j + (j - k + i) = e - k + i
    OBVIOUS
  <2> QED
    BY <2>1 DEF Ends
<1> QED
  BY <1>1 DEF Ends

\* The next byte is the one that is waited for.
LEMMA DeltaHere ==
  ASSUME NEW p, NEW b, NEW x \in Nat, b = p[x + 1]
  PROVE  IsDelta(p, b, x, x + 1)
<1>1. x + 1 - 1 = x /\ x + 1 \in 0..x + 1
  OBVIOUS
<1>2. Ends(p, x, p, x)
  BY DEF Ends
<1> QED
  BY <1>1, <1>2 DEF IsDelta

\* Nothing is begun, and the byte does not begin anything.
LEMMA DeltaNone ==
  ASSUME NEW p, NEW b, b # p[1]
  PROVE  IsDelta(p, b, 0, 0)
<1>1. \A k \in 0..0 : k + 1 = 1
  OBVIOUS
<1> QED
  BY <1>1 DEF IsDelta

\* The next byte is another one: what the border makes of it is the answer.
LEMMA DeltaBack ==
  ASSUME NEW p, NEW b, NEW x \in Nat, b # p[x + 1], NEW z, IsBorder(p, x, z), NEW y, IsDelta(p, b, z, y)
  PROVE  IsDelta(p, b, x, y)
<1>1. z \in 0..x - 1 /\ Ends(p, z, p, x) /\ z \in Nat
  BY DEF IsBorder
<1>2. y \in 0..x + 1
  BY <1>1 DEF IsDelta
<1>3. ASSUME y # 0 PROVE Ends(p, y - 1, p, x) /\ b = p[y]
  <2>1. Ends(p, y - 1, p, z) /\ b = p[y] /\ y - 1 \in 0..z
    BY <1>1, <1>3 DEF IsDelta
  <2> QED
    BY <1>1, <2>1, EndsWithin
<1>4. ASSUME NEW k \in 0..x, Ends(p, k, p, x), b = p[k + 1] PROVE k + 1 <= y
  <2>1. k # x /\ k \in 0..x - 1
    BY <1>4
  <2>2. k \in 0..z
    BY <1>1, <1>4, <2>1 DEF IsBorder
  <2>3. Ends(p, k, p, z)
    BY <1>1, <1>4, <2>2, EndsWithin
  <2> QED
    BY <1>4, <2>2, <2>3 DEF IsDelta
<1> QED
  BY <1>2, <1>3, <1>4 DEF IsDelta

\* There is a longest part of the needle that the byte leaves begun.
LEMMA DeltaExists ==
  ASSUME NEW p, NEW b, NEW x \in Nat
  PROVE  \E y : IsDelta(p, b, x, y)
<1> DEFINE S == {y \in 0..x + 1 : y = 0 \/ (Ends(p, y - 1, p, x) /\ b = p[y])}
<1>1. PICK y \in S : \A k \in S : k <= y
  <2>1. 0 \in S /\ S \subseteq 0..x + 1 /\ x + 1 \in Nat
    OBVIOUS
  <2> HIDE DEF S
  <2> QED
    BY <2>1, Greatest
<1>2. ASSUME NEW k \in 0..x, Ends(p, k, p, x), b = p[k + 1] PROVE k + 1 <= y
  <2>1. k + 1 \in 0..x + 1 /\ k + 1 - 1 = k
    OBVIOUS
  <2>2. k + 1 \in S
    BY <1>2, <2>1
  <2> QED
    BY <1>1, <2>2
<1> QED
  BY <1>2 DEF IsDelta

\* There is only one.
LEMMA DeltaUnique ==
  ASSUME NEW p, NEW b, NEW x \in Nat, NEW y, NEW z, IsDelta(p, b, x, y), IsDelta(p, b, x, z)
  PROVE  y = z
<1>1. ASSUME NEW u, NEW v, IsDelta(p, b, x, u), IsDelta(p, b, x, v) PROVE u <= v
  <2>1. CASE u = 0
    BY <1>1, <2>1 DEF IsDelta
  <2>2. CASE u # 0
    <3>1. u - 1 \in 0..x /\ u - 1 + 1 = u /\ Ends(p, u - 1, p, x) /\ b = p[u]
      BY <1>1, <2>2 DEF IsDelta
    <3> QED
      BY <1>1, <3>1 DEF IsDelta
  <2> QED
    BY <2>1, <2>2
<1>2. y \in Nat /\ z \in Nat
  BY DEF IsDelta
<1> QED
  BY <1>1, <1>2

\* The loop that falls back along a table, of buildKMPPrefixTable and feedByte.
FallBack(p, b, f, q) ==
  LET next[x \in 0..q] == IF b = p[x + 1] THEN x + 1 ELSE IF x = 0 THEN 0 ELSE next[f[x]]
  IN  next

\* Falling back from border to border finds it.
LEMMA FallBackIsDelta ==
  ASSUME NEW p, NEW b, NEW q \in Nat, NEW f, \A j \in 1..q : IsBorder(p, j, f[j])
  PROVE  \A x \in 0..q : IsDelta(p, b, x, FallBack(p, b, f, q)[x])
<1> DEFINE body(h) == [x \in 0..q |-> IF b = p[x + 1] THEN x + 1 ELSE IF x = 0 THEN 0 ELSE h[f[x]]]
           w == [x \in 0..q |-> CHOOSE y : IsDelta(p, b, x, y)]
           next == CHOOSE h : h = body(h)
<1>1. \A x \in 0..q : IsDelta(p, b, x, w[x])
  BY DeltaExists
<1>2. \A x \in 1..q : f[x] \in 0..x - 1
  BY DEF IsBorder
<1>3. ASSUME NEW h, NEW x \in 0..q, x # 0 => IsDelta(p, b, f[x], h[f[x]])
      PROVE  IsDelta(p, b, x, body(h)[x])
  <2>1. CASE b = p[x + 1]
    <3>1. body(h)[x] = x + 1
      BY <2>1
    <3> QED
      BY <2>1, <3>1, DeltaHere
  <2>2. CASE b # p[x + 1] /\ x = 0
    <3>1. body(h)[x] = 0
      BY <2>2
    <3>2. b # p[1]
      BY <2>2
    <3> QED
      BY <2>2, <3>1, <3>2, DeltaNone
  <2>3. CASE b # p[x + 1] /\ x # 0
    <3>1. body(h)[x] = h[f[x]]
      BY <2>3
    <3>2. IsBorder(p, x, f[x]) /\ x \in Nat
      BY <2>3
    <3> HIDE DEF body
    <3> QED
      BY <1>3, <2>3, <3>1, <3>2, DeltaBack
  <2> QED
    BY <2>1, <2>2, <2>3
<1>4. w = body(w)
  <2>1. ASSUME NEW x \in 0..q PROVE w[x] = body(w)[x]
    <3>1. x # 0 => IsDelta(p, b, f[x], w[f[x]])
      BY <1>1, <1>2
    <3> HIDE DEF w, body
    <3>2. IsDelta(p, b, x, body(w)[x])
      BY <1>3, <3>1
    <3> QED
      BY <1>1, <3>2, DeltaUnique
  <2>2. w = [x \in 0..q |-> w[x]] /\ body(w) = [x \in 0..q |-> body(w)[x]]
    OBVIOUS
  <2> HIDE DEF w, body
  <2> QED
    BY <2>1, <2>2
<1>5. next = body(next)
  <2> HIDE DEF body, w
  <2> QED
    BY <1>4
<1>6. FallBack(p, b, f, q) = next
  BY DEF FallBack
<1> HIDE DEF next
<1> DEFINE Good == {x \in 0..q : IsDelta(p, b, x, next[x])}
<1>7. ASSUME NEW x \in 0..q, \A j \in 0..x - 1 : j \in Good PROVE x \in Good
  <2>1. x # 0 => f[x] \in Good
    BY <1>2, <1>7
  <2>2. x # 0 => IsDelta(p, b, f[x], next[f[x]])
    BY <2>1
  <2> HIDE DEF body
  <2>3. IsDelta(p, b, x, body(next)[x])
    BY <1>3, <2>2
  <2> QED
    BY <1>5, <2>3
<1>8. \A x \in 0..q : x \in Good
  <2> HIDE DEF Good
  <2> QED
    BY <1>7, Strong
<1> QED
  BY <1>6, <1>8

\* A border of i bytes is one of i - 1 bytes, and a byte.
LEMMA BorderStep ==
  ASSUME NEW p, NEW i \in Nat, i > 1, NEW z, IsBorder(p, i - 1, z), NEW y, IsDelta(p, p[i], z, y)
  PROVE  IsBorder(p, i, y)
<1>1. z \in 0..i - 2 /\ z \in Nat /\ Ends(p, z, p, i - 1) /\ i - 1 \in Nat
  BY DEF IsBorder
<1>2. y \in 0..i - 1
  BY <1>1 DEF IsDelta
<1>3. ASSUME NEW k \in 1..i - 1
      PROVE  Ends(p, k, p, i) <=> Ends(p, k - 1, p, i - 1) /\ p[i] = p[k]
  <2>1. \A j \in 1..k : j = k \/ j \in 1..k - 1
    OBVIOUS
  <2>2. k \in 1..k /\ 1..k - 1 \subseteq 1..k /\ i - k + k = i /\ \A j : i - 1 - (k - 1) + j = i - k + j
    OBVIOUS
  <2> QED
    BY <2>1, <2>2 DEF Ends
<1>4. Ends(p, y, p, i)
  <2>1. CASE y = 0
    BY <2>1 DEF Ends
  <2>2. CASE y # 0
    <3>1. y \in 1..i - 1 /\ y - 1 \in 0..z /\ Ends(p, y - 1, p, z) /\ p[i] = p[y]
      BY <1>1, <1>2, <2>2 DEF IsDelta
    <3>2. Ends(p, y - 1, p, i - 1)
      BY <1>1, <3>1, EndsWithin
    <3> QED
      BY <1>3, <3>1, <3>2
  <2> QED
    BY <2>1, <2>2
<1>5. ASSUME NEW k \in 0..i - 1, Ends(p, k, p, i) PROVE k <= y
  <2>1. CASE k = 0
    BY <1>2, <2>1
  <2>2. CASE k # 0
    <3>1. k \in 1..i - 1 /\ k - 1 \in 0..i - 2 /\ k - 1 + 1 = k
      BY <2>2
    <3>2. Ends(p, k - 1, p, i - 1) /\ p[i] = p[k]
      BY <1>3, <1>5, <3>1
    <3>3. k - 1 \in 0..z
      BY <1>1, <3>1, <3>2 DEF IsBorder
    <3>4. Ends(p, k - 1, p, z)
      BY <1>1, <3>2, <3>3, EndsWithin
    <3> QED
      BY <3>1, <3>2, <3>3, <3>4 DEF IsDelta
  <2> QED
    BY <2>1, <2>2
<1> QED
  BY <1>2, <1>4, <1>5 DEF IsBorder

\* Every part of the needle has a longest border.
LEMMA BorderExists ==
  ASSUME NEW p, NEW i \in Nat, i > 0
  PROVE  \E y : IsBorder(p, i, y)
<1> DEFINE S == {k \in 0..i - 1 : Ends(p, k, p, i)}
<1>1. 0 \in S
  BY DEF Ends
<1>2. PICK y \in S : \A k \in S : k <= y
  <2>1. S \subseteq 0..i - 1 /\ i - 1 \in Nat
    OBVIOUS
  <2> HIDE DEF S
  <2> QED
    BY <1>1, <2>1, Greatest
<1> QED
  BY <1>2 DEF IsBorder

\* It has only one.
LEMMA BorderUnique ==
  ASSUME NEW p, NEW i \in Nat, NEW y, NEW z, IsBorder(p, i, y), IsBorder(p, i, z)
  PROVE  y = z
BY DEF IsBorder

\* The table that kmpPrefixTable builds holds the longest border of every part.
LEMMA TableIsBorder ==
  ASSUME NEW S, NEW p \in Seq(S)
  PROVE  \A i \in 1..Len(p) : IsBorder(p, i, KMPPrefixTable(p)[i])
<1> DEFINE n == Len(p)
           body(f) == [i \in 1..n |-> IF i = 1 THEN 0 ELSE FallBack(p, p[i], f, i - 1)[f[i - 1]]]
           w == [i \in 1..n |-> CHOOSE y : IsBorder(p, i, y)]
           lps == CHOOSE f : f = body(f)
<1>1. n \in Nat /\ DOMAIN p = 1..n
  OBVIOUS
<1>2. \A i \in 1..n : IsBorder(p, i, w[i])
  BY BorderExists
<1>3. ASSUME NEW f, NEW i \in 1..n, \A j \in 1..i - 1 : IsBorder(p, j, f[j])
      PROVE  IsBorder(p, i, body(f)[i])
  <2>1. CASE i = 1
    <3>1. body(f)[i] = 0
      BY <2>1
    <3>2. IsBorder(p, 1, 0)
      BY DEF IsBorder, Ends
    <3> QED
      BY <2>1, <3>1, <3>2
  <2>2. CASE i # 1
    <3>1. body(f)[i] = FallBack(p, p[i], f, i - 1)[f[i - 1]]
      BY <2>2
    <3>2. i \in Nat /\ i > 1 /\ i - 1 \in Nat /\ i - 1 \in 1..i - 1 /\ IsBorder(p, i - 1, f[i - 1])
      BY <1>3, <2>2
    <3>3. f[i - 1] \in 0..i - 1
      BY <3>2 DEF IsBorder
    <3>4. IsDelta(p, p[i], f[i - 1], FallBack(p, p[i], f, i - 1)[f[i - 1]])
      BY <1>3, <3>2, <3>3, FallBackIsDelta
    <3> HIDE DEF body
    <3> QED
      BY <3>1, <3>2, <3>4, BorderStep
  <2> QED
    BY <2>1, <2>2
<1>4. w = body(w)
  <2>1. ASSUME NEW i \in 1..n PROVE w[i] = body(w)[i]
    <3> HIDE DEF w, body
    <3>1. \A j \in 1..i - 1 : IsBorder(p, j, w[j])
      BY <1>1, <1>2
    <3>2. IsBorder(p, i, body(w)[i])
      BY <1>3, <3>1
    <3> QED
      BY <1>1, <1>2, <3>2, BorderUnique
  <2>2. w = [i \in 1..n |-> w[i]] /\ body(w) = [i \in 1..n |-> body(w)[i]]
    OBVIOUS
  <2> HIDE DEF w, body
  <2> QED
    BY <2>1, <2>2
<1>5. lps = body(lps)
  <2> HIDE DEF body, w
  <2> QED
    BY <1>4
<1>6. KMPPrefixTable(p) = lps
  BY DEF KMPPrefixTable, FallBack
<1> HIDE DEF lps
<1> DEFINE Good == {i \in 0..n : i = 0 \/ IsBorder(p, i, lps[i])}
<1>7. ASSUME NEW i \in 0..n, \A j \in 0..i - 1 : j \in Good PROVE i \in Good
  <2>1. CASE i = 0
    BY <2>1
  <2>2. CASE i # 0
    <3>1. i \in 1..n /\ \A j \in 1..i - 1 : j \in 0..i - 1 /\ j # 0
      BY <2>2
    <3>2. \A j \in 1..i - 1 : IsBorder(p, j, lps[j])
      BY <1>7, <3>1
    <3> HIDE DEF body
    <3>3. IsBorder(p, i, body(lps)[i])
      BY <1>3, <3>1, <3>2
    <3> QED
      BY <1>5, <3>1, <3>3
  <2> QED
    BY <2>1, <2>2
<1>8. \A i \in 0..n : i \in Good
  <2> HIDE DEF Good, n
  <2> QED
    BY <1>1, <1>7, Strong
<1> QED
  BY <1>6, <1>8

\* A byte that is fed leaves the longest part of the needle begun.
LEMMA KMPNextIsDelta ==
  ASSUME NEW S, NEW needle \in Seq(S), NEW pos \in 0..Len(needle) - 1, NEW b
  PROVE  IsDelta(needle, b, pos, KMPNext(needle, pos, b))
<1>1. Len(needle) - 1 \in Nat /\ \A j \in 1..Len(needle) - 1 : j \in 1..Len(needle)
  OBVIOUS
<1>2. \A j \in 1..Len(needle) - 1 : IsBorder(needle, j, KMPPrefixTable(needle)[j])
  BY <1>1, TableIsBorder
<1>3. KMPNext(needle, pos, b) = FallBack(needle, b, KMPPrefixTable(needle), Len(needle) - 1)[pos]
  BY DEF KMPNext, FallBack
<1> QED
  BY <1>1, <1>2, <1>3, FallBackIsDelta

--------------------------------------------------------------------------------
(* Several needles.                                                            *)

\* The characters; the provers do not find that these are some.
Bytes == STRING \cup {"a", "b", "D", "E"}
Texts == Seq(Bytes)

\* Sequences of one length with the same elements are equal.
LEMMA SameSequence ==
  ASSUME NEW S, NEW s \in Seq(S), NEW t \in Seq(S), Len(s) = Len(t), \A i \in 1..Len(s) : s[i] = t[i]
  PROVE  s = t
OBVIOUS

\* u is the end of t.
EndOf(u, t) == Ends(u, Len(u), t, Len(t))

\* Ends of a text that are as long are the same.
LEMMA EndsEqual ==
  ASSUME NEW t, Len(t) \in Nat, NEW u \in Texts, NEW v \in Texts, EndOf(u, t), EndOf(v, t), Len(u) = Len(v)
  PROVE  u = v
<1>1. \A i \in 1..Len(u) : u[i] = v[i]
  BY DEF EndOf, Ends, Texts
<1> QED
  BY <1>1, SameSequence DEF Texts

\* Of two ends of a text the shorter is an end of the longer.
LEMMA EndNested ==
  ASSUME NEW t, Len(t) \in Nat, NEW u \in Texts, NEW v \in Texts, EndOf(v, t), Len(u) <= Len(v)
  PROVE  EndOf(u, t) <=> EndOf(u, v)
<1>1. Len(u) \in 0..Len(v) /\ Len(v) \in Nat /\ Len(v) <= Len(t)
  BY DEF Texts, EndOf, Ends
<1>2. ASSUME NEW i \in 1..Len(u) PROVE t[Len(t) - Len(u) + i] = v[Len(v) - Len(u) + i]
  <2>1. Len(v) - Len(u) + i \in 1..Len(v)
        /\ Len(t) - Len(v) + (Len(v) - Len(u) + i) = Len(t) - Len(u) + i
    BY <1>1
  <2> QED
    BY <2>1 DEF EndOf, Ends
<1>3. EndOf(v, t) <=> \A i \in 1..Len(v) : t[Len(t) - Len(v) + i] = v[i]
  BY <1>1 DEF EndOf, Ends
<1>4. EndOf(u, t) <=> \A i \in 1..Len(u) : t[Len(t) - Len(u) + i] = u[i]
  BY <1>1 DEF EndOf, Ends
<1>5. EndOf(u, v) <=> \A i \in 1..Len(u) : v[Len(v) - Len(u) + i] = u[i]
  BY <1>1 DEF EndOf, Ends
<1> QED
  BY <1>2, <1>4, <1>5

\* What a sequence is when an element is added.
LEMMA AppendFacts ==
  ASSUME NEW S, NEW t \in Seq(S), NEW b \in S
  PROVE  /\ Append(t, b) \in Seq(S) /\ Len(t) \in Nat /\ Len(Append(t, b)) = Len(t) + 1
         /\ \A i \in 1..Len(t) : Append(t, b)[i] = t[i]
         /\ Append(t, b)[Len(t) + 1] = b
OBVIOUS

\* Less than one byte is none.
LEMMA OneLeft ==
  ASSUME NEW k \in Nat, k - 1 \in Nat, k <= 1
  PROVE  k - 1 = 0
OBVIOUS

SameUpTo(f, g, n) == \A i \in 1..n : f[i] = g[i]

\* A byte that is added to both is the last of the end.
LEMMA EndsAppend ==
  ASSUME NEW u, NEW s, NEW ub, NEW sc, NEW m \in Nat, NEW j \in Nat,
         SameUpTo(ub, u, m), SameUpTo(sc, s, j)
  PROVE  Ends(ub, m + 1, sc, j + 1) <=> Ends(u, m, s, j) /\ ub[m + 1] = sc[j + 1]
<1>1. \A i : i \in 1..m + 1 <=> i \in 1..m \/ i = m + 1
  OBVIOUS
<1>2. j + 1 - (m + 1) + (m + 1) = j + 1 /\ m + 1 <= j + 1 <=> m <= j
  OBVIOUS
<1>3. ASSUME m <= j, NEW i \in 1..m PROVE sc[j + 1 - (m + 1) + i] = s[j - m + i] /\ ub[i] = u[i]
  <2>1. j + 1 - (m + 1) + i = j - m + i /\ j - m + i \in 1..j
    BY <1>3
  <2> QED
    BY <2>1 DEF SameUpTo
<1>4. ASSUME Ends(ub, m + 1, sc, j + 1) PROVE Ends(u, m, s, j) /\ ub[m + 1] = sc[j + 1]
  <2>1. m <= j /\ \A i \in 1..m + 1 : sc[j + 1 - (m + 1) + i] = ub[i]
    BY <1>4 DEF Ends
  <2>2. m + 1 \in 1..m + 1 /\ 1..m \subseteq 1..m + 1 /\ j + 1 - (m + 1) + (m + 1) = j + 1
    OBVIOUS
  <2>3. \A i \in 1..m : s[j - m + i] = u[i]
    BY <1>3, <2>1, <2>2
  <2> QED
    BY <2>1, <2>2, <2>3 DEF Ends
<1>5. ASSUME Ends(u, m, s, j), ub[m + 1] = sc[j + 1] PROVE Ends(ub, m + 1, sc, j + 1)
  <2>1. m <= j /\ \A i \in 1..m : s[j - m + i] = u[i]
    BY <1>5 DEF Ends
  <2>2. j + 1 - (m + 1) + (m + 1) = j + 1
    OBVIOUS
  <2>3. \A i \in 1..m + 1 : sc[j + 1 - (m + 1) + i] = ub[i]
    BY <1>1, <1>3, <1>5, <2>1, <2>2
  <2> QED
    BY <2>1, <2>3 DEF Ends
<1> QED
  BY <1>4, <1>5

\* The same of sequences.
LEMMA EndAppend ==
  ASSUME NEW u \in Texts, NEW t \in Texts, NEW b \in Bytes, NEW c \in Bytes
  PROVE  EndOf(Append(u, b), Append(t, c)) <=> EndOf(u, t) /\ b = c
<1> DEFINE ub == Append(u, b)
           tc == Append(t, c)
<1>1. /\ Len(u) \in Nat /\ Len(ub) = Len(u) + 1
      /\ SameUpTo(ub, u, Len(u))
      /\ ub[Len(u) + 1] = b
  BY AppendFacts DEF Texts, SameUpTo
<1>2. /\ Len(t) \in Nat /\ Len(tc) = Len(t) + 1
      /\ SameUpTo(tc, t, Len(t))
      /\ tc[Len(t) + 1] = c
  BY AppendFacts DEF Texts, SameUpTo
<1> HIDE DEF ub, tc
<1>3. Ends(ub, Len(u) + 1, tc, Len(t) + 1) <=> Ends(u, Len(u), t, Len(t)) /\ ub[Len(u) + 1] = tc[Len(t) + 1]
  <2> DEFINE m == Len(u)
             j == Len(t)
  <2>1. m \in Nat /\ j \in Nat /\ SameUpTo(ub, u, m) /\ SameUpTo(tc, t, j)
    BY <1>1, <1>2
  <2> HIDE DEF m, j
  <2>2. Ends(ub, m + 1, tc, j + 1) <=> Ends(u, m, t, j) /\ ub[m + 1] = tc[j + 1]
    BY <2>1, EndsAppend
  <2> QED
    BY <2>2 DEF m, j
<1>4. EndOf(ub, tc) <=> EndOf(u, t) /\ b = c
  BY <1>1, <1>2, <1>3 DEF EndOf
<1> QED
  BY <1>4 DEF ub, tc

\* The empty text ends every text.
LEMMA EmptyEnd ==
  ASSUME NEW t, Len(t) \in Nat
  PROVE  EndOf(<<>>, t)
BY DEF EndOf, Ends

\* A text is an end of itself.
LEMMA EndSelf ==
  ASSUME NEW t \in Texts
  PROVE  EndOf(t, t)
BY DEF EndOf, Ends, Texts

\* A text is what precedes its last byte, and that byte.
LEMMA FrontLast ==
  ASSUME NEW t \in Texts, t # <<>>
  PROVE  /\ Front(t) \in Texts /\ Last(t) \in Bytes /\ t = Append(Front(t), Last(t))
         /\ Len(Front(t)) = Len(t) - 1 /\ Len(t) > 0
<1>1. t \in Seq(Bytes) /\ Len(t) \in Nat /\ Len(t) > 0 /\ Len(t) \in 0..Len(t) /\ Len(t) - 1 \in 0..Len(t)
  BY DEF Texts
<1>2. Above(t, Len(t)) = t /\ Front(t) = Above(t, Len(t) - 1) /\ Last(t) = t[Len(t)]
  BY <1>1, AboveFacts
<1>3. Front(t) \in Texts /\ Len(Front(t)) = Len(t) - 1 /\ \A i \in 1..Len(t) - 1 : Front(t)[i] = t[i]
  <2> DEFINE m == Len(t) - 1
  <2>1. m \in 0..Len(t)
    BY <1>1
  <2> HIDE DEF m
  <2>2. Above(t, m) \in Seq(Bytes) /\ Len(Above(t, m)) = m /\ \A i \in 1..m : Above(t, m)[i] = t[i]
    BY <1>1, <2>1, AboveFacts
  <2> QED
    BY <1>2, <2>2 DEF Texts, m
<1>4. Last(t) \in Bytes
  BY <1>1, <1>2
<1>5. /\ Append(Front(t), Last(t)) \in Texts /\ Len(Append(Front(t), Last(t))) = Len(t)
      /\ \A i \in 1..Len(t) - 1 : Append(Front(t), Last(t))[i] = t[i]
      /\ Append(Front(t), Last(t))[Len(t)] = t[Len(t)]
  BY <1>1, <1>2, <1>3, <1>4, AppendFacts DEF Texts
<1>6. \A i \in 1..Len(t) : i = Len(t) \/ i \in 1..Len(t) - 1
  BY <1>1
<1>7. t = Append(Front(t), Last(t))
  BY <1>1, <1>5, <1>6, SameSequence DEF Texts
<1> QED
  BY <1>1, <1>3, <1>4, <1>7

\* The states: what needles begin with.
IsTrie(T, al) ==
  /\ T \subseteq Texts /\ <<>> \in T
  /\ \A u \in T : u # <<>> => Front(u) \in T /\ Last(u) \in al

\* The states of the automaton are closed under taking the first bytes.
LEMMA TrieFacts ==
  ASSUME NEW needles \in SUBSET Texts, needles # {}
  PROVE  IsTrie(Trie(needles), Alphabet(needles)) /\ needles \subseteq Trie(needles)
<1>1. \A n \in needles : \A k \in 0..Len(n) :
        SubSeq(n, 1, k) \in Trie(needles) /\ SubSeq(n, 1, k) \in Texts /\ Len(SubSeq(n, 1, k)) = k
  BY DEF Trie, Prefixes, Texts
<1>2. \A u \in Trie(needles) : \E n \in needles : \E k \in 0..Len(n) : u = SubSeq(n, 1, k)
  BY DEF Trie, Prefixes
<1>3. Trie(needles) \subseteq Texts
  BY <1>1, <1>2
<1>4. <<>> \in Trie(needles)
  <2>1. PICK n \in needles : TRUE
    OBVIOUS
  <2>2. 0 \in 0..Len(n) /\ SubSeq(n, 1, 0) = <<>>
    BY DEF Texts
  <2> QED
    BY <1>1, <2>1, <2>2
<1>5. ASSUME NEW n \in needles PROVE n \in Trie(needles)
  <2>1. Len(n) \in 0..Len(n) /\ SubSeq(n, 1, Len(n)) = n
    BY DEF Texts
  <2> QED
    BY <1>1, <2>1
<1>6. ASSUME NEW u \in Trie(needles), u # <<>> PROVE Front(u) \in Trie(needles) /\ Last(u) \in Alphabet(needles)
  <2>0. PICK n \in needles : \E k \in 0..Len(n) : u = SubSeq(n, 1, k)
    BY <1>2
  <2>1. PICK k \in 0..Len(n) : u = SubSeq(n, 1, k)
    BY <2>0
  <2>2. n \in Seq(Bytes) /\ Len(u) = k /\ k # 0
    BY <1>6, <2>1 DEF Texts
  <2>3. k - 1 \in 0..Len(n) /\ k \in 1..Len(n)
    BY <2>2
  <2>4. Front(u) = SubSeq(n, 1, k - 1)
    <3>1. SubSeq(n, 1, k - 1) \in Seq(Bytes) /\ Len(SubSeq(n, 1, k - 1)) = k - 1
          /\ \A i \in 1..k - 1 : SubSeq(n, 1, k - 1)[i] = n[i]
      BY <2>2, <2>3
    <3>2. Front(u) \in Seq(Bytes) /\ Len(Front(u)) = k - 1 /\ \A i \in 1..k - 1 : Front(u)[i] = u[i]
      BY <1>3, <1>6, <2>2, <2>3 DEF Front, Texts
    <3>3. \A i \in 1..k - 1 : u[i] = n[i]
      BY <2>1, <2>2
    <3> QED
      BY <3>1, <3>2, <3>3, SameSequence
  <2>5. Last(u) = n[k]
    BY <2>1, <2>2, <2>3 DEF Last
  <2>6. n[k] \in Range(n)
    BY <2>2, <2>3 DEF Range
  <2> QED
    BY <1>1, <2>1, <2>3, <2>4, <2>5, <2>6 DEF Alphabet
<1> QED
  BY <1>3, <1>4, <1>5, <1>6 DEF IsTrie

\* The longest state, of at most max bytes, that a text ends with.
IsLongest(T, t, max, r) ==
  /\ r \in T /\ EndOf(r, t) /\ Len(r) <= max
  /\ \A u \in T : EndOf(u, t) /\ Len(u) <= max => Len(u) <= Len(r)

\* Some state is the longest that ends a text.
LEMMA LongestExists ==
  ASSUME NEW T, T \subseteq Texts, <<>> \in T, NEW t, Len(t) \in Nat, NEW max \in Nat
  PROVE  \E r : IsLongest(T, t, max, r)
<1> DEFINE S == {k \in 0..max : \E u \in T : EndOf(u, t) /\ Len(u) = k}
<1>1. 0 \in S
  BY EmptyEnd
<1>2. PICK k \in S : \A j \in S : j <= k
  <2>1. S \subseteq 0..max
    OBVIOUS
  <2> HIDE DEF S
  <2> QED
    BY <1>1, <2>1, Greatest
<1>3. PICK r \in T : EndOf(r, t) /\ Len(r) = k
  OBVIOUS
<1>4. ASSUME NEW u \in T, EndOf(u, t), Len(u) <= max PROVE Len(u) <= Len(r)
  <2>1. Len(u) \in S
    BY <1>4 DEF Texts
  <2> QED
    BY <1>2, <1>3, <2>1
<1> QED
  BY <1>3, <1>4 DEF IsLongest

\* Only one is.
LEMMA LongestUnique ==
  ASSUME NEW T, T \subseteq Texts, NEW t, Len(t) \in Nat, NEW max, NEW r, NEW s,
         IsLongest(T, t, max, r), IsLongest(T, t, max, s)
  PROVE  r = s
<1>1. r \in Texts /\ s \in Texts /\ EndOf(r, t) /\ EndOf(s, t) /\ Len(r) <= Len(s) /\ Len(s) <= Len(r)
  BY DEF IsLongest
<1>2. Len(r) = Len(s)
  BY <1>1 DEF Texts
<1> QED
  BY <1>1, <1>2, EndsEqual

\* The states that fail, back and next of a state name.
StateFail(T, s) == IF Len(s) <= 1 THEN <<>> ELSE CHOOSE r : IsLongest(T, s, Len(s) - 1, r)
StateBack(T, s, b) == CHOOSE r : IsLongest(T, Append(s, b), Len(s), r)
StateNext(T, s, b) == CHOOSE r : IsLongest(T, Append(s, b), Len(s) + 1, r)
StateOf(T, al, s) ==
  [fail |-> StateFail(T, s), back |-> [b \in al |-> StateBack(T, s, b)], next |-> [b \in al |-> StateNext(T, s, b)]]

\* What a state of the automaton consists of.
LEMMA StateFields ==
  ASSUME NEW T, NEW al, NEW s
  PROVE  /\ StateOf(T, al, s).fail = StateFail(T, s)
         /\ \A b \in al : StateOf(T, al, s).back[b] = StateBack(T, s, b)
                         /\ StateOf(T, al, s).next[b] = StateNext(T, s, b)
BY DEF StateOf

\* The links of a state lead to the longest states that they can.
LEMMA StateLongest ==
  ASSUME NEW T, NEW al, IsTrie(T, al), NEW s \in T
  PROVE  /\ s # <<>> => IsLongest(T, s, Len(s) - 1, StateFail(T, s))
         /\ s = <<>> => StateFail(T, s) = <<>>
         /\ \A b \in Bytes : /\ IsLongest(T, Append(s, b), Len(s), StateBack(T, s, b))
                              /\ IsLongest(T, Append(s, b), Len(s) + 1, StateNext(T, s, b))
<1>1. T \subseteq Texts /\ <<>> \in T /\ s \in Texts /\ Len(s) \in Nat
  BY DEF IsTrie, Texts
<1>2. ASSUME s # <<>> PROVE IsLongest(T, s, Len(s) - 1, StateFail(T, s))
  <2>1. Len(s) - 1 \in Nat
    BY <1>1, <1>2 DEF Texts
  <2>2. CASE Len(s) <= 1
    <3>1. StateFail(T, s) = <<>>
      BY <2>2 DEF StateFail
    <3>2. EndOf(<<>>, s) /\ Len(<<>>) = 0
      BY <1>1, EmptyEnd
    <3>3. IsLongest(T, s, 0, <<>>)
      BY <1>1, <3>2 DEF IsLongest
    <3>4. Len(s) - 1 = 0
      BY <1>1, <2>1, <2>2, OneLeft
    <3> QED
      BY <3>1, <3>3, <3>4
  <2>3. CASE ~(Len(s) <= 1)
    <3>1. \E r : IsLongest(T, s, Len(s) - 1, r)
      BY <1>1, <2>1, LongestExists
    <3>2. StateFail(T, s) = CHOOSE r : IsLongest(T, s, Len(s) - 1, r)
      BY <2>3 DEF StateFail
    <3> QED
      BY <3>1, <3>2
  <2> QED
    BY <2>2, <2>3
<1>3. s = <<>> => StateFail(T, s) = <<>>
  BY DEF StateFail
<1>4. ASSUME NEW b \in Bytes
      PROVE  /\ IsLongest(T, Append(s, b), Len(s), StateBack(T, s, b))
             /\ IsLongest(T, Append(s, b), Len(s) + 1, StateNext(T, s, b))
  <2>1. Len(Append(s, b)) \in Nat /\ Len(s) + 1 \in Nat
    BY <1>1 DEF Texts
  <2>2. \E r : IsLongest(T, Append(s, b), Len(s), r)
    BY <1>1, <2>1, LongestExists
  <2>3. \E r : IsLongest(T, Append(s, b), Len(s) + 1, r)
    BY <1>1, <2>1, LongestExists
  <2> QED
    BY <2>2, <2>3 DEF StateBack, StateNext
<1> QED
  BY <1>2, <1>3, <1>4

\* What ends in s and b, short of both, is found from the longest end of s.
LEMMA LongestBack ==
  ASSUME NEW T, NEW al, IsTrie(T, al), NEW t \in Texts, NEW max \in Nat, NEW f, IsLongest(T, t, max, f),
         NEW b \in Bytes, NEW r, IsLongest(T, Append(f, b), Len(f) + 1, r)
  PROVE  IsLongest(T, Append(t, b), max + 1, r)
<1>1. /\ T \subseteq Texts /\ f \in Texts /\ r \in T /\ EndOf(f, t) /\ Len(f) <= max
      /\ EndOf(r, Append(f, b)) /\ Len(r) <= Len(f) + 1
      /\ \A u \in T : EndOf(u, Append(f, b)) /\ Len(u) <= Len(f) + 1 => Len(u) <= Len(r)
      /\ \A u \in T : EndOf(u, t) /\ Len(u) <= max => Len(u) <= Len(f)
      /\ \A u \in T : u # <<>> => Front(u) \in T
  BY DEF IsLongest, IsTrie
<1>2. EndOf(Append(f, b), Append(t, b))
  BY <1>1, EndAppend
<1>3. Len(t) \in Nat /\ Len(f) \in Nat /\ \A u \in T : u \in Texts /\ Len(u) \in Nat
  BY <1>1 DEF Texts
<1> DEFINE tb == Append(t, b)
           fb == Append(f, b)
<1>4. tb \in Texts /\ Len(tb) = Len(t) + 1 /\ fb \in Texts /\ Len(fb) = Len(f) + 1
  BY <1>1, AppendFacts DEF Texts
<1>5. EndOf(r, tb) /\ Len(r) <= max + 1
  <2> HIDE DEF tb, fb
  <2>1. EndOf(fb, tb) /\ EndOf(r, fb) /\ Len(r) <= Len(fb) /\ Len(tb) \in Nat /\ r \in Texts
    BY <1>1, <1>2, <1>3, <1>4 DEF tb, fb
  <2>2. EndOf(r, tb)
    BY <1>4, <2>1, EndNested
  <2> QED
    BY <1>1, <1>3, <2>2
<1>6. ASSUME NEW u \in T, EndOf(u, tb), Len(u) <= max + 1 PROVE Len(u) <= Len(r)
  <2>1. CASE u = <<>>
    BY <1>1, <1>3, <2>1
  <2>2. CASE u # <<>>
    <3>1. PICK v \in T, c \in Bytes : u = Append(v, c) /\ Len(v) = Len(u) - 1
      BY <1>1, <1>3, <2>2, FrontLast
    <3>2. v \in Texts /\ Len(v) \in Nat /\ Len(u) \in Nat
      BY <1>3
    <3>3. EndOf(v, t) /\ c = b
      BY <1>6, <3>1, <3>2, EndAppend
    <3>4. Len(v) <= Len(f)
      BY <1>1, <1>6, <3>1, <3>2, <3>3
    <3>5. EndOf(v, f)
      BY <1>1, <1>3, <3>2, <3>3, <3>4, EndNested
    <3>6. EndOf(u, fb)
      BY <1>1, <3>1, <3>2, <3>3, <3>5, EndAppend
    <3>7. Len(u) <= Len(f) + 1
      BY <1>3, <3>1, <3>2, <3>4
    <3> QED
      BY <1>1, <3>6, <3>7
  <2> QED
    BY <2>1, <2>2
<1> HIDE DEF tb
<1>7. IsLongest(T, tb, max + 1, r)
  BY <1>1, <1>5, <1>6 DEF IsLongest
<1> QED
  BY <1>7 DEF tb

\* One state of the automaton, from the others.
NodeAt(node, T, al, s) ==
  LET fail == IF Len(s) <= 1 THEN <<>> ELSE node[Front(s)].back[Last(s)]
      Through(b) == IF s = <<>> THEN <<>> ELSE node[fail].next[b]
  IN  [fail |-> fail,
       back |-> [b \in al |-> Through(b)],
       next |-> [b \in al |-> IF Append(s, b) \in T THEN Append(s, b) ELSE Through(b)]]

\* A state is right if the shorter ones are.
LEMMA StateStep ==
  ASSUME NEW T, NEW al, IsTrie(T, al), al \subseteq Bytes, NEW s \in T, NEW node,
         \A u \in T : Len(u) < Len(s) => node[u] = StateOf(T, al, u)
  PROVE  NodeAt(node, T, al, s) = StateOf(T, al, s)
<1> DEFINE fail == IF Len(s) <= 1 THEN <<>> ELSE node[Front(s)].back[Last(s)]
           Through(b) == IF s = <<>> THEN <<>> ELSE node[fail].next[b]
<1>1. /\ T \subseteq Texts /\ <<>> \in T /\ s \in Texts /\ Len(s) \in Nat
      /\ \A b \in Bytes : Append(s, b) \in Texts /\ Len(Append(s, b)) = Len(s) + 1
  <2>1. T \subseteq Texts /\ <<>> \in T /\ s \in Texts /\ Len(s) \in Nat
    BY DEF IsTrie, Texts
  <2> QED
    BY <2>1, AppendFacts DEF Texts
<1>2. fail = StateFail(T, s)
  <2>1. CASE Len(s) <= 1
    BY <2>1 DEF StateFail
  <2>2. CASE ~(Len(s) <= 1)
    <3>1. s # <<>>
      BY <2>2
    <3>2. /\ Front(s) \in T /\ Last(s) \in al /\ s = Append(Front(s), Last(s))
          /\ Len(Front(s)) = Len(s) - 1 /\ Len(Front(s)) < Len(s)
      BY <1>1, <3>1, FrontLast DEF IsTrie
    <3>3. node[Front(s)] = StateOf(T, al, Front(s))
      BY <3>2
    <3>4. node[Front(s)].back[Last(s)] = StateBack(T, Front(s), Last(s))
      BY <3>2, <3>3 DEF StateOf
    <3>5. StateBack(T, Front(s), Last(s)) = CHOOSE r : IsLongest(T, s, Len(s) - 1, r)
      BY <3>2 DEF StateBack
    <3> QED
      BY <2>2, <3>4, <3>5 DEF StateFail
  <2> QED
    BY <2>1, <2>2
<1>3. ASSUME NEW b \in al PROVE Through(b) = StateBack(T, s, b)
  <2>1. IsLongest(T, Append(s, b), Len(s), StateBack(T, s, b)) /\ b \in Bytes
    BY StateLongest
  <2>2. IsLongest(T, Append(s, b), Len(s), Through(b))
    <3>1. CASE s = <<>>
      <4>1. Through(b) = <<>> /\ Len(s) = 0 /\ Len(<<>>) = 0
        BY <3>1
      <4>2. EndOf(<<>>, Append(s, b))
        BY <1>1, <2>1, EmptyEnd
      <4> HIDE DEF Through
      <4> QED
        BY <1>1, <4>1, <4>2 DEF IsLongest
    <3>2. CASE s # <<>>
      <4> HIDE DEF fail
      <4>1. IsLongest(T, s, Len(s) - 1, fail)
        BY <1>2, <3>2, StateLongest
      <4>2. Len(s) - 1 \in Nat
        BY <1>1, <3>2, FrontLast
      <4>3. fail \in T /\ fail \in Texts /\ Len(fail) \in Nat /\ Len(fail) < Len(s)
        BY <1>1, <4>1, <4>2 DEF IsLongest, Texts
      <4>4. Through(b) = StateNext(T, fail, b)
        <5>1. node[fail] = StateOf(T, al, fail)
          BY <4>3
        <5>2. node[fail].next[b] = StateNext(T, fail, b)
          BY <5>1, StateFields
        <5> QED
          BY <3>2, <5>2
      <4>5. IsLongest(T, Append(fail, b), Len(fail) + 1, StateNext(T, fail, b))
        BY <2>1, <4>3, StateLongest
      <4>6. IsLongest(T, Append(s, b), Len(s) - 1 + 1, StateNext(T, fail, b))
        BY <1>1, <2>1, <4>1, <4>2, <4>5, LongestBack
      <4>7. Len(s) - 1 + 1 = Len(s)
        BY <1>1
      <4> QED
        BY <4>4, <4>6, <4>7
    <3> QED
      BY <3>1, <3>2
  <2> HIDE DEF Through
  <2>3. Len(Append(s, b)) \in Nat
    BY <1>1, <2>1
  <2> QED
    BY <1>1, <2>1, <2>2, <2>3, LongestUnique
<1>4. ASSUME NEW b \in al
      PROVE  (IF Append(s, b) \in T THEN Append(s, b) ELSE Through(b)) = StateNext(T, s, b)
  <2>1. IsLongest(T, Append(s, b), Len(s) + 1, StateNext(T, s, b)) /\ b \in Bytes
    BY StateLongest
  <2>2. IsLongest(T, Append(s, b), Len(s), StateBack(T, s, b))
    BY <2>1, StateLongest
  <2>3. Append(s, b) \in Texts /\ Len(Append(s, b)) = Len(s) + 1
    BY <1>1, <2>1
  <2>4. CASE Append(s, b) \in T
    <3>1. EndOf(Append(s, b), Append(s, b))
      BY <2>3, EndSelf
    <3>2. IsLongest(T, Append(s, b), Len(s) + 1, Append(s, b))
      BY <1>1, <2>3, <2>4, <3>1 DEF IsLongest
    <3>3. Len(Append(s, b)) \in Nat
      BY <1>1, <2>3
    <3> QED
      BY <1>1, <2>1, <2>4, <3>2, <3>3, LongestUnique
  <2>5. CASE Append(s, b) \notin T
    <3>1. ASSUME NEW u \in T, EndOf(u, Append(s, b)), Len(u) <= Len(s) + 1 PROVE Len(u) <= Len(s)
      <4>1. Len(u) \in Nat /\ u \in Texts
        BY <1>1 DEF Texts
      <4>2. Len(u) # Len(s) + 1
        <5>1. ASSUME Len(u) = Len(Append(s, b)) PROVE u = Append(s, b)
          <6>1. EndOf(Append(s, b), Append(s, b)) /\ Len(Append(s, b)) \in Nat
            BY <1>1, <2>3, EndSelf
          <6> QED
            BY <2>3, <3>1, <4>1, <5>1, <6>1, EndsEqual
        <5> QED
          BY <2>3, <2>5, <5>1
      <4> QED
        BY <1>1, <3>1, <4>1, <4>2
    <3>2. IsLongest(T, Append(s, b), Len(s) + 1, StateBack(T, s, b))
      <4>1. StateBack(T, s, b) \in T /\ Len(StateBack(T, s, b)) \in Nat
        BY <1>1, <2>2 DEF IsLongest, Texts
      <4> QED
        BY <1>1, <2>2, <3>1, <4>1 DEF IsLongest
    <3>3. StateBack(T, s, b) = StateNext(T, s, b)
      <4>1. Len(Append(s, b)) \in Nat
        BY <1>1, <2>3
      <4> QED
        BY <1>1, <2>1, <3>2, <4>1, LongestUnique
    <3> HIDE DEF Through
    <3> QED
      BY <1>3, <2>5, <3>3
  <2> QED
    BY <2>4, <2>5
<1>5. NodeAt(node, T, al, s) = [fail |-> fail, back |-> [b \in al |-> Through(b)],
        next |-> [b \in al |-> IF Append(s, b) \in T THEN Append(s, b) ELSE Through(b)]]
  BY DEF NodeAt
<1> HIDE DEF fail, Through
<1>6. [b \in al |-> Through(b)] = [b \in al |-> StateBack(T, s, b)]
  BY <1>3
<1>7. [b \in al |-> IF Append(s, b) \in T THEN Append(s, b) ELSE Through(b)] = [b \in al |-> StateNext(T, s, b)]
  BY <1>4
<1> QED
  BY <1>2, <1>5, <1>6, <1>7 DEF StateOf

\* buildStreamContainsAutomaton: each state fails to its longest end, and goes on
\* to the longest end of it and the byte.
LEMMA AutomatonStates ==
  ASSUME NEW needles \in SUBSET Texts, needles # {}
  PROVE  \A s \in Trie(needles) : Automaton(needles)[s] = StateOf(Trie(needles), Alphabet(needles), s)
<1> DEFINE T == Trie(needles)
           al == Alphabet(needles)
           body(f) == [s \in T |-> NodeAt(f, T, al, s)]
           w == [s \in T |-> StateOf(T, al, s)]
           node == CHOOSE f : f = body(f)
<1>1. IsTrie(T, al)
  BY TrieFacts
<1>2. al \subseteq Bytes
  BY DEF Alphabet, Range, Texts
<1>3. \A s \in T : Len(s) \in Nat
  BY <1>1 DEF IsTrie, Texts
<1>4. Automaton(needles) = node
  BY DEF Automaton, NodeAt
<1> HIDE DEF T, al
<1>5. w = body(w)
  <2>1. ASSUME NEW s \in T PROVE NodeAt(w, T, al, s) = StateOf(T, al, s)
    <3>1. \A u \in T : w[u] = StateOf(T, al, u)
      OBVIOUS
    <3> HIDE DEF w
    <3> QED
      BY <1>1, <1>2, <3>1, StateStep
  <2> QED
    BY <2>1
<1>6. node = body(node)
  <2> HIDE DEF body, w
  <2> QED
    BY <1>5
<1> HIDE DEF node
<1>7. \A s \in T : node[s] = NodeAt(node, T, al, s)
  <2>1. \A s \in T : body(node)[s] = NodeAt(node, T, al, s)
    OBVIOUS
  <2> HIDE DEF body
  <2> QED
    BY <1>6, <2>1
<1>8. ASSUME NEW n \in Nat PROVE \A s \in T : Len(s) = n => node[s] = StateOf(T, al, s)
  <2> DEFINE Good == {k \in 0..n : \A s \in T : Len(s) = k => node[s] = StateOf(T, al, s)}
  <2>1. ASSUME NEW k \in 0..n, \A j \in 0..k - 1 : j \in Good PROVE k \in Good
    <3>1. ASSUME NEW s \in T, Len(s) = k PROVE node[s] = StateOf(T, al, s)
      <4>1. \A u \in T : Len(u) < Len(s) => node[u] = StateOf(T, al, u)
        BY <1>3, <2>1, <3>1
      <4>2. NodeAt(node, T, al, s) = StateOf(T, al, s)
        BY <1>1, <1>2, <4>1, StateStep
      <4> QED
        BY <1>7, <4>2
    <3> QED
      BY <3>1
  <2>2. \A k \in 0..n : k \in Good
    <3> HIDE DEF Good
    <3> QED
      BY <2>1, Strong
  <2>3. n \in 0..n
    OBVIOUS
  <2> QED
    BY <2>2, <2>3
<1>9. \A s \in T : node[s] = StateOf(T, al, s)
  BY <1>3, <1>8
<1> QED
  BY <1>4, <1>9 DEF T, al

\* A state accepts when a needle is an end of it.
LEMMA Accepts ==
  ASSUME NEW needles \in SUBSET Texts, needles # {}, NEW state \in Trie(needles), NEW b \in Bytes,
         NEW t \in Texts, IsLongest(Trie(needles), t, Len(t), state)
  PROVE  /\ IsLongest(Trie(needles), Append(t, b), Len(t) + 1, Advance(needles, state, b).state)
         /\ Advance(needles, state, b).accept \in BOOLEAN
         /\ Advance(needles, state, b).accept <=> \E n \in needles : EndOf(n, Append(t, b))
<1> DEFINE T == Trie(needles)
           al == Alphabet(needles)
           node == Automaton(needles)
           after == IF b \in al THEN node[state].next[b] ELSE <<>>
           body(f) == [s \in T |-> s \in needles \/ (s # <<>> /\ f[node[s].fail])]
           w == [s \in T |-> \E n \in needles : EndOf(n, s)]
           accept == CHOOSE f : f = body(f)
<1>1. IsTrie(T, al) /\ T \subseteq Texts /\ needles \subseteq T /\ <<>> \in T
  BY TrieFacts DEF IsTrie
<1>2. \A s \in T : node[s] = StateOf(T, al, s)
  BY AutomatonStates
<1>3. Advance(needles, state, b) = [state |-> after, accept |-> accept[after]]
  BY DEF Advance
<1>4. Append(t, b) \in Texts /\ Len(Append(t, b)) = Len(t) + 1 /\ Len(t) \in Nat
  BY AppendFacts DEF Texts
<1> HIDE DEF T, al, node
<1>5. IsLongest(T, Append(state, b), Len(state) + 1, after)
  <2>1. CASE b \in al
    <3>1. after = StateNext(T, state, b)
      <4>1. node[state] = StateOf(T, al, state)
        BY <1>2 DEF T
      <4>2. node[state].next[b] = StateNext(T, state, b)
        BY <2>1, <4>1, StateFields
      <4> QED
        BY <2>1, <4>2
    <3> QED
      BY <1>1, <3>1, StateLongest DEF T
  <2>2. CASE b \notin al
    <3>1. state \in Texts /\ Append(state, b) \in Texts /\ Len(Append(state, b)) = Len(state) + 1 /\ Len(state) \in Nat
      BY <1>1, AppendFacts DEF T, Texts
    <3>2. ASSUME NEW u \in T, EndOf(u, Append(state, b)) PROVE u = <<>>
      <4>1. ASSUME u # <<>> PROVE FALSE
        <5>1. u \in Texts /\ Last(u) \in al
          BY <1>1, <4>1 DEF IsTrie
        <5>2. PICK v \in Texts, c \in Bytes : u = Append(v, c) /\ c = Last(u)
          BY <4>1, <5>1, FrontLast
        <5>3. c = b
          BY <3>1, <3>2, <5>2, EndAppend
        <5> QED
          BY <2>2, <5>1, <5>2, <5>3
      <4> QED
        BY <4>1
    <3>3. EndOf(<<>>, Append(state, b)) /\ Len(<<>>) = 0
      BY <3>1, EmptyEnd
    <3>4. after = <<>>
      BY <2>2
    <3> HIDE DEF after
    <3> QED
      BY <1>1, <3>1, <3>2, <3>3, <3>4 DEF IsLongest
  <2> QED
    BY <2>1, <2>2
<1>6. IsLongest(T, Append(t, b), Len(t) + 1, after)
  <2> HIDE DEF after
  <2> QED
    BY <1>1, <1>4, <1>5, LongestBack DEF T
<1>7. ASSUME NEW s \in T
      PROVE  (s \in needles \/ (s # <<>> /\ StateFail(T, s) \in T /\ \E n \in needles : EndOf(n, StateFail(T, s))))
             <=> \E n \in needles : EndOf(n, s)
  <2>1. s \in Texts /\ Len(s) \in Nat /\ EndOf(s, s) /\ \A n \in needles : n \in T /\ n \in Texts /\ Len(n) \in Nat
    BY <1>1, EndSelf DEF Texts
  <2>2. CASE s = <<>>
    <3>1. ASSUME NEW n \in needles, EndOf(n, s) PROVE n = s
      <4>1. Len(n) <= Len(s)
        BY <3>1 DEF EndOf, Ends
      <4>2. Len(n) = Len(s)
        BY <2>1, <2>2, <4>1
      <4> QED
        BY <2>1, <3>1, <4>2, EndsEqual
    <3> QED
      BY <2>1, <2>2, <3>1
  <2>3. CASE s # <<>>
    <3>1. IsLongest(T, s, Len(s) - 1, StateFail(T, s)) /\ Len(s) - 1 \in Nat
      BY <1>1, <2>1, <2>3, StateLongest, FrontLast
    <3>2. /\ StateFail(T, s) \in T /\ StateFail(T, s) \in Texts /\ EndOf(StateFail(T, s), s)
          /\ Len(StateFail(T, s)) \in Nat /\ Len(StateFail(T, s)) <= Len(s)
      BY <1>1, <2>1, <3>1 DEF IsLongest, Texts
    <3>3. ASSUME NEW n \in needles, EndOf(n, StateFail(T, s)) PROVE EndOf(n, s)
      <4>1. Len(n) <= Len(StateFail(T, s))
        BY <3>3 DEF EndOf, Ends
      <4> QED
        BY <2>1, <3>2, <3>3, <4>1, EndNested
    <3>4. ASSUME NEW n \in needles, EndOf(n, s), n # s PROVE EndOf(n, StateFail(T, s))
      <4>1. Len(n) <= Len(s) /\ Len(n) # Len(s)
        <5>1. Len(n) <= Len(s)
          BY <3>4 DEF EndOf, Ends
        <5> QED
          BY <2>1, <3>4, <5>1, EndsEqual
      <4>2. Len(n) <= Len(s) - 1
        BY <2>1, <4>1
      <4>3. Len(n) <= Len(StateFail(T, s))
        BY <2>1, <3>1, <3>4, <4>2 DEF IsLongest
      <4> QED
        BY <2>1, <3>2, <3>4, <4>3, EndNested
    <3> QED
      BY <2>1, <2>3, <3>2, <3>3, <3>4
  <2> QED
    BY <2>2, <2>3
<1>8. \A s \in T : s # <<>> => StateFail(T, s) \in T /\ Len(StateFail(T, s)) < Len(s)
  <2> SUFFICES ASSUME NEW s \in T, s # <<>> PROVE StateFail(T, s) \in T /\ Len(StateFail(T, s)) < Len(s)
    OBVIOUS
  <2>1. IsLongest(T, s, Len(s) - 1, StateFail(T, s)) /\ Len(s) - 1 \in Nat
    BY <1>1, StateLongest, FrontLast
  <2>2. StateFail(T, s) \in T /\ Len(StateFail(T, s)) <= Len(s) - 1
    BY <2>1 DEF IsLongest
  <2>3. Len(s) \in Nat /\ Len(StateFail(T, s)) \in Nat
    BY <1>1, <2>2 DEF Texts
  <2> QED
    BY <2>2, <2>3
<1>9. \A s \in T : node[s].fail = StateFail(T, s)
  BY <1>2, StateFields
<1>10. w = body(w)
  <2>1. ASSUME NEW s \in T PROVE w[s] = (s \in needles \/ (s # <<>> /\ w[node[s].fail]))
    <3>1. s # <<>> => w[node[s].fail] = (\E n \in needles : EndOf(n, StateFail(T, s)))
      BY <1>8, <1>9
    <3>2. w[s] = (\E n \in needles : EndOf(n, s))
      OBVIOUS
    <3> HIDE DEF w
    <3> QED
      BY <1>7, <1>8, <3>1, <3>2
  <2>2. w = [s \in T |-> w[s]]
    OBVIOUS
  <2> HIDE DEF w
  <2> QED
    BY <2>1, <2>2
<1>11. accept = body(accept)
  <2> HIDE DEF body, w
  <2> QED
    BY <1>10
<1> HIDE DEF accept
<1>12. \A s \in T : accept[s] = (s \in needles \/ (s # <<>> /\ accept[StateFail(T, s)]))
  <2>1. \A s \in T : body(accept)[s] = (s \in needles \/ (s # <<>> /\ accept[node[s].fail]))
    OBVIOUS
  <2> HIDE DEF body
  <2> QED
    BY <1>9, <1>11, <2>1
<1>13. ASSUME NEW n \in Nat PROVE \A s \in T : Len(s) = n => (accept[s] <=> \E m \in needles : EndOf(m, s))
  <2> DEFINE Good == {k \in 0..n : \A s \in T : Len(s) = k => (accept[s] <=> \E m \in needles : EndOf(m, s))}
  <2>1. ASSUME NEW k \in 0..n, \A j \in 0..k - 1 : j \in Good PROVE k \in Good
    <3>1. ASSUME NEW s \in T, Len(s) = k PROVE accept[s] <=> \E m \in needles : EndOf(m, s)
      <4>1. ASSUME s # <<>> PROVE accept[StateFail(T, s)] <=> \E m \in needles : EndOf(m, StateFail(T, s))
        <5>1. StateFail(T, s) \in T /\ Len(StateFail(T, s)) < Len(s) /\ Len(StateFail(T, s)) \in Nat
          BY <1>1, <1>8, <4>1 DEF Texts
        <5>2. Len(StateFail(T, s)) \in 0..k - 1
          BY <3>1, <5>1
        <5> QED
          BY <2>1, <5>1, <5>2
      <4> QED
        BY <1>7, <1>8, <1>12, <4>1
    <3> QED
      BY <3>1
  <2>2. \A k \in 0..n : k \in Good
    <3> HIDE DEF Good
    <3> QED
      BY <2>1, Strong
  <2>3. n \in 0..n
    OBVIOUS
  <2> QED
    BY <2>2, <2>3
<1>14. accept[after] \in BOOLEAN
  <2>1. after \in T
    <3> HIDE DEF after
    <3> QED
      BY <1>6 DEF IsLongest
  <2> HIDE DEF after
  <2>2. accept[after] = (after \in needles \/ (after # <<>> /\ accept[StateFail(T, after)]))
    BY <1>12, <2>1
  <2> QED
    BY <2>2
<1>15. accept[after] <=> \E n \in needles : EndOf(n, Append(t, b))
  <2> HIDE DEF after
  <2>1. after \in T /\ after \in Texts /\ Len(after) \in Nat /\ EndOf(after, Append(t, b))
    BY <1>1, <1>6 DEF IsLongest, Texts
  <2>2. accept[after] <=> \E n \in needles : EndOf(n, after)
    BY <1>13, <2>1
  <2>3. \A n \in needles : n \in T /\ n \in Texts /\ Len(n) \in Nat
    BY <1>1 DEF Texts
  <2>4. ASSUME NEW n \in needles PROVE EndOf(n, after) <=> EndOf(n, Append(t, b))
    <3>1. EndOf(n, after) => Len(n) <= Len(after)
      BY DEF EndOf, Ends
    <3>2. EndOf(n, Append(t, b)) => Len(n) <= Len(after)
      <4>1. EndOf(n, Append(t, b)) => Len(n) <= Len(t) + 1
        BY <1>4 DEF EndOf, Ends
      <4> QED
        BY <1>6, <2>3, <4>1 DEF IsLongest
    <3>3. Len(n) <= Len(after) => (EndOf(n, Append(t, b)) <=> EndOf(n, after))
      <4>1. Len(Append(t, b)) \in Nat
        BY <1>4
      <4> QED
        BY <2>1, <2>3, <4>1, EndNested
    <3> QED
      BY <3>1, <3>2, <3>3
  <2> QED
    BY <2>2, <2>4
<1> HIDE DEF after
<1>16. Advance(needles, state, b).state = after /\ Advance(needles, state, b).accept = accept[after]
  BY <1>3
<1> QED
  BY <1>6, <1>14, <1>15, <1>16 DEF T

--------------------------------------------------------------------------------
(* The matchers.                                                               *)

MatcherType == [pos : Nat, over : BOOLEAN, matched : BOOLEAN, state : Texts, alive : SUBSET Texts]

FoldByte(c, raw) == IF c.ignoreCase THEN LowerChar(raw) ELSE raw

\* Folding keeps the length of a text and folds each of its bytes.
LEMMA FoldFacts ==
  ASSUME NEW c, NEW t \in Texts
  PROVE  /\ FoldCase(c, t) \in Texts /\ Len(FoldCase(c, t)) = Len(t)
         /\ \A i \in 1..Len(t) : FoldCase(c, t)[i] = FoldByte(c, t[i])
         /\ ~c.ignoreCase => FoldCase(c, t) = t
<1>1. t \in Seq(Bytes) /\ DOMAIN t = 1..Len(t) /\ Len(t) \in Nat
  BY DEF Texts
<1>2. ASSUME NEW ch \in Bytes PROVE LowerChar(ch) \in Bytes
  <2>1. "a" \in Bytes
    BY DEF Bytes
  <2> QED
    BY <2>1 DEF LowerChar
<1>3. Lower(t) \in Seq(Bytes) /\ Len(Lower(t)) = Len(t) /\ \A i \in 1..Len(t) : Lower(t)[i] = LowerChar(t[i])
  <2>1. Lower(t) = [i \in 1..Len(t) |-> LowerChar(t[i])]
    BY <1>1 DEF Lower
  <2>2. \A i \in 1..Len(t) : LowerChar(t[i]) \in Bytes
    BY <1>1, <1>2
  <2> QED
    BY <1>1, <2>1, <2>2
<1> QED
  BY <1>1, <1>3 DEF FoldCase, FoldByte, Texts

\* A set of one element does not hold several.
LEMMA OneElement ==
  ASSUME NEW x, NEW S, S = {x}
  PROVE  ~(Cardinality(S) > 1)
<1>1. Cardinality({x}) = 1
  BY FS_Singleton
<1> QED
  BY <1>1

\* The needles of a clause are finitely many.
LEMMA FoldedFinite ==
  ASSUME NEW c, IsFiniteSet(c.any)
  PROVE  IsFiniteSet(Needles(c))
<1> DEFINE S == c.any
           T == Needles(c)
           f == [t \in S |-> FoldCase(c, t)]
<1>1. f \in [S -> T]
  BY DEF Needles
<1>2. \A n \in T : \E t \in S : f[t] = n
  BY DEF Needles
<1>3. f \in Surjection(S, T)
  <2> HIDE DEF S, T, f
  <2> QED
    BY <1>1, <1>2 DEF Surjection
<1> HIDE DEF f
<1> QED
  BY <1>3, FS_Surjection

\* The needles of a clause are texts, and those of Eq and prefix only one.
LEMMA NeedlesOf ==
  ASSUME NEW c, IsClause(c)
  PROVE  /\ Needles(c) \in SUBSET Texts
         /\ c.kind \in {"eq", "prefix"} => Needles(c) = {Needle(c)} /\ Needle(c) \in Texts
         /\ c.kind = "contains" => Needles(c) # {}
         /\ c.kind = "contains" /\ ~HasAutomaton(c) => Needles(c) = {Needle(c)} /\ Needle(c) \in Texts
         /\ c.kind = "in" => Needles(c) = c.any /\ ~c.ignoreCase
         /\ c.kind = "eq" => Needle(c) = FoldCase(c, TheText(c)) /\ TheText(c) \in Texts
         /\ c.existsOnly => Needles(c) = {<<>>} /\ c.kind \in {"prefix", "contains"} /\ ~HasAutomaton(c)
         /\ HasAutomaton(c) => Needles(c) # {<<>>}
         /\ <<>> \in Needles(c) <=> <<>> \in c.any
<1>1. c.any \in SUBSET Texts /\ IsFiniteSet(c.any)
  BY DEF IsClause, ClauseType, Texts, Bytes
<1>2. Needles(c) \in SUBSET Texts
  BY <1>1, FoldFacts DEF Needles
<1>3. c.kind = "in" => Needles(c) = c.any /\ ~c.ignoreCase
  BY <1>1, FoldFacts DEF IsClause, Needles
<1>4. ASSUME NEW n, Needles(c) = {n} PROVE Needle(c) = n
  BY <1>4 DEF Needle
<1>5. ASSUME NEW text, c.any = {text} PROVE Needles(c) = {FoldCase(c, text)}
  BY <1>5 DEF Needles
<1>6. c.kind \in {"eq", "prefix"} => Needles(c) = {Needle(c)} /\ Needle(c) \in Texts
  <2>1. c.kind \in {"eq", "prefix"} => \E text \in c.any : c.any = {text}
    BY DEF IsClause
  <2> QED
    BY <1>2, <1>4, <1>5, <2>1
<1>7. c.kind = "contains" => Needles(c) # {}
  BY DEF IsClause, Needles
<1>8. IsFiniteSet(Needles(c))
  BY <1>1, FoldedFinite
<1>9. c.kind = "contains" /\ ~HasAutomaton(c) => Needles(c) = {Needle(c)} /\ Needle(c) \in Texts
  <2> SUFFICES ASSUME c.kind = "contains", ~HasAutomaton(c) PROVE Needles(c) = {Needle(c)} /\ Needle(c) \in Texts
    OBVIOUS
  <2>1. ~(Cardinality(Needles(c)) > 1)
    BY DEF HasAutomaton
  <2>2. Cardinality(Needles(c)) \in Nat /\ Cardinality(Needles(c)) # 0
    BY <1>7, <1>8, FS_CardinalityType, FS_EmptySet
  <2>3. Cardinality(Needles(c)) = 1
    BY <2>1, <2>2
  <2>4. PICK n : Needles(c) = {n}
    BY <1>8, <2>3, FS_Singleton
  <2> QED
    BY <1>2, <1>4, <2>4
<1>10. c.kind = "eq" => Needle(c) = FoldCase(c, TheText(c)) /\ TheText(c) \in Texts
  <2> SUFFICES ASSUME c.kind = "eq" PROVE Needle(c) = FoldCase(c, TheText(c)) /\ TheText(c) \in Texts
    OBVIOUS
  <2>1. PICK text \in c.any : c.any = {text}
    BY DEF IsClause
  <2>2. Needles(c) = {FoldCase(c, text)}
    BY <1>5, <2>1
  <2>3. TheText(c) = text
    BY <2>1 DEF TheText
  <2> QED
    BY <1>1, <1>4, <2>1, <2>2, <2>3
<1>11. HasAutomaton(c) => Needles(c) # {<<>>}
  BY OneElement DEF HasAutomaton
<1>12. \A t \in Texts : FoldCase(c, t) = <<>> <=> t = <<>>
  <2> SUFFICES ASSUME NEW t \in Texts PROVE FoldCase(c, t) = <<>> <=> t = <<>>
    OBVIOUS
  <2>1. FoldCase(c, t) \in Seq(Bytes) /\ t \in Seq(Bytes) /\ Len(FoldCase(c, t)) = Len(t)
    BY FoldFacts DEF Texts
  <2> QED
    BY <2>1
<1>13. <<>> \in Needles(c) <=> <<>> \in c.any
  <2>1. <<>> \in Texts
    BY DEF Texts
  <2> QED
    BY <1>1, <1>12, <2>1 DEF Needles
<1>14. c.existsOnly => Needles(c) = {<<>>} /\ c.kind \in {"prefix", "contains"} /\ ~HasAutomaton(c)
  <2> SUFFICES ASSUME c.existsOnly PROVE Needles(c) = {<<>>} /\ c.kind \in {"prefix", "contains"} /\ ~HasAutomaton(c)
    OBVIOUS
  <2>1. c.kind \in {"prefix", "contains"} /\ c.any = {<<>>}
    BY DEF IsClause
  <2>2. FoldCase(c, <<>>) = <<>>
    <3>1. <<>> \in Texts
      BY DEF Texts
    <3> QED
      BY <1>12, <3>1
  <2>3. Needles(c) = {<<>>}
    BY <1>5, <2>1, <2>2
  <2> QED
    BY <1>11, <2>1, <2>3
<1> QED
  BY <1>2, <1>3, <1>6, <1>7, <1>9, <1>10, <1>11, <1>13, <1>14

--------------------------------------------------------------------------------

\* The first k bytes of text are the first of n; n is somewhere in them; and the
\* longest beginning of n that they end with.
Begins(text, k, n) == k <= Len(n) /\ \A i \in 1..k : n[i] = text[i]
Within(text, k, n) == \E e \in 0..k : Ends(n, Len(n), text, e)
LongestPos(n, text, k, pos) ==
  pos \in 0..Len(n) /\ Ends(n, pos, text, k) /\ \A j \in 0..Len(n) : Ends(n, j, text, k) => j <= pos

\* The states of the matchers after k bytes of text.
FollowEq(n, m, text, k) == (m.over <=> ~Begins(text, k, n)) /\ (~m.over => m.pos = k)

FollowPrefix(n, m, text, k) ==
  /\ m.matched <=> Len(n) <= k /\ Begins(text, Len(n), n)
  /\ m.over <=> m.matched \/ ~Begins(text, k, n)
  /\ ~m.over => m.pos = k

FollowIn(needles, m, text, k) == m.pos = k /\ m.alive = {v \in needles : Begins(text, k, v)}

FollowOne(n, m, text, k) ==
  /\ m.matched <=> Within(text, k, n)
  /\ ~m.matched => LongestPos(n, text, k, m.pos)

FollowMany(needles, m, text, k) ==
  /\ m.matched <=> k > 0 /\ \E n \in needles : Within(text, k, n)
  /\ ~m.matched => IsLongest(Trie(needles), Above(text, k), k, m.state)

Follow(c, m, text, k) ==
  /\ m \in MatcherType
  /\ c.kind = "eq" => FollowEq(Needle(c), m, text, k)
  /\ c.kind = "prefix" => FollowPrefix(Needle(c), m, text, k)
  /\ c.kind = "in" => FollowIn(Needles(c), m, text, k)
  /\ c.kind = "contains" => IF HasAutomaton(c) THEN FollowMany(Needles(c), m, text, k)
                            ELSE FollowOne(Needle(c), m, text, k)

\* One more byte of the needle is in place.
LEMMA BeginsNext ==
  ASSUME NEW text, NEW k \in Nat, NEW n, Len(n) \in Nat
  PROVE  /\ Begins(text, k + 1, n) <=> Begins(text, k, n) /\ k < Len(n) /\ n[k + 1] = text[k + 1]
         /\ Begins(text, 0, n)
<1>1. \A i : i \in 1..k + 1 <=> i \in 1..k \/ i = k + 1
  OBVIOUS
<1> QED
  BY <1>1 DEF Begins

\* A byte for the matcher of Eq.
LEMMA EqNext ==
  ASSUME NEW n \in Texts, NEW m \in MatcherType, NEW text, NEW k \in Nat, FollowEq(n, m, text, k),
         NEW b, b = text[k + 1]
  PROVE  FeedEq(n, m, b) \in MatcherType /\ FollowEq(n, FeedEq(n, m, b), text, k + 1)
<1>1. Len(n) \in Nat
  BY DEF Texts
<1>2. Begins(text, k + 1, n) <=> Begins(text, k, n) /\ k < Len(n) /\ n[k + 1] = text[k + 1]
  BY <1>1, BeginsNext
<1>3. CASE m.over
  <2>1. FeedEq(n, m, b) = m
    BY <1>3 DEF FeedEq
  <2> QED
    BY <1>2, <1>3, <2>1 DEF FollowEq
<1>4. CASE ~m.over /\ m.pos < Len(n) /\ n[m.pos + 1] = b
  <2>1. FeedEq(n, m, b) = [m EXCEPT !.pos = @ + 1]
    BY <1>4 DEF FeedEq
  <2>2. FeedEq(n, m, b) \in MatcherType /\ FeedEq(n, m, b).pos = m.pos + 1 /\ FeedEq(n, m, b).over = m.over
    BY <2>1 DEF MatcherType
  <2> QED
    BY <1>2, <1>4, <2>2 DEF FollowEq
<1>5. CASE ~m.over /\ ~(m.pos < Len(n) /\ n[m.pos + 1] = b)
  <2>1. FeedEq(n, m, b) = [m EXCEPT !.over = TRUE]
    BY <1>5 DEF FeedEq
  <2>2. FeedEq(n, m, b) \in MatcherType /\ FeedEq(n, m, b).over = TRUE
    BY <2>1 DEF MatcherType
  <2> QED
    BY <1>2, <1>5, <2>2 DEF FollowEq
<1> QED
  BY <1>3, <1>4, <1>5

\* A byte for the matcher of prefix.
LEMMA PrefixNext ==
  ASSUME NEW n \in Texts, NEW m \in MatcherType, NEW text, NEW k \in Nat, FollowPrefix(n, m, text, k),
         NEW b, b = text[k + 1]
  PROVE  FeedPrefix(n, m, b) \in MatcherType /\ FollowPrefix(n, FeedPrefix(n, m, b), text, k + 1)
<1>1. Len(n) \in Nat /\ m.pos \in Nat /\ m.over \in BOOLEAN /\ m.matched \in BOOLEAN
  BY DEF Texts, MatcherType
<1>2. Begins(text, k + 1, n) <=> Begins(text, k, n) /\ k < Len(n) /\ n[k + 1] = text[k + 1]
  BY <1>1, BeginsNext
<1>3. Len(n) <= k /\ Begins(text, k, n) => Begins(text, Len(n), n)
  BY <1>1 DEF Begins
<1>4. CASE m.over
  <2>1. FeedPrefix(n, m, b) = m
    BY <1>4 DEF FeedPrefix
  <2>2. ASSUME Len(n) <= k + 1, Begins(text, Len(n), n) PROVE Len(n) <= k
    <3>1. CASE m.matched
      BY <3>1 DEF FollowPrefix
    <3>2. CASE ~m.matched
      <4>1. ~Begins(text, k, n)
        BY <1>4, <3>2 DEF FollowPrefix
      <4>2. Len(n) = k + 1 => Begins(text, k, n)
        BY <1>1, <2>2 DEF Begins
      <4> QED
        BY <1>1, <2>2, <4>1, <4>2
    <3> QED
      BY <3>1, <3>2
  <2>3. Len(n) <= k => Len(n) <= k + 1
    BY <1>1
  <2> QED
    BY <1>2, <1>4, <2>1, <2>2, <2>3 DEF FollowPrefix
<1>5. CASE ~m.over /\ m.pos < Len(n) /\ n[m.pos + 1] = b
  <2>1. /\ FeedPrefix(n, m, b) \in MatcherType /\ FeedPrefix(n, m, b).pos = m.pos + 1
        /\ FeedPrefix(n, m, b).over = (m.pos + 1 = Len(n)) /\ FeedPrefix(n, m, b).matched = (m.pos + 1 = Len(n))
    <3>1. FeedPrefix(n, m, b) = [m EXCEPT !.pos = @ + 1, !.matched = (m.pos + 1 = Len(n)), !.over = (m.pos + 1 = Len(n))]
      BY <1>5 DEF FeedPrefix
    <3> DEFINE done == (m.pos + 1 = Len(n))
    <3>2. done \in BOOLEAN /\ m.pos + 1 \in Nat
      BY <1>1
    <3> HIDE DEF done
    <3>3. [m EXCEPT !.pos = @ + 1, !.matched = done, !.over = done] \in MatcherType
      BY <3>2 DEF MatcherType
    <3> QED
      BY <3>1, <3>2, <3>3 DEF MatcherType, done
  <2>2. m.pos = k /\ Begins(text, k, n) /\ Begins(text, k + 1, n) /\ k + 1 <= Len(n)
    BY <1>1, <1>2, <1>5 DEF FollowPrefix
  <2>3. Len(n) <= k + 1 <=> k + 1 = Len(n)
    BY <1>1, <2>2
  <2> QED
    BY <2>1, <2>2, <2>3 DEF FollowPrefix
<1>6. CASE ~m.over /\ ~(m.pos < Len(n) /\ n[m.pos + 1] = b)
  <2>1. /\ FeedPrefix(n, m, b) \in MatcherType /\ FeedPrefix(n, m, b).over = TRUE
        /\ FeedPrefix(n, m, b).matched = m.matched
    <3>1. FeedPrefix(n, m, b) = [m EXCEPT !.over = TRUE]
      BY <1>6 DEF FeedPrefix
    <3> QED
      BY <3>1 DEF MatcherType
  <2>2. ~m.matched /\ Begins(text, k, n) /\ m.pos = k /\ ~Begins(text, k + 1, n)
    BY <1>2, <1>6 DEF FollowPrefix
  <2>3. ~(Len(n) <= k)
    BY <1>3, <2>2 DEF FollowPrefix
  <2>4. ~(Len(n) <= k + 1 /\ Begins(text, Len(n), n))
    <3>1. Len(n) <= k + 1 => Len(n) = k + 1
      BY <1>1, <2>3
    <3> QED
      BY <2>2, <3>1
  <2> QED
    BY <2>1, <2>2, <2>4 DEF FollowPrefix
<1> QED
  BY <1>4, <1>5, <1>6

\* A byte for the matcher of in.
LEMMA InNext ==
  ASSUME NEW needles \in SUBSET Texts, NEW m \in MatcherType, NEW text, NEW k \in Nat, FollowIn(needles, m, text, k),
         NEW b, b = text[k + 1]
  PROVE  FeedIn(m, b) \in MatcherType /\ FollowIn(needles, FeedIn(m, b), text, k + 1)
<1>1. \A v \in needles : Len(v) \in Nat
  BY DEF Texts
<1>2. \A v \in needles : Begins(text, k + 1, v) <=> Begins(text, k, v) /\ k < Len(v) /\ v[k + 1] = text[k + 1]
  BY <1>1, BeginsNext
<1>3. /\ FeedIn(m, b) \in MatcherType /\ FeedIn(m, b).pos = m.pos + 1
      /\ FeedIn(m, b).alive = {v \in m.alive : m.pos < Len(v) /\ v[m.pos + 1] = b}
  <2>1. FeedIn(m, b) = [m EXCEPT !.pos = @ + 1, !.alive = {v \in @ : m.pos < Len(v) /\ v[m.pos + 1] = b}]
    BY DEF FeedIn
  <2> DEFINE left == {v \in m.alive : m.pos < Len(v) /\ v[m.pos + 1] = b}
  <2>2. left \in SUBSET Texts /\ m.pos + 1 \in Nat
    BY DEF MatcherType
  <2>3. FeedIn(m, b) = [m EXCEPT !.pos = @ + 1, !.alive = left]
    BY <2>1
  <2> HIDE DEF left
  <2>4. FeedIn(m, b) \in MatcherType /\ FeedIn(m, b).pos = m.pos + 1 /\ FeedIn(m, b).alive = left
    BY <2>2, <2>3 DEF MatcherType
  <2> QED
    BY <2>4 DEF left
<1>4. m.pos = k /\ m.alive = {v \in needles : Begins(text, k, v)}
  BY DEF FollowIn
<1>5. {v \in m.alive : m.pos < Len(v) /\ v[m.pos + 1] = b} = {v \in needles : Begins(text, k + 1, v)}
  BY <1>2, <1>4
<1> QED
  BY <1>3, <1>4, <1>5 DEF FollowIn

\* What occurs has occurred before, or ends here.
LEMMA WithinNext ==
  ASSUME NEW text, NEW k \in Nat, NEW n
  PROVE  Within(text, k + 1, n) <=> Within(text, k, n) \/ Ends(n, Len(n), text, k + 1)
<1>1. \A e : e \in 0..k + 1 <=> e \in 0..k \/ e = k + 1
  OBVIOUS
<1> QED
  BY <1>1 DEF Within

\* One more byte of the needle ends here.
LEMMA EndsNext ==
  ASSUME NEW n, NEW text, NEW j \in Nat, NEW k \in Nat
  PROVE  Ends(n, j + 1, text, k + 1) <=> Ends(n, j, text, k) /\ n[j + 1] = text[k + 1]
<1>1. SameUpTo(n, n, j) /\ SameUpTo(text, text, k)
  BY DEF SameUpTo
<1> QED
  BY <1>1, EndsAppend

\* What ends here had begun before.
LEMMA EndsBefore ==
  ASSUME NEW n, NEW text, NEW j \in Nat, j # 0, NEW k \in Nat, Ends(n, j, text, k + 1)
  PROVE  \E z \in Nat : z + 1 = j /\ Ends(n, z, text, k) /\ n[z + 1] = text[k + 1]
<1>1. PICK z \in Nat : z + 1 = j
  <2>1. j - 1 \in Nat /\ j - 1 + 1 = j
    OBVIOUS
  <2> QED
    BY <2>1
<1>2. Ends(n, z + 1, text, k + 1)
  BY <1>1
<1>3. Ends(n, z, text, k) /\ n[z + 1] = text[k + 1]
  BY <1>2, EndsNext
<1> QED
  BY <1>1, <1>3

\* Nothing that ends here is longer than what KMP holds.
LEMMA LongestBound ==
  ASSUME NEW n, NEW text, NEW k \in Nat, NEW pos \in Nat, Ends(n, pos, text, k),
         NEW y \in Nat, IsDelta(n, text[k + 1], pos, y), NEW j \in Nat, Ends(n, j, text, k + 1),
         \A i \in Nat : i < j /\ Ends(n, i, text, k) => i <= pos
  PROVE  j <= y
<1>1. CASE j = 0
  BY <1>1
<1>2. CASE j # 0
  <2>1. PICK z \in Nat : z + 1 = j /\ Ends(n, z, text, k) /\ n[z + 1] = text[k + 1]
    BY <1>2, EndsBefore
  <2>2. z \in 0..pos
    BY <2>1
  <2>3. Ends(n, z, n, pos)
    BY <2>1, <2>2, EndsWithin
  <2>4. z + 1 <= y
    BY <2>1, <2>2, <2>3 DEF IsDelta
  <2> QED
    BY <2>1, <2>4
<1> QED
  BY <1>1, <1>2

\* The longest part that is begun, after one more byte.
LEMMA LongestNext ==
  ASSUME NEW n, Len(n) \in Nat, NEW text, NEW k \in Nat, NEW pos \in 0..Len(n) - 1, LongestPos(n, text, k, pos),
         NEW y, IsDelta(n, text[k + 1], pos, y)
  PROVE  LongestPos(n, text, k + 1, y)
<1>1. y \in 0..pos + 1 /\ pos \in Nat /\ y \in 0..Len(n) /\ Ends(n, pos, text, k)
  BY DEF IsDelta, LongestPos
<1>2. Ends(n, y, text, k + 1)
  <2>1. CASE y = 0
    BY <2>1 DEF Ends
  <2>2. CASE y # 0
    <3>1. y - 1 \in Nat /\ y - 1 \in 0..pos /\ y - 1 + 1 = y
      BY <1>1, <2>2
    <3>2. Ends(n, y - 1, n, pos) /\ text[k + 1] = n[y]
      BY <2>2 DEF IsDelta
    <3>3. Ends(n, y - 1, text, k)
      BY <1>1, <3>1, <3>2, EndsWithin
    <3>4. Ends(n, y - 1 + 1, text, k + 1)
      <4> DEFINE z == y - 1
      <4>1. z \in Nat /\ Ends(n, z, text, k) /\ n[z + 1] = text[k + 1]
        BY <3>1, <3>2, <3>3
      <4> HIDE DEF z
      <4>2. Ends(n, z + 1, text, k + 1)
        BY <4>1, EndsNext
      <4> QED
        BY <4>2 DEF z
    <3> QED
      BY <3>1, <3>4
  <2> QED
    BY <2>1, <2>2
<1>3. ASSUME NEW j \in 0..Len(n), Ends(n, j, text, k + 1) PROVE j <= y
  <2>1. j \in Nat /\ y \in Nat
    BY <1>1
  <2>2. \A i \in Nat : i < j /\ Ends(n, i, text, k) => i <= pos
    BY DEF LongestPos
  <2> QED
    BY <1>1, <1>3, <2>1, <2>2, LongestBound
<1> QED
  BY <1>1, <1>2, <1>3 DEF LongestPos

\* A byte for the matcher of one needle.
LEMMA OneNext ==
  ASSUME NEW c, ~HasAutomaton(c), NEW n \in Texts, n = Needle(c), NEW m \in MatcherType, NEW text, NEW k \in Nat,
         FollowOne(n, m, text, k), NEW b, b = text[k + 1]
  PROVE  FeedContains(c, m, b) \in MatcherType /\ FollowOne(n, FeedContains(c, m, b), text, k + 1)
<1>1. Len(n) \in Nat /\ n \in Seq(Bytes)
  BY DEF Texts
<1>2. Within(text, k + 1, n) <=> Within(text, k, n) \/ Ends(n, Len(n), text, k + 1)
  BY WithinNext
<1>3. CASE m.matched
  <2>1. FeedContains(c, m, b) = m
    BY <1>3 DEF FeedContains
  <2> QED
    BY <1>2, <1>3, <2>1 DEF FollowOne
<1>4. CASE ~m.matched
  <2> DEFINE pos == KMPNext(n, m.pos, b)
  <2>1. ~Within(text, k, n) /\ LongestPos(n, text, k, m.pos)
    BY <1>4 DEF FollowOne
  <2>2. m.pos \in 0..Len(n) /\ Ends(n, m.pos, text, k)
    BY <2>1 DEF LongestPos
  <2>3. m.pos # Len(n)
    <3>1. k \in 0..k
      OBVIOUS
    <3> QED
      BY <2>1, <2>2, <3>1 DEF Within
  <2>4. m.pos \in 0..Len(n) - 1
    BY <1>1, <2>2, <2>3
  <2>5. IsDelta(n, b, m.pos, pos)
    BY <1>1, <2>4, KMPNextIsDelta
  <2> HIDE DEF pos
  <2>6. LongestPos(n, text, k + 1, pos)
    BY <1>1, <2>1, <2>4, <2>5, LongestNext
  <2>7. pos \in 0..Len(n) /\ pos \in Nat
    BY <1>1, <2>6 DEF LongestPos
  <2>8. pos = Len(n) <=> Ends(n, Len(n), text, k + 1)
    <3>1. Len(n) \in 0..Len(n)
      BY <1>1
    <3> QED
      BY <1>1, <2>6, <2>7, <3>1 DEF LongestPos
  <2>9. n # <<>>
    BY <1>1, <2>4
  <2>10. CASE pos = Len(n)
    <3> DEFINE back == KMPPrefixTable(n)[pos]
    <3>1. FeedContains(c, m, b) = [m EXCEPT !.pos = back, !.matched = TRUE]
      BY <1>4, <2>9, <2>10 DEF FeedContains, pos
    <3>2. IsBorder(n, pos, back)
      <4>1. pos \in 1..Len(n)
        BY <1>1, <2>4, <2>7, <2>10
      <4> QED
        BY <1>1, <4>1, TableIsBorder
    <3> HIDE DEF back
    <3>3. back \in Nat
      BY <2>7, <3>2 DEF IsBorder
    <3>4. FeedContains(c, m, b) \in MatcherType /\ FeedContains(c, m, b).matched = TRUE
      BY <3>1, <3>3 DEF MatcherType
    <3> QED
      BY <1>2, <2>8, <2>10, <3>4 DEF FollowOne
  <2>11. CASE pos # Len(n)
    <3>1. FeedContains(c, m, b) = [m EXCEPT !.pos = pos]
      BY <1>4, <2>9, <2>11 DEF FeedContains, pos
    <3>2. FeedContains(c, m, b) \in MatcherType /\ FeedContains(c, m, b).pos = pos /\ FeedContains(c, m, b).matched = m.matched
      BY <2>7, <3>1 DEF MatcherType
    <3> QED
      BY <1>2, <1>4, <2>1, <2>6, <2>8, <2>11, <3>2 DEF FollowOne
  <2> QED
    BY <2>10, <2>11
<1> QED
  BY <1>3, <1>4

\* The first bytes of a text, and one more.
LEMMA AboveNext ==
  ASSUME NEW S, NEW text \in Seq(S), NEW k \in 0..Len(text) - 1
  PROVE  Above(text, k + 1) = Append(Above(text, k), text[k + 1])
<1>1. k \in 0..Len(text) /\ k + 1 \in 0..Len(text) /\ k + 1 \in 1..Len(text) /\ text[k + 1] \in S
  OBVIOUS
<1> DEFINE t == Above(text, k)
           u == Above(text, k + 1)
           v == Append(t, text[k + 1])
<1>2. t \in Seq(S) /\ Len(t) = k /\ \A i \in 1..k : t[i] = text[i]
  BY <1>1, AboveFacts
<1>3. u \in Seq(S) /\ Len(u) = k + 1 /\ \A i \in 1..k + 1 : u[i] = text[i]
  BY <1>1, AboveFacts
<1> HIDE DEF t, u
<1>4. v \in Seq(S) /\ Len(v) = k + 1 /\ (\A i \in 1..k : v[i] = t[i]) /\ v[k + 1] = text[k + 1]
  BY <1>1, <1>2, AppendFacts
<1> HIDE DEF v
<1>5. \A i \in 1..k + 1 : i \in 1..k \/ i = k + 1
  OBVIOUS
<1>6. \A i \in 1..Len(u) : u[i] = v[i]
  BY <1>2, <1>3, <1>4, <1>5
<1>7. u = v
  BY <1>3, <1>4, <1>6, SameSequence
<1> QED
  BY <1>7 DEF t, u, v

\* An end of the first bytes ends there.
LEMMA EndAbove ==
  ASSUME NEW S, NEW text \in Seq(S), NEW k \in 0..Len(text), NEW n, Len(n) \in Nat
  PROVE  EndOf(n, Above(text, k)) <=> Ends(n, Len(n), text, k)
<1> DEFINE t == Above(text, k)
<1>1. Len(t) = k /\ k \in Nat /\ \A i \in 1..k : t[i] = text[i]
  BY AboveFacts
<1> HIDE DEF t
<1>2. ASSUME Len(n) <= k, NEW i \in 1..Len(n) PROVE t[k - Len(n) + i] = text[k - Len(n) + i]
  <2>1. k - Len(n) + i \in 1..k
    BY <1>1, <1>2
  <2> QED
    BY <1>1, <2>1
<1> QED
  BY <1>1, <1>2 DEF EndOf, Ends, t

\* A byte for the matcher of several needles.
LEMMA ManyNext ==
  ASSUME NEW c, HasAutomaton(c), NEW needles \in SUBSET Texts, needles = Needles(c), needles # {},
         NEW m \in MatcherType, NEW text \in Texts, NEW k \in 0..Len(text) - 1,
         FollowMany(needles, m, text, k), NEW b, b = text[k + 1]
  PROVE  FeedContains(c, m, b) \in MatcherType /\ FollowMany(needles, FeedContains(c, m, b), text, k + 1)
<1>1. text \in Seq(Bytes) /\ k \in Nat /\ k + 1 \in 0..Len(text) /\ k \in 0..Len(text) /\ b \in Bytes /\ Len(text) \in Nat
  BY DEF Texts
<1>2. \A n \in needles : Within(text, k + 1, n) <=> Within(text, k, n) \/ Ends(n, Len(n), text, k + 1)
  BY <1>1, WithinNext
<1>3. CASE m.matched
  <2>1. FeedContains(c, m, b) = m
    BY <1>3 DEF FeedContains
  <2>2. k + 1 > 0
    BY <1>1
  <2>3. k > 0 /\ \E n \in needles : Within(text, k, n)
    BY <1>3 DEF FollowMany
  <2>4. \E n \in needles : Within(text, k + 1, n)
    BY <1>2, <2>3
  <2> QED
    BY <1>3, <2>1, <2>2, <2>4 DEF FollowMany
<1>4. CASE ~m.matched
  <2> DEFINE t == Above(text, k)
             T == Trie(needles)
             next == Advance(needles, m.state, b)
  <2>1. t \in Texts /\ Len(t) = k
    BY <1>1, AboveFacts DEF Texts
  <2>2. IsLongest(T, t, k, m.state) /\ m.state \in T
    BY <1>4 DEF FollowMany, IsLongest
  <2>3. Above(text, k + 1) = Append(t, b)
    BY <1>1, AboveNext
  <2>4. /\ IsLongest(T, Append(t, b), k + 1, next.state)
        /\ next.accept \in BOOLEAN
        /\ next.accept <=> \E n \in needles : EndOf(n, Append(t, b))
    <3> HIDE DEF t, next, T
    <3>1. IsLongest(T, t, Len(t), m.state) /\ m.state \in Trie(needles)
      BY <2>1, <2>2 DEF T
    <3>2. /\ IsLongest(T, Append(t, b), Len(t) + 1, next.state)
          /\ next.accept \in BOOLEAN
          /\ next.accept <=> \E n \in needles : EndOf(n, Append(t, b))
      BY <1>1, <2>1, <3>1, Accepts DEF T, next
    <3> QED
      BY <2>1, <3>2
  <2>5. \A n \in needles : EndOf(n, Append(t, b)) <=> Ends(n, Len(n), text, k + 1)
    <3>1. \A n \in needles : Len(n) \in Nat
      BY DEF Texts
    <3>2. \A n \in needles : EndOf(n, Above(text, k + 1)) <=> Ends(n, Len(n), text, k + 1)
      BY <1>1, <3>1, EndAbove
    <3> HIDE DEF t
    <3> QED
      BY <2>3, <3>2
  <2>6. next.state \in Texts /\ next.accept \in BOOLEAN
    <3>1. T \subseteq Texts
      BY TrieFacts DEF IsTrie
    <3>2. next.state \in T
      <4> HIDE DEF next, T, t
      <4> QED
        BY <2>4 DEF IsLongest
    <3>3. next.accept \in BOOLEAN
      <4> HIDE DEF next, T, t
      <4> QED
        BY <2>4
    <3> QED
      BY <3>1, <3>2, <3>3
  <2> HIDE DEF next, t, T
  <2>7. FeedContains(c, m, b) = [m EXCEPT !.state = next.state, !.matched = next.accept]
    BY <1>4 DEF FeedContains, next
  <2>8. /\ FeedContains(c, m, b) \in MatcherType /\ FeedContains(c, m, b).state = next.state
        /\ FeedContains(c, m, b).matched = next.accept
    BY <2>6, <2>7 DEF MatcherType
  <2>9. next.accept <=> k + 1 > 0 /\ \E n \in needles : Within(text, k + 1, n)
    <3>1. k + 1 > 0
      BY <1>1
    <3>2. ASSUME NEW n \in needles, Within(text, k, n) PROVE Ends(n, Len(n), text, k + 1)
      <4>1. k = 0
        BY <1>1, <1>4, <3>2 DEF FollowMany
      <4>2. Len(n) = 0
        <5>1. PICK e \in 0..k : Ends(n, Len(n), text, e)
          BY <3>2 DEF Within
        <5>2. Len(n) <= e /\ Len(n) \in Nat
          BY <5>1 DEF Ends, Texts
        <5> QED
          BY <4>1, <5>1, <5>2
      <4> QED
        BY <3>1, <4>2 DEF Ends
    <3> QED
      BY <1>2, <2>4, <2>5, <3>1, <3>2
  <2>10. IsLongest(Trie(needles), Above(text, k + 1), k + 1, next.state)
    BY <2>3, <2>4 DEF T
  <2> QED
    BY <2>8, <2>9, <2>10 DEF FollowMany
<1> QED
  BY <1>3, <1>4

\* A byte for the matcher of any clause.
LEMMA ByteFollows ==
  ASSUME NEW c, IsClause(c), IsTerm(c) \/ IsIn(c), NEW all \in Texts, NEW text, text = FoldCase(c, all),
         NEW k \in 0..Len(all) - 1, NEW m, Follow(c, m, text, k)
  PROVE  Follow(c, FeedByte(c, m, all[k + 1]), text, k + 1)
<1> DEFINE b == text[k + 1]
           fed == FeedByte(c, m, all[k + 1])
<1>1. text \in Texts /\ Len(text) = Len(all) /\ b = FoldByte(c, all[k + 1]) /\ k \in Nat /\ Len(all) \in Nat
  <2>1. Len(all) \in Nat
    BY DEF Texts
  <2>2. k + 1 \in 1..Len(all) /\ k \in Nat
    BY <2>1
  <2> QED
    BY <2>1, <2>2, FoldFacts
<1>2. m \in MatcherType
  BY DEF Follow
<1>3. /\ Needles(c) \in SUBSET Texts
      /\ c.kind \in {"eq", "prefix"} => Needle(c) \in Texts
      /\ c.kind = "contains" => Needles(c) # {} /\ (~HasAutomaton(c) => Needle(c) \in Texts)
      /\ c.kind = "in" => ~c.ignoreCase
  BY NeedlesOf
<1> HIDE DEF b
<1>4. CASE c.kind = "eq"
  <2>1. fed = FeedEq(Needle(c), m, b)
    BY <1>1, <1>4 DEF FeedByte, FoldByte
  <2>2. FollowEq(Needle(c), m, text, k)
    BY <1>4 DEF Follow
  <2> HIDE DEF fed
  <2>3. fed \in MatcherType /\ FollowEq(Needle(c), fed, text, k + 1)
    BY <1>1, <1>2, <1>3, <1>4, <2>1, <2>2, EqNext DEF b
  <2> QED
    BY <1>4, <2>3 DEF Follow, fed
<1>5. CASE c.kind = "prefix"
  <2>1. fed = FeedPrefix(Needle(c), m, b)
    BY <1>1, <1>5 DEF FeedByte, FoldByte
  <2>2. FollowPrefix(Needle(c), m, text, k)
    BY <1>5 DEF Follow
  <2> HIDE DEF fed
  <2>3. fed \in MatcherType /\ FollowPrefix(Needle(c), fed, text, k + 1)
    BY <1>1, <1>2, <1>3, <1>5, <2>1, <2>2, PrefixNext DEF b
  <2> QED
    BY <1>5, <2>3 DEF Follow, fed
<1>6. CASE c.kind = "in"
  <2>1. fed = FeedIn(m, b)
    BY <1>1, <1>3, <1>6 DEF FeedByte, FoldByte
  <2>2. FollowIn(Needles(c), m, text, k)
    BY <1>6 DEF Follow
  <2> HIDE DEF fed
  <2>3. fed \in MatcherType /\ FollowIn(Needles(c), fed, text, k + 1)
    BY <1>1, <1>2, <1>3, <1>6, <2>1, <2>2, InNext DEF b
  <2> QED
    BY <1>6, <2>3 DEF Follow, fed
<1>7. CASE c.kind = "contains"
  <2>1. fed = FeedContains(c, m, b)
    BY <1>1, <1>7 DEF FeedByte, FoldByte
  <2> HIDE DEF fed
  <2>2. CASE HasAutomaton(c)
    <3>1. FollowMany(Needles(c), m, text, k)
      BY <1>7, <2>2 DEF Follow
    <3>2. k \in 0..Len(text) - 1
      BY <1>1
    <3>3. fed \in MatcherType /\ FollowMany(Needles(c), fed, text, k + 1)
      BY <1>1, <1>2, <1>3, <1>7, <2>1, <2>2, <3>1, <3>2, ManyNext DEF b
    <3> QED
      BY <1>7, <2>2, <3>3 DEF Follow, fed
  <2>3. CASE ~HasAutomaton(c)
    <3>1. FollowOne(Needle(c), m, text, k)
      BY <1>7, <2>3 DEF Follow
    <3>2. fed \in MatcherType /\ FollowOne(Needle(c), fed, text, k + 1)
      BY <1>1, <1>2, <1>3, <1>7, <2>1, <2>3, <3>1, OneNext DEF b
    <3> QED
      BY <1>7, <2>3, <3>2 DEF Follow, fed
  <2> QED
    BY <2>2, <2>3
<1> QED
  BY <1>4, <1>5, <1>6, <1>7 DEF IsTerm, IsIn

\* What the matcher is after each byte of a run.
IsFeed(f, c, m, segment) ==
  /\ FeedBytes(c, m, segment) = f[Len(segment)] /\ f[0] = m
  /\ \A i \in 1..Len(segment) : f[i] = FeedByte(c, f[i - 1], segment[i])

\* Feeding a run is feeding its bytes in turn.
LEMMA FeedBytesDef ==
  ASSUME NEW c, NEW m, NEW segment, Len(segment) \in Nat
  PROVE  \E f : IsFeed(f, c, m, segment)
<1> DEFINE n == Len(segment)
           body(f) == [i \in 0..n |-> IF i = 0 THEN m ELSE FeedByte(c, f[i - 1], segment[i])]
           Upto(f, k) == f[0] = m /\ \A i \in 1..k : f[i] = FeedByte(c, f[i - 1], segment[i])
           Good == {k \in 0..n : \E f : Upto(f, k)}
           fed == CHOOSE f : f = body(f)
<1>1. 0 \in Good
  <2> DEFINE f == [i \in 0..n |-> m]
  <2>1. 0 \in 0..n /\ f[0] = m
    OBVIOUS
  <2> HIDE DEF f
  <2>2. Upto(f, 0)
    BY <2>1
  <2> QED
    BY <2>1, <2>2
<1>2. ASSUME NEW k \in 1..n, k - 1 \in Good PROVE k \in Good
  <2>1. PICK f : Upto(f, k - 1)
    BY <1>2
  <2> DEFINE next == FeedByte(c, f[k - 1], segment[k])
             g == [i \in 0..n |-> IF i = k THEN next ELSE f[i]]
  <2>2. k \in 0..n /\ k # 0 /\ \A i \in 0..k - 1 : i \in 0..n /\ i # k
    OBVIOUS
  <2>3. g[k] = next /\ \A i \in 0..k - 1 : g[i] = f[i]
    <3> HIDE DEF next
    <3> QED
      BY <2>2
  <2> HIDE DEF g
  <2>4. g[0] = m
    BY <2>1, <2>3
  <2>5. ASSUME NEW i \in 1..k PROVE g[i] = FeedByte(c, g[i - 1], segment[i])
    <3>1. CASE i = k
      BY <2>3, <3>1
    <3>2. CASE i # k
      <4>1. i \in 1..k - 1 /\ i \in 0..k - 1 /\ i - 1 \in 0..k - 1
        BY <3>2
      <4> QED
        BY <2>1, <2>3, <4>1
    <3> QED
      BY <3>1, <3>2
  <2> QED
    BY <2>2, <2>4, <2>5
<1>3. PICK w : Upto(w, n)
  <2>1. n \in Good
    <3>1. n \in Nat
      OBVIOUS
    <3> HIDE DEF Good, n
    <3>2. \A i \in 0..n : i \in Good
      BY <1>1, <1>2, <3>1, UpTo
    <3> QED
      BY <3>1, <3>2
  <2> QED
    BY <2>1
<1>4. \E f : f = body(f)
  <2> DEFINE v == [i \in 0..n |-> w[i]]
  <2>1. ASSUME NEW i \in 0..n PROVE v[i] = body(v)[i]
    <3>1. body(v)[i] = IF i = 0 THEN m ELSE FeedByte(c, v[i - 1], segment[i])
      OBVIOUS
    <3>2. v[i] = w[i]
      OBVIOUS
    <3>3. i # 0 => i \in 1..n /\ v[i - 1] = w[i - 1]
      OBVIOUS
    <3> HIDE DEF v, body
    <3> QED
      BY <1>3, <3>1, <3>2, <3>3
  <2>2. v = [i \in 0..n |-> v[i]] /\ body(v) = [i \in 0..n |-> body(v)[i]]
    OBVIOUS
  <2> HIDE DEF v, body
  <2>3. v = body(v)
    BY <2>1, <2>2
  <2> QED
    BY <2>3
<1>5. fed = body(fed)
  <2> HIDE DEF body
  <2> QED
    BY <1>4
<1>6. FeedBytes(c, m, segment) = fed[n]
  BY DEF FeedBytes
<1> HIDE DEF fed
<1>7. fed[0] = m
  <2>1. body(fed)[0] = m
    OBVIOUS
  <2> HIDE DEF body
  <2> QED
    BY <1>5, <2>1
<1>8. \A i \in 1..n : fed[i] = FeedByte(c, fed[i - 1], segment[i])
  <2>1. \A i \in 1..n : body(fed)[i] = FeedByte(c, fed[i - 1], segment[i])
    OBVIOUS
  <2> HIDE DEF body
  <2> QED
    BY <1>5, <2>1
<1>9. IsFeed(fed, c, m, segment)
  BY <1>6, <1>7, <1>8 DEF IsFeed
<1> QED
  BY <1>9

\* segment is what follows the first k bytes of all.
PieceAt(all, k, segment) ==
  k + Len(segment) <= Len(all) /\ \A i \in 1..Len(segment) : segment[i] = all[k + i]

\* A run that is fed byte by byte.
LEMMA BytesFollow ==
  ASSUME NEW c, IsClause(c), IsTerm(c) \/ IsIn(c), NEW all \in Texts, NEW text, text = FoldCase(c, all),
         NEW k \in Nat, NEW m, Follow(c, m, text, k), NEW segment, Len(segment) \in Nat, PieceAt(all, k, segment)
  PROVE  Follow(c, FeedBytes(c, m, segment), text, k + Len(segment))
<1>0. PICK f : IsFeed(f, c, m, segment)
  BY FeedBytesDef
<1> DEFINE n == Len(segment)
<1>1. /\ FeedBytes(c, m, segment) = f[n] /\ f[0] = m
      /\ \A i \in 1..n : f[i] = FeedByte(c, f[i - 1], segment[i])
  BY <1>0 DEF IsFeed
<1> DEFINE Good == {i \in 0..n : Follow(c, f[i], text, k + i)}
<1>2. 0 \in Good
  <2>1. 0 \in 0..n /\ k + 0 = k
    OBVIOUS
  <2> QED
    BY <1>1, <2>1
<1>3. ASSUME NEW i \in 1..n, i - 1 \in Good PROVE i \in Good
  <2>1. Follow(c, f[i - 1], text, k + (i - 1))
    BY <1>3
  <2>2. PICK e : e = k + (i - 1)
    OBVIOUS
  <2>3. e \in 0..Len(all) - 1 /\ e + 1 = k + i /\ segment[i] = all[e + 1]
    <3>1. Len(all) \in Nat
      BY DEF Texts
    <3>2. k + n <= Len(all) /\ segment[i] = all[k + i]
      BY DEF PieceAt
    <3>3. e \in 0..Len(all) - 1 /\ e + 1 = k + i
      BY <2>2, <3>1, <3>2
    <3> QED
      BY <3>2, <3>3
  <2>4. Follow(c, FeedByte(c, f[i - 1], all[e + 1]), text, e + 1)
    <3>1. Follow(c, f[i - 1], text, e)
      BY <2>1, <2>2
    <3> QED
      BY <2>3, <3>1, ByteFollows
  <2>5. Follow(c, f[i], text, k + i)
    BY <1>1, <2>3, <2>4
  <2> QED
    BY <2>5
<1>4. n \in Good
  <2>1. n \in Nat
    OBVIOUS
  <2> HIDE DEF Good, n
  <2>2. \A i \in 0..n : i \in Good
    BY <1>2, <1>3, <2>1, UpTo
  <2> QED
    BY <2>1, <2>2
<1> QED
  BY <1>1, <1>4

\* s is what follows the first a elements of t; n and text agree there.
IsPiece(s, t, a, b) == \A i \in 1..b : s[i] = t[a + i]
Agree(n, text, k, b) == \A i \in 1..b : n[k + i] = text[k + i]

\* A part of a sequence.
LEMMA PieceOf ==
  ASSUME NEW S, NEW t \in Seq(S), NEW a \in Nat, NEW b \in Nat, a + b <= Len(t)
  PROVE  /\ SubSeq(t, a + 1, a + b) \in Seq(S) /\ Len(SubSeq(t, a + 1, a + b)) = b
         /\ \A i \in 1..b : SubSeq(t, a + 1, a + b)[i] = t[a + i]
OBVIOUS

\* A part of a sequence is told by its elements.
LEMMA SamePiece ==
  ASSUME NEW S, NEW s \in Seq(S), NEW t \in Seq(S), NEW a \in Nat, NEW b \in Nat, Len(s) = b, a + b <= Len(t)
  PROVE  s = SubSeq(t, a + 1, a + b) <=> IsPiece(s, t, a, b)
<1> DEFINE u == SubSeq(t, a + 1, a + b)
<1>1. u \in Seq(S) /\ Len(u) = b /\ \A i \in 1..b : u[i] = t[a + i]
  BY PieceOf
<1> HIDE DEF u
<1>2. (\A i \in 1..b : s[i] = t[a + i]) => s = u
  <2>1. (\A i \in 1..b : s[i] = t[a + i]) => \A i \in 1..Len(s) : s[i] = u[i]
    BY <1>1
  <2> QED
    BY <1>1, <2>1, SameSequence
<1> QED
  BY <1>1, <1>2 DEF u, IsPiece

\* A prefix is told by its elements.
LEMMA PrefixIs ==
  ASSUME NEW S, NEW s \in Seq(S), NEW t \in Seq(S)
  PROVE  IsPrefix(s, t) <=> Len(s) <= Len(t) /\ \A i \in 1..Len(s) : s[i] = t[i]
<1>1. SubSeq(s, 1, Len(s)) = s
  OBVIOUS
<1>2. ASSUME Len(s) <= Len(t) PROVE s = SubSeq(t, 1, Len(s)) <=> \A i \in 1..Len(s) : s[i] = t[i]
  <2>1. PICK b \in Nat : b = Len(s)
    OBVIOUS
  <2>2. PICK a \in Nat : a = 0 /\ a + 1 = 1 /\ a + b = b /\ \A i \in 1..b : a + i = i
    OBVIOUS
  <2>3. s = SubSeq(t, a + 1, a + b) <=> IsPiece(s, t, a, b)
    <3>1. a + b <= Len(t) /\ Len(s) = b /\ b \in Nat
      BY <1>2, <2>1, <2>2
    <3> QED
      BY <3>1, SamePiece
  <2> QED
    BY <2>1, <2>2, <2>3 DEF IsPiece
<1> QED
  BY <1>1, <1>2 DEF IsPrefix

\* A text contains a needle when it ends somewhere in it.
LEMMA SubstringIs ==
  ASSUME NEW t \in Texts, NEW n \in Texts
  PROVE  HasSubstring(t, n) <=> Within(t, Len(t), n)
<1>1. t \in Seq(Bytes) /\ n \in Seq(Bytes) /\ Len(t) \in Nat /\ Len(n) \in Nat
  BY DEF Texts
<1>2. ASSUME NEW i \in 0..Len(t)
      PROVE  IsPrefix(n, SubSeq(t, i + 1, Len(t))) <=> Len(n) <= Len(t) - i /\ \A j \in 1..Len(n) : n[j] = t[i + j]
  <2> DEFINE s == SubSeq(t, i + 1, Len(t))
  <2>1. s \in Seq(Bytes) /\ Len(s) = Len(t) - i /\ \A j \in 1..Len(t) - i : s[j] = t[i + j]
    <3>1. PICK b \in Nat : b = Len(t) - i /\ i + b = Len(t) /\ i \in Nat
      BY <1>1
    <3>2. SubSeq(t, i + 1, i + b) \in Seq(Bytes) /\ Len(SubSeq(t, i + 1, i + b)) = b
          /\ \A j \in 1..b : SubSeq(t, i + 1, i + b)[j] = t[i + j]
      BY <1>1, <3>1, PieceOf
    <3> QED
      BY <3>1, <3>2
  <2> HIDE DEF s
  <2>2. IsPrefix(n, s) <=> Len(n) <= Len(s) /\ \A j \in 1..Len(n) : n[j] = s[j]
    BY <1>1, <2>1, PrefixIs
  <2>3. Len(n) <= Len(t) - i => \A j \in 1..Len(n) : s[j] = t[i + j]
    BY <1>1, <2>1
  <2> QED
    BY <2>1, <2>2, <2>3 DEF s
<1>3. ASSUME HasSubstring(t, n) PROVE Within(t, Len(t), n)
  <2>1. PICK i \in 0..Len(t) : Len(n) <= Len(t) - i /\ \A j \in 1..Len(n) : n[j] = t[i + j]
    BY <1>2, <1>3 DEF HasSubstring
  <2>2. i + Len(n) \in 0..Len(t) /\ Len(n) <= i + Len(n) /\ \A j \in 1..Len(n) : i + Len(n) - Len(n) + j = i + j
    BY <1>1, <2>1
  <2>3. Ends(n, Len(n), t, i + Len(n))
    BY <2>1, <2>2 DEF Ends
  <2> QED
    BY <2>2, <2>3 DEF Within
<1>4. ASSUME Within(t, Len(t), n) PROVE HasSubstring(t, n)
  <2>1. PICK e \in 0..Len(t) : Ends(n, Len(n), t, e)
    BY <1>4 DEF Within
  <2>2. Len(n) <= e /\ \A j \in 1..Len(n) : t[e - Len(n) + j] = n[j]
    BY <2>1 DEF Ends
  <2>3. PICK i \in 0..Len(t) : i = e - Len(n) /\ Len(n) <= Len(t) - i
    <3>1. e - Len(n) \in 0..Len(t) /\ Len(n) <= Len(t) - (e - Len(n))
      BY <1>1, <2>2
    <3> QED
      BY <3>1
  <2>4. IsPrefix(n, SubSeq(t, i + 1, Len(t)))
    BY <1>2, <2>2, <2>3
  <2> QED
    BY <2>4 DEF HasSubstring
<1> QED
  BY <1>3, <1>4

--------------------------------------------------------------------------------
(* A run of bytes at once.                                                     *)

\* What begins with k bytes of text and b more.
LEMMA BeginsMore ==
  ASSUME NEW text, NEW k \in Nat, NEW b \in Nat, NEW n, Len(n) \in Nat
  PROVE  Begins(text, k + b, n) <=> Begins(text, k, n) /\ k + b <= Len(n) /\ Agree(n, text, k, b)
<1>1. ASSUME Begins(text, k + b, n) PROVE Begins(text, k, n) /\ k + b <= Len(n) /\ \A i \in 1..b : n[k + i] = text[k + i]
  <2>1. \A i \in 1..k : i \in 1..k + b
    OBVIOUS
  <2>2. \A i \in 1..b : k + i \in 1..k + b
    OBVIOUS
  <2>3. k + b <= Len(n) => k <= Len(n)
    OBVIOUS
  <2> QED
    BY <1>1, <2>1, <2>2, <2>3 DEF Begins
<1>2. ASSUME Begins(text, k, n), k + b <= Len(n), \A i \in 1..b : n[k + i] = text[k + i] PROVE Begins(text, k + b, n)
  <2>1. ASSUME NEW i \in 1..k + b, i \notin 1..k PROVE n[i] = text[i]
    <3>1. i - k \in 1..b /\ k + (i - k) = i
      BY <2>1
    <3> QED
      BY <1>2, <3>1
  <2> QED
    BY <1>2, <2>1 DEF Begins
<1> QED
  BY <1>1, <1>2 DEF Agree

\* A run is what a value expects when they agree on it.
LEMMA ExpectedIs ==
  ASSUME NEW v \in Texts, NEW m, NEW k \in Nat, m.pos = k, NEW segment \in Texts, NEW all,
         PieceAt(all, k, segment), k + Len(segment) <= Len(v)
  PROVE  segment = Expected(v, m, segment) <=> Agree(v, all, k, Len(segment))
<1>1. PICK b \in Nat : b = Len(segment)
  BY DEF Texts
<1>2. segment = SubSeq(v, k + 1, k + b) <=> IsPiece(segment, v, k, b)
  <2>1. k + b <= Len(v) /\ segment \in Seq(Bytes) /\ v \in Seq(Bytes) /\ Len(segment) = b
    BY <1>1 DEF Texts
  <2> QED
    BY <2>1, SamePiece
<1>3. Expected(v, m, segment) = SubSeq(v, k + 1, k + b)
  BY <1>1 DEF Expected
<1>4. \A i \in 1..b : segment[i] = all[k + i]
  BY <1>1 DEF PieceAt
<1> QED
  BY <1>1, <1>2, <1>3, <1>4 DEF IsPiece, Agree

\* A run for the matcher of in.
LEMMA InSegment ==
  ASSUME NEW needles \in SUBSET Texts, NEW m \in MatcherType, NEW all, NEW k \in Nat, FollowIn(needles, m, all, k),
         NEW segment \in Texts, PieceAt(all, k, segment)
  PROVE  SegmentIn(m, segment) \in MatcherType /\ FollowIn(needles, SegmentIn(m, segment), all, k + Len(segment))
<1>1. PICK b \in Nat : b = Len(segment)
  BY DEF Texts
<1>2. m.pos = k /\ m.alive = {v \in needles : Begins(all, k, v)}
  BY DEF FollowIn
<1> DEFINE left == {v \in m.alive : Len(segment) <= Len(v) - m.pos /\ segment = Expected(v, m, segment)}
<1>3. SegmentIn(m, segment) = [m EXCEPT !.pos = @ + Len(segment), !.alive = left]
  BY DEF SegmentIn
<1>4. left \in SUBSET Texts /\ m.pos + Len(segment) \in Nat
  BY <1>1, <1>2
<1>5. ASSUME NEW v \in needles
      PROVE  Begins(all, k, v) /\ Len(segment) <= Len(v) - m.pos /\ segment = Expected(v, m, segment)
             <=> Begins(all, k + b, v)
  <2>1. v \in Texts /\ Len(v) \in Nat
    BY DEF Texts
  <2>2. Len(segment) <= Len(v) - m.pos <=> k + b <= Len(v)
    BY <1>1, <1>2, <2>1
  <2>3. k + b <= Len(v) => (segment = Expected(v, m, segment) <=> Agree(v, all, k, b))
    BY <1>1, <1>2, <2>1, ExpectedIs
  <2> QED
    BY <2>1, <2>2, <2>3, BeginsMore
<1>6. left = {v \in needles : Begins(all, k + b, v)}
  BY <1>2, <1>5
<1> HIDE DEF left
<1>7. /\ SegmentIn(m, segment) \in MatcherType /\ SegmentIn(m, segment).pos = m.pos + Len(segment)
      /\ SegmentIn(m, segment).alive = left
  BY <1>3, <1>4 DEF MatcherType
<1> QED
  BY <1>1, <1>2, <1>6, <1>7 DEF FollowIn

\* A run for the matcher of Eq.
LEMMA EqSegment ==
  ASSUME NEW n \in Texts, NEW m \in MatcherType, NEW all, NEW k \in Nat, FollowEq(n, m, all, k),
         NEW segment \in Texts, PieceAt(all, k, segment)
  PROVE  SegmentEq(n, m, segment) \in MatcherType /\ FollowEq(n, SegmentEq(n, m, segment), all, k + Len(segment))
<1>1. PICK b \in Nat : b = Len(segment)
  BY DEF Texts
<1>2. Len(n) \in Nat
  BY DEF Texts
<1>3. Begins(all, k + b, n) <=> Begins(all, k, n) /\ k + b <= Len(n) /\ Agree(n, all, k, b)
  BY <1>2, BeginsMore
<1>4. CASE m.over
  <2>1. SegmentEq(n, m, segment) = m
    BY <1>4 DEF SegmentEq
  <2> QED
    BY <1>1, <1>3, <1>4, <2>1 DEF FollowEq
<1>5. CASE ~m.over
  <2>1. m.pos = k /\ Begins(all, k, n)
    BY <1>5 DEF FollowEq
  <2>2. k + b <= Len(n) => (segment = Expected(n, m, segment) <=> Agree(n, all, k, b))
    BY <1>1, <2>1, ExpectedIs
  <2>3. Len(segment) > Len(n) - m.pos <=> ~(k + b <= Len(n))
    BY <1>1, <1>2, <2>1
  <2>4. CASE Begins(all, k + b, n)
    <3>1. SegmentEq(n, m, segment) = [m EXCEPT !.pos = @ + Len(segment)]
      BY <1>3, <1>5, <2>2, <2>3, <2>4 DEF SegmentEq
    <3>2. /\ SegmentEq(n, m, segment) \in MatcherType /\ SegmentEq(n, m, segment).pos = k + b
          /\ SegmentEq(n, m, segment).over = m.over
      BY <1>1, <2>1, <3>1 DEF MatcherType
    <3> QED
      BY <1>1, <1>5, <2>4, <3>2 DEF FollowEq
  <2>5. CASE ~Begins(all, k + b, n)
    <3>1. SegmentEq(n, m, segment) = [m EXCEPT !.over = TRUE]
      BY <1>3, <1>5, <2>1, <2>2, <2>3, <2>5 DEF SegmentEq
    <3>2. SegmentEq(n, m, segment) \in MatcherType /\ SegmentEq(n, m, segment).over = TRUE
      BY <3>1 DEF MatcherType
    <3> QED
      BY <1>1, <2>5, <3>2 DEF FollowEq
  <2> QED
    BY <2>4, <2>5
<1> QED
  BY <1>4, <1>5

\* A run for the matcher of prefix.
LEMMA PrefixSegment ==
  ASSUME NEW n \in Texts, NEW m \in MatcherType, NEW all, NEW k \in Nat, FollowPrefix(n, m, all, k),
         NEW segment \in Texts, PieceAt(all, k, segment)
  PROVE  SegmentPrefix(n, m, segment) \in MatcherType /\ FollowPrefix(n, SegmentPrefix(n, m, segment), all, k + Len(segment))
<1> DEFINE after == SegmentPrefix(n, m, segment)
<1>1. PICK b \in Nat : b = Len(segment)
  BY DEF Texts
<1>2. Len(n) \in Nat /\ m.pos \in Nat /\ m.over \in BOOLEAN /\ m.matched \in BOOLEAN
  BY DEF Texts, MatcherType
<1>3. Begins(all, k + b, n) <=> Begins(all, k, n) /\ k + b <= Len(n) /\ Agree(n, all, k, b)
  BY <1>2, BeginsMore
<1>4. CASE m.over
  <2>1. after = m
    BY <1>4 DEF SegmentPrefix
  <2> HIDE DEF after
  <2>2. CASE m.matched
    <3>1. Len(n) <= k /\ Begins(all, Len(n), n) /\ Len(n) <= k + b
      BY <1>2, <2>2 DEF FollowPrefix
    <3> QED
      BY <1>1, <1>4, <2>1, <2>2, <3>1 DEF FollowPrefix, after
  <2>3. CASE ~m.matched
    <3>1. ~Begins(all, k, n)
      BY <1>4, <2>3 DEF FollowPrefix
    <3>2. ASSUME Begins(all, Len(n), n), Len(n) <= k + b PROVE FALSE
      <4>1. CASE Len(n) <= k
        BY <2>3, <3>2, <4>1 DEF FollowPrefix
      <4>2. CASE ~(Len(n) <= k)
        <5>1. k <= Len(n) /\ \A i \in 1..k : i \in 1..Len(n)
          BY <1>2, <4>2
        <5> QED
          BY <3>1, <3>2, <5>1 DEF Begins
      <4> QED
        BY <4>1, <4>2
    <3> QED
      BY <1>1, <1>3, <1>4, <2>1, <2>3, <3>1, <3>2 DEF FollowPrefix, after
  <2> QED
    BY <2>2, <2>3
<1>5. CASE ~m.over
  <2>1. m.pos = k /\ ~m.matched /\ Begins(all, k, n)
    BY <1>5 DEF FollowPrefix
  <2>2. k < Len(n)
    <3>1. k <= Len(n)
      BY <2>1 DEF Begins
    <3>2. k # Len(n)
      BY <2>1 DEF FollowPrefix
    <3> QED
      BY <1>2, <3>1, <3>2
  <2>3. PICK rem \in Nat : rem = Len(n) - k /\ k + rem = Len(n)
    BY <1>2, <2>2
  <2>4. CASE b >= rem
    <3> DEFINE same == (SubSeq(segment, 1, rem) = SubSeq(n, m.pos + 1, Len(n)))
    <3>1. after = [m EXCEPT !.over = TRUE, !.matched = same]
      BY <1>1, <1>5, <2>1, <2>3, <2>4 DEF SegmentPrefix
    <3>2. same <=> Begins(all, Len(n), n)
      <4> DEFINE head == SubSeq(segment, 0 + 1, 0 + rem)
      <4>1. 0 + rem <= Len(segment) /\ segment \in Seq(Bytes) /\ n \in Seq(Bytes)
        BY <1>1, <2>4 DEF Texts
      <4>2. head \in Seq(Bytes) /\ Len(head) = rem /\ \A i \in 1..rem : head[i] = segment[0 + i]
        BY <4>1, PieceOf
      <4>3. head = SubSeq(segment, 1, rem)
        OBVIOUS
      <4> HIDE DEF head
      <4>4. head = SubSeq(n, k + 1, k + rem) <=> IsPiece(head, n, k, rem)
        <5>1. k + rem <= Len(n)
          BY <2>3
        <5>2. head \in Seq(Bytes) /\ n \in Seq(Bytes) /\ k \in Nat /\ rem \in Nat /\ Len(head) = rem
          BY <2>3, <4>1, <4>2
        <5> QED
          BY ONLY <5>1, <5>2, SamePiece
      <4>5. \A i \in 1..rem : head[i] = all[k + i]
        <5>1. ASSUME NEW i \in 1..rem PROVE head[i] = all[k + i]
          <6>1. 0 + i = i /\ i \in 1..Len(segment)
            BY <1>1, <2>4
          <6> QED
            BY <4>2, <6>1 DEF PieceAt
        <5> QED
          BY <5>1
      <4>6. same <=> Agree(n, all, k, rem)
        BY <2>1, <2>3, <4>3, <4>4, <4>5 DEF IsPiece, Agree
      <4>7. Begins(all, k + rem, n) <=> Begins(all, k, n) /\ k + rem <= Len(n) /\ Agree(n, all, k, rem)
        BY <1>2, BeginsMore
      <4> HIDE DEF same
      <4>8. k + rem <= Len(n)
        BY <2>3
      <4>9. Begins(all, k + rem, n) <=> Begins(all, Len(n), n)
        BY <2>3
      <4> QED
        BY <2>1, <4>6, <4>7, <4>8, <4>9
    <3>3. same \in BOOLEAN
      OBVIOUS
    <3> HIDE DEF same, after
    <3>4. after \in MatcherType /\ after.over = TRUE /\ after.matched = same
      BY <3>1, <3>3 DEF MatcherType
    <3>5. Len(n) <= k + b
      BY <2>3, <2>4
    <3>6. Begins(all, k + b, n) => same
      <4>1. Begins(all, k + b, n) => k + b = Len(n)
        BY <1>2, <1>3, <3>5
      <4> QED
        BY <3>2, <4>1
    <3> QED
      BY <1>1, <3>2, <3>4, <3>5, <3>6 DEF FollowPrefix, after
  <2>5. CASE ~(b >= rem)
    <3>1. k + b <= Len(n) /\ ~(Len(n) <= k + b)
      BY <2>3, <2>5
    <3>2. segment = Expected(n, m, segment) <=> Agree(n, all, k, b)
      BY <1>1, <2>1, <3>1, ExpectedIs
    <3>3. ~(Len(segment) >= Len(n) - m.pos)
      BY <1>1, <2>1, <2>3, <2>5
    <3>4. CASE Begins(all, k + b, n)
      <4>1. after = [m EXCEPT !.pos = @ + Len(segment)]
        BY <1>3, <1>5, <3>2, <3>3, <3>4 DEF SegmentPrefix
      <4> HIDE DEF after
      <4>2. after \in MatcherType /\ after.pos = k + b /\ after.over = m.over /\ after.matched = m.matched
        BY <1>1, <2>1, <4>1 DEF MatcherType
      <4> QED
        BY <1>1, <1>5, <2>1, <3>1, <3>4, <4>2 DEF FollowPrefix, after
    <3>5. CASE ~Begins(all, k + b, n)
      <4>1. after = [m EXCEPT !.over = TRUE]
        BY <1>3, <1>5, <2>1, <3>1, <3>2, <3>3, <3>5 DEF SegmentPrefix
      <4> HIDE DEF after
      <4>2. after \in MatcherType /\ after.over = TRUE /\ after.matched = m.matched
        BY <4>1 DEF MatcherType
      <4> QED
        BY <1>1, <2>1, <3>1, <3>5, <4>2 DEF FollowPrefix, after
    <3> QED
      BY <3>4, <3>5
  <2> QED
    BY <2>4, <2>5
<1> QED
  BY <1>4, <1>5

\* What ends in a piece ends in the text, when it is not longer.
LEMMA PieceEnds ==
  ASSUME NEW n, NEW s, NEW t, NEW a \in Nat, NEW b \in Nat, IsPiece(s, t, a, b), NEW e \in 0..b, NEW j \in 0..e
  PROVE  Ends(n, j, s, e) <=> Ends(n, j, t, a + e)
<1>1. ASSUME NEW i \in 1..j PROVE s[e - j + i] = t[a + e - j + i]
  <2>1. e - j + i \in 1..b /\ a + (e - j + i) = a + e - j + i
    OBVIOUS
  <2> QED
    BY <2>1 DEF IsPiece
<1>2. j <= e /\ j <= a + e
  OBVIOUS
<1>3. (\A i \in 1..j : s[e - j + i] = n[i]) <=> \A i \in 1..j : t[a + e - j + i] = n[i]
  BY <1>1
<1> QED
  BY <1>2, <1>3 DEF Ends

\* What ends in a piece and is longer has begun before it.
LEMMA EndsEarlier ==
  ASSUME NEW n, NEW t, NEW a \in Nat, NEW e \in Nat, NEW j \in Nat, Ends(n, j, t, a + e), j > e
  PROVE  Ends(n, j - e, t, a)
<1>1. j <= a + e /\ j - e <= a
  BY DEF Ends
<1>2. ASSUME NEW i \in 1..j - e PROVE t[a - (j - e) + i] = n[i]
  <2>1. i \in 1..j /\ a + e - j + i = a - (j - e) + i
    OBVIOUS
  <2> QED
    BY <2>1 DEF Ends
<1> QED
  BY <1>1, <1>2 DEF Ends

\* A piece folded by itself is a piece of the folded text.
LEMMA FoldedPiece ==
  ASSUME NEW c, NEW all \in Texts, NEW segment \in Texts, NEW k \in Nat, PieceAt(all, k, segment)
  PROVE  IsPiece(FoldCase(c, segment), FoldCase(c, all), k, Len(segment))
<1> DEFINE fold == FoldCase(c, segment)
           text == FoldCase(c, all)
<1>1. Len(segment) \in Nat /\ Len(all) \in Nat /\ k + Len(segment) <= Len(all)
  BY DEF Texts, PieceAt
<1>2. ASSUME NEW i \in 1..Len(segment) PROVE fold[i] = text[k + i]
  <2>1. k + i \in 1..Len(all) /\ segment[i] = all[k + i]
    BY <1>1 DEF PieceAt
  <2>2. fold[i] = FoldByte(c, segment[i])
    BY FoldFacts
  <2>3. text[k + i] = FoldByte(c, all[k + i])
    BY <2>1, FoldFacts
  <2> QED
    BY <2>1, <2>2, <2>3
<1> QED
  BY <1>2 DEF IsPiece

\* Nothing of n has been seen before a run: it can only begin in the run.
LEMMA RunOfOne ==
  ASSUME NEW n \in Texts, NEW text, NEW k \in Nat, LongestPos(n, text, k, 0), NEW e \in Nat, NEW j \in 0..Len(n),
         Ends(n, j, text, k + e)
  PROVE  j <= e
<1>1. Len(n) \in Nat /\ j \in Nat
  BY DEF Texts
<1>2. ASSUME j > e PROVE FALSE
  <2>1. Ends(n, j - e, text, k)
    BY <1>1, <1>2, EndsEarlier
  <2>2. j - e \in 0..Len(n) /\ ~(j - e <= 0)
    BY <1>1, <1>2
  <2> QED
    BY <2>1, <2>2 DEF LongestPos
<1> QED
  BY <1>1, <1>2

\* A run for the matcher of one needle that has nothing begun.
LEMMA ContainsRun ==
  ASSUME NEW c, IsClause(c), c.kind = "contains", ~HasAutomaton(c), NEW n \in Texts, n = Needle(c),
         NEW all \in Texts, NEW text, text = FoldCase(c, all), NEW k \in Nat, NEW m \in MatcherType,
         FollowOne(n, m, text, k), ~m.matched, m.pos = 0, NEW segment \in Texts, PieceAt(all, k, segment)
  PROVE  /\ SegmentContains(c, m, segment) \in MatcherType
         /\ FollowOne(n, SegmentContains(c, m, segment), text, k + Len(segment))
<1> DEFINE fold  == FoldCase(c, segment)
           after == SegmentContains(c, m, segment)
<1>1. PICK b \in Nat : b = Len(segment)
  BY DEF Texts
<1>2. fold \in Texts /\ Len(fold) = b /\ IsPiece(fold, text, k, b) /\ Len(n) \in Nat
  BY <1>1, FoldFacts, FoldedPiece DEF Texts
<1>3. LongestPos(n, text, k, 0) /\ ~Within(text, k, n)
  BY DEF FollowOne
<1>4. Len(n) > 0 /\ n # <<>>
  <2>1. Len(n) # 0
    <3>1. 0 \in 0..k /\ Ends(n, 0, text, 0)
      BY DEF Ends
    <3> QED
      BY <1>3, <3>1 DEF Within
  <2> QED
    BY <1>2, <2>1 DEF Texts
<1>5. HasSubstring(fold, n) <=> Within(fold, b, n)
  BY <1>2, SubstringIs
<1>6. Within(fold, b, n) <=> Within(text, k + b, n)
  <2>1. ASSUME NEW e \in 0..b, Ends(n, Len(n), fold, e) PROVE Within(text, k + b, n)
    <3>1. Len(n) \in 0..e
      BY <1>2, <2>1 DEF Ends
    <3>2. Ends(n, Len(n), text, k + e)
      BY <1>2, <2>1, <3>1, PieceEnds
    <3>3. k + e \in 0..k + b
      OBVIOUS
    <3> QED
      BY <3>2, <3>3 DEF Within
  <2>2. ASSUME NEW d \in 0..k + b, Ends(n, Len(n), text, d) PROVE Within(fold, b, n)
    <3>1. ~(d <= k)
      <4>1. d <= k => d \in 0..k
        OBVIOUS
      <4> QED
        BY <1>3, <2>2, <4>1 DEF Within
    <3>2. PICK e \in 0..b : k + e = d
      <4>1. d - k \in 0..b /\ k + (d - k) = d
        BY <3>1
      <4> QED
        BY <4>1
    <3>3. Ends(n, Len(n), text, k + e)
      BY <2>2, <3>2
    <3>4. Len(n) <= e
      <4>1. Len(n) \in 0..Len(n) /\ e \in Nat
        BY <1>2
      <4> QED
        BY <1>3, <3>3, <4>1, RunOfOne
    <3>5. Ends(n, Len(n), fold, e)
      <4>1. Len(n) \in 0..e
        BY <1>2, <3>4
      <4> QED
        BY <1>2, <3>3, <4>1, PieceEnds
    <3> QED
      BY <3>5 DEF Within
  <2> QED
    BY <2>1, <2>2 DEF Within
<1>7. CASE HasSubstring(fold, n)
  <2>1. after = [m EXCEPT !.matched = TRUE]
    BY <1>7 DEF SegmentContains
  <2> HIDE DEF after
  <2>2. after \in MatcherType /\ after.matched = TRUE
    BY <2>1 DEF MatcherType
  <2> QED
    BY <1>1, <1>5, <1>6, <1>7, <2>2 DEF FollowOne, after
<1>8. CASE ~HasSubstring(fold, n)
  <2> DEFINE off  == IF b < Len(n) THEN 0 ELSE b - (Len(n) - 1)
             rest == SubSeq(segment, off + 1, b)
             tail == FoldCase(c, rest)
  <2>1. after = FeedBytes(c, m, rest)
    <3>1. off + 1 = IF Len(segment) < Len(n) THEN 1 ELSE Len(segment) - (Len(n) - 2)
      BY <1>1, <1>2
    <3> QED
      BY <1>1, <1>8, <3>1 DEF SegmentContains
  <2>2. off \in Nat /\ off <= b
    BY <1>2, <1>4
  <2>3. PICK left \in Nat : off + left = b
    BY <2>2
  <2>4. left = b \/ left + 1 = Len(n)
    BY <1>2, <1>4, <2>3
  <2> HIDE DEF off
  <2>5. rest \in Texts /\ Len(rest) = left /\ \A i \in 1..left : rest[i] = segment[off + i]
    <3>1. SubSeq(segment, off + 1, off + left) \in Seq(Bytes) /\ Len(SubSeq(segment, off + 1, off + left)) = left
          /\ \A i \in 1..left : SubSeq(segment, off + 1, off + left)[i] = segment[off + i]
      BY <1>1, <2>2, <2>3, PieceOf DEF Texts
    <3> QED
      BY <2>3, <3>1 DEF Texts
  <2> HIDE DEF rest, after
  <2>6. PICK at \in Nat : at = k + off /\ at + left = k + b
    BY <2>2, <2>3
  <2>7. PieceAt(all, at, rest)
    <3>1. at + left <= Len(all)
      BY <1>1, <2>6 DEF PieceAt
    <3>2. ASSUME NEW i \in 1..left PROVE rest[i] = all[at + i]
      <4>1. off + i \in 1..b /\ k + (off + i) = at + i
        BY <2>2, <2>3, <2>6
      <4>2. segment[off + i] = all[k + (off + i)]
        BY <1>1, <4>1 DEF PieceAt
      <4> QED
        BY <2>5, <4>1, <4>2
    <3> QED
      BY <2>5, <3>1, <3>2 DEF PieceAt
  <2>8. tail \in Texts /\ IsPiece(tail, text, at, left)
    BY <2>5, <2>7, FoldFacts, FoldedPiece
  <2>9. FollowOne(n, m, tail, 0)
    <3>1. ~Within(tail, 0, n)
      BY <1>2, <1>4 DEF Within, Ends
    <3>2. LongestPos(n, tail, 0, 0)
      BY <1>2 DEF LongestPos, Ends
    <3> QED
      BY <3>1, <3>2 DEF FollowOne
  <2>10. after \in MatcherType /\ FollowOne(n, after, tail, left)
    <3>1. Follow(c, m, tail, 0)
      BY <2>9 DEF Follow
    <3>2. PieceAt(rest, 0, rest)
      BY <2>5 DEF PieceAt
    <3>3. PICK z \in Nat : z = 0 /\ z + Len(rest) = left
      BY <2>5
    <3>4. Follow(c, FeedBytes(c, m, rest), tail, z + Len(rest))
      <4>1. Follow(c, m, tail, z) /\ PieceAt(rest, z, rest) /\ Len(rest) \in Nat
        BY <2>5, <3>1, <3>2, <3>3
      <4>2. IsTerm(c) \/ IsIn(c)
        BY DEF IsTerm
      <4> QED
        BY <2>5, <4>1, <4>2, BytesFollow
    <3> QED
      BY <2>1, <3>3, <3>4 DEF Follow
  <2> HIDE DEF tail
  <2>11. ~Within(text, k + b, n)
    BY <1>5, <1>6, <1>8
  <2>12. ~Within(tail, left, n)
    <3>1. ASSUME NEW e \in 0..left, Ends(n, Len(n), tail, e) PROVE FALSE
      <4>1. Len(n) \in 0..e
        BY <1>2, <3>1 DEF Ends
      <4>2. Ends(n, Len(n), text, at + e)
        BY <2>8, <3>1, <4>1, PieceEnds
      <4>3. at + e \in 0..k + b
        BY <2>6
      <4> QED
        BY <2>11, <4>2, <4>3 DEF Within
    <3> QED
      BY <3>1 DEF Within
  <2>13. ~after.matched /\ LongestPos(n, tail, left, after.pos)
    BY <2>10, <2>12 DEF FollowOne
  <2>14. PICK pos \in 0..Len(n) : pos = after.pos
    BY <2>13 DEF LongestPos
  <2>15. Ends(n, pos, text, k + b)
    <3>1. Ends(n, pos, tail, left) /\ pos \in 0..left
      BY <2>13, <2>14 DEF LongestPos, Ends
    <3>2. Ends(n, pos, text, at + left)
      <4>1. left \in 0..left
        OBVIOUS
      <4> QED
        BY <2>8, <3>1, <4>1, PieceEnds
    <3> QED
      BY <2>6, <3>2
  <2>16. ASSUME NEW j \in 0..Len(n), Ends(n, j, text, k + b) PROVE j <= pos
    <3>1. j <= b
      BY <1>3, <2>16, RunOfOne
    <3>2. j # Len(n)
      <4>1. k + b \in 0..k + b
        OBVIOUS
      <4> QED
        BY <2>11, <2>16, <4>1 DEF Within
    <3>3. j \in 0..left
      BY <1>2, <2>4, <3>1, <3>2
    <3>4. Ends(n, j, tail, left)
      <4>1. left \in 0..left /\ Ends(n, j, text, at + left)
        BY <2>6, <2>16
      <4> QED
        BY <2>8, <3>3, <4>1, PieceEnds
    <3> QED
      BY <2>13, <2>14, <3>4 DEF LongestPos
  <2>17. LongestPos(n, text, k + b, after.pos)
    BY <2>14, <2>15, <2>16 DEF LongestPos
  <2> QED
    BY <1>1, <2>10, <2>11, <2>13, <2>17 DEF FollowOne, after
<1> QED
  BY <1>7, <1>8

\* FeedSegment keeps a matcher in step.
LEMMA SegmentFollows ==
  ASSUME NEW c, IsClause(c), IsTerm(c) \/ IsIn(c), NEW all \in Texts, NEW text, text = FoldCase(c, all),
         NEW k \in Nat, NEW m, Follow(c, m, text, k), NEW segment \in Texts, PieceAt(all, k, segment)
  PROVE  Follow(c, FeedSegment(c, m, segment), text, k + Len(segment))
<1> DEFINE fed == FeedSegment(c, m, segment)
<1>1. m \in MatcherType /\ Len(segment) \in Nat
  BY DEF Follow, Texts
<1>2. /\ Needles(c) \in SUBSET Texts
      /\ c.kind \in {"eq", "prefix"} => Needle(c) \in Texts
      /\ c.kind = "contains" => Needles(c) # {} /\ (~HasAutomaton(c) => Needle(c) \in Texts)
      /\ c.kind = "in" => ~c.ignoreCase
  BY NeedlesOf
<1>3. ~c.ignoreCase => text = all
  BY FoldFacts
<1>4. Follow(c, FeedBytes(c, m, segment), text, k + Len(segment))
  BY <1>1, BytesFollow
<1>5. CASE c.kind = "in"
  <2>1. fed = SegmentIn(m, segment)
    BY <1>5 DEF FeedSegment
  <2>2. FollowIn(Needles(c), m, all, k) /\ text = all
    BY <1>2, <1>3, <1>5 DEF Follow
  <2>3. fed \in MatcherType /\ FollowIn(Needles(c), fed, all, k + Len(segment))
    BY <1>1, <1>2, <2>1, <2>2, InSegment
  <2> HIDE DEF fed
  <2> QED
    BY <1>5, <2>2, <2>3 DEF Follow, fed
<1>6. CASE c.kind = "contains"
  <2>1. fed = SegmentContains(c, m, segment)
    BY <1>6 DEF FeedSegment
  <2>2. CASE m.matched \/ HasAutomaton(c) \/ m.pos > 0
    <3>1. SegmentContains(c, m, segment) = FeedBytes(c, m, segment)
      BY <2>2 DEF SegmentContains
    <3> QED
      BY <1>4, <2>1, <3>1
  <2>3. CASE ~(m.matched \/ HasAutomaton(c) \/ m.pos > 0)
    <3>1. m.pos = 0
      BY <1>1, <2>3 DEF MatcherType
    <3>2. FollowOne(Needle(c), m, text, k)
      BY <1>6, <2>3 DEF Follow
    <3>3. fed \in MatcherType /\ FollowOne(Needle(c), fed, text, k + Len(segment))
      BY <1>1, <1>2, <1>6, <2>1, <2>3, <3>1, <3>2, ContainsRun
    <3> HIDE DEF fed
    <3> QED
      BY <1>6, <2>3, <3>3 DEF Follow, fed
  <2> QED
    BY <2>2, <2>3
<1>7. CASE c.kind \in {"eq", "prefix"} /\ c.ignoreCase
  <2>1. fed = FeedBytes(c, m, segment)
    BY <1>7 DEF FeedSegment
  <2> QED
    BY <1>4, <2>1
<1>8. CASE c.kind = "eq" /\ ~c.ignoreCase
  <2>1. fed = SegmentEq(Needle(c), m, segment)
    BY <1>8 DEF FeedSegment
  <2>2. FollowEq(Needle(c), m, all, k) /\ text = all
    BY <1>3, <1>8 DEF Follow
  <2>3. fed \in MatcherType /\ FollowEq(Needle(c), fed, all, k + Len(segment))
    BY <1>1, <1>2, <1>8, <2>1, <2>2, EqSegment
  <2> HIDE DEF fed
  <2> QED
    BY <1>8, <2>2, <2>3 DEF Follow, fed
<1>9. CASE c.kind = "prefix" /\ ~c.ignoreCase
  <2>1. fed = SegmentPrefix(Needle(c), m, segment)
    BY <1>9 DEF FeedSegment
  <2>2. FollowPrefix(Needle(c), m, all, k) /\ text = all
    BY <1>3, <1>9 DEF Follow
  <2>3. fed \in MatcherType /\ FollowPrefix(Needle(c), fed, all, k + Len(segment))
    BY <1>1, <1>2, <1>9, <2>1, <2>2, PrefixSegment
  <2> HIDE DEF fed
  <2> QED
    BY <1>9, <2>2, <2>3 DEF Follow, fed
<1> QED
  BY <1>5, <1>6, <1>7, <1>8, <1>9 DEF IsTerm, IsIn

\* A matcher that has read nothing.
LEMMA StartFollows ==
  ASSUME NEW c, IsClause(c), IsTerm(c) \/ IsIn(c), NEW all \in Texts, NEW text, text = FoldCase(c, all)
  PROVE  Follow(c, StartMatcher(c), text, 0)
<1> DEFINE m == StartMatcher(c)
           always == c.kind \in {"contains", "prefix"} /\ Needles(c) = {<<>>}
<1>1. /\ Needles(c) \in SUBSET Texts
      /\ c.kind \in {"eq", "prefix"} => Needles(c) = {Needle(c)} /\ Needle(c) \in Texts
      /\ c.kind = "contains" => Needles(c) # {}
      /\ c.kind = "contains" /\ ~HasAutomaton(c) => Needles(c) = {Needle(c)} /\ Needle(c) \in Texts
      /\ HasAutomaton(c) => Needles(c) # {<<>>}
  BY NeedlesOf
<1>2. /\ m.pos = 0 /\ (m.over <=> always) /\ (m.matched <=> always) /\ m.state = <<>> /\ m.alive = Needles(c)
      /\ m \in MatcherType
  <2>1. m = [pos |-> 0, over |-> always, matched |-> always, state |-> <<>>, alive |-> Needles(c)]
    BY DEF StartMatcher
  <2>2. always \in BOOLEAN /\ <<>> \in Texts
    BY DEF Texts
  <2> HIDE DEF always
  <2> QED
    BY <1>1, <2>1, <2>2 DEF MatcherType
<1> HIDE DEF m
<1>3. ASSUME NEW n \in Texts PROVE Begins(text, 0, n) /\ (n = <<>> <=> Len(n) <= 0) /\ (n = <<>> <=> Within(text, 0, n))
  <2>1. Len(n) \in Nat /\ (n = <<>> <=> Len(n) = 0)
    BY DEF Texts
  <2>2. Within(text, 0, n) <=> Len(n) <= 0
    BY <2>1 DEF Within, Ends
  <2> QED
    BY <2>1, <2>2 DEF Begins
<1>4. CASE c.kind = "eq"
  <2>1. Begins(text, 0, Needle(c))
    BY <1>1, <1>3, <1>4
  <2> QED
    BY <1>2, <1>4, <2>1 DEF Follow, FollowEq, m
<1>5. CASE c.kind = "prefix"
  <2>1. Needle(c) \in Texts /\ (always <=> Needle(c) = <<>>)
    BY <1>1, <1>5
  <2>2. /\ Begins(text, 0, Needle(c)) /\ (Needle(c) = <<>> <=> Len(Needle(c)) <= 0)
    BY <1>3, <2>1
  <2>3. Len(Needle(c)) <= 0 => Len(Needle(c)) = 0
    BY <2>1 DEF Texts
  <2>4. Len(Needle(c)) <= 0 => Begins(text, Len(Needle(c)), Needle(c))
    BY <2>2, <2>3
  <2>5. FollowPrefix(Needle(c), m, text, 0)
    BY <1>2, <2>1, <2>2, <2>4 DEF FollowPrefix
  <2> QED
    BY <1>2, <1>5, <2>5 DEF Follow, m
<1>6. CASE c.kind = "in"
  <2>1. \A v \in Needles(c) : Begins(text, 0, v)
    BY <1>1, <1>3
  <2> QED
    BY <1>2, <1>6, <2>1 DEF Follow, FollowIn, m
<1>7. CASE c.kind = "contains" /\ ~HasAutomaton(c)
  <2>1. Needle(c) \in Texts /\ (always <=> Needle(c) = <<>>)
    BY <1>1, <1>7
  <2>2. Needle(c) = <<>> <=> Within(text, 0, Needle(c))
    BY <1>3, <2>1
  <2>3. LongestPos(Needle(c), text, 0, 0)
    BY <2>1 DEF LongestPos, Ends, Texts
  <2>4. FollowOne(Needle(c), m, text, 0)
    BY <1>2, <2>1, <2>2, <2>3 DEF FollowOne
  <2> QED
    BY <1>2, <1>7, <2>4 DEF Follow, m
<1>8. CASE c.kind = "contains" /\ HasAutomaton(c)
  <2>1. <<>> \in Trie(Needles(c)) /\ Trie(Needles(c)) \subseteq Texts
    BY <1>1, <1>8, TrieFacts DEF IsTrie
  <2>2. text \in Seq(Bytes)
    BY FoldFacts DEF Texts
  <2>3. Len(Above(text, 0)) = 0
    <3>1. Len(text) \in Nat /\ 0 \in 0..Len(text)
      BY <2>2
    <3> QED
      BY <2>2, <3>1, AboveFacts
  <2>4. IsLongest(Trie(Needles(c)), Above(text, 0), 0, <<>>)
    <3>1. EndOf(<<>>, Above(text, 0)) /\ Len(<<>>) = 0
      BY <2>3, EmptyEnd
    <3>2. \A u \in Trie(Needles(c)) : EndOf(u, Above(text, 0)) /\ Len(u) <= 0 => Len(u) <= Len(<<>>)
      BY <3>1
    <3> QED
      BY <2>1, <3>1, <3>2 DEF IsLongest
  <2>5. FollowMany(Needles(c), m, text, 0)
    BY <1>1, <1>2, <1>8, <2>4 DEF FollowMany
  <2> QED
    BY <1>2, <1>8, <2>5 DEF Follow, m
<1> QED
  BY <1>4, <1>5, <1>6, <1>7, <1>8 DEF IsTerm, IsIn

--------------------------------------------------------------------------------
(* What the matchers hold, in the words of MatchersFollow.                     *)

\* A suffix is an end.
LEMMA SuffixIs ==
  ASSUME NEW u \in Texts, NEW t \in Texts
  PROVE  IsSuffix(u, t) <=> EndOf(u, t)
<1>1. Len(u) \in Nat /\ Len(t) \in Nat
  BY DEF Texts
<1>2. ASSUME NEW s \in Texts
      PROVE  Reverse(s) \in Seq(Bytes) /\ Len(Reverse(s)) = Len(s) /\ \A i \in 1..Len(s) : Reverse(s)[i] = s[(Len(s) - i) + 1]
  <2>1. Len(s) \in Nat /\ \A i \in 1..Len(s) : s[(Len(s) - i) + 1] \in Bytes
    BY DEF Texts
  <2>2. Reverse(s) = [i \in 1..Len(s) |-> s[(Len(s) - i) + 1]]
    BY DEF Reverse
  <2> QED
    BY <2>1, <2>2
<1> DEFINE ru == Reverse(u)
           rt == Reverse(t)
<1>3. ru \in Seq(Bytes) /\ Len(ru) = Len(u) /\ \A i \in 1..Len(u) : ru[i] = u[(Len(u) - i) + 1]
  BY <1>2
<1>4. rt \in Seq(Bytes) /\ Len(rt) = Len(t) /\ \A i \in 1..Len(t) : rt[i] = t[(Len(t) - i) + 1]
  BY <1>2
<1>5. IsSuffix(u, t) <=> IsPrefix(ru, rt)
  BY DEF IsSuffix
<1> HIDE DEF ru, rt
<1>6. IsPrefix(ru, rt) <=> Len(u) <= Len(t) /\ \A i \in 1..Len(u) : ru[i] = rt[i]
  BY <1>3, <1>4, PrefixIs
<1>7. ASSUME Len(u) <= Len(t), \A i \in 1..Len(u) : ru[i] = rt[i], NEW i \in 1..Len(u)
      PROVE  t[Len(t) - Len(u) + i] = u[i]
  <2>1. PICK j \in 1..Len(u) : j = (Len(u) - i) + 1 /\ (Len(u) - j) + 1 = i /\ (Len(t) - j) + 1 = Len(t) - Len(u) + i
    <3>1. (Len(u) - i) + 1 \in 1..Len(u)
      BY <1>1
    <3> QED
      BY <1>1, <3>1
  <2>2. j \in 1..Len(t)
    BY <1>1, <1>7
  <2> QED
    BY <1>3, <1>4, <1>7, <2>1, <2>2
<1>8. ASSUME Len(u) <= Len(t), \A i \in 1..Len(u) : t[Len(t) - Len(u) + i] = u[i], NEW i \in 1..Len(u)
      PROVE  ru[i] = rt[i]
  <2>1. PICK j \in 1..Len(u) : j = (Len(u) - i) + 1 /\ (Len(t) - i) + 1 = Len(t) - Len(u) + j
    <3>1. (Len(u) - i) + 1 \in 1..Len(u)
      BY <1>1
    <3> QED
      BY <1>1, <3>1
  <2>2. i \in 1..Len(t)
    BY <1>1, <1>8
  <2> QED
    BY <1>3, <1>4, <1>8, <2>1, <2>2
<1> QED
  BY <1>5, <1>6, <1>7, <1>8 DEF EndOf, Ends

\* Folding what has been read is reading what is folded.
LEMMA FoldAbove ==
  ASSUME NEW c, NEW all \in Texts, NEW k \in 0..Len(all)
  PROVE  FoldCase(c, Above(all, k)) = Above(FoldCase(c, all), k)
<1> DEFINE text == FoldCase(c, all)
           head == Above(all, k)
           s == FoldCase(c, head)
           t == Above(text, k)
<1>1. text \in Texts /\ Len(text) = Len(all) /\ (\A i \in 1..Len(all) : text[i] = FoldByte(c, all[i])) /\ Len(all) \in Nat
  BY FoldFacts DEF Texts
<1>2. head \in Texts /\ Len(head) = k /\ \A i \in 1..k : head[i] = all[i]
  BY AboveFacts DEF Texts
<1>3. t \in Texts /\ Len(t) = k /\ \A i \in 1..k : t[i] = text[i]
  BY <1>1, AboveFacts DEF Texts
<1> HIDE DEF head, text, t
<1>4. s \in Texts /\ Len(s) = k /\ \A i \in 1..k : s[i] = FoldByte(c, head[i])
  BY <1>2, FoldFacts
<1> HIDE DEF s
<1>5. \A i \in 1..k : s[i] = t[i]
  BY <1>1, <1>2, <1>3, <1>4
<1>6. s = t
  BY <1>3, <1>4, <1>5, SameSequence DEF Texts
<1> QED
  BY <1>6 DEF s, t, head, text

\* The longest needle begun is the state of the automaton.
LEMMA LongestIs ==
  ASSUME NEW T, T \subseteq Texts, NEW t \in Texts, NEW begun, begun = {u \in T : IsSuffix(u, t)},
         NEW r, IsLongest(T, t, Len(t), r)
  PROVE  Longest(begun) = r
<1>1. \A u \in T : u \in begun <=> EndOf(u, t)
  BY SuffixIs
<1>2. \A u \in T : EndOf(u, t) => Len(u) <= Len(t)
  BY DEF EndOf, Ends
<1>3. r \in begun /\ \A u \in begun : Len(u) <= Len(r)
  BY <1>1, <1>2 DEF IsLongest
<1>4. ASSUME NEW s \in begun, \A u \in begun : Len(u) <= Len(s) PROVE s = r
  <2>1. s \in Texts /\ r \in Texts /\ Len(s) \in Nat /\ Len(r) \in Nat /\ Len(t) \in Nat
    BY <1>3 DEF Texts
  <2>2. Len(s) = Len(r)
    BY <1>3, <1>4, <2>1
  <2>3. EndOf(s, t) /\ EndOf(r, t)
    BY <1>1, <1>3
  <2> QED
    BY <2>1, <2>2, <2>3, EndsEqual
<1> QED
  BY <1>3, <1>4 DEF Longest

\* A needle occurs in what has been read when it ended there.
LEMMA WithinAbove ==
  ASSUME NEW text \in Texts, NEW k \in 0..Len(text), NEW n \in Texts
  PROVE  HasSubstring(Above(text, k), n) <=> Within(text, k, n)
<1> DEFINE t == Above(text, k)
<1>1. t \in Texts /\ Len(t) = k /\ k \in Nat /\ \A i \in 1..k : t[i] = text[i]
  BY AboveFacts DEF Texts
<1> HIDE DEF t
<1>2. HasSubstring(t, n) <=> Within(t, k, n)
  BY <1>1, SubstringIs
<1>3. ASSUME NEW e \in 0..k PROVE Ends(n, Len(n), t, e) <=> Ends(n, Len(n), text, e)
  <2>1. Len(n) \in Nat
    BY DEF Texts
  <2>2. Len(n) <= e => \A i \in 1..Len(n) : t[e - Len(n) + i] = text[e - Len(n) + i]
    <3>1. Len(n) <= e => \A i \in 1..Len(n) : e - Len(n) + i \in 1..k
      BY <1>1, <2>1
    <3> QED
      BY <1>1, <3>1
  <2> QED
    BY <2>2 DEF Ends
<1> QED
  BY <1>2, <1>3 DEF Within, t

\* What has been read and a needle begin alike.
LEMMA BeginsAbove ==
  ASSUME NEW text \in Texts, NEW k \in 0..Len(text), NEW n \in Texts
  PROVE  /\ IsPrefix(Above(text, k), n) <=> Begins(text, k, n)
         /\ IsPrefix(n, Above(text, k)) <=> Len(n) <= k /\ Begins(text, Len(n), n)
<1> DEFINE t == Above(text, k)
<1>1. t \in Texts /\ Len(t) = k /\ k \in Nat /\ \A i \in 1..k : t[i] = text[i]
  BY AboveFacts DEF Texts
<1> HIDE DEF t
<1>2. IsPrefix(t, n) <=> k <= Len(n) /\ \A i \in 1..k : t[i] = n[i]
  <2>1. t \in Seq(Bytes) /\ n \in Seq(Bytes)
    BY <1>1 DEF Texts
  <2>2. IsPrefix(t, n) <=> Len(t) <= Len(n) /\ \A i \in 1..Len(t) : t[i] = n[i]
    BY <2>1, PrefixIs
  <2> QED
    BY <1>1, <2>2
<1>3. IsPrefix(n, t) <=> Len(n) <= k /\ \A i \in 1..Len(n) : n[i] = t[i]
  <2>1. t \in Seq(Bytes) /\ n \in Seq(Bytes)
    BY <1>1 DEF Texts
  <2>2. IsPrefix(n, t) <=> Len(n) <= Len(t) /\ \A i \in 1..Len(n) : n[i] = t[i]
    BY <2>1, PrefixIs
  <2> QED
    BY <1>1, <2>2
<1>4. Len(n) \in Nat
  BY DEF Texts
<1>5. Len(n) <= k => \A i \in 1..Len(n) : t[i] = text[i]
  BY <1>1, <1>4
<1> QED
  BY <1>1, <1>2, <1>3, <1>4, <1>5 DEF Begins, t

\* A matcher that follows the text knows what MatchersFollow says.
LEMMA FollowsKnows ==
  ASSUME NEW c, IsClause(c), IsTerm(c) \/ IsIn(c), NEW all \in Texts, NEW k \in 0..Len(all),
         NEW m, Follow(c, m, FoldCase(c, all), k)
  PROVE  Knows(c, m, FoldCase(c, Above(all, k)))
<1> DEFINE text  == FoldCase(c, all)
           read  == Above(text, k)
           begun == {t \in Trie(Needles(c)) : IsSuffix(t, read)}
<1>1. FoldCase(c, Above(all, k)) = read
  BY FoldAbove
<1>2. text \in Texts /\ Len(text) = Len(all) /\ k \in 0..Len(text) /\ Len(all) \in Nat /\ k \in Nat
  BY FoldFacts DEF Texts
<1>3. read \in Texts /\ Len(read) = k /\ (read = <<>> <=> k = 0)
  <2>1. text \in Seq(Bytes)
    BY <1>2 DEF Texts
  <2>2. read \in Seq(Bytes) /\ Len(read) = k
    BY <1>2, <2>1, AboveFacts
  <2> HIDE DEF read
  <2> QED
    BY <2>2 DEF Texts
<1>4. m \in MatcherType /\ m.over \in BOOLEAN /\ m.matched \in BOOLEAN
  BY DEF Follow, MatcherType
<1>5. /\ Needles(c) \in SUBSET Texts
      /\ c.kind \in {"eq", "prefix"} => Needle(c) \in Texts
      /\ c.kind = "contains" => Needles(c) # {}
      /\ c.kind = "contains" /\ ~HasAutomaton(c) => Needles(c) = {Needle(c)} /\ Needle(c) \in Texts
      /\ c.kind = "in" => Needles(c) = c.any
  BY NeedlesOf
<1>6. Follow(c, m, text, k)
  OBVIOUS
<1>7. ASSUME NEW n \in Texts
      PROVE  /\ IsPrefix(read, n) <=> Begins(text, k, n)
             /\ IsPrefix(n, read) <=> Len(n) <= k /\ Begins(text, Len(n), n)
             /\ HasSubstring(read, n) <=> Within(text, k, n)
  BY <1>2, BeginsAbove, WithinAbove
<1> HIDE DEF text, read, begun
<1> SUFFICES Knows(c, m, read)
  BY <1>1
<1>8. CASE c.kind = "eq"
  <2>1. FollowEq(Needle(c), m, text, k)
    BY <1>6, <1>8 DEF Follow
  <2>2. m.over = ~IsPrefix(read, Needle(c)) /\ (m.over \/ m.pos = Len(read))
    BY <1>3, <1>4, <1>5, <1>7, <1>8, <2>1 DEF FollowEq
  <2> QED
    BY <1>8, <2>2, Zenon DEF Knows, IsIn
<1>9. CASE c.kind = "prefix"
  <2>1. FollowPrefix(Needle(c), m, text, k)
    BY <1>6, <1>9 DEF Follow
  <2>2. m.matched <=> IsPrefix(Needle(c), read)
    BY <1>5, <1>7, <1>9, <2>1 DEF FollowPrefix
  <2>3. m.matched = IsPrefix(Needle(c), read)
    BY <1>4, <2>2 DEF IsPrefix
  <2> QED
    BY <1>9, <2>3, Zenon DEF Knows, IsIn
<1>10. CASE c.kind = "in"
  <2>1. FollowIn(Needles(c), m, text, k)
    BY <1>6, <1>10 DEF Follow
  <2>2. {v \in Needles(c) : Begins(text, k, v)} = {v \in c.any : IsPrefix(read, v)}
    BY <1>5, <1>7, <1>10
  <2>3. m.alive = {v \in c.any : IsPrefix(read, v)} /\ m.pos = Len(read)
    BY <1>3, <2>1, <2>2 DEF FollowIn
  <2> QED
    BY <1>10, <2>3, Zenon DEF Knows, IsIn
<1>11. CASE c.kind = "contains"
  <2>1. /\ m.matched = ((HasAutomaton(c) => read # <<>>) /\ \E n \in Needles(c) : HasSubstring(read, n))
        /\ m.matched \/ IF HasAutomaton(c) THEN m.state = Longest(begun)
                        ELSE SubSeq(Needle(c), 1, m.pos) = Longest(begun)
    <3>1. CASE HasAutomaton(c)
      <4>1. FollowMany(Needles(c), m, text, k)
        BY <1>6, <1>11, <3>1 DEF Follow
      <4>2. m.matched <=> read # <<>> /\ \E n \in Needles(c) : HasSubstring(read, n)
        BY <1>2, <1>3, <1>5, <1>7, <4>1 DEF FollowMany
      <4>3. ~m.matched => m.state = Longest(begun)
        <5>1. ~m.matched => IsLongest(Trie(Needles(c)), read, Len(read), m.state)
          BY <1>3, <4>1 DEF FollowMany, read
        <5>2. Trie(Needles(c)) \subseteq Texts
          BY <1>5, <1>11, TrieFacts DEF IsTrie
        <5> QED
          BY <1>3, <5>1, <5>2, LongestIs DEF begun
      <4> QED
        BY <1>4, <3>1, <4>2, <4>3
    <3>2. CASE ~HasAutomaton(c)
      <4> DEFINE n == Needle(c)
      <4>1. FollowOne(n, m, text, k) /\ n \in Texts /\ Needles(c) = {n} /\ n \in Seq(Bytes) /\ Len(n) \in Nat
        BY <1>5, <1>6, <1>11, <3>2 DEF Follow, Texts
      <4>2. m.matched <=> \E v \in Needles(c) : HasSubstring(read, v)
        BY <1>7, <4>1 DEF FollowOne
      <4>3. ASSUME ~m.matched PROVE SubSeq(n, 1, m.pos) = Longest(begun)
        <5>1. LongestPos(n, text, k, m.pos)
          BY <4>1, <4>3 DEF FollowOne
        <5>2. PICK pos \in 0..Len(n) : pos = m.pos /\ pos \in Nat
          BY <4>1, <5>1 DEF LongestPos
        <5> HIDE DEF n
        <5>3. ASSUME NEW j \in 0..Len(n)
              PROVE  /\ SubSeq(n, 1, j) \in Trie(Needles(c)) /\ Len(SubSeq(n, 1, j)) = j
                     /\ EndOf(SubSeq(n, 1, j), read) <=> Ends(n, j, text, k)
          <6> DEFINE u == SubSeq(n, 1, j)
          <6>1. u \in Trie(Needles(c))
            BY <4>1 DEF Trie, Prefixes
          <6>2. Len(u) = j /\ j \in Nat /\ \A i \in 1..j : u[i] = n[i]
            BY <4>1
          <6> HIDE DEF u
          <6>3. EndOf(u, read) <=> Ends(u, j, text, k)
            BY <1>2, <6>2, EndAbove DEF Texts, read
          <6>4. Ends(u, j, text, k) <=> Ends(n, j, text, k)
            BY <6>2 DEF Ends
          <6> QED
            BY <6>1, <6>2, <6>3, <6>4 DEF u
        <5>4. ASSUME NEW u \in Trie(Needles(c)) PROVE \E j \in 0..Len(n) : u = SubSeq(n, 1, j)
          BY <4>1 DEF Trie, Prefixes
        <5>5. IsLongest(Trie(Needles(c)), read, Len(read), SubSeq(n, 1, pos))
          <6>1. EndOf(SubSeq(n, 1, pos), read)
            BY <5>1, <5>2, <5>3 DEF LongestPos
          <6>2. pos <= k
            BY <5>1, <5>2 DEF LongestPos, Ends
          <6>3. ASSUME NEW u \in Trie(Needles(c)), EndOf(u, read) PROVE Len(u) <= pos
            <7>1. PICK j \in 0..Len(n) : u = SubSeq(n, 1, j)
              BY <5>4
            <7>2. Ends(n, j, text, k) /\ Len(u) = j
              BY <5>3, <6>3, <7>1
            <7> QED
              BY <5>1, <5>2, <7>2 DEF LongestPos
          <6> QED
            BY <1>3, <5>3, <6>1, <6>2, <6>3 DEF IsLongest
        <5>6. Trie(Needles(c)) \subseteq Texts
          BY <1>5, <1>11, TrieFacts DEF IsTrie
        <5> QED
          BY <1>3, <5>2, <5>5, <5>6, LongestIs DEF begun
      <4> QED
        BY <1>4, <3>2, <4>2, <4>3
    <3> QED
      BY <3>1, <3>2
  <2> QED
    BY <1>11, <2>1, Zenon DEF Knows, IsIn, begun
<1> QED
  BY <1>8, <1>9, <1>10, <1>11 DEF IsTerm, IsIn

--------------------------------------------------------------------------------
(* The string that is being matched.                                           *)

Matchers(cs) == UNION {[D -> MatcherType] : D \in SUBSET DOMAIN cs}

StringType(d, cs) ==
  [place : DOMAIN d, rest : Texts, chosen : SUBSET DOMAIN cs, exists : SUBSET DOMAIN cs,
   single : BOOLEAN, matchers : Matchers(cs)]

AllFollow(s, cs, all, k) ==
  \A i \in DOMAIN s.matchers : Follow(cs[i], s.matchers[i], FoldCase(cs[i], all), k)

InStep(s, d, cs) ==
  /\ s \in StringType(d, cs)
  /\ d[s.place].kind = "string"
  /\ DOMAIN s.matchers = {i \in s.chosen : IsTerm(cs[i]) \/ IsIn(cs[i])}
  /\ \E k \in 0..Len(d[s.place].text) :
       /\ s.rest = SubSeq(d[s.place].text, k + 1, Len(d[s.place].text))
       /\ AllFollow(s, cs, d[s.place].text, k)

StringInStep == string # NoString => InStep(string, doc, clauses)

\* What is read of a value is a text.
LEMMA TextOf ==
  ASSUME NEW v \in Values, v.kind \in {"string", "number", "bool"}
  PROVE  v.text \in Texts /\ HasText(v)
<1>1. v \in [kind : {"string", "number", "bool"}, text : Seq(STRING)]
  BY DEF Values
<1>2. \A t \in Seq(STRING) : t \in Texts
  BY DEF Texts, Bytes
<1> QED
  BY <1>1, <1>2 DEF HasText

\* A string that is begun is in step.
LEMMA StartInStep ==
  ASSUME request \in Cases, NEW place \in DOMAIN doc, doc[place].kind = "string",
         NEW chosen, chosen \subseteq Ids, NEW exists, exists \subseteq Ids
  PROVE  InStep(StartString(place, chosen, exists), doc, clauses)
<1> DEFINE all == doc[place].text
           s   == StartString(place, chosen, exists)
           D   == {i \in chosen : IsTerm(clauses[i]) \/ IsIn(clauses[i])}
           ms  == [i \in D |-> StartMatcher(clauses[i])]
<1>1. IsDocument(doc) /\ \A i \in Ids : IsClause(clauses[i])
  BY OfCase
<1>2. all \in Texts
  BY <1>1, TextOf DEF IsDocument
<1>3. /\ s.place = place /\ s.rest = all /\ s.chosen = chosen /\ s.exists = exists /\ s.matchers = ms
      /\ s \in [place : {place}, rest : {all}, chosen : {chosen}, exists : {exists}, single : BOOLEAN, matchers : {ms}]
  <2>1. {i \in chosen : IsTerm(clauses[i])} \cup {i \in chosen : IsIn(clauses[i])} = D
    OBVIOUS
  <2> HIDE DEF D
  <2> QED
    BY <2>1 DEF StartString
<1> HIDE DEF s
<1>4. \A i \in D : Follow(clauses[i], ms[i], FoldCase(clauses[i], all), 0)
  <2>1. ASSUME NEW i \in D PROVE Follow(clauses[i], StartMatcher(clauses[i]), FoldCase(clauses[i], all), 0)
    <3>1. IsClause(clauses[i]) /\ (IsTerm(clauses[i]) \/ IsIn(clauses[i]))
      BY <1>1
    <3> HIDE DEF all
    <3> QED
      BY <1>2, <3>1, StartFollows
  <2> QED
    BY <2>1
<1>5. ms \in Matchers(clauses) /\ DOMAIN ms = D
  <2>1. \A i \in D : ms[i] \in MatcherType
    BY <1>4 DEF Follow
  <2>2. D \in SUBSET DOMAIN clauses
    BY DEF Ids
  <2>3. ms = [i \in D |-> ms[i]] /\ DOMAIN ms = D
    OBVIOUS
  <2> HIDE DEF ms, D
  <2>4. ms \in [D -> MatcherType]
    BY <2>1, <2>3
  <2> QED
    BY <2>2, <2>3, <2>4 DEF Matchers
<1> HIDE DEF ms, all
<1>6. s \in StringType(doc, clauses)
  BY <1>2, <1>3, <1>5 DEF StringType, Ids
<1>7. all = SubSeq(all, 0 + 1, Len(all)) /\ 0 \in 0..Len(all)
  BY <1>2 DEF Texts
<1>8. AllFollow(s, clauses, all, 0)
  BY <1>3, <1>4, <1>5 DEF AllFollow
<1> QED
  BY <1>3, <1>5, <1>6, <1>7, <1>8 DEF InStep, s, all

\* A run is read, however it is fed.
LEMMA FeedInStep ==
  ASSUME NEW d, IsDocument(d), NEW cs, \A i \in DOMAIN cs : IsClause(cs[i]),
         NEW s, InStep(s, d, cs), NEW n \in 1..Len(s.rest), NEW segment, segment = SubSeq(s.rest, 1, n),
         NEW fed, DOMAIN fed = DOMAIN s.matchers,
         \A i \in DOMAIN fed : \/ fed[i] = FeedSegment(cs[i], s.matchers[i], segment)
                               \/ fed[i] = FeedBytes(cs[i], s.matchers[i], segment),
         fed = [i \in DOMAIN fed |-> fed[i]]
  PROVE  InStep([s EXCEPT !.rest = SubSeq(@, n + 1, Len(@)), !.matchers = fed], d, cs)
<1> DEFINE all  == d[s.place].text
           rest == SubSeq(s.rest, n + 1, Len(s.rest))
           t    == [s EXCEPT !.rest = rest, !.matchers = fed]
<1>1. s \in StringType(d, cs) /\ d[s.place].kind = "string" /\ s.place \in DOMAIN d
  BY DEF InStep, StringType
<1>2. all \in Texts /\ all \in Seq(Bytes) /\ Len(all) \in Nat
  BY <1>1, TextOf DEF IsDocument, Texts
<1>3. PICK k \in 0..Len(all) : s.rest = SubSeq(all, k + 1, Len(all)) /\ AllFollow(s, cs, all, k)
  BY DEF InStep
<1> HIDE DEF all
<1>4. PICK left \in Nat : k + left = Len(all) /\ k \in Nat
  <2>1. Len(all) - k \in Nat /\ k + (Len(all) - k) = Len(all)
    BY <1>2
  <2> QED
    BY <1>2, <2>1
<1>5. s.rest \in Seq(Bytes) /\ Len(s.rest) = left /\ \A i \in 1..left : s.rest[i] = all[k + i]
  <2>1. /\ SubSeq(all, k + 1, k + left) \in Seq(Bytes) /\ Len(SubSeq(all, k + 1, k + left)) = left
        /\ \A i \in 1..left : SubSeq(all, k + 1, k + left)[i] = all[k + i]
    <3>1. k \in Nat /\ left \in Nat /\ k + left <= Len(all)
      BY <1>2, <1>4
    <3>2. all \in Seq(Bytes)
      BY <1>2
    <3> QED
      BY <3>1, <3>2, PieceOf
  <2> QED
    BY <1>3, <1>4, <2>1
<1>6. n \in Nat /\ n <= left
  BY <1>5
<1>7. segment \in Texts /\ Len(segment) = n /\ PieceAt(all, k, segment)
  <2>1. segment \in Seq(Bytes) /\ Len(segment) = n /\ \A i \in 1..n : segment[i] = s.rest[i]
    BY <1>5, <1>6
  <2>2. \A i \in 1..n : segment[i] = all[k + i]
    BY <1>5, <1>6, <2>1
  <2>3. k + n <= Len(all)
    BY <1>4, <1>6
  <2> QED
    BY <2>1, <2>2, <2>3 DEF PieceAt, Texts
<1>8. PICK e \in 0..Len(all) : e = k + n /\ e + (left - n) = Len(all) /\ left - n \in Nat
  <2>1. k + n \in 0..Len(all) /\ k + n + (left - n) = Len(all) /\ left - n \in Nat
    BY <1>2, <1>4, <1>6
  <2> QED
    BY <2>1
<1>9. rest \in Seq(Bytes) /\ rest = SubSeq(all, e + 1, Len(all))
  <2> DEFINE u == SubSeq(all, e + 1, Len(all))
  <2>1. rest \in Seq(Bytes) /\ Len(rest) = left - n /\ \A i \in 1..left - n : rest[i] = s.rest[n + i]
    <3>1. PICK m \in Nat : m = left - n /\ n + m = Len(s.rest)
      BY <1>5, <1>6, <1>8
    <3>2. s.rest \in Seq(Bytes) /\ n \in Nat /\ m \in Nat /\ n + m <= Len(s.rest)
      BY <1>5, <1>6, <3>1
    <3> HIDE DEF u, rest
    <3>3. /\ SubSeq(s.rest, n + 1, n + m) \in Seq(Bytes) /\ Len(SubSeq(s.rest, n + 1, n + m)) = m
          /\ \A i \in 1..m : SubSeq(s.rest, n + 1, n + m)[i] = s.rest[n + i]
      BY ONLY <3>2, PieceOf
    <3>4. rest = SubSeq(s.rest, n + 1, n + m)
      BY <3>1 DEF rest
    <3> QED
      BY <3>1, <3>3, <3>4
  <2>2. u \in Seq(Bytes) /\ Len(u) = left - n /\ \A i \in 1..left - n : u[i] = all[e + i]
    <3>1. PICK m \in Nat : m = left - n /\ e + m = Len(all) /\ e \in Nat
      BY <1>2, <1>8
    <3>2. all \in Seq(Bytes) /\ e \in Nat /\ m \in Nat /\ e + m <= Len(all)
      BY <1>2, <3>1
    <3> HIDE DEF u, rest
    <3>3. /\ SubSeq(all, e + 1, e + m) \in Seq(Bytes) /\ Len(SubSeq(all, e + 1, e + m)) = m
          /\ \A i \in 1..m : SubSeq(all, e + 1, e + m)[i] = all[e + i]
      BY ONLY <3>2, PieceOf
    <3>4. u = SubSeq(all, e + 1, e + m)
      BY <3>1 DEF u
    <3> QED
      BY <3>1, <3>3, <3>4
  <2> HIDE DEF rest, u
  <2>3. ASSUME NEW i \in 1..left - n PROVE rest[i] = u[i]
    <3>1. n \in Nat /\ k \in Nat /\ left \in Nat /\ n <= left /\ e = k + n
      BY <1>4, <1>6, <1>8
    <3>2. n + i \in 1..left /\ k + (n + i) = e + i
      BY ONLY <3>1, i \in 1..left - n
    <3> QED
      BY <1>5, <2>1, <2>2, <3>2
  <2>4. rest = u
    BY <2>1, <2>2, <2>3, SameSequence
  <2> QED
    BY <2>1, <2>4 DEF u
<1>10. \A i \in DOMAIN s.matchers : i \in DOMAIN cs /\ IsClause(cs[i]) /\ (IsTerm(cs[i]) \/ IsIn(cs[i]))
  BY <1>1 DEF InStep, StringType
<1>11. ASSUME NEW i \in DOMAIN fed PROVE Follow(cs[i], fed[i], FoldCase(cs[i], all), e)
  <2>1. IsClause(cs[i]) /\ (IsTerm(cs[i]) \/ IsIn(cs[i])) /\ Follow(cs[i], s.matchers[i], FoldCase(cs[i], all), k)
    BY <1>3, <1>10 DEF AllFollow
  <2>2. PICK c : c = cs[i]
    OBVIOUS
  <2>3. PICK m : m = s.matchers[i]
    OBVIOUS
  <2>4. IsClause(c) /\ (IsTerm(c) \/ IsIn(c)) /\ Follow(c, m, FoldCase(c, all), k)
    BY <2>1, <2>2, <2>3
  <2>5. Follow(c, FeedSegment(c, m, segment), FoldCase(c, all), k + Len(segment))
    BY <1>2, <1>4, <1>7, <2>4, SegmentFollows
  <2>6. Follow(c, FeedBytes(c, m, segment), FoldCase(c, all), k + Len(segment))
    <3>1. Len(segment) \in Nat
      BY <1>6, <1>7
    <3> QED
      BY <1>2, <1>4, <1>7, <2>4, <3>1, BytesFollow
  <2>7. fed[i] = FeedSegment(c, m, segment) \/ fed[i] = FeedBytes(c, m, segment)
    BY <2>2, <2>3
  <2>8. Follow(c, fed[i], FoldCase(c, all), e)
    BY <1>7, <1>8, <2>5, <2>6, <2>7
  <2> QED
    BY <2>2, <2>8
<1>12. fed \in Matchers(cs)
  <2>1. \A i \in DOMAIN fed : fed[i] \in MatcherType
    BY <1>11 DEF Follow
  <2>2. fed = [i \in DOMAIN fed |-> fed[i]]
    OBVIOUS
  <2>3. DOMAIN fed \in SUBSET DOMAIN cs
    BY <1>10
  <2>4. fed \in [DOMAIN fed -> MatcherType]
    BY <2>1, <2>2
  <2> QED
    BY <2>3, <2>4 DEF Matchers
<1>13. rest \in Texts
  BY <1>9 DEF Texts
<1> HIDE DEF rest
<1>14. /\ t \in StringType(d, cs) /\ t.place = s.place /\ t.rest = rest /\ t.chosen = s.chosen /\ t.matchers = fed
  BY <1>1, <1>12, <1>13 DEF StringType
<1> HIDE DEF t
<1>15. AllFollow(t, cs, all, e)
  BY <1>11, <1>14 DEF AllFollow
<1>16. DOMAIN t.matchers = {i \in t.chosen : IsTerm(cs[i]) \/ IsIn(cs[i])}
  BY <1>14 DEF InStep
<1>17. InStep(t, d, cs)
  BY <1>1, <1>8, <1>9, <1>14, <1>15, <1>16 DEF InStep, all
<1> QED
  BY <1>17 DEF t, rest

\* The matchers of a string that is in step know what they should.
LEMMA InStepKnows ==
  ASSUME request \in Cases, StringInStep
  PROVE  MatchersFollow
<1> SUFFICES ASSUME string # NoString
             PROVE  LET all  == doc[string.place].text
                        read == SubSeq(all, 1, Len(all) - Len(string.rest))
                    IN  \A i \in DOMAIN string.matchers : Knows(clauses[i], string.matchers[i], FoldCase(clauses[i], read))
  BY DEF MatchersFollow
<1> DEFINE all  == doc[string.place].text
           read == SubSeq(all, 1, Len(all) - Len(string.rest))
<1>1. IsDocument(doc) /\ (\A i \in Ids : IsClause(clauses[i])) /\ InStep(string, doc, clauses)
  BY OfCase DEF StringInStep
<1>2. string \in StringType(doc, clauses) /\ doc[string.place].kind = "string" /\ string.place \in DOMAIN doc
  BY <1>1 DEF InStep, StringType
<1>3. all \in Texts /\ all \in Seq(Bytes) /\ Len(all) \in Nat
  BY <1>1, <1>2, TextOf DEF IsDocument, Texts
<1>4. PICK k \in 0..Len(all) : string.rest = SubSeq(all, k + 1, Len(all)) /\ AllFollow(string, clauses, all, k)
  BY <1>1 DEF InStep
<1>5. \A i \in DOMAIN string.matchers : IsClause(clauses[i]) /\ (IsTerm(clauses[i]) \/ IsIn(clauses[i]))
  BY <1>1, <1>2 DEF InStep, StringType, Ids
<1> HIDE DEF all
<1>6. read = Above(all, k)
  <2>1. Len(string.rest) = Len(all) - k
    BY <1>3, <1>4
  <2>2. Len(all) - Len(string.rest) = k
    BY <1>3, <2>1
  <2> QED
    BY <2>2 DEF Above
<1> HIDE DEF read
<1>7. ASSUME NEW i \in DOMAIN string.matchers
      PROVE  Knows(clauses[i], string.matchers[i], FoldCase(clauses[i], read))
  <2>1. Follow(clauses[i], string.matchers[i], FoldCase(clauses[i], all), k)
    BY <1>4 DEF AllFollow
  <2>2. Knows(clauses[i], string.matchers[i], FoldCase(clauses[i], Above(all, k)))
    BY <1>3, <1>5, <2>1, FollowsKnows
  <2> QED
    BY <1>6, <2>2
<1> QED
  BY <1>7 DEF read, all

\* Every step keeps the string that is read in step.
LEMMA StringStays ==
  ASSUME request \in Cases, StringInStep, [ScanNext]_scanVars
  PROVE  StringInStep'
<1>1. IsDocument(doc) /\ (\A i \in Ids : IsClause(clauses[i])) /\ \A place \in NextPlaces : place \in DOMAIN doc
  BY OfCase, NextInDocument
<1>2. request' = request /\ doc' = doc /\ clauses' = clauses
  BY DEF ScanNext, scanVars, ScanValue, ScanString, FeedString, EndString, ScanRootFast, ScanMemberFastEq,
         ScanMemberFast, ScanMember, Judged, doc, clauses
<1>3. ASSUME string' = string \/ string' = NoString PROVE StringInStep'
  BY <1>2, <1>3 DEF StringInStep
<1>4. ASSUME NEW place \in NextPlaces, doc[place].kind = "string", NEW chosen, chosen \subseteq Ids,
             NEW exists, exists \subseteq Ids, string' = StartString(place, chosen, exists)
      PROVE  StringInStep'
  <2>1. InStep(StartString(place, chosen, exists), doc, clauses)
    BY <1>1, <1>4, StartInStep
  <2> QED
    BY <1>2, <1>4, <2>1 DEF StringInStep
<1>5. CASE ScanString
  <2>1. PICK place \in NextPlaces :
          LET clauseSet == PathHits(place)
              exists    == {i \in clauseSet : IsExists(clauses[i])}
              chosen    == {i \in clauseSet : IsTerm(clauses[i]) \/ IsIn(clauses[i]) \/ IsTemporal(clauses[i])}
          IN  doc[place].kind = "string" /\ (string' = StartString(place, chosen, exists) \/ string' = string)
    BY <1>5 DEF ScanString
  <2>2. PathHits(place) \subseteq Ids
    BY DEF PathHits
  <2> QED
    BY <1>3, <1>4, <2>1, <2>2
<1>6. CASE FeedString
  <2>1. PICK n \in 1..Len(string.rest) :
          LET segment == SubSeq(string.rest, 1, n)
              Feed(i) == IF string.single THEN FeedSegment(clauses[i], string.matchers[i], segment)
                         ELSE FeedBytes(clauses[i], string.matchers[i], segment)
          IN  string' = [string EXCEPT !.rest = SubSeq(@, n + 1, Len(@)),
                                       !.matchers = [i \in DOMAIN @ |-> Feed(i)]]
    BY <1>6 DEF FeedString
  <2> DEFINE segment == SubSeq(string.rest, 1, n)
             fed == [i \in DOMAIN string.matchers |->
                       IF string.single THEN FeedSegment(clauses[i], string.matchers[i], segment)
                       ELSE FeedBytes(clauses[i], string.matchers[i], segment)]
             next == [string EXCEPT !.rest = SubSeq(@, n + 1, Len(@)), !.matchers = fed]
  <2>2. string' = next
    BY <2>1
  <2>3. InStep(string, doc, clauses)
    BY <1>6 DEF FeedString, StringInStep
  <2>4. DOMAIN fed = DOMAIN string.matchers /\ fed = [i \in DOMAIN fed |-> fed[i]]
    OBVIOUS
  <2>5. \A i \in DOMAIN fed : \/ fed[i] = FeedSegment(clauses[i], string.matchers[i], segment)
                              \/ fed[i] = FeedBytes(clauses[i], string.matchers[i], segment)
    OBVIOUS
  <2> HIDE DEF fed
  <2>6. InStep(next, doc, clauses)
    <3> HIDE DEF segment
    <3>1. segment = SubSeq(string.rest, 1, n)
      BY DEF segment
    <3> QED
      BY <1>1, <2>3, <2>4, <2>5, <3>1, FeedInStep DEF Ids
  <2> HIDE DEF next
  <2> QED
    BY <1>2, <2>2, <2>6 DEF StringInStep
<1>7. CASE ScanMemberFastEq
  <2>1. PICK place \in NextPlaces :
          \/ /\ clauseHits = {} /\ doc[place].kind = "string"
             /\ string' = StartString(place, {1}, {})
          \/ string' = string
    BY <1>7 DEF ScanMemberFastEq
  <2>2. FastTopLevelEq
    BY <1>7 DEF ScanMemberFastEq
  <2>3. {1} \subseteq Ids
    <3>1. Len(clauses) = 1
      BY <2>2 DEF FastTopLevelEq, FastEq, SimpleEq
    <3>2. clauses \in Seq(ClauseType)
      BY CasesAssumption DEF clauses
    <3> QED
      BY <3>1, <3>2 DEF Ids
  <2> QED
    BY <1>3, <1>4, <2>1, <2>3
<1>8. CASE ScanMemberFast
  <2>1. PICK place \in NextPlaces :
          LET pending  == FieldPending(place[1].key)
              asserted == {i \in pending : IsTerm(clauses[i]) /\ clauses[i].existsOnly}
              exists   == {i \in pending : IsExists(clauses[i])}
              chosen   == pending \ (exists \cup asserted)
          IN  \/ doc[place].kind = "string" /\ string' = StartString(place, chosen, exists)
              \/ string' = string
    BY <1>8 DEF ScanMemberFast
  <2>2. FieldPending(place[1].key) \subseteq Ids
    BY DEF FieldPending
  <2> QED
    BY <1>3, <1>4, <2>1, <2>2
<1>9. CASE ScanValue \/ EndString \/ ScanRootFast \/ Judged \/ UNCHANGED scanVars
  BY <1>3, <1>9 DEF ScanValue, EndString, ScanRootFast, Judged, scanVars
<1> QED
  BY <1>5, <1>6, <1>7, <1>8, <1>9 DEF ScanNext

\* While a string is read, in runs of any length, by one matcher or by several,
\* each matcher holds what the bytes so far decide: KMP and the automaton find
\* their needles wherever they begin (streamMatchStringClauses).
THEOREM MatchersAlwaysFollow ==
  ScanSpec => []MatchersFollow
<1>1. ScanInit => StringInStep
  BY DEF ScanInit, StringInStep
<1>2. request \in Cases /\ StringInStep /\ [ScanNext]_scanVars => StringInStep'
  BY StringStays
<1>3. request \in Cases /\ StringInStep => MatchersFollow
  BY InStepKnows
<1> QED
  BY <1>1, <1>2, <1>3, CaseStays, PTL DEF ScanSpec

--------------------------------------------------------------------------------
(* What the matchers decide at the end of a string.                            *)

\* What a clause asks of a text, as the evaluator sees it; instants apart.
PlainMatch(c, text) ==
  /\ c.kind = "eq" => text = TheText(c)
  /\ c.kind = "in" => text \in c.any
  /\ c.kind = "prefix" => \E n \in Needles(c) : IsPrefix(n, FoldCase(c, text))
  /\ c.kind = "contains" => \E n \in Needles(c) : HasSubstring(FoldCase(c, text), n)

\* Where several needles of which one is empty are not found, and where only
\* folding makes a text the one of an eq.
Misjudged(c, text) ==
  \/ HasAutomaton(c) /\ <<>> \in c.any /\ text = <<>>
  \/ c.kind = "eq" /\ c.ignoreCase /\ text # TheText(c) /\ FoldCase(c, text) = Needle(c)

\* Elsewhere the folded texts of an eq are the same when the texts are.
LEMMA FoldedEqIs ==
  ASSUME NEW c, IsClause(c), c.kind = "eq", NEW all \in Texts, ~Misjudged(c, all)
  PROVE  FoldCase(c, all) = Needle(c) <=> all = TheText(c)
<1>1. Needle(c) = FoldCase(c, TheText(c)) /\ TheText(c) \in Texts
  BY NeedlesOf
<1>2. CASE c.ignoreCase
  BY <1>1, <1>2 DEF Misjudged
<1>3. CASE ~c.ignoreCase
  BY <1>1, <1>3, FoldFacts
<1> QED
  BY <1>2, <1>3

\* An instant has no letter that folding changes.
LEMMA FoldedInstant ==
  ASSUME NEW c, NEW text \in Texts
  PROVE  ParseTemporalLiteral(FoldCase(c, text)) = ParseTemporalLiteral(text)
<1> DEFINE t == FoldCase(c, text)
<1>1. /\ t \in Texts /\ Len(t) = Len(text) /\ Len(text) \in Nat
      /\ \A i \in 1..Len(text) : t[i] = FoldByte(c, text[i])
  BY FoldFacts DEF Texts
<1> HIDE DEF t
<1>2. ASSUME NEW ch, FoldByte(c, ch) \in {"D", "E", "b"} \/ ch \in {"D", "E", "b"}
      PROVE  FoldByte(c, ch) = ch
  BY <1>2 DEF FoldByte, LowerChar
<1>3. ASSUME NEW n \in {<<"D">>, <<"D", "b">>, <<"E">>}
      PROVE  t = n <=> text = n
  <2>1. n \in Texts /\ Len(n) \in {1, 2} /\ \A i \in 1..Len(n) : n[i] \in {"D", "E", "b"}
    <3>1. "D" \in Bytes /\ "E" \in Bytes /\ "b" \in Bytes
      BY DEF Bytes
    <3>2. CASE n = <<"D">>
      BY <3>1, <3>2 DEF Texts
    <3>3. CASE n = <<"E">>
      BY <3>1, <3>3 DEF Texts
    <3>4. CASE n = <<"D", "b">>
      <4>1. n \in Seq(Bytes) /\ Len(n) = 2
        BY <3>1, <3>4
      <4>2. n[1] = "D" /\ n[2] = "b"
        BY <3>4
      <4>3. \A i \in 1..2 : i = 1 \/ i = 2
        OBVIOUS
      <4> QED
        BY <4>1, <4>2, <4>3 DEF Texts
    <3> QED
      BY <1>3, <3>2, <3>3, <3>4
  <2>2. ASSUME t = n PROVE text = n
    <3>1. Len(text) = Len(n) /\ \A i \in 1..Len(n) : text[i] = n[i]
      BY <1>1, <1>2, <2>1, <2>2
    <3> QED
      BY <2>1, <3>1, SameSequence DEF Texts
  <2>3. ASSUME text = n PROVE t = n
    <3>1. Len(t) = Len(n) /\ \A i \in 1..Len(n) : t[i] = n[i]
      BY <1>1, <1>2, <2>1, <2>3
    <3> QED
      BY <1>1, <2>1, <3>1, SameSequence DEF Texts
  <2> QED
    BY <2>2, <2>3
<1> QED
  BY <1>3 DEF ParseTemporalLiteral, t

\* A needle and a text that agree all along are the same.
LEMMA BeginsWhole ==
  ASSUME NEW text \in Texts, NEW n \in Texts
  PROVE  Begins(text, Len(text), n) /\ Len(n) = Len(text) <=> n = text
<1>1. text \in Seq(Bytes) /\ n \in Seq(Bytes) /\ Len(text) \in Nat
  BY DEF Texts
<1>2. ASSUME Begins(text, Len(text), n), Len(n) = Len(text) PROVE n = text
  BY <1>1, <1>2, SameSequence DEF Begins
<1>3. ASSUME n = text PROVE Begins(text, Len(text), n) /\ Len(n) = Len(text)
  BY <1>1, <1>3 DEF Begins
<1> QED
  BY <1>2, <1>3

\* In nothing only the empty needle occurs.
LEMMA WithinNothing ==
  ASSUME NEW text, NEW n \in Texts, Within(text, 0, n)
  PROVE  n = <<>>
<1>1. PICK e \in 0..0 : Ends(n, Len(n), text, e)
  BY DEF Within
<1>2. Len(n) <= 0
  BY <1>1 DEF Ends
<1> QED
  BY <1>2 DEF Texts

\* A matcher that has read all of a text has found what the evaluator finds.
LEMMA FinalIs ==
  ASSUME NEW c, IsClause(c), IsTerm(c) \/ IsIn(c), NEW all \in Texts, ~Misjudged(c, all),
         NEW m, Follow(c, m, FoldCase(c, all), Len(all))
  PROVE  FinalMatch(c, m) <=> PlainMatch(c, all)
<1> DEFINE text == FoldCase(c, all)
           k    == Len(all)
<1>1. text \in Texts /\ Len(text) = k /\ k \in Nat /\ (~c.ignoreCase => text = all)
  BY FoldFacts DEF Texts
<1>2. /\ Needles(c) \in SUBSET Texts
      /\ c.kind \in {"eq", "prefix"} => Needles(c) = {Needle(c)} /\ Needle(c) \in Texts
      /\ c.kind = "contains" /\ ~HasAutomaton(c) => Needles(c) = {Needle(c)} /\ Needle(c) \in Texts
      /\ c.kind = "in" => Needles(c) = c.any /\ ~c.ignoreCase
      /\ <<>> \in Needles(c) <=> <<>> \in c.any
  BY NeedlesOf
<1> HIDE DEF text, k
<1>3. /\ m \in MatcherType
      /\ c.kind = "eq" => FollowEq(Needle(c), m, text, k)
      /\ c.kind = "prefix" => FollowPrefix(Needle(c), m, text, k)
      /\ c.kind = "in" => FollowIn(Needles(c), m, text, k)
      /\ c.kind = "contains" => IF HasAutomaton(c) THEN FollowMany(Needles(c), m, text, k)
                                ELSE FollowOne(Needle(c), m, text, k)
  BY DEF Follow, text, k
<1>4. \A n \in Texts : Begins(text, k, n) /\ Len(n) = k <=> n = text
  BY <1>1, BeginsWhole
<1>5. CASE c.kind = "eq"
  <2>1. FinalMatch(c, m) <=> ~m.over /\ m.pos = Len(Needle(c))
    BY <1>5 DEF FinalMatch
  <2>2. PlainMatch(c, all) <=> Needle(c) = text
    BY <1>5, FoldedEqIs DEF PlainMatch, text
  <2>3. FollowEq(Needle(c), m, text, k)
    BY <1>3, <1>5
  <2> QED
    BY <1>2, <1>4, <1>5, <2>1, <2>2, <2>3 DEF FollowEq
<1>6. CASE c.kind = "in"
  <2>1. FinalMatch(c, m) <=> \E v \in m.alive : Len(v) = m.pos
    BY <1>6 DEF FinalMatch
  <2>2. PlainMatch(c, all) <=> text \in Needles(c)
    BY <1>1, <1>2, <1>6 DEF PlainMatch
  <2>3. m.pos = k /\ m.alive = {v \in Needles(c) : Begins(text, k, v)}
    BY <1>3, <1>6 DEF FollowIn
  <2> QED
    BY <1>2, <1>4, <2>1, <2>2, <2>3
<1>7. CASE c.kind = "prefix"
  <2>1. FinalMatch(c, m) <=> m.matched
    BY <1>7 DEF FinalMatch
  <2>2. PlainMatch(c, all) <=> IsPrefix(Needle(c), text)
    BY <1>2, <1>7 DEF PlainMatch, text
  <2>3. IsPrefix(Needle(c), text) <=> Len(Needle(c)) <= k /\ \A i \in 1..Len(Needle(c)) : Needle(c)[i] = text[i]
    BY <1>1, <1>2, <1>7, PrefixIs DEF Texts
  <2>4. m.matched <=> Len(Needle(c)) <= k /\ Begins(text, Len(Needle(c)), Needle(c))
    BY <1>3, <1>7 DEF FollowPrefix
  <2>5. Begins(text, Len(Needle(c)), Needle(c)) <=> \A i \in 1..Len(Needle(c)) : Needle(c)[i] = text[i]
    BY <1>2, <1>7 DEF Begins, Texts
  <2> QED
    BY <2>1, <2>2, <2>3, <2>4, <2>5
<1>8. CASE c.kind = "contains"
  <2>1. FinalMatch(c, m) <=> m.matched
    BY <1>8 DEF FinalMatch
  <2>2. PlainMatch(c, all) <=> \E n \in Needles(c) : HasSubstring(text, n)
    BY <1>8 DEF PlainMatch, text
  <2>3. \A n \in Needles(c) : HasSubstring(text, n) <=> Within(text, k, n)
    BY <1>1, <1>2, SubstringIs
  <2>4. CASE ~HasAutomaton(c)
    <3>1. m.matched <=> Within(text, k, Needle(c))
      BY <1>3, <1>8, <2>4 DEF FollowOne
    <3> QED
      BY <1>2, <1>8, <2>1, <2>2, <2>3, <2>4, <3>1
  <2>5. CASE HasAutomaton(c)
    <3>1. m.matched <=> k > 0 /\ \E n \in Needles(c) : Within(text, k, n)
      BY <1>3, <1>8, <2>5 DEF FollowMany
    <3>2. CASE k > 0
      BY <2>1, <2>2, <2>3, <3>1, <3>2
    <3>3. CASE k = 0
      <4>1. all = <<>>
        BY <3>3 DEF Texts, k
      <4>2. <<>> \notin Needles(c)
        BY <1>2, <2>5, <4>1 DEF Misjudged
      <4>3. \A n \in Needles(c) : ~Within(text, k, n)
        BY <1>2, <3>3, <4>2, WithinNothing
      <4> QED
        BY <2>1, <2>2, <2>3, <3>1, <4>3
    <3> QED
      BY <1>1, <3>2, <3>3
  <2> QED
    BY <2>4, <2>5
<1> QED
  BY <1>5, <1>6, <1>7, <1>8 DEF IsTerm, IsIn

\* What is folded stays as it is when it is folded again.
LEMMA FoldTwice ==
  ASSUME NEW c, NEW text \in Texts
  PROVE  FoldCase(c, FoldCase(c, text)) = FoldCase(c, text)
<1> DEFINE once  == FoldCase(c, text)
           twice == FoldCase(c, once)
<1>1. once \in Texts /\ Len(once) = Len(text) /\ \A i \in 1..Len(text) : once[i] = FoldByte(c, text[i])
  BY FoldFacts
<1>2. twice \in Texts /\ Len(twice) = Len(once) /\ \A i \in 1..Len(once) : twice[i] = FoldByte(c, once[i])
  BY <1>1, FoldFacts
<1> HIDE DEF once, twice
<1>3. \A i \in 1..Len(text) : twice[i] = once[i]
  <2> SUFFICES ASSUME NEW i \in 1..Len(text) PROVE twice[i] = once[i]
    OBVIOUS
  <2>1. twice[i] = FoldByte(c, FoldByte(c, text[i])) /\ once[i] = FoldByte(c, text[i])
    BY <1>1, <1>2
  <2> QED
    BY <2>1 DEF FoldByte, LowerChar
<1> QED
  BY <1>1, <1>2, <1>3, SameSequence DEF Texts, once, twice

\* A text that is at hand is compared as the evaluator compares it.
LEMMA TermIs ==
  ASSUME NEW c, IsClause(c), IsTerm(c), NEW all \in Texts, ~Misjudged(c, all)
  PROVE  TermMatchesString(c, FoldCase(c, all)) <=>
           c.existsOnly \/ PlainMatch(c, all) \/ (HasTemporalEq(c) /\ TemporalMatches(c, all))
<1> DEFINE text == FoldCase(c, all)
<1>1. text \in Texts /\ Len(text) = Len(all) /\ Len(all) \in Nat /\ (~c.ignoreCase => text = all)
  BY FoldFacts DEF Texts
<1>2. /\ Needles(c) \in SUBSET Texts
      /\ c.kind \in {"eq", "prefix"} => Needles(c) = {Needle(c)} /\ Needle(c) \in Texts
      /\ c.kind = "contains" /\ ~HasAutomaton(c) => Needles(c) = {Needle(c)} /\ Needle(c) \in Texts
  BY NeedlesOf
<1>3. FoldCase(c, text) = text
  BY FoldTwice
<1> HIDE DEF text
<1>4. CASE c.kind = "eq"
  <2>1. TermMatchesString(c, text) <=> c.existsOnly \/ text = Needle(c) \/ (HasTemporalEq(c) /\ TemporalMatches(c, text))
    BY <1>4 DEF TermMatchesString
  <2>2. PlainMatch(c, all) <=> text = Needle(c)
    BY <1>4, FoldedEqIs DEF PlainMatch, text
  <2>3. TemporalMatches(c, text) <=> TemporalMatches(c, all)
    BY FoldedInstant DEF TemporalMatches, text
  <2> QED
    BY <2>1, <2>2, <2>3 DEF text
<1>5. CASE c.kind = "prefix"
  <2>1. TermMatchesString(c, text) <=> c.existsOnly \/ IsPrefix(Needle(c), text)
    BY <1>5 DEF TermMatchesString
  <2>2. PlainMatch(c, all) <=> IsPrefix(Needle(c), text)
    BY <1>2, <1>5 DEF PlainMatch, text
  <2>3. ~HasTemporalEq(c)
    BY <1>5 DEF HasTemporalEq
  <2> QED
    BY <2>1, <2>2, <2>3 DEF text
<1>6. CASE c.kind = "contains"
  <2>1. TermMatchesString(c, text) <=>
          c.existsOnly \/ IF HasAutomaton(c) THEN FinalMatch(c, FeedBytes(c, StartMatcher(c), text))
                          ELSE HasSubstring(text, Needle(c))
    BY <1>6 DEF TermMatchesString
  <2>2. ~HasTemporalEq(c)
    BY <1>6 DEF HasTemporalEq
  <2>3. PlainMatch(c, all) <=> \E n \in Needles(c) : HasSubstring(text, n)
    BY <1>6 DEF PlainMatch, text
  <2>4. CASE ~HasAutomaton(c)
    BY <1>2, <1>6, <2>1, <2>2, <2>3, <2>4 DEF text
  <2>5. CASE HasAutomaton(c)
    <3> DEFINE m == FeedBytes(c, StartMatcher(c), text)
    <3>1. Follow(c, StartMatcher(c), FoldCase(c, text), 0)
      BY <1>1, StartFollows
    <3>2. PieceAt(text, 0, text) /\ Len(text) \in Nat
      BY <1>1 DEF PieceAt, Texts
    <3>3. 0 \in Nat /\ 0 + Len(text) = Len(text)
      BY <3>2
    <3> HIDE DEF m
    <3>4. Follow(c, m, FoldCase(c, text), 0 + Len(text))
      BY <1>1, <3>1, <3>2, <3>3, BytesFollow DEF m
    <3>5. Follow(c, m, FoldCase(c, text), Len(text))
      BY <3>3, <3>4
    <3>6. ~Misjudged(c, text)
      BY <1>1, <1>6 DEF Misjudged, Texts
    <3>7. FinalMatch(c, m) <=> PlainMatch(c, text)
      BY <1>1, <3>5, <3>6, FinalIs
    <3>8. PlainMatch(c, text) <=> PlainMatch(c, all)
      BY <1>3, <1>6 DEF PlainMatch, text
    <3> QED
      BY <2>1, <2>2, <2>5, <3>7, <3>8 DEF m, text
  <2> QED
    BY <2>4, <2>5
<1> QED
  BY <1>4, <1>5, <1>6 DEF IsTerm, text

--------------------------------------------------------------------------------
(* What the stream and the evaluator ask of a value.                           *)

\* The text of a value, and its number.
LEMMA ValueFacts ==
  ASSUME NEW v \in Values
  PROVE  /\ v.kind \in {"object", "array", "null", "bool", "number", "string"}
         /\ v.kind \in {"object", "array", "null"} => ~HasText(v) /\ ValueToFloat(v) = 0
         /\ v.kind \in {"bool", "number", "string"} => HasText(v) /\ v.text \in Texts
         /\ v.kind = "bool" => ValueToFloat(v) = 0
         /\ v.kind \in {"number", "string"} => ValueToFloat(v) = ParseFloat(v.text)
<1>1. CASE v \in [kind : {"object", "array", "null"}]
  <2>1. v.kind \in {"object", "array", "null"} /\ ~HasText(v)
    BY <1>1 DEF HasText
  <2> QED
    BY <2>1 DEF ValueToFloat
<1>2. CASE v \in [kind : {"string", "number", "bool"}, text : Seq(STRING)]
  <2>1. v.kind \in {"string", "number", "bool"}
    BY <1>2
  <2>2. v.text \in Texts /\ HasText(v)
    BY <2>1, TextOf
  <2> QED
    BY <2>1, <2>2 DEF ValueToFloat
<1> QED
  BY <1>1, <1>2 DEF Values

\* EvalValue, kind by kind.
LEMMA EvalIs ==
  ASSUME NEW c, IsClause(c), NEW v
  PROVE  /\ IsTerm(c) => (EvalValue(c, v) <=>
              \/ c.existsOnly
              \/ HasText(v) /\ (PlainMatch(c, v.text) \/ (HasTemporalEq(c) /\ TemporalMatches(c, v.text))))
         /\ IsIn(c) => (EvalValue(c, v) <=> HasText(v) /\ PlainMatch(c, v.text))
         /\ IsExists(c) => (EvalValue(c, v) <=> v.kind # "null")
         /\ IsTemporal(c) => (EvalValue(c, v) <=> HasText(v) /\ TemporalMatches(c, v.text))
         /\ IsRange(c) /\ ~c.temporal => (EvalValue(c, v) <=> ValueToFloat(v) \in c.accepts)
<1>1. c.existsOnly => c.kind \in {"prefix", "contains"}
  BY DEF IsClause
<1>2. CASE c.kind = "eq"
  <2>1. EvalValue(c, v) <=> HasText(v) /\ (v.text = TheText(c) \/ (HasTemporalEq(c) /\ TemporalMatches(c, v.text)))
    BY <1>2 DEF EvalValue, IsIn, IsExists, IsTemporal, IsDate, IsRange
  <2>2. PlainMatch(c, v.text) <=> v.text = TheText(c)
    BY <1>2 DEF PlainMatch
  <2> QED
    BY <1>1, <1>2, <2>1, <2>2 DEF IsTerm, IsIn, IsExists, IsTemporal, IsDate, IsRange
<1>3. CASE c.kind = "contains"
  <2>1. EvalValue(c, v) <=> c.existsOnly \/ (HasText(v) /\ \E n \in Needles(c) : HasSubstring(FoldCase(c, v.text), n))
    BY <1>3 DEF EvalValue, IsIn, IsExists, IsTemporal, IsDate, IsRange
  <2>2. PlainMatch(c, v.text) <=> \E n \in Needles(c) : HasSubstring(FoldCase(c, v.text), n)
    BY <1>3 DEF PlainMatch
  <2> QED
    BY <1>3, <2>1, <2>2 DEF IsTerm, IsIn, IsExists, IsTemporal, IsDate, IsRange, HasTemporalEq
<1>4. CASE c.kind = "prefix"
  <2>1. EvalValue(c, v) <=> c.existsOnly \/ (HasText(v) /\ \E n \in Needles(c) : IsPrefix(n, FoldCase(c, v.text)))
    BY <1>4 DEF EvalValue, IsIn, IsExists, IsTemporal, IsDate, IsRange
  <2>2. PlainMatch(c, v.text) <=> \E n \in Needles(c) : IsPrefix(n, FoldCase(c, v.text))
    BY <1>4 DEF PlainMatch
  <2> QED
    BY <1>4, <2>1, <2>2 DEF IsTerm, IsIn, IsExists, IsTemporal, IsDate, IsRange, HasTemporalEq
<1>5. CASE c.kind = "in"
  <2>1. EvalValue(c, v) <=> HasText(v) /\ v.text \in c.any
    BY <1>5 DEF EvalValue, IsIn, IsExists, IsTemporal, IsDate, IsRange
  <2>2. PlainMatch(c, v.text) <=> v.text \in c.any
    BY <1>5 DEF PlainMatch
  <2> QED
    BY <1>5, <2>1, <2>2 DEF IsTerm, IsIn, IsExists, IsTemporal, IsDate, IsRange
<1>6. CASE c.kind = "exists"
  <2>1. EvalValue(c, v) <=> v.kind # "null"
    BY <1>6 DEF EvalValue, IsIn, IsExists, IsTemporal, IsDate, IsRange
  <2> QED
    BY <1>6, <2>1 DEF IsTerm, IsIn, IsExists, IsTemporal, IsDate, IsRange
<1>7. CASE c.kind \in {"date", "range"}
  <2>1. CASE IsTemporal(c)
    <3>1. EvalValue(c, v) <=> HasText(v) /\ TemporalMatches(c, v.text)
      BY <1>7, <2>1 DEF EvalValue, IsIn, IsExists
    <3> QED
      BY <1>7, <2>1, <3>1 DEF IsTerm, IsIn, IsExists, IsTemporal, IsDate, IsRange
  <2>2. CASE ~IsTemporal(c)
    <3>1. EvalValue(c, v) <=> ValueToFloat(v) \in c.accepts
      BY <1>7, <2>2 DEF EvalValue, IsIn, IsExists
    <3> QED
      BY <1>7, <2>2, <3>1 DEF IsTerm, IsIn, IsExists, IsTemporal, IsDate, IsRange
  <2> QED
    BY <2>1, <2>2
<1> QED
  BY <1>2, <1>3, <1>4, <1>5, <1>6, <1>7 DEF IsClause, ClauseType

\* Every clause is of one of these kinds.
LEMMA KindIs ==
  ASSUME NEW c, IsClause(c)
  PROVE  /\ IsTerm(c) \/ IsIn(c) \/ IsExists(c) \/ IsTemporal(c) \/ (IsRange(c) /\ ~c.temporal)
         /\ 0 \notin c.accepts
         /\ IsTerm(c) => ~IsIn(c) /\ ~IsExists(c) /\ ~IsTemporal(c) /\ ~IsRange(c)
         /\ IsIn(c) => ~IsExists(c) /\ ~IsTemporal(c) /\ ~IsRange(c)
         /\ IsExists(c) => ~IsTemporal(c) /\ ~IsRange(c)
         /\ IsRange(c) /\ ~c.temporal => ~IsTemporal(c)
         /\ HasTemporalEq(c) => IsTerm(c) /\ c.kind = "eq"
         /\ c.existsOnly => IsTerm(c)
BY DEF IsClause, ClauseType, IsTerm, IsIn, IsExists, IsTemporal, IsDate, IsRange, HasTemporalEq

\* observe decides as the evaluator, except that any value exists for it.
LEMMA ObserveIs ==
  ASSUME NEW c, IsClause(c), NEW v \in Values, HasText(v) => ~Misjudged(c, v.text)
  PROVE  /\ ~IsExists(c) => (ObserveValue(c, v) <=> EvalValue(c, v))
         /\ IsExists(c) => ObserveValue(c, v) /\ (EvalValue(c, v) <=> v.kind # "null")
<1>1. /\ IsTerm(c) \/ IsIn(c) \/ IsExists(c) \/ IsTemporal(c) \/ (IsRange(c) /\ ~c.temporal)
      /\ IsTerm(c) => ~IsIn(c) /\ ~IsExists(c) /\ ~IsTemporal(c) /\ ~IsRange(c)
      /\ IsIn(c) => ~IsExists(c) /\ ~IsTemporal(c) /\ ~IsRange(c)
      /\ IsExists(c) => ~IsTemporal(c) /\ ~IsRange(c)
      /\ IsRange(c) /\ ~c.temporal => ~IsTemporal(c)
  BY KindIs
<1>2. HasText(v) => v.text \in Texts
  BY ValueFacts
<1>3. CASE IsTerm(c)
  <2>1. ObserveValue(c, v) <=> c.existsOnly \/ (HasText(v) /\ TermMatchesString(c, FoldCase(c, v.text)))
    BY <1>1, <1>3 DEF ObserveValue
  <2>2. HasText(v) => (TermMatchesString(c, FoldCase(c, v.text)) <=>
           c.existsOnly \/ PlainMatch(c, v.text) \/ (HasTemporalEq(c) /\ TemporalMatches(c, v.text)))
    BY <1>2, <1>3, TermIs
  <2>3. EvalValue(c, v) <=>
              \/ c.existsOnly
              \/ HasText(v) /\ (PlainMatch(c, v.text) \/ (HasTemporalEq(c) /\ TemporalMatches(c, v.text)))
    BY <1>3, EvalIs
  <2> QED
    BY <1>1, <1>3, <2>1, <2>2, <2>3
<1>4. CASE IsIn(c)
  <2>1. ObserveValue(c, v) <=> HasText(v) /\ v.text \in c.any
    BY <1>1, <1>4 DEF ObserveValue
  <2>2. EvalValue(c, v) <=> HasText(v) /\ v.text \in c.any
    BY <1>4, EvalIs DEF IsIn, PlainMatch
  <2> QED
    BY <1>1, <1>4, <2>1, <2>2
<1>5. CASE IsExists(c)
  <2>1. ObserveValue(c, v)
    BY <1>1, <1>5 DEF ObserveValue
  <2>2. EvalValue(c, v) <=> v.kind # "null"
    BY <1>5, EvalIs
  <2> QED
    BY <1>5, <2>1, <2>2
<1>6. CASE IsTemporal(c)
  <2>1. ObserveValue(c, v) <=> HasText(v) /\ TemporalMatches(c, v.text)
    BY <1>1, <1>6 DEF ObserveValue
  <2>2. EvalValue(c, v) <=> HasText(v) /\ TemporalMatches(c, v.text)
    BY <1>6, EvalIs
  <2> QED
    BY <1>1, <1>6, <2>1, <2>2
<1>7. CASE IsRange(c) /\ ~c.temporal
  <2>1. ObserveValue(c, v) <=> ValueToFloat(v) \in c.accepts
    BY <1>1, <1>7 DEF ObserveValue
  <2>2. EvalValue(c, v) <=> ValueToFloat(v) \in c.accepts
    BY <1>7, EvalIs
  <2> QED
    BY <1>1, <1>7, <2>1, <2>2
<1> QED
  BY <1>1, <1>3, <1>4, <1>5, <1>6, <1>7

\* A string that is skipped is there, and that is all that is known of it.
LEMMA SkippedIs ==
  ASSUME NEW c, IsClause(c)
  PROVE  ObserveValue(c, [kind |-> "string"]) <=> IsExists(c) \/ (IsTerm(c) /\ c.existsOnly)
<1> DEFINE v == [kind |-> "string"]
<1>1. /\ IsTerm(c) \/ IsIn(c) \/ IsExists(c) \/ IsTemporal(c) \/ (IsRange(c) /\ ~c.temporal)
      /\ IsTerm(c) => ~IsIn(c) /\ ~IsExists(c) /\ ~IsTemporal(c) /\ ~IsRange(c)
      /\ IsIn(c) => ~IsExists(c) /\ ~IsTemporal(c) /\ ~IsRange(c)
      /\ IsExists(c) => ~IsTemporal(c) /\ ~IsRange(c)
      /\ IsRange(c) /\ ~c.temporal => ~IsTemporal(c)
      /\ 0 \notin c.accepts
  BY KindIs
<1>2. ~HasText(v) /\ ValueToFloat(v) = 0
  BY DEF HasText, ValueToFloat
<1> HIDE DEF v
<1>3. CASE IsTerm(c)
  <2>1. ObserveValue(c, v) <=> c.existsOnly \/ (HasText(v) /\ TermMatchesString(c, FoldCase(c, v.text)))
    BY <1>1, <1>3 DEF ObserveValue
  <2> QED
    BY <1>1, <1>2, <1>3, <2>1 DEF v
<1>4. CASE IsIn(c)
  <2>1. ObserveValue(c, v) <=> HasText(v) /\ v.text \in c.any
    BY <1>1, <1>4 DEF ObserveValue
  <2> QED
    BY <1>1, <1>2, <1>4, <2>1 DEF v
<1>5. CASE IsExists(c)
  <2>1. ObserveValue(c, v)
    BY <1>1, <1>5 DEF ObserveValue
  <2> QED
    BY <1>5, <2>1 DEF v
<1>6. CASE IsTemporal(c)
  <2>1. ObserveValue(c, v) <=> HasText(v) /\ TemporalMatches(c, v.text)
    BY <1>1, <1>6 DEF ObserveValue
  <2> QED
    BY <1>1, <1>2, <1>6, <2>1 DEF v
<1>7. CASE IsRange(c) /\ ~c.temporal
  <2>1. ObserveValue(c, v) <=> ValueToFloat(v) \in c.accepts
    BY <1>1, <1>7 DEF ObserveValue
  <2> QED
    BY <1>1, <1>2, <1>7, <2>1 DEF v
<1> QED
  BY <1>1, <1>3, <1>4, <1>5, <1>6, <1>7

\* What a value without a text, or a bool, can satisfy.
LEMMA EvalNeeds ==
  ASSUME NEW c, IsClause(c), NEW v \in Values, EvalValue(c, v),
         v.kind \in {"number", "bool"} => ParseTemporalLiteral(v.text) = 0
  PROVE  /\ v.kind \in {"object", "array"} => IsExists(c) \/ (IsTerm(c) /\ c.existsOnly)
         /\ v.kind = "null" => IsTerm(c) /\ c.existsOnly
         /\ v.kind = "bool" => IsTerm(c) \/ IsIn(c) \/ IsExists(c)
         /\ v.kind = "number" => IsTerm(c) \/ IsIn(c) \/ IsExists(c) \/ (IsRange(c) /\ ~c.temporal)
<1>1. /\ IsTerm(c) \/ IsIn(c) \/ IsExists(c) \/ IsTemporal(c) \/ (IsRange(c) /\ ~c.temporal)
      /\ 0 \notin c.accepts
  BY KindIs
<1>2. /\ IsTerm(c) => c.existsOnly \/ HasText(v)
      /\ IsIn(c) => HasText(v)
      /\ IsExists(c) => v.kind # "null"
      /\ IsTemporal(c) => HasText(v) /\ TemporalMatches(c, v.text)
      /\ IsRange(c) /\ ~c.temporal => ValueToFloat(v) \in c.accepts
  BY EvalIs
<1>3. TemporalMatches(c, v.text) => ParseTemporalLiteral(v.text) # 0
  BY DEF TemporalMatches
<1>4. /\ v.kind \in {"object", "array", "null"} => ~HasText(v) /\ ValueToFloat(v) = 0
      /\ v.kind = "bool" => ValueToFloat(v) = 0
  BY ValueFacts
<1> QED
  BY <1>1, <1>2, <1>3, <1>4

--------------------------------------------------------------------------------
(* A clause about a member of the root.                                        *)

\* A path of one key leads to the member of that name.
LEMMA TopLevelReached ==
  ASSUME NEW d, IsDocument(d), d[<<>>].kind = "object", NEW path \in Seq(STRING), TopLevelLiteral(path),
         NEW q \in DOMAIN d
  PROVE  q \in ValuesAtPath(d, path) <=> Len(q) = 1 /\ q[1].key = path[1]
<1>1. Len(path) = 1 /\ IsLiteral(path[1])
  BY DEF TopLevelLiteral
<1>2. PICK f \in [0..Len(path) -> SUBSET DOMAIN d] :
           /\ ValuesAtPath(d, path) = f[Len(path)]
           /\ f[0] = {<<>>}
           /\ \A n \in 1..Len(path) : f[n] = ReachedBelow(d, f[n - 1], path[n])
  <2>1. <<>> \in DOMAIN d
    BY DEF IsDocument
  <2> QED
    BY <2>1, ReachedDef
<1>3. f[1] = ReachedBelow(d, {<<>>}, path[1]) /\ ValuesAtPath(d, path) = f[1]
  <2>1. 1 \in 1..Len(path) /\ 1 - 1 = 0
    BY <1>1
  <2> QED
    BY <1>1, <1>2, <2>1
<1>4. path[1] # "..." /\ path[1] # "*" /\ path[1] # "[]" /\ path[1] # "**"
  BY <1>1 DEF IsLiteral, Wildcards
<1>5. \A step : Selects(path[1], d[<<>>], step) <=> step.key = path[1]
  BY <1>4 DEF Selects
<1>6. q \in ValuesAtPath(d, path) <=> q # <<>> /\ Front(q) = <<>> /\ Selects(path[1], d[Front(q)], Last(q))
  BY <1>3, <1>4 DEF ReachedBelow
<1>7. q \in Seq(Steps) /\ Len(q) \in Nat
  BY DEF IsDocument
<1>8. q # <<>> /\ Front(q) = <<>> <=> Len(q) = 1
  <2>1. q # <<>> <=> Len(q) > 0
    BY <1>7
  <2>2. CASE Len(q) > 0
    <3>1. Front(q) \in Seq(Steps) /\ Len(Front(q)) = Len(q) - 1
      <4>1. Len(q) - 1 \in 0..Len(q)
        BY <1>7, <2>2
      <4>2. Above(q, Len(q) - 1) \in Seq(Steps) /\ Len(Above(q, Len(q) - 1)) = Len(q) - 1
        BY <1>7, <4>1, AboveFacts
      <4> QED
        BY <4>2 DEF Front, Above
    <3>2. Front(q) = <<>> <=> Len(Front(q)) = 0
      BY <3>1
    <3> QED
      BY <1>7, <2>1, <2>2, <3>1, <3>2
  <2>3. CASE Len(q) = 0
    BY <2>1, <2>3
  <2> QED
    BY <1>7, <2>2, <2>3
<1>9. Len(q) = 1 => Last(q) = q[1]
  BY DEF Last
<1> QED
  BY <1>5, <1>6, <1>8, <1>9

--------------------------------------------------------------------------------
(* What has been decided while a candidate is scanned.                         *)

\* The evaluator finds the clause satisfied by this value.
Satisfied(i, q) == q \in ValuesAtPath(doc, clauses[i].path) /\ EvalValue(clauses[i], doc[q])

\* No clause is hit for nothing.
HitsSound(found) ==
  \A i \in found : i \in Ids /\ (Differs(clauses[i]) \/ \E q \in DOMAIN doc : Satisfied(i, q))

\* What has been scanned has hit what it satisfies, or is the string being read.
HitsComplete(places, found, s) ==
  \A q \in places, i \in Ids :
    ~Differs(clauses[i]) /\ Satisfied(i, q) =>
      i \in found \/ (s # NoString /\ q = s.place /\ i \in s.chosen \cup s.exists)

\* A string is shown to clauses that are about it.
StringReached(s) ==
  s # NoString =>
    /\ s.place \in DOMAIN doc
    /\ s.chosen \cup s.exists \subseteq Ids
    /\ \A i \in s.chosen \cup s.exists : s.place \in ValuesAtPath(doc, clauses[i].path)
    /\ \A i \in s.exists : IsExists(clauses[i])
    /\ \A i \in s.chosen : ~IsExists(clauses[i])

\* The fast forms take a member of the root with all that is below it.
MembersWhole(places) ==
  /\ places \subseteq DOMAIN doc
  /\ ~General /\ places # {} =>
       /\ <<>> \in places
       /\ \A q \in places \ {<<>>}, r \in DOMAIN doc \ {<<>>} : q[1] = r[1] => r \in places

ScanInv ==
  HitsSound(clauseHits) /\ HitsComplete(seen, clauseHits, string) /\ StringReached(string) /\ MembersWhole(seen)

\* All of it is about one case, and a step does not change the case.
LEMMA SameCase ==
  ASSUME request' = request, HitsSound(clauseHits'), HitsComplete(seen', clauseHits', string'),
         StringReached(string'), MembersWhole(seen')
  PROVE  ScanInv'
<1>1. doc' = doc /\ clauses' = clauses /\ Ids' = Ids
  BY DEF doc, clauses, Ids
<1>2. General' <=> General
  BY DEF General, FastTopLevelEq, FastTopLevel, FastEq, SimpleEq, doc, clauses, Ids
<1>3. HasExistsLike' <=> HasExistsLike
  BY <1>1 DEF HasExistsLike
<1>4. \A c : (Differs(c))' <=> Differs(c)
  BY <1>1, <1>2, <1>3 DEF Differs
<1>5. \A i, q : (Satisfied(i, q))' <=> Satisfied(i, q)
  BY <1>1 DEF Satisfied
<1>6. (HitsSound(clauseHits))'
  <2>1. \A i \in clauseHits' : (Differs(clauses[i]))' <=> Differs(clauses[i])
    BY <1>1, <1>4 DEF Differs
  <2> QED
    BY <1>1, <1>5, <2>1 DEF HitsSound
<1>7. (HitsComplete(seen, clauseHits, string))'
  BY <1>1, <1>4, <1>5 DEF HitsComplete, NoString
<1>8. (StringReached(string))'
  BY <1>1 DEF StringReached, NoString
<1>9. (MembersWhole(seen))'
  BY <1>1, <1>2 DEF MembersWhole
<1> QED
  BY <1>6, <1>7, <1>8, <1>9 DEF ScanInv

\* What holds of a clause the two engines agree on.
LEMMA NoDifference ==
  ASSUME request \in Cases, NEW i \in Ids, ~Differs(clauses[i]), NEW q \in DOMAIN doc
  PROVE  /\ HasText(doc[q]) => ~Misjudged(clauses[i], doc[q].text)
         /\ IsRange(clauses[i]) /\ ~clauses[i].temporal /\ doc[q].kind = "string" => ~EvalValue(clauses[i], doc[q])
         /\ doc[q].kind = "null" /\ General /\ HasExistsLike => ~IsExists(clauses[i])
         /\ doc[q].kind = "null" /\ IsTerm(clauses[i]) /\ clauses[i].existsOnly => Last(clauses[i].path) # "..."
<1> DEFINE c == clauses[i]
<1>1. IsClause(c)
  BY OfCase
<1> HIDE DEF c
<1>2. ~Differs(c)
  BY DEF c
<1>3. HasText(doc[q]) => ~Misjudged(c, doc[q].text)
  BY <1>2 DEF Differs, Misjudged
<1>4. IsRange(c) /\ ~c.temporal /\ doc[q].kind = "string" => ~EvalValue(c, doc[q])
  <2>1. IsRange(c) /\ ~c.temporal /\ doc[q].kind = "string" => ValueToFloat(doc[q]) = 0
    BY <1>2 DEF Differs
  <2>2. 0 \notin c.accepts
    BY <1>1, KindIs
  <2>3. IsRange(c) /\ ~c.temporal => (EvalValue(c, doc[q]) <=> ValueToFloat(doc[q]) \in c.accepts)
    BY <1>1, EvalIs
  <2> QED
    BY <2>1, <2>2, <2>3
<1>5. doc[q].kind = "null" => {p \in DOMAIN doc : doc[p].kind = "null"} # {}
  OBVIOUS
<1>6. doc[q].kind = "null" /\ General /\ HasExistsLike => ~IsExists(c)
  BY <1>2, <1>5 DEF Differs
<1>7. doc[q].kind = "null" /\ IsTerm(c) /\ c.existsOnly => Last(c.path) # "..."
  BY <1>2, <1>5 DEF Differs
<1> QED
  BY <1>3, <1>4, <1>6, <1>7 DEF c

\* A clause with an omitted value asks for the empty text.
LEMMA OmittedIs ==
  ASSUME NEW c, IsClause(c), c.existsOnly, NEW text \in Texts
  PROVE  PlainMatch(c, text)
<1>1. Needles(c) = {<<>>} /\ c.kind \in {"prefix", "contains"}
  BY NeedlesOf
<1>2. FoldCase(c, text) \in Texts
  BY FoldFacts
<1> DEFINE t == FoldCase(c, text)
<1>3. t \in Seq(Bytes) /\ Len(t) \in Nat
  BY <1>2 DEF Texts
<1> HIDE DEF t
<1>4. IsPrefix(<<>>, t)
  BY <1>3 DEF IsPrefix
<1>5. HasSubstring(t, <<>>)
  <2>1. 0 \in 0..Len(t)
    BY <1>3
  <2>2. IsPrefix(<<>>, SubSeq(t, 0 + 1, Len(t)))
    BY <1>3 DEF IsPrefix
  <2> QED
    BY <2>1, <2>2 DEF HasSubstring
<1> QED
  BY <1>1, <1>4, <1>5 DEF PlainMatch, t

--------------------------------------------------------------------------------
(* The end of a string.                                                        *)

\* The clauses that are hit at the closing quote, among those the string is shown to.
LEMMA EndHits ==
  ASSUME request \in Cases, StringInStep, string # NoString, string.rest = <<>>,
         NEW i \in string.chosen, i \in Ids, ~Differs(clauses[i]),
         ~IsExists(clauses[i])
  PROVE  EvalValue(clauses[i], doc[string.place]) <=>
           \/ i \in DOMAIN string.matchers /\ FinalMatch(clauses[i], string.matchers[i])
           \/ /\ IsTemporal(clauses[i]) \/ HasTemporalEq(clauses[i])
              /\ TemporalMatches(clauses[i], doc[string.place].text)
<1> DEFINE c   == clauses[i]
           v   == doc[string.place]
           all == v.text
<1>1. IsDocument(doc) /\ IsClause(c) /\ InStep(string, doc, clauses)
  BY OfCase DEF StringInStep
<1>2. string.place \in DOMAIN doc /\ v.kind = "string" /\ string.rest \in Texts
  BY <1>1 DEF InStep, StringType
<1>3. v \in Values /\ all \in Texts /\ HasText(v)
  BY <1>1, <1>2, TextOf DEF IsDocument
<1>4. ~Misjudged(c, all) /\ (IsRange(c) /\ ~c.temporal => ~EvalValue(c, v))
  BY <1>2, <1>3, NoDifference
<1>5. PICK k \in 0..Len(all) : string.rest = SubSeq(all, k + 1, Len(all)) /\ AllFollow(string, clauses, all, k)
  BY <1>1 DEF InStep
<1>6. i \in DOMAIN string.matchers <=> IsTerm(c) \/ IsIn(c)
  BY <1>1 DEF InStep
<1> HIDE DEF c, v, all
<1>7. k = Len(all)
  <2>1. all \in Seq(Bytes) /\ Len(all) \in Nat
    BY <1>3 DEF Texts
  <2>2. Len(SubSeq(all, k + 1, Len(all))) = Len(all) - k
    BY <2>1
  <2>3. Len(SubSeq(all, k + 1, Len(all))) = 0
    BY <1>5
  <2> QED
    BY <2>1, <2>2, <2>3
<1>8. ASSUME IsTerm(c) \/ IsIn(c) PROVE FinalMatch(c, string.matchers[i]) <=> PlainMatch(c, all)
  <2> DEFINE m == string.matchers[i]
  <2>1. Follow(c, m, FoldCase(c, all), Len(all))
    BY <1>5, <1>6, <1>7, <1>8 DEF AllFollow, c
  <2> HIDE DEF m
  <2>2. FinalMatch(c, m) <=> PlainMatch(c, all)
    BY <1>1, <1>3, <1>4, <1>8, <2>1, FinalIs
  <2> QED
    BY <2>2 DEF m
<1>9. /\ IsTerm(c) \/ IsIn(c) \/ IsExists(c) \/ IsTemporal(c) \/ (IsRange(c) /\ ~c.temporal)
      /\ IsTerm(c) => ~IsIn(c) /\ ~IsExists(c) /\ ~IsTemporal(c) /\ ~IsRange(c)
      /\ IsIn(c) => ~IsExists(c) /\ ~IsTemporal(c) /\ ~IsRange(c)
      /\ IsRange(c) /\ ~c.temporal => ~IsTemporal(c)
      /\ HasTemporalEq(c) => IsTerm(c)
  BY <1>1, KindIs
<1>10. CASE IsTerm(c)
  <2>1. EvalValue(c, v) <=> c.existsOnly \/ PlainMatch(c, all) \/ (HasTemporalEq(c) /\ TemporalMatches(c, all))
    BY <1>1, <1>3, <1>10, EvalIs DEF all
  <2>2. c.existsOnly => PlainMatch(c, all)
    BY <1>1, <1>3, OmittedIs
  <2> QED
    BY <1>6, <1>8, <1>9, <1>10, <2>1, <2>2 DEF c, v, all
<1>11. CASE IsIn(c)
  <2>1. EvalValue(c, v) <=> PlainMatch(c, all)
    BY <1>1, <1>3, <1>11, EvalIs DEF all
  <2> QED
    BY <1>6, <1>8, <1>9, <1>11, <2>1 DEF c, v, all
<1>12. CASE ~IsTerm(c) /\ ~IsIn(c) /\ ~IsExists(c)
  <2>1. IsTemporal(c) => (EvalValue(c, v) <=> TemporalMatches(c, all))
    BY <1>1, <1>3, EvalIs DEF all
  <2>2. ~IsTemporal(c) => ~EvalValue(c, v)
    BY <1>4, <1>9, <1>12
  <2> QED
    BY <1>6, <1>9, <1>12, <2>1, <2>2 DEF c, v, all
<1>13. CASE IsExists(c)
  BY <1>13 DEF c
<1> QED
  BY <1>10, <1>11, <1>12, <1>13 DEF c, v, all

\* The string that ends has hit what it satisfies.
LEMMA EndStringKeeps ==
  ASSUME request \in Cases, StringInStep, ScanInv, EndString
  PROVE  ScanInv'
<1> DEFINE place    == string.place
           text     == doc[place].text
           finals   == {i \in DOMAIN string.matchers : FinalMatch(clauses[i], string.matchers[i])}
           temporal == {i \in string.chosen : /\ IsTemporal(clauses[i]) \/ HasTemporalEq(clauses[i])
                                              /\ TemporalMatches(clauses[i], text)}
<1>1. /\ string # NoString /\ string.rest = <<>> /\ string' = NoString
      /\ clauseHits' = clauseHits \cup finals \cup temporal \cup string.exists
      /\ request' = request /\ seen' = seen
  BY DEF EndString
<1>2. /\ place \in DOMAIN doc /\ string.chosen \cup string.exists \subseteq Ids
      /\ \A i \in string.chosen \cup string.exists : place \in ValuesAtPath(doc, clauses[i].path)
      /\ \A i \in string.exists : IsExists(clauses[i])
      /\ \A i \in string.chosen : ~IsExists(clauses[i])
  BY <1>1 DEF ScanInv, StringReached
<1>3. InStep(string, doc, clauses)
  BY <1>1 DEF StringInStep
<1>4. finals \subseteq string.chosen /\ temporal \subseteq string.chosen /\ doc[place].kind = "string"
  BY <1>3 DEF InStep
<1>5. ASSUME NEW i \in string.chosen, ~Differs(clauses[i])
      PROVE  EvalValue(clauses[i], doc[place]) <=> i \in finals \cup temporal
  <2>1. EvalValue(clauses[i], doc[string.place]) <=>
           \/ i \in DOMAIN string.matchers /\ FinalMatch(clauses[i], string.matchers[i])
           \/ /\ IsTemporal(clauses[i]) \/ HasTemporalEq(clauses[i])
              /\ TemporalMatches(clauses[i], doc[string.place].text)
    BY <1>1, <1>2, <1>5, EndHits
  <2> QED
    BY <2>1
<1>6. ASSUME NEW i \in string.exists PROVE EvalValue(clauses[i], doc[place])
  <2>1. IsClause(clauses[i]) /\ IsExists(clauses[i])
    BY <1>2, OfCase
  <2> QED
    BY <1>4, <2>1, EvalIs
<1> HIDE DEF finals, temporal, place
<1>7. HitsSound(clauseHits')
  <2> SUFFICES ASSUME NEW i \in clauseHits'
               PROVE  i \in Ids /\ (Differs(clauses[i]) \/ \E q \in DOMAIN doc : Satisfied(i, q))
    BY DEF HitsSound
  <2>1. CASE i \in clauseHits
    BY <2>1 DEF ScanInv, HitsSound
  <2>2. CASE i \in finals \cup temporal
    <3>1. i \in string.chosen /\ i \in Ids
      BY <1>2, <1>4, <2>2
    <3>2. Differs(clauses[i]) \/ EvalValue(clauses[i], doc[place])
      BY <1>5, <2>2, <3>1
    <3> QED
      BY <1>2, <3>1, <3>2 DEF Satisfied
  <2>3. CASE i \in string.exists
    BY <1>2, <1>6, <2>3 DEF Satisfied
  <2> QED
    BY <1>1, <2>1, <2>2, <2>3
<1>8. HitsComplete(seen', clauseHits', string')
  <2> SUFFICES ASSUME NEW q \in seen, NEW i \in Ids, ~Differs(clauses[i]), Satisfied(i, q)
               PROVE  i \in clauseHits'
    BY <1>1 DEF HitsComplete
  <2>1. i \in clauseHits \/ (q = place /\ i \in string.chosen \cup string.exists)
    BY DEF ScanInv, HitsComplete, place
  <2>2. CASE q = place /\ i \in string.chosen
    BY <1>1, <1>5, <2>2 DEF Satisfied
  <2> QED
    BY <1>1, <2>1, <2>2
<1>9. StringReached(string')
  BY <1>1 DEF StringReached
<1>10. MembersWhole(seen')
  BY <1>1 DEF ScanInv
<1> QED
  BY <1>1, <1>7, <1>8, <1>9, <1>10, SameCase

--------------------------------------------------------------------------------
(* The general scan.                                                           *)

\* A single eq clause.
LEMMA SingleEq ==
  ASSUME request \in Cases, FastEq \/ FastRecursiveEq
  PROVE  /\ Ids = {1} /\ clauses[1].kind = "eq" /\ ~HasTemporalEq(clauses[1])
         /\ \A v \in Values : (HasText(v) => ~Misjudged(clauses[1], v.text)) =>
                              (FastEqMatches(v) <=> EvalValue(clauses[1], v))
         /\ \A v : FastEqMatches(v) => HasText(v)
<1>1. Len(clauses) = 1 /\ clauses[1].kind = "eq" /\ ~HasTemporalEq(clauses[1])
  BY DEF FastEq, FastRecursiveEq, SimpleEq
<1>2. Ids = {1}
  <2>1. clauses \in Seq(ClauseType)
    BY CasesAssumption DEF clauses
  <2> QED
    BY <1>1, <2>1 DEF Ids
<1> DEFINE c == clauses[1]
<1>3. IsClause(c)
  BY <1>2, OfCase
<1>4. IsTerm(c) /\ ~c.existsOnly
  BY <1>1, <1>3 DEF IsTerm, IsClause
<1>5. ASSUME NEW v \in Values, HasText(v) => ~Misjudged(c, v.text)
      PROVE  FastEqMatches(v) <=> EvalValue(c, v)
  <2>1. EvalValue(c, v) <=> HasText(v) /\ v.text = TheText(c)
    <3> HIDE DEF c
    <3>1. EvalValue(c, v) <=> HasText(v) /\ PlainMatch(c, v.text)
      BY <1>1, <1>3, <1>4, EvalIs DEF c
    <3>2. c.kind = "eq"
      BY <1>1 DEF c
    <3>3. PlainMatch(c, v.text) <=> v.text = TheText(c)
      BY <3>2 DEF PlainMatch
    <3> QED
      BY <3>1, <3>3
  <2>2. HasText(v) => (FoldCase(c, v.text) = Needle(c) <=> v.text = TheText(c))
    <3>1. c.kind = "eq" /\ (HasText(v) => v.text \in Texts)
      BY <1>1, ValueFacts DEF c
    <3> HIDE DEF c
    <3> QED
      BY <1>3, <1>5, <3>1, FoldedEqIs
  <2> QED
    BY <2>1, <2>2 DEF FastEqMatches
<1> QED
  BY <1>1, <1>2, <1>5 DEF FastEqMatches

\* A value other than a string hits what it satisfies, and nothing else.
LEMMA ValueHits ==
  ASSUME request \in Cases, General, clauseHits \subseteq Ids, NEW place \in DOMAIN doc, doc[place].kind # "string",
         NEW i \in Ids, ~Differs(clauses[i]), i \notin clauseHits
  PROVE  i \in HitsAfter(place, doc[place]) <=> Satisfied(i, place)
<1> DEFINE c == clauses[i]
           v == doc[place]
           reached == place \in ValuesAtPath(doc, c.path)
           matches == PathMatches(c.path, place)
<1>1. IsDocument(doc) /\ IsClause(c)
  BY OfCase
<1>2. v \in Values /\ (v.kind \in {"number", "bool"} => ParseTemporalLiteral(v.text) = 0)
  BY <1>1 DEF IsDocument
<1>3. /\ reached => matches /\ TailMatches(TailFilter(c.path), place)
      /\ matches => TailMatches(TailFilter(c.path), place)
      /\ matches /\ (v.kind # "null" \/ Last(c.path) # "...") => reached
      /\ Dispatched(TailFilter(c.path), place) = TailMatches(TailFilter(c.path), place)
      /\ FastEq \/ FastRecursiveEq => FastPathHits(place) = matches
  BY PathsFollow
<1>4. Satisfied(i, place) <=> reached /\ EvalValue(c, v)
  BY DEF Satisfied
<1>5. i \in PathHits(place) <=> matches
  BY <1>3 DEF PathHits
<1>6. CASE FastEq \/ FastRecursiveEq
  <2>1. /\ Ids = {1}
        /\ (HasText(v) => ~Misjudged(clauses[1], v.text)) => (FastEqMatches(v) <=> EvalValue(clauses[1], v))
        /\ FastEqMatches(v) => HasText(v)
    BY <1>2, <1>6, SingleEq
  <2>2. i = 1 /\ (FastEqMatches(v) <=> EvalValue(c, v))
    BY <2>1, NoDifference
  <2>3. HasText(v) => v.kind # "null"
    BY <1>2, ValueFacts
  <2> HIDE DEF c, v, reached, matches
  <2>4. i \in HitsAfter(place, v) <=> matches /\ FastEqMatches(v)
    BY <1>3, <1>6, <2>2 DEF HitsAfter
  <2>5. i \in HitsAfter(place, v) <=> reached /\ EvalValue(c, v)
    BY <1>3, <2>1, <2>2, <2>3, <2>4
  <2> QED
    BY <1>4, <2>5 DEF v
<1>7. CASE ~(FastEq \/ FastRecursiveEq)
  <2>1. /\ IsTerm(c) \/ IsIn(c) \/ IsExists(c) \/ IsTemporal(c) \/ (IsRange(c) /\ ~c.temporal)
        /\ c.existsOnly => IsTerm(c)
    BY <1>1, KindIs
  <2>2. EvalValue(c, v) =>
          /\ v.kind \in {"object", "array"} => IsExists(c) \/ (IsTerm(c) /\ c.existsOnly)
          /\ v.kind = "null" => IsTerm(c) /\ c.existsOnly
          /\ v.kind = "bool" => IsTerm(c) \/ IsIn(c) \/ IsExists(c)
    <3> HIDE DEF c, v
    <3> QED
      BY <1>1, <1>2, EvalNeeds
  <2>3. v.kind \in {"object", "array", "null", "bool", "number", "string"}
    BY <1>2, ValueFacts
  <2>4. EvalValue(c, v) => Observed(v.kind)
    <3>1. /\ IsTerm(c) => Has(IsTerm)
          /\ IsIn(c) => Has(IsIn)
          /\ IsExists(c) => Has(IsExists)
          /\ IsTerm(c) /\ c.existsOnly => HasExistsLike
      BY DEF Has, HasExistsLike
    <3> HIDE DEF c, v
    <3> QED
      BY <2>2, <2>3, <3>1 DEF Observed
  <2>5. Observed(v.kind) => (i \in HitsAfter(place, v) <=> matches /\ ObserveValue(c, v))
    <3> HIDE DEF matches
    <3> QED
      BY <1>5, <1>7 DEF HitsAfter
  <2>6. ~Observed(v.kind) => i \notin HitsAfter(place, v)
    BY <1>7 DEF HitsAfter
  <2>7. /\ HasText(v) => ~Misjudged(c, v.text)
        /\ v.kind = "null" /\ General /\ HasExistsLike => ~IsExists(c)
        /\ v.kind = "null" /\ IsTerm(c) /\ c.existsOnly => Last(c.path) # "..."
    BY NoDifference
  <2>8. /\ ~IsExists(c) => (ObserveValue(c, v) <=> EvalValue(c, v))
        /\ IsExists(c) => ObserveValue(c, v) /\ (EvalValue(c, v) <=> v.kind # "null")
    <3> HIDE DEF c, v
    <3> QED
      BY <1>1, <1>2, <2>7, ObserveIs
  <2>9. v.kind = "null" /\ Observed(v.kind) => HasExistsLike
    BY DEF Observed
  <2> HIDE DEF c, v, reached, matches
  <2>10. Observed(v.kind) => (ObserveValue(c, v) <=> EvalValue(c, v))
    BY <2>7, <2>8, <2>9
  <2>11. EvalValue(c, v) => (matches <=> reached)
    BY <1>3, <2>2, <2>7
  <2> QED
    BY <1>4, <2>4, <2>5, <2>6, <2>10, <2>11 DEF v
<1> QED
  BY <1>6, <1>7

\* What is hit by a value is kept, and new hits are clauses.
LEMMA HitsGrow ==
  ASSUME request \in Cases, clauseHits \subseteq Ids, NEW place, NEW v
  PROVE  clauseHits \subseteq HitsAfter(place, v) /\ HitsAfter(place, v) \subseteq Ids
BY DEF HitsAfter, PathHits

\* A value that has been read at one place, and has hit what it satisfies.
LEMMA PlaceDone ==
  ASSUME ScanInv, request' = request, NEW place \in DOMAIN doc, General, seen' = seen \cup {place},
         string = NoString, string' = NoString, clauseHits \subseteq clauseHits', clauseHits' \subseteq Ids,
         \A i \in Ids \ clauseHits : ~Differs(clauses[i]) => (i \in clauseHits' <=> Satisfied(i, place))
  PROVE  ScanInv'
<1>1. HitsSound(clauseHits')
  BY DEF ScanInv, HitsSound
<1>2. HitsComplete(seen', clauseHits', string')
  BY DEF ScanInv, HitsComplete
<1>3. StringReached(string')
  BY DEF StringReached
<1>4. MembersWhole(seen')
  BY DEF ScanInv, MembersWhole
<1> QED
  BY <1>1, <1>2, <1>3, <1>4, SameCase

\* A value of the general scan.
LEMMA ScanValueKeeps ==
  ASSUME request \in Cases, ScanInv, ScanValue
  PROVE  ScanInv'
<1>1. PICK place \in NextPlaces :
        /\ doc[place].kind # "string" /\ seen' = seen \cup {place}
        /\ clauseHits' = HitsAfter(place, doc[place])
  BY DEF ScanValue
<1>2. General /\ string = NoString /\ string' = NoString /\ request' = request
  BY DEF ScanValue
<1>3. place \in DOMAIN doc
  BY OfCase, NextInDocument
<1>4. clauseHits \subseteq Ids
  BY DEF ScanInv, HitsSound
<1>5. clauseHits \subseteq clauseHits' /\ clauseHits' \subseteq Ids
  BY <1>1, <1>4, HitsGrow
<1>6. \A i \in Ids \ clauseHits : ~Differs(clauses[i]) => (i \in clauseHits' <=> Satisfied(i, place))
  BY <1>1, <1>2, <1>3, <1>4, ValueHits
<1> QED
  BY <1>1, <1>2, <1>3, <1>5, <1>6, PlaceDone

\* The sets that collectStringPathClauseSets collects, and what observe knows of a
\* string that is skipped.
AskedOf(place)  == {i \in PathHits(place) : \/ IsTerm(clauses[i]) \/ IsIn(clauses[i])
                                            \/ IsTemporal(clauses[i])}
ExistsOf(place) == {i \in PathHits(place) : IsExists(clauses[i])}
Skipped         == [kind |-> "string"]

\* The clauses whose path leads to a string.
LEMMA StringHits ==
  ASSUME request \in Cases, clauseHits \subseteq Ids, NEW place \in DOMAIN doc, doc[place].kind = "string",
         NEW i \in Ids
  PROVE  /\ i \in PathHits(place) <=> i \notin clauseHits /\ place \in ValuesAtPath(doc, clauses[i].path)
         /\ Satisfied(i, place) /\ ~Differs(clauses[i]) /\ i \notin clauseHits => i \in AskedOf(place) \cup ExistsOf(place)
         /\ i \in ExistsOf(place) => Satisfied(i, place)
<1> DEFINE c == clauses[i]
           reached == place \in ValuesAtPath(doc, c.path)
           matches == PathMatches(c.path, place)
<1>1. IsDocument(doc) /\ IsClause(c)
  BY OfCase
<1>2. /\ reached => matches /\ TailMatches(TailFilter(c.path), place)
      /\ matches => TailMatches(TailFilter(c.path), place)
      /\ matches /\ (doc[place].kind # "null" \/ Last(c.path) # "...") => reached
      /\ Dispatched(TailFilter(c.path), place) = TailMatches(TailFilter(c.path), place)
  BY PathsFollow
<1>3. matches <=> reached
  BY <1>2
<1>4. i \in PathHits(place) <=> i \notin clauseHits /\ matches
  BY <1>2 DEF PathHits
<1>5. IsTerm(c) \/ IsIn(c) \/ IsExists(c) \/ IsTemporal(c) \/ (IsRange(c) /\ ~c.temporal)
  BY <1>1, KindIs
<1>6. ~Differs(c) /\ IsRange(c) /\ ~c.temporal => ~EvalValue(c, doc[place])
  BY NoDifference
<1>7. IsExists(c) => EvalValue(c, doc[place])
  BY <1>1, EvalIs
<1> HIDE DEF reached, matches
<1>8. Satisfied(i, place) <=> reached /\ EvalValue(c, doc[place])
  BY DEF Satisfied, reached
<1>9. /\ i \in AskedOf(place) <=> i \in PathHits(place) /\ (IsTerm(c) \/ IsIn(c) \/ IsTemporal(c))
      /\ i \in ExistsOf(place) <=> i \in PathHits(place) /\ IsExists(c)
  BY DEF AskedOf, ExistsOf
<1> HIDE DEF c
<1>10. /\ i \in PathHits(place) <=> i \notin clauseHits /\ reached
       /\ Satisfied(i, place) /\ ~Differs(c) /\ i \notin clauseHits => i \in AskedOf(place) \cup ExistsOf(place)
       /\ i \in ExistsOf(place) => Satisfied(i, place)
  BY <1>3, <1>4, <1>5, <1>6, <1>7, <1>8, <1>9
<1> QED
  BY <1>10 DEF c, reached

\* A string that is skipped: nobody asks for it, or its clause is hit already.
LEMMA SkipHits ==
  ASSUME request \in Cases, clauseHits \subseteq Ids, NEW place \in DOMAIN doc, doc[place].kind = "string",
         ~(StringValueNeeded(place) /\ AskedOf(place) # {}), NEW i \in Ids, ~Differs(clauses[i]), i \notin clauseHits
  PROVE  i \in HitsAfter(place, Skipped) <=> Satisfied(i, place)
<1> DEFINE c == clauses[i]
<1>1. IsDocument(doc) /\ IsClause(c)
  BY OfCase
<1>2. /\ i \in PathHits(place) <=> i \notin clauseHits /\ place \in ValuesAtPath(doc, c.path)
      /\ Satisfied(i, place) => i \in AskedOf(place) \cup ExistsOf(place)
      /\ i \in ExistsOf(place) => Satisfied(i, place)
  BY StringHits
<1>3. Satisfied(i, place) <=> place \in ValuesAtPath(doc, c.path) /\ EvalValue(c, doc[place])
  BY DEF Satisfied
<1>4. /\ i \in AskedOf(place) <=> i \in PathHits(place) /\ (IsTerm(c) \/ IsIn(c) \/ IsTemporal(c))
      /\ i \in ExistsOf(place) <=> i \in PathHits(place) /\ IsExists(c)
  BY DEF AskedOf, ExistsOf
<1>5. CASE FastEq \/ FastRecursiveEq
  <2>1. Ids = {1} /\ c.kind = "eq" /\ (FastEqMatches(Skipped) => HasText(Skipped))
    BY <1>5, SingleEq
  <2>2. ~HasText(Skipped)
    BY DEF HasText, Skipped
  <2>3. i \notin HitsAfter(place, Skipped)
    BY <1>5, <2>1, <2>2 DEF HitsAfter
  <2>4. clauseHits = {} /\ i = 1
    BY <2>1
  <2>5. FastPathHits(place) = PathMatches(c.path, place)
    BY <1>5, PathsFollow
  <2>6. place \in ValuesAtPath(doc, c.path) => PathMatches(c.path, place)
    BY PathsFollow
  <2>7. Satisfied(i, place) => StringValueNeeded(place) /\ AskedOf(place) # {}
    BY <1>2, <1>3, <1>4, <1>5, <2>1, <2>4, <2>5, <2>6 DEF StringValueNeeded, IsTerm
  <2> QED
    BY <2>3, <2>7
<1>6. CASE ~(FastEq \/ FastRecursiveEq)
  <2>1. Observed("string")
    BY DEF Observed
  <2>2. i \in HitsAfter(place, Skipped) <=> i \in PathHits(place) /\ ObserveValue(c, Skipped)
    BY <1>6, <2>1 DEF HitsAfter, Skipped
  <2>3. ObserveValue(c, Skipped) <=> IsExists(c) \/ (IsTerm(c) /\ c.existsOnly)
    <3> HIDE DEF c
    <3> QED
      BY <1>1, SkippedIs DEF Skipped
  <2>4. i \in AskedOf(place) => StringValueNeeded(place) \/ (IsTerm(c) /\ c.existsOnly)
    BY <1>4, <1>6 DEF StringValueNeeded
  <2>5. i \in AskedOf(place) => IsTerm(c) /\ c.existsOnly
    BY <2>4
  <2>6. IsTerm(c) /\ c.existsOnly => EvalValue(c, doc[place])
    <3> HIDE DEF c
    <3> QED
      BY <1>1, EvalIs
  <2> HIDE DEF c
  <2> QED
    BY <1>2, <1>3, <1>4, <2>2, <2>3, <2>5, <2>6
<1> QED
  BY <1>5, <1>6

\* A string of the general scan, shown to its clauses or skipped.
LEMMA ScanStringKeeps ==
  ASSUME request \in Cases, ScanInv, ScanString
  PROVE  ScanInv'
<1>1. PICK place \in NextPlaces :
        /\ doc[place].kind = "string" /\ seen' = seen \cup {place}
        /\ IF StringValueNeeded(place) /\ AskedOf(place) # {}
           THEN string' = StartString(place, AskedOf(place), ExistsOf(place)) /\ UNCHANGED clauseHits
           ELSE clauseHits' = HitsAfter(place, Skipped) /\ UNCHANGED string
  BY DEF ScanString, AskedOf, ExistsOf, Skipped
<1>2. General /\ string = NoString /\ request' = request
  BY DEF ScanString
<1>3. place \in DOMAIN doc
  BY OfCase, NextInDocument
<1>4. clauseHits \subseteq Ids
  BY DEF ScanInv, HitsSound
<1>5. CASE StringValueNeeded(place) /\ AskedOf(place) # {}
  <2> DEFINE s == StartString(place, AskedOf(place), ExistsOf(place))
  <2>1. string' = s /\ clauseHits' = clauseHits
    BY <1>1, <1>5
  <2>2. s.place = place /\ s.chosen = AskedOf(place) /\ s.exists = ExistsOf(place)
    BY DEF StartString
  <2> HIDE DEF s
  <2>3. HitsSound(clauseHits')
    BY <2>1 DEF ScanInv
  <2>4. StringReached(string')
    <3>1. AskedOf(place) \cup ExistsOf(place) \subseteq PathHits(place) /\ PathHits(place) \subseteq Ids
      BY DEF AskedOf, ExistsOf, PathHits
    <3>2. \A i \in PathHits(place) : place \in ValuesAtPath(doc, clauses[i].path)
      BY <1>1, <1>3, <1>4, <3>1, StringHits
    <3>3. \A i \in ExistsOf(place) : IsExists(clauses[i])
      BY DEF ExistsOf
    <3>4. \A i \in AskedOf(place) : ~IsExists(clauses[i])
      <4> SUFFICES ASSUME NEW i \in AskedOf(place) PROVE ~IsExists(clauses[i])
        OBVIOUS
      <4>1. i \in Ids /\ (IsTerm(clauses[i]) \/ IsIn(clauses[i]) \/ IsTemporal(clauses[i]))
        BY <3>1 DEF AskedOf
      <4> QED
        BY <4>1, OfCase, KindIs
    <3> QED
      BY <1>3, <2>1, <2>2, <3>1, <3>2, <3>3, <3>4 DEF StringReached
  <2>5. HitsComplete(seen', clauseHits', string')
    <3> SUFFICES ASSUME NEW q \in seen', NEW i \in Ids, ~Differs(clauses[i]), Satisfied(i, q), i \notin clauseHits
                 PROVE  string' # NoString /\ q = string'.place /\ i \in string'.chosen \cup string'.exists
      BY <2>1 DEF HitsComplete
    <3>1. q = place
      BY <1>1, <1>2 DEF ScanInv, HitsComplete
    <3>2. i \in AskedOf(place) \cup ExistsOf(place)
      BY <1>1, <1>3, <1>4, <3>1, StringHits
    <3>3. s # NoString
      BY DEF s, StartString, NoString
    <3> QED
      BY <2>1, <2>2, <3>1, <3>2, <3>3
  <2>6. MembersWhole(seen')
    BY <1>1, <1>2, <1>3 DEF ScanInv, MembersWhole
  <2> QED
    BY <1>2, <2>3, <2>4, <2>5, <2>6, SameCase
<1>6. CASE ~(StringValueNeeded(place) /\ AskedOf(place) # {})
  <2>1. clauseHits' = HitsAfter(place, Skipped) /\ string' = NoString
    BY <1>1, <1>2, <1>6
  <2>2. clauseHits \subseteq clauseHits' /\ clauseHits' \subseteq Ids
    BY <1>4, <2>1, HitsGrow
  <2>3. \A i \in Ids \ clauseHits : ~Differs(clauses[i]) => (i \in clauseHits' <=> Satisfied(i, place))
    BY <1>1, <1>3, <1>4, <1>6, <2>1, SkipHits
  <2> QED
    BY <1>1, <1>2, <1>3, <2>1, <2>2, <2>3, PlaceDone
<1> QED
  BY <1>5, <1>6

--------------------------------------------------------------------------------
(* The scan of the members of the root.                                        *)

\* The fast forms are for objects and clauses about their members.
LEMMA TopLevels ==
  ASSUME request \in Cases, ~General
  PROVE  doc[<<>>].kind = "object" /\ \A i \in Ids : TopLevelLiteral(clauses[i].path)
<1>1. doc[<<>>].kind = "object" /\ (FastTopLevelEq \/ FastTopLevel)
  BY DEF General
<1>2. CASE FastTopLevelEq
  <2>1. FastEq /\ TopLevelLiteral(clauses[1].path)
    BY <1>2 DEF FastTopLevelEq
  <2>2. Ids = {1}
    BY <2>1, SingleEq
  <2> QED
    BY <1>1, <2>1, <2>2
<1>3. CASE FastTopLevel
  BY <1>1, <1>3 DEF FastTopLevel
<1> QED
  BY <1>1, <1>2, <1>3

\* In the fast forms only a member of the root can satisfy a clause.
LEMMA SatisfiedBy ==
  ASSUME request \in Cases, ~General, NEW i \in Ids, NEW q \in DOMAIN doc
  PROVE  Satisfied(i, q) <=> Len(q) = 1 /\ q[1].key = clauses[i].path[1] /\ EvalValue(clauses[i], doc[q])
<1>1. doc[<<>>].kind = "object" /\ TopLevelLiteral(clauses[i].path)
  BY TopLevels
<1>2. IsDocument(doc) /\ clauses[i].path \in Seq(STRING)
  BY OfCase
<1>3. q \in ValuesAtPath(doc, clauses[i].path) <=> Len(q) = 1 /\ q[1].key = clauses[i].path[1]
  BY <1>1, <1>2, TopLevelReached
<1> QED
  BY <1>3 DEF Satisfied

\* What a sequence begins with.
LEMMA FirstOf ==
  ASSUME NEW S, NEW q \in Seq(S)
  PROVE  /\ Len(q) \in Nat /\ (q # <<>> <=> Len(q) >= 1)
         /\ Len(q) >= 1 => SubSeq(q, 1, 1) = <<q[1]>>
<1>1. Len(q) \in Nat /\ (q # <<>> <=> Len(q) >= 1)
  OBVIOUS
<1>2. ASSUME Len(q) >= 1 PROVE SubSeq(q, 1, 1) = <<q[1]>>
  <2>1. q[1] \in S /\ 0 \in Nat /\ 1 \in Nat /\ 0 + 1 <= Len(q)
    BY <1>1, <1>2
  <2>2. /\ SubSeq(q, 0 + 1, 0 + 1) \in Seq(S) /\ Len(SubSeq(q, 0 + 1, 0 + 1)) = 1
        /\ \A i \in 1..1 : SubSeq(q, 0 + 1, 0 + 1)[i] = q[0 + i]
    BY <2>1, PieceOf
  <2>3. <<q[1]>> \in Seq(S) /\ Len(<<q[1]>>) = 1 /\ <<q[1]>>[1] = q[1]
    BY <2>1
  <2> DEFINE s == SubSeq(q, 0 + 1, 0 + 1)
             t == <<q[1]>>
  <2>4. s \in Seq(S) /\ t \in Seq(S) /\ Len(s) = Len(t) /\ \A i \in 1..Len(s) : s[i] = t[i]
    BY <2>2, <2>3
  <2>5. s = SubSeq(q, 1, 1)
    OBVIOUS
  <2> HIDE DEF s, t
  <2>6. s = t
    BY <2>4, SameSequence
  <2> QED
    BY <2>5, <2>6 DEF t
<1> QED
  BY <1>1, <1>2

\* After the root the scan comes to its members, one after another.
LEMMA NextMember ==
  ASSUME request \in Cases, ~General, seen # {}, MembersWhole(seen), NEW place \in NextPlaces
  PROVE  /\ place \in DOMAIN doc /\ Len(place) = 1
         /\ \A q \in DOMAIN doc : q \in Below(place) <=> q # <<>> /\ q[1] = place[1]
         /\ \A q \in Below(place) : Len(q) = 1 => q = place
<1>1. IsDocument(doc) /\ place \in DOMAIN doc \ seen /\ Front(place) \in seen
  BY OfCase DEF NextPlaces
<1>2. <<>> \in seen /\ seen \subseteq DOMAIN doc /\ place # <<>>
  BY <1>1 DEF MembersWhole
<1>3. place \in Seq(Steps) /\ Len(place) \in Nat /\ Len(place) >= 1
  BY <1>1, <1>2 DEF IsDocument
<1>4. Front(place) = SubSeq(place, 1, Len(place) - 1)
  BY DEF Front
<1>5. Len(place) = 1
  <2>1. ASSUME Len(place) > 1 PROVE FALSE
    <3>1. Front(place) # <<>> /\ Front(place)[1] = place[1]
      <4>1. PICK m \in Nat : m = Len(place) - 1 /\ m \in 0..Len(place) /\ m >= 1
        <5>1. Len(place) - 1 \in Nat /\ Len(place) - 1 \in 0..Len(place) /\ Len(place) - 1 >= 1
          BY <1>3, <2>1
        <5> QED
          BY <5>1
      <4>2. /\ Above(place, m) \in Seq(Steps) /\ Len(Above(place, m)) = m
            /\ \A i \in 1..m : Above(place, m)[i] = place[i]
        BY <1>3, <4>1, AboveFacts
      <4>3. Front(place) = Above(place, m)
        BY <1>4, <4>1 DEF Above
      <4> QED
        BY <4>1, <4>2, <4>3
    <3>2. place \in seen
      BY <1>1, <1>2, <3>1 DEF MembersWhole
    <3> QED
      BY <1>1, <3>2
  <2>2. PICK l \in Nat : l = Len(place)
    BY <1>3
  <2>3. l >= 1 /\ ~(l > 1)
    BY <1>3, <2>1, <2>2
  <2>4. l = 1
    BY ONLY l \in Nat, <2>3
  <2> QED
    BY <2>2, <2>4
<1>6. \A q \in DOMAIN doc : q \in Below(place) <=> q # <<>> /\ q[1] = place[1]
  <2> SUFFICES ASSUME NEW q \in DOMAIN doc PROVE IsPrefix(place, q) <=> q # <<>> /\ q[1] = place[1]
    BY DEF Below
  <2>1. q \in Seq(Steps)
    BY <1>1 DEF IsDocument
  <2>2. Len(q) \in Nat /\ (q # <<>> <=> Len(q) >= 1)
    BY <2>1, FirstOf
  <2>3. SubSeq(place, 1, 1) = <<place[1]>>
    BY <1>3, FirstOf
  <2>4. Len(q) >= 1 => SubSeq(q, 1, 1) = <<q[1]>>
    BY <2>1, FirstOf
  <2>5. <<place[1]>> = <<q[1]>> <=> place[1] = q[1]
    OBVIOUS
  <2> QED
    BY <1>5, <2>1, <2>2, <2>3, <2>4, <2>5 DEF IsPrefix
<1>7. ASSUME NEW q \in Below(place), Len(q) = 1 PROVE q = place
  <2>1. q \in DOMAIN doc
    BY DEF Below
  <2>2. q \in Seq(Steps) /\ q[1] = place[1]
    BY <1>1, <1>6, <2>1 DEF IsDocument
  <2>3. \A j \in 1..1 : q[j] = place[j]
    BY <2>2
  <2> QED
    BY <1>3, <1>5, <1>7, <2>2, <2>3, SameSequence
<1> QED
  BY <1>1, <1>5, <1>6, <1>7

\* A member that has been taken, with what it hits and what it starts.
LEMMA MemberDone ==
  ASSUME request \in Cases, ScanInv, ~General, NEW place \in NextPlaces, ScanMember(place),
         clauseHits \subseteq clauseHits', clauseHits' \subseteq Ids, StringReached(string'),
         \A i \in Ids \ clauseHits : ~Differs(clauses[i]) =>
           /\ i \in clauseHits' => Satisfied(i, place)
           /\ Satisfied(i, place) =>
                \/ i \in clauseHits'
                \/ string' # NoString /\ place = string'.place /\ i \in string'.chosen \cup string'.exists
  PROVE  ScanInv'
<1>1. string = NoString /\ seen # {} /\ seen' = seen \cup Below(place) /\ request' = request
  BY DEF ScanMember
<1>2. MembersWhole(seen)
  BY DEF ScanInv
<1>3. /\ place \in DOMAIN doc /\ Len(place) = 1
      /\ \A q \in DOMAIN doc : q \in Below(place) <=> q # <<>> /\ q[1] = place[1]
      /\ \A q \in Below(place) : Len(q) = 1 => q = place
  BY <1>1, <1>2, NextMember
<1>4. Below(place) \subseteq DOMAIN doc
  BY DEF Below
<1>5. HitsSound(clauseHits')
  <2> SUFFICES ASSUME NEW i \in clauseHits'
               PROVE  i \in Ids /\ (Differs(clauses[i]) \/ \E q \in DOMAIN doc : Satisfied(i, q))
    BY DEF HitsSound
  <2>1. CASE i \in clauseHits
    BY <2>1 DEF ScanInv, HitsSound
  <2>2. CASE i \notin clauseHits
    BY <1>3, <2>2
  <2> QED
    BY <2>1, <2>2
<1>6. HitsComplete(seen', clauseHits', string')
  <2> SUFFICES ASSUME NEW q \in seen', NEW i \in Ids, ~Differs(clauses[i]), Satisfied(i, q), i \notin clauseHits'
               PROVE  string' # NoString /\ q = string'.place /\ i \in string'.chosen \cup string'.exists
    BY DEF HitsComplete
  <2>1. q \notin seen
    BY <1>1 DEF ScanInv, HitsComplete
  <2>2. q \in Below(place) /\ q \in DOMAIN doc
    BY <1>1, <1>4, <2>1
  <2>3. Len(q) = 1
    BY <2>2, SatisfiedBy
  <2>4. q = place
    BY <1>3, <2>2, <2>3
  <2> QED
    BY <2>4
<1>7. MembersWhole(seen')
  <2>1. seen' \subseteq DOMAIN doc /\ <<>> \in seen'
    BY <1>1, <1>2, <1>4 DEF MembersWhole
  <2>2. ASSUME NEW q \in seen' \ {<<>>}, NEW r \in DOMAIN doc \ {<<>>}, q[1] = r[1] PROVE r \in seen'
    <3>1. CASE q \in seen
      BY <1>1, <1>2, <2>2, <3>1 DEF MembersWhole
    <3>2. CASE q \in Below(place)
      BY <1>1, <1>3, <1>4, <2>2, <3>2
    <3> QED
      BY <1>1, <3>1, <3>2
  <2> QED
    BY <2>1, <2>2 DEF MembersWhole
<1> QED
  BY <1>1, <1>5, <1>6, <1>7, SameCase

\* The root of a fast form: no clause is about it.
LEMMA RootFastKeeps ==
  ASSUME request \in Cases, ScanInv, ScanRootFast
  PROVE  ScanInv'
<1>1. /\ ~General /\ seen = {} /\ seen' = {<<>>} /\ request' = request
      /\ clauseHits' = clauseHits /\ string' = string
  BY DEF ScanRootFast
<1>2. <<>> \in DOMAIN doc
  BY OfCase DEF IsDocument
<1>3. \A i \in Ids : ~Satisfied(i, <<>>)
  <2>1. Len(<<>>) = 0
    OBVIOUS
  <2> QED
    BY <1>1, <1>2, <2>1, SatisfiedBy
<1>4. HitsComplete(seen', clauseHits', string')
  BY <1>1, <1>3 DEF HitsComplete
<1>5. MembersWhole(seen')
  BY <1>1, <1>2 DEF MembersWhole
<1> QED
  BY <1>1, <1>4, <1>5, SameCase DEF ScanInv

\* A single eq clause about a member of the root.
LEMMA MemberEqKeeps ==
  ASSUME request \in Cases, ScanInv, ScanMemberFastEq
  PROVE  ScanInv'
<1> DEFINE about(place) == clauseHits = {} /\ place[1].key = clauses[1].path[1]
<1>1. PICK place \in NextPlaces :
        /\ ScanMember(place)
        /\ \/ /\ about(place) /\ doc[place].kind = "string"
              /\ string' = StartString(place, {1}, {})
              /\ UNCHANGED clauseHits
           \/ /\ clauseHits' = IF about(place) /\ FastEqMatches(doc[place]) THEN {1} ELSE clauseHits
              /\ UNCHANGED string
  BY DEF ScanMemberFastEq
<1>2. ~General /\ FastEq
  BY DEF ScanMemberFastEq, FastTopLevelEq
<1>3. string = NoString /\ seen # {} /\ MembersWhole(seen) /\ clauseHits \subseteq Ids
  BY <1>1 DEF ScanMember, ScanInv, HitsSound
<1>4. place \in DOMAIN doc /\ Len(place) = 1
  BY <1>2, <1>3, NextMember
<1>5. doc[place] \in Values
  BY <1>4, OfCase DEF IsDocument
<1>6. /\ Ids = {1} /\ clauses[1].kind = "eq"
      /\ ~Differs(clauses[1]) => (FastEqMatches(doc[place]) <=> EvalValue(clauses[1], doc[place]))
  BY <1>2, <1>4, <1>5, SingleEq, NoDifference
<1>7. ~Differs(clauses[1]) =>
        (Satisfied(1, place) <=> place[1].key = clauses[1].path[1] /\ FastEqMatches(doc[place]))
  BY <1>2, <1>4, <1>6, SatisfiedBy
<1>8. place[1].key = clauses[1].path[1] => place \in ValuesAtPath(doc, clauses[1].path)
  <2>1. doc[<<>>].kind = "object" /\ TopLevelLiteral(clauses[1].path)
    BY <1>2, <1>6, TopLevels
  <2>2. IsDocument(doc) /\ clauses[1].path \in Seq(STRING)
    BY <1>6, OfCase
  <2> QED
    BY <1>4, <2>1, <2>2, TopLevelReached
<1>9. CASE about(place) /\ string' = StartString(place, {1}, {}) /\ clauseHits' = clauseHits
  <2> DEFINE s == StartString(place, {1}, {})
  <2>1. s.place = place /\ s.chosen = {1} /\ s.exists = {}
    BY DEF StartString
  <2>2. s # NoString
    BY DEF StartString, NoString
  <2>3. string' = s
    BY <1>9
  <2> HIDE DEF s
  <2>4. StringReached(string')
    BY <1>4, <1>6, <1>8, <1>9, <2>1, <2>3 DEF StringReached, IsExists
  <2>5. clauseHits \subseteq clauseHits' /\ clauseHits' \subseteq Ids
    BY <1>3, <1>9
  <2>6. \A i \in Ids \ clauseHits : ~Differs(clauses[i]) =>
           /\ i \in clauseHits' => Satisfied(i, place)
           /\ Satisfied(i, place) =>
                \/ i \in clauseHits'
                \/ string' # NoString /\ place = string'.place /\ i \in string'.chosen \cup string'.exists
    BY <1>6, <1>9, <2>1, <2>2, <2>3
  <2> QED
    BY <1>1, <1>2, <2>4, <2>5, <2>6, MemberDone
<1>10. CASE /\ clauseHits' = IF about(place) /\ FastEqMatches(doc[place]) THEN {1} ELSE clauseHits
            /\ string' = string
  <2>1. StringReached(string')
    BY <1>3, <1>10 DEF StringReached
  <2>2. clauseHits \subseteq clauseHits' /\ clauseHits' \subseteq Ids
    BY <1>3, <1>6, <1>10
  <2>3. \A i \in Ids \ clauseHits : i = 1 /\ clauseHits = {}
    BY <1>3, <1>6
  <2>4. clauseHits = {} /\ ~Differs(clauses[1]) => (1 \in clauseHits' <=> Satisfied(1, place))
    BY <1>7, <1>10
  <2>5. \A i \in Ids \ clauseHits : ~Differs(clauses[i]) =>
           /\ i \in clauseHits' => Satisfied(i, place)
           /\ Satisfied(i, place) =>
                \/ i \in clauseHits'
                \/ string' # NoString /\ place = string'.place /\ i \in string'.chosen \cup string'.exists
    BY <2>3, <2>4
  <2> QED
    BY <1>1, <1>2, <2>1, <2>2, <2>5, MemberDone
<1> QED
  BY <1>1, <1>9, <1>10

\* A clause that is neither about existence nor without a value, and a member
\* that is no string.
LEMMA FieldIs ==
  ASSUME NEW c, IsClause(c), ~IsExists(c), ~(IsTerm(c) /\ c.existsOnly), NEW v \in Values, v.kind # "string",
         HasText(v) => ~Misjudged(c, v.text),
         v.kind \in {"number", "bool"} => ParseTemporalLiteral(v.text) = 0
  PROVE  EvalValue(c, v) <=> v.kind \in {"bool", "number"} /\ FieldMatches(c, v)
<1>1. /\ IsTerm(c) \/ IsIn(c) \/ IsTemporal(c) \/ (IsRange(c) /\ ~c.temporal)
      /\ 0 \notin c.accepts
      /\ IsTerm(c) => ~IsIn(c) /\ ~IsTemporal(c) /\ ~IsRange(c)
      /\ IsIn(c) => ~IsTemporal(c) /\ ~IsRange(c)
      /\ IsRange(c) /\ ~c.temporal => ~IsTemporal(c)
  BY KindIs
<1>2. /\ v.kind \in {"object", "array", "null", "bool", "number"}
      /\ v.kind \in {"object", "array", "null"} => ~HasText(v) /\ ValueToFloat(v) = 0
      /\ v.kind \in {"bool", "number"} => HasText(v) /\ v.text \in Texts
      /\ v.kind = "bool" => ValueToFloat(v) = 0
      /\ v.kind = "number" => ValueToFloat(v) = ParseFloat(v.text)
  BY ValueFacts
<1>3. TemporalMatches(c, v.text) => ParseTemporalLiteral(v.text) # 0
  BY DEF TemporalMatches
<1>4. CASE IsTerm(c)
  <2>1. EvalValue(c, v) <=> HasText(v) /\ (PlainMatch(c, v.text) \/ (HasTemporalEq(c) /\ TemporalMatches(c, v.text)))
    BY <1>4, EvalIs
  <2>2. FieldMatches(c, v) <=> TermMatchesString(c, FoldCase(c, v.text))
    BY <1>1, <1>4 DEF FieldMatches
  <2>3. ASSUME v.kind \in {"bool", "number"}
        PROVE  TermMatchesString(c, FoldCase(c, v.text)) <=>
                 PlainMatch(c, v.text) \/ (HasTemporalEq(c) /\ TemporalMatches(c, v.text))
    BY <1>2, <1>4, <2>3, TermIs
  <2> QED
    BY <1>2, <2>1, <2>2, <2>3
<1>5. CASE IsIn(c)
  <2>1. EvalValue(c, v) <=> HasText(v) /\ v.text \in c.any
    BY <1>5, EvalIs DEF PlainMatch, IsIn
  <2>2. FieldMatches(c, v) <=> v.text \in c.any
    BY <1>1, <1>5 DEF FieldMatches
  <2> QED
    BY <1>2, <2>1, <2>2
<1>6. CASE IsTemporal(c)
  <2>1. ~EvalValue(c, v)
    BY <1>2, <1>3, <1>6, EvalIs
  <2>2. ~FieldMatches(c, v)
    BY <1>1, <1>6 DEF FieldMatches
  <2> QED
    BY <2>1, <2>2
<1>7. CASE IsRange(c) /\ ~c.temporal
  <2>1. EvalValue(c, v) <=> ValueToFloat(v) \in c.accepts
    BY <1>7, EvalIs
  <2>2. FieldMatches(c, v) <=> v.kind = "number" /\ ParseFloat(v.text) \in c.accepts
    BY <1>1, <1>7 DEF FieldMatches
  <2> QED
    BY <1>1, <1>2, <2>1, <2>2
<1> QED
  BY <1>1, <1>4, <1>5, <1>6, <1>7

\* Several clauses about members of the root.
LEMMA MemberKeeps ==
  ASSUME request \in Cases, ScanInv, ScanMemberFast
  PROVE  ScanInv'
<1> DEFINE pending(place)  == FieldPending(place[1].key)
           asserted(place) == {i \in pending(place) : IsTerm(clauses[i]) /\ clauses[i].existsOnly}
           exists(place)   == {i \in pending(place) : IsExists(clauses[i])}
           chosen(place)   == pending(place) \ (exists(place) \cup asserted(place))
           fields(place)   == {i \in chosen(place) : doc[place].kind \in {"bool", "number"} /\ FieldMatches(clauses[i], doc[place])}
<1>1. PICK place \in NextPlaces :
        /\ ScanMember(place)
        /\ IF doc[place].kind = "string" /\ chosen(place) # {}
           THEN /\ string' = StartString(place, chosen(place), exists(place))
                /\ clauseHits' = clauseHits \cup asserted(place)
           ELSE /\ clauseHits' = clauseHits \cup asserted(place)
                       \cup (IF doc[place].kind = "null" THEN {} ELSE exists(place)) \cup fields(place)
                /\ UNCHANGED string
  BY DEF ScanMemberFast
<1> DEFINE P == pending(place)
           A == asserted(place)
           E == exists(place)
           C == chosen(place)
           M == fields(place)
           v == doc[place]
<1>2. ~General
  BY DEF ScanMemberFast
<1>3. string = NoString /\ seen # {} /\ MembersWhole(seen) /\ clauseHits \subseteq Ids
  BY <1>1 DEF ScanMember, ScanInv, HitsSound
<1>4. place \in DOMAIN doc /\ Len(place) = 1
  BY <1>2, <1>3, NextMember
<1>5. v \in Values /\ (v.kind \in {"number", "bool"} => ParseTemporalLiteral(v.text) = 0)
  BY <1>4, OfCase DEF IsDocument
<1>6. /\ \A i \in Ids : i \in P <=> i \notin clauseHits /\ place[1].key = clauses[i].path[1]
      /\ P \subseteq Ids /\ A \cup E \cup C = P
      /\ \A i \in A : IsTerm(clauses[i]) /\ clauses[i].existsOnly
      /\ \A i \in E : IsExists(clauses[i])
      /\ \A i \in C : ~IsExists(clauses[i]) /\ ~(IsTerm(clauses[i]) /\ clauses[i].existsOnly)
      /\ \A i \in C : i \in M <=> v.kind \in {"bool", "number"} /\ FieldMatches(clauses[i], v)
      /\ M \subseteq C
  BY DEF FieldPending
<1> HIDE DEF pending, asserted, exists, chosen, fields, P, A, E, C, M
<1>7. ASSUME NEW i \in Ids, i \notin clauseHits
      PROVE  Satisfied(i, place) <=> i \in P /\ EvalValue(clauses[i], v)
  <2>1. Satisfied(i, place) <=> place[1].key = clauses[i].path[1] /\ EvalValue(clauses[i], doc[place])
    BY <1>2, <1>4, SatisfiedBy
  <2> QED
    BY <1>6, <1>7, <2>1
<1>8. \A i \in P : place \in ValuesAtPath(doc, clauses[i].path)
  <2> SUFFICES ASSUME NEW i \in P PROVE place \in ValuesAtPath(doc, clauses[i].path)
    OBVIOUS
  <2>1. doc[<<>>].kind = "object" /\ TopLevelLiteral(clauses[i].path)
    BY <1>2, <1>6, TopLevels
  <2>2. IsDocument(doc) /\ clauses[i].path \in Seq(STRING)
    BY <1>6, OfCase
  <2>3. place[1].key = clauses[i].path[1]
    BY <1>6
  <2> QED
    BY <1>4, <2>1, <2>2, <2>3, TopLevelReached
<1>9. \A i \in A : EvalValue(clauses[i], v)
  <2> SUFFICES ASSUME NEW i \in A PROVE EvalValue(clauses[i], v)
    OBVIOUS
  <2>1. IsClause(clauses[i]) /\ IsTerm(clauses[i]) /\ clauses[i].existsOnly
    BY <1>6, OfCase
  <2> QED
    BY <2>1, EvalIs
<1>10. \A i \in E : EvalValue(clauses[i], v) <=> v.kind # "null"
  <2> SUFFICES ASSUME NEW i \in E PROVE EvalValue(clauses[i], v) <=> v.kind # "null"
    OBVIOUS
  <2>1. IsClause(clauses[i]) /\ IsExists(clauses[i])
    BY <1>6, OfCase
  <2> QED
    BY <2>1, EvalIs
<1>11. \A i \in C : ~Differs(clauses[i]) /\ v.kind # "string" => (EvalValue(clauses[i], v) <=> i \in M)
  <2> SUFFICES ASSUME NEW i \in C, ~Differs(clauses[i]), v.kind # "string"
               PROVE  EvalValue(clauses[i], v) <=> i \in M
    OBVIOUS
  <2>1. IsClause(clauses[i]) /\ i \in Ids
    BY <1>6, OfCase
  <2>2. HasText(v) => ~Misjudged(clauses[i], v.text)
    BY <1>4, <2>1, NoDifference
  <2>3. PICK c : c = clauses[i]
    OBVIOUS
  <2>4. ~IsExists(c) /\ ~(IsTerm(c) /\ c.existsOnly)
    BY <1>6, <2>3
  <2> HIDE DEF v
  <2>5. EvalValue(c, v) <=> v.kind \in {"bool", "number"} /\ FieldMatches(c, v)
    BY <1>5, <2>1, <2>2, <2>3, <2>4, FieldIs
  <2> QED
    BY <1>6, <2>3, <2>5
<1>12. CASE v.kind = "string" /\ C # {}
  <2> DEFINE s == StartString(place, C, E)
  <2>1. string' = s /\ clauseHits' = clauseHits \cup A
    BY <1>1, <1>12 DEF A, C, E
  <2>2. s.place = place /\ s.chosen = C /\ s.exists = E
    BY DEF StartString
  <2>3. s # NoString
    BY DEF StartString, NoString
  <2> HIDE DEF s
  <2>4. StringReached(string')
    BY <1>4, <1>6, <1>8, <2>1, <2>2 DEF StringReached
  <2>5. clauseHits \subseteq clauseHits' /\ clauseHits' \subseteq Ids
    BY <1>3, <1>6, <2>1
  <2>6. \A i \in Ids \ clauseHits : ~Differs(clauses[i]) =>
           /\ i \in clauseHits' => Satisfied(i, place)
           /\ Satisfied(i, place) =>
                \/ i \in clauseHits'
                \/ string' # NoString /\ place = string'.place /\ i \in string'.chosen \cup string'.exists
    BY <1>6, <1>7, <1>9, <2>1, <2>2, <2>3
  <2> QED
    BY <1>1, <1>2, <2>4, <2>5, <2>6, MemberDone
<1>13. CASE ~(v.kind = "string" /\ C # {})
  <2>1. /\ clauseHits' = clauseHits \cup A \cup (IF v.kind = "null" THEN {} ELSE E) \cup M
        /\ string' = NoString
    BY <1>1, <1>3, <1>13 DEF A, C, E, M
  <2>2. StringReached(string')
    BY <2>1 DEF StringReached
  <2>3. clauseHits \subseteq clauseHits' /\ clauseHits' \subseteq Ids
    BY <1>3, <1>6, <2>1
  <2>4. ASSUME NEW i \in Ids, i \notin clauseHits, ~Differs(clauses[i])
        PROVE  i \in clauseHits' <=> Satisfied(i, place)
    <3>1. CASE i \notin P
      BY <1>6, <1>7, <2>1, <2>4, <3>1
    <3>2. CASE i \in A
      BY <1>6, <1>7, <1>9, <2>1, <2>4, <3>2
    <3>3. CASE i \in E
      <4>1. i \notin A /\ i \notin M
        <5>1. IsClause(clauses[i])
          BY <2>4, OfCase
        <5>2. ~IsTerm(clauses[i])
          BY <1>6, <3>3, <5>1, KindIs
        <5> QED
          BY <1>6, <3>3, <5>2
      <4> QED
        BY <1>6, <1>7, <1>10, <2>1, <2>4, <3>3, <4>1
    <3>4. CASE i \in C
      <4>1. i \notin A /\ i \notin E /\ v.kind # "string"
        BY <1>6, <1>13, <3>4
      <4> QED
        BY <1>6, <1>7, <1>11, <2>1, <2>4, <3>4, <4>1
    <3> QED
      BY <1>6, <3>1, <3>2, <3>3, <3>4
  <2>5. \A i \in Ids \ clauseHits : ~Differs(clauses[i]) =>
           /\ i \in clauseHits' => Satisfied(i, place)
           /\ Satisfied(i, place) =>
                \/ i \in clauseHits'
                \/ string' # NoString /\ place = string'.place /\ i \in string'.chosen \cup string'.exists
    BY <2>4
  <2> QED
    BY <1>1, <1>2, <2>2, <2>3, <2>5, MemberDone
<1> QED
  BY <1>12, <1>13

--------------------------------------------------------------------------------
(* All of it.                                                                  *)

\* A path leads to values of the document.
LEMMA ValuesInDocument ==
  ASSUME NEW d, IsDocument(d), NEW path \in Seq(STRING)
  PROVE  ValuesAtPath(d, path) \subseteq DOMAIN d
<1>1. <<>> \in DOMAIN d
  BY DEF IsDocument
<1>2. PICK f \in [0..Len(path) -> SUBSET DOMAIN d] : ValuesAtPath(d, path) = f[Len(path)]
  BY <1>1, ReachedDef
<1> QED
  BY <1>2

\* Every step keeps what has been decided.
LEMMA ScanStays ==
  ASSUME request \in Cases, StringInStep, ScanInv, [ScanNext]_scanVars
  PROVE  ScanInv'
<1>1. CASE FeedString
  <2>1. \E n \in 1..Len(string.rest) : \E fed :
          string' = [string EXCEPT !.rest = SubSeq(@, n + 1, Len(@)), !.matchers = fed]
    <3> DEFINE fed(n) == [i \in DOMAIN string.matchers |->
                            IF string.single
                            THEN FeedSegment(clauses[i], string.matchers[i], SubSeq(string.rest, 1, n))
                            ELSE FeedBytes(clauses[i], string.matchers[i], SubSeq(string.rest, 1, n))]
    <3>1. \E n \in 1..Len(string.rest) :
            string' = [string EXCEPT !.rest = SubSeq(@, n + 1, Len(@)), !.matchers = fed(n)]
      BY <1>1 DEF FeedString
    <3> HIDE DEF fed
    <3> QED
      BY <3>1
  <2>2. string # NoString /\ request' = request /\ seen' = seen /\ clauseHits' = clauseHits
    BY <1>1 DEF FeedString
  <2>3. string \in StringType(doc, clauses)
    BY <2>2 DEF StringInStep, InStep
  <2>4. string'.place = string.place /\ string'.chosen = string.chosen /\ string'.exists = string.exists
    BY <2>1, <2>3 DEF StringType
  <2>5. string' # NoString
    BY <2>1, <2>3 DEF StringType, NoString
  <2>6. HitsComplete(seen', clauseHits', string')
    BY <2>2, <2>4, <2>5 DEF ScanInv, HitsComplete
  <2>7. StringReached(string')
    BY <2>2, <2>4, <2>5 DEF ScanInv, StringReached
  <2> QED
    BY <2>2, <2>6, <2>7, SameCase DEF ScanInv
<1>2. CASE Judged \/ UNCHANGED scanVars
  BY <1>2, SameCase DEF Judged, scanVars, ScanInv
<1> QED
  BY <1>1, <1>2, ScanValueKeeps, ScanStringKeeps, EndStringKeeps, RootFastKeeps, MemberEqKeeps, MemberKeeps DEF ScanNext

\* Whatever the clauses and the documents, in whatever order the scan comes to the
\* members and in whatever runs it reads the strings: once a candidate has been
\* scanned, in any of the four forms, its hits are the clauses that the evaluator
\* finds satisfied on the decoded document, but for the clauses on which the two
\* engines are known to differ (streamClauseHits against selector_eval.go).
THEOREM EvaluatorAgrees ==
  ScanSpec => []AgreesWithEvaluator
<1>1. ScanInit => ScanInv
  BY DEF ScanInit, ScanInv, HitsSound, HitsComplete, StringReached, MembersWhole
<1>2. ScanInit => StringInStep
  BY DEF ScanInit, StringInStep
<1>3. request \in Cases /\ StringInStep /\ [ScanNext]_scanVars => StringInStep'
  BY StringStays
<1>4. request \in Cases /\ StringInStep /\ ScanInv /\ [ScanNext]_scanVars => ScanInv'
  BY ScanStays
<1>5. request \in Cases /\ ScanInv => AgreesWithEvaluator
  <2> SUFFICES ASSUME request \in Cases, ScanInv, Finished, NEW i \in Ids, ~Differs(clauses[i])
               PROVE  (i \in clauseHits) = EvalClause(clauses[i])
    BY DEF AgreesWithEvaluator
  <2>1. string = NoString /\ seen = DOMAIN doc
    BY DEF Finished
  <2>2. ValuesAtPath(doc, clauses[i].path) \subseteq DOMAIN doc
    BY OfCase, ValuesInDocument
  <2>3. EvalClause(clauses[i]) <=> \E q \in DOMAIN doc : Satisfied(i, q)
    BY <2>2 DEF EvalClause, Satisfied
  <2>4. i \in clauseHits <=> \E q \in DOMAIN doc : Satisfied(i, q)
    BY <2>1 DEF ScanInv, HitsSound, HitsComplete
  <2>5. EvalClause(clauses[i]) \in BOOLEAN /\ (i \in clauseHits) \in BOOLEAN
    BY DEF EvalClause
  <2> QED
    BY <2>3, <2>4, <2>5
<1> QED
  BY <1>1, <1>2, <1>3, <1>4, <1>5, CaseStays, PTL DEF ScanSpec

================================================================================
