--------------------------- MODULE MCSelectorProgram ---------------------------
(* SelectorProgram for TLC: selectors of up to three nodes, with every way to  *)
(* connect them, and of four whose root is one connective, over two clauses.   *)
EXTENDS SelectorProgram

CONSTANTS a, b, all

MCClauses == {a, b}

\* A field of one child, for not, or of any.
One(i) == {{}} \cup {{j} : j \in 1..(i - 1)}
Any(i) == SUBSET (1..(i - 1))

Nodes(i, ors, clauses) ==
  {Node(or, not, c, and) : or \in ors, not \in One(i), c \in clauses, and \in Any(i)}

Leaf == Nodes(1, {{}}, {{}, {a}, {b}, {all}})
Second == Nodes(2, Any(2), {{}, {b}, {a, all}})
Third(clauses) == Nodes(3, {{}}, clauses) \cup {Node(or, {}, {}, {}) : or \in Any(3)}
Fourth == {Node({1, 3}, {}, {}, {}), Node({2, 3}, {1}, {}, {}), Node({}, {3}, {b}, {}), Node({}, {}, {}, {2, 3})}

MCSelectors ==
  {<<n>> : n \in Leaf}
  \cup {<<m, n>> : m \in Leaf, n \in Second}
  \cup {<<l, m, n>> : l \in Leaf, m \in Second, n \in Third({{}, {a}})}
  \cup {<<l, m, n, o>> : l \in Leaf, m \in Second, n \in Third({{}}), o \in Fourth}

================================================================================
