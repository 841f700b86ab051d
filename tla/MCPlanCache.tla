------------------------------ MODULE MCPlanCache ------------------------------
(* PlanCache for TLC.  Three selectors are equal: two mean different things (a *)
(* value that is omitted, and an empty one), and two have different hashes     *)
(* (bounds 0 and -0).  One is not equal to itself (a NaN bound), and three     *)
(* have date terms: two relative dates and one that does not compile.          *)
EXTENDS PlanCache, TLC

CONSTANTS c1, c2, s1, s2, o1, o2

MCCalls   == {c1, c2}
MCStates  == {s1, s2}
MCObjects == {o1, o2}

MCSelectors == {"omitted", "empty", "minusZero", "nan", "today", "yesterday", "bad"}
MCInvalid   == {"bad"}
MCDate == [s \in MCSelectors |->
             CASE s = "today" -> 1 [] s = "yesterday" -> 2 [] s = "bad" -> 3 [] OTHER -> 0]
MCRelative == {1, 2}
MCBadDates == {3}
MCMeans == [s \in MCSelectors |->
              CASE s = "omitted" -> 1 [] s \in {"empty", "minusZero"} -> 2 [] s = "nan" -> 3 [] OTHER -> 0]
MCHash == [s \in MCSelectors |-> CASE s = "minusZero" -> 2 [] s = "nan" -> 3 [] OTHER -> 1]
MCSame == {<<s, s>> : s \in MCSelectors \ {"nan"}}
          \cup {"omitted", "empty", "minusZero"} \X {"omitted", "empty", "minusZero"}

Symmetry == Permutations(MCCalls) \cup Permutations(MCStates) \cup Permutations(MCObjects)

================================================================================
