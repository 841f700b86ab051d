----------------------------- MODULE MCQueryStream -----------------------------
(* Model-checking instance of QueryStream: a family of requests that between *)
(* them use every option, over all inputs of a few tokens.                   *)
EXTENDS QueryStream

Default == [mode |-> "auto", includeJSON |-> TRUE, matchedOnly |-> FALSE,
            bestEffort |-> FALSE, selector |-> "compiled", plan |-> FALSE,
            onDecision |-> FALSE, onValue |-> TRUE,
            factory |-> FALSE, disableSpool |-> FALSE,
            maxCandidateBytes |-> 0, maxMatches |-> 0,
            maxCandidates |-> 0, maxBytesRead |-> 0]

Captures ==
  {[Default EXCEPT !.matchedOnly = m, !.bestEffort = b, !.selector = s,
                   !.onDecision = d, !.factory = d, !.disableSpool = m /\ d] :
     m \in BOOLEAN, b \in BOOLEAN, s \in {"empty", "compiled"}, d \in BOOLEAN}

Limited ==
  {[Default EXCEPT !.matchedOnly = m, !.mode = k, !.onDecision = (k = "decision"),
                   !.maxMatches = mm, !.maxCandidates = mc, !.maxBytesRead = mb] :
     m \in BOOLEAN, k \in {"decision", "plus"}, mm \in {0, 1, 2}, mc \in {0, 2}, mb \in {0, 4}}

Oversize == {[Default EXCEPT !.mode = k, !.onDecision = TRUE, !.maxCandidateBytes = 1] :
               k \in {"plus", "decision"}}

DecisionOnly == [Default EXCEPT !.onValue = FALSE, !.onDecision = TRUE]

Refused ==
  {[Default EXCEPT !.onValue = FALSE],
   [Default EXCEPT !.mode = "unknown"],
   [DecisionOnly EXCEPT !.mode = "plus"],
   [Default EXCEPT !.disableSpool = TRUE],
   [Default EXCEPT !.plan = TRUE],
   [Default EXCEPT !.selector = "invalid"]}

MCRequests ==
  Captures \cup Limited \cup Oversize \cup {DecisionOnly} \cup Refused
    \cup {[Default EXCEPT !.plan = TRUE, !.selector = "empty"]}

================================================================================
