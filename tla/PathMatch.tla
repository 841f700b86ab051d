------------------------------- MODULE PathMatch -------------------------------
(***************************************************************************)
(* The path of a clause against the places of a document: on a decoded     *)
(* document (valuesAtPath), and in the stream, where one place after the   *)
(* other is compared with the paths of all clauses.                        *)
(*                                                                         *)
(* A document is a function from places to values, with all places above   *)
(* each; a place is a sequence of keys and indexes.  The path of a clause  *)
(* is a sequence of segments; it is compiled to tokens one by one.         *)
(***************************************************************************)
EXTENDS Integers, Sequences, FiniteSets, SequencesExt

Key(name)   == [key |-> name]
Elem(index) == [index |-> index]
IsKey(step) == DOMAIN step = {"key"}

Wildcards == {"*", "[]", "**", "..."}

\* strconv.Atoi of a segment, for the numbers there are; -1 is an error.
Atoi(segment) == CASE segment = "0" -> 0 [] segment = "1" -> 1 [] OTHER -> -1

--------------------------------------------------------------------------------
(* On a decoded document.                                                      *)

\* The child of value v at step, for a segment other than "...".
Selects(segment, v, step) ==
  CASE segment = "*"  -> v.kind = "object"
    [] segment = "[]" -> v.kind = "array"
    [] segment = "**" -> TRUE
    [] v.kind = "object" -> step.key = segment
    [] OTHER          -> step.index = Atoi(segment)

\* A null has no descendants, not even itself.
CollectDescendants(doc, place) ==
  {q \in DOMAIN doc : doc[place].kind # "null" /\ IsPrefix(place, q)}

ValuesAtPath(doc, path) ==
  LET Below(places, segment) ==
        IF segment = "..." THEN UNION {CollectDescendants(doc, p) : p \in places}
        ELSE {q \in DOMAIN doc \ {<<>>} : /\ Front(q) \in places
                                          /\ Selects(segment, doc[Front(q)], Last(q))}
      reached[n \in 0..Len(path)] == IF n = 0 THEN {<<>>} ELSE Below(reached[n - 1], path[n])
  IN  reached[Len(path)]

--------------------------------------------------------------------------------
(* In the stream.                                                              *)

IsLiteral(token) == token \notin Wildcards

\* streamPathTokenMatchesSegment
TokenMatches(token, step) ==
  CASE token = "*"   -> IsKey(step)
    [] token = "[]"  -> ~IsKey(step)
    [] token = "**"  -> TRUE
    [] token = "..." -> FALSE
    [] IsKey(step)   -> step.key = token
    [] OTHER         -> Atoi(token) >= 0 /\ step.index = Atoi(token)

\* streamPathMatchesLinear
MatchesLinear(pattern, place) ==
  Len(pattern) = Len(place) /\ \A i \in DOMAIN pattern : TokenMatches(pattern[i], place[i])

\* streamLiteralPathMatches
LiteralPathMatches(pattern, place) ==
  /\ Len(pattern) = Len(place)
  /\ \A i \in DOMAIN pattern :
       /\ IsLiteral(pattern[i])
       /\ IF IsKey(place[i]) THEN place[i].key = pattern[i]
          ELSE Atoi(pattern[i]) >= 0 /\ place[i].index = Atoi(pattern[i])

\* Mutant: the tokens before and after "..." may match the same steps.
MatchesSingleRecursiveOverlap(pattern, place, r) ==
  LET right == Len(pattern) - r
      start == Len(place) - right
  IN  /\ \A i \in 1..r - 1 : i <= Len(place) /\ TokenMatches(pattern[i], place[i])
      /\ r < Len(pattern) => /\ start >= 0
                             /\ \A i \in 1..right : TokenMatches(pattern[r + i], place[start + i])

\* streamPathMatchesSingleRecursive: the only "..." is token r.
MatchesSingleRecursive(pattern, place, r) ==
  LET right == Len(pattern) - r
      start == Len(place) - right
  IN  /\ \A i \in 1..r - 1 : i <= Len(place) /\ TokenMatches(pattern[i], place[i])
      /\ r < Len(pattern) => /\ start >= r - 1
                             /\ \A i \in 1..right : TokenMatches(pattern[r + i], place[start + i])

\* streamPathMatchesRecursiveMemo: match[i], the steps from where tokens i.. match.
MatchesRecursiveMemo(pattern, place) ==
  LET match[i \in 1..Len(pattern) + 1] ==
        IF i > Len(pattern) THEN {Len(place) + 1}
        ELSE IF pattern[i] = "..."
             THEN {j \in 1..Len(place) + 1 : i = Len(pattern) \/ \E k \in j..Len(place) + 1 : k \in match[i + 1]}
        ELSE {j \in 1..Len(place) : TokenMatches(pattern[i], place[j]) /\ j + 1 \in match[i + 1]}
  IN  1 \in match[1]

\* streamPathMatchesKnownRecursive, by what streamPatternRecursiveInfo found.
PathMatches(pattern, place) ==
  LET recursive == {i \in DOMAIN pattern : pattern[i] = "..."}
  IN  CASE recursive = {} -> MatchesLinear(pattern, place)
        [] Cardinality(recursive) = 1 ->
             MatchesSingleRecursive(pattern, place, CHOOSE i \in recursive : TRUE)
        [] OTHER -> MatchesRecursiveMemo(pattern, place)

\* streamPatternTailFilter: what the last step must be, whatever comes before.
TailFilter(pattern) ==
  CASE ~IsLiteral(Last(pattern))    -> [kind |-> "none"]
    [] Atoi(Last(pattern)) >= 0     -> [kind |-> "numeric", key |-> Last(pattern), index |-> Atoi(Last(pattern))]
    [] OTHER                        -> [kind |-> "key", key |-> Last(pattern)]

\* streamPathTailMatches
TailMatches(tail, place) ==
  \/ tail.kind = "none"
  \/ /\ place # <<>>
     /\ IF IsKey(Last(place)) THEN Last(place).key = tail.key
        ELSE tail.kind = "numeric" /\ Last(place).index = tail.index

--------------------------------------------------------------------------------
(* The dispatch index: clauses by the last token of their paths.               *)

\* streamClauseDispatchIndex.add: the lists that a clause is entered in.
DispatchTails(tail) ==
  CASE tail.kind = "none"    -> {}
    [] tail.kind = "numeric" -> {Key(tail.key), Elem(tail.index)}
    [] OTHER                 -> {Key(tail.key)}

\* candidates: the lists for a place.
Dispatched(tail, place) ==
  \/ tail.kind = "none"
  \/ place # <<>> /\ Last(place) \in DispatchTails(tail)

================================================================================
