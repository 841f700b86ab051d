------------------------------ MODULE ClauseMatch ------------------------------
(***************************************************************************)
(* Which clauses of a selector a document satisfies: on a decoded document *)
(* (the match functions of selector_eval.go), and in the stream, where a   *)
(* candidate is scanned value by value and each value is shown to the      *)
(* clauses that are not hit yet.  The scan has four forms.  The general    *)
(* one visits every value; single eq clauses on a literal path, or on      *)
(* "..." and a key, have shorter tests; and when all paths are keys of the *)
(* root, only its members are looked at.                                   *)
(*                                                                         *)
(* A scalar has a text, what valueToString makes of it.  Members have no   *)
(* order of their own: the scan takes them in any order.                   *)
(***************************************************************************)
EXTENDS StringMatch, PathMatch

CONSTANTS
  Cases,         \* records of doc, clauses, and bare: the selector is one Eq and nothing else
  DispatchLimit  \* bound: more clauses than this are dispatched by tail (4 in the code)

\* Two spellings of one instant, one of another; 0 for a text that is no literal.
ParseTemporalLiteral(text) ==
  CASE text \in {<<"D">>, <<"D", "b">>} -> 1 [] text = <<"E">> -> 2 [] OTHER -> 0

\* A document: with each place the one above it, an object or an array.  What
\* stands for a number or a bool is no temporal literal.
Steps  == [key : STRING] \cup [index : Nat]
Values == [kind : {"object", "array", "null"}] \cup [kind : {"string", "number", "bool"}, text : Seq(STRING)]

IsDocument(d) ==
  /\ <<>> \in DOMAIN d
  /\ \A q \in DOMAIN d :
       /\ q \in Seq(Steps) /\ d[q] \in Values
       /\ d[q].kind \in {"number", "bool"} => ParseTemporalLiteral(d[q].text) = 0
  /\ \A q \in DOMAIN d \ {<<>>} :
       /\ Front(q) \in DOMAIN d
       /\ d[Front(q)].kind = IF IsKey(Last(q)) THEN "object" ELSE "array"

\* A clause as the engine makes it: an omitted value is the empty needle.
ClauseType ==
  [kind : {"eq", "prefix", "contains", "in", "exists", "date", "range"}, path : Seq(STRING) \ {<<>>},
   any : SUBSET Seq(STRING), ignoreCase : BOOLEAN, existsOnly : BOOLEAN, temporal : BOOLEAN,
   accepts : SUBSET (Nat \ {0})]

IsClause(c) ==
  /\ c \in ClauseType /\ IsFiniteSet(c.any)
  /\ c.kind \in {"eq", "prefix"} => \E text \in c.any : c.any = {text}
  /\ c.kind = "contains" => c.any # {}
  /\ c.kind = "in" => ~c.ignoreCase
  /\ c.existsOnly => c.kind \in {"prefix", "contains"} /\ c.any = {<<>>}

ASSUME DispatchAssumption == DispatchLimit \in Nat
ASSUME CasesAssumption ==
  \A case \in Cases :
    /\ IsDocument(case.doc) /\ case.bare \in BOOLEAN
    /\ case.clauses \in Seq(ClauseType) /\ \A i \in DOMAIN case.clauses : IsClause(case.clauses[i])

VARIABLES
  request,    \* the case
  seen,       \* the places that have been scanned
  clauseHits, \* the clauses that are hit, by their number
  string      \* the string that is being matched, or NoString

scanVars == <<request, seen, clauseHits, string>>

doc     == request.doc
clauses == request.clauses
Ids     == DOMAIN clauses

NoString == [place |-> "none"]

--------------------------------------------------------------------------------
(* Values and clauses.                                                         *)

\* strconv.ParseFloat; 0 for an error.
ParseFloat(text) == CASE text = <<"1">> -> 1 [] text = <<"2">> -> 2 [] OTHER -> 0

HasText(v) == "text" \in DOMAIN v

\* valueToFloat
ValueToFloat(v) == IF v.kind \in {"number", "string"} /\ HasText(v) THEN ParseFloat(v.text) ELSE 0

IsTerm(c)   == c.kind \in {"eq", "prefix", "contains"}
IsIn(c)     == c.kind = "in"
IsExists(c) == c.kind = "exists"
IsDate(c)   == c.kind = "date"
IsRange(c)  == c.kind = "range"

\* A string is compared with it as a temporal literal (date, range with such bounds).
IsTemporal(c) == IsDate(c) \/ (IsRange(c) /\ c.temporal)

TheText(c) == CHOOSE n \in c.any : TRUE
HasTemporalEq(c) == c.kind = "eq" /\ ParseTemporalLiteral(TheText(c)) # 0

TemporalMatches(c, text) ==
  LET instant == ParseTemporalLiteral(text)
  IN  /\ instant # 0
      /\ IF c.kind = "eq" THEN instant = ParseTemporalLiteral(TheText(c)) ELSE instant \in c.accepts

\* What the match functions of selector_eval.go ask of a value.
EvalValue(c, v) ==
  CASE c.kind = "eq" ->
         HasText(v) /\ (v.text = TheText(c) \/ (HasTemporalEq(c) /\ TemporalMatches(c, v.text)))
    [] c.kind = "contains" ->
         c.existsOnly \/ (HasText(v) /\ \E n \in Needles(c) : HasSubstring(FoldCase(c, v.text), n))
    [] c.kind = "prefix" ->
         c.existsOnly \/ (HasText(v) /\ \E n \in Needles(c) : IsPrefix(n, FoldCase(c, v.text)))
    [] IsIn(c)       -> HasText(v) /\ v.text \in c.any
    [] IsExists(c)   -> v.kind # "null"
    [] IsTemporal(c) -> HasText(v) /\ TemporalMatches(c, v.text)
    [] OTHER         -> ValueToFloat(v) \in c.accepts

\* matchEq, matchContains, ..., matchExists
EvalClause(c) == \E place \in ValuesAtPath(doc, c.path) : EvalValue(c, doc[place])

--------------------------------------------------------------------------------
(* The forms of the scan (buildFastEqPath, buildFastTopLevelProgram).          *)

TopLevelLiteral(path) == Len(path) = 1 /\ IsLiteral(path[1]) /\ Atoi(path[1]) < 0

SimpleEq == request.bare /\ Len(clauses) = 1 /\ clauses[1].kind = "eq" /\ ~HasTemporalEq(clauses[1])

FastEq == SimpleEq /\ \A i \in DOMAIN clauses[1].path : IsLiteral(clauses[1].path[i])

FastRecursiveEq ==
  /\ SimpleEq
  /\ Len(clauses[1].path) = 2
  /\ clauses[1].path[1] = "..."
  /\ TopLevelLiteral(Tail(clauses[1].path))

FastTopLevelEq == FastEq /\ TopLevelLiteral(clauses[1].path)

FastTopLevel == ~FastTopLevelEq /\ \A i \in Ids : TopLevelLiteral(clauses[i].path)

\* They are for objects: any other root is scanned in the general way.
General == (~FastTopLevelEq /\ ~FastTopLevel) \/ doc[<<>>].kind # "object"

UseDispatch == Len(clauses) > DispatchLimit

--------------------------------------------------------------------------------
(* The general scan: what a value is shown to.                                 *)

Has(Is(_)) == \E i \in Ids : Is(clauses[i])
HasExistsLike == \E i \in Ids : IsTerm(clauses[i]) /\ clauses[i].existsOnly

\* The clauses still to be hit whose path leads to a place.
PathHits(place) ==
  {i \in Ids \ clauseHits :
     /\ IF UseDispatch THEN Dispatched(TailFilter(clauses[i].path), place)
        ELSE TailMatches(TailFilter(clauses[i].path), place)
     /\ PathMatches(clauses[i].path, place)}

\* The kinds of values that may decide a clause at all.
Observed(kind) ==
  CASE kind \in {"object", "array"} -> Has(IsExists) \/ HasExistsLike
    [] kind = "null" -> HasExistsLike
    [] kind = "bool" -> Has(IsTerm) \/ Has(IsIn) \/ Has(IsExists)
    [] OTHER         -> TRUE

\* streamTermClauseMatchesString
TermMatchesString(c, text) ==
  \/ c.existsOnly
  \/ CASE c.kind = "eq"     -> text = Needle(c) \/ (HasTemporalEq(c) /\ TemporalMatches(c, text))
       [] c.kind = "prefix" -> IsPrefix(Needle(c), text)
       [] OTHER -> IF HasAutomaton(c) THEN FinalMatch(c, FeedBytes(c, StartMatcher(c), text))
                   ELSE HasSubstring(text, Needle(c))

\* What observe asks of a value; a string comes without its text.
ObserveValue(c, v) ==
  CASE IsTerm(c)     -> c.existsOnly \/ (HasText(v) /\ TermMatchesString(c, FoldCase(c, v.text)))
    [] IsIn(c)       -> HasText(v) /\ v.text \in c.any
    [] IsExists(c)   -> TRUE
    [] IsTemporal(c) -> HasText(v) /\ TemporalMatches(c, v.text)
    [] OTHER         -> ValueToFloat(v) \in c.accepts

\* The test of a single eq clause.
FastEqMatches(v) == HasText(v) /\ FoldCase(clauses[1], v.text) = Needle(clauses[1])

FastPathHits(place) ==
  IF FastEq THEN LiteralPathMatches(clauses[1].path, place)
  ELSE TailMatches(TailFilter(clauses[1].path), place)

\* Mutant: a clause that is hit is tested again, and may lose its hit.
ObserveAgain(place, v) ==
  LET again == {i \in Ids : PathMatches(clauses[i].path, place)}
  IN  IF ~Observed(v.kind) THEN clauseHits
      ELSE (clauseHits \ again) \cup {i \in again : ObserveValue(clauses[i], v)}

\* observe: the hits after a value.
HitsAfter(place, v) ==
  IF FastEq \/ FastRecursiveEq
  THEN clauseHits \cup {i \in Ids : FastPathHits(place) /\ FastEqMatches(v)}
  ELSE IF ~Observed(v.kind) THEN clauseHits
  ELSE clauseHits \cup {i \in PathHits(place) : ObserveValue(clauses[i], v)}

\* Mutant: a clause about instants does not ask for the string.
StringValueNeededTerms(place) == \E i \in PathHits(place) : IsTerm(clauses[i]) \/ IsIn(clauses[i])

StringValueNeeded(place) ==
  IF FastEq \/ FastRecursiveEq THEN clauseHits = {} /\ FastPathHits(place)
  ELSE \E i \in PathHits(place) :
         \/ IsTerm(clauses[i]) /\ ~clauses[i].existsOnly
         \/ IsIn(clauses[i]) \/ IsTemporal(clauses[i])

--------------------------------------------------------------------------------
(* A string that is matched while it is read (streamMatchStringClauses).       *)

\* chosen: the clauses it is shown to; exists: those hit by it anyway.
StartString(place, chosen, exists) ==
  LET terms == {i \in chosen : IsTerm(clauses[i])}
      ins   == {i \in chosen : IsIn(clauses[i])}
      others == chosen \ (terms \cup ins)
      plain(i) == ~HasTemporalEq(clauses[i])
  IN  [place    |-> place,
       rest     |-> doc[place].text,
       chosen   |-> chosen,
       exists   |-> exists,
       single   |-> others = {} /\ Cardinality(chosen) = 1 /\ \A i \in terms : plain(i),
       matchers |-> [i \in terms \cup ins |-> StartMatcher(clauses[i])]]

\* A run of plain bytes in the reader's buffer, or one escape or rune.
FeedString ==
  /\ string # NoString
  /\ \E n \in 1..Len(string.rest) :
       LET segment == SubSeq(string.rest, 1, n)
           Feed(i) == IF string.single THEN FeedSegment(clauses[i], string.matchers[i], segment)
                      ELSE FeedBytes(clauses[i], string.matchers[i], segment)
       IN  string' = [string EXCEPT !.rest = SubSeq(@, n + 1, Len(@)),
                                    !.matchers = [i \in DOMAIN @ |-> Feed(i)]]
  /\ UNCHANGED <<request, seen, clauseHits>>

\* The closing quote; applyTemporalStringClauseMatches has the decoded string.
EndString ==
  /\ string # NoString /\ string.rest = <<>>
  /\ LET text     == doc[string.place].text
         finals   == {i \in DOMAIN string.matchers : FinalMatch(clauses[i], string.matchers[i])}
         temporal == {i \in string.chosen : /\ IsTemporal(clauses[i]) \/ HasTemporalEq(clauses[i])
                                            /\ TemporalMatches(clauses[i], text)}
     IN  clauseHits' = clauseHits \cup finals \cup temporal \cup string.exists
  /\ string' = NoString
  /\ UNCHANGED <<request, seen>>

--------------------------------------------------------------------------------
(* scanValue, scanObject and scanArray.                                        *)

Children(place) == {q \in DOMAIN doc \ {<<>>} : Front(q) = place}

\* The places the scan may come to next: below the deepest value that is not
\* finished, the elements of an array in their order.
NextPlaces ==
  IF seen = {} THEN {<<>>}
  ELSE {q \in DOMAIN doc \ seen :
          /\ Front(q) \in seen
          /\ \A r \in DOMAIN doc \ seen : Front(r) \in seen => Len(r) <= Len(q)
          /\ IsKey(Last(q)) \/ \A r \in Children(Front(q)) \ seen : Last(q).index <= Last(r).index}

ScanValue ==
  /\ General /\ string = NoString
  /\ \E place \in NextPlaces :
       /\ doc[place].kind # "string"
       /\ seen' = seen \cup {place}
       /\ clauseHits' = HitsAfter(place, doc[place])
  /\ UNCHANGED <<request, string>>

\* collectStringPathClauseSets, for a string that is needed.
ScanString ==
  /\ General /\ string = NoString
  /\ \E place \in NextPlaces :
       LET clauseSet == PathHits(place)
           exists    == {i \in clauseSet : IsExists(clauses[i])}
           chosen    == {i \in clauseSet : IsTerm(clauses[i]) \/ IsIn(clauses[i]) \/ IsTemporal(clauses[i])}
       IN  /\ doc[place].kind = "string"
           /\ seen' = seen \cup {place}
           /\ IF StringValueNeeded(place) /\ chosen # {}
              THEN string' = StartString(place, chosen, exists) /\ UNCHANGED clauseHits
              ELSE clauseHits' = HitsAfter(place, [kind |-> "string"]) /\ UNCHANGED string
  /\ UNCHANGED request

\* scanObjectFastTopLevelEq and scanObjectFastTopLevel begin at the root, which
\* no clause can be about.
ScanRootFast ==
  /\ ~General /\ seen = {}
  /\ seen' = {<<>>}
  /\ UNCHANGED <<request, clauseHits, string>>

\* copyValue and skipValue read all that is below a value and show it to nobody.
Below(place) == {q \in DOMAIN doc : IsPrefix(place, q)}

\* A member of the root.
ScanMember(place) ==
  /\ string = NoString /\ seen # {} /\ place \in NextPlaces
  /\ seen' = seen \cup Below(place)
  /\ UNCHANGED request

\* fastTopLevelEqValueMatches; a string without escapes that is wholly in the
\* buffer is compared there.
ScanMemberFastEq ==
  /\ ~General /\ FastTopLevelEq
  /\ \E place \in NextPlaces :
       LET v    == doc[place]
           about == clauseHits = {} /\ place[1].key = clauses[1].path[1]
       IN  /\ ScanMember(place)
           /\ \/ /\ about /\ v.kind = "string"
                 /\ string' = StartString(place, {1}, {})
                 /\ UNCHANGED clauseHits
              \/ /\ about => v.kind # "string" \/ ~clauses[1].ignoreCase
                 /\ clauseHits' = IF about /\ FastEqMatches(v) THEN {1} ELSE clauseHits
                 /\ UNCHANGED string

\* fastTopLevelFieldHasPending: the clauses about a member that are not hit.
FieldPending(key) == {i \in Ids \ clauseHits : clauses[i].path[1] = key}

\* fastTopLevelMatchTerms, -In and -Range, for a literal or a number.
FieldMatches(c, v) ==
  CASE IsTerm(c) -> TermMatchesString(c, FoldCase(c, v.text))
    [] IsIn(c)   -> v.text \in c.any
    [] IsRange(c) /\ ~c.temporal -> v.kind = "number" /\ ParseFloat(v.text) \in c.accepts
    [] OTHER     -> FALSE

\* fastTopLevelObserveValue, when something is pending.
ScanMemberFast ==
  /\ ~General /\ FastTopLevel
  /\ \E place \in NextPlaces :
       LET v        == doc[place]
           pending  == FieldPending(place[1].key)
           asserted == {i \in pending : IsTerm(clauses[i]) /\ clauses[i].existsOnly}
           exists   == {i \in pending : IsExists(clauses[i])}
           chosen   == pending \ (exists \cup asserted)
       IN  /\ ScanMember(place)
           /\ IF v.kind = "string" /\ chosen # {}
              THEN /\ string' = StartString(place, chosen, exists)
                   /\ clauseHits' = clauseHits \cup asserted
              ELSE /\ clauseHits' = clauseHits \cup asserted
                              \cup (IF v.kind = "null" THEN {} ELSE exists)
                              \cup {i \in chosen : v.kind \in {"bool", "number"} /\ FieldMatches(clauses[i], v)}
                   /\ UNCHANGED string

Finished == string = NoString /\ seen = DOMAIN doc

\* The candidate has been scanned.
Judged == Finished /\ UNCHANGED scanVars

ScanInit == request \in Cases /\ seen = {} /\ clauseHits = {} /\ string = NoString

ScanNext ==
  \/ ScanValue \/ ScanString \/ FeedString \/ EndString
  \/ ScanRootFast \/ ScanMemberFastEq \/ ScanMemberFast
  \/ Judged

ScanSpec == ScanInit /\ [][ScanNext]_scanVars

--------------------------------------------------------------------------------

\* Where the two engines are known to differ: a string that is a number, in a
\* range; a null at the end of a path, for exists next to a clause with an
\* omitted value, and for such a clause with "..." at its end; an empty text, for
\* several needles of which one is empty (the automaton accepts at a byte); a text
\* that only folding makes the one of an eq with ignoreCase (JSON and the public
\* Term allow it; addTermClause folds it, matchEq does not).
Differs(c) ==
  LET nulls == {q \in DOMAIN doc : doc[q].kind = "null"}
  IN  \/ /\ IsRange(c) /\ ~c.temporal
         /\ \E q \in DOMAIN doc : doc[q].kind = "string" /\ ValueToFloat(doc[q]) # 0
      \/ nulls # {} /\ IsExists(c) /\ HasExistsLike /\ General
      \/ nulls # {} /\ Last(c.path) = "..." /\ IsTerm(c) /\ c.existsOnly
      \/ HasAutomaton(c) /\ <<>> \in c.any /\ \E q \in DOMAIN doc : HasText(doc[q]) /\ doc[q].text = <<>>
      \/ /\ c.kind = "eq" /\ c.ignoreCase
         /\ \E q \in DOMAIN doc : /\ HasText(doc[q]) /\ doc[q].text # TheText(c)
                                 /\ FoldCase(c, doc[q].text) = Needle(c)

\* When the candidate has been scanned, the stream has hit the clauses that the
\* evaluator finds satisfied on the decoded document: in each of the four forms
\* of the scan, with or without the dispatch index, for strings matched by one
\* matcher or several, and although strings nobody asks for are skipped.
AgreesWithEvaluator ==
  Finished => \A i \in Ids : ~Differs(clauses[i]) => (i \in clauseHits) = EvalClause(clauses[i])

\* A hit is never withdrawn while its candidate is scanned.  The pruning of
\* captures (canStillMatchObjectRoot) takes a hit as final.
HitsStay == [][clauseHits \subseteq clauseHits']_scanVars

\* For the value the scan comes to next, all tests of a path (by its tail, by
\* the dispatch index, by the matcher chosen for its form, by the fast forms) say
\* what the evaluator says, which goes down from the root.
PathsAgree ==
  \A place \in NextPlaces, i \in Ids :
    LET path    == clauses[i].path
        reached == place \in ValuesAtPath(doc, path)
        matched == PathMatches(path, place)
        tail    == TailFilter(path)
    IN  /\ reached => matched /\ TailMatches(tail, place)
        /\ matched /\ doc[place].kind # "null" => reached
        /\ Dispatched(tail, place) = TailMatches(tail, place)
        /\ FastEq \/ FastRecursiveEq => FastPathHits(place) = matched

\* The longest of a set of texts.
Longest(texts) == CHOOSE t \in texts : \A u \in texts : Len(u) <= Len(t)

\* What a matcher knows after read: what the bytes so far decide, and where its
\* needles may have begun.
Knows(c, m, read) ==
  LET begun == {t \in Trie(Needles(c)) : IsSuffix(t, read)}
  IN  CASE c.kind = "eq"     -> m.over = ~IsPrefix(read, Needle(c)) /\ (m.over \/ m.pos = Len(read))
        [] c.kind = "prefix" -> m.matched = IsPrefix(Needle(c), read)
        [] IsIn(c)           -> m.alive = {v \in c.any : IsPrefix(read, v)} /\ m.pos = Len(read)
        [] OTHER ->
             /\ m.matched = ((HasAutomaton(c) => read # <<>>) /\ \E n \in Needles(c) : HasSubstring(read, n))
             /\ m.matched \/ IF HasAutomaton(c) THEN m.state = Longest(begun)
                             ELSE SubSeq(Needle(c), 1, m.pos) = Longest(begun)

\* While a string is read, in whatever runs, each matcher knows exactly that.
MatchersFollow ==
  string # NoString =>
    LET all  == doc[string.place].text
        read == SubSeq(all, 1, Len(all) - Len(string.rest))
    IN  \A i \in DOMAIN string.matchers : Knows(clauses[i], string.matchers[i], FoldCase(clauses[i], read))

================================================================================
