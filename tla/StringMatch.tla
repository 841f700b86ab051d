------------------------------ MODULE StringMatch ------------------------------
(***************************************************************************)
(* The matchers that look for the needles of a clause in a JSON string     *)
(* while the string is being read, without keeping it: one state per       *)
(* clause, fed byte by byte (streamStringTermMatcher, streamStringIn-      *)
(* Matcher), or, when only one clause is left at this place of the         *)
(* document, run by run of plain bytes (streamMatchSingleTermClause,       *)
(* streamMatchSingleInClause).                                             *)
(*                                                                         *)
(* A text is a sequence of characters; "A" is the one that has a lower     *)
(* case.  A clause has a kind, a set of texts any, and ignoreCase.         *)
(***************************************************************************)
EXTENDS Integers, Sequences, FiniteSets, SequencesExt

LowerChar(ch) == IF ch = "A" THEN "a" ELSE ch
Lower(text) == [i \in DOMAIN text |-> LowerChar(text[i])]
FoldCase(clause, text) == IF clause.ignoreCase THEN Lower(text) ELSE text

\* The needles of a clause as addTermClause and addInClause normalize them.
Needles(clause) == {FoldCase(clause, n) : n \in clause.any}
Needle(clause) == CHOOSE n \in Needles(clause) : TRUE
HasAutomaton(clause) == clause.kind = "contains" /\ Cardinality(Needles(clause)) > 1

\* strings.Contains
HasSubstring(text, needle) ==
  \E i \in 0..Len(text) : IsPrefix(needle, SubSeq(text, i + 1, Len(text)))

--------------------------------------------------------------------------------
(* One needle: Knuth, Morris and Pratt.                                        *)

\* buildKMPPrefixTable
KMPPrefixTable(pattern) ==
  LET lps[i \in 1..Len(pattern)] ==
        LET extend[length \in 0..i - 1] ==
              IF pattern[i] = pattern[length + 1] THEN length + 1
              ELSE IF length = 0 THEN 0 ELSE extend[lps[length]]
        IN  IF i = 1 THEN 0 ELSE extend[lps[i - 1]]
  IN  lps

\* The loop that falls back, and one byte more.
KMPNext(needle, pos, b) ==
  LET lps == KMPPrefixTable(needle)
      next[p \in 0..Len(needle) - 1] ==
        IF b = needle[p + 1] THEN p + 1 ELSE IF p = 0 THEN 0 ELSE next[lps[p]]
  IN  next[pos]

--------------------------------------------------------------------------------
(* Several needles: the automaton of Aho and Corasick.  A state is the text    *)
(* that leads to it from the root.                                             *)

Trie(needles) == UNION {Prefixes(n) : n \in needles}

Alphabet(needles) == UNION {Range(n) : n \in needles}

\* fail and next of a state, found in the order of their length.
Automaton(needles) ==
  LET trie == Trie(needles)
      node[s \in trie] ==
        LET fail == IF Len(s) <= 1 THEN <<>> ELSE node[Front(s)].back[Last(s)]
            Through(b) == IF s = <<>> THEN <<>> ELSE node[fail].next[b]
        IN  [fail |-> fail,
             back |-> [b \in Alphabet(needles) |-> Through(b)],
             next |-> [b \in Alphabet(needles) |->
                         IF Append(s, b) \in trie THEN Append(s, b) ELSE Through(b)]]
  IN  node

\* advance: the next state and whether it accepts.
Advance(needles, state, b) ==
  LET node  == Automaton(needles)
      after == IF b \in Alphabet(needles) THEN node[state].next[b] ELSE <<>>
      accept[s \in Trie(needles)] == s \in needles \/ (s # <<>> /\ accept[node[s].fail])
  IN  [state |-> after, accept |-> accept[after]]

--------------------------------------------------------------------------------
(* The state of a matcher.  over is eqMismatch or prefixDone.                  *)

StartMatcher(clause) ==
  LET always == clause.kind \in {"contains", "prefix"} /\ Needles(clause) = {<<>>}
  IN  [pos |-> 0, over |-> always, matched |-> always, state |-> <<>>, alive |-> Needles(clause)]

FeedEq(needle, m, b) ==
  IF m.over THEN m
  ELSE IF m.pos < Len(needle) /\ needle[m.pos + 1] = b THEN [m EXCEPT !.pos = @ + 1]
  ELSE [m EXCEPT !.over = TRUE]

FeedPrefix(needle, m, b) ==
  IF m.over THEN m
  ELSE IF m.pos < Len(needle) /\ needle[m.pos + 1] = b
       THEN [m EXCEPT !.pos = @ + 1, !.matched = (m.pos + 1 = Len(needle)), !.over = (m.pos + 1 = Len(needle))]
  ELSE [m EXCEPT !.over = TRUE]

FeedContains(clause, m, b) ==
  LET needle == Needle(clause)
      pos    == KMPNext(needle, m.pos, b)
      next   == Advance(Needles(clause), m.state, b)
  IN  IF m.matched THEN m
      ELSE IF HasAutomaton(clause) THEN [m EXCEPT !.state = next.state, !.matched = next.accept]
      ELSE IF needle = <<>> THEN m
      ELSE IF pos = Len(needle)
           THEN [m EXCEPT !.pos = KMPPrefixTable(needle)[pos], !.matched = TRUE]
      ELSE [m EXCEPT !.pos = pos]

FeedIn(m, b) ==
  [m EXCEPT !.pos = @ + 1, !.alive = {v \in @ : m.pos < Len(v) /\ v[m.pos + 1] = b}]

\* streamMatchFeedASCIIByte for one clause: the case is folded here.
FeedByte(clause, m, raw) ==
  LET b == IF clause.ignoreCase THEN LowerChar(raw) ELSE raw
  IN  CASE clause.kind = "eq"       -> FeedEq(Needle(clause), m, b)
        [] clause.kind = "prefix"   -> FeedPrefix(Needle(clause), m, b)
        [] clause.kind = "contains" -> FeedContains(clause, m, b)
        [] clause.kind = "in"       -> FeedIn(m, raw)

FeedBytes(clause, m, segment) ==
  LET fed[n \in 0..Len(segment)] == IF n = 0 THEN m ELSE FeedByte(clause, fed[n - 1], segment[n])
  IN  fed[Len(segment)]

--------------------------------------------------------------------------------
(* The matcher of a single clause takes a run of bytes at once.                *)

\* The part of value that the run is compared with.
Expected(value, m, segment) == SubSeq(value, m.pos + 1, m.pos + Len(segment))

SegmentEq(needle, m, segment) ==
  LET rem == Len(needle) - m.pos
  IN  IF m.over THEN m
      ELSE IF Len(segment) > rem \/ segment # Expected(needle, m, segment)
           THEN [m EXCEPT !.over = TRUE]
      ELSE [m EXCEPT !.pos = @ + Len(segment)]

SegmentPrefix(needle, m, segment) ==
  LET rem == Len(needle) - m.pos
  IN  IF m.over THEN m
      ELSE IF Len(segment) >= rem
           THEN [m EXCEPT !.over = TRUE,
                          !.matched = (SubSeq(segment, 1, rem) = SubSeq(needle, m.pos + 1, Len(needle)))]
      ELSE IF segment # Expected(needle, m, segment) THEN [m EXCEPT !.over = TRUE]
      ELSE [m EXCEPT !.pos = @ + Len(segment)]

\* Mutant: only the last byte of a run can begin the needle.
SegmentContainsShort(clause, m, segment) ==
  IF m.matched \/ HasAutomaton(clause) \/ m.pos > 0 THEN FeedBytes(clause, m, segment)
  ELSE IF HasSubstring(FoldCase(clause, segment), Needle(clause)) THEN [m EXCEPT !.matched = TRUE]
  ELSE FeedBytes(clause, m, SubSeq(segment, Len(segment), Len(segment)))

\* A run is searched as a whole when nothing of the needle has been seen; only
\* its tail, shorter than the needle, is then fed byte by byte.
SegmentContains(clause, m, segment) ==
  LET needle == Needle(clause)
      start  == IF Len(segment) < Len(needle) THEN 1 ELSE Len(segment) - (Len(needle) - 2)
  IN  IF m.matched \/ HasAutomaton(clause) \/ m.pos > 0 THEN FeedBytes(clause, m, segment)
      ELSE IF HasSubstring(FoldCase(clause, segment), needle) THEN [m EXCEPT !.matched = TRUE]
      ELSE FeedBytes(clause, m, SubSeq(segment, start, Len(segment)))

SegmentIn(m, segment) ==
  [m EXCEPT !.pos = @ + Len(segment),
            !.alive = {v \in @ : /\ Len(segment) <= Len(v) - m.pos
                                 /\ segment = Expected(v, m, segment)}]

FeedSegment(clause, m, segment) ==
  CASE clause.kind = "in"       -> SegmentIn(m, segment)
    [] clause.kind = "contains" -> SegmentContains(clause, m, segment)
    [] clause.kind = "eq"       -> IF clause.ignoreCase THEN FeedBytes(clause, m, segment)
                                   ELSE SegmentEq(Needle(clause), m, segment)
    [] clause.kind = "prefix"   -> IF clause.ignoreCase THEN FeedBytes(clause, m, segment)
                                   ELSE SegmentPrefix(Needle(clause), m, segment)

\* finalMatch, at the closing quote.
FinalMatch(clause, m) ==
  CASE clause.kind = "eq" -> ~m.over /\ m.pos = Len(Needle(clause))
    [] clause.kind = "in" -> \E v \in m.alive : Len(v) = m.pos
    [] OTHER              -> m.matched

================================================================================
