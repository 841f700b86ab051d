----------------------------- MODULE MCClauseMatch -----------------------------
(* ClauseMatch for TLC: documents of many shapes with every kind of path, and  *)
(* strings of every shape with every kind of needle.                           *)
EXTENDS ClauseMatch

Scalar(kind, text) == <<>> :> [kind |-> kind, text |-> text]
Str(text) == Scalar("string", text)
One    == Scalar("number", <<"1">>)
True   == Scalar("bool", <<"t">>)
Null   == <<>> :> [kind |-> "null"]
Date   == Str(<<"D", "b">>)

\* A container: a document for each step.
Nest(kind, kids) ==
  LET places == UNION {{<<s>> \o p : p \in DOMAIN kids[s]} : s \in DOMAIN kids}
  IN  [q \in places \cup {<<>>} |-> IF q = <<>> THEN [kind |-> kind] ELSE kids[Head(q)][Tail(q)]]

Obj(name, kid)  == Nest("object", Key(name) :> kid)
Two(kid1, kid2) == Nest("object", Key("a") :> kid1 @@ Key("b") :> kid2)
Arr(kid1, kid2) == Nest("array", Elem(0) :> kid1 @@ Elem(1) :> kid2)
EmptyObj == Nest("object", <<>>)

A == Str(<<"a">>)
Leaves == {A, Str(<<"1">>), One, True, Null, Date}

MCDocuments ==
  {EmptyObj, A, Null, Arr(A, One)}
  \cup {Obj("a", v) : v \in Leaves \cup {EmptyObj}}
  \cup {Two(v, w) : v \in {A, Null}, w \in {One, Date}}
  \cup {Obj("a", Obj("b", v)) : v \in Leaves}
  \cup {Obj("a", Two(A, v)) : v \in {Null, One}}
  \cup {Obj("a", Arr(v, w)) : v \in {A, Null}, w \in {One, Str(<<"b">>)}}
  \cup {Obj("a", Arr(Obj("b", One), Obj("b", A))), Obj("0", A), Obj("a", Obj("0", Date))}
  \cup {Obj("a", Obj("a", Obj("b", A))), Obj("b", Obj("a", Obj("a", One)))}

--------------------------------------------------------------------------------

Clause(kind, path, any) ==
  [kind |-> kind, path |-> path, any |-> any, ignoreCase |-> FALSE, existsOnly |-> FALSE,
   temporal |-> FALSE, accepts |-> {}]

Eq(path, text)       == Clause("eq", path, {text})
Contains1(path, any) == Clause("contains", path, any)
Prefix1(path, text)  == Clause("prefix", path, {text})
In(path, any)        == Clause("in", path, any)
Exists(path)         == Clause("exists", path, {})
Valueless(path)      == [Clause("prefix", path, {<<>>}) EXCEPT !.existsOnly = TRUE]
Range1(path)         == [Clause("range", path, {}) EXCEPT !.accepts = {1}]
Since(path)          == [Clause("range", path, {}) EXCEPT !.accepts = {1}, !.temporal = TRUE]
On(path)             == [Clause("date", path, {}) EXCEPT !.accepts = {1}]
NoCase(clause)       == [clause EXCEPT !.ignoreCase = TRUE]

Paths ==
  {<<"a">>, <<"b">>, <<"a", "b">>, <<"a", "0">>, <<"0">>, <<"*">>, <<"a", "[]">>, <<"**", "b">>,
   <<"...">>, <<"...", "b">>, <<"...", "0">>, <<"a", "...">>, <<"a", "...", "b">>,
   <<"a", "[]", "b">>, <<"...", "a", "...", "b">>, <<"...", "a", "a", "b">>, <<"a", "...", "a", "b">>}

\* One clause of each kind for a path, and more clauses than DispatchLimit.
Alone(path) ==
  {<<c>> : c \in {Eq(path, <<"a">>), Eq(path, <<"D">>), Eq(path, <<"1">>), In(path, {<<"a">>, <<"t">>}),
                  Exists(path), Range1(path), Since(path), On(path), NoCase(Prefix1(path, <<"A">>))}}

Several(path1, path2) ==
  {<<Eq(path1, <<"a">>), Exists(path2), Range1(path1), On(path2)>>,
   <<Exists(path1), Prefix1(path2, <<"b">>)>>}

\* Clauses with an omitted value; the simplifier takes them away where any value
\* of the root will do.
Asserting(path1, path2) ==
  {<<Valueless(path2)>>, <<Exists(path1), Valueless(path2)>>,
   <<In(path1, {<<"a">>}), Valueless(path2), Since(path1)>>}

PathCases ==
  [doc : MCDocuments, clauses : UNION {Alone(p) : p \in Paths}, bare : {FALSE}]
  \cup [doc : MCDocuments, clauses : {<<Eq(p, t)>> : p \in Paths, t \in {<<"a">>, <<"D">>, <<"1">>, <<"t">>}}, bare : {TRUE}]
  \cup [doc : MCDocuments, clauses : UNION {Several(p, q) : p, q \in Paths}, bare : {FALSE}]
  \cup [doc : MCDocuments, bare : {FALSE},
         clauses : UNION {Asserting(p, q) : p \in Paths, q \in Paths \ {<<"*">>, <<"...">>}}]

--------------------------------------------------------------------------------

Texts == SeqOf({"a", "b"}, 4)
Long  == {t \in SeqOf({"a", "b"}, 7) : Len(t) = 7}

\* One string, at a top-level key or deeper.
Holding(text) == {Obj("a", Str(text)), Obj("a", Obj("b", Str(text)))}

Looking(path) ==
  {<<Contains1(path, {n})>> : n \in {<<"a">>, <<"a", "b">>, <<"a", "a">>, <<"a", "b", "a">>}}
  \cup {<<NoCase(Contains1(path, {<<"A", "b">>}))>>, <<NoCase(Prefix1(path, <<"a", "A">>))>>}
  \cup {<<Prefix1(path, n)>> : n \in {<<"a">>, <<"a", "b">>}}
  \cup {<<Contains1(path, any)>> : any \in {{<<"a", "b">>, <<"b", "b", "a">>}, {<<>>, <<"b", "a">>}, {<<"b", "a", "b">>, <<"a", "a">>}}}
  \cup {<<In(path, any)>> : any \in {{<<>>, <<"a", "b">>}, {<<"a">>, <<"a", "b", "a">>}}}
  \cup {<<Contains1(path, {<<"a", "b", "a">>}), Prefix1(path, <<"b", "a">>), Eq(path, <<"a", "b">>),
          In(path, {<<"b">>, <<"b", "b">>})>>}

LookingLong(path) ==
  {<<Contains1(path, {<<"a", "a", "b", "a", "a", "a">>})>>,
   <<Contains1(path, {<<"a", "b", "a", "a", "b">>}), Valueless(path)>>,
   <<Contains1(path, {<<"a", "b", "a", "a">>, <<"b", "a", "b">>, <<"b", "b", "b", "a">>})>>}

\* An eq that ignores case, alone and next to others.
EqNoCase(path, text) == NoCase(Eq(path, text))

Folding(path) ==
  {<<EqNoCase(path, t)>> : t \in {<<"a">>, <<"A">>, <<"A", "b">>, <<"D">>}}
  \cup {<<EqNoCase(path, <<"A", "b">>), NoCase(Prefix1(path, <<"A">>)), Eq(path, <<"A", "b">>)>>}

FoldingTexts == {<<"a">>, <<"A">>, <<"a", "b">>, <<"A", "b">>, <<"b">>, <<"A", "b", "a">>, <<"D">>, <<"D", "b">>}

FoldingCases ==
  UNION {[doc : Holding(t) \cup {Obj("a", Arr(A, Str(t))), Obj("a", True)}, clauses : Folding(p), bare : {FALSE}]
           : t \in FoldingTexts, p \in {<<"a">>, <<"a", "b">>, <<"a", "[]">>}}
  \cup UNION {[doc : Holding(t), bare : {TRUE},
               clauses : {<<EqNoCase(p, n)>> : n \in {<<"a">>, <<"A", "b">>},
                                              p \in {<<"a">>, <<"a", "b">>, <<"...", "b">>, <<"*">>}}]
              : t \in FoldingTexts}

Holds(texts, Look(_)) ==
  UNION {[doc : Holding(t), clauses : Look(<<"a">>) \cup Look(<<"a", "b">>), bare : {FALSE}] : t \in texts}
  \cup UNION {[doc : Holding(t), clauses : {<<Eq(p, <<"a", "b">>)>> : p \in {<<"a">>, <<"a", "b">>, <<"...", "b">>}},
               bare : {TRUE}] : t \in texts}

MCCases ==
  PathCases \cup FoldingCases \cup Holds(Texts, Looking) \cup Holds(Long, LookingLong)
  \cup Holds({<<"A", "b", "a">>, <<"b", "A", "B">>, <<"a", "A">>, <<"D">>, <<"D", "b">>}, Looking)

================================================================================
