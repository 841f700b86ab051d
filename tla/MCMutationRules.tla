---------------------------- MODULE MCMutationRules ----------------------------
(* MutationRules for TLC: small documents, and mutations of every kind along  *)
(* paths of every kind.                                                       *)
EXTENDS MutationRules, TLC

One(k, v) == Obj(k :> v)

Leaf == {Num(1), Scalar}

\* What there may be under the member a.
Inner == Leaf \cup {EmptyObject, Arr(<<>>)}
  \cup {One("b", v) : v \in Leaf} \cup {Arr(<<v>>) : v \in Leaf}
  \cup {One("0", Num(1)), One("a", One("b", Num(1))), Arr(<<One("b", Num(1)), Num(1)>>)}

MCDocuments ==
  {EmptyObject} \cup {One("a", v) : v \in Inner} \cup {Obj("a" :> v @@ "b" :> Num(2)) : v \in Inner}

Set(path)       == [path |-> path, kind |-> "set", value |-> Num(7)]
Increment(path) == [path |-> path, kind |-> "increment", value |-> Num(1)]
Rm(path)    == [path |-> path, kind |-> "remove", value |-> Null]

MCMutations ==
  UNION {{Set(p), Increment(p), Rm(p)} :
           p \in {<<"a">>, <<"a", "b">>, <<"*", "b">>, <<"...", "b">>}}
  \cup {Set(<<"a", "b", "a">>), Set(<<"a", "0">>), Rm(<<"a", "0">>)}
  \cup {Set(<<"a", "*">>), Set(<<"...", "a", "b">>), Rm(<<"a", "**">>), Increment(<<"a", "[]", "b">>)}
  \cup {Increment(<<"...">>), Rm(<<"...">>)}
  \cup {[Set(<<"a">>) EXCEPT !.value = One("b", Num(1))]}

================================================================================
