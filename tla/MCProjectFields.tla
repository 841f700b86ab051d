---------------------------- MODULE MCProjectFields ----------------------------
(* ProjectFields for TLC: members with every combination of values that the    *)
(* pointers tell apart, also under the same key.                              *)
EXTENDS ProjectFields

MCTokenOrder == <<"+1", "0", "1", "9", "a", "b", "x", "y">>
MCTokens     == ToSet(MCTokenOrder)
MCOrder      == [t \in MCTokens |-> CHOOSE n \in DOMAIN MCTokenOrder : MCTokenOrder[n] = t]
MCDigits     == {"0", "1", "9"}
MCNumber     == [t \in MCTokens |-> CASE t = "0" -> 0 [] t \in {"1", "+1"} -> 1 [] t = "9" -> 9 [] OTHER -> -1]

Below(step, value) == {<<step>> \o q : q \in value}

Scalar     == {<<>>}
Object(ms) == {<<>>} \cup UNION {Below(Member(n, ms[n][1]), ms[n][2]) : n \in DOMAIN ms}
Array(vs)  == {<<>>} \cup UNION {Below(Item(n), vs[n]) : n \in DOMAIN vs}

Flat(keys) == Object([n \in DOMAIN keys |-> <<keys[n], Scalar>>])

Firsts  == {Flat(<<"x">>), Flat(<<"x", "1">>), Flat(<<"9">>), Array(<<Scalar, Flat(<<"y", "x", "+1">>)>>)}
Seconds == {Scalar, Flat(<<"y", "x">>), Flat(<<"1">>), Flat(<<"x", "y", "+1">>),
            Array(<<Scalar, Array(<<Scalar, Scalar>>)>>)}

MCDocuments == {Object(<< <<"a", v>>, <<k, w>> >>) : v \in Firsts \cup Seconds, k \in {"a", "b"}, w \in Seconds}

MCPathLists == {
  << <<"a">> >>, << <<"b">>, <<"a">>, <<"b">> >>,
  << <<"a", "y">>, <<"a", "x">>, <<"b">> >>, << <<"b", "x">>, <<"a", "x">>, <<"b", "y">> >>,
  << <<"a", "y">>, <<"a", "x">>, <<"b">>, <<"a", "+1">> >>,
  << <<"b", "y">>, <<"b", "x">>, <<"a">>, <<"b", "+1">> >>,
  << <<"a", "x">>, <<"a", "1">> >>, << <<"a", "1", "x">>, <<"b">> >>,
  << <<"a", "1", "x">>, <<"a", "1", "y">>, <<"a", "1", "+1">>, <<"b">> >>,
  << <<"a", "1", "0">>, <<"b", "1", "1">> >>,
  << <<"a", "0">>, <<"a", "1">>, <<"b", "1">> >>, << <<"a", "+1">>, <<"b", "y">> >>,
  << <<"a", "9">>, <<"b", "x">> >>, << <<"a", "1">>, <<"a", "+1">> >>,
  << <<"a", "x">>, <<"a">> >>, << <<"0">> >> }

================================================================================
