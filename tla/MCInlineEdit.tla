------------------------------ MODULE MCInlineEdit ------------------------------
(* InlineEdit for TLC: every input of at most five tokens whose brackets close *)
(* nothing that is not open.                                                  *)
EXTENDS InlineEdit

CONSTANT MaxTokens   \* bound: tokens of an input

MCInputs == {text \in UNION {[1..n -> Tokens] : n \in 0..MaxTokens} :
               \A i \in DOMAIN text : Depth(text, i) >= 0}

================================================================================
