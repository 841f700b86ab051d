------------------------------- MODULE AtomicHint -------------------------------
(***************************************************************************)
(* What the users of a streamAdaptiveHint rely on: a size between a floor  *)
(* and a ceiling that each observation moves in one step, at once to a     *)
(* larger size and by an eighth of the way to a smaller one.               *)
(***************************************************************************)
EXTENDS Integers

CONSTANTS Floor, Ceil   \* a Ceil of 0 is none

VARIABLE hint

Clamp(size) == IF size < Floor THEN Floor ELSE IF Ceil > 0 /\ size > Ceil THEN Ceil ELSE size

Sizes == IF Ceil > 0 THEN Floor..Ceil ELSE {n \in Nat : n >= Floor}

AtomicInit == hint \in Sizes

\* Any larger size, or an eighth of the way to any smaller one.
Observe ==
  LET least == hint - (hint - Floor) \div 8
  IN  hint' \in IF Ceil > 0 THEN least..Ceil ELSE {n \in Nat : n >= least}

AtomicSpec == AtomicInit /\ [][Observe]_hint
================================================================================
