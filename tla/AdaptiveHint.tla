------------------------------ MODULE AdaptiveHint ------------------------------
(***************************************************************************)
(* streamAdaptiveHint: concurrent streams move one size with a loop of     *)
(* load and compare-and-swap.                                              *)
(***************************************************************************)
EXTENDS AtomicHint

CONSTANTS Observers   \* the streams that use the hint

ASSUME BoundsAssumption == Floor \in Nat \ {0} /\ Ceil \in Nat /\ (Ceil > 0 => Floor <= Ceil)

VARIABLE observing  \* the loops under way: what was loaded, and the clamped size

\* The value that follows current when a size, which is clamped, is observed.
Moved(current, size) ==
  Clamp(IF size < current THEN current - (current - size) \div 8 ELSE size)

\* streamAdaptiveHint.Load
Load == Clamp(hint)

NewHint(initial) == hint = Clamp(initial) /\ observing = [o \in Observers |-> {}]

\* Observe, up to the first load.
StartObserve(o, size) ==
  /\ observing[o] = {} /\ size > 0
  /\ observing' = [observing EXCEPT ![o] = {[current |-> hint, size |-> Clamp(size)]}]
  /\ UNCHANGED hint

\* Mutant: the new value is stored whatever the value is by now.
CompareAndSwapStore(o) ==
  \E loop \in observing[o] :
    /\ hint' = Moved(loop.current, loop.size)
    /\ observing' = [observing EXCEPT ![o] = {}]

\* The loop ends when the value is still the one it loaded.
CompareAndSwap(o) ==
  \E loop \in observing[o] :
    \/ /\ hint = loop.current
       /\ hint' = Moved(loop.current, loop.size)
       /\ observing' = [observing EXCEPT ![o] = {}]
    \/ /\ hint # loop.current
       /\ observing' = [observing EXCEPT ![o] = {[current |-> hint, size |-> loop.size]}]
       /\ UNCHANGED hint

--------------------------------------------------------------------------------
(* The hint on its own: observers that come at any time with any size.        *)

HintInit == \E initial \in Int : NewHint(initial)

HintNext ==
  \E o \in Observers : CompareAndSwap(o) \/ \E size \in Nat : StartObserve(o, size)

HintSpec == HintInit /\ [][HintNext]_<<hint, observing>>

\* Every value is within the bounds, and so is what a loop is about to store.
HintInv ==
  /\ hint \in Sizes
  /\ observing \in [Observers -> SUBSET [current : Sizes, size : Sizes]]

\* The loops amount to observations in one step each: none is lost to another
\* stream, and no value between the bounds is skipped or overshot.
HintIsAtomic == AtomicSpec
================================================================================
