---------------------------- MODULE QueryMutateProofs ----------------------------
(***************************************************************************)
(* The two goroutines of QueryMutateStreamWithResult, for any number of    *)
(* matched candidates, handed over in any number of pieces.                *)
(***************************************************************************)
EXTENDS QueryMutate, TLAPS

Typed ==
  /\ qpc \in {"scan", "write", "close", "wait", "returned"}
  /\ mpc \in {"between", "inside", "returned"} /\ blocked \in BOOLEAN /\ cancelled \in BOOLEAN
  /\ matched \in Nat /\ left \in Nat /\ whole \in Nat /\ handed \in Nat
  /\ seenTop \in Nat /\ done \in Nat
  /\ queryErr \in {"none"} \cup Errors /\ mutErr \in {"none", "query"} \cup Errors
  /\ kinds \in Seq({"object", "number"}) /\ Len(kinds) = matched
  /\ out \in Seq(Nat) /\ torn \in BOOLEAN
  /\ offered.part \in {"none", "payload", "last", "newline"}
  /\ held.part \in {"none", "payload", "last", "newline"}
  /\ offered.part = "none" <=> offered = Nothing
  /\ held.part = "none" <=> held = Nothing

\* What the goroutine has taken follows where the caller is: only the last
\* matched candidate can still be on its way.
TakenFollowsCaller ==
  /\ handed <= whole /\ whole <= matched /\ matched <= handed + 1
  /\ offered # Nothing => qpc = "write" /\ offered.of = matched /\ handed < matched
  /\ offered.part \in {"payload", "last"} => whole = handed
  /\ offered.part = "payload" => left > 1
  /\ offered.part = "last" => left = 1
  /\ offered.part = "newline" => left = 0 /\ whole = matched
  /\ qpc = "scan" => handed = matched
  /\ qpc = "write" =>
       /\ left = 0 /\ offered = Nothing => handed = matched
       /\ left = 1 /\ offered = Nothing => whole = matched /\ handed < matched
       /\ left > 1 => whole = handed /\ handed < matched /\ offered.part \in {"none", "payload"}
  /\ queryErr = "none" /\ qpc \in {"close", "wait", "returned"} => handed = matched

\* The pipe is closed once the query is over, with its error if it has failed.
PipeFollowsCaller ==
  /\ pipe = IF qpc \in {"scan", "write", "close"} THEN "open"
            ELSE IF queryErr = "none" THEN "eof" ELSE "error"
  /\ qpc \in {"scan", "write"} => queryErr = "none"

\* What is written out follows what the goroutine holds of the candidate at hand.
OutFollowsHeld ==
  /\ seenTop = Len(out) /\ ~torn /\ mutErr = "none" /\ done = 0
  /\ qpc # "returned"
  /\ blocked => held = Nothing
  /\ held.part = "payload" => held.of = matched /\ whole = handed /\ handed < matched
  /\ held.part = "last"    => held.of = whole /\ whole = handed + 1
  /\ held.part = "newline" => held.of = handed /\ whole = handed
  /\ mpc = "between" =>
       Len(out) = IF held.part = "last" THEN whole - 1 ELSE whole
  /\ mpc = "inside" =>
       /\ Len(out) = IF held.part \in {"last", "newline"} THEN whole - 1
                     ELSE IF held = Nothing /\ whole > handed THEN handed ELSE whole
       /\ held.part = "newline" => kinds[handed] = "number"
       /\ held = Nothing /\ whole > handed => kinds[whole] = "number"
       /\ held = Nothing /\ whole = handed => handed < matched

\* What the goroutine leaves behind when it returns.
Left ==
  /\ Len(out) <= whole
  /\ done = IF qpc = "returned" THEN 0 ELSE 1
  /\ mutErr = "none" => Len(out) = matched /\ seenTop = matched /\ ~torn /\ queryErr = "none"
  /\ mutErr = "query" => Len(out) >= handed /\ queryErr # "none"
  /\ mutErr \in {"none", "query"} => qpc \in {"wait", "returned"}
  /\ ~blocked /\ held = Nothing

ReturnFollows ==
  /\ ret # "none" <=> qpc = "returned"
  /\ ret = "ok" => queryErr = "none" /\ mutErr = "none"

IInv ==
  /\ Typed /\ TakenFollowsCaller /\ PipeFollowsCaller /\ ReturnFollows
  /\ mpc # "returned" => OutFollowsHeld
  /\ mpc = "returned" => Left
  /\ \A i \in 1..Len(out) : out[i] = i

--------------------------------------------------------------------------------

LEMMA InitIInv == Init => IInv
<1> SUFFICES ASSUME Init PROVE IInv
  OBVIOUS
<1>1. kinds = <<>> /\ out = <<>> /\ offered = Nothing /\ held = Nothing
  BY DEF Init
<1>2. Typed
  <2>1. offered.part = "none" /\ held.part = "none"
    BY <1>1 DEF Nothing
  <2>2. kinds \in Seq({"object", "number"}) /\ Len(kinds) = 0 /\ out \in Seq(Nat)
    BY <1>1
  <2>3. torn \in BOOLEAN /\ blocked \in BOOLEAN /\ cancelled \in BOOLEAN
    BY DEF Init
  <2>4. /\ qpc = "scan" /\ mpc = "between" /\ queryErr = "none" /\ mutErr = "none"
        /\ matched = 0 /\ left = 0 /\ whole = 0 /\ handed = 0 /\ seenTop = 0 /\ done = 0
    BY DEF Init
  <2> QED
    BY <1>1, <2>1, <2>2, <2>3, <2>4 DEF Typed
<1>3. TakenFollowsCaller /\ PipeFollowsCaller /\ ReturnFollows
  BY <1>1 DEF Init, TakenFollowsCaller, PipeFollowsCaller, ReturnFollows, Nothing
<1>4. OutFollowsHeld /\ mpc # "returned"
  BY <1>1 DEF Init, OutFollowsHeld, Nothing
<1> QED
  BY <1>1, <1>2, <1>3, <1>4 DEF IInv

\* A match is written before it counts as taken.
LEMMA MatchKeeps == IInv /\ Match => IInv'
<1> SUFFICES ASSUME IInv, Match PROVE IInv'
  OBVIOUS
<1>1. /\ qpc = "scan" /\ qpc' = "write" /\ matched' = matched + 1
      /\ UNCHANGED <<cancelled, queryErr, offered, pipe, mutate, done, ret, output, taken>>
  BY DEF Match
<1>2. PICK n \in 1..MaxPieces : left' = n + 1
  BY DEF Match
<1>3. PICK kind \in {"object", "number"} : kinds' = Append(kinds, kind)
  BY DEF Match
<1>4. /\ kinds' \in Seq({"object", "number"}) /\ Len(kinds') = matched + 1
      /\ \A i \in 1..matched : kinds'[i] = kinds[i]
  BY <1>3 DEF IInv, Typed
<1>5. left' \in Nat /\ left' > 1
  BY <1>2, BoundsAssumption
<1>6. handed = matched /\ whole = matched /\ offered = Nothing /\ matched \in Nat
  BY <1>1 DEF IInv, Typed, TakenFollowsCaller
<1>7. Typed'
  BY <1>1, <1>4, <1>5 DEF IInv, Typed, mutate, output, taken
<1>8. TakenFollowsCaller' /\ PipeFollowsCaller' /\ ReturnFollows'
  BY <1>1, <1>5, <1>6
     DEF IInv, TakenFollowsCaller, PipeFollowsCaller, ReturnFollows, mutate, output, taken, Nothing
<1>9. mpc # "returned" => OutFollowsHeld'
  BY <1>1, <1>4, <1>6 DEF IInv, Typed, OutFollowsHeld, mutate, output, taken
<1>10. mpc = "returned" => Left'
  BY <1>1 DEF IInv, Left, mutate, output, taken
<1> QED
  BY <1>1, <1>7, <1>8, <1>9, <1>10 DEF IInv, mutate, output

\* The other steps of the caller.
LEMMA CallerKeeps ==
  ASSUME IInv,
         QueryEnds \/ QueryFails \/ PayloadFails \/ Offer \/ Written \/ ClosePipe \/ Return \/ Cancel
  PROVE  IInv'
<1> USE DEF IInv, Typed, TakenFollowsCaller, PipeFollowsCaller, OutFollowsHeld, Left,
            ReturnFollows, Nothing, mutate, output, taken, query
<1>1. CASE QueryEnds
  BY <1>1 DEF QueryEnds
<1>2. CASE QueryFails
  BY <1>2 DEF QueryFails, Errors
<1>3. CASE PayloadFails
  BY <1>3 DEF PayloadFails, Errors
<1>4. CASE Offer
  BY <1>4 DEF Offer
<1>5. CASE Written
  BY <1>5 DEF Written
<1>6. CASE ClosePipe
  BY <1>6 DEF ClosePipe
<1>7. CASE Return
  BY <1>7 DEF Return, Errors
<1>8. CASE Cancel
  BY <1>8 DEF Cancel
<1> QED
  BY <1>1, <1>2, <1>3, <1>4, <1>5, <1>6, <1>7, <1>8

\* A goroutine that gives up leaves everything written out in order.
LEMMA GiveUpKeeps ==
  ASSUME IInv, mpc # "returned", NEW error \in {"none", "query"} \cup Errors, GiveUp(error),
         error = "none" => Len(out) = matched /\ mpc = "between" /\ queryErr = "none" /\ pipe # "open",
         error = "query" => pipe = "error" /\ held = Nothing
  PROVE  IInv'
<1> USE DEF IInv, Typed, TakenFollowsCaller, PipeFollowsCaller, OutFollowsHeld, Left,
            ReturnFollows, Nothing, output, taken, query, GiveUp
<1>1. torn' \in BOOLEAN /\ (mpc = "between" => torn' = torn)
  OBVIOUS
<1>2. mpc' = "returned" /\ held' = Nothing /\ done' = 1 /\ out' = out
  OBVIOUS
<1>3. Typed'
  <2>1. done' \in Nat /\ mutErr' = error /\ blocked' = FALSE
    BY <1>2
  <2>2. held'.part = "none"
    BY <1>2
  <2>3. UNCHANGED <<qpc, cancelled, matched, left, whole, handed, seenTop, queryErr, kinds, out, offered>>
    OBVIOUS
  <2>4. Typed
    OBVIOUS
  <2> HIDE DEF Nothing, GiveUp, IInv, TakenFollowsCaller, PipeFollowsCaller, OutFollowsHeld, Left
  <2> QED
    BY <1>1, <1>2, <2>1, <2>2, <2>3, <2>4
<1>4. TakenFollowsCaller' /\ PipeFollowsCaller' /\ ReturnFollows'
  OBVIOUS
<1>5. Left'
  <2>1. error \in {"none", "query"} => qpc \in {"wait", "returned"}
    OBVIOUS
  <2>2. error = "query" => queryErr # "none" /\ Len(out) >= handed
    OBVIOUS
  <2>3. error = "none" => Len(out) = matched /\ seenTop = matched /\ ~torn' /\ queryErr = "none"
    BY <1>1
  <2>4. Len(out) <= whole /\ qpc # "returned"
    OBVIOUS
  <2> QED
    BY <1>2, <2>1, <2>2, <2>3, <2>4
<1> QED
  BY <1>2, <1>3, <1>4, <1>5

\* Reading a piece from the pipe.
LEMMA ReadKeeps == ASSUME IInv, Read \/ Take \/ SkipSpace PROVE IInv'
<1> USE DEF IInv, Typed, TakenFollowsCaller, PipeFollowsCaller, OutFollowsHeld, Left,
            ReturnFollows, Nothing, output, taken, query, mutate
<1>1. CASE Read
  BY <1>1 DEF Read
<1>2. CASE Take
  <2>1. /\ held' = offered /\ offered' = Nothing /\ blocked' = FALSE /\ offered # Nothing
        /\ held = Nothing /\ mpc # "returned" /\ mpc' = mpc
    BY <1>2 DEF Take
  <2>2. /\ whole' = IF offered.part = "last" THEN whole + 1 ELSE whole
        /\ handed' = IF offered.part = "newline" THEN handed + 1 ELSE handed
        /\ UNCHANGED <<mode, cancelled, query, pipe, mpc, seenTop, mutErr, done, ret, kinds, output>>
    BY <1>2 DEF Take
  <2>3. offered.part \in {"payload", "last", "newline"}
    BY <2>1
  <2>4. Typed'
    <3>1. offered'.part = "none" /\ Typed
      BY <2>1
    <3>2. whole' \in Nat /\ handed' \in Nat
      BY <2>2
    <3>3. UNCHANGED <<qpc, mpc, cancelled, matched, left, seenTop, done, queryErr, mutErr, kinds, out, torn>>
      BY <2>2
    <3> HIDE DEF Nothing, IInv, TakenFollowsCaller, PipeFollowsCaller, OutFollowsHeld, Left
    <3> QED
      BY <2>1, <3>1, <3>2, <3>3
  <2>5. TakenFollowsCaller' /\ PipeFollowsCaller' /\ ReturnFollows'
    BY <2>1, <2>2, <2>3
  <2>6. OutFollowsHeld'
    BY <2>1, <2>2, <2>3
  <2> QED
    BY <2>1, <2>2, <2>4, <2>5, <2>6
<1>3. CASE SkipSpace
  BY <1>3 DEF SkipSpace
<1> QED
  BY <1>1, <1>2, <1>3

LEMMA BeginKeeps == IInv /\ Begin => IInv'
<1> SUFFICES ASSUME IInv, Begin PROVE IInv'
  OBVIOUS
<1>1. CASE GiveUp("invalid_body")
  BY <1>1, GiveUpKeeps DEF Begin, Errors
<1>2. CASE /\ mpc' = "inside"
           /\ UNCHANGED <<mode, cancelled, query, offered, pipe, blocked, held, seenTop, mutErr,
                          done, ret, kinds, output, taken>>
  BY <1>2 DEF Begin, IInv, Typed, TakenFollowsCaller, PipeFollowsCaller, OutFollowsHeld, Left,
              ReturnFollows, Nothing, output, taken, query
<1> QED
  BY <1>1, <1>2 DEF Begin

LEMMA ConsumeKeeps == IInv /\ Consume => IInv'
<1> SUFFICES ASSUME IInv, Consume PROVE IInv'
  OBVIOUS
<1> USE DEF IInv, Typed, TakenFollowsCaller, PipeFollowsCaller, OutFollowsHeld,
            ReturnFollows, Nothing, output, taken, query
<1>1. /\ mpc = "inside" /\ held # Nothing /\ held' = Nothing
      /\ UNCHANGED <<mode, cancelled, query, offered, pipe, blocked, mutErr, done, ret, kinds,
                     torn, taken>>
  BY DEF Consume
<1>2. CASE Completes
  <2>1. out' = Append(out, held.of) /\ seenTop' = seenTop + 1 /\ mpc' = "between"
    BY <1>2 DEF Consume
  <2>2. held.part \in {"last", "newline"} /\ held.of = whole /\ Len(out) = whole - 1
    BY <1>1, <1>2 DEF Completes
  <2>3. out' \in Seq(Nat) /\ Len(out') = Len(out) + 1 /\ \A i \in 1..Len(out') : out'[i] = i
    BY <2>1, <2>2
  <2> QED
    BY <1>1, <2>1, <2>2, <2>3
<1>3. CASE ~Completes
  <2>1. UNCHANGED <<out, seenTop, mpc>>
    BY <1>3 DEF Consume
  <2>2. held.part # "newline"
    BY <1>1, <1>3 DEF Completes
  <2>3. held.part = "last" => kinds[whole] = "number"
    BY <1>1, <1>3 DEF Completes
  <2> QED
    BY <1>1, <2>1, <2>2, <2>3
<1> QED
  BY <1>2, <1>3

\* The end of the pipe is between two candidates, or the query has failed.
LEMMA PipeEndsKeeps == IInv /\ PipeEnds => IInv'
<1> SUFFICES ASSUME IInv, PipeEnds PROVE IInv'
  OBVIOUS
<1>1. /\ blocked /\ offered = Nothing /\ mpc # "returned" /\ held = Nothing
      /\ OutFollowsHeld
  BY DEF PipeEnds, IInv, Left, OutFollowsHeld
<1>2. CASE pipe = "eof"
  <2>1. queryErr = "none" /\ handed = matched /\ whole = matched
    BY <1>2 DEF IInv, PipeFollowsCaller, TakenFollowsCaller, Typed
  <2>2. mpc = "between"
    BY <1>1, <2>1 DEF OutFollowsHeld, IInv, Typed
  <2>3. Len(out) = matched
    BY <1>1, <2>1, <2>2 DEF OutFollowsHeld, Nothing
  <2>4. \E error \in {"none", "invalid_body"} : GiveUp(error)
    BY <1>2, <2>2 DEF PipeEnds, PipeEndsBetween
  <2> QED
    BY <1>1, <1>2, <2>1, <2>2, <2>3, <2>4, GiveUpKeeps DEF Errors
<1>3. CASE pipe = "error"
  <2>1. GiveUp("query")
    BY <1>3 DEF PipeEnds
  <2> QED
    BY <1>1, <1>3, <2>1, GiveUpKeeps
<1> QED
  BY <1>2, <1>3 DEF PipeEnds

LEMMA StepKeeps == IInv /\ [Next]_vars => IInv'
<1> SUFFICES ASSUME IInv, [Next]_vars PROVE IInv'
  OBVIOUS
<1>1. CASE QueryStep
  BY <1>1, MatchKeeps, CallerKeeps DEF QueryStep
<1>2. CASE MutationFails \/ SeesCancel
  <2>1. PICK error \in Errors : GiveUp(error)
    BY <1>2 DEF MutationFails, SeesCancel, Errors
  <2>2. mpc # "returned"
    BY <1>2 DEF MutationFails, SeesCancel
  <2> QED
    BY <2>1, <2>2, GiveUpKeeps DEF Errors
<1>3. CASE MutateStep
  BY <1>2, <1>3, ReadKeeps, BeginKeeps, ConsumeKeeps, PipeEndsKeeps DEF MutateStep
<1>4. CASE Cancel
  BY <1>4, CallerKeeps
<1>5. CASE Returned \/ UNCHANGED vars
  <2>1. UNCHANGED <<cancelled, qpc, matched, left, queryErr, offered, pipe, mpc, blocked, held,
                    seenTop, mutErr, done, ret, kinds, out, torn, whole, handed>>
    BY <1>5 DEF Returned, vars, query, mutate, output, taken
  <2> QED
    BY <2>1 DEF IInv, Typed, TakenFollowsCaller, PipeFollowsCaller, OutFollowsHeld, Left, ReturnFollows
<1> QED
  BY <1>1, <1>3, <1>4, <1>5 DEF Next

LEMMA IInvHolds == Spec => []IInv
BY InitIInv, StepKeeps, PTL DEF Spec

--------------------------------------------------------------------------------

\* The pooled async state that a returned call gives back is at rest.
THEOREM StateIsQuiet == Spec => []AsyncStateQuiet
<1>1. IInv => AsyncStateQuiet
  BY DEF IInv, AsyncStateQuiet, OutFollowsHeld, Left
<1> QED
  BY <1>1, IInvHolds, PTL

\* Whatever fails, and whenever, the candidates come out whole and in order.
THEOREM OutputKeepsOrder == Spec => []OutputInOrder
<1>1. IInv => OutputInOrder
  BY DEF IInv, Typed, TakenFollowsCaller, OutputInOrder, OutFollowsHeld, Left
<1> QED
  BY <1>1, IInvHolds, PTL

\* A call that returns has written out everything it was given, unless its
\* mutate side had reason to give up.
THEOREM ReturnIsComplete == Spec => []CompleteOnReturn
<1>1. IInv => CompleteOnReturn
  BY DEF IInv, Typed, TakenFollowsCaller, CompleteOnReturn, GaveUp, OutFollowsHeld, Left,
         ReturnFollows
<1> QED
  BY <1>1, IInvHolds, PTL

================================================================================
