---------------------------- MODULE QueryStreamProofs ----------------------------
(* Proofs about QueryStream, for all requests, inputs and faults.             *)
EXTENDS QueryStream, TLAPS

(***************************************************************************)
(* How a candidate's return changes the variables it may change.           *)
(***************************************************************************)

LEMMA StopLimitsTyped == ApplyStopLimits \in StopReasons
BY DEF ApplyStopLimits, StopReasons

LEMMA LeaveTyped ==
  ASSUME NEW outcome \in Outcomes, Leave(outcome), TypeOK
  PROVE  pc' \in Points /\ stop' \in StopReasons /\ err' \in {"none"} \cup ErrorCodes
<1>1. CASE outcome = "next" /\ Resume
  BY <1>1, StopLimitsTyped DEF Resume, ResumePoint, TypeOK, Points, ReadPoints
<1>2. CASE outcome = "stop" /\ pc' = "done" /\ stop' = "callback_stop" /\ UNCHANGED err
  BY <1>2 DEF TypeOK, Points, StopReasons
<1>3. CASE outcome \in ErrorCodes /\ Fail(outcome)
  BY <1>3 DEF Fail, Surface, TypeOK, Points, ErrorCodes
<1> QED BY <1>1, <1>2, <1>3 DEF Leave

LEMMA CleanupThenTyped ==
  ASSUME NEW outcome \in Outcomes, NEW silent \in BOOLEAN,
         CleanupThen(outcome, silent), TypeOK
  PROVE  /\ pc' \in Points /\ stop' \in StopReasons /\ err' \in {"none"} \cup ErrorCodes
         /\ pending' \in [then: Outcomes, silent: BOOLEAN]
<1>1. CASE sink = "idle"
  BY <1>1, LeaveTyped DEF CleanupThen, TypeOK
<1>2. CASE sink # "idle"
  BY <1>2 DEF CleanupThen, TypeOK, Points
<1> QED BY <1>1, <1>2

--------------------------------------------------------------------------------

\* Every variable of the call keeps its type, whatever the bounds.
THEOREM TypeCorrect == Spec => []TypeOK
<1>1. Init => TypeOK
  <2> SUFFICES ASSUME Init PROVE TypeOK
    OBVIOUS
  <2>1. pc \in Points /\ stop \in StopReasons
    BY DEF Init, Points, StopReasons
  <2>2. pending \in [then: Outcomes, silent: BOOLEAN]
    BY DEF Init, Outcomes
  <2>3. verdict \in BOOLEAN /\ discard \in BOOLEAN /\ pruned \in BOOLEAN
        /\ cancelled \in BOOLEAN /\ badInput \in BOOLEAN
    BY DEF Init
  <2> QED BY <2>1, <2>2, <2>3 DEF Init, TypeOK
<1>2. TypeOK /\ [Next]_vars => TypeOK'
  <2> SUFFICES ASSUME TypeOK, [Next]_vars PROVE TypeOK'
    OBVIOUS
  <2> USE SizesAssumption, GapsAssumption
  <2>1. CASE Validate
    BY <2>1 DEF Validate, Fail, Surface, TypeOK, Points, ErrorCodes, ReadPoints,
                input, candidate, capture, counters, history
  <2>2. CASE Cancel
    BY <2>2 DEF Cancel, TypeOK, input, candidate, capture, counters, history
  <2>3. CASE ReadCancelled
    BY <2>3 DEF ReadCancelled, Fail, Surface, TypeOK, Points, ErrorCodes,
                input, candidate, capture, counters, history
  <2>4. CASE ReadFails
    BY <2>4 DEF ReadFails, Fail, Surface, TypeOK, Points, ErrorCodes,
                input, candidate, capture, counters
  <2>5. CASE EndOfInput
    <3>1. offset' \in Nat /\ bytesRead' \in Nat
      BY <2>5 DEF EndOfInput, TypeOK
    <3>2. badInput' \in BOOLEAN
      BY <2>5 DEF EndOfInput, TypeOK
    <3>3. pc' \in Points /\ stop' \in StopReasons /\ err' \in {"none"} \cup ErrorCodes
      BY <2>5 DEF EndOfInput, Fail, Surface, TypeOK, Points, ErrorCodes
    <3> QED BY <2>5, <3>1, <3>2, <3>3 DEF EndOfInput, TypeOK, candidate, capture
  <2>6. CASE OpenArray
    BY <2>6 DEF OpenArray, ReadToken, TypeOK, Points, ReadPoints, candidate, capture,
                counters, history
  <2>7. CASE CloseArray
    BY <2>7 DEF CloseArray, ReadToken, TypeOK, Points, ReadPoints, candidate, capture,
                counters, history
  <2>8. CASE Comma
    BY <2>8 DEF Comma, ReadToken, TypeOK, Points, ReadPoints, candidate, capture,
                counters, history
  <2>9. CASE BadSeparator
    BY <2>9 DEF BadSeparator, ReadToken, Fail, Surface, TypeOK, Points, ErrorCodes,
                candidate, capture, counters
  <2>10. CASE BeginCandidate
    <3>1. pc' \in Points
      BY <2>10 DEF BeginCandidate, Points
    <3>2. started' \in Nat /\ offset' \in Nat /\ tokens' \in Nat
      BY <2>10 DEF BeginCandidate, ReadToken, TypeOK
    <3>3. kind' \in {"object", "other"} /\ verdict' \in BOOLEAN
      BY <2>10 DEF BeginCandidate
    <3> QED
      BY <2>10, <3>1, <3>2, <3>3 DEF BeginCandidate, TypeOK, capture, counters, history
  <2>11. CASE NewPayloadSink
    BY <2>11 DEF NewPayloadSink, Fail, Surface, TypeOK, Points, ErrorCodes,
                 input, candidate, counters, history
  <2>12. CASE ScanFails
    <3>1. \E code \in {"context_canceled", "invalid_body"} : CleanupThen(code, TRUE)
      BY <2>12 DEF ScanFails
    <3>2. /\ pc' \in Points /\ stop' \in StopReasons /\ err' \in {"none"} \cup ErrorCodes
          /\ pending' \in [then: Outcomes, silent: BOOLEAN]
      BY <3>1, CleanupThenTyped DEF Outcomes, ErrorCodes
    <3> QED
      BY <2>12, <3>2 DEF ScanFails, TypeOK, input, candidate, capture, counters
  <2>13. CASE ScanValue
    <3>1. /\ pc' \in Points /\ stop' \in StopReasons /\ err' \in {"none"} \cup ErrorCodes
          /\ pending' \in [then: Outcomes, silent: BOOLEAN]
      BY <2>13, CleanupThenTyped DEF ScanValue, Outcomes, ErrorCodes, Points, TypeOK
    <3>2. verdict' \in BOOLEAN /\ pruned' \in BOOLEAN
      <4>1. ASSUME NEW v \in Verdicts, verdict' = v.matched, pruned' = v.pruned
            PROVE  verdict' \in BOOLEAN /\ pruned' \in BOOLEAN
        BY <4>1 DEF Verdicts
      <4>2. (\E v \in Verdicts : verdict' = v.matched /\ pruned' = v.pruned)
            \/ (verdict' = verdict /\ pruned' = pruned)
        BY <2>13, Zenon DEF ScanValue
      <4> QED BY <4>1, <4>2, Zenon DEF TypeOK
    <3>3. hits' \in Nat
      <4>1. hits' = hits \/ hits' = hits + 1
        BY <2>13, Zenon DEF ScanValue
      <4> QED BY <4>1 DEF TypeOK
    <3>4. offset' \in Nat /\ seen' \in Nat /\ bytesRead' \in Nat
      <4>1. /\ \E size \in Sizes : offset' = offset + size
            /\ seen' = seen + 1 /\ bytesRead' = offset'
        BY <2>13 DEF ScanValue
      <4> QED BY <4>1 DEF TypeOK
    <3> QED
      <4>1. UNCHANGED <<req, depth, tokens, started, kind, sink, discard, cancelled,
                        decided, delivered, badInput>>
        BY <2>13 DEF ScanValue, history
      <4> QED BY <3>1, <3>2, <3>3, <3>4, <4>1 DEF TypeOK
  <2>14. CASE OnDecision
    <3>1. ASSUME AfterDecision
          PROVE  /\ pc' \in Points /\ stop' \in StopReasons /\ err' \in {"none"} \cup ErrorCodes
                 /\ pending' \in [then: Outcomes, silent: BOOLEAN]
      BY <3>1, CleanupThenTyped DEF AfterDecision, Outcomes, Points, TypeOK
    <3>2. /\ pc' \in Points /\ stop' \in StopReasons /\ err' \in {"none"} \cup ErrorCodes
          /\ pending' \in [then: Outcomes, silent: BOOLEAN]
      BY <2>14, <3>1, CleanupThenTyped DEF OnDecision, Outcomes, ErrorCodes
    <3> QED
      <4>1. decided' \in Nat
        <5>1. decided' = decided \/ decided' = decided + 1
          BY <2>14, Zenon DEF OnDecision
        <5> QED BY <5>1 DEF TypeOK
      <4>2. UNCHANGED <<req, depth, tokens, offset, started, kind, verdict, sink, discard,
                        pruned, seen, hits, bytesRead, cancelled, delivered, badInput>>
        BY <2>14 DEF OnDecision, input, candidate, capture, counters
      <4> QED BY <3>2, <4>1, <4>2 DEF TypeOK
  <2>15. CASE Finalize
    <3>1. /\ pc' \in Points /\ stop' \in StopReasons /\ err' \in {"none"} \cup ErrorCodes
          /\ pending' \in [then: Outcomes, silent: BOOLEAN]
      BY <2>15, CleanupThenTyped DEF Finalize, Outcomes, ErrorCodes, Points, TypeOK
    <3> QED
      BY <2>15, <3>1 DEF Finalize, TypeOK, input, candidate, counters, history
  <2>16. CASE OnValue
    <3>1. /\ pc' \in Points /\ stop' \in StopReasons /\ err' \in {"none"} \cup ErrorCodes
          /\ pending' \in [then: Outcomes, silent: BOOLEAN]
      BY <2>16, CleanupThenTyped, LeaveTyped DEF OnValue, Outcomes, ErrorCodes, TypeOK
    <3> QED
      <4>1. delivered' \in Nat /\ sink' \in {"idle", "writing", "final", "observed"}
        <5>1. /\ delivered' = delivered \/ delivered' = delivered + 1
              /\ sink' = sink \/ sink' = "observed"
          BY <2>16, Zenon DEF OnValue
        <5> QED BY <5>1 DEF TypeOK
      <4>2. UNCHANGED <<req, depth, tokens, offset, started, kind, verdict, discard,
                        pruned, seen, hits, bytesRead, cancelled, decided, badInput>>
        BY <2>16 DEF OnValue, input, candidate, counters
      <4> QED BY <3>1, <4>1, <4>2 DEF TypeOK
  <2>17. CASE CleanupPayload
    <3>1. pending.then \in Outcomes
      BY DEF TypeOK
    <3>2. pc' \in Points /\ stop' \in StopReasons /\ err' \in {"none"} \cup ErrorCodes
      BY <2>17, <3>1, LeaveTyped
         DEF CleanupPayload, Fail, Surface, Points, ErrorCodes, TypeOK
    <3> QED
      BY <2>17, <3>2 DEF CleanupPayload, TypeOK, input, candidate, counters, history
  <2>18. CASE Returned \/ UNCHANGED vars
    BY <2>18 DEF Returned, vars, TypeOK, input, candidate, capture, counters, history
  <2> QED
    BY <2>1, <2>2, <2>3, <2>4, <2>5, <2>6, <2>7, <2>8, <2>9, <2>10, <2>11, <2>12,
       <2>13, <2>14, <2>15, <2>16, <2>17, <2>18 DEF Next
<1> QED BY <1>1, <1>2, PTL DEF Spec

--------------------------------------------------------------------------------

\* consumeCandidate returns to its caller only to read on, with no limit
\* reached, or because the call is over.
LEMMA LeaveShape ==
  ASSUME NEW outcome, Leave(outcome)
  PROVE  \/ outcome = "next" /\ pc' \in {"top", "after"} /\ ApplyStopLimits = "none"
         \/ outcome = "next" /\ pc' = "done"
         \/ outcome = "stop" /\ pc' = "done" /\ stop' = "callback_stop"
         \/ outcome \in ErrorCodes /\ pc' = "done" /\ err' \in ErrorCodes
<1>1. CASE outcome = "next" /\ Resume
  BY <1>1 DEF Resume, ResumePoint
<1>2. CASE outcome = "stop" /\ pc' = "done" /\ stop' = "callback_stop" /\ UNCHANGED err
  BY <1>2
<1>3. CASE outcome \in ErrorCodes /\ Fail(outcome)
  BY <1>3 DEF Fail, Surface, ErrorCodes
<1> QED BY <1>1, <1>2, <1>3 DEF Leave

LEMMA CleanupThenShape ==
  ASSUME NEW outcome, NEW silent, CleanupThen(outcome, silent)
  PROVE  \/ /\ sink = "idle"
            /\ \/ outcome = "next" /\ pc' \in {"top", "after"} /\ ApplyStopLimits = "none"
               \/ outcome = "next" /\ pc' = "done"
               \/ outcome = "stop" /\ pc' = "done" /\ stop' = "callback_stop"
               \/ outcome \in ErrorCodes /\ pc' = "done" /\ err' \in ErrorCodes
         \/ sink # "idle" /\ pc' = "cleanup" /\ pending'.then = outcome
<1>1. CASE sink = "idle"
  BY <1>1, LeaveShape DEF CleanupThen
<1>2. CASE sink # "idle"
  BY <1>2 DEF CleanupThen
<1> QED BY <1>1, <1>2

LEMMA IncludeJSONKept == req' = req => IncludeJSON' = IncludeJSON
BY DEF IncludeJSON, AskedForJSON

\* The request never changes.
LEMMA RequestKept == [Next]_vars => req' = req
BY DEF Next, vars, Validate, Cancel, ReadCancelled, ReadFails, EndOfInput, OpenArray, CloseArray,
       Comma, BadSeparator, BeginCandidate, NewPayloadSink, ScanFails, ScanValue, OnDecision,
       Finalize, OnValue, CleanupPayload, Returned

LEMMA SinkStep == SinkFollowsPC /\ [Next]_vars => SinkFollowsPC'
<1> SUFFICES ASSUME SinkFollowsPC, [Next]_vars PROVE SinkFollowsPC'
  OBVIOUS
<1>0. req' = req /\ IncludeJSON' = IncludeJSON
  BY RequestKept, IncludeJSONKept
<1> USE <1>0 DEF SinkFollowsPC, ReadPoints
<1>1. CASE Validate
  BY <1>1 DEF Validate, Fail, capture
<1>2. CASE Cancel
  BY <1>2 DEF Cancel, capture
<1>3. CASE ReadCancelled \/ ReadFails \/ BadSeparator
  BY <1>3 DEF ReadCancelled, ReadFails, BadSeparator, Fail, capture
<1>4. CASE EndOfInput
  BY <1>4 DEF EndOfInput, Fail, capture
<1>5. CASE OpenArray \/ CloseArray \/ Comma
  BY <1>5 DEF OpenArray, CloseArray, Comma, ValuePoints, capture
<1>6. CASE BeginCandidate
  BY <1>6 DEF BeginCandidate, ValuePoints, capture
<1>7. CASE NewPayloadSink
  BY <1>7 DEF NewPayloadSink, Fail
<1>8. CASE ScanFails
  <2>1. \E code \in ErrorCodes : CleanupThen(code, TRUE)
    BY <1>8, Zenon DEF ScanFails, ErrorCodes
  <2>2. \/ pc' = "cleanup" /\ sink # "idle"
        \/ pc' = "done" /\ sink = "idle"
    BY <2>1, CleanupThenShape DEF ErrorCodes
  <2> QED BY <1>8, <2>2 DEF ScanFails, capture
<1>9. CASE ScanValue
  <2>1. pc = "scan" /\ sink' = sink
    BY <1>9 DEF ScanValue
  <2>2. \/ pc' = "cleanup" /\ sink # "idle"
        \/ pc' = "done" /\ sink = "idle"
        \/ pc' = "decide"
    BY <1>9, CleanupThenShape DEF ScanValue
  <2> QED BY <2>1, <2>2
<1>10. CASE OnDecision
  <2>1. pc = "decide" /\ sink' = sink
    BY <1>10 DEF OnDecision, capture
  <2>2. \/ pc' = "cleanup" /\ sink # "idle"
        \/ pc' \in {"top", "after", "done"} /\ sink = "idle"
        \/ pc' = IF IncludeJSON THEN "finalize" ELSE "value"
    BY <1>10, CleanupThenShape DEF OnDecision, AfterDecision
  <2> QED BY <2>1, <2>2
<1>11. CASE Finalize
  <2>1. pc = "finalize" /\ IncludeJSON /\ sink = "writing"
    BY <1>11 DEF Finalize
  <2>2. \/ sink' = "final" /\ pc' = "value"
        \/ sink' = sink /\ pc' = "cleanup"
    BY <1>11, <2>1, CleanupThenShape DEF Finalize
  <2> QED BY <2>1, <2>2
<1>12. CASE OnValue
  <2>1. pc = "value"
    BY <1>12 DEF OnValue
  <2>2. CASE req.onValue
    <3>1. sink' = IF IncludeJSON THEN "observed" ELSE sink
      BY <1>12, <2>2, Zenon DEF OnValue
    <3>2. \E out \in Outcomes : CleanupThen(out, FALSE)
      BY <1>12, <2>2, Zenon DEF OnValue, Outcomes, ErrorCodes
    <3>3. \/ pc' = "cleanup" /\ sink # "idle"
          \/ pc' \in {"top", "after", "done"} /\ sink = "idle"
      BY <3>2, CleanupThenShape
    <3> QED BY <2>1, <3>1, <3>3
  <2>3. CASE ~req.onValue
    <3>1. sink' = sink /\ Leave("next")
      BY <1>12, <2>3, Zenon DEF OnValue
    <3>2. ~IncludeJSON
      BY <2>3 DEF IncludeJSON
    <3>3. pc' \in {"top", "after", "done"}
      BY <3>1, LeaveShape
    <3> QED BY <2>1, <3>1, <3>2, <3>3
  <2> QED BY <2>2, <2>3
<1>13. CASE CleanupPayload
  <2>1. pc' \in {"top", "after", "done"} /\ sink' = "idle"
    BY <1>13, LeaveShape DEF CleanupPayload, Fail
  <2> QED BY <2>1
<1>14. CASE Returned \/ UNCHANGED vars
  BY <1>14 DEF Returned, vars, capture
<1> QED
  BY <1>1, <1>2, <1>3, <1>4, <1>5, <1>6, <1>7, <1>8, <1>9, <1>10, <1>11, <1>12,
     <1>13, <1>14 DEF Next

\* Every step of the stream is a step of the sink contract, or none at all.
LEMMA SinkRefines ==
  TypeOK /\ SinkFollowsPC /\ [Next]_vars =>
    SinkContract!Next \/ UNCHANGED SinkPhase
<1> SUFFICES ASSUME TypeOK, SinkFollowsPC, [Next]_vars
             PROVE  \/ SinkContract!Next
                    \/ UNCHANGED SinkPhase
  OBVIOUS
<1>a. sink \in {"idle", "writing", "final", "observed"}
  BY DEF TypeOK
<1> USE <1>a DEF SinkFollowsPC, ReadPoints, SinkContract!Next, SinkContract!NewSink,
                 SinkContract!Finalize, SinkContract!Observe, SinkContract!Cleanup,
                 SinkContract!Return, SinkPhase
\* Away from the sink's own calls it stays as it is; the call returns without one.
<1>1. ASSUME pc # "done", sink' = sink, pc' = "done" => sink = "idle"
      PROVE  \/ SinkContract!Next
             \/ UNCHANGED SinkPhase
  BY <1>1
<1>2. SinkFollowsPC'
  BY SinkStep
<1>3. CASE \/ Validate \/ Cancel \/ ReadCancelled \/ ReadFails \/ BadSeparator \/ EndOfInput
           \/ OpenArray \/ CloseArray \/ Comma \/ BeginCandidate \/ ScanFails \/ ScanValue
           \/ OnDecision
  <2>1. pc # "done"
    BY <1>3 DEF Validate, Cancel, ReadCancelled, ReadFails, BadSeparator, EndOfInput, OpenArray,
       CloseArray, Comma, BeginCandidate, ScanFails, ScanValue, OnDecision, ValuePoints
  <2>2. sink' = sink
    BY <1>3, Zenon DEF Validate, Cancel, ReadCancelled, ReadFails, BadSeparator, EndOfInput,
       OpenArray, CloseArray, Comma, BeginCandidate, ScanFails, ScanValue, OnDecision, capture
  <2> QED BY <1>1, <1>2, <2>1, <2>2
<1>4. CASE NewPayloadSink
  BY <1>4 DEF NewPayloadSink, Fail
<1>5. CASE Finalize
  <2>1. pc = "finalize" /\ sink = "writing"
    BY <1>5 DEF Finalize
  <2>2. \/ sink' = "final" /\ pc' = "value"
        \/ sink' = sink /\ pc' = "cleanup"
    BY <1>5, <2>1, CleanupThenShape DEF Finalize, ErrorCodes
  <2> QED BY <2>1, <2>2
<1>6. CASE OnValue
  <2>1. pc = "value"
    BY <1>6 DEF OnValue
  <2>2. CASE IncludeJSON
    <3>1. sink = "final"
      BY <2>1, <2>2
    <3>2. sink' = "observed"
      BY <1>6, <2>2, Zenon DEF OnValue, IncludeJSON
    <3> QED BY <1>2, <2>1, <3>1, <3>2
  <2>3. CASE ~IncludeJSON
    <3>1. sink' = sink
      BY <1>6, <2>3, Zenon DEF OnValue
    <3> QED BY <1>1, <1>2, <2>1, <3>1
  <2> QED BY <2>2, <2>3
<1>7. CASE CleanupPayload
  <2>1. pc = "cleanup" /\ sink' = "idle"
    BY <1>7 DEF CleanupPayload
  <2> QED BY <2>1
<1>8. CASE Returned \/ UNCHANGED vars
  <2>1. pc' = pc /\ sink' = sink
    BY <1>8 DEF Returned, vars, capture
  <2> QED BY <2>1
<1> QED BY <1>3, <1>4, <1>5, <1>6, <1>7, <1>8 DEF Next

\* Whatever fails in whatever order, each payload sink is written, finalized,
\* shown to OnValue and cleaned up in the documented order, exactly once, and
\* the call returns holding none (consumeCandidate, cleanupPayload).
THEOREM SinksFollowContract == Spec => SinksInOrder
<1>1. Init => SinkContract!Init /\ SinkFollowsPC
  BY DEF Init, SinkContract!Init, SinkFollowsPC, ReadPoints, SinkPhase
<1>2. TypeOK /\ SinkFollowsPC /\ [Next]_vars =>
        [SinkContract!Next]_SinkPhase
  BY SinkRefines
<1> QED
  BY <1>1, <1>2, SinkStep, TypeCorrect, PTL DEF Spec, SinksInOrder, SinkContract!Spec

--------------------------------------------------------------------------------
(***************************************************************************)
(* No read past a limit.                                                   *)
(***************************************************************************)

LEMMA LimitsKept ==
  req' = req /\ UNCHANGED counters => ApplyStopLimits' = ApplyStopLimits
BY DEF counters, ApplyStopLimits

\* A candidate that returns to a read point has found no limit reached.
LEMMA LeaveBelowLimits ==
  ASSUME NEW outcome, Leave(outcome), pc' \in ReadPoints
  PROVE  ApplyStopLimits = "none"
BY LeaveShape DEF ReadPoints

LEMMA CleanupThenBelowLimits ==
  ASSUME NEW outcome, NEW silent, CleanupThen(outcome, silent), pc' \in ReadPoints
  PROVE  ApplyStopLimits = "none"
BY CleanupThenShape DEF ReadPoints

LEMMA LimitsStep == LimitsFollowPC /\ TypeOK /\ [Next]_vars => LimitsFollowPC'
<1> SUFFICES ASSUME LimitsFollowPC, TypeOK, [Next]_vars PROVE LimitsFollowPC'
  OBVIOUS
<1>0. req' = req
  BY RequestKept
<1>1. ASSUME pc' # "validate", pc' \notin ReadPoints PROVE LimitsFollowPC'
  BY <1>1 DEF LimitsFollowPC, NoReadPastLimit
<1>2. ASSUME pc' # "validate", UNCHANGED counters, pc' \in ReadPoints => ApplyStopLimits = "none"
      PROVE  LimitsFollowPC'
  BY <1>0, <1>2, LimitsKept DEF LimitsFollowPC, NoReadPastLimit
<1>3. CASE Validate
  <2>1. UNCHANGED counters /\ pc' \in {"top", "done"} /\ pc = "validate"
    BY <1>3 DEF Validate, Fail
  <2>2. seen = 0 /\ hits = 0 /\ bytesRead = 0
    BY <2>1 DEF LimitsFollowPC
  <2>3. req \in Request
    BY RequestsAssumption DEF TypeOK
  <2>4. ApplyStopLimits = "none"
    BY <2>2, <2>3 DEF ApplyStopLimits, Request
  <2> QED BY <1>2, <2>1, <2>4
<1>4. CASE Cancel \/ Returned \/ UNCHANGED vars
  <2>1. pc' = pc /\ UNCHANGED counters
    BY <1>4, Zenon DEF Cancel, Returned, vars
  <2>2. UNCHANGED <<seen, hits, bytesRead>>
    BY <2>1 DEF counters
  <2> QED BY <1>0, <2>1, <2>2, LimitsKept DEF LimitsFollowPC, NoReadPastLimit
<1>5. CASE ReadCancelled \/ ReadFails \/ EndOfInput \/ BadSeparator
  <2>1. pc' = "done"
    BY <1>5 DEF ReadCancelled, ReadFails, EndOfInput, BadSeparator, Fail
  <2> QED BY <1>1, <2>1 DEF ReadPoints
<1>6. CASE OpenArray \/ CloseArray \/ Comma
  <2>1. pc \in ReadPoints /\ pc' \in ReadPoints /\ UNCHANGED counters
    BY <1>6 DEF OpenArray, CloseArray, Comma, ReadPoints, ValuePoints
  <2>2. ApplyStopLimits = "none"
    BY <2>1 DEF LimitsFollowPC, NoReadPastLimit
  <2> QED BY <1>2, <2>1, <2>2 DEF ReadPoints
<1>7. CASE BeginCandidate \/ NewPayloadSink
  <2>1. pc' \in {"sink", "scan", "done"}
    BY <1>7 DEF BeginCandidate, NewPayloadSink, Fail
  <2> QED BY <1>1, <2>1 DEF ReadPoints
<1>8. CASE ScanFails \/ ScanValue
  <2>1. \/ \E code \in ErrorCodes : CleanupThen(code, TRUE)
        \/ pc' = "decide"
    BY <1>8, Zenon DEF ScanFails, ScanValue, ErrorCodes
  <2>2. pc' \in {"cleanup", "done", "decide"}
    BY <2>1, CleanupThenShape DEF ErrorCodes
  <2> QED BY <1>1, <2>2 DEF ReadPoints
<1>9. CASE OnDecision \/ Finalize \/ OnValue
  <2>1. UNCHANGED counters
    BY <1>9, Zenon DEF OnDecision, Finalize, OnValue
  <2>2. \/ \E outcome : CleanupThen(outcome, FALSE)
        \/ \E outcome : Leave(outcome)
        \/ pc' \in {"finalize", "value"}
    BY <1>9 DEF OnDecision, AfterDecision, Finalize, OnValue
  <2>3. pc' # "validate"
    BY <2>2, CleanupThenShape, LeaveShape
  <2>4. pc' \in ReadPoints => ApplyStopLimits = "none"
    BY <2>2, CleanupThenBelowLimits, LeaveBelowLimits DEF ReadPoints
  <2> QED BY <1>2, <2>1, <2>3, <2>4
<1>10. CASE CleanupPayload
  <2>1. UNCHANGED counters
    BY <1>10 DEF CleanupPayload
  <2>2. Leave(pending.then) \/ pc' = "done"
    BY <1>10 DEF CleanupPayload, Fail
  <2>3. pc' # "validate"
    BY <2>2, LeaveShape
  <2>4. pc' \in ReadPoints => ApplyStopLimits = "none"
    BY <2>2, LeaveBelowLimits DEF ReadPoints
  <2> QED BY <1>2, <2>1, <2>3, <2>4
<1> QED
  BY <1>3, <1>4, <1>5, <1>6, <1>7, <1>8, <1>9, <1>10 DEF Next

LEMMA InitBelowLimits == Init => LimitsFollowPC
BY DEF Init, LimitsFollowPC, NoReadPastLimit, ReadPoints

\* For every input and request the stream stops at the first limit it reaches,
\* at any depth of nested arrays (applyStopLimits, consumeTopArray).
THEOREM LimitsHold == Spec => []NoReadPastLimit
<1>1. LimitsFollowPC => NoReadPastLimit
  BY DEF LimitsFollowPC
<1> QED BY <1>1, InitBelowLimits, LimitsStep, TypeCorrect, PTL DEF Spec

--------------------------------------------------------------------------------
(***************************************************************************)
(* OnValue receives whole payloads.                                        *)
(***************************************************************************)

\* A candidate whose root is discarded or whose capture is pruned cannot match.
LEMMA LossyCannotMatch ==
  ASSUME NEW v \in Verdicts, v.pruned \/ ShouldUseDiscardCapture
  PROVE  req.matchedOnly /\ v.matched = FALSE
BY DEF Verdicts, ShouldUseDiscardCapture, CapturePruneActive

LEMMA CaptureStep ==
  CaptureFollowsVerdict /\ TypeOK /\ [Next]_vars => CaptureFollowsVerdict'
<1> SUFFICES ASSUME CaptureFollowsVerdict, TypeOK, [Next]_vars PROVE CaptureFollowsVerdict'
  OBVIOUS
<1>0. req' = req /\ IncludeJSON' = IncludeJSON
  BY RequestKept, IncludeJSONKept
<1>1. ASSUME pc' \notin {"scan", "decide", "finalize", "value"} PROVE CaptureFollowsVerdict'
  BY <1>1 DEF CaptureFollowsVerdict
<1>2. ASSUME pc' = pc, UNCHANGED <<candidate, capture>> PROVE CaptureFollowsVerdict'
  BY <1>0, <1>2 DEF CaptureFollowsVerdict, candidate, capture, ShouldUseDiscardCapture, EmptySelector
<1>3. CASE Validate \/ ReadCancelled \/ ReadFails \/ EndOfInput \/ BadSeparator
           \/ OpenArray \/ CloseArray \/ Comma
  <2>1. pc' \in {"top", "first", "elem", "after", "done"}
    BY <1>3 DEF Validate, ReadCancelled, ReadFails, EndOfInput, BadSeparator, OpenArray,
       CloseArray, Comma, Fail
  <2> QED BY <1>1, <2>1
<1>4. CASE Cancel \/ Returned \/ UNCHANGED vars
  <2>1. pc' = pc /\ UNCHANGED <<candidate, capture>>
    BY <1>4, Zenon DEF Cancel, Returned, vars
  <2> QED BY <1>2, <2>1
<1>5. CASE BeginCandidate
  <2>1. pc' = IF IncludeJSON THEN "sink" ELSE "scan"
    BY <1>5 DEF BeginCandidate
  <2> QED BY <1>0, <2>1 DEF CaptureFollowsVerdict
<1>6. CASE NewPayloadSink
  <2>1. \/ pc' = "done"
        \/ pc' = "scan" /\ (discard' => ShouldUseDiscardCapture)
    BY <1>6, Zenon DEF NewPayloadSink, Fail
  <2>2. kind' = kind
    BY <1>6 DEF NewPayloadSink, candidate
  <2>3. ShouldUseDiscardCapture' = ShouldUseDiscardCapture
    BY <1>0, <2>2 DEF ShouldUseDiscardCapture, EmptySelector
  <2> QED BY <2>1, <2>3 DEF CaptureFollowsVerdict
<1>7. CASE ScanFails
  <2>1. \E code \in ErrorCodes : CleanupThen(code, TRUE)
    BY <1>7, Zenon DEF ScanFails, ErrorCodes
  <2>2. pc' \in {"cleanup", "done"}
    BY <2>1, CleanupThenShape DEF ErrorCodes
  <2> QED BY <1>1, <2>2
<1>8. CASE ScanValue
  <2>1. CASE CleanupThen("document_too_large", TRUE)
    <3>1. pc' \in {"cleanup", "done"}
      BY <2>1, CleanupThenShape DEF ErrorCodes
    <3> QED BY <1>1, <3>1
  <2>2. CASE \E v \in Verdicts : verdict' = v.matched /\ pruned' = v.pruned /\ pc' = "decide"
    <3>1. PICK v \in Verdicts : verdict' = v.matched /\ pruned' = v.pruned /\ pc' = "decide"
      BY <2>2
    <3>2. pc = "scan" /\ discard' = discard
      BY <1>8 DEF ScanValue
    <3>3. IncludeJSON /\ (discard' \/ pruned') => req.matchedOnly /\ ~verdict'
      BY <3>1, <3>2, LossyCannotMatch DEF CaptureFollowsVerdict
    <3> QED BY <1>0, <3>1, <3>3 DEF CaptureFollowsVerdict
  <2> QED BY <1>8, <2>1, <2>2, Zenon DEF ScanValue
<1>9. CASE OnDecision
  <2>1. pc = "decide" /\ UNCHANGED <<verdict, discard, pruned>>
    BY <1>9 DEF OnDecision, candidate, capture
  <2>2. \/ \E outcome : CleanupThen(outcome, FALSE)
        \/ ~(req.matchedOnly /\ ~verdict) /\ pc' \in {"finalize", "value"}
    BY <1>9 DEF OnDecision, AfterDecision
  <2>3. \/ pc' \in {"cleanup", "top", "after", "done"}
        \/ ~(req.matchedOnly /\ ~verdict) /\ pc' \in {"finalize", "value"}
    BY <2>2, CleanupThenShape
  <2> QED BY <1>0, <2>1, <2>3 DEF CaptureFollowsVerdict
<1>10. CASE Finalize
  <2>1. pc = "finalize" /\ UNCHANGED <<verdict, discard, pruned>>
    BY <1>10 DEF Finalize, candidate
  <2>2. CleanupThen("invalid_body", FALSE) \/ pc' = "value"
    BY <1>10, Zenon DEF Finalize
  <2>3. pc' \in {"cleanup", "done", "value"}
    BY <2>2, CleanupThenShape DEF ErrorCodes
  <2> QED BY <1>0, <2>1, <2>3 DEF CaptureFollowsVerdict
<1>11. CASE OnValue \/ CleanupPayload
  <2>1. \/ \E outcome : CleanupThen(outcome, FALSE)
        \/ \E outcome : Leave(outcome)
        \/ pc' = "done"
    BY <1>11 DEF OnValue, CleanupPayload, Fail
  <2>2. pc' \in {"cleanup", "top", "after", "done"}
    BY <2>1, CleanupThenShape, LeaveShape
  <2> QED BY <1>1, <2>2
<1> QED
  BY <1>3, <1>4, <1>5, <1>6, <1>7, <1>8, <1>9, <1>10, <1>11 DEF Next

\* Best-effort capture, which discards roots that cannot match and gives up
\* the capture of objects that no longer can, never shortens a payload that
\* OnValue receives (shouldUseDiscardCapture, canStillMatchObjectRoot).
THEOREM PayloadsAreWhole == Spec => []WholePayload
<1>1. Init => CaptureFollowsVerdict /\ SinkFollowsPC
  BY DEF Init, CaptureFollowsVerdict, SinkFollowsPC, ReadPoints
<1>2. TypeOK /\ CaptureFollowsVerdict /\ SinkFollowsPC => WholePayload
  BY DEF TypeOK, CaptureFollowsVerdict, SinkFollowsPC, WholePayload
<1> QED
  BY <1>1, <1>2, CaptureStep, SinkStep, TypeCorrect, PTL DEF Spec

--------------------------------------------------------------------------------
(***************************************************************************)
(* No candidate is lost or reported twice.                                 *)
(***************************************************************************)

\* A return that lets the stream go on has to have caught up with the counters.
LEMMA LeaveCaughtUp ==
  ASSUME NEW outcome, Leave(outcome), outcome = "next" => CaughtUp',
         hits' <= seen', delivered' <= seen'
  PROVE  CallbacksFollowCounters'
<1>1. CASE outcome = "next"
  <2>1. CaughtUp'
    BY <1>1
  <2>2. pc' \in {"top", "after", "done"}
    BY <1>1, LeaveShape DEF ErrorCodes
  <2> QED BY <2>1, <2>2 DEF CallbacksFollowCounters
<1>2. CASE outcome # "next"
  <2>1. pc' = "done" /\ (stop' = "callback_stop" \/ err' # "none")
    BY <1>2, LeaveShape DEF ErrorCodes
  <2> QED BY <2>1 DEF CallbacksFollowCounters, ReadPoints
<1> QED BY <1>1, <1>2

LEMMA CleanupThenCaughtUp ==
  ASSUME NEW outcome, NEW silent, CleanupThen(outcome, silent), outcome = "next" => CaughtUp',
         hits' <= seen', delivered' <= seen'
  PROVE  CallbacksFollowCounters'
<1>1. CASE sink = "idle"
  BY <1>1, LeaveCaughtUp DEF CleanupThen
<1>2. CASE sink # "idle"
  <2>1. pc' = "cleanup" /\ pending'.then = outcome
    BY <1>2, CleanupThenShape
  <2> QED BY <2>1 DEF CallbacksFollowCounters, ReadPoints
<1> QED BY <1>1, <1>2

LEMMA CaughtUpKept ==
  req' = req /\ UNCHANGED <<seen, hits, decided, delivered>> =>
    CaughtUp' = CaughtUp /\ Selected' = Selected
BY DEF CaughtUp, Selected

LEMMA CallbacksStep ==
  CallbacksFollowCounters /\ TypeOK /\ [Next]_vars => CallbacksFollowCounters'
<1> SUFFICES ASSUME CallbacksFollowCounters, TypeOK, [Next]_vars
             PROVE  CallbacksFollowCounters'
  OBVIOUS
<1>0. req' = req
  BY RequestKept
<1>a. hits <= seen /\ delivered <= seen
  BY DEF CallbacksFollowCounters
<1>b. seen \in Nat /\ hits \in Nat /\ decided \in Nat /\ delivered \in Nat
  BY DEF TypeOK
<1>1. ASSUME UNCHANGED <<seen, hits, decided, delivered>>, CaughtUp,
             pc' \in ReadPoints \cup {"sink", "scan", "done"}
      PROVE  CallbacksFollowCounters'
  <2>1. CaughtUp' /\ hits' <= seen' /\ delivered' <= seen'
    BY <1>0, <1>1, <1>a, CaughtUpKept
  <2> QED BY <1>1, <2>1 DEF CallbacksFollowCounters, ReadPoints
<1>2. ASSUME UNCHANGED <<seen, hits, decided, delivered>>, pc' = "done", err' \in ErrorCodes
      PROVE  CallbacksFollowCounters'
  BY <1>2, <1>a DEF CallbacksFollowCounters, ReadPoints, ErrorCodes
<1>3. CASE Validate
  <2>1. pc = "validate" /\ pc' \in {"top", "done"} /\ UNCHANGED <<seen, hits, decided, delivered>>
    BY <1>3 DEF Validate, Fail, counters, history
  <2> QED BY <1>1, <2>1 DEF CallbacksFollowCounters, ReadPoints
<1>4. CASE Cancel \/ Returned \/ UNCHANGED vars
  <2>1. UNCHANGED <<pc, pending, stop, err, candidate, counters, history>>
    BY <1>4, Zenon DEF Cancel, Returned, vars
  <2>2. UNCHANGED <<pc, pending, stop, err, verdict, seen, hits, decided, delivered>>
    BY <2>1 DEF candidate, counters, history
  <2>3. CaughtUp' = CaughtUp /\ Selected' = Selected
    BY <1>0, <2>2, CaughtUpKept
  <2> QED BY <1>0, <2>2, <2>3 DEF CallbacksFollowCounters
<1>5. CASE ReadCancelled \/ ReadFails \/ BadSeparator
  <2>1. UNCHANGED <<seen, hits, decided, delivered>>
    BY <1>5 DEF ReadCancelled, ReadFails, BadSeparator, counters, history
  <2>2. pc' = "done" /\ err' \in ErrorCodes
    BY <1>5 DEF ReadCancelled, ReadFails, BadSeparator, Fail, Surface, ErrorCodes
  <2> QED BY <1>2, <2>1, <2>2
<1>6. CASE EndOfInput
  <2>1. UNCHANGED <<seen, hits, decided, delivered>> /\ pc \in ReadPoints /\ pc' = "done"
    BY <1>6 DEF EndOfInput, Fail
  <2> QED BY <1>1, <2>1 DEF CallbacksFollowCounters
<1>7. CASE OpenArray \/ CloseArray \/ Comma \/ BeginCandidate
  <2>1. UNCHANGED <<seen, hits, decided, delivered>> /\ pc \in ReadPoints
    BY <1>7 DEF OpenArray, CloseArray, Comma, BeginCandidate, counters, history, ReadPoints,
       ValuePoints
  <2>2. pc' \in ReadPoints \cup {"sink", "scan"}
    BY <1>7 DEF OpenArray, CloseArray, Comma, BeginCandidate, ReadPoints
  <2> QED BY <1>1, <2>1, <2>2 DEF CallbacksFollowCounters
<1>8. CASE NewPayloadSink
  <2>1. UNCHANGED <<seen, hits, decided, delivered>> /\ pc = "sink" /\ pc' \in {"scan", "done"}
    BY <1>8 DEF NewPayloadSink, Fail, counters, history
  <2> QED BY <1>1, <2>1 DEF CallbacksFollowCounters
<1>9. CASE ScanFails
  <2>1. UNCHANGED <<seen, hits, decided, delivered>>
    BY <1>9 DEF ScanFails, counters
  <2>2. \E code \in ErrorCodes : CleanupThen(code, TRUE)
    BY <1>9, Zenon DEF ScanFails, ErrorCodes
  <2> QED BY <1>a, <2>1, <2>2, CleanupThenCaughtUp DEF ErrorCodes
<1>10. CASE ScanValue
  <2>1. pc = "scan" /\ seen' = seen + 1 /\ UNCHANGED <<decided, delivered>>
    BY <1>10 DEF ScanValue, history
  <2>2. CaughtUp
    BY <2>1 DEF CallbacksFollowCounters
  <2>3. CASE CleanupThen("document_too_large", TRUE) /\ hits' = hits
    <3>1. hits' <= seen' /\ delivered' <= seen'
      BY <1>a, <1>b, <2>1, <2>3
    <3> QED BY <2>3, <3>1, CleanupThenCaughtUp
  <2>4. CASE \E v \in Verdicts : /\ verdict' = v.matched /\ pc' = "decide"
                                /\ hits' = IF v.matched THEN hits + 1 ELSE hits
    <3>1. hits' = IF verdict' THEN hits + 1 ELSE hits
      BY <2>4
    <3>2. hits' <= seen' /\ delivered' <= seen'
      BY <1>a, <1>b, <2>1, <3>1
    <3>3. req.onDecision => decided' + 1 = seen'
      BY <1>b, <2>1, <2>2 DEF CaughtUp
    <3>4. req.onValue => IF req.matchedOnly /\ ~verdict' THEN delivered' = Selected'
                                                        ELSE delivered' + 1 = Selected'
      BY <1>0, <1>b, <2>1, <2>2, <3>1 DEF CaughtUp, Selected
    <3>5. pc' = "decide"
      BY <2>4
    <3> QED BY <1>0, <3>2, <3>3, <3>4, <3>5 DEF CallbacksFollowCounters, ReadPoints
  <2> QED BY <1>10, <2>3, <2>4, Zenon DEF ScanValue
<1>11. CASE OnDecision
  <2>1. pc = "decide" /\ UNCHANGED <<verdict, seen, hits, delivered>>
    BY <1>11 DEF OnDecision, candidate, counters
  <2>2. decided' = IF req.onDecision THEN decided + 1 ELSE decided
    BY <1>11 DEF OnDecision
  <2>3. req.onDecision => decided' = seen'
    BY <1>b, <2>1, <2>2 DEF CallbacksFollowCounters
  <2>4. hits' <= seen' /\ delivered' <= seen'
    BY <1>a, <2>1
  <2>5. Selected' = Selected
    BY <1>0, <2>1 DEF Selected
  <2>6. req.onValue => IF req.matchedOnly /\ ~verdict' THEN delivered' = Selected'
                                                      ELSE delivered' + 1 = Selected'
    BY <2>1, <2>5 DEF CallbacksFollowCounters
  <2>7. \/ req.matchedOnly /\ ~verdict /\ CleanupThen("next", FALSE)
        \/ \E outcome \in {"stop", "callback"} : CleanupThen(outcome, FALSE)
        \/ ~(req.matchedOnly /\ ~verdict) /\ pc' \in {"finalize", "value"}
    BY <1>11 DEF OnDecision, AfterDecision
  <2>8. CASE req.matchedOnly /\ ~verdict /\ CleanupThen("next", FALSE)
    <3>1. CaughtUp'
      BY <1>0, <2>1, <2>3, <2>6, <2>8 DEF CaughtUp
    <3> QED BY <2>4, <2>8, <3>1, CleanupThenCaughtUp
  <2>9. CASE \E outcome \in {"stop", "callback"} : CleanupThen(outcome, FALSE)
    BY <2>4, <2>9, CleanupThenCaughtUp
  <2>10. CASE ~(req.matchedOnly /\ ~verdict) /\ pc' \in {"finalize", "value"}
    BY <1>0, <2>1, <2>3, <2>4, <2>6, <2>10 DEF CallbacksFollowCounters, ReadPoints
  <2> QED BY <2>7, <2>8, <2>9, <2>10
<1>12. CASE Finalize
  <2>1. pc = "finalize" /\ UNCHANGED <<seen, hits, decided, delivered>>
    BY <1>12 DEF Finalize, counters, history
  <2>2. CleanupThen("invalid_body", FALSE) \/ pc' = "value"
    BY <1>12, Zenon DEF Finalize
  <2>3. CASE CleanupThen("invalid_body", FALSE)
    BY <1>a, <2>1, <2>3, CleanupThenCaughtUp
  <2>4. CASE pc' = "value"
    <3>1. Selected' = Selected
      BY <1>0, <2>1, CaughtUpKept
    <3> QED BY <1>0, <2>1, <2>4, <3>1 DEF CallbacksFollowCounters, ReadPoints
  <2> QED BY <2>2, <2>3, <2>4
<1>13. CASE OnValue
  <2>1. pc = "value" /\ UNCHANGED <<seen, hits, decided>>
    BY <1>13 DEF OnValue, counters
  <2>2. delivered' = IF req.onValue THEN delivered + 1 ELSE delivered
    BY <1>13 DEF OnValue
  <2>3. Selected' = Selected /\ Selected <= seen /\ Selected \in Nat
    BY <1>0, <1>a, <1>b, <2>1 DEF Selected
  <2>4. CaughtUp'
    BY <1>0, <1>b, <2>1, <2>2, <2>3 DEF CallbacksFollowCounters, CaughtUp
  <2>5. req.onValue => delivered' = Selected
    BY <1>b, <2>1, <2>2 DEF CallbacksFollowCounters
  <2>6. hits' <= seen' /\ delivered' <= seen'
    BY <1>a, <2>1, <2>2, <2>3, <2>5
  <2>7. \/ \E outcome : CleanupThen(outcome, FALSE)
        \/ \E outcome : Leave(outcome)
    BY <1>13 DEF OnValue
  <2> QED BY <2>4, <2>6, <2>7, CleanupThenCaughtUp, LeaveCaughtUp
<1>14. CASE CleanupPayload
  <2>1. pc = "cleanup" /\ UNCHANGED <<seen, hits, decided, delivered>>
    BY <1>14 DEF CleanupPayload, counters, history
  <2>2. CASE Leave(pending.then)
    <3>1. pending.then = "next" => CaughtUp'
      BY <1>0, <2>1, CaughtUpKept DEF CallbacksFollowCounters
    <3> QED BY <1>a, <2>1, <2>2, <3>1, LeaveCaughtUp
  <2>3. CASE Fail("internal")
    <3>1. pc' = "done" /\ err' \in ErrorCodes
      BY <2>3 DEF Fail, Surface, ErrorCodes
    <3> QED BY <1>2, <2>1, <3>1
  <2> QED BY <1>14, <2>2, <2>3, Zenon DEF CleanupPayload
<1> QED
  BY <1>3, <1>4, <1>5, <1>6, <1>7, <1>8, <1>9, <1>10, <1>11, <1>12, <1>13, <1>14 DEF Next

\* Whatever the input and wherever the stream stops without an error, every
\* candidate counted was decided once and, when selected, given to OnValue once
\* (consumeCandidate).
THEOREM NothingLostOrRepeated == Spec => []ReportedExactly
<1>1. Init => CallbacksFollowCounters
  BY DEF Init, CallbacksFollowCounters, CaughtUp, Selected, ReadPoints
<1>2. CallbacksFollowCounters => ReportedExactly
  BY DEF CallbacksFollowCounters, ReportedExactly, Settled, CaughtUp, Selected
<1> QED BY <1>1, <1>2, CallbacksStep, TypeCorrect, PTL DEF Spec

--------------------------------------------------------------------------------
(***************************************************************************)
(* What the caller of QueryStreamWithResult is told: the error of a bad    *)
(* body, the bytes read, the reason of an early stop, and the end of a     *)
(* call whose context is done.                                             *)
(***************************************************************************)

\* Nothing is reported before the end.
Ongoing == pc # "done" => stop = "none" /\ err = "none"

\* A candidate is accounted for before it is judged.
BytesFollowPC ==
  /\ pc \in {"decide", "finalize", "value"} => bytesRead = offset
  /\ pc = "cleanup" /\ pending.then \in {"next", "stop"} => bytesRead = offset
  /\ BytesExact

\* The counters reach a limit with the candidate at hand, if they do.
Below  == /\ req.maxMatches > 0 => hits < req.maxMatches
          /\ req.maxCandidates > 0 => seen < req.maxCandidates
AtMost == /\ req.maxMatches > 0 => hits <= req.maxMatches
          /\ req.maxCandidates > 0 => seen <= req.maxCandidates

CountersFollowPC ==
  /\ pc \in ReadPoints \cup {"validate", "sink", "scan"} => Below
  /\ AtMost
  /\ StopReasonExact

--------------------------------------------------------------------------------
(* How a candidate's return ends the call.                                    *)

LEMMA LeaveEnds ==
  ASSUME NEW outcome, Leave(outcome), stop = "none", err = "none"
  PROVE  /\ pc' # "done" => stop' = "none" /\ err' = "none"
         /\ \/ outcome = "next" /\ err' = "none" /\ stop' = ApplyStopLimits
            \/ outcome = "stop" /\ pc' = "done" /\ err' = "none" /\ stop' = "callback_stop"
            \/ /\ outcome \in ErrorCodes /\ pc' = "done" /\ stop' = "none" /\ err' = Surface(outcome)
               /\ err' \in ErrorCodes
<1>1. CASE outcome = "next" /\ Resume
  BY <1>1 DEF Resume
<1>2. CASE outcome = "stop" /\ pc' = "done" /\ stop' = "callback_stop" /\ UNCHANGED err
  BY <1>2
<1>3. CASE outcome \in ErrorCodes /\ Fail(outcome)
  BY <1>3 DEF Fail, Surface, ErrorCodes
<1> QED BY <1>1, <1>2, <1>3 DEF Leave

LEMMA CleanupThenEnds ==
  ASSUME NEW outcome, NEW silent, CleanupThen(outcome, silent), stop = "none", err = "none"
  PROVE  \/ sink = "idle" /\ Leave(outcome)
         \/ /\ sink # "idle" /\ pc' = "cleanup" /\ stop' = "none" /\ err' = "none"
            /\ pending' = [then |-> outcome, silent |-> silent]
BY DEF CleanupThen

\* What a step does to the end of the call: nothing, an error of its own, or
\* what the candidate's return does.
LEMMA Endings ==
  ASSUME Ongoing, TypeOK, pc # "done", Next
  PROVE  \/ UNCHANGED <<stop, err>>
         \/ pc' = "done" /\ stop' = "none" /\ err' \in ErrorCodes
         \/ \E outcome : Leave(outcome)
<1>0. stop = "none" /\ err = "none"
  BY DEF Ongoing
<1>1. CASE Validate \/ NewPayloadSink
  BY <1>0, <1>1 DEF Validate, NewPayloadSink, Fail, Surface, ErrorCodes
<1>2. CASE Cancel \/ OpenArray \/ CloseArray \/ Comma \/ BeginCandidate
  BY <1>2 DEF Cancel, OpenArray, CloseArray, Comma, BeginCandidate
<1>3. CASE ReadCancelled \/ ReadFails \/ EndOfInput \/ BadSeparator
  BY <1>0, <1>3 DEF ReadCancelled, ReadFails, EndOfInput, BadSeparator, Fail, Surface, ErrorCodes
<1>4. CASE ScanFails \/ ScanValue
  BY <1>0, <1>4, CleanupThenEnds DEF ScanFails, ScanValue
<1>5. CASE OnDecision \/ Finalize \/ OnValue
  BY <1>0, <1>5, CleanupThenEnds DEF OnDecision, AfterDecision, Finalize, OnValue
<1>6. CASE CleanupPayload
  BY <1>0, <1>6 DEF CleanupPayload, Fail, Surface, ErrorCodes
<1> QED
  BY <1>1, <1>2, <1>3, <1>4, <1>5, <1>6 DEF Next, Returned

\* A call that has returned has returned.
LEMMA DoneStays ==
  ASSUME [Next]_vars, pc = "done"
  PROVE  UNCHANGED vars
BY DEF Next, Validate, Cancel, ReadCancelled, ReadFails, EndOfInput, OpenArray, CloseArray,
       Comma, BadSeparator, BeginCandidate, NewPayloadSink, ScanFails, ScanValue, OnDecision,
       Finalize, OnValue, CleanupPayload, Returned, ReadPoints, ValuePoints

LEMMA OngoingStep == Ongoing /\ TypeOK /\ [Next]_vars => Ongoing'
<1> SUFFICES ASSUME Ongoing, TypeOK, [Next]_vars PROVE Ongoing'
  OBVIOUS
<1>1. CASE pc = "done" \/ UNCHANGED vars
  BY <1>1, DoneStays DEF vars, Ongoing
<1>2. CASE pc # "done" /\ Next
  <2>1. stop = "none" /\ err = "none"
    BY <1>2 DEF Ongoing
  <2> QED
    BY <1>2, <2>1, Endings, LeaveEnds DEF Ongoing
<1> QED
  BY <1>1, <1>2

--------------------------------------------------------------------------------
(* Bad input.                                                                 *)

LEMMA BadInputStep == BadInputReported /\ Ongoing /\ TypeOK /\ [Next]_vars => BadInputReported'
<1> SUFFICES ASSUME BadInputReported, Ongoing, TypeOK, [Next]_vars PROVE BadInputReported'
  OBVIOUS
<1>1. CASE UNCHANGED vars \/ pc = "done"
  BY <1>1, DoneStays DEF vars, history, BadInputReported
<1> SUFFICES ASSUME pc # "done", Next PROVE BadInputReported'
  BY <1>1
<1>2. stop = "none" /\ err = "none"
  BY DEF Ongoing
\* Where the bad input shows, it is reported, at once or after the cleanup.
<1>3. CASE ReadFails \/ BadSeparator
  BY <1>2, <1>3 DEF ReadFails, BadSeparator, Fail, Surface, BadInputReported
<1>4. CASE EndOfInput
  <2>1. pc # "cleanup"
    BY <1>4 DEF EndOfInput, ReadPoints
  <2>2. badInput = FALSE
    BY <2>1 DEF BadInputReported, TypeOK
  <2> QED
    BY <1>2, <1>4, <2>2 DEF EndOfInput, Fail, Surface, BadInputReported
<1>5. CASE ScanFails
  <2>1. badInput = FALSE
    BY <1>5 DEF ScanFails, BadInputReported, TypeOK
  <2>2. badInput' = FALSE \/ CleanupThen("invalid_body", TRUE)
    BY <1>5, <2>1 DEF ScanFails
  <2>3. CASE CleanupThen("invalid_body", TRUE)
    BY <1>2, <2>3, CleanupThenEnds, LeaveEnds DEF BadInputReported, Surface
  <2> QED
    BY <2>2, <2>3 DEF BadInputReported
<1>6. CASE CleanupPayload
  <2>1. badInput' = badInput
    BY <1>6 DEF CleanupPayload, history
  <2>2. badInput => Leave("invalid_body")
    BY <1>6 DEF CleanupPayload, BadInputReported
  <2> QED
    BY <1>2, <2>1, <2>2, LeaveEnds DEF BadInputReported, Surface
\* No other step follows bad input, but a cancellation, which changes nothing.
<1>7. CASE Cancel
  BY <1>7 DEF Cancel, history, BadInputReported
<1>8. CASE \/ Validate \/ ReadCancelled \/ OpenArray \/ CloseArray \/ Comma \/ BeginCandidate
           \/ NewPayloadSink \/ ScanValue \/ OnDecision \/ Finalize \/ OnValue
  <2>1. pc # "cleanup" /\ badInput' = badInput
    BY <1>8 DEF Validate, ReadCancelled, OpenArray, CloseArray, Comma, BeginCandidate,
       NewPayloadSink, ScanValue, OnDecision, Finalize, OnValue, ReadPoints, ValuePoints, history
  <2> QED
    BY <2>1 DEF BadInputReported
<1> QED
  BY <1>3, <1>4, <1>5, <1>6, <1>7, <1>8 DEF Next, Returned

\* A malformed body, or one that cannot be read, is what the caller is told,
\* whatever else goes wrong while the candidate is given up (consumeCandidate).
THEOREM BadInputSurfaces == Spec => []BadInputReported
<1>1. Init => Ongoing /\ BadInputReported
  BY DEF Init, Ongoing, BadInputReported
<1> QED
  BY <1>1, OngoingStep, BadInputStep, TypeCorrect, PTL DEF Spec

--------------------------------------------------------------------------------
(* Bytes.                                                                     *)

LEMMA BytesStep == BytesFollowPC /\ Ongoing /\ TypeOK /\ TypeOK' /\ [Next]_vars => BytesFollowPC'
<1> SUFFICES ASSUME BytesFollowPC, Ongoing, TypeOK, TypeOK', [Next]_vars PROVE BytesFollowPC'
  OBVIOUS
<1>1. CASE UNCHANGED vars \/ pc = "done"
  <2>1. UNCHANGED <<pc, err, pending, offset, bytesRead>>
    BY <1>1, DoneStays DEF vars, input, counters
  <2> QED
    BY <2>1 DEF BytesFollowPC, BytesExact
<1> SUFFICES ASSUME pc # "done", Next PROVE BytesFollowPC'
  BY <1>1
<1>2. stop = "none" /\ err = "none"
  BY DEF Ongoing
<1>3. offset \in Nat /\ bytesRead \in Nat /\ bytesRead <= offset
  BY DEF TypeOK, BytesFollowPC, BytesExact
\* A step that ends the call with an error, or goes on with the next token.
<1>4. ASSUME bytesRead' <= offset', pc' \in ReadPoints \cup {"sink", "scan", "done"},
             pc' = "done" => err' \in ErrorCodes
      PROVE  BytesFollowPC'
  BY <1>4 DEF BytesFollowPC, BytesExact, ReadPoints, ErrorCodes
\* A step at a point where everything is accounted for.
<1>5. ASSUME bytesRead' = offset' PROVE BytesFollowPC'
  <2>1. bytesRead' <= offset'
    BY <1>5 DEF TypeOK
  <2> QED
    BY <1>5, <2>1 DEF BytesFollowPC, BytesExact
<1>6. CASE Validate \/ NewPayloadSink \/ ReadCancelled \/ ReadFails
  BY <1>2, <1>3, <1>4, <1>6
     DEF Validate, NewPayloadSink, ReadCancelled, ReadFails, Fail, Surface, ErrorCodes, ReadPoints,
         input, counters
<1>7. CASE OpenArray \/ CloseArray \/ Comma \/ BeginCandidate \/ BadSeparator
  <2>1. bytesRead' <= offset'
    <3>1. PICK gap \in Gaps : ReadToken(gap)
      BY <1>7 DEF OpenArray, CloseArray, Comma, BeginCandidate, BadSeparator
    <3>2. offset' = offset + gap + 1 /\ bytesRead' = bytesRead /\ gap \in Nat
      BY <1>7, <3>1, GapsAssumption
         DEF ReadToken, OpenArray, CloseArray, Comma, BeginCandidate, BadSeparator, counters
    <3> QED
      BY <1>3, <3>2
  <2> QED
    BY <1>4, <1>7, <2>1
       DEF OpenArray, CloseArray, Comma, BeginCandidate, BadSeparator, Fail, Surface, ErrorCodes,
           ReadPoints
<1>8. CASE EndOfInput
  BY <1>3, <1>4, <1>5, <1>8, GapsAssumption DEF EndOfInput, Fail, Surface, ErrorCodes
<1>9. CASE Cancel
  BY <1>9 DEF Cancel, input, counters, BytesFollowPC, BytesExact
<1>10. CASE ScanFails
  <2>1. UNCHANGED <<offset, bytesRead>>
    BY <1>10 DEF ScanFails, input, counters
  <2>2. PICK code \in ErrorCodes : CleanupThen(code, TRUE)
    BY <1>10, Zenon DEF ScanFails, ErrorCodes
  <2>3. code \notin {"next", "stop"}
    BY DEF ErrorCodes
  <2>4. CASE Leave(code)
    BY <1>2, <1>3, <1>4, <2>1, <2>3, <2>4, LeaveEnds
  <2>5. CASE pc' = "cleanup" /\ pending' = [then |-> code, silent |-> TRUE]
    BY <1>3, <2>1, <2>3, <2>5 DEF BytesFollowPC, BytesExact
  <2> QED
    BY <1>2, <2>2, <2>4, <2>5, CleanupThenEnds
<1>11. CASE ScanValue
  BY <1>5, <1>11 DEF ScanValue
<1>12. CASE OnDecision \/ Finalize \/ OnValue
  BY <1>5, <1>12 DEF OnDecision, Finalize, OnValue, input, counters, BytesFollowPC
<1>13. CASE CleanupPayload
  <2>1. UNCHANGED <<offset, bytesRead>> /\ pc = "cleanup"
    BY <1>13 DEF CleanupPayload, input, counters
  <2>2. CASE pending.then \in {"next", "stop"}
    BY <1>5, <2>1, <2>2 DEF BytesFollowPC
  <2>3. CASE pending.then \notin {"next", "stop"}
    <3>1. pc' = "done" /\ err' \in ErrorCodes
      BY <1>2, <1>13, <2>3, LeaveEnds DEF CleanupPayload, Fail, Surface, ErrorCodes
    <3> QED
      BY <1>3, <1>4, <2>1, <3>1
  <2> QED
    BY <2>2, <2>3
<1> QED
  BY <1>6, <1>7, <1>8, <1>9, <1>10, <1>11, <1>12, <1>13 DEF Next, Returned

\* BytesRead is what the reader has consumed when a call ends without an error,
\* and never more (applied by consumeCandidate and at the end of the input).
THEOREM BytesAreExact == Spec => []BytesExact
<1>1. Init => Ongoing /\ BytesFollowPC
  BY DEF Init, Ongoing, BytesFollowPC, BytesExact
<1>2. BytesFollowPC => BytesExact
  BY DEF BytesFollowPC
<1> QED
  BY <1>1, <1>2, OngoingStep, BytesStep, TypeCorrect, PTL DEF Spec

--------------------------------------------------------------------------------
(* The reason of an early stop.                                               *)

\* The limits are the same as long as nothing is counted.
LEMMA LimitsUnmoved ==
  ASSUME req' = req, UNCHANGED <<seen, hits, bytesRead>>
  PROVE  ApplyStopLimits' = ApplyStopLimits /\ Below' = Below /\ AtMost' = AtMost
BY DEF ApplyStopLimits, Below, AtMost

\* A limit that is applied to counters that are at most at it is reached exactly.
LEMMA AppliedExactly ==
  ASSUME AtMost, req \in Request, hits \in Nat, seen \in Nat
  PROVE  /\ ApplyStopLimits = "match_limit" => hits = req.maxMatches
         /\ ApplyStopLimits = "candidate_limit" =>
              seen = req.maxCandidates /\ (req.maxMatches > 0 => hits < req.maxMatches)
         /\ ApplyStopLimits = "none" => Below
         /\ ApplyStopLimits # "callback_stop"
<1>1. req.maxMatches \in Nat /\ req.maxCandidates \in Nat
  BY DEF Request
<1> QED
  BY <1>1 DEF ApplyStopLimits, AtMost, Below

LEMMA StopStep == CountersFollowPC /\ Ongoing /\ TypeOK /\ [Next]_vars => CountersFollowPC'
<1> SUFFICES ASSUME CountersFollowPC, Ongoing, TypeOK, [Next]_vars PROVE CountersFollowPC'
  OBVIOUS
<1>0. req' = req /\ req \in Request /\ hits \in Nat /\ seen \in Nat
  BY RequestKept, RequestsAssumption DEF TypeOK
<1>1. CASE UNCHANGED vars \/ pc = "done"
  <2>1. UNCHANGED <<pc, err, stop, seen, hits, bytesRead>>
    BY <1>1, DoneStays DEF vars, counters
  <2> QED
    BY <1>0, <2>1, LimitsUnmoved DEF CountersFollowPC, StopReasonExact
<1> SUFFICES ASSUME pc # "done", Next PROVE CountersFollowPC'
  BY <1>1
<1>2. stop = "none" /\ err = "none" /\ AtMost
  BY DEF Ongoing, CountersFollowPC
\* A step that counts nothing and does not stop.
<1>3. ASSUME UNCHANGED <<seen, hits, bytesRead>>, stop' = "none",
             pc' \in ReadPoints \cup {"validate", "sink", "scan"} => Below
      PROVE  CountersFollowPC'
  BY <1>0, <1>2, <1>3, LimitsUnmoved DEF CountersFollowPC, StopReasonExact
\* A candidate's return, which counts nothing.
<1>4. ASSUME UNCHANGED <<seen, hits, bytesRead>>, NEW outcome, Leave(outcome)
      PROVE  CountersFollowPC'
  <2>1. CASE outcome = "next"
    <3>1. /\ stop' = ApplyStopLimits /\ err' = "none"
          /\ pc' # "done" => stop' = "none"
      BY <1>2, <1>4, <2>1, LeaveEnds DEF ErrorCodes
    <3>2. stop' # "none" => pc' = "done"
      BY <1>4, <2>1 DEF Leave, Resume, ErrorCodes
    <3>3. AtMost' /\ ApplyStopLimits' = ApplyStopLimits /\ Below' = Below
      BY <1>0, <1>2, <1>4, LimitsUnmoved
    <3>4. StopReasonExact'
      BY <1>0, <1>2, <1>4, <3>1, <3>2, <3>3, AppliedExactly DEF StopReasonExact
    <3>5. pc' \in ReadPoints \cup {"validate", "sink", "scan"} => Below'
      BY <1>0, <1>2, <3>1, <3>3, AppliedExactly DEF ReadPoints
    <3> QED
      BY <3>3, <3>4, <3>5 DEF CountersFollowPC
  <2>2. CASE outcome = "stop"
    <3>1. pc' = "done" /\ err' = "none" /\ stop' = "callback_stop"
      BY <1>2, <1>4, <2>2, LeaveEnds DEF ErrorCodes
    <3> QED
      BY <1>0, <1>2, <1>4, <3>1, LimitsUnmoved DEF CountersFollowPC, StopReasonExact, ReadPoints
  <2>3. CASE outcome \in ErrorCodes
    <3>1. pc' = "done" /\ stop' = "none"
      BY <1>2, <1>4, <2>3, LeaveEnds DEF ErrorCodes
    <3> QED
      BY <1>3, <1>4, <3>1 DEF ReadPoints
  <2> QED
    BY <1>2, <1>4, <2>1, <2>2, <2>3, LeaveEnds
<1>5. ASSUME UNCHANGED <<seen, hits, bytesRead>>, NEW outcome, NEW silent, CleanupThen(outcome, silent)
      PROVE  CountersFollowPC'
  <2>1. CASE Leave(outcome)
    BY <1>4, <1>5, <2>1
  <2>2. CASE pc' = "cleanup" /\ stop' = "none"
    BY <1>3, <1>5, <2>2 DEF ReadPoints
  <2> QED
    BY <1>2, <1>5, <2>1, <2>2, CleanupThenEnds
<1>6. CASE Validate \/ NewPayloadSink \/ ReadCancelled \/ ReadFails \/ BadSeparator
  <2>1. UNCHANGED <<seen, hits, bytesRead, stop>>
    BY <1>6 DEF Validate, NewPayloadSink, ReadCancelled, ReadFails, BadSeparator, Fail, counters
  <2>2. pc \in ReadPoints \cup {"validate", "sink", "scan"}
    BY <1>6 DEF Validate, NewPayloadSink, ReadCancelled, ReadFails, BadSeparator, ReadPoints
  <2> QED
    BY <1>2, <1>3, <2>1, <2>2 DEF CountersFollowPC
<1>7. CASE OpenArray \/ CloseArray \/ Comma \/ BeginCandidate
  <2>1. UNCHANGED <<seen, hits, bytesRead, stop>>
    BY <1>7 DEF OpenArray, CloseArray, Comma, BeginCandidate, counters
  <2>2. pc \in ReadPoints
    BY <1>7 DEF OpenArray, CloseArray, Comma, BeginCandidate, ReadPoints, ValuePoints
  <2> QED
    BY <1>2, <1>3, <2>1, <2>2 DEF CountersFollowPC
<1>8. CASE EndOfInput
  <2>1. UNCHANGED <<seen, hits, stop>> /\ pc' = "done"
    BY <1>8 DEF EndOfInput, Fail
  <2>2. AtMost'
    BY <1>0, <1>2, <2>1 DEF AtMost
  <2> QED
    BY <1>2, <2>1, <2>2 DEF CountersFollowPC, StopReasonExact, ReadPoints
<1>9. CASE Cancel
  <2>1. UNCHANGED <<pc, seen, hits, bytesRead, stop>>
    BY <1>9 DEF Cancel, counters
  <2> QED
    BY <1>2, <1>3, <2>1 DEF CountersFollowPC
<1>10. CASE ScanFails
  <2>1. UNCHANGED <<seen, hits, bytesRead>>
    BY <1>10 DEF ScanFails, counters
  <2> QED
    BY <1>5, <1>10, <2>1 DEF ScanFails
<1>11. CASE ScanValue
  <2>1. Below
    BY <1>11 DEF ScanValue, CountersFollowPC
  <2>2. seen' = seen + 1 /\ (hits' = hits \/ hits' = hits + 1)
    BY <1>11, Zenon DEF ScanValue
  <2>3. AtMost'
    <3>1. req.maxMatches \in Nat /\ req.maxCandidates \in Nat
      BY <1>0 DEF Request
    <3> QED
      BY <1>0, <2>1, <2>2, <3>1 DEF Below, AtMost
  <2>4. CleanupThen("document_too_large", TRUE) \/ (pc' = "decide" /\ UNCHANGED <<stop, err>>)
    BY <1>11, Zenon DEF ScanValue
  <2>5. stop' = "none" /\ pc' \in {"cleanup", "done", "decide"}
    BY <1>2, <2>4, CleanupThenEnds, LeaveEnds DEF ErrorCodes
  <2> QED
    BY <2>3, <2>5 DEF CountersFollowPC, StopReasonExact, ReadPoints
<1>12. CASE OnDecision \/ Finalize \/ OnValue
  <2>1. UNCHANGED <<seen, hits, bytesRead>>
    BY <1>12 DEF OnDecision, Finalize, OnValue, counters
  <2>2. \/ \E outcome : CleanupThen(outcome, FALSE)
        \/ Leave("next")
        \/ pc' \in {"finalize", "value"} /\ UNCHANGED stop
    BY <1>12 DEF OnDecision, AfterDecision, Finalize, OnValue
  <2>3. CASE pc' \in {"finalize", "value"} /\ UNCHANGED stop
    BY <1>2, <1>3, <2>1, <2>3 DEF ReadPoints
  <2> QED
    BY <1>4, <1>5, <2>1, <2>2, <2>3
<1>13. CASE CleanupPayload
  <2>1. UNCHANGED <<seen, hits, bytesRead>>
    BY <1>13 DEF CleanupPayload, counters
  <2>2. Leave(pending.then) \/ Fail("internal")
    BY <1>13, Zenon DEF CleanupPayload
  <2>3. CASE Fail("internal")
    BY <1>2, <1>3, <2>1, <2>3 DEF Fail, ReadPoints
  <2> QED
    BY <1>4, <2>1, <2>2, <2>3
<1> QED
  BY <1>6, <1>7, <1>8, <1>9, <1>10, <1>11, <1>12, <1>13 DEF Next, Returned

\* The reason of an early stop is the limit that was reached, to the candidate,
\* in the order in which the limits are applied (applyStopLimits).
THEOREM StopReasonIsExact == Spec => []StopReasonExact
<1>1. Init => Ongoing /\ CountersFollowPC
  <2> SUFFICES ASSUME Init PROVE Ongoing /\ CountersFollowPC
    OBVIOUS
  <2>1. req.maxMatches \in Nat /\ req.maxCandidates \in Nat
    BY RequestsAssumption DEF Init, Request
  <2>2. Below /\ AtMost
    BY <2>1 DEF Init, Below, AtMost
  <2> QED
    BY <2>2 DEF Init, Ongoing, CountersFollowPC, StopReasonExact
<1>2. CountersFollowPC => StopReasonExact
  BY DEF CountersFollowPC
<1> QED
  BY <1>1, <1>2, OngoingStep, StopStep, TypeCorrect, PTL DEF Spec

--------------------------------------------------------------------------------
(* Cancellation.                                                              *)

\* Once the context is done no candidate is completed, and the next read ends
\* the call (the context check of the reader).
THEOREM CancelledCallEnds == Spec => CancelEndsScan
<1>1. [Next]_vars =>
        [cancelled => /\ seen' = seen /\ tokens' = tokens
                      /\ pc \in ReadPoints => pc' = "done" /\ err' = "context_canceled"]_vars
  <2> SUFFICES ASSUME Next, cancelled
               PROVE  /\ seen' = seen /\ tokens' = tokens
                      /\ pc \in ReadPoints => pc' = "done" /\ err' = "context_canceled"
    OBVIOUS
  <2>1. CASE ReadCancelled
    BY <2>1 DEF ReadCancelled, Fail, Surface, input, counters
  <2>2. CASE Validate \/ NewPayloadSink \/ ScanFails \/ OnDecision \/ Finalize \/ OnValue
             \/ CleanupPayload \/ Returned
    BY <2>2 DEF Validate, NewPayloadSink, ScanFails, OnDecision, Finalize, OnValue, CleanupPayload,
                Returned, vars, input, counters, ReadPoints
  <2> QED
    BY <2>1, <2>2 DEF Next, Cancel, ReadFails, EndOfInput, OpenArray, CloseArray, Comma,
                      BadSeparator, BeginCandidate, ScanValue, ReadToken
<1> QED
  BY <1>1, PTL DEF Spec, CancelEndsScan

================================================================================
