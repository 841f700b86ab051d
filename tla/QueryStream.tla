------------------------------ MODULE QueryStream ------------------------------
(***************************************************************************)
(* One call of QueryStreamWithResult: the scan loop over top-level values, *)
(* the flattening of top-level arrays, the life of a candidate (sink,      *)
(* scan, verdict, OnDecision, Finalize, OnValue, Cleanup), the stop limits *)
(* and the error that the caller sees.                                     *)
(*                                                                         *)
(* The input is chosen token by token by the environment; a candidate is   *)
(* reduced to its kind, its size and the verdict of the selector engine.   *)
(* Every call out of the loop (reader, sink, callbacks) is one step, and   *)
(* the context may be cancelled by another goroutine between any two.      *)
(***************************************************************************)
EXTENDS Naturals

CONSTANTS Requests,   \* the requests a caller may pass
          Sizes,      \* sizes, in bytes, of candidates after their first byte
          Gaps,       \* amounts of whitespace that may precede a token
          MaxTokens,  \* bound: the input ends after this many tokens
          MaxDepth,   \* bound: nesting of top-level arrays
          Faults      \* what the environment may make fail

Request == [mode: {"auto", "decision", "plus", "unknown"},
            includeJSON: BOOLEAN, matchedOnly: BOOLEAN, bestEffort: BOOLEAN,
            selector: {"empty", "compiled", "invalid"}, plan: BOOLEAN,
            onDecision: BOOLEAN, onValue: BOOLEAN,
            factory: BOOLEAN, disableSpool: BOOLEAN,
            maxCandidateBytes: Nat, maxMatches: Nat,
            maxCandidates: Nat, maxBytesRead: Nat]

AllFaults == {"io", "json", "factory", "write", "finalize", "cleanup", "callback"}

ASSUME RequestsAssumption == Requests \subseteq Request
ASSUME SizesAssumption    == Sizes \subseteq Nat
ASSUME GapsAssumption     == Gaps \subseteq Nat
ASSUME FaultsAssumption   == Faults \subseteq AllFaults
ASSUME BoundsAssumption   == MaxTokens \in Nat /\ MaxDepth \in Nat

VARIABLES
  req,        \* the request
  pc,         \* where the call is
  depth,      \* open top-level arrays (recursion depth of consumeTopArray)
  tokens,     \* tokens supplied so far (bounds the input)
  offset,     \* reader.Offset()
  started,    \* s.candidateStart
  kind,       \* "object" or "other": the root of the current candidate
  verdict,    \* engine.match of the current candidate
  sink,       \* phase of s.payload, "idle" when it is nil
  discard,    \* s.payload is a queryDiscardPayloadSink
  pruned,     \* s.captureDisabled: part of the candidate was not captured
  pending,    \* what consumeCandidate returns once the sink is cleaned up
  seen,       \* result.CandidatesSeen
  hits,       \* result.CandidatesMatched
  bytesRead,  \* result.BytesRead (LastOffset is always assigned with it)
  stop,       \* result.StopReason, "none" while ~StoppedEarly
  err,        \* code of the error returned, "none" for nil
  cancelled,  \* the request's context is done
  decided,    \* history: calls of OnDecision
  delivered,  \* history: calls of OnValue
  badInput    \* history: the body was malformed or its reader failed

input     == <<depth, tokens, offset>>
candidate == <<started, kind, verdict>>
capture   == <<sink, discard, pruned>>
counters  == <<seen, hits, bytesRead>>
history   == <<decided, delivered, badInput>>
vars == <<req, pc, input, candidate, capture, pending, counters, stop, err,
          cancelled, history>>

ReadPoints  == {"top", "first", "elem", "after"}
ValuePoints == {"top", "first", "elem"}
Points == ReadPoints \cup
  {"validate", "sink", "scan", "decide", "finalize", "value", "cleanup", "done"}
StopReasons == {"none", "match_limit", "candidate_limit", "byte_limit", "callback_stop"}
ErrorCodes  == {"invalid_body", "invalid_selector", "document_too_large",
                "context_canceled", "internal", "callback"}
Outcomes == {"next", "stop"} \cup ErrorCodes

--------------------------------------------------------------------------------
(* The request.                                                               *)

AskedForJSON == req.mode = "plus" \/ (req.mode = "auto" /\ req.includeJSON)
IncludeJSON  == AskedForJSON /\ req.onValue
EmptySelector == ~req.plan /\ req.selector = "empty"

\* Requests that are refused before a byte is read.
BadRequest ==
  \/ ~req.onValue /\ ~req.onDecision
  \/ req.mode = "unknown"
  \/ req.mode = "plus" /\ ~req.onValue
  \/ AskedForJSON /\ req.disableSpool /\ ~req.factory
  \/ req.plan /\ req.selector # "empty"

(* Capture policy: roots that cannot match need no payload.                   *)

\* Mutant: the root is discarded although OnValue sees unmatched candidates.
DiscardUnlessAll == /\ req.bestEffort
                    /\ ~EmptySelector
                    /\ kind # "object"

ShouldUseDiscardCapture == /\ req.bestEffort
                           /\ req.matchedOnly
                           /\ ~EmptySelector
                           /\ kind # "object"

CapturePruneActive == /\ kind = "object"
                      /\ req.bestEffort
                      /\ req.matchedOnly
                      /\ ~EmptySelector

\* What the engine may say of a candidate: whether it matches, and whether
\* the capture was given up while scanning, which the engine only allows
\* when no continuation can match (module SelectorProgram).
Verdicts ==
  {v \in [matched: BOOLEAN, pruned: BOOLEAN] :
     /\ EmptySelector => v.matched
     /\ ~EmptySelector /\ kind # "object" => ~v.matched
     /\ v.pruned => IncludeJSON /\ CapturePruneActive /\ ~v.matched}

--------------------------------------------------------------------------------
(* How consumeCandidate returns to its caller.                                *)

\* Mutant: the order of the limits is swapped.
StopCandidatesFirst ==
  IF req.maxCandidates > 0 /\ seen >= req.maxCandidates THEN "candidate_limit"
  ELSE IF req.maxMatches > 0 /\ hits >= req.maxMatches THEN "match_limit"
  ELSE IF req.maxBytesRead > 0 /\ bytesRead >= req.maxBytesRead THEN "byte_limit"
  ELSE "none"

ApplyStopLimits ==
  IF req.maxMatches > 0 /\ hits >= req.maxMatches THEN "match_limit"
  ELSE IF req.maxCandidates > 0 /\ seen >= req.maxCandidates THEN "candidate_limit"
  ELSE IF req.maxBytesRead > 0 /\ bytesRead >= req.maxBytesRead THEN "byte_limit"
  ELSE "none"

\* consumeTopArray checks stopRequested after every element.
ResumePoint == IF depth = 0 THEN "top" ELSE "after"

\* A candidate of a top-level array returns through the wrapStreamError of the
\* array, which turns an error that is no *StreamError into invalid_body.
Surface(code) == IF code = "callback" /\ depth > 0 THEN "invalid_body" ELSE code

Fail(code) == pc' = "done" /\ err' = Surface(code) /\ UNCHANGED stop

\* Mutant: consumeTopArray does not look at stopRequested.
ResumeInArray ==
  /\ stop' = ApplyStopLimits
  /\ pc' = IF stop' # "none" /\ depth = 0 THEN "done" ELSE ResumePoint
  /\ UNCHANGED err

Resume ==
  /\ stop' = ApplyStopLimits
  /\ pc' = IF stop' # "none" THEN "done" ELSE ResumePoint
  /\ UNCHANGED err

Leave(outcome) ==
  \/ outcome = "next" /\ Resume
  \/ outcome = "stop" /\ pc' = "done" /\ stop' = "callback_stop" /\ UNCHANGED err
  \/ outcome \in ErrorCodes /\ Fail(outcome)

\* Clean the sink up, if there is one, and return; silent when the error of
\* Cleanup is dropped in favour of the one already at hand.
CleanupThen(outcome, silent) ==
  IF sink = "idle"
  THEN Leave(outcome) /\ UNCHANGED pending
  ELSE /\ pc' = "cleanup"
       /\ pending' = [then |-> outcome, silent |-> silent]
       /\ UNCHANGED <<stop, err>>

--------------------------------------------------------------------------------
(* The request is checked before the first read.                              *)

Validate ==
  /\ pc = "validate"
  /\ \/ BadRequest /\ Fail("invalid_body")
     \/ ~BadRequest /\ ~req.plan /\ req.selector = "invalid" /\ Fail("invalid_selector")
     \/ /\ ~BadRequest /\ (req.plan \/ req.selector # "invalid")
        /\ pc' = "top" /\ UNCHANGED <<stop, err>>
  /\ UNCHANGED <<req, input, candidate, capture, pending, counters, cancelled, history>>

\* Another goroutine cancels the context of the request.
Cancel ==
  /\ pc # "done" /\ ~cancelled
  /\ cancelled' = TRUE
  /\ UNCHANGED <<req, pc, input, candidate, capture, pending, counters, stop, err, history>>

--------------------------------------------------------------------------------
(* Framing: QueryStreamWithResult's loop at depth 0, consumeTopArray deeper.  *)

\* Mutant: the context is not looked at between candidates.
ReadTokenUnchecked(gap) ==
  /\ tokens < MaxTokens
  /\ tokens' = tokens + 1
  /\ offset' = offset + gap + 1

\* The reader checks the context before every byte it hands out.
ReadToken(gap) ==
  /\ ~cancelled
  /\ tokens < MaxTokens
  /\ tokens' = tokens + 1
  /\ offset' = offset + gap + 1

ReadCancelled ==
  /\ pc \in ReadPoints /\ cancelled
  /\ Fail("context_canceled")
  /\ UNCHANGED <<req, input, candidate, capture, pending, counters, cancelled, history>>

ReadFails ==
  /\ pc \in ReadPoints /\ ~cancelled /\ "io" \in Faults
  /\ Fail("invalid_body")
  /\ badInput' = TRUE
  /\ UNCHANGED <<req, input, candidate, capture, pending, counters, cancelled, decided, delivered>>

\* Mutant: BytesRead keeps the end of the last candidate at the end of input.
EndOfInputUncounted ==
  /\ pc \in ReadPoints /\ ~cancelled
  /\ \/ /\ pc = "top"
        /\ \E gap \in Gaps : offset' = offset + gap
        /\ pc' = "done" /\ UNCHANGED <<stop, err, badInput>>
     \/ /\ pc # "top"
        /\ Fail("invalid_body") /\ badInput' = TRUE
        /\ UNCHANGED offset
  /\ UNCHANGED <<req, depth, tokens, candidate, capture, pending, counters, cancelled,
                 decided, delivered>>

\* End of input: the normal end between top-level values, an error inside an array.
EndOfInput ==
  /\ pc \in ReadPoints /\ ~cancelled
  /\ \/ /\ pc = "top"
        /\ \E gap \in Gaps : offset' = offset + gap /\ bytesRead' = offset'
        /\ pc' = "done" /\ UNCHANGED <<stop, err, badInput>>
     \/ /\ pc # "top"
        /\ Fail("invalid_body") /\ badInput' = TRUE
        /\ UNCHANGED <<offset, bytesRead>>
  /\ UNCHANGED <<req, depth, tokens, candidate, capture, pending, seen, hits, cancelled,
                 decided, delivered>>

OpenArray ==
  /\ pc \in ValuePoints /\ depth < MaxDepth
  /\ \E gap \in Gaps : ReadToken(gap)
  /\ depth' = depth + 1 /\ pc' = "first"
  /\ UNCHANGED <<req, candidate, capture, pending, counters, stop, err, cancelled, history>>

\* The end of an array ends the candidate of its parent, whose stop limits
\* were applied by the elements.
CloseArray ==
  /\ pc \in {"first", "after"} /\ depth > 0
  /\ \E gap \in Gaps : ReadToken(gap)
  /\ depth' = depth - 1
  /\ pc' = IF depth' = 0 THEN "top" ELSE "after"
  /\ UNCHANGED <<req, candidate, capture, pending, counters, stop, err, cancelled, history>>

Comma ==
  /\ pc = "after"
  /\ \E gap \in Gaps : ReadToken(gap)
  /\ pc' = "elem"
  /\ UNCHANGED <<req, depth, candidate, capture, pending, counters, stop, err, cancelled, history>>

BadSeparator ==
  /\ pc = "after" /\ "json" \in Faults
  /\ \E gap \in Gaps : ReadToken(gap)
  /\ Fail("invalid_body") /\ badInput' = TRUE
  /\ UNCHANGED <<req, depth, candidate, capture, pending, counters, cancelled, decided, delivered>>

--------------------------------------------------------------------------------
(* One candidate.                                                             *)

BeginCandidate ==
  /\ pc \in ValuePoints
  /\ \E gap \in Gaps : ReadToken(gap) /\ started' = offset + gap
  /\ kind' \in {"object", "other"}
  /\ verdict' = FALSE
  /\ pc' = IF IncludeJSON THEN "sink" ELSE "scan"
  /\ UNCHANGED <<req, depth, capture, pending, counters, stop, err, cancelled, history>>

NewPayloadSink ==
  /\ pc = "sink"
  /\ \/ /\ ShouldUseDiscardCapture
        /\ sink' = "writing" /\ discard' = TRUE /\ pc' = "scan" /\ UNCHANGED <<stop, err>>
     \/ /\ ~ShouldUseDiscardCapture
        /\ sink' = "writing" /\ discard' = FALSE /\ pc' = "scan" /\ UNCHANGED <<stop, err>>
     \/ /\ ~ShouldUseDiscardCapture /\ req.factory /\ "factory" \in Faults
        /\ Fail("invalid_body")
        /\ UNCHANGED <<sink, discard>>
  /\ pruned' = FALSE
  /\ UNCHANGED <<req, input, candidate, pending, counters, cancelled, history>>

\* scanValue stops at malformed JSON, a failing reader, a done context or a
\* failing write to the sink; whatever Cleanup says then is dropped.
ScanFails ==
  /\ pc = "scan"
  /\ \/ /\ cancelled
        /\ CleanupThen("context_canceled", TRUE) /\ UNCHANGED badInput
     \/ /\ ~cancelled /\ {"json", "io"} \cap Faults # {}
        /\ CleanupThen("invalid_body", TRUE) /\ badInput' = TRUE
     \/ /\ ~cancelled /\ "write" \in Faults /\ sink # "idle" /\ ~discard
        /\ CleanupThen("invalid_body", TRUE) /\ UNCHANGED badInput
  /\ UNCHANGED <<req, input, candidate, capture, counters, cancelled, decided, delivered>>

TooLarge == req.maxCandidateBytes > 0 /\ offset' - started > req.maxCandidateBytes

\* Mutant: the return for an oversized candidate forgets its sink.
ScanValueLeaky ==
  /\ pc = "scan" /\ ~cancelled
  /\ \E size \in Sizes : offset' = offset + size
  /\ seen' = seen + 1
  /\ bytesRead' = offset'
  /\ \/ /\ TooLarge
        /\ Fail("document_too_large")
        /\ UNCHANGED <<verdict, pruned, hits, pending>>
     \/ /\ ~TooLarge
        /\ \E v \in Verdicts :
             /\ verdict' = v.matched
             /\ pruned' = v.pruned
             /\ hits' = IF v.matched THEN hits + 1 ELSE hits
        /\ pc' = "decide"
        /\ UNCHANGED <<pending, stop, err>>
  /\ UNCHANGED <<req, depth, tokens, started, kind, sink, discard, cancelled, history>>

\* The candidate is read to its end, counted, measured and judged.  An
\* oversized one is counted, but neither judged nor shown to a callback.
ScanValue ==
  /\ pc = "scan" /\ ~cancelled
  /\ \E size \in Sizes : offset' = offset + size
  /\ seen' = seen + 1
  /\ bytesRead' = offset'
  /\ \/ /\ TooLarge
        /\ CleanupThen("document_too_large", TRUE)
        /\ UNCHANGED <<verdict, pruned, hits>>
     \/ /\ ~TooLarge
        /\ \E v \in Verdicts :
             /\ verdict' = v.matched
             /\ pruned' = v.pruned
             /\ hits' = IF v.matched THEN hits + 1 ELSE hits
        /\ pc' = "decide"
        /\ UNCHANGED <<pending, stop, err>>
  /\ UNCHANGED <<req, depth, tokens, started, kind, sink, discard, cancelled, history>>

\* Mutant: unmatched candidates are skipped whether or not MatchedOnly is set.
AfterDecisionSkipping ==
  IF ~verdict THEN CleanupThen("next", FALSE)
  ELSE /\ pc' = IF IncludeJSON THEN "finalize" ELSE "value"
       /\ UNCHANGED <<pending, stop, err>>

AfterDecision ==
  IF req.matchedOnly /\ ~verdict THEN CleanupThen("next", FALSE)
  ELSE /\ pc' = IF IncludeJSON THEN "finalize" ELSE "value"
       /\ UNCHANGED <<pending, stop, err>>

OnDecision ==
  /\ pc = "decide"
  /\ \/ ~req.onDecision /\ AfterDecision /\ UNCHANGED decided
     \/ /\ req.onDecision /\ decided' = decided + 1
        /\ \/ AfterDecision
           \/ CleanupThen("stop", FALSE)
           \/ "callback" \in Faults /\ CleanupThen("callback", FALSE)
  /\ UNCHANGED <<req, input, candidate, capture, counters, cancelled, delivered, badInput>>

Finalize ==
  /\ pc = "finalize"
  /\ \/ /\ sink' = "final" /\ pc' = "value" /\ UNCHANGED <<pending, stop, err>>
     \/ /\ "finalize" \in Faults /\ ~discard
        /\ CleanupThen("invalid_body", FALSE) /\ UNCHANGED sink
  /\ UNCHANGED <<req, input, candidate, discard, pruned, counters, cancelled, history>>

OnValue ==
  /\ pc = "value"
  /\ IF req.onValue
     THEN /\ delivered' = delivered + 1
          /\ sink' = IF IncludeJSON THEN "observed" ELSE sink
          /\ \/ CleanupThen("next", FALSE)
             \/ CleanupThen("stop", FALSE)
             \/ "callback" \in Faults /\ CleanupThen("callback", FALSE)
     ELSE Leave("next") /\ UNCHANGED <<sink, delivered, pending>>
  /\ UNCHANGED <<req, input, candidate, discard, pruned, counters, cancelled, decided, badInput>>

\* Mutant: an error of Cleanup outranks that of the scan, too.
CleanupPayloadLoud ==
  /\ pc = "cleanup"
  /\ sink' = "idle"
  /\ \/ Leave(pending.then)
     \/ "cleanup" \in Faults /\ ~discard /\ Fail("internal")
  /\ UNCHANGED <<req, input, candidate, discard, pruned, pending, counters, cancelled, history>>

\* cleanupPayload; an error of Cleanup outranks what the callback returned.
CleanupPayload ==
  /\ pc = "cleanup"
  /\ sink' = "idle"
  /\ \/ Leave(pending.then)
     \/ /\ "cleanup" \in Faults /\ ~discard
        /\ IF pending.silent THEN Leave(pending.then) ELSE Fail("internal")
  /\ UNCHANGED <<req, input, candidate, discard, pruned, pending, counters, cancelled, history>>

--------------------------------------------------------------------------------

Init ==
  /\ req \in Requests
  /\ pc = "validate"
  /\ depth = 0 /\ tokens = 0 /\ offset = 0
  /\ started = 0 /\ kind = "other" /\ verdict = FALSE
  /\ sink = "idle" /\ discard = FALSE /\ pruned = FALSE
  /\ pending = [then |-> "next", silent |-> FALSE]
  /\ seen = 0 /\ hits = 0 /\ bytesRead = 0
  /\ stop = "none" /\ err = "none"
  /\ cancelled = FALSE
  /\ decided = 0 /\ delivered = 0 /\ badInput = FALSE

\* The call has returned.
Returned == pc = "done" /\ UNCHANGED vars

Next ==
  \/ Validate \/ Cancel
  \/ ReadCancelled \/ ReadFails \/ EndOfInput
  \/ OpenArray \/ CloseArray \/ Comma \/ BadSeparator
  \/ BeginCandidate \/ NewPayloadSink \/ ScanFails \/ ScanValue
  \/ OnDecision \/ Finalize \/ OnValue \/ CleanupPayload
  \/ Returned

Spec == Init /\ [][Next]_vars

--------------------------------------------------------------------------------

TypeOK ==
  /\ req \in Requests
  /\ pc \in Points
  /\ depth \in Nat /\ tokens \in Nat /\ offset \in Nat /\ started \in Nat
  /\ kind \in {"object", "other"} /\ verdict \in BOOLEAN
  /\ sink \in {"idle", "writing", "final", "observed"}
  /\ discard \in BOOLEAN /\ pruned \in BOOLEAN
  /\ pending \in [then: Outcomes, silent: BOOLEAN]
  /\ seen \in Nat /\ hits \in Nat /\ bytesRead \in Nat
  /\ stop \in StopReasons
  /\ err \in {"none"} \cup ErrorCodes
  /\ cancelled \in BOOLEAN
  /\ decided \in Nat /\ delivered \in Nat /\ badInput \in BOOLEAN

\* Stop limits are never overrun: whenever the stream is about to read on, at
\* whatever depth of nested arrays, no limit of the request has been reached
\* (applyStopLimits after every candidate, stopRequested in both loops).
NoReadPastLimit == pc \in ReadPoints => ApplyStopLimits = "none"

\* The stop reason names the limit that was reached first in the documented
\* order matches, candidates, bytes; and an early stop is never an error.
StopReasonExact ==
  stop # "none" =>
    /\ err = "none" /\ pc = "done"
    /\ stop \in {ApplyStopLimits, "callback_stop"}
    /\ stop = "match_limit" => hits = req.maxMatches
    /\ stop = "candidate_limit" =>
         seen = req.maxCandidates /\ (req.maxMatches > 0 => hits < req.maxMatches)

\* No candidate is lost or reported twice: wherever the stream reads on, or
\* ends without error or callback stop, every candidate had its decision and
\* exactly the candidates MatchedOnly selects were given to OnValue.
Settled == pc \in ReadPoints \/ (pc = "done" /\ err = "none" /\ stop # "callback_stop")

ReportedExactly ==
  /\ Settled =>
       /\ req.onDecision => decided = seen
       /\ req.onValue => delivered = IF req.matchedOnly THEN hits ELSE seen
  /\ pc = "value" /\ req.onDecision => decided = seen
  /\ hits <= seen /\ delivered <= seen

\* What OnValue receives is the whole candidate: the payload was neither
\* discarded nor cut short by best-effort capture.
WholePayload ==
  pc = "value" /\ IncludeJSON => sink = "final" /\ ~discard /\ ~pruned

\* Byte accounting: the result never claims bytes beyond the reader's offset,
\* and without an error it reports exactly the bytes consumed.
BytesExact ==
  /\ bytesRead <= offset
  /\ pc = "done" /\ err = "none" => bytesRead = offset

\* A done context ends the scan: no candidate is completed after it, the call
\* does not read on, and only callbacks of the candidate at hand may follow.
CancelEndsScan ==
  [][cancelled =>
       /\ seen' = seen /\ tokens' = tokens
       /\ pc \in ReadPoints => pc' = "done" /\ err' = "context_canceled"]_vars

\* Bad input is always reported as such: neither a failing Cleanup of the sink
\* of the candidate that was cut short, nor a context that is done by then, nor
\* a stop takes the place of the error ("_ = s.cleanupPayload").
BadInputReported ==
  badInput => \/ pc = "done" /\ err = "invalid_body" /\ stop = "none"
              \/ pc = "cleanup" /\ pending = [then |-> "invalid_body", silent |-> TRUE]

\* The phase of the contract: a call that has returned must hold no sink.
SinkPhase == IF pc # "done" THEN sink ELSE IF sink = "idle" THEN "over" ELSE "leaked"

\* The order of calls on the payload sinks is the documented one.
SinkContract == INSTANCE PayloadSinkContract WITH phase <- SinkPhase

SinksInOrder == SinkContract!Spec

--------------------------------------------------------------------------------
(* What makes the properties above inductive.                                 *)

\* The sink follows the program counter.
SinkFollowsPC ==
  /\ pc \in ReadPoints \cup {"validate", "sink", "done"} => sink = "idle"
  /\ pc \in {"scan", "decide", "finalize"} => sink = IF IncludeJSON THEN "writing" ELSE "idle"
  /\ pc = "value" => sink = IF IncludeJSON THEN "final" ELSE "idle"
  /\ pc \in {"sink", "finalize"} => IncludeJSON
  /\ pc = "cleanup" => sink # "idle"

\* A payload that was not captured whole belongs to a candidate OnValue skips.
CaptureFollowsVerdict ==
  /\ pc = "scan" /\ IncludeJSON /\ discard => ShouldUseDiscardCapture
  /\ pc \in {"decide", "finalize", "value"} /\ IncludeJSON /\ (discard \/ pruned) =>
       req.matchedOnly /\ ~verdict
  /\ pc \in {"finalize", "value"} /\ req.matchedOnly => verdict

\* The candidates OnValue must have been given.
Selected == IF req.matchedOnly THEN hits ELSE seen

CaughtUp == /\ req.onDecision => decided = seen
            /\ req.onValue => delivered = Selected

\* The callbacks are behind the counters by the candidate at hand, at most.
CallbacksFollowCounters ==
  /\ hits <= seen /\ delivered <= seen
  /\ pc \in ReadPoints \cup {"validate", "sink", "scan"} => CaughtUp
  /\ pc = "decide" =>
       /\ req.onDecision => decided + 1 = seen
       /\ req.onValue => IF req.matchedOnly /\ ~verdict THEN delivered = Selected
                                                       ELSE delivered + 1 = Selected
  /\ pc \in {"finalize", "value"} =>
       /\ req.onDecision => decided = seen
       /\ req.onValue => delivered + 1 = Selected
  /\ pc = "cleanup" /\ pending.then = "next" => CaughtUp
  /\ pc = "done" /\ err = "none" /\ stop # "callback_stop" => CaughtUp

\* Nothing is counted before the first read, and no limit is then reached.
LimitsFollowPC ==
  /\ pc = "validate" => seen = 0 /\ hits = 0 /\ bytesRead = 0
  /\ NoReadPastLimit

================================================================================
