------------------------------ MODULE QueryMutate ------------------------------
(***************************************************************************)
(* QueryMutateStreamWithResult: the caller's goroutine runs the query and  *)
(* writes every matched candidate into an io.Pipe; a second goroutine runs *)
(* MutateStream on the other end and writes the mutated candidates out.    *)
(*                                                                         *)
(* A Write to the pipe blocks until the reader has taken all of it, or the *)
(* writer's own end is closed.  A candidate is handed over in pieces, one  *)
(* for each read that it takes, and then a newline.                        *)
(***************************************************************************)
EXTENDS Naturals, Sequences

CONSTANTS Modes,      \* the mutate modes that requests may ask for
          MaxMatches, \* bound: matched candidates
          MaxPieces,  \* bound: reads that take one candidate
          Faults      \* what may fail: "query", "open" (payload read back), "mutate", "cancel"

MutateModes == {"auto", "singleValue", "objectRoot", "singleObject"}

ASSUME ModesAssumption  == Modes \subseteq MutateModes
ASSUME BoundsAssumption == MaxMatches \in Nat /\ MaxPieces \in Nat \ {0}
ASSUME FaultsAssumption == Faults \subseteq {"query", "open", "mutate", "cancel"}

VARIABLES
  mode,       \* req.MutateMode
  cancelled,  \* req.Ctx is done
  qpc,        \* the caller: "scan", "write", "close", "wait", "returned"
  matched,    \* CandidatesMatched of the query
  left,       \* pieces of the candidate still to be written, newline included
  queryErr,   \* queryErr
  offered,    \* the piece of the Write in progress
  pipe,       \* "open", "eof" after Close, "error" after CloseWithError
  mpc,        \* the goroutine: "between" and "inside" candidates, "returned"
  blocked,    \* the goroutine is inside pipeR.Read
  held,       \* the piece it has read and not consumed
  seenTop,    \* seenTopLevel
  mutErr,     \* mutateAsync.err
  done,       \* tokens in mutateAsync.done
  ret,        \* what the call returned, "none" while it runs
  kinds,      \* the roots of the matched candidates
  out,        \* history: the candidates written out whole
  torn,       \* history: a candidate was written out in part
  whole,      \* history: candidates whose last byte the goroutine has taken
  handed      \* history: candidates whose newline it has taken, too

query  == <<qpc, matched, left, queryErr>>
mutate == <<mpc, blocked, held, seenTop, mutErr>>
output == <<out, torn>>
taken  == <<whole, handed>>
vars == <<mode, cancelled, query, offered, pipe, mutate, done, ret, kinds, output, taken>>

Nothing == [of |-> 0, part |-> "none"]
Pieces  == [of: Nat, part: {"none", "payload", "last", "newline"}]
Errors  == {"invalid_body", "document_too_large", "context_canceled", "callback"}

--------------------------------------------------------------------------------
(* The caller: QueryStreamWithResult with an OnValue that writes to the pipe. *)

Match ==
  /\ qpc = "scan" /\ ~cancelled /\ matched < MaxMatches
  /\ matched' = matched + 1
  /\ \E kind \in {"object", "number"} : kinds' = Append(kinds, kind)
  /\ \E n \in 1..MaxPieces : left' = n + 1
  /\ qpc' = "write"
  /\ UNCHANGED <<mode, cancelled, queryErr, offered, pipe, mutate, done, ret, output, taken>>

\* End of input or a stop limit.
QueryEnds ==
  /\ qpc = "scan" /\ qpc' = "close"
  /\ UNCHANGED <<mode, cancelled, matched, left, queryErr, offered, pipe, mutate, done, ret,
                 kinds, output, taken>>

QueryFails ==
  /\ qpc = "scan"
  /\ \/ cancelled /\ queryErr' = "context_canceled"
     \/ "query" \in Faults /\ queryErr' \in {"invalid_body", "document_too_large", "callback"}
  /\ qpc' = "close"
  /\ UNCHANGED <<mode, cancelled, matched, left, offered, pipe, mutate, done, ret, kinds,
                 output, taken>>

\* The payload cannot be opened, or its file cannot be read to the end.
PayloadFails ==
  /\ qpc = "write" /\ offered = Nothing /\ left > 1 /\ "open" \in Faults
  /\ queryErr' = "callback" /\ qpc' = "close" /\ left' = 0
  /\ UNCHANGED <<mode, cancelled, matched, offered, pipe, mutate, done, ret, kinds, output, taken>>

\* pipeW.Write begins, and blocks the caller.
Offer ==
  /\ qpc = "write" /\ offered = Nothing /\ left > 0
  /\ left' = left - 1
  /\ offered' = [of |-> matched,
                 part |-> IF left = 1 THEN "newline" ELSE IF left = 2 THEN "last" ELSE "payload"]
  /\ UNCHANGED <<mode, cancelled, qpc, matched, queryErr, pipe, mutate, done, ret, kinds, output, taken>>

\* OnValue returns after the newline was taken.
Written ==
  /\ qpc = "write" /\ offered = Nothing /\ left = 0
  /\ qpc' = "scan"
  /\ UNCHANGED <<mode, cancelled, matched, left, queryErr, offered, pipe, mutate, done, ret,
                 kinds, output, taken>>

\* Mutant: the pipe is closed alike whether or not the query failed.
ClosePipeAlike ==
  /\ qpc = "close" /\ qpc' = "wait"
  /\ pipe' = "eof"
  /\ UNCHANGED <<mode, cancelled, matched, left, queryErr, offered, mutate, done, ret, kinds,
                 output, taken>>

\* Mutant: the pipe is only closed after a query that succeeded.
ClosePipeOnSuccess ==
  /\ qpc = "close" /\ qpc' = "wait"
  /\ pipe' = IF queryErr = "none" THEN "eof" ELSE pipe
  /\ UNCHANGED <<mode, cancelled, matched, left, queryErr, offered, mutate, done, ret, kinds,
                 output, taken>>

ClosePipe ==
  /\ qpc = "close" /\ qpc' = "wait"
  /\ pipe' = IF queryErr = "none" THEN "eof" ELSE "error"
  /\ UNCHANGED <<mode, cancelled, matched, left, queryErr, offered, mutate, done, ret, kinds,
                 output, taken>>

\* Mutant: after a failed query nobody waits for the goroutine.
ReturnEarly ==
  /\ qpc = "wait" /\ (done > 0 \/ queryErr # "none")
  /\ done' = 0 /\ qpc' = "returned"
  /\ ret' = IF queryErr # "none" THEN queryErr ELSE IF mutErr # "none" THEN mutErr ELSE "ok"
  /\ UNCHANGED <<mode, cancelled, matched, left, queryErr, offered, pipe, mutate, kinds, output, taken>>

\* Mutant: the error of the goroutine is dropped.
ReturnQueryOnly ==
  /\ qpc = "wait" /\ done > 0
  /\ done' = done - 1 /\ qpc' = "returned"
  /\ ret' = IF queryErr # "none" THEN queryErr ELSE "ok"
  /\ UNCHANGED <<mode, cancelled, matched, left, queryErr, offered, pipe, mutate, kinds, output, taken>>

\* The caller takes the token, and with it the result of the goroutine; the
\* error of the query comes first.
Return ==
  /\ qpc = "wait" /\ done > 0
  /\ done' = done - 1 /\ qpc' = "returned"
  /\ ret' = IF queryErr # "none" THEN queryErr ELSE IF mutErr # "none" THEN mutErr ELSE "ok"
  /\ UNCHANGED <<mode, cancelled, matched, left, queryErr, offered, pipe, mutate, kinds, output, taken>>

\* The context is cancelled by somebody else; a goroutine inside the pipe does
\* not notice.
Cancel ==
  /\ "cancel" \in Faults /\ ~cancelled /\ qpc # "returned"
  /\ cancelled' = TRUE
  /\ UNCHANGED <<mode, query, offered, pipe, mutate, done, ret, kinds, output, taken>>

--------------------------------------------------------------------------------
(* The goroutine: MutateStreamWithResult on the read end.                     *)

SingleTop  == mode \in {"singleValue", "singleObject"}
ObjectRoot == mode \in {"objectRoot", "singleObject"}

\* The reader's buffer is empty: pipeR.Read, unless the context is done.
Read ==
  /\ mpc # "returned" /\ ~blocked /\ held = Nothing /\ ~cancelled
  /\ blocked' = TRUE
  /\ UNCHANGED <<mode, cancelled, query, offered, pipe, mpc, held, seenTop, mutErr, done, ret,
                 kinds, output, taken>>

\* The piece moves to the reader's buffer, which releases the writer.
Take ==
  /\ blocked /\ offered # Nothing
  /\ held' = offered /\ offered' = Nothing /\ blocked' = FALSE
  /\ whole'  = IF offered.part = "last" THEN whole + 1 ELSE whole
  /\ handed' = IF offered.part = "newline" THEN handed + 1 ELSE handed
  /\ UNCHANGED <<mode, cancelled, query, pipe, mpc, seenTop, mutErr, done, ret, kinds, output>>

\* MutateStreamWithResult returns; a candidate it was in the middle of may
\* have been written out in part.
GiveUp(error) ==
  /\ mutErr' = error /\ mpc' = "returned" /\ blocked' = FALSE /\ held' = Nothing
  /\ done' = done + 1
  /\ torn' \in IF mpc = "inside" THEN BOOLEAN ELSE {torn}
  /\ UNCHANGED <<mode, cancelled, query, offered, pipe, seenTop, ret, kinds, out, taken>>

\* The first byte of a top-level value.
Begin ==
  /\ mpc = "between" /\ held.part \in {"payload", "last"} /\ ~cancelled
  /\ IF (SingleTop /\ seenTop > 0) \/ (ObjectRoot /\ kinds[held.of] # "object")
     THEN GiveUp("invalid_body")
     ELSE /\ mpc' = "inside"
          /\ UNCHANGED <<mode, cancelled, query, offered, pipe, blocked, held, seenTop, mutErr,
                         done, ret, kinds, output, taken>>

\* An object ends with its last byte; a number with the byte that follows it.
Completes ==
  held.part = IF kinds[held.of] = "number" THEN "newline" ELSE "last"

Consume ==
  /\ mpc = "inside" /\ held # Nothing /\ ~cancelled
  /\ IF Completes
     THEN /\ out' = Append(out, held.of)
          /\ seenTop' = seenTop + 1
          /\ mpc' = "between"
     ELSE UNCHANGED <<out, seenTop, mpc>>
  /\ held' = Nothing
  /\ UNCHANGED <<mode, cancelled, query, offered, pipe, blocked, mutErr, done, ret, kinds,
                 torn, taken>>

\* The newline between candidates.
SkipSpace ==
  /\ mpc = "between" /\ held.part = "newline" /\ ~cancelled
  /\ held' = Nothing
  /\ UNCHANGED <<mode, cancelled, query, offered, pipe, mpc, blocked, seenTop, mutErr, done, ret,
                 kinds, output, taken>>

\* A mutation that does not apply, an oversized result, a failing Writer.
MutationFails ==
  /\ mpc = "inside" /\ held # Nothing /\ "mutate" \in Faults
  /\ \E error \in {"invalid_body", "document_too_large"} : GiveUp(error)

SeesCancel == mpc # "returned" /\ ~blocked /\ cancelled /\ GiveUp("context_canceled")

\* End of the pipe between candidates: io.EOF is the normal end there.
PipeEndsBetween ==
  GiveUp(IF SingleTop /\ seenTop = 0 THEN "invalid_body" ELSE "none")

\* End of the pipe inside a candidate: it ends a number, and cuts an object.  A
\* query that stops inside a candidate has failed, so while ClosePipe passes its
\* error on this does not happen.
PipeEndsInside ==
  IF kinds[matched] = "number"
  THEN /\ out' = Append(out, matched) /\ seenTop' = seenTop + 1
       /\ mpc' = "between" /\ blocked' = FALSE
       /\ UNCHANGED <<mode, cancelled, query, offered, pipe, held, mutErr, done, ret, kinds,
                      torn, taken>>
  ELSE GiveUp("invalid_body")

PipeEnds ==
  /\ blocked /\ offered = Nothing
  /\ \/ /\ pipe = "eof"
        /\ IF mpc = "between" THEN PipeEndsBetween ELSE PipeEndsInside
     \/ pipe = "error" /\ GiveUp("query")

--------------------------------------------------------------------------------

Init ==
  /\ mode \in Modes /\ cancelled = FALSE
  /\ qpc = "scan" /\ matched = 0 /\ left = 0 /\ queryErr = "none"
  /\ offered = Nothing /\ pipe = "open"
  /\ mpc = "between" /\ blocked = FALSE /\ held = Nothing /\ seenTop = 0 /\ mutErr = "none"
  /\ done = 0 /\ ret = "none" /\ kinds = <<>>
  /\ out = <<>> /\ torn = FALSE /\ whole = 0 /\ handed = 0

QueryStep ==
  \/ Match \/ QueryEnds \/ QueryFails \/ PayloadFails \/ Offer \/ Written \/ ClosePipe \/ Return

MutateStep ==
  \/ Read \/ Take \/ Begin \/ Consume \/ SkipSpace \/ MutationFails \/ SeesCancel \/ PipeEnds

Returned == qpc = "returned" /\ mpc = "returned" /\ UNCHANGED vars

Next == QueryStep \/ MutateStep \/ Cancel \/ Returned

\* Both goroutines are scheduled, and the query's own reader delivers.
Spec == Init /\ [][Next]_vars /\ WF_vars(QueryStep) /\ WF_vars(MutateStep)

--------------------------------------------------------------------------------

\* The goroutine has given up on its own, not because the query failed.
GaveUp == mpc = "returned" /\ mutErr \notin {"none", "query"}

\* Mutated candidates come out in the order of the input, none twice and none
\* of which only a part was matched and read: a query that fails in the middle
\* of a number must not make its first digits a candidate (CloseWithError).
OutputInOrder == Len(out) <= whole /\ \A i \in 1..Len(out) : out[i] = i

\* A call that returns no error has written every matched candidate whole, and
\* the summary of the mutate side agrees with that of the query; when the query
\* fails, what it had handed over is still written whole.
CompleteOnReturn ==
  /\ ret = "ok" => Len(out) = matched /\ seenTop = matched /\ ~torn
  /\ ret # "none" /\ ~GaveUp => Len(out) >= handed

\* The pooled async state is given back only when no goroutine refers to it,
\* and without a stale token (acquireQueryMutateAsyncState relies on it).
AsyncStateQuiet == qpc = "returned" => mpc = "returned" /\ done = 0

\* The call returns, whatever the query meets, unless the mutate side gives up.
ReturnsUnlessMutateGivesUp == <>(ret # "none" \/ GaveUp)

\* "StreamErrorDocumentTooLarge indicates a configured candidate-size limit
\* was exceeded", "StreamErrorContextCanceled indicates request cancellation"
\* (stream_contract.go): when the mutate side gives up, the call returns.
FailureIsReturned == GaveUp ~> ret # "none"

================================================================================
