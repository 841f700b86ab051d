------------------------------ MODULE MutateStream ------------------------------
(***************************************************************************)
(* The loop of MutateStreamWithResult: the candidates of a stream are      *)
(* mutated one by one, straight into Writer and, if there is a callback,   *)
(* into a payload for it.  What the mutations do to a candidate is in      *)
(* MutationRules; here a candidate only succeeds or fails.                 *)
(*                                                                         *)
(* The input is a sequence of tokens: an object, an object whose mutation  *)
(* fails, a value of another kind, and the brackets of arrays.             *)
(***************************************************************************)
EXTENDS Naturals, Sequences, FiniteSets, SequencesExt

CONSTANTS Inputs    \* what readers provide

Tokens == {"object", "failing", "other", "[", "]", "bad"}
Modes  == {"auto", "single value", "object root", "single object"}

Depth(text, i) ==
  Cardinality({j \in 1..i : text[j] = "["}) - Cardinality({j \in 1..i : text[j] = "]"})

ASSUME InputAssumption ==
  /\ Inputs \subseteq Seq(Tokens)
  /\ \A text \in Inputs : \A i \in DOMAIN text : Depth(text, i) \in Nat

VARIABLES
  input, mode,
  toWriter, toCallback,  \* whether Writer and OnValue are set
  phase,         \* "next", "emit", "newline", "deliver", "count", "ok" or "failed"
  pos,           \* tokens read
  depth,         \* calls of consumeTopArray
  seenTopLevel, stopped,
  lines,         \* what Writer has got: the position of the candidate of each line
  torn,          \* and whether a part of a line comes after them
  seen, written, \* CandidatesSeen and CandidatesWritten
  bytesRead,     \* BytesRead, in tokens
  bytesWritten,  \* BytesWritten, in lines
  accepted       \* history: candidates the callback has accepted or stopped at

request == <<input, mode, toWriter, toCallback>>
loop    == <<pos, depth, seenTopLevel, stopped>>
counts  == <<seen, written, bytesRead, bytesWritten>>
streamVars == <<request, phase, loop, lines, torn, counts, accepted>>

\* Mutant: every mode flattens arrays.
FlattenTopArrayAlways == TRUE

FlattenTopArray == mode = "auto"

RequiresSingle == mode \in {"single value", "single object"}
RequiresObject == mode \in {"object root", "single object"}

AtEnd == pos = Len(input)
Next_ == input[pos + 1]
Go(to) == phase' = to

\* The last token of the value that starts at i; 0 if there is none.
ValueEnd(text, i) ==
  IF text[i] # "[" THEN i
  ELSE LET ends == {j \in i..Len(text) : Depth(text, j) < Depth(text, i)}
       IN  IF ends = {} THEN 0 ELSE CHOOSE j \in ends : \A k \in ends : j <= k

--------------------------------------------------------------------------------
(* MutateStreamWithResult and consumeTopArray.                                *)

\* A mode that wants one value has not seen any.
EndOfInput ==
  /\ phase = "next" /\ AtEnd /\ ~stopped
  /\ IF depth > 0 \/ (RequiresSingle /\ seenTopLevel = 0)
     THEN Go("failed") /\ UNCHANGED bytesRead
     ELSE Go("ok") /\ bytesRead' = pos
  /\ UNCHANGED <<request, loop, lines, torn, seen, written, bytesWritten, accepted>>

\* The first token of a value that the mode refuses.
Refused ==
  depth = 0 /\ \/ RequiresSingle /\ seenTopLevel > 0
               \/ RequiresObject /\ Next_ \notin {"object", "failing"}

Refuse ==
  /\ phase = "next" /\ ~stopped /\ ~AtEnd /\ Refused /\ Go("failed")
  /\ UNCHANGED <<request, loop, lines, torn, counts, accepted>>

OpenTopArray ==
  /\ phase = "next" /\ ~stopped /\ ~AtEnd /\ ~Refused
  /\ Next_ = "[" /\ FlattenTopArray
  /\ pos' = pos + 1 /\ depth' = depth + 1
  /\ UNCHANGED <<request, phase, seenTopLevel, stopped, lines, torn, counts, accepted>>

\* An array is a value of the array around it, and of the stream in the end.
\* A stop ends every level at once, and then the stream.
CloseTopArray ==
  /\ phase = "next" /\ depth > 0
  /\ \/ ~stopped /\ ~AtEnd /\ Next_ = "]" /\ pos' = pos + 1
     \/ stopped /\ UNCHANGED pos
  /\ depth' = depth - 1
  /\ seenTopLevel' = IF depth = 1 THEN seenTopLevel + 1 ELSE seenTopLevel
  /\ UNCHANGED <<request, phase, stopped, lines, torn, counts, accepted>>

Stop ==
  /\ phase = "next" /\ stopped /\ depth = 0 /\ Go("ok")
  /\ UNCHANGED <<request, loop, lines, torn, counts, accepted>>

\* The reader fails or the context is done while a value is looked for.
ReadFails ==
  /\ phase = "next" /\ ~stopped /\ Go("failed")
  /\ UNCHANGED <<request, loop, lines, torn, counts, accepted>>

--------------------------------------------------------------------------------
(* consumeCandidate                                                           *)

\* The sink is prepared; its factory may fail.
StartCandidate ==
  /\ phase = "next" /\ ~stopped /\ ~AtEnd /\ ~Refused
  /\ Next_ # "]" /\ ~(Next_ = "[" /\ FlattenTopArray)
  /\ \/ Go("emit")
     \/ toCallback /\ Go("failed")
  /\ UNCHANGED <<request, loop, lines, torn, counts, accepted>>

\* The candidate goes to Writer as it is read.
Emit ==
  /\ phase = "emit" /\ Next_ # "failing"
  /\ \E end \in (pos + 1)..Len(input) :
       /\ end = ValueEnd(input, pos + 1) /\ \A i \in (pos + 1)..end : input[i] # "bad"
       /\ pos' = end
  /\ torn' = toWriter /\ Go("newline")
  /\ UNCHANGED <<request, depth, seenTopLevel, stopped, lines, counts, accepted>>

\* The mutation, the reader, the sink or Writer fails, or the candidate is too
\* large; a part of it may have been written.
EmitFails ==
  /\ phase = "emit" /\ Go("failed") /\ torn' \in {FALSE, toWriter}
  /\ UNCHANGED <<request, loop, lines, counts, accepted>>

\* Mutant: both counters move together.
CountTogether ==
  /\ seen' = seen + 1 /\ written' = written + 1
  /\ bytesRead' = pos /\ bytesWritten' = IF toWriter THEN bytesWritten + 1 ELSE bytesWritten

\* The candidate is counted once it is complete, before the callback sees it.
CountSeen == seen' = seen + 1 /\ bytesRead' = pos /\ UNCHANGED <<written, bytesWritten>>

WriteNewline ==
  /\ phase = "newline" /\ Go(IF toCallback THEN "deliver" ELSE "count")
  /\ lines' = IF toWriter THEN Append(lines, pos) ELSE lines
  /\ torn' = FALSE /\ CountSeen
  /\ UNCHANGED <<request, loop, accepted>>

NewlineFails ==
  /\ phase = "newline" /\ toWriter /\ Go("failed")
  /\ UNCHANGED <<request, loop, lines, torn, counts, accepted>>

\* finalizeCapture fails, or the callback does.
DeliverFails ==
  /\ phase = "deliver" /\ Go("failed")
  /\ UNCHANGED <<request, loop, lines, torn, counts, accepted>>

Deliver ==
  /\ phase = "deliver" /\ Go("count") /\ accepted' = accepted + 1
  /\ stopped' \in BOOLEAN
  /\ UNCHANGED <<request, pos, depth, seenTopLevel, lines, torn, counts>>

\* The deferred clean up of the sink may still fail; a value of the stream
\* itself has been seen then as little as after any other failure.
CountWritten ==
  /\ phase = "count" /\ written' = written + 1
  /\ bytesWritten' = IF toWriter THEN bytesWritten + 1 ELSE bytesWritten
  /\ \/ Go("next") /\ seenTopLevel' = IF depth = 0 THEN seenTopLevel + 1 ELSE seenTopLevel
     \/ toCallback /\ Go("failed") /\ UNCHANGED seenTopLevel
  /\ UNCHANGED <<request, pos, depth, stopped, lines, torn, seen, bytesRead, accepted>>

--------------------------------------------------------------------------------

\* A request is refused unless it has a callback or a writer.
StreamInit ==
  /\ input \in Inputs /\ mode \in Modes
  /\ toWriter \in BOOLEAN /\ toCallback \in BOOLEAN /\ (toWriter \/ toCallback)
  /\ phase = "next" /\ pos = 0 /\ depth = 0 /\ seenTopLevel = 0 /\ stopped = FALSE
  /\ lines = <<>> /\ torn = FALSE
  /\ seen = 0 /\ written = 0 /\ bytesRead = 0 /\ bytesWritten = 0 /\ accepted = 0

StreamNext ==
  \/ EndOfInput \/ Refuse \/ OpenTopArray \/ CloseTopArray \/ Stop \/ ReadFails
  \/ StartCandidate \/ Emit \/ EmitFails \/ WriteNewline \/ NewlineFails
  \/ DeliverFails \/ Deliver \/ CountWritten

Ended == phase \in {"ok", "failed"}

--------------------------------------------------------------------------------

\* A candidate starts at i: in auto mode a value inside the arrays, at any depth,
\* and otherwise a value of the stream.
IsCandidate(text, flat, i) ==
  IF flat THEN text[i] \notin {"[", "]"}
  ELSE ValueEnd(text, i) > 0 /\ text[i] # "]" /\ Depth(text, i) = (IF text[i] = "[" THEN 1 ELSE 0)

\* The last tokens of the candidates of an input.
CandidateEnds(text, flat) ==
  {ValueEnd(text, i) : i \in {j \in DOMAIN text : IsCandidate(text, flat, j)}}

\* s has the members of ends in order, none twice and none left out.
Lists(s, ends) ==
  /\ \A i, j \in DOMAIN s : i < j => s[i] < s[j]
  /\ Range(s) = ends

\* Writer gets a line for each candidate in order, none twice and none left
\* out, as far as the call has come, and all of them when it succeeds without
\* a stop.
LinesMatchInput ==
  LET all == CandidateEnds(input, mode = "auto") IN
  toWriter =>
    /\ \E n \in 0..pos : Lists(lines, {end \in all : end <= n})
    /\ phase = "ok" /\ ~stopped => Lists(lines, all)
    /\ phase = "ok" => ~torn

\* "bytes written mismatch", "candidates mismatch" (mutate_stream_fuzz_test.go,
\* 229 and 233, on success): the counters agree with what has left the call,
\* also when it fails.  A candidate that is not delivered is seen, but neither
\* written nor in BytesWritten, although its line is in Writer; a torn line is
\* in no counter; and BytesRead ends where the last candidate that was seen does.
CountersTrue ==
  Ended =>
    /\ toWriter => Len(lines) = seen /\ bytesWritten = written
    /\ toCallback => written = accepted
    /\ seen \in {written, written + 1}
    /\ phase = "ok" => seen = written
    /\ phase = "failed" /\ toWriter /\ lines # <<>> => bytesRead = Last(lines)

================================================================================
