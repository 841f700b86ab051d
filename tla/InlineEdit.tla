------------------------------- MODULE InlineEdit -------------------------------
(***************************************************************************)
(* The command line's inline edit: a file is mutated into a temporary file *)
(* beside it, which then takes its name.  The process may end anywhere.    *)
(*                                                                         *)
(* Its call of MutateStream (without selector and fields) writes to the    *)
(* temporary file through mutationStreamOutputWriter, a line at a time; a  *)
(* part of a line stays in the buffer of that writer.                      *)
(***************************************************************************)
EXTENDS MutateStream

VARIABLES
  step,     \* where the edit is; "library" when another program makes the call
  temp,     \* names of temporary files that exist
  target,   \* what the file has: OldContents or lines
  outcome   \* what the process reports: "none", "done", "failed" or "killed"

\* Not the end of any candidate.
OldContents == <<0>>

edit == <<step, temp, target, outcome>>
vars == <<streamVars, edit>>

UnchangedStream == UNCHANGED streamVars

Fail == outcome' = "failed" /\ step' = "cleanup"

CreateTemp ==
  /\ step = "start"
  /\ \/ step' = "open" /\ temp' = {"lql-1"} /\ UNCHANGED outcome
     \/ step' = "end" /\ outcome' = "failed" /\ UNCHANGED temp
  /\ UNCHANGED target /\ UnchangedStream

OpenInput ==
  /\ step = "open"
  /\ \/ step' = "stream" /\ UNCHANGED outcome
     \/ Fail
  /\ UNCHANGED <<temp, target>> /\ UnchangedStream

\* processMutationStreamUngated
Stream ==
  /\ step \in {"stream", "library"} /\ StreamNext
  /\ UNCHANGED edit

\* Mutant: only a stream without any output is an error.
StreamFailedOrEmptyLoosely == lines = <<>>

\* An error of the stream, or no JSON input.  Flush has nothing to write after
\* a stream that succeeded, since every candidate ends with a newline.
StreamFailedOrEmpty == phase = "failed" \/ lines = <<>>

EndStream ==
  /\ step = "stream" /\ Ended
  /\ IF StreamFailedOrEmpty THEN Fail ELSE step' = "close" /\ UNCHANGED outcome
  /\ UNCHANGED <<temp, target>> /\ UnchangedStream

\* Close, and Stat and Chmod, whose errors are ignored.
CloseTemp ==
  /\ step = "close"
  /\ \/ step' = "rename" /\ UNCHANGED outcome
     \/ Fail
  /\ UNCHANGED <<temp, target>> /\ UnchangedStream

Rename ==
  /\ step = "rename"
  /\ \/ temp' = {} /\ target' = lines /\ outcome' = "done" /\ step' = "cleanup"
     \/ Fail /\ UNCHANGED <<temp, target>>
  /\ UnchangedStream

\* The deferred Close and Remove, whatever the outcome.  Their errors are
\* ignored: the file stays where Remove fails.
Cleanup ==
  /\ step = "cleanup" /\ step' = "end" /\ temp' \in {{}, temp}
  /\ UNCHANGED <<target, outcome>> /\ UnchangedStream

\* No signal is handled.
Kill ==
  /\ step \notin {"library", "end"} /\ step' = "end" /\ outcome' = "killed"
  /\ UNCHANGED <<temp, target>> /\ UnchangedStream

Init ==
  /\ StreamInit
  /\ step \in {"start", "library"}
  /\ step = "start" => mode = "auto" /\ toWriter /\ ~toCallback
  /\ temp = {} /\ target = OldContents /\ outcome = "none"

Next ==
  CreateTemp \/ OpenInput \/ Stream \/ EndStream \/ CloseTemp \/ Rename \/ Cleanup \/ Kill

Spec == Init /\ [][Next]_vars

--------------------------------------------------------------------------------

\* "Write mutations inline" (README.md:550): wherever the edit fails or is
\* killed, the file has its old contents, or every candidate of the input
\* mutated.  It has the old ones if the edit reports a failure and the new ones
\* if it reports success.  Nothing is said of the temporary file but that an
\* edit that succeeds has none left: a killed edit leaves it, and so does a
\* failed one that cannot remove it and does not report that.
EditIsAtomic ==
  LET all == CandidateEnds(input, TRUE) IN
  /\ target = OldContents \/ Lists(target, all)
  /\ outcome = "failed" => target = OldContents
  /\ outcome = "done" => Lists(target, all) /\ temp = {}

================================================================================
