-------------------------- MODULE PayloadSinkContract --------------------------
(***************************************************************************)
(* What a payload sink may rely on: the order of calls that the interface  *)
(* QueryStreamPayloadSink documents.  A run of the stream owns at most one *)
(* sink at a time; it writes to it, finalizes it once, shows it to the     *)
(* value callback only when it is final, and cleans it up exactly once,    *)
(* whatever failed in between.  The call returns holding no sink.          *)
(***************************************************************************)

VARIABLE phase

Phases == {"idle", "writing", "final", "observed", "over"}

Init == phase = "idle"

NewSink  == phase = "idle"    /\ phase' = "writing"
Finalize == phase = "writing" /\ phase' = "final"
Observe  == phase = "final"   /\ phase' = "observed"

\* The stream may return as it cleans up its last sink.
Cleanup == phase \in {"writing", "final", "observed"} /\ phase' \in {"idle", "over"}

Return == phase = "idle" /\ phase' = "over"

Next == NewSink \/ Finalize \/ Observe \/ Cleanup \/ Return

Spec == Init /\ [][Next]_phase
================================================================================
