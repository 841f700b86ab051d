----------------------------- MODULE ScanStatePool -----------------------------
(***************************************************************************)
(* The internal payload sink of a pooled streamScanState over several      *)
(* calls of QueryStream: which candidates are captured in the spool, which *)
(* are discarded, and what is left when the state returns to the pool.     *)
(*                                                                         *)
(* A state belongs to one call at a time, so one state shows every order   *)
(* of operations on its spool; two calls share nothing but the disk, where *)
(* os.CreateTemp gives every spool a file of its own.                      *)
(***************************************************************************)
EXTENDS CandidateSpool, FiniteSets

CONSTANTS WriteSizes,     \* lengths of the slices that the scan writes
          MaxCandidate,   \* bound: bytes of a candidate
          MaxCandidates,  \* bound: candidates captured over all calls
          MaxCalls,       \* bound: calls of QueryStream
          Lossy           \* whether calls may use QueryCaptureMatchesOnlyBestEffort

ASSUME SizesAssumption  == WriteSizes \subseteq Nat \ {0}
ASSUME BoundsAssumption == {MaxCandidate, MaxCandidates, MaxCalls} \subseteq Nat
ASSUME LossyAssumption  == Lossy \subseteq BOOLEAN

VARIABLES
  pc,             \* where the call that owns the state is
  callDir,        \* SpoolTempDir and SpoolFilePattern of the call
  lossy,          \* the call discards roots that cannot match
  writing,        \* the slice that scanValue is writing
  usingInternal,  \* s.usingInternal
  initialized,    \* s.internalSink.initialized
  written,        \* history: the bytes of the candidate written so far
  stamp,          \* history: the last byte written
  calls, captured,\* bounds the calls and the candidates
  discarded,      \* history: the last candidate of the state was discarded
  dropped         \* history: files of states that the pool has dropped

call == <<callDir, lossy, calls>>
candidate == <<writing, written, stamp, captured>>
history == <<discarded, dropped>>
vars == <<spoolVars, pc, call, candidate, usingInternal, initialized, history>>

Points == {"free", "ready", "capture", "spill", "move", "append", "value", "failed", "over"}

--------------------------------------------------------------------------------
(* A call takes the state from the pool and gives it back.                    *)

\* acquireStreamScanState and reset.
Acquire ==
  /\ pc = "free" /\ calls < MaxCalls
  /\ pc' = "ready" /\ calls' = calls + 1
  /\ callDir' \in Dirs /\ lossy' \in Lossy
  /\ usingInternal' = FALSE
  /\ UNCHANGED <<spoolVars, candidate, initialized, history>>

\* releaseStreamScanState; releaseInternalPayload does nothing for a state
\* whose last candidate was not captured in the spool.
Release ==
  /\ pc \in {"ready", "over"}
  /\ pc' = "free" /\ usingInternal' = FALSE
  /\ IF usingInternal /\ initialized THEN CleanupReleasing ELSE UNCHANGED spoolVars
  /\ UNCHANGED <<call, candidate, initialized, history>>

\* The garbage collector empties the sync.Pool; the next state is a new one.
Drop ==
  /\ pc = "free" /\ initialized
  /\ NewSpool(dir)
  /\ initialized' = FALSE
  /\ dropped' = dropped \cup ({file} \ {NoFile})
  /\ UNCHANGED <<pc, call, candidate, usingInternal, discarded>>

--------------------------------------------------------------------------------
(* A candidate.                                                               *)

\* shouldUseDiscardCapture: the payload is a queryDiscardPayloadSink.
Discard ==
  /\ pc = "ready" /\ lossy
  /\ usingInternal' = FALSE /\ discarded' = TRUE
  /\ UNCHANGED <<spoolVars, pc, call, candidate, initialized, dropped>>

\* newPayloadSink: internalQueryPayloadSink.prepare.
Prepare ==
  /\ pc = "ready" /\ captured < MaxCandidates
  /\ IF initialized THEN ResetForCandidate(callDir) ELSE NewSpool(callDir)
  /\ initialized' = TRUE /\ usingInternal' = TRUE /\ discarded' = FALSE
  /\ pc' = "capture" /\ captured' = captured + 1
  /\ writing' = <<>> /\ written' = <<>>
  /\ UNCHANGED <<call, stamp, dropped>>

\* Write or WriteByte: in memory while it fits, else to the file.
Write ==
  /\ pc = "capture"
  /\ \E n \in WriteSizes :
       LET bytes == [i \in 1..n |-> stamp + i]
       IN  /\ Len(written) + n <= MaxCandidate
           /\ stamp' = stamp + n
           /\ \/ /\ WriteMem(bytes)
                 /\ written' = written \o bytes
                 /\ UNCHANGED <<pc, writing>>
              \/ /\ spilled \/ ~Fits(bytes)
                 /\ writing' = bytes
                 /\ pc' = IF spilled THEN "append" ELSE "spill"
                 /\ UNCHANGED <<spoolVars, written>>
  /\ UNCHANGED <<call, captured, usingInternal, initialized, history>>

\* spillToDisk, as far as it makes a file ready.
Spill ==
  /\ pc = "spill"
  /\ \E ok \in BOOLEAN :
       /\ CreateFile(ok) \/ RewindFile(ok)
       /\ pc' = IF ok THEN "move" ELSE "failed"
  /\ UNCHANGED <<call, candidate, usingInternal, initialized, history>>

\* spillToDisk, as far as it writes what was in memory.
Move ==
  /\ pc = "move"
  /\ \E ok \in BOOLEAN : MoveMem(ok) /\ pc' = IF ok THEN "append" ELSE "failed"
  /\ UNCHANGED <<call, candidate, usingInternal, initialized, history>>

AppendToFile ==
  /\ pc = "append"
  /\ \E ok \in BOOLEAN :
       /\ WriteFile(writing, ok)
       /\ pc' = IF ok THEN "capture" ELSE "failed"
       /\ written' = IF ok THEN written \o writing ELSE written
  /\ UNCHANGED <<call, writing, stamp, captured, usingInternal, initialized, history>>

\* The payload is finalized and shown to OnValue.
FinalizePayload ==
  /\ pc = "capture" /\ written # <<>>
  /\ \E ok \in BOOLEAN : Finalize(ok) /\ pc' = IF ok THEN "value" ELSE "failed"
  /\ UNCHANGED <<call, candidate, usingInternal, initialized, history>>

\* cleanupPayload: after a failure, the call is over; otherwise the next
\* candidate may follow, unless Cleanup itself fails.
CleanupPayload ==
  /\ pc \in {"capture", "value", "failed"}
  /\ \E ok \in BOOLEAN :
       /\ CleanupKeeping(ok)
       /\ pc' = IF ok /\ pc # "failed" THEN "ready" ELSE "over"
  /\ UNCHANGED <<call, candidate, usingInternal, initialized, history>>

--------------------------------------------------------------------------------

Init ==
  /\ dir \in Dirs /\ mem = <<>> /\ file = NoFile
  /\ bufFile = NoFile /\ buf = <<>> /\ bufBroken = FALSE /\ pos = 0
  /\ spilled = FALSE /\ size = 0 /\ spillCount = 0 /\ spillBytes = 0
  /\ disk = <<>> /\ fresh = 1 /\ stuck = {}
  /\ pc = "free" /\ callDir = dir /\ lossy = FALSE /\ calls = 0
  /\ writing = <<>> /\ written = <<>> /\ stamp = 0 /\ captured = 0
  /\ usingInternal = FALSE /\ initialized = FALSE
  /\ discarded = FALSE /\ dropped = {}

\* The bounds on calls are used up.
Idle == pc = "free" /\ calls = MaxCalls /\ UNCHANGED vars

Next ==
  \/ Acquire \/ Release \/ Drop
  \/ Discard \/ Prepare \/ Write \/ Spill \/ Move \/ AppendToFile
  \/ FinalizePayload \/ CleanupPayload
  \/ Idle

Spec == Init /\ [][Next]_vars

--------------------------------------------------------------------------------

TypeOK ==
  /\ pc \in Points /\ callDir \in Dirs /\ dir \in Dirs /\ lossy \in BOOLEAN
  /\ mem \in Seq(Nat) /\ buf \in Seq(Nat) /\ pos \in Nat
  /\ size \in Nat /\ spillCount \in Nat /\ spillBytes \in Nat
  /\ spilled \in BOOLEAN /\ bufBroken \in BOOLEAN
  /\ usingInternal \in BOOLEAN /\ initialized \in BOOLEAN /\ discarded \in BOOLEAN
  /\ writing \in Seq(Nat) /\ written \in Seq(Nat) /\ stamp \in Nat
  /\ file \in Nat /\ bufFile \in Nat /\ fresh \in Nat \ {0}
  /\ disk \in [DOMAIN disk -> Seq(Nat)] /\ DOMAIN disk \subseteq 1..(fresh - 1)
  /\ stuck \subseteq DOMAIN disk

\* What OnValue reads is what the scan wrote, whether it stayed in memory, was
\* moved to a new file, or reuses the file of an earlier candidate or call; and
\* SpillCount and SpillBytes, which cleanupPayload adds to the result, count
\* every byte of a spilled candidate, those first held in memory included.
PayloadIntact ==
  pc = "value" =>
    /\ Payload = written /\ size = Len(written)
    /\ spillCount = (IF spilled THEN 1 ELSE 0)
    /\ spillBytes = (IF spilled THEN size ELSE 0)
    /\ ~spilled => size <= MemoryBytes

\* A spilled candidate has an open file that exists, and its buffer writes to
\* that file: neither reset, reuse nor a failed spill leaves a dangling one.
SpillHasFile ==
  /\ file # NoFile => file \in DOMAIN disk \ stuck /\ bufFile = file
  /\ spilled => file # NoFile

\* The files that could be removed and still exist.
FilesLeft == DOMAIN disk \ stuck

\* Every such file is held by the spool: no failed spill, no change of the
\* directory and no clean up loses one, and a state returns to the pool with
\* its file only after a call whose last candidate was discarded.
FilesOwned ==
  /\ FilesLeft \subseteq dropped \cup {file}
  /\ pc = "free" /\ file # NoFile => discarded

================================================================================
