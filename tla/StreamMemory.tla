------------------------------ MODULE StreamMemory ------------------------------
(***************************************************************************)
(* The memory of concurrent mutate streams: the spool of the candidate     *)
(* that is captured, and the payloads that increments make out of values   *)
(* with other mutations below them.  All of it comes from one BytePool,    *)
(* and the first buffer of a spool has the size that one AdaptiveHint has  *)
(* learnt from all streams.                                                *)
(*                                                                         *)
(* Only capacities and lengths are kept of the contents.                   *)
(***************************************************************************)
EXTENDS BytePool, AdaptiveHint, FiniteSets

CONSTANTS MemoryBytes,    \* cfg.memoryBytes
          LearntHints,    \* what earlier streams may have left in mutateStreamCaptureHint
          InitialHint,    \* of s.valueHint
          WriteSizes,     \* lengths of the slices that are written to a spool
          PayloadSizes,   \* lengths of the slices that are written to a payload
          MaxCandidates,  \* bound: candidates of all streams
          MaxWork,        \* bound: writes to spools, of all streams
          MaxFills,       \* bound: writes to payloads, of all streams
          MaxPayloads,    \* bound: payloads of all streams
          MaxNesting      \* bound: payloads being made inside each other

ASSUME MemoryAssumption == MemoryBytes \in Nat \ {0} /\ InitialHint \in Nat \ {0} /\ LearntHints \subseteq Nat
ASSUME SizesAssumption  == WriteSizes \cup PayloadSizes \subseteq Nat \ {0}
ASSUME MemoryBoundsAssumption == {MaxCandidates, MaxWork, MaxFills, MaxPayloads, MaxNesting} \subseteq Nat

VARIABLES
  pc,             \* where each stream is
  candidateHint,  \* s.candidateHint
  valueHint,      \* s.valueHint
  mem,            \* s.candidateSink.spool.mem; a set of at most one, empty for nil
  used,           \* its length
  spilled, size,  \* of the spool
  writer,         \* s.materializeWriter.buf while a payload is being made
  made,           \* its length
  nesting,        \* payloads being made, one inside the other
  payloads,       \* s.materializedPayloads
  overlapped,     \* history: arrays that were the writer's when a payload inside
                  \* another one was over, and that the outer one goes on with
  work, fills, begun, candidates  \* bounds

spool  == <<mem, used, spilled, size>>
maker  == <<writer, made, nesting, payloads, valueHint, overlapped>>
bounds == <<work, fills, begun, candidates>>
vars   == <<pool, hint, observing, pc, candidateHint, spool, maker, bounds>>

Streams == Observers
Points  == {"idle", "ready", "capture", "observe", "failed", "panicked"}

Bufs(s) == mem[s] \cup writer[s] \cup {payloads[s][i] : i \in DOMAIN payloads[s]}
InUse   == {b.id : b \in UNION {Bufs(s) : s \in Streams}} \cup overlapped

Min2(a, b) == IF a <= b THEN a ELSE b
Cap(bufs) == IF bufs = {} THEN 0 ELSE (CHOOSE b \in bufs : TRUE).cap

--------------------------------------------------------------------------------
(* The spool.                                                                 *)

\* acquireStreamState and reset.
Begin(s) ==
  /\ pc[s] = "idle" /\ pc' = [pc EXCEPT ![s] = "ready"]
  /\ candidateHint' = [candidateHint EXCEPT ![s] = Load]
  /\ UNCHANGED <<pool, hint, observing, spool, maker, bounds>>

\* acquireSpoolMem
AcquireSpoolMem(s) ==
  LET released == pool (+) Released(SetToBag(mem[s]))
  IN  \E b \in Acquired(released, Min2(candidateHint[s], MemoryBytes), InUse) :
        mem' = [mem EXCEPT ![s] = {b}] /\ pool' = Taken(released, b)

\* mutateCandidateSink.reset and resetForCandidate.
Prepare(s) ==
  /\ pc[s] = "ready" /\ candidates < MaxCandidates
  /\ IF mem[s] = {} \/ candidateHint[s] > Cap(mem[s])
     THEN AcquireSpoolMem(s) ELSE UNCHANGED <<mem, pool>>
  /\ used' = [used EXCEPT ![s] = 0] /\ size' = [size EXCEPT ![s] = 0]
  /\ spilled' = [spilled EXCEPT ![s] = FALSE]
  /\ pc' = [pc EXCEPT ![s] = "capture"]
  /\ candidates' = candidates + 1 
  /\ UNCHANGED <<hint, observing, candidateHint, maker, work, fills, begun>>

Works == work < MaxWork /\ work' = work + 1

Fits(s, n) == ~spilled[s] /\ used[s] + n <= MemoryBytes

Capture(s, n) ==
  /\ pc[s] = "capture" /\ nesting[s] = 0 /\ Works
  /\ UNCHANGED <<hint, observing, candidateHint, maker, fills, begun, candidates>>

Written(s, n) ==
  /\ size' = [size EXCEPT ![s] = @ + n] /\ used' = [used EXCEPT ![s] = @ + n]
  /\ UNCHANGED <<pc, spilled>>

\* Write, as long as there is room.
WriteMem(s, n) ==
  /\ Capture(s, n) /\ Fits(s, n) /\ used[s] + n <= Cap(mem[s])
  /\ Written(s, n)
  /\ UNCHANGED <<mem, pool>>

\* ensureMemCapacity and append: the bytes move to a buffer of the pool, which
\* append replaces by a larger one if its capacity is below what was asked
\* for; slicing it to the length of the old one panics if it is below that.
WriteGrowing(s, n) ==
  /\ Capture(s, n) /\ Fits(s, n) /\ used[s] + n > Cap(mem[s])
  /\ \E b \in Acquired(pool, MemoryBytes, InUse) :
       \/ /\ b.cap < used[s]
          /\ pc' = [pc EXCEPT ![s] = "panicked"] /\ pool' = Taken(pool, b)
          /\ UNCHANGED spool
       \/ /\ b.cap >= used[s]
          /\ \E grown \in IF b.cap >= used[s] + n THEN {b}
                          ELSE Make(GrownCap(b.cap, used[s] + n), InUse \cup {b.id}) :
               mem' = [mem EXCEPT ![s] = {grown}]
          /\ pool' = Taken(pool, b) (+) Released(SetToBag(mem[s]))
          /\ Written(s, n)

\* spillToDisk, and what follows goes to the file.
WriteFile(s, n) ==
  /\ Capture(s, n) /\ ~Fits(s, n)
  /\ IF ~spilled[s] /\ used[s] > 0
     THEN pool' = pool (+) Released(SetToBag(mem[s])) /\ mem' = [mem EXCEPT ![s] = {}]
     ELSE UNCHANGED <<pool, mem>>
  /\ used' = [used EXCEPT ![s] = 0] /\ spilled' = [spilled EXCEPT ![s] = TRUE]
  /\ size' = [size EXCEPT ![s] = @ + n]
  /\ UNCHANGED pc

--------------------------------------------------------------------------------
(* Payloads of increments.                                                    *)

\* materializePendingState: the one writer of the stream gets a new buffer.
BeginPayload(s) ==
  /\ pc[s] = "capture" /\ nesting[s] < MaxNesting
  /\ begun < MaxPayloads /\ begun' = begun + 1
  /\ \E b \in Acquired(pool, valueHint[s], InUse) :
       writer' = [writer EXCEPT ![s] = {b}] /\ pool' = Taken(pool, b)
  /\ made' = [made EXCEPT ![s] = 0] /\ nesting' = [nesting EXCEPT ![s] = @ + 1]
  /\ UNCHANGED <<hint, observing, pc, candidateHint, spool, payloads, valueHint, overlapped, work, fills, candidates>>

\* mutateSliceWriter.Write
WritePayload(s, n) ==
  /\ pc[s] = "capture" /\ nesting[s] > 0 /\ fills < MaxFills /\ fills' = fills + 1
  /\ made' = [made EXCEPT ![s] = @ + n]
  /\ IF made[s] + n <= Cap(writer[s]) THEN UNCHANGED writer
     ELSE \E b \in Make(GrownCap(Cap(writer[s]), made[s] + n), InUse) :
            writer' = [writer EXCEPT ![s] = {b}]
  /\ UNCHANGED <<pool, hint, observing, pc, candidateHint, spool, payloads, valueHint, nesting, overlapped, work, begun, candidates>>

Overlap(s) ==
  overlapped' = IF nesting[s] > 1 THEN overlapped \cup {b.id : b \in writer[s]} ELSE overlapped

\* No payload is being made once the outermost one is ready.  The outer of two
\* goes on with the buffer of the inner one.
Leave(s) ==
  /\ Overlap(s)
  /\ nesting' = [nesting EXCEPT ![s] = @ - 1]
  /\ writer' = IF nesting[s] = 1 THEN [writer EXCEPT ![s] = {}] ELSE writer
  /\ made' = IF nesting[s] = 1 THEN [made EXCEPT ![s] = 0] ELSE made

\* Mutant: the buffer is given back as soon as the payload is ready.
EndPayloadReleasing(s) ==
  /\ pc[s] = "capture" /\ nesting[s] > 0 /\ Leave(s)
  /\ \E b \in writer[s] : payloads' = [payloads EXCEPT ![s] = Append(@, b)]
  /\ pool' = pool (+) Released(SetToBag(writer[s]))
  /\ UNCHANGED <<valueHint, hint, observing, pc, candidateHint, spool, bounds>>

\* The payload is kept until the candidate is over, unless nothing is left.
EndPayload(s) ==
  /\ pc[s] = "capture" /\ nesting[s] > 0 /\ Leave(s)
  /\ IF made[s] = 0
     THEN pool' = pool (+) Released(SetToBag(writer[s])) /\ UNCHANGED <<payloads, valueHint>>
     ELSE /\ \E b \in writer[s] : payloads' = [payloads EXCEPT ![s] = Append(@, b)]
          /\ valueHint' = [valueHint EXCEPT ![s] = made[s]]
          /\ UNCHANGED pool
  /\ UNCHANGED <<hint, observing, pc, candidateHint, spool, bounds>>

\* The candidate fails; every payload that was being made gives the writer's
\* buffer back.
Fail(s) ==
  /\ pc[s] = "capture" /\ pc' = [pc EXCEPT ![s] = "failed"]
  /\ pool' = pool (+) Released([b \in writer[s] |-> nesting[s]])
  /\ writer' = [writer EXCEPT ![s] = {}] /\ made' = [made EXCEPT ![s] = 0]
  /\ nesting' = [nesting EXCEPT ![s] = 0] /\ Overlap(s)
  /\ UNCHANGED <<hint, observing, candidateHint, spool, payloads, valueHint, bounds>>

--------------------------------------------------------------------------------
(* The end of a candidate and of a stream.                                    *)

\* releaseMaterializedPayloads
ReleasePayloads(s) ==
  LET made_ == payloads[s]
      all   == {made_[i] : i \in DOMAIN made_}
  IN  /\ pool' = pool (+) Released([b \in all |-> Cardinality({i \in DOMAIN made_ : made_[i] = b})])
      /\ payloads' = [payloads EXCEPT ![s] = <<>>]

\* The size of the candidate is observed, if it has one.
EndCandidate(s) ==
  /\ pc[s] = "capture" /\ nesting[s] = 0
  /\ \/ /\ size[s] > 0 /\ StartObserve(s, size[s])
        /\ candidateHint' = [candidateHint EXCEPT ![s] = size[s]]
        /\ pc' = [pc EXCEPT ![s] = "observe"]
        /\ UNCHANGED <<pool, payloads>>
     \/ /\ size[s] = 0 /\ ReleasePayloads(s)
        /\ pc' = [pc EXCEPT ![s] = "ready"]
        /\ UNCHANGED <<hint, observing, candidateHint>>
  /\ UNCHANGED <<spool, writer, made, nesting, valueHint, overlapped, bounds>>

MoveHint(s) ==
  /\ pc[s] = "observe" /\ CompareAndSwap(s)
  /\ IF observing'[s] = {}
     THEN ReleasePayloads(s) /\ pc' = [pc EXCEPT ![s] = "ready"]
     ELSE UNCHANGED <<pool, payloads, pc>>
  /\ UNCHANGED <<candidateHint, spool, writer, made, nesting, valueHint, overlapped, bounds>>

\* releaseMutateStreamState, also after a failure or a panic: the memory of
\* the spool is left to the garbage collector.
Return(s) ==
  /\ pc[s] \in {"ready", "failed", "panicked"} /\ pc' = [pc EXCEPT ![s] = "idle"]
  /\ ReleasePayloads(s)
  /\ mem' = [mem EXCEPT ![s] = {}] /\ used' = [used EXCEPT ![s] = 0]
  /\ size' = [size EXCEPT ![s] = 0] /\ spilled' = [spilled EXCEPT ![s] = FALSE]
  /\ candidateHint' = [candidateHint EXCEPT ![s] = 0]
  /\ valueHint' = [valueHint EXCEPT ![s] = InitialHint]
  /\ UNCHANGED <<hint, observing, writer, made, nesting, overlapped, bounds>>

Init ==
  /\ pool = EmptyBag /\ \E initial \in LearntHints : NewHint(initial)
  /\ pc = [s \in Streams |-> "idle"]
  /\ candidateHint = [s \in Streams |-> 0] /\ valueHint = [s \in Streams |-> InitialHint]
  /\ mem = [s \in Streams |-> {}] /\ used = [s \in Streams |-> 0]
  /\ spilled = [s \in Streams |-> FALSE] /\ size = [s \in Streams |-> 0]
  /\ writer = [s \in Streams |-> {}] /\ made = [s \in Streams |-> 0]
  /\ nesting = [s \in Streams |-> 0] /\ payloads = [s \in Streams |-> <<>>]
  /\ overlapped = {}
  /\ work = 0 /\ fills = 0 /\ begun = 0 /\ candidates = 0

Next ==
  \E s \in Streams :
       \/ Begin(s) \/ Prepare(s)
       \/ \E n \in WriteSizes : WriteMem(s, n) \/ WriteGrowing(s, n) \/ WriteFile(s, n)
       \/ BeginPayload(s) \/ \E n \in PayloadSizes : WritePayload(s, n)
       \/ EndPayload(s) \/ Fail(s) \/ EndCandidate(s) \/ MoveHint(s) \/ Return(s)

MemorySpec == Init /\ [][Next]_vars

--------------------------------------------------------------------------------

\* Where a stream has a buffer, and which.
InMem(s)      == {<<s, "mem", 0, b>> : b \in mem[s]}
InWriter(s)   == {<<s, "writer", 0, b>> : b \in writer[s]}
InPayloads(s) == {<<s, "payload", i, payloads[s][i]>> : i \in DOMAIN payloads[s]}
Holds(s)      == InMem(s) \cup InWriter(s) \cup InPayloads(s)

Held == UNION {Holds(s) : s \in Streams}

\* An array is in the pool once, or in one place of one stream: what a
\* candidate or a payload holds is not handed to anybody else, whether it was
\* replaced, spilled, given back by a failure or kept until the candidate ends.
\* The arrays of payloads made inside another one are left out, and no others:
\* s.materializeWriter has one buffer, so that the inner payload and the outer
\* one that goes on with it are kept, or given back, as one array twice.
BuffersExclusive ==
  /\ \A b \in BagToSet(pool) : b.id \notin overlapped => pool[b] = 1
  /\ \A b, c \in BagToSet(pool) : b.id = c.id /\ b.id \notin overlapped => b = c
  /\ \A h \in Held : h[4].id \notin overlapped => \A b \in BagToSet(pool) : h[4].id # b.id
  /\ \A h, g \in Held : h[4].id = g[4].id /\ h[4].id \notin overlapped => h = g

\* The pool may return less than what was asked for, and a panic follows when
\* that is less than what the buffer to be replaced holds.  It takes a buffer
\* that append has grown to a capacity which is not one of a class: a buffer
\* that the pool has made itself never leads to it.
PanicNeedsOddBuffer ==
  \A s \in Streams : pc[s] = "panicked" =>
    \A b \in mem[s] : \A i \in DOMAIN ClassCaps : b.cap # ClassCaps[i]

================================================================================
