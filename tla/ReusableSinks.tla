----------------------------- MODULE ReusableSinks -----------------------------
(***************************************************************************)
(* ReusableQueryPayloadSinkFactory: payload sinks that keep their memory   *)
(* and their temporary file from one candidate to the next, handed out     *)
(* under a mutex to the streams that share the factory, and closed with    *)
(* it.  The factory for MutateStream is this one under another name.       *)
(*                                                                         *)
(* NewSink, releaseSink and the first half of Close hold the mutex and are *)
(* one step each; all else interleaves, Close with streams still running   *)
(* included.  A byte is a number that no other byte written has.           *)
(***************************************************************************)
EXTENDS TempFile, FiniteSets, SequencesExt

CONSTANTS Streams,       \* the streams that use the factory
          MaxSinks,      \* bound: sinks ever created
          MemoryBytes,   \* SpoolMemoryBytes
          WriteSizes,    \* lengths of the slices that a stream writes
          MaxCandidate,  \* bound: bytes of a candidate
          MaxBytes,      \* bound: bytes written over all candidates
          IOFaults       \* the system calls that may fail

ASSUME MemoryAssumption == MemoryBytes \in Nat \ {0}
ASSUME SizesAssumption  == WriteSizes \subseteq Nat \ {0}
ASSUME BoundsAssumption == {MaxSinks, MaxCandidate, MaxBytes} \subseteq Nat
ASSUME FaultAssumption  == IOFaults \subseteq {"create", "rewind", "write", "remove"}

NoSink == 0
Sinks  == 1..MaxSinks

VARIABLES
  closed,    \* f.closed
  pool,      \* f.pool, used as a stack
  all,       \* f.all
  closing,   \* the sinks that Close has still to close
  created,   \* sinks created so far
  stage,     \* where a stream is with its sink
  holds,     \* the sink of a stream
  mem, usingTmp, size,  \* of a sink
  hasFile,   \* s.file # nil, and the file exists
  content,   \* content of the file
  pos,       \* offset of the file
  buf,       \* bytes in s.fileBuf that have not reached the file
  broken,    \* s.fileBuf has failed and fails until it is reset
  stuck,     \* history: files that could not be removed
  written,   \* history: what the stream has written to its sink
  stamp,     \* history: the last byte written
  disturbed, \* history: Close has closed the sink under the stream
  abandoned  \* history: sinks whose Cleanup failed after Close

factory == <<closed, pool, all, created>>
file    == <<hasFile, content, pos, buf, broken, stuck>>
sink    == <<mem, usingTmp, size, file>>
history == <<written, stamp, disturbed>>
vars == <<factory, closing, stage, holds, sink, history, abandoned>>

MayFail(call) == {TRUE} \cup {ok \in {FALSE} : call \in IOFaults}

\* resetForCandidate.
Reset(s) ==
  /\ mem' = [mem EXCEPT ![s] = <<>>]
  /\ usingTmp' = [usingTmp EXCEPT ![s] = FALSE]
  /\ size' = [size EXCEPT ![s] = 0]

\* closeResources; its errors do not keep it from letting go of everything.
CloseResources(s) ==
  /\ Reset(s)
  /\ hasFile' = [hasFile EXCEPT ![s] = FALSE]
  /\ buf' = [buf EXCEPT ![s] = <<>>] /\ broken' = [broken EXCEPT ![s] = FALSE]
  /\ content' = [content EXCEPT ![s] = <<>>] /\ pos' = [pos EXCEPT ![s] = 0]
  /\ \E removed \in MayFail("remove") :
       stuck' = IF hasFile[s] /\ ~removed THEN stuck \cup {s} ELSE stuck

--------------------------------------------------------------------------------
(* The factory.                                                               *)

\* Mutant: the sink that is handed out stays in the pool.
TakeFromPoolPeek(u) ==
  /\ pool # <<>>
  /\ holds' = [holds EXCEPT ![u] = Last(pool)]
  /\ Reset(Last(pool))
  /\ UNCHANGED <<pool, all, created>>

TakeFromPool(u) ==
  /\ pool # <<>>
  /\ holds' = [holds EXCEPT ![u] = Last(pool)]
  /\ pool' = Front(pool)
  /\ Reset(Last(pool))
  /\ UNCHANGED <<all, created>>

Create(u) ==
  /\ pool = <<>> /\ created < MaxSinks
  /\ created' = created + 1
  /\ all' = Append(all, created')
  /\ holds' = [holds EXCEPT ![u] = created']
  /\ UNCHANGED <<pool, mem, usingTmp, size>>

\* A closed factory refuses.
NewSink(u) ==
  /\ stage[u] = "idle" /\ ~closed
  /\ TakeFromPool(u) \/ Create(u)
  /\ stage' = [stage EXCEPT ![u] = "writing"]
  /\ written' = [written EXCEPT ![u] = <<>>]
  /\ disturbed' = [disturbed EXCEPT ![u] = FALSE]
  /\ UNCHANGED <<closed, closing, file, stamp, abandoned>>

\* Mutant: a sink released after Close goes back to the pool.
ReleaseSinkAlways(u) ==
  /\ stage[u] = "releasing"
  /\ pool' = Append(pool, holds[u])
  /\ stage' = [stage EXCEPT ![u] = "idle"] /\ holds' = [holds EXCEPT ![u] = NoSink]
  /\ UNCHANGED <<closed, all, created, closing, sink, history, abandoned>>

\* releaseSink, the last call of Cleanup.
ReleaseSink(u) ==
  /\ stage[u] = "releasing"
  /\ IF closed THEN CloseResources(holds[u]) /\ UNCHANGED pool
               ELSE pool' = Append(pool, holds[u]) /\ UNCHANGED sink
  /\ stage' = [stage EXCEPT ![u] = "idle"] /\ holds' = [holds EXCEPT ![u] = NoSink]
  /\ UNCHANGED <<closed, all, created, closing, history, abandoned>>

\* Mutant: only the sinks in the pool are closed.
ClosePooled ==
  /\ ~closed
  /\ closed' = TRUE /\ closing' = pool /\ pool' = <<>> /\ all' = <<>>
  /\ UNCHANGED <<created, stage, holds, sink, history, abandoned>>

\* Close, under the mutex; a second call does nothing.
Close ==
  /\ ~closed
  /\ closed' = TRUE /\ closing' = all /\ pool' = <<>> /\ all' = <<>>
  /\ UNCHANGED <<created, stage, holds, sink, history, abandoned>>

\* Close, after it gave up the mutex: one sink after the other.
CloseNext ==
  /\ closing # <<>>
  /\ CloseResources(Head(closing))
  /\ closing' = Tail(closing)
  /\ disturbed' = [u \in Streams |-> disturbed[u] \/ holds[u] = Head(closing)]
  /\ UNCHANGED <<factory, stage, holds, written, stamp, abandoned>>

--------------------------------------------------------------------------------
(* A stream and the sink it holds.                                            *)

\* A failing call ends the candidate; Cleanup follows.
Failed(u) == stage' = [stage EXCEPT ![u] = "failed"]

WriteMem(u, s, bytes) ==
  /\ ~usingTmp[s] /\ Len(mem[s]) + Len(bytes) <= MemoryBytes
  /\ mem' = [mem EXCEPT ![s] = @ \o bytes]
  /\ size' = [size EXCEPT ![s] = @ + Len(bytes)]
  /\ written' = [written EXCEPT ![u] = @ \o bytes]
  /\ UNCHANGED <<usingTmp, file, stage>>

\* Mutant: the file of an earlier candidate is not truncated.
SwitchToTempFileUntruncated(s, moved, flushed) ==
  /\ hasFile' = [hasFile EXCEPT ![s] = TRUE]
  /\ content' = [content EXCEPT ![s] = Overwrite(@, 0, SubSeq(moved, 1, flushed))]
  /\ pos' = [pos EXCEPT ![s] = flushed]
  /\ buf' = [buf EXCEPT ![s] = SubSeq(moved, flushed + 1, Len(moved))]

\* switchToTempFile: the file is created or truncated and rewound, and what was
\* moved to it so far is in the file or still in the buffer.
SwitchToTempFile(s, moved, flushed) ==
  /\ hasFile' = [hasFile EXCEPT ![s] = TRUE]
  /\ content' = [content EXCEPT ![s] = SubSeq(moved, 1, flushed)]
  /\ pos' = [pos EXCEPT ![s] = flushed]
  /\ buf' = [buf EXCEPT ![s] = SubSeq(moved, flushed + 1, Len(moved))]

\* The slice that does not fit: the file is made ready, the bytes in memory and
\* the slice follow one another through the buffer, which may overflow at each.
\* The sink uses the file as soon as it has the bytes that were in memory.
Spill(u, s, bytes) ==
  /\ ~usingTmp[s] /\ Len(mem[s]) + Len(bytes) > MemoryBytes
  /\ \/ /\ \E flushed \in {0, Len(mem[s]), Len(mem[s]) + Len(bytes)} :
             SwitchToTempFile(s, mem[s] \o bytes, flushed)
        /\ broken' = [broken EXCEPT ![s] = FALSE]
        /\ mem' = [mem EXCEPT ![s] = <<>>] /\ usingTmp' = [usingTmp EXCEPT ![s] = TRUE]
        /\ size' = [size EXCEPT ![s] = @ + Len(bytes)]
        /\ written' = [written EXCEPT ![u] = @ \o bytes]
        /\ UNCHANGED stage
     \/ /\ IF hasFile[s] THEN "rewind" \in IOFaults ELSE "create" \in IOFaults
        /\ hasFile[s] => content' \in {content, [content EXCEPT ![s] = <<>>]}
        /\ ~hasFile[s] => content' = content
        /\ Failed(u)
        /\ UNCHANGED <<mem, usingTmp, size, written, hasFile, pos, buf, broken>>
     \/ /\ "write" \in IOFaults
        /\ SwitchToTempFile(s, <<>>, 0)
        /\ broken' = [broken EXCEPT ![s] = TRUE]
        /\ \/ mem[s] # <<>> /\ UNCHANGED <<mem, usingTmp>>
           \/ /\ mem' = [mem EXCEPT ![s] = <<>>]
              /\ usingTmp' = [usingTmp EXCEPT ![s] = TRUE]
        /\ Failed(u)
        /\ UNCHANGED <<size, written>>
  /\ UNCHANGED stuck

\* fileBuf.Write: the bytes stay in the buffer, or overflow it.
WriteFile(u, s, bytes) ==
  /\ usingTmp[s]
  /\ \/ /\ ~broken[s]
        /\ \/ buf' = [buf EXCEPT ![s] = @ \o bytes] /\ UNCHANGED <<content, pos>>
           \/ /\ content' = [content EXCEPT ![s] = Overwrite(@, pos[s], buf[s] \o bytes)]
              /\ pos' = [pos EXCEPT ![s] = @ + Len(buf[s]) + Len(bytes)]
              /\ buf' = [buf EXCEPT ![s] = <<>>]
        /\ size' = [size EXCEPT ![s] = @ + Len(bytes)]
        /\ written' = [written EXCEPT ![u] = @ \o bytes]
        /\ UNCHANGED <<broken, stage>>
     \/ /\ broken[s] \/ "write" \in IOFaults
        /\ broken' = [broken EXCEPT ![s] = TRUE]
        /\ Failed(u)
        /\ UNCHANGED <<buf, content, pos, size, written>>
  /\ UNCHANGED <<mem, usingTmp, hasFile, stuck>>

Write(u) ==
  /\ stage[u] = "writing"
  /\ \E n \in WriteSizes :
       LET bytes == [i \in 1..n |-> stamp + i]
       IN  /\ Len(written[u]) + n <= MaxCandidate /\ stamp + n <= MaxBytes
           /\ stamp' = stamp + n
           /\ \/ WriteMem(u, holds[u], bytes)
              \/ Spill(u, holds[u], bytes)
              \/ WriteFile(u, holds[u], bytes)
  /\ UNCHANGED <<factory, closing, holds, disturbed, abandoned>>

\* fileBuf.Flush, and the offset after the Seek that may follow it.
FlushTo(s, offset) ==
  /\ ~broken[s]
  /\ content' = [content EXCEPT ![s] = Overwrite(@, pos[s], buf[s])]
  /\ pos' = [pos EXCEPT ![s] = offset]
  /\ buf' = [buf EXCEPT ![s] = <<>>]

FlushFails(s) ==
  /\ broken[s] \/ "write" \in IOFaults
  /\ broken' = [broken EXCEPT ![s] = TRUE]
  /\ UNCHANGED <<content, pos, buf>>

\* Finalize; then OnValue reads the payload.
Finalize(u) ==
  LET s == holds[u] IN
  /\ stage[u] = "writing" /\ written[u] # <<>>
  /\ \/ ~usingTmp[s] /\ stage' = [stage EXCEPT ![u] = "value"] /\ UNCHANGED file
     \/ /\ usingTmp[s] /\ FlushTo(s, pos[s] + Len(buf[s]))
        /\ stage' = [stage EXCEPT ![u] = "value"]
        /\ UNCHANGED <<hasFile, broken, stuck>>
     \/ usingTmp[s] /\ FlushFails(s) /\ Failed(u) /\ UNCHANGED <<hasFile, stuck>>
  /\ UNCHANGED <<factory, closing, holds, mem, usingTmp, size, history, abandoned>>

\* Cleanup, up to releaseSink.
Cleanup(u) ==
  LET s == holds[u] IN
  /\ stage[u] \in {"writing", "value", "failed"}
  /\ \/ ~usingTmp[s] /\ UNCHANGED <<content, pos, buf>>
     \/ usingTmp[s] /\ FlushTo(s, 0)
  /\ Reset(s)
  /\ stage' = [stage EXCEPT ![u] = "releasing"]
  /\ UNCHANGED <<factory, closing, holds, hasFile, broken, stuck, history, abandoned>>

\* Cleanup, when Flush or Seek fails: the sink is not released, and nothing but
\* Close, if it is still to come, will close it.
CleanupFails(u) ==
  LET s == holds[u] IN
  /\ stage[u] \in {"writing", "value", "failed"}
  /\ usingTmp[s]
  /\ \/ FlushFails(s)
     \/ "rewind" \in IOFaults /\ FlushTo(s, pos[s] + Len(buf[s])) /\ UNCHANGED broken
  /\ stage' = [stage EXCEPT ![u] = "idle"] /\ holds' = [holds EXCEPT ![u] = NoSink]
  /\ abandoned' = abandoned \cup ({s} \ (Range(all) \cup Range(closing)))
  /\ UNCHANGED <<factory, closing, mem, usingTmp, size, hasFile, stuck, history>>

--------------------------------------------------------------------------------

Init ==
  /\ closed = FALSE /\ pool = <<>> /\ all = <<>> /\ closing = <<>> /\ created = 0
  /\ stage = [u \in Streams |-> "idle"] /\ holds = [u \in Streams |-> NoSink]
  /\ mem = [s \in Sinks |-> <<>>] /\ size = [s \in Sinks |-> 0]
  /\ usingTmp = [s \in Sinks |-> FALSE]
  /\ hasFile = [s \in Sinks |-> FALSE] /\ content = [s \in Sinks |-> <<>>]
  /\ pos = [s \in Sinks |-> 0] /\ buf = [s \in Sinks |-> <<>>]
  /\ broken = [s \in Sinks |-> FALSE] /\ stuck = {} /\ abandoned = {}
  /\ written = [u \in Streams |-> <<>>] /\ stamp = 0
  /\ disturbed = [u \in Streams |-> FALSE]

\* The factory is closed and every stream has ended.
Over ==
  /\ closed /\ closing = <<>> /\ \A u \in Streams : stage[u] = "idle"
  /\ UNCHANGED vars

StreamNext(u) ==
  \/ NewSink(u) \/ Write(u) \/ Finalize(u)
  \/ Cleanup(u) \/ CleanupFails(u) \/ ReleaseSink(u)

Next == (\E u \in Streams : StreamNext(u)) \/ Close \/ CloseNext \/ Over

Spec == Init /\ [][Next]_vars

--------------------------------------------------------------------------------

Holders(s) == {u \in Streams : holds[u] = s}

TypeOK ==
  /\ closed \in BOOLEAN /\ created \in 0..MaxSinks
  /\ pool \in Seq(Sinks) /\ all \in Seq(Sinks) /\ closing \in Seq(Sinks)
  /\ stage \in [Streams -> {"idle", "writing", "value", "failed", "releasing"}]
  /\ holds \in [Streams -> Sinks \cup {NoSink}]
  /\ \A u \in Streams : holds[u] = NoSink <=> stage[u] = "idle"
  /\ mem \in [Sinks -> Seq(Nat)] /\ content \in [Sinks -> Seq(Nat)] /\ buf \in [Sinks -> Seq(Nat)]
  /\ size \in [Sinks -> Nat] /\ pos \in [Sinks -> Nat]
  /\ usingTmp \in [Sinks -> BOOLEAN] /\ hasFile \in [Sinks -> BOOLEAN]
  /\ broken \in [Sinks -> BOOLEAN]
  /\ written \in [Streams -> Seq(Nat)] /\ disturbed \in [Streams -> BOOLEAN]
  /\ stuck \subseteq Sinks /\ abandoned \subseteq Sinks /\ stamp \in 0..MaxBytes

\* NewSink and releaseSink never let two streams write to one sink: a sink is
\* held by one stream at most, is in the pool once at most, and not while held.
Exclusive ==
  /\ \A s \in Sinks : Cardinality(Holders(s)) <= 1
  /\ IsInjective(pool)
  /\ \A i \in DOMAIN pool : Holders(pool[i]) = {}

\* OnValue reads what its stream has written, from memory or from a file that
\* earlier candidates of other streams have used, unless Close came in between.
PayloadIntact ==
  \A u \in Streams : stage[u] = "value" /\ ~disturbed[u] =>
    LET s == holds[u]
    IN  /\ (IF usingTmp[s] THEN content[s] ELSE mem[s]) = written[u]
        /\ size[s] = Len(written[u])

\* "Close releases all reusable sink resources including any temp files": a
\* file that exists belongs to a sink that Close, the loop of Close or the
\* stream that holds it will still close; the one exception is a sink whose
\* Cleanup failed when Close was already over.
FilesReclaimable ==
  \A s \in Sinks : hasFile[s] =>
    \/ s \in Range(all) \cup Range(closing) \cup abandoned
    \/ Holders(s) # {}

\* A closed factory keeps nothing: what is released to it is closed, so no
\* sink that Close has closed is ever handed out again.
NothingPooledOnceClosed == closed => pool = <<>> /\ all = <<>>

================================================================================
