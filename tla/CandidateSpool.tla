----------------------------- MODULE CandidateSpool -----------------------------
(***************************************************************************)
(* streamCandidateSpool: a candidate is captured in memory up to           *)
(* memoryBytes and then moves to a temporary file, which outlives the      *)
(* candidate and is truncated and reused by the next one that spills.      *)
(*                                                                         *)
(* A byte is a number that no other byte written has, so that stale bytes  *)
(* of an earlier candidate show.  Every operating system call is a step    *)
(* that may fail.  The module defines the operations; its owner, such as   *)
(* ScanStatePool, decides when they are called.                            *)
(***************************************************************************)
EXTENDS TempFile

CONSTANTS Dirs,         \* temp directories (a cfg is one directory and pattern)
          MemoryBytes,  \* cfg.memoryBytes
          IOFaults      \* the system calls that may fail

\* A failing Close is reported, but changes nothing that is modelled.
SystemCalls == {"create", "chmod", "truncate", "seek", "write", "remove"}

ASSUME DirsAssumption   == Dirs # {}
ASSUME MemoryAssumption == MemoryBytes \in Nat \ {0}
ASSUME FaultAssumption  == IOFaults \subseteq SystemCalls

NoFile == 0

VARIABLES
  dir,         \* cfg.tempDir and cfg.filePattern
  mem,         \* the bytes in memory (<<>> for nil)
  file,        \* the open temporary file, NoFile for nil
  bufFile,     \* the file that fileBuf writes to, NoFile while fileBuf is nil
  buf,         \* bytes in fileBuf that have not reached the file
  bufBroken,   \* fileBuf has failed and fails until it is reset
  pos,         \* offset of the file
  spilled, size, spillCount, spillBytes,
  disk,        \* contents of the temporary files that exist
  fresh,       \* the next name of os.CreateTemp
  stuck        \* history: files that os.Remove failed to remove

stats     == <<size, spillCount, spillBytes>>
buffer    == <<bufFile, buf, bufBroken>>
files     == <<file, buffer, pos, disk, fresh, stuck>>
spoolVars == <<dir, mem, files, spilled, stats>>

MayFail(call) == {TRUE} \cup {ok \in {FALSE} : call \in IOFaults}

Unlink(f, removed) ==
  /\ disk' = IF removed THEN [g \in DOMAIN disk \ {f} |-> disk[g]] ELSE disk
  /\ stuck' = IF removed THEN stuck ELSE stuck \cup {f}

--------------------------------------------------------------------------------
(* A new spool, and the reset of one that is used again.                      *)

NewSpool(d) ==
  /\ dir' = d /\ mem' = <<>> /\ file' = NoFile
  /\ bufFile' = NoFile /\ buf' = <<>> /\ bufBroken' = FALSE /\ pos' = 0
  /\ spilled' = FALSE /\ size' = 0 /\ spillCount' = 0 /\ spillBytes' = 0
  /\ UNCHANGED <<disk, fresh, stuck>>

\* Mutant: the file of another directory is given up, but not removed.
ResetForCandidateForgetful(d) ==
  /\ IF file # NoFile /\ dir # d
     THEN /\ file' = NoFile /\ bufFile' = NoFile /\ buf' = <<>> /\ bufBroken' = FALSE
          /\ UNCHANGED <<disk, stuck>>
     ELSE UNCHANGED <<file, buffer, disk, stuck>>
  /\ dir' = d /\ mem' = <<>> /\ spilled' = FALSE
  /\ size' = 0 /\ spillCount' = 0 /\ spillBytes' = 0
  /\ UNCHANGED <<pos, fresh>>

\* The file of another directory is closed and removed; errors are dropped.
ResetForCandidate(d) ==
  /\ IF file # NoFile /\ dir # d
     THEN /\ \E removed \in MayFail("remove") : Unlink(file, removed)
          /\ file' = NoFile /\ bufFile' = NoFile /\ buf' = <<>> /\ bufBroken' = FALSE
     ELSE UNCHANGED <<file, buffer, disk, stuck>>
  /\ dir' = d /\ mem' = <<>> /\ spilled' = FALSE
  /\ size' = 0 /\ spillCount' = 0 /\ spillBytes' = 0
  /\ UNCHANGED <<pos, fresh>>

--------------------------------------------------------------------------------
(* Writing.                                                                   *)

Fits(bytes) == Len(mem) + Len(bytes) <= MemoryBytes

WriteMem(bytes) ==
  /\ ~spilled /\ Fits(bytes)
  /\ mem' = mem \o bytes /\ size' = size + Len(bytes)
  /\ UNCHANGED <<dir, files, spilled, spillCount, spillBytes>>

\* spillToDisk without a file: os.CreateTemp and Chmod.
CreateFile(ok) ==
  /\ file = NoFile
  /\ \/ /\ ok
        /\ file' = fresh /\ fresh' = fresh + 1 /\ pos' = 0
        /\ disk' = [g \in DOMAIN disk \cup {fresh} |-> IF g = fresh THEN <<>> ELSE disk[g]]
        /\ bufFile' = fresh /\ buf' = <<>> /\ bufBroken' = FALSE
        /\ UNCHANGED stuck
     \/ ~ok /\ "create" \in IOFaults /\ UNCHANGED files
     \/ /\ ~ok /\ "chmod" \in IOFaults
        /\ fresh' = fresh + 1
        /\ \E removed \in MayFail("remove") :
             IF removed THEN UNCHANGED <<disk, stuck>>
             ELSE /\ disk' = [g \in DOMAIN disk \cup {fresh} |-> IF g = fresh THEN <<>> ELSE disk[g]]
                  /\ stuck' = stuck \cup {fresh}
        /\ UNCHANGED <<file, buffer, pos>>
  /\ UNCHANGED <<dir, mem, spilled, stats>>

\* spillToDisk with the file of an earlier candidate: Truncate and Seek.
RewindFile(ok) ==
  /\ file # NoFile
  /\ \/ /\ ok
        /\ disk' = [disk EXCEPT ![file] = <<>>] /\ pos' = 0
        /\ bufFile' = file /\ buf' = <<>> /\ bufBroken' = FALSE
     \/ ~ok /\ "truncate" \in IOFaults /\ UNCHANGED <<disk, pos, buffer>>
     \/ /\ ~ok /\ "seek" \in IOFaults
        /\ disk' = [disk EXCEPT ![file] = <<>>]
        /\ UNCHANGED <<pos, buffer>>
  /\ UNCHANGED <<dir, mem, file, fresh, stuck, spilled, stats>>

\* fileBuf.Write: the bytes stay in the buffer, or the buffer is written out
\* as it overflows.
Buffered(bytes) ==
  /\ ~bufBroken
  /\ \/ buf' = buf \o bytes /\ UNCHANGED <<disk, pos>>
     \/ /\ disk' = [disk EXCEPT ![bufFile] = Overwrite(@, pos, buf \o bytes)]
        /\ pos' = pos + Len(buf) + Len(bytes)
        /\ buf' = <<>>
  /\ UNCHANGED <<bufFile, bufBroken>>

\* Mutant: a failing write removes the file, but keeps the handle.
MoveMemDangling(ok) ==
  \/ /\ ok /\ Buffered(mem)
     /\ mem' = <<>> /\ spillBytes' = spillBytes + Len(mem)
     /\ spilled' = TRUE /\ spillCount' = spillCount + 1
     /\ UNCHANGED <<dir, file, fresh, stuck, size>>
  \/ /\ ~ok /\ mem # <<>> /\ "write" \in IOFaults
     /\ \E removed \in MayFail("remove") : Unlink(file, removed)
     /\ bufBroken' = TRUE
     /\ UNCHANGED <<dir, mem, file, bufFile, buf, pos, fresh, spilled, stats>>

\* The bytes in memory move to the file; a failing write removes the file.
MoveMem(ok) ==
  \/ /\ ok /\ Buffered(mem)
     /\ mem' = <<>> /\ spillBytes' = spillBytes + Len(mem)
     /\ spilled' = TRUE /\ spillCount' = spillCount + 1
     /\ UNCHANGED <<dir, file, fresh, stuck, size>>
  \/ /\ ~ok /\ mem # <<>> /\ "write" \in IOFaults
     /\ \E removed \in MayFail("remove") : Unlink(file, removed)
     /\ file' = NoFile /\ bufBroken' = TRUE
     /\ UNCHANGED <<dir, mem, bufFile, buf, pos, fresh, spilled, stats>>

WriteFile(bytes, ok) ==
  /\ spilled
  /\ \/ /\ ok /\ Buffered(bytes)
        /\ size' = size + Len(bytes) /\ spillBytes' = spillBytes + Len(bytes)
     \/ /\ ~ok /\ (bufBroken \/ "write" \in IOFaults)
        /\ bufBroken' = TRUE
        /\ UNCHANGED <<bufFile, buf, pos, disk, size, spillBytes>>
  /\ UNCHANGED <<dir, mem, file, fresh, stuck, spilled, spillCount>>

--------------------------------------------------------------------------------
(* Reading back and cleaning up.                                              *)

\* Mutant: the bytes still in the buffer are not written out.
FinalizeUnflushed(ok) == ok /\ UNCHANGED spoolVars

Finalize(ok) ==
  /\ \/ ok /\ ~spilled /\ UNCHANGED <<disk, pos, buffer>>
     \/ /\ ok /\ spilled /\ ~bufBroken
        /\ disk' = [disk EXCEPT ![bufFile] = Overwrite(@, pos, buf)]
        /\ pos' = pos + Len(buf) /\ buf' = <<>>
        /\ UNCHANGED <<bufFile, bufBroken>>
     \/ /\ ~ok /\ spilled /\ (bufBroken \/ "write" \in IOFaults)
        /\ bufBroken' = TRUE /\ UNCHANGED <<disk, pos, bufFile, buf>>
  /\ UNCHANGED <<dir, mem, file, fresh, stuck, spilled, stats>>

\* What Open reads back, and Bytes returns as long as it is in memory.
Payload == IF spilled THEN disk[file] ELSE mem

ClearStats ==
  /\ size' = 0 /\ spillCount' = 0 /\ spillBytes' = 0 /\ spilled' = FALSE

\* cleanup(false): a file that was spilled to is emptied and kept.  Flush,
\* Truncate and Seek are all tried; the first error is returned.
CleanupKeeping(ok) ==
  /\ IF file # NoFile /\ spilled
     THEN \E flushed \in {f \in MayFail("write") : f => ~bufBroken},
             truncated \in MayFail("truncate"), sought \in MayFail("seek") :
            LET after == IF flushed THEN Overwrite(disk[file], pos, buf) ELSE disk[file]
                end   == IF flushed THEN pos + Len(buf) ELSE pos
            IN  /\ ok = (flushed /\ truncated /\ sought)
                /\ disk' = [disk EXCEPT ![file] = IF truncated THEN <<>> ELSE after]
                /\ pos' = IF sought THEN 0 ELSE end
                /\ buf' = <<>> /\ bufBroken' = FALSE /\ bufFile' = file
     ELSE ok /\ UNCHANGED <<disk, pos, buffer>>
  /\ ClearStats
  /\ UNCHANGED <<dir, mem, file, fresh, stuck>>

\* cleanup(true): the file is closed, removed and forgotten.  fileBuf keeps
\* pointing to the closed file, and is reset before it is used again.
CleanupReleasing ==
  /\ IF file # NoFile
     THEN /\ \E removed \in MayFail("remove") : Unlink(file, removed)
          /\ file' = NoFile
     ELSE UNCHANGED <<disk, stuck, file>>
  /\ ClearStats
  /\ UNCHANGED <<dir, mem, buffer, pos, fresh>>

================================================================================
