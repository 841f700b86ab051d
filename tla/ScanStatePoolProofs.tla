-------------------------- MODULE ScanStatePoolProofs --------------------------
(***************************************************************************)
(* The spool of a pooled scan state, for any calls, candidates, sizes and  *)
(* failures: its file exists, none is lost, and OnValue reads what the     *)
(* scan wrote.                                                             *)
(***************************************************************************)
EXTENDS ScanStatePool, SequenceTheorems, TLAPS

InCapture == {"capture", "spill", "move", "append", "value"}

\* The files that exist and could be removed have an owner.
FilesHeld ==
  /\ file # NoFile => file \in DOMAIN disk \ stuck /\ bufFile = file
  /\ DOMAIN disk \ stuck \subseteq dropped \cup {file}

\* The pool gets a state without its file, unless the last candidate was discarded.
Stages ==
  /\ pc \in {"free", "ready", "over", "spill", "move"} => ~spilled
  /\ pc = "append" => spilled
  /\ spilled \/ pc = "move" => file # NoFile
  /\ pc \in InCapture \cup {"failed"} => usingInternal
  /\ usingInternal \/ file # NoFile => initialized
  /\ pc \in {"free", "ready", "over"} /\ ~usingInternal /\ file # NoFile => discarded
  /\ pc = "free" => ~usingInternal

\* What was written so far, w, is in memory or on disk and in the buffer.
Holds(w) ==
  /\ size = Len(w)
  /\ ~spilled => mem = w /\ Len(mem) <= MemoryBytes /\ spillCount = 0 /\ spillBytes = 0
  /\ spilled => /\ disk[file] \o buf = w /\ pos = Len(disk[file])
                /\ spillCount = 1 /\ spillBytes = size

Captured ==
  /\ pc \in InCapture => Holds(written)
  /\ pc = "move" => disk[file] = <<>> /\ buf = <<>> /\ pos = 0
  /\ pc = "value" /\ spilled => buf = <<>>

IInv == TypeOK /\ FilesHeld /\ Stages /\ Captured

FilesOK ==
  /\ file \in Nat /\ bufFile \in Nat /\ fresh \in Nat \ {0}
  /\ disk \in [DOMAIN disk -> Seq(Nat)] /\ DOMAIN disk \subseteq 1..(fresh - 1)
  /\ stuck \subseteq DOMAIN disk
  /\ FilesHeld

LEMMA InitIInv == Init => IInv
<1> SUFFICES ASSUME Init PROVE IInv
  OBVIOUS
<1>1. DOMAIN disk = {} /\ disk \in [DOMAIN disk -> Seq(Nat)]
  BY DEF Init
<1>2. {bufBroken, spilled, lossy, usingInternal, initialized, discarded} \subseteq BOOLEAN
  BY DEF Init
<1>3. TypeOK
  BY <1>1, <1>2 DEF Init, TypeOK, NoFile, Points
<1> QED
  BY <1>1, <1>3 DEF Init, IInv, FilesHeld, Stages, Captured, InCapture

--------------------------------------------------------------------------------
(* Sequences, and the content of a file that bytes are written to.            *)

LEMMA ConcatLaws ==
  ASSUME NEW a \in Seq(Nat), NEW b \in Seq(Nat), NEW c \in Seq(Nat)
  PROVE  /\ a \o b \in Seq(Nat) /\ Len(a \o b) = Len(a) + Len(b)
         /\ (a \o b) \o c = a \o (b \o c)
         /\ a \o <<>> = a /\ <<>> \o a = a
<1>1. a \o b \in Seq(Nat) /\ Len(a \o b) = Len(a) + Len(b)
  OBVIOUS
<1>2. (a \o b) \o c = a \o (b \o c)
  OBVIOUS
<1>3. a \o <<>> = a /\ <<>> \o a = a
  OBVIOUS
<1> QED
  BY <1>1, <1>2, <1>3

LEMMA JoinLaw ==
  ASSUME NEW a \in Seq(Nat), NEW b \in Seq(Nat), NEW c \in Seq(Nat)
  PROVE  /\ a \o (b \o c) = (a \o b) \o c
         /\ Len(a \o (b \o c)) = Len(a) + Len(b) + Len(c)
<1>1. Len(a \o (b \o c)) = Len(a) + Len(b) + Len(c)
  OBVIOUS
<1> QED
  BY <1>1, ConcatLaws

LEMMA OverwriteTyped ==
  ASSUME NEW c \in Seq(Nat), NEW at \in Nat, NEW b \in Seq(Nat)
  PROVE  Overwrite(c, at, b) \in Seq(Nat)
<1> DEFINE end == at + Len(b)
           n == IF end > Len(c) THEN end ELSE Len(c)
           v(i) == IF i \in (at + 1)..end THEN b[i - at] ELSE IF i <= Len(c) THEN c[i] ELSE 0
<1>1. n \in Nat
  OBVIOUS
<1>2. \A i \in 1..n : v(i) \in Nat
  OBVIOUS
<1>3. Overwrite(c, at, b) = [i \in 1..n |-> v(i)]
  BY DEF Overwrite
<1> HIDE DEF n, v
<1> QED
  BY <1>1, <1>2, <1>3

\* Writing at the end of a file appends.
LEMMA OverwriteAppends ==
  ASSUME NEW c \in Seq(Nat), NEW b \in Seq(Nat)
  PROVE  Overwrite(c, Len(c), b) = c \o b
<1> DEFINE n == Len(c) + Len(b)
<1>1. Overwrite(c, Len(c), b) =
        [i \in 1..n |-> IF i \in (Len(c) + 1)..n THEN b[i - Len(c)]
                        ELSE IF i <= Len(c) THEN c[i] ELSE 0]
  BY DEF Overwrite
<1>2. Overwrite(c, Len(c), b) \in Seq(Nat) /\ c \o b \in Seq(Nat)
  BY OverwriteTyped
<1>3. Len(Overwrite(c, Len(c), b)) = n /\ Len(c \o b) = n /\ n \in Nat
  BY <1>1
<1>4. \A i \in 1..n : Overwrite(c, Len(c), b)[i] = (c \o b)[i]
  BY <1>1
<1> HIDE DEF n
<1> QED
  BY <1>2, <1>3, <1>4, SeqEqual

--------------------------------------------------------------------------------
(* The operations of the spool.                                               *)

\* A file that is closed and removed, or could not be removed.
LEMMA UnlinkOK ==
  ASSUME NEW f \in DOMAIN disk \ stuck, NEW removed \in BOOLEAN, Unlink(f, removed), TypeOK
  PROVE  /\ disk' \in [DOMAIN disk' -> Seq(Nat)] /\ DOMAIN disk' \subseteq DOMAIN disk
         /\ stuck' \subseteq DOMAIN disk'
         /\ DOMAIN disk' \ stuck' = (DOMAIN disk \ stuck) \ {f}
<1>1. CASE removed
  <2>1. disk' = [g \in DOMAIN disk \ {f} |-> disk[g]] /\ stuck' = stuck
    BY <1>1 DEF Unlink
  <2>2. DOMAIN disk' = DOMAIN disk \ {f} /\ \A g \in DOMAIN disk' : disk'[g] \in Seq(Nat)
    BY <2>1 DEF TypeOK
  <2> QED
    BY <2>1, <2>2 DEF TypeOK
<1>2. CASE ~removed
  BY <1>2 DEF Unlink, TypeOK
<1> QED
  BY <1>1, <1>2

LEMMA MayFailOK == ASSUME NEW syscall PROVE MayFail(syscall) \subseteq BOOLEAN
BY DEF MayFail

\* A spool without its file.
LEMMA ForgetsFile ==
  ASSUME IInv, file # NoFile, \E removed \in MayFail("remove") : Unlink(file, removed), file' = NoFile,
         fresh' = fresh, dropped' = dropped, bufFile' \in Nat
  PROVE  FilesOK'
<1>1. file \in DOMAIN disk \ stuck
  BY DEF IInv, FilesHeld
<1>2. PICK removed \in BOOLEAN : Unlink(file, removed)
  BY MayFailOK
<1>3. /\ disk' \in [DOMAIN disk' -> Seq(Nat)] /\ DOMAIN disk' \subseteq DOMAIN disk
      /\ stuck' \subseteq DOMAIN disk'
      /\ DOMAIN disk' \ stuck' = (DOMAIN disk \ stuck) \ {file}
  BY <1>1, <1>2, UnlinkOK DEF IInv
<1>4. DOMAIN disk \subseteq 1..(fresh - 1) /\ DOMAIN disk \ stuck \subseteq dropped \cup {file}
  BY DEF IInv, TypeOK, FilesHeld
<1> QED
  BY <1>3, <1>4 DEF FilesOK, IInv, TypeOK, FilesHeld, NoFile

\* An open file whose content changes.
LEMMA ChangesFile ==
  ASSUME IInv, file # NoFile, NEW c \in Seq(Nat), disk' = [disk EXCEPT ![file] = c],
         bufFile' = file, UNCHANGED <<file, fresh, stuck, dropped>>
  PROVE  FilesOK' /\ disk'[file] = c
<1>1. file \in DOMAIN disk /\ disk \in [DOMAIN disk -> Seq(Nat)]
  BY DEF IInv, FilesHeld, TypeOK
<1>2. disk' \in [DOMAIN disk -> Seq(Nat)] /\ DOMAIN disk' = DOMAIN disk /\ disk'[file] = c
  BY <1>1
<1> QED
  BY <1>2 DEF IInv, FilesHeld, TypeOK, FilesOK

LEMMA SameFile ==
  ASSUME IInv, UNCHANGED <<file, bufFile, fresh, disk, stuck, dropped>>
  PROVE  FilesOK'
BY DEF IInv, TypeOK, FilesHeld, FilesOK

\* Bytes that fileBuf takes follow those that are on disk and in it.
LEMMA BufferedOK ==
  ASSUME IInv, file # NoFile, NEW bytes \in Seq(Nat), NEW w \in Seq(Nat), Buffered(bytes),
         disk[file] \o buf = w, pos = Len(disk[file]), UNCHANGED <<file, fresh, stuck, dropped>>
  PROVE  /\ FilesOK' /\ buf' \in Seq(Nat) /\ pos' \in Nat
         /\ bufFile' = bufFile /\ bufBroken' = bufBroken
         /\ disk'[file'] \o buf' = w \o bytes /\ pos' = Len(disk'[file'])
<1> DEFINE c == disk[file]
           b == buf
<1>1. c \in Seq(Nat) /\ b \in Seq(Nat) /\ bufFile = file /\ pos = Len(c) /\ c \o b = w
  BY DEF IInv, TypeOK, FilesHeld
<1>2. bufFile' = bufFile /\ bufBroken' = bufBroken
  BY DEF Buffered
<1>3. \/ buf' = b \o bytes /\ UNCHANGED <<disk, pos>>
      \/ /\ disk' = [disk EXCEPT ![file] = Overwrite(c, pos, b \o bytes)]
         /\ pos' = pos + Len(b) + Len(bytes) /\ buf' = <<>>
  BY <1>1 DEF Buffered
<1> HIDE DEF b
<1>4. c \o (b \o bytes) = w \o bytes /\ b \o bytes \in Seq(Nat)
  <2> HIDE DEF c
  <2>1. c \o (b \o bytes) = (c \o b) \o bytes
    BY <1>1, JoinLaw
  <2>2. b \o bytes \in Seq(Nat)
    BY <1>1, ConcatLaws
  <2> QED
    BY <1>1, <2>1, <2>2
<1>5. CASE buf' = b \o bytes /\ UNCHANGED <<disk, pos>>
  BY <1>1, <1>2, <1>4, <1>5, SameFile DEF IInv, TypeOK
<1>6. CASE /\ disk' = [disk EXCEPT ![file] = Overwrite(c, pos, b \o bytes)]
           /\ pos' = pos + Len(b) + Len(bytes) /\ buf' = <<>>
  <2>1. Overwrite(c, pos, b \o bytes) = c \o (b \o bytes)
    <3> HIDE DEF c
    <3> QED
      BY <1>1, <1>4, OverwriteAppends
  <2>2. w \o bytes \in Seq(Nat) /\ (w \o bytes) \o <<>> = w \o bytes
    BY ConcatLaws
  <2>3. FilesOK' /\ disk'[file] = w \o bytes
    BY <1>1, <1>2, <1>4, <1>6, <2>1, <2>2, ChangesFile
  <2>4. Len(c \o (b \o bytes)) = Len(c) + Len(b) + Len(bytes)
    <3> HIDE DEF c
    <3> QED
      BY <1>1, JoinLaw
  <2>5. Len(c) \in Nat /\ Len(b) \in Nat /\ Len(bytes) \in Nat
    BY <1>1
  <2>6. pos' = Len(disk'[file]) /\ pos' \in Nat
    <3> HIDE DEF c
    <3> QED
      BY <1>1, <1>4, <1>6, <2>3, <2>4, <2>5
  <2>7. disk'[file] \o buf' = w \o bytes /\ buf' \in Seq(Nat)
    BY <1>6, <2>2, <2>3
  <2> QED
    BY <1>2, <2>3, <2>6, <2>7
<1> QED
  BY <1>3, <1>5, <1>6

--------------------------------------------------------------------------------
(* A call takes the state from the pool and gives it back.                    *)

LEMMA AcquireKeeps == ASSUME IInv, Acquire PROVE IInv'
<1>1. /\ UNCHANGED <<dir, mem, file, bufFile, buf, bufBroken, pos, disk, fresh, stuck, spilled, size>>
      /\ UNCHANGED <<spillCount, spillBytes, writing, written, stamp, initialized, discarded, dropped>>
      /\ pc = "free" /\ pc' = "ready" /\ usingInternal' = FALSE /\ callDir' \in Dirs /\ lossy' \in BOOLEAN
  BY LossyAssumption DEF Acquire, spoolVars, files, buffer, stats, candidate, history
<1>2. FilesOK'
  BY <1>1, SameFile
<1>3. TypeOK'
  BY <1>1, <1>2 DEF IInv, TypeOK, FilesOK, Points
<1>4. Stages'
  BY <1>1 DEF IInv, Stages, InCapture
<1>5. Captured'
  BY <1>1 DEF Captured, InCapture
<1> QED
  BY <1>2, <1>3, <1>4, <1>5 DEF IInv, FilesOK

LEMMA ReleaseKeeps == ASSUME IInv, Release PROVE IInv'
<1>1. /\ UNCHANGED <<callDir, lossy, writing, written, stamp, initialized, discarded, dropped>>
      /\ pc \in {"ready", "over"} /\ pc' = "free" /\ usingInternal' = FALSE
  BY DEF Release, call, candidate, history
<1>2. CASE usingInternal /\ initialized /\ CleanupReleasing
  <2>1. /\ UNCHANGED <<dir, mem, bufFile, buf, bufBroken, pos, fresh>> /\ spilled' = FALSE
        /\ size' = 0 /\ spillCount' = 0 /\ spillBytes' = 0 /\ file' = NoFile
    BY <1>2 DEF CleanupReleasing, ClearStats, buffer
  <2>2. FilesOK'
    <3>1. CASE file = NoFile
      BY <1>1, <1>2, <2>1, <3>1, SameFile DEF CleanupReleasing
    <3>2. CASE file # NoFile
      BY <1>1, <1>2, <2>1, <3>2, ForgetsFile DEF CleanupReleasing, IInv, TypeOK
    <3> QED
      BY <3>1, <3>2
  <2>3. TypeOK'
    BY <1>1, <2>1, <2>2 DEF IInv, TypeOK, FilesOK, Points
  <2>4. Stages'
    BY <1>1, <2>1 DEF IInv, Stages, InCapture
  <2> QED
    BY <1>1, <2>2, <2>3, <2>4 DEF IInv, FilesOK, Captured, InCapture
<1>3. CASE ~(usingInternal /\ initialized) /\ UNCHANGED spoolVars
  <2>1. UNCHANGED <<dir, mem, file, bufFile, buf, bufBroken, pos, disk, fresh, stuck, spilled, size,
                    spillCount, spillBytes>>
    BY <1>3 DEF spoolVars, files, buffer, stats
  <2>2. FilesOK'
    BY <1>1, <2>1, SameFile
  <2>3. TypeOK'
    BY <1>1, <2>1, <2>2 DEF IInv, TypeOK, FilesOK, Points
  <2>4. Stages'
    BY <1>1, <1>3, <2>1 DEF IInv, Stages, InCapture
  <2> QED
    BY <1>1, <2>2, <2>3, <2>4 DEF IInv, FilesOK, Captured, InCapture
<1> QED
  BY <1>2, <1>3 DEF Release

LEMMA DropKeeps == ASSUME IInv, Drop PROVE IInv'
<1>1. /\ UNCHANGED <<pc, callDir, lossy, writing, written, stamp, usingInternal, discarded>>
      /\ UNCHANGED <<dir, disk, fresh, stuck>> /\ pc = "free" /\ initialized' = FALSE
      /\ mem' = <<>> /\ file' = NoFile /\ bufFile' = NoFile /\ buf' = <<>> /\ bufBroken' = FALSE
      /\ pos' = 0 /\ spilled' = FALSE /\ size' = 0 /\ spillCount' = 0 /\ spillBytes' = 0
      /\ dropped' = dropped \cup ({file} \ {NoFile})
  BY DEF Drop, NewSpool, call, candidate
<1>2. FilesHeld'
  BY <1>1 DEF IInv, FilesHeld
<1>3. TypeOK'
  <2>0. <<>> \in Seq(Nat)
    OBVIOUS
  <2>1. bufBroken' \in BOOLEAN /\ spilled' \in BOOLEAN /\ initialized' \in BOOLEAN
    BY <1>1, Zenon
  <2>2. disk' \in [DOMAIN disk' -> Seq(Nat)]
    BY <1>1 DEF IInv, TypeOK
  <2> QED
    BY <1>1, <2>0, <2>1, <2>2 DEF IInv, TypeOK, NoFile
<1>4. Stages'
  BY <1>1 DEF IInv, Stages, InCapture
<1> QED
  BY <1>1, <1>2, <1>3, <1>4 DEF IInv, Captured, InCapture

--------------------------------------------------------------------------------
(* A candidate.                                                               *)

LEMMA DiscardKeeps == ASSUME IInv, Discard PROVE IInv'
<1>1. /\ UNCHANGED <<dir, mem, file, bufFile, buf, bufBroken, pos, disk, fresh, stuck, spilled, size>>
      /\ UNCHANGED <<spillCount, spillBytes, pc, callDir, lossy, writing, written, stamp, initialized, dropped>>
      /\ pc = "ready" /\ usingInternal' = FALSE /\ discarded' = TRUE
  BY DEF Discard, spoolVars, files, buffer, stats, call, candidate
<1>2. FilesOK'
  BY <1>1, SameFile
<1>3. TypeOK'
  BY <1>1, <1>2 DEF IInv, TypeOK, FilesOK
<1>4. Stages'
  BY <1>1 DEF IInv, Stages, InCapture
<1> QED
  BY <1>1, <1>2, <1>3, <1>4 DEF IInv, FilesOK, Captured, InCapture

LEMMA PrepareKeeps == ASSUME IInv, Prepare PROVE IInv'
<1>1. /\ UNCHANGED <<callDir, lossy, stamp, dropped>> /\ writing' = <<>> /\ written' = <<>>
      /\ pc' = "capture" /\ initialized' = TRUE /\ usingInternal' = TRUE /\ discarded' = FALSE
  BY DEF Prepare, call
<1>2. /\ dir' \in Dirs /\ mem' = <<>> /\ spilled' = FALSE
      /\ size' = 0 /\ spillCount' = 0 /\ spillBytes' = 0 /\ fresh' = fresh
      /\ pos' \in Nat /\ buf' \in Seq(Nat) /\ bufBroken' \in BOOLEAN
  <2>0. callDir \in Dirs /\ pos \in Nat /\ buf \in Seq(Nat) /\ bufBroken \in BOOLEAN /\ <<>> \in Seq(Nat)
    BY DEF IInv, TypeOK
  <2>1. CASE initialized /\ ResetForCandidate(callDir)
    <3>1. /\ dir' = callDir /\ mem' = <<>> /\ spilled' = FALSE
          /\ size' = 0 /\ spillCount' = 0 /\ spillBytes' = 0 /\ fresh' = fresh /\ pos' = pos
      BY <2>1 DEF ResetForCandidate
    <3>2. (buf' = buf /\ bufBroken' = bufBroken) \/ (buf' = <<>> /\ bufBroken' = FALSE)
      BY <2>1 DEF ResetForCandidate, buffer
    <3> QED
      BY <2>0, <3>1, <3>2
  <2>2. CASE NewSpool(callDir)
    <3>1. /\ dir' = callDir /\ mem' = <<>> /\ spilled' = FALSE
          /\ size' = 0 /\ spillCount' = 0 /\ spillBytes' = 0 /\ fresh' = fresh /\ pos' = 0
          /\ buf' = <<>> /\ bufBroken' = FALSE
      BY <2>2 DEF NewSpool
    <3> QED
      BY <2>0, <3>1
  <2> QED
    BY <2>1, <2>2 DEF Prepare
<1>3. FilesOK'
  <2>1. CASE initialized /\ file # NoFile /\ dir # callDir
    BY <1>1, <1>2, <2>1, ForgetsFile DEF Prepare, ResetForCandidate, NoFile
  <2>2. CASE initialized /\ ~(file # NoFile /\ dir # callDir)
    BY <1>1, <1>2, <2>2, SameFile DEF Prepare, ResetForCandidate, buffer
  <2>3. CASE ~initialized
    <3>1. file = NoFile
      BY <2>3 DEF IInv, Stages
    <3>2. file' = NoFile /\ bufFile' = NoFile /\ UNCHANGED <<disk, stuck>>
      BY <2>3 DEF Prepare, NewSpool
    <3> QED
      BY <1>1, <1>2, <3>1, <3>2 DEF IInv, TypeOK, FilesHeld, FilesOK, NoFile
  <2> QED
    BY <2>1, <2>2, <2>3
<1>4. TypeOK'
  <2>0. <<>> \in Seq(Nat)
    OBVIOUS
  <2>1. /\ spilled' \in BOOLEAN /\ usingInternal' \in BOOLEAN /\ initialized' \in BOOLEAN
        /\ discarded' \in BOOLEAN
    BY <1>1, <1>2, Zenon
  <2>2. size' \in Nat /\ spillCount' \in Nat /\ spillBytes' \in Nat
    BY <1>2
  <2> QED
    BY <1>1, <1>2, <1>3, <2>0, <2>1, <2>2 DEF IInv, TypeOK, FilesOK, Points
<1>5. Stages'
  BY <1>1, <1>2 DEF Stages, InCapture
<1>6. Captured'
  BY <1>1, <1>2, MemoryAssumption DEF Captured, Holds
<1> QED
  BY <1>3, <1>4, <1>5, <1>6 DEF IInv, FilesOK

LEMMA WriteKeeps == ASSUME IInv, Write PROVE IInv'
<1>1. /\ UNCHANGED <<callDir, lossy, usingInternal, initialized, discarded, dropped>> /\ pc = "capture"
  BY DEF Write, call, history
<1>2. PICK n \in WriteSizes :
        LET bytes == [i \in 1..n |-> stamp + i]
        IN  /\ stamp' = stamp + n
            /\ \/ /\ WriteMem(bytes) /\ written' = written \o bytes /\ UNCHANGED <<pc, writing>>
               \/ /\ spilled \/ ~Fits(bytes)
                  /\ writing' = bytes /\ pc' = IF spilled THEN "append" ELSE "spill"
                  /\ UNCHANGED <<spoolVars, written>>
  BY DEF Write
<1> DEFINE bytes == [i \in 1..n |-> stamp + i]
<1>3. bytes \in Seq(Nat) /\ stamp' \in Nat
  <2>1. n \in Nat /\ stamp \in Nat
    BY SizesAssumption DEF IInv, TypeOK
  <2>2. bytes \in [1..n -> Nat]
    BY <2>1
  <2> QED
    BY <1>2, <2>1, <2>2
<1>4. \/ WriteMem(bytes) /\ written' = written \o bytes /\ UNCHANGED <<pc, writing>>
      \/ /\ spilled \/ ~Fits(bytes)
         /\ writing' = bytes /\ pc' = IF spilled THEN "append" ELSE "spill"
         /\ UNCHANGED <<spoolVars, written>>
  BY <1>2
<1> HIDE DEF bytes
<1>5. CASE WriteMem(bytes) /\ written' = written \o bytes /\ UNCHANGED <<pc, writing>>
  <2>1. /\ UNCHANGED <<dir, file, bufFile, buf, bufBroken, pos, disk, fresh, stuck, spilled>>
        /\ UNCHANGED <<spillCount, spillBytes>>
        /\ ~spilled /\ Fits(bytes) /\ mem' = mem \o bytes /\ size' = size + Len(bytes)
    BY <1>5 DEF WriteMem, files, buffer
  <2>2. mem \o bytes \in Seq(Nat) /\ Len(mem \o bytes) = Len(mem) + Len(bytes)
    BY <1>3, ConcatLaws DEF IInv, TypeOK
  <2>3. mem = written /\ size = Len(written) /\ spillCount = 0 /\ spillBytes = 0
    BY <1>1, <2>1 DEF IInv, Captured, Holds, InCapture
  <2>4. FilesOK'
    BY <1>1, <2>1, SameFile
  <2>5. TypeOK'
    <3>1. size' \in Nat
      BY <1>3, <2>1 DEF IInv, TypeOK
    <3> QED
      BY <1>1, <1>3, <1>5, <2>1, <2>2, <2>3, <2>4, <3>1 DEF IInv, TypeOK, FilesOK
  <2>6. Stages'
    BY <1>1, <1>5, <2>1 DEF IInv, Stages, InCapture
  <2>7. Captured'
    BY <1>1, <1>5, <2>1, <2>2, <2>3 DEF Captured, Holds, Fits
  <2> QED
    BY <2>4, <2>5, <2>6, <2>7 DEF IInv, FilesOK
<1>6. CASE /\ writing' = bytes /\ pc' = IF spilled THEN "append" ELSE "spill"
           /\ UNCHANGED <<spoolVars, written>>
  <2>1. /\ UNCHANGED <<dir, mem, file, bufFile, buf, bufBroken, pos, disk, fresh, stuck, spilled, size>>
        /\ UNCHANGED <<spillCount, spillBytes, written>>
        /\ spilled => pc' = "append"
        /\ ~spilled => pc' = "spill"
    BY <1>6 DEF spoolVars, files, buffer, stats, IInv, TypeOK
  <2>2. FilesOK'
    BY <1>1, <2>1, SameFile
  <2>3. TypeOK'
    BY <1>1, <1>3, <1>6, <2>1, <2>2 DEF IInv, TypeOK, FilesOK, Points
  <2>4. Stages'
    BY <1>1, <2>1 DEF IInv, Stages, InCapture
  <2>5. Captured'
    BY <1>1, <2>1 DEF IInv, Captured, Holds, InCapture
  <2> QED
    BY <2>2, <2>3, <2>4, <2>5 DEF IInv, FilesOK
<1> QED
  BY <1>4, <1>5, <1>6

\* A file is made, or not: what it is made for stays in memory.
LEMMA CreatesFile ==
  ASSUME IInv, NEW ok \in BOOLEAN, CreateFile(ok), UNCHANGED dropped
  PROVE  /\ FilesOK' /\ buf' \in Seq(Nat) /\ pos' \in Nat /\ bufBroken' \in BOOLEAN
         /\ ok => file' # NoFile /\ disk'[file'] = <<>> /\ buf' = <<>> /\ pos' = 0
<1> DEFINE added == [g \in DOMAIN disk \cup {fresh} |-> IF g = fresh THEN <<>> ELSE disk[g]]
<1>1. /\ fresh \in Nat \ {0} /\ DOMAIN disk \subseteq 1..(fresh - 1) /\ stuck \subseteq DOMAIN disk
      /\ disk \in [DOMAIN disk -> Seq(Nat)] /\ file = NoFile /\ bufFile \in Nat
      /\ DOMAIN disk \ stuck \subseteq dropped \cup {file}
      /\ buf \in Seq(Nat) /\ pos \in Nat /\ bufBroken \in BOOLEAN /\ <<>> \in Seq(Nat)
  BY DEF IInv, TypeOK, FilesHeld, CreateFile
<1>2. /\ fresh \notin DOMAIN disk /\ DOMAIN added = DOMAIN disk \cup {fresh}
      /\ added \in [DOMAIN added -> Seq(Nat)] /\ added[fresh] = <<>>
      /\ DOMAIN added \subseteq 1..((fresh + 1) - 1) /\ fresh + 1 \in Nat \ {0}
      /\ DOMAIN disk \subseteq 1..((fresh + 1) - 1)
  BY <1>1
<1> HIDE DEF added
<1>3. CASE /\ ok /\ file' = fresh /\ fresh' = fresh + 1 /\ pos' = 0 /\ disk' = added
           /\ bufFile' = fresh /\ buf' = <<>> /\ bufBroken' = FALSE /\ UNCHANGED stuck
  <2>1. bufBroken' \in BOOLEAN
    BY <1>3, Zenon
  <2> QED
    BY <1>1, <1>2, <1>3, <2>1 DEF FilesOK, FilesHeld, NoFile
<1>4. CASE ~ok /\ UNCHANGED files
  BY <1>1, <1>4, SameFile DEF files, buffer
<1>5. CASE /\ ~ok /\ fresh' = fresh + 1 /\ UNCHANGED <<disk, stuck, file, bufFile, buf, bufBroken, pos>>
  BY <1>1, <1>2, <1>5 DEF FilesOK, FilesHeld, NoFile
<1>6. CASE /\ ~ok /\ fresh' = fresh + 1 /\ disk' = added /\ stuck' = stuck \cup {fresh}
           /\ UNCHANGED <<file, bufFile, buf, bufBroken, pos>>
  BY <1>1, <1>2, <1>6 DEF FilesOK, FilesHeld, NoFile
<1> QED
  BY <1>3, <1>4, <1>5, <1>6 DEF CreateFile, buffer, added

LEMMA RewindsFile ==
  ASSUME IInv, NEW ok \in BOOLEAN, RewindFile(ok), UNCHANGED dropped
  PROVE  /\ FilesOK' /\ buf' \in Seq(Nat) /\ pos' \in Nat /\ bufBroken' \in BOOLEAN
         /\ ok => file' # NoFile /\ disk'[file'] = <<>> /\ buf' = <<>> /\ pos' = 0
<1>1. /\ UNCHANGED <<file, fresh, stuck>> /\ file # NoFile /\ bufFile = file /\ <<>> \in Seq(Nat)
      /\ buf \in Seq(Nat) /\ pos \in Nat /\ bufBroken \in BOOLEAN
  BY DEF RewindFile, IInv, TypeOK, FilesHeld
<1>2. CASE disk' = [disk EXCEPT ![file] = <<>>]
  <2>1. bufFile' = file
    BY <1>1, <1>2 DEF RewindFile, buffer
  <2>2. FilesOK' /\ disk'[file] = <<>>
    BY <1>1, <1>2, <2>1, ChangesFile
  <2>3. CASE pos' = 0 /\ buf' = <<>> /\ bufBroken' = FALSE
    <3>1. bufBroken' \in BOOLEAN
      BY <2>3, Zenon
    <3> QED
      BY <1>1, <2>2, <2>3, <3>1
  <2>4. CASE ~ok /\ UNCHANGED <<pos, buf, bufBroken>>
    BY <1>1, <2>2, <2>4
  <2> QED
    BY <1>2, <2>3, <2>4 DEF RewindFile, buffer
<1>3. CASE ~ok /\ UNCHANGED <<disk, pos, buffer>>
  BY <1>1, <1>3, SameFile DEF buffer
<1> QED
  BY <1>2, <1>3 DEF RewindFile, buffer

LEMMA SpillKeeps == ASSUME IInv, Spill PROVE IInv'
<1>1. /\ UNCHANGED <<callDir, lossy, usingInternal, initialized, discarded, dropped>>
      /\ UNCHANGED <<writing, written, stamp>> /\ pc = "spill"
  BY DEF Spill, call, candidate, history
<1>2. PICK ok \in BOOLEAN : /\ CreateFile(ok) \/ RewindFile(ok)
                            /\ pc' = IF ok THEN "move" ELSE "failed"
  BY DEF Spill
<1>3. UNCHANGED <<dir, mem, spilled, size, spillCount, spillBytes>>
  BY <1>2 DEF CreateFile, RewindFile, stats
<1>4. /\ FilesOK' /\ buf' \in Seq(Nat) /\ pos' \in Nat /\ bufBroken' \in BOOLEAN
      /\ ok => file' # NoFile /\ disk'[file'] = <<>> /\ buf' = <<>> /\ pos' = 0
  BY <1>1, <1>2, CreatesFile, RewindsFile
<1>5. TypeOK'
  BY <1>1, <1>2, <1>3, <1>4 DEF IInv, TypeOK, FilesOK, Points
<1>6. ~spilled /\ usingInternal /\ initialized
  BY <1>1 DEF IInv, Stages, InCapture
<1>7. Stages'
  BY <1>1, <1>2, <1>3, <1>4, <1>6 DEF Stages, InCapture
<1>8. Captured'
  <2>1. Holds(written)
    BY <1>1 DEF IInv, Captured, InCapture
  <2> QED
    BY <1>1, <1>2, <1>3, <1>4, <1>6, <2>1 DEF Captured, Holds, InCapture
<1> QED
  BY <1>4, <1>5, <1>7, <1>8 DEF IInv, FilesOK

LEMMA MoveKeeps == ASSUME IInv, Move PROVE IInv'
<1>1. /\ UNCHANGED <<callDir, lossy, usingInternal, initialized, discarded, dropped>>
      /\ UNCHANGED <<writing, written, stamp>> /\ pc = "move"
  BY DEF Move, call, candidate, history
<1>2. PICK ok \in BOOLEAN : MoveMem(ok) /\ pc' = IF ok THEN "append" ELSE "failed"
  BY DEF Move
<1>3. /\ file # NoFile /\ usingInternal /\ initialized /\ ~spilled /\ mem = written
      /\ size = Len(written) /\ spillCount = 0 /\ spillBytes = 0
      /\ disk[file] = <<>> /\ buf = <<>> /\ pos = 0
  BY <1>1 DEF IInv, Stages, Captured, Holds, InCapture
<1>4. mem \in Seq(Nat) /\ <<>> \in Seq(Nat) /\ Len(<<>>) = 0 /\ <<>> \o mem = mem /\ <<>> \o <<>> = <<>>
  BY ConcatLaws DEF IInv, TypeOK
<1>5. CASE ok
  <2>1. /\ Buffered(mem) /\ mem' = <<>> /\ spillBytes' = spillBytes + Len(mem)
        /\ spilled' = TRUE /\ spillCount' = spillCount + 1
        /\ UNCHANGED <<dir, file, fresh, stuck, size>> /\ pc' = "append"
    BY <1>2, <1>5 DEF MoveMem
  <2>2. /\ FilesOK' /\ buf' \in Seq(Nat) /\ pos' \in Nat /\ bufBroken' = bufBroken
        /\ disk'[file'] \o buf' = mem /\ pos' = Len(disk'[file'])
    BY <1>1, <1>3, <1>4, <2>1, BufferedOK
  <2>3. spilled' \in BOOLEAN
    BY <2>1, Zenon
  <2>4. spillBytes' = size /\ spillCount' = 1 /\ size' = size /\ size \in Nat
    BY <1>3, <1>4, <2>1 DEF IInv, TypeOK
  <2>5. TypeOK'
    <3>1. /\ pc' \in Points /\ callDir' \in Dirs /\ dir' \in Dirs /\ lossy' \in BOOLEAN
          /\ writing' \in Seq(Nat) /\ written' \in Seq(Nat) /\ stamp' \in Nat
          /\ mem' \in Seq(Nat) /\ size' \in Nat /\ spillCount' \in Nat /\ spillBytes' \in Nat
      BY <1>1, <1>4, <2>1, <2>4 DEF IInv, TypeOK, Points
    <3>2. /\ usingInternal' \in BOOLEAN /\ initialized' \in BOOLEAN /\ discarded' \in BOOLEAN
          /\ bufBroken' \in BOOLEAN
      BY <1>1, <2>2 DEF IInv, TypeOK
    <3> QED
      BY <2>2, <2>3, <3>1, <3>2 DEF TypeOK, FilesOK
  <2>6. Stages'
    BY <1>1, <1>3, <2>1 DEF Stages, InCapture
  <2>7. Captured'
    BY <1>1, <1>3, <2>1, <2>2, <2>4 DEF Captured, Holds
  <2> QED
    BY <2>2, <2>5, <2>6, <2>7 DEF IInv, FilesOK
<1>6. CASE ~ok
  <2>1. /\ \E removed \in MayFail("remove") : Unlink(file, removed)
        /\ file' = NoFile /\ bufBroken' = TRUE /\ pc' = "failed"
        /\ UNCHANGED <<dir, mem, bufFile, buf, pos, fresh, spilled, size, spillCount, spillBytes>>
    BY <1>2, <1>6 DEF MoveMem, stats
  <2>2. FilesOK'
    BY <1>1, <1>3, <2>1, ForgetsFile DEF IInv, TypeOK
  <2>3. bufBroken' \in BOOLEAN
    BY <2>1, Zenon
  <2>4. TypeOK'
    BY <1>1, <2>1, <2>2, <2>3 DEF IInv, TypeOK, FilesOK, Points
  <2>5. Stages'
    BY <1>1, <1>3, <2>1 DEF Stages, InCapture
  <2> QED
    BY <2>1, <2>2, <2>4, <2>5 DEF IInv, FilesOK, Captured, InCapture
<1> QED
  BY <1>5, <1>6

LEMMA AppendKeeps == ASSUME IInv, AppendToFile PROVE IInv'
<1>1. /\ UNCHANGED <<callDir, lossy, usingInternal, initialized, discarded, dropped>>
      /\ UNCHANGED <<writing, stamp>> /\ pc = "append"
  BY DEF AppendToFile, call, history
<1>2. PICK ok \in BOOLEAN : /\ WriteFile(writing, ok) /\ pc' = IF ok THEN "capture" ELSE "failed"
                            /\ written' = IF ok THEN written \o writing ELSE written
  BY DEF AppendToFile
<1>3. /\ file # NoFile /\ usingInternal /\ initialized /\ spilled
      /\ size = Len(written) /\ spillCount = 1 /\ spillBytes = size
      /\ disk[file] \o buf = written /\ pos = Len(disk[file])
  BY <1>1 DEF IInv, Stages, Captured, Holds, InCapture
<1>4. /\ UNCHANGED <<dir, mem, file, fresh, stuck, spilled, spillCount>>
      /\ writing \in Seq(Nat) /\ written \in Seq(Nat)
  BY <1>2 DEF WriteFile, IInv, TypeOK
<1>5. CASE ok
  <2>1. /\ Buffered(writing) /\ size' = size + Len(writing) /\ spillBytes' = spillBytes + Len(writing)
        /\ pc' = "capture" /\ written' = written \o writing
    BY <1>2, <1>5 DEF WriteFile
  <2>2. /\ FilesOK' /\ buf' \in Seq(Nat) /\ pos' \in Nat /\ bufBroken' = bufBroken
        /\ disk'[file'] \o buf' = written \o writing /\ pos' = Len(disk'[file'])
    BY <1>1, <1>3, <1>4, <2>1, BufferedOK
  <2>3. written' \in Seq(Nat) /\ Len(written') = Len(written) + Len(writing)
    BY <1>4, <2>1, ConcatLaws
  <2>4. spillBytes' = size' /\ size' = Len(written') /\ size' \in Nat
    BY <1>3, <2>1, <2>3
  <2>5. TypeOK'
    BY <1>1, <1>4, <2>1, <2>2, <2>3, <2>4 DEF IInv, TypeOK, FilesOK, Points
  <2>6. Stages'
    BY <1>1, <1>3, <1>4, <2>1 DEF Stages, InCapture
  <2>7. Captured'
    BY <1>3, <1>4, <2>1, <2>2, <2>4 DEF Captured, Holds
  <2> QED
    BY <2>2, <2>5, <2>6, <2>7 DEF IInv, FilesOK
<1>6. CASE ~ok
  <2>1. /\ bufBroken' = TRUE /\ pc' = "failed" /\ written' = written
        /\ UNCHANGED <<bufFile, buf, pos, disk, size, spillBytes>>
    BY <1>2, <1>6 DEF WriteFile
  <2>2. FilesOK'
    BY <1>1, <1>4, <2>1, SameFile
  <2>3. bufBroken' \in BOOLEAN
    BY <2>1, Zenon
  <2>4. TypeOK'
    <3>1. /\ pc' \in Points /\ callDir' \in Dirs /\ dir' \in Dirs /\ lossy' \in BOOLEAN
          /\ mem' \in Seq(Nat) /\ buf' \in Seq(Nat) /\ pos' \in Nat
      BY <1>1, <1>4, <2>1 DEF IInv, TypeOK, Points
    <3>2. /\ size' \in Nat /\ spillCount' \in Nat /\ spillBytes' \in Nat /\ spilled' \in BOOLEAN
          /\ writing' \in Seq(Nat) /\ written' \in Seq(Nat) /\ stamp' \in Nat
      BY <1>1, <1>4, <2>1 DEF IInv, TypeOK
    <3>3. usingInternal' \in BOOLEAN /\ initialized' \in BOOLEAN /\ discarded' \in BOOLEAN
      BY <1>1 DEF IInv, TypeOK
    <3> QED
      BY <2>2, <2>3, <3>1, <3>2, <3>3 DEF TypeOK, FilesOK
  <2>5. Stages'
    BY <1>1, <1>3, <1>4, <2>1 DEF Stages, InCapture
  <2> QED
    BY <2>1, <2>2, <2>4, <2>5 DEF IInv, FilesOK, Captured, InCapture
<1> QED
  BY <1>5, <1>6

LEMMA FinalizeKeeps == ASSUME IInv, FinalizePayload PROVE IInv'
<1>1. /\ UNCHANGED <<callDir, lossy, usingInternal, initialized, discarded, dropped>>
      /\ UNCHANGED <<writing, written, stamp>> /\ pc = "capture"
  BY DEF FinalizePayload, call, candidate, history
<1>2. PICK ok \in BOOLEAN : Finalize(ok) /\ pc' = IF ok THEN "value" ELSE "failed"
  BY DEF FinalizePayload
<1>3. /\ UNCHANGED <<dir, mem, file, fresh, stuck, spilled, size, spillCount, spillBytes>>
      /\ usingInternal /\ initialized /\ Holds(written) /\ spilled \in BOOLEAN
  BY <1>1, <1>2 DEF Finalize, stats, IInv, TypeOK, Stages, Captured, InCapture
<1>4. CASE /\ UNCHANGED <<disk, pos, bufFile, buf>> /\ bufBroken' \in BOOLEAN
           /\ ok => ~spilled
  <2>1. FilesOK'
    BY <1>1, <1>3, <1>4, SameFile
  <2>2. TypeOK'
    BY <1>1, <1>2, <1>3, <1>4, <2>1 DEF IInv, TypeOK, FilesOK, Points
  <2>3. Stages'
    BY <1>1, <1>2, <1>3 DEF IInv, Stages, InCapture
  <2>4. Captured'
    BY <1>1, <1>2, <1>3, <1>4 DEF Captured, Holds, InCapture
  <2> QED
    BY <2>1, <2>2, <2>3, <2>4 DEF IInv, FilesOK
<1>5. CASE /\ ok /\ spilled /\ disk' = [disk EXCEPT ![bufFile] = Overwrite(@, pos, buf)]
           /\ pos' = pos + Len(buf) /\ buf' = <<>> /\ UNCHANGED <<bufFile, bufBroken>>
  <2> DEFINE c == disk[file]
             b == buf
  <2>1. file # NoFile /\ file \in DOMAIN disk /\ bufFile = file
    BY <1>5 DEF IInv, Stages, FilesHeld
  <2>2. c \in Seq(Nat) /\ b \in Seq(Nat) /\ c \o b = written /\ pos = Len(c) /\ written \in Seq(Nat)
    BY <1>3, <1>5, <2>1 DEF Holds, IInv, TypeOK
  <2>3. disk' = [disk EXCEPT ![file] = Overwrite(c, pos, b)] /\ pos' = pos + Len(b)
    BY <1>5, <2>1
  <2> HIDE DEF c, b
  <2>4. Overwrite(c, pos, b) = written /\ Len(written) = Len(c) + Len(b) /\ written \o <<>> = written
    BY <2>2, OverwriteAppends, ConcatLaws
  <2>5. FilesOK' /\ disk'[file] = written
    BY <1>1, <1>3, <1>5, <2>1, <2>2, <2>3, <2>4, ChangesFile
  <2>6. pos' = Len(written) /\ pos' \in Nat /\ <<>> \in Seq(Nat)
    BY <2>2, <2>3, <2>4
  <2>7. TypeOK'
    BY <1>1, <1>2, <1>3, <1>5, <2>5, <2>6 DEF IInv, TypeOK, FilesOK, Points
  <2>8. Stages'
    BY <1>1, <1>2, <1>3, <1>5, <2>1 DEF Stages, InCapture
  <2>9. Captured'
    BY <1>1, <1>2, <1>3, <1>5, <2>4, <2>5, <2>6 DEF Captured, Holds
  <2> QED
    BY <2>5, <2>7, <2>8, <2>9 DEF IInv, FilesOK
<1>6. bufBroken \in BOOLEAN /\ (bufBroken' = TRUE => bufBroken' \in BOOLEAN)
  BY Zenon DEF IInv, TypeOK
<1> QED
  BY <1>2, <1>4, <1>5, <1>6 DEF Finalize, buffer

LEMMA CleanupKeeps == ASSUME IInv, CleanupPayload PROVE IInv'
<1>1. /\ UNCHANGED <<callDir, lossy, usingInternal, initialized, discarded, dropped>>
      /\ UNCHANGED <<writing, written, stamp>> /\ pc \in {"capture", "value", "failed"}
  BY DEF CleanupPayload, call, candidate, history
<1>2. PICK ok \in BOOLEAN : /\ CleanupKeeping(ok)
                            /\ pc' = IF ok /\ pc # "failed" THEN "ready" ELSE "over"
  BY DEF CleanupPayload
<1>3. /\ UNCHANGED <<dir, mem, file, fresh, stuck>> /\ pc' \in {"ready", "over"}
      /\ size' = 0 /\ spillCount' = 0 /\ spillBytes' = 0 /\ spilled' = FALSE
  BY <1>2 DEF CleanupKeeping, ClearStats
<1>4. usingInternal /\ initialized
  BY <1>1 DEF IInv, Stages, InCapture
<1>5. FilesOK' /\ pos' \in Nat /\ buf' \in Seq(Nat) /\ bufBroken' \in BOOLEAN
  <2>1. CASE file # NoFile /\ spilled
    <3>1. PICK flushed \in MayFail("write"), truncated \in MayFail("truncate"), sought \in MayFail("seek") :
            LET after == IF flushed THEN Overwrite(disk[file], pos, buf) ELSE disk[file]
                end   == IF flushed THEN pos + Len(buf) ELSE pos
            IN  /\ disk' = [disk EXCEPT ![file] = IF truncated THEN <<>> ELSE after]
                /\ pos' = IF sought THEN 0 ELSE end
                /\ buf' = <<>> /\ bufBroken' = FALSE /\ bufFile' = file
      BY <1>2, <2>1 DEF CleanupKeeping
    <3> DEFINE after == IF flushed THEN Overwrite(disk[file], pos, buf) ELSE disk[file]
               end   == IF flushed THEN pos + Len(buf) ELSE pos
               left  == IF truncated THEN <<>> ELSE after
    <3>2. file \in DOMAIN disk /\ disk[file] \in Seq(Nat) /\ buf \in Seq(Nat) /\ pos \in Nat
      BY <2>1 DEF IInv, TypeOK, FilesHeld
    <3>3. Overwrite(disk[file], pos, buf) \in Seq(Nat)
      BY <3>2, OverwriteTyped
    <3>4. left \in Seq(Nat) /\ end \in Nat /\ <<>> \in Seq(Nat)
      BY <3>2, <3>3
    <3>5. /\ disk' = [disk EXCEPT ![file] = left] /\ pos' = IF sought THEN 0 ELSE end
          /\ buf' = <<>> /\ bufBroken' = FALSE /\ bufFile' = file
      BY <3>1
    <3> HIDE DEF after, end, left
    <3>6. FilesOK'
      BY <1>1, <1>3, <2>1, <3>4, <3>5, ChangesFile
    <3>7. bufBroken' \in BOOLEAN
      BY <3>5, Zenon
    <3> QED
      BY <3>4, <3>5, <3>6, <3>7
  <2>2. CASE ~(file # NoFile /\ spilled)
    <3>1. UNCHANGED <<disk, pos, bufFile, buf, bufBroken>>
      BY <1>2, <2>2 DEF CleanupKeeping, buffer
    <3> QED
      BY <1>1, <1>3, <3>1, SameFile DEF IInv, TypeOK
  <2> QED
    BY <2>1, <2>2
<1>6. spilled' \in BOOLEAN
  BY <1>3, Zenon
<1>7. TypeOK'
  BY <1>1, <1>3, <1>5, <1>6 DEF IInv, TypeOK, FilesOK, Points
<1>8. Stages'
  BY <1>1, <1>3, <1>4 DEF Stages, InCapture
<1> QED
  BY <1>3, <1>5, <1>7, <1>8 DEF IInv, FilesOK, Captured, InCapture

LEMMA StepIInv == IInv /\ [Next]_vars => IInv'
<1>1. ASSUME IInv, UNCHANGED vars PROVE IInv'
  BY <1>1 DEF vars, spoolVars, files, buffer, stats, call, candidate, history, IInv, TypeOK,
              FilesHeld, Stages, Captured, Holds
<1> QED
  BY <1>1, AcquireKeeps, ReleaseKeeps, DropKeeps, DiscardKeeps, PrepareKeeps, WriteKeeps, SpillKeeps,
     MoveKeeps, AppendKeeps, FinalizeKeeps, CleanupKeeps DEF Next, Idle

LEMMA AlwaysIInv == Spec => []IInv
BY InitIInv, StepIInv, PTL DEF Spec

--------------------------------------------------------------------------------

\* The type invariant of a pooled scan state.
THEOREM TypeCorrect == Spec => []TypeOK
<1>1. IInv => TypeOK
  BY DEF IInv
<1> QED
  BY <1>1, AlwaysIInv, PTL

\* Whatever fails, the file that a spool has open exists and its buffer writes
\* to that file (spillToDisk, resetForCandidate, cleanup).
THEOREM SpoolKeepsItsFile == Spec => []SpillHasFile
<1>1. IInv => SpillHasFile
  BY DEF IInv, FilesHeld, Stages, SpillHasFile
<1> QED
  BY <1>1, AlwaysIInv, PTL

\* Whatever fails, no file that could be removed is forgotten; only a call whose
\* last candidate was discarded gives its state back with a file.
THEOREM NoFileIsForgotten == Spec => []FilesOwned
<1>1. IInv => FilesOwned
  BY DEF IInv, FilesHeld, Stages, FilesOwned, FilesLeft
<1> QED
  BY <1>1, AlwaysIInv, PTL

\* Whatever was spilled, wherever the buffer was written out, and whatever the
\* file had before, OnValue reads what the scan wrote, and the statistics count it.
THEOREM SpooledPayloadIsIntact == Spec => []PayloadIntact
<1>1. IInv => PayloadIntact
  <2> SUFFICES ASSUME IInv, pc = "value" PROVE PayloadIntact
    BY DEF PayloadIntact
  <2>1. Holds(written) /\ (spilled => buf = <<>>)
    BY DEF IInv, Captured, InCapture
  <2>2. CASE ~spilled
    BY <2>1, <2>2 DEF PayloadIntact, Payload, Holds
  <2>3. CASE spilled
    <3>1. disk[file] \in Seq(Nat)
      BY <2>3 DEF IInv, TypeOK, Stages, FilesHeld
    <3>2. disk[file] \o <<>> = disk[file]
      BY <3>1, ConcatLaws
    <3> QED
      BY <2>1, <2>3, <3>2 DEF PayloadIntact, Payload, Holds
  <2> QED
    BY <2>2, <2>3
<1> QED
  BY <1>1, AlwaysIInv, PTL

===============================================================================
