---------------------------- MODULE InlineEditProofs ----------------------------
(***************************************************************************)
(* The lines and the counters of MutateStream agree with its input, for    *)
(* inputs of any length, in every mode, wherever the call fails; and the   *)
(* inline edit is atomic, wherever it ends.                                *)
(***************************************************************************)
EXTENDS InlineEdit, FiniteSetTheorems, WellFoundedInduction, TLAPS

Phases == {"next", "emit", "newline", "deliver", "count", "ok", "failed"}

Typed ==
  /\ phase \in Phases /\ pos \in Nat /\ lines \in Seq(Nat) /\ bytesRead \in Nat
  /\ seen \in Nat /\ written \in Nat /\ bytesWritten \in Nat /\ accepted \in Nat
  /\ toWriter \in BOOLEAN /\ toCallback \in BOOLEAN

\* A candidate is seen and not yet written between its newline and its end, and
\* the callback has it a step before it is written.
Counted ==
  /\ phase \in {"next", "emit", "newline", "ok"} => seen = written
  /\ phase \in {"deliver", "count"} => seen = written + 1
  /\ phase = "failed" => seen = written \/ seen = written + 1
  /\ toCallback => accepted = IF phase = "count" THEN written + 1 ELSE written
  /\ toWriter => Len(lines) = seen /\ bytesWritten = written

ReadAsFarAsSeen == toWriter /\ lines # <<>> /\ phase # "ok" => bytesRead = lines[Len(lines)]

IInv == Typed /\ Counted /\ ReadAsFarAsSeen

--------------------------------------------------------------------------------

LEMMA InitIInv == Init => IInv
BY DEF Init, StreamInit, IInv, Typed, Phases, Counted, ReadAsFarAsSeen

\* The steps that look for the next value count nothing.
LEMMA LookKeeps ==
  ASSUME IInv,
         EndOfInput \/ Refuse \/ OpenTopArray \/ CloseTopArray \/ Stop \/ ReadFails \/ StartCandidate
  PROVE  IInv'
<1>1. CASE EndOfInput
  BY <1>1 DEF EndOfInput, Go, IInv, Typed, Phases, Counted, ReadAsFarAsSeen, request, loop
<1>2. CASE Refuse
  BY <1>2 DEF Refuse, Go, IInv, Typed, Phases, Counted, ReadAsFarAsSeen, request, loop, counts
<1>3. CASE OpenTopArray
  BY <1>3 DEF OpenTopArray, IInv, Typed, Phases, Counted, ReadAsFarAsSeen, request, counts
<1>4. CASE CloseTopArray
  BY <1>4 DEF CloseTopArray, IInv, Typed, Phases, Counted, ReadAsFarAsSeen, request, counts
<1>5. CASE Stop
  BY <1>5 DEF Stop, Go, IInv, Typed, Phases, Counted, ReadAsFarAsSeen, request, loop, counts
<1>6. CASE ReadFails
  BY <1>6 DEF ReadFails, Go, IInv, Typed, Phases, Counted, ReadAsFarAsSeen, request, loop, counts
<1>7. CASE StartCandidate
  BY <1>7 DEF StartCandidate, Go, IInv, Typed, Phases, Counted, ReadAsFarAsSeen, request, loop, counts
<1> QED
  BY <1>1, <1>2, <1>3, <1>4, <1>5, <1>6, <1>7

\* A candidate whose value or newline fails is not seen.
LEMMA EmitKeeps == ASSUME IInv, Emit \/ EmitFails \/ NewlineFails PROVE IInv'
<1>1. CASE Emit
  <2>1. PICK end \in (pos + 1)..Len(input) : pos' = end
    BY <1>1 DEF Emit
  <2>2. pos' \in Nat
    BY <2>1 DEF IInv, Typed
  <2> QED
    BY <1>1, <2>2 DEF Emit, Go, IInv, Typed, Phases, Counted, ReadAsFarAsSeen, request, counts
<1>2. CASE EmitFails
  BY <1>2 DEF EmitFails, Go, IInv, Typed, Phases, Counted, ReadAsFarAsSeen, request, loop, counts
<1>3. CASE NewlineFails
  BY <1>3 DEF NewlineFails, Go, IInv, Typed, Phases, Counted, ReadAsFarAsSeen, request, loop, counts
<1> QED
  BY <1>1, <1>2, <1>3

\* With its newline a candidate becomes a line, and is seen.
LEMMA NewlineKeeps == ASSUME IInv, WriteNewline PROVE IInv'
<1>1. /\ phase = "newline" /\ phase' = (IF toCallback THEN "deliver" ELSE "count")
      /\ lines' = (IF toWriter THEN Append(lines, pos) ELSE lines)
      /\ seen' = seen + 1 /\ bytesRead' = pos
      /\ UNCHANGED <<written, bytesWritten, accepted, toWriter, toCallback, pos>>
  BY DEF WriteNewline, CountSeen, Go, request, loop
<1>2. /\ lines' \in Seq(Nat)
      /\ toWriter => Len(lines') = Len(lines) + 1 /\ lines'[Len(lines')] = pos
  BY <1>1 DEF IInv, Typed
<1>3. Typed'
  BY <1>1, <1>2 DEF IInv, Typed, Phases
<1>4. Counted'
  BY <1>1, <1>2 DEF IInv, Typed, Phases, Counted
<1>5. ReadAsFarAsSeen'
  BY <1>1, <1>2 DEF ReadAsFarAsSeen
<1> QED
  BY <1>3, <1>4, <1>5 DEF IInv

\* It is written once the callback has accepted it.
LEMMA DeliverKeeps == ASSUME IInv, Deliver \/ DeliverFails \/ CountWritten PROVE IInv'
<1>1. CASE Deliver
  BY <1>1 DEF Deliver, Go, IInv, Typed, Phases, Counted, ReadAsFarAsSeen, request, counts
<1>2. CASE DeliverFails
  BY <1>2 DEF DeliverFails, Go, IInv, Typed, Phases, Counted, ReadAsFarAsSeen, request, loop, counts
<1>3. CASE CountWritten
  BY <1>3 DEF CountWritten, Go, IInv, Typed, Phases, Counted, ReadAsFarAsSeen, request
<1> QED
  BY <1>1, <1>2, <1>3

LEMMA StepIInv == IInv /\ [Next]_vars => IInv'
<1> SUFFICES ASSUME IInv, [Next]_vars PROVE IInv'
  OBVIOUS
<1>1. CASE UNCHANGED streamVars
  BY <1>1 DEF streamVars, request, loop, counts, IInv, Typed, Phases, Counted, ReadAsFarAsSeen
<1>2. CASE Stream
  BY <1>2, LookKeeps, EmitKeeps, NewlineKeeps, DeliverKeeps DEF Stream, StreamNext
<1>3. CASE UNCHANGED vars
  BY <1>1, <1>3 DEF vars
<1> QED
  BY <1>1, <1>2, <1>3
     DEF Next, CreateTemp, OpenInput, EndStream, CloseTemp, Rename, Cleanup, Kill, UnchangedStream

\* The counters of a call that has ended agree with its output, its callbacks
\* and the input it has used.
THEOREM CountersAgree == Spec => []CountersTrue
<1>1. IInv => CountersTrue
  <2> SUFFICES ASSUME IInv, Ended PROVE CountersTrue
    BY DEF CountersTrue
  <2>1. ASSUME lines # <<>> PROVE Last(lines) = lines[Len(lines)]
    BY DEF Last
  <2>2. toCallback => written = accepted
    BY DEF IInv, Typed, Counted, Ended
  <2>3. seen \in {written, written + 1} /\ (phase = "ok" => seen = written)
    BY DEF IInv, Typed, Counted, Ended
  <2>4. toWriter => Len(lines) = seen /\ bytesWritten = written
    BY DEF IInv, Counted
  <2>5. phase = "failed" /\ toWriter /\ lines # <<>> => bytesRead = Last(lines)
    BY <2>1 DEF IInv, ReadAsFarAsSeen
  <2> QED
    BY <2>2, <2>3, <2>4, <2>5 DEF CountersTrue
<1> QED
  BY <1>1, InitIInv, StepIInv, PTL DEF Spec

--------------------------------------------------------------------------------
(* Values and their ends.                                                     *)

\* A set of natural numbers has a least member.
LEMMA LeastNatural ==
  ASSUME NEW S, S \subseteq Nat, S # {}
  PROVE  \E n \in S : \A k \in S : n <= k
<1> DEFINE Less == {ss \in Nat \X Nat : ss[1] < ss[2]}
<1>1. IsWellFoundedOn(Less, Nat)
  BY NatLessThanWellFounded DEF OpToRel
<1>2. PICK n \in S : \A k \in S : <<k, n>> \notin Less
  <2> HIDE DEF Less
  <2> QED
    BY <1>1, WFMin
<1>3. ASSUME NEW k \in S PROVE n <= k
  <2>1. <<k, n>> \in Less <=> k < n
    OBVIOUS
  <2> HIDE DEF Less
  <2> QED
    BY <1>2, <2>1
<1> QED
  BY <1>3

Upto(text, c, i) == {j \in 1..i : text[j] = c}

LEMMA CountStep ==
  ASSUME NEW text, NEW c, NEW i \in Nat
  PROVE  /\ Cardinality(Upto(text, c, i)) \in Nat
         /\ Cardinality(Upto(text, c, i + 1)) =
              Cardinality(Upto(text, c, i)) + (IF text[i + 1] = c THEN 1 ELSE 0)
<1> DEFINE A == {j \in 1..i : text[j] = c}
           B == {j \in 1..(i + 1) : text[j] = c}
<1>1. IsFiniteSet(1..i)
  BY FS_Interval
<1>2. IsFiniteSet(A)
  BY <1>1, FS_Subset, A \subseteq 1..i
<1>3. text[i + 1] = c => B = A \cup {i + 1}
  OBVIOUS
<1>4. text[i + 1] # c => B = A
  OBVIOUS
<1>5. i + 1 \notin A
  OBVIOUS
<1>6. Cardinality(A) \in Nat /\ Cardinality(B) = Cardinality(A) + (IF text[i + 1] = c THEN 1 ELSE 0)
  <2> HIDE DEF A, B
  <2>1. Cardinality(A) \in Nat /\ Cardinality(A \cup {i + 1}) = Cardinality(A) + 1
    BY <1>2, <1>5, FS_AddElement, FS_CardinalityType
  <2> QED
    BY <1>3, <1>4, <2>1
<1> QED
  BY <1>6 DEF Upto

\* A bracket changes the depth by one, and nothing else changes it.
LEMMA DepthStep ==
  ASSUME NEW text, NEW i \in Nat
  PROVE  /\ Depth(text, i) \in Int
         /\ Depth(text, i + 1) = Depth(text, i) + (IF text[i + 1] = "[" THEN 1
                                                 ELSE IF text[i + 1] = "]" THEN -1 ELSE 0)
<1> DEFINE Opens(k)  == Cardinality(Upto(text, "[", k))
           Closes(k) == Cardinality(Upto(text, "]", k))
<1>1. Opens(i) \in Nat /\ Opens(i + 1) = Opens(i) + (IF text[i + 1] = "[" THEN 1 ELSE 0)
  BY CountStep
<1>2. Closes(i) \in Nat /\ Closes(i + 1) = Closes(i) + (IF text[i + 1] = "]" THEN 1 ELSE 0)
  BY CountStep
<1>3. Depth(text, i) = Opens(i) - Closes(i) /\ Depth(text, i + 1) = Opens(i + 1) - Closes(i + 1)
  BY DEF Depth, Upto
<1> HIDE DEF Opens, Closes
<1> QED
  BY <1>1, <1>2, <1>3

LEMMA DepthZero == ASSUME NEW text \in Seq(Tokens) PROVE Depth(text, 0) = 0
<1>1. \A c : {j \in 1..0 : text[j] = c} = {}
  OBVIOUS
<1> QED
  BY <1>1, FS_EmptySet DEF Depth

\* The value of an array ends where the depth is first below its own.
LEMMA ValueEnds ==
  ASSUME NEW text \in Seq(Tokens), \A k \in DOMAIN text : Depth(text, k) \in Nat,
         NEW i \in DOMAIN text, ValueEnd(text, i) > 0
  PROVE  /\ ValueEnd(text, i) \in i..Len(text)
         /\ text[i] # "[" => ValueEnd(text, i) = i
         /\ text[i] = "[" => /\ Depth(text, ValueEnd(text, i)) < Depth(text, i)
                            /\ \A k \in i..(ValueEnd(text, i) - 1) : Depth(text, k) >= Depth(text, i)
<1>1. CASE text[i] # "["
  BY <1>1 DEF ValueEnd
<1>2. CASE text[i] = "["
  <2> DEFINE ends == {j \in i..Len(text) : Depth(text, j) < Depth(text, i)}
  <2>1. ends # {} /\ ValueEnd(text, i) = CHOOSE j \in ends : \A k \in ends : j <= k
    BY <1>2 DEF ValueEnd
  <2>2. ends \subseteq Nat
    OBVIOUS
  <2>3. \E j \in ends : \A k \in ends : j <= k
    <3> HIDE DEF ends
    <3> QED
      BY <2>1, <2>2, LeastNatural
  <2>4. ValueEnd(text, i) \in ends /\ \A k \in ends : ValueEnd(text, i) <= k
    <3> HIDE DEF ends
    <3> QED
      BY <2>1, <2>3
  <2> QED
    BY <1>2, <2>4
<1> QED
  BY <1>1, <1>2

LEMMA FlatEnds ==
  ASSUME NEW text \in Seq(Tokens)
  PROVE  \A e : e \in CandidateEnds(text, TRUE) <=> e \in 1..Len(text) /\ text[e] \notin {"[", "]"}
BY DEF CandidateEnds, IsCandidate, ValueEnd

\* Outside the values of a stream no array is open, and a candidate ends there.
LEMMA EndsOutside ==
  ASSUME NEW text \in Seq(Tokens), \A k \in DOMAIN text : Depth(text, k) \in Nat,
         NEW e \in CandidateEnds(text, FALSE)
  PROVE  e \in 1..Len(text) /\ Depth(text, e) = 0
<1>1. PICK i \in DOMAIN text : IsCandidate(text, FALSE, i) /\ e = ValueEnd(text, i)
  BY DEF CandidateEnds
<1>2. ValueEnd(text, i) > 0 /\ Depth(text, i) = (IF text[i] = "[" THEN 1 ELSE 0)
  BY <1>1 DEF IsCandidate
<1>3. e \in 1..Len(text)
  BY <1>1, <1>2, ValueEnds
<1>4. Depth(text, e) \in Nat
  BY <1>3
<1> QED
  BY <1>1, <1>2, <1>3, <1>4, ValueEnds

\* The value that starts where one may start is a candidate, and the next one.
LEMMA NextEnd ==
  ASSUME NEW text \in Seq(Tokens), \A k \in DOMAIN text : Depth(text, k) \in Nat,
         NEW flat \in BOOLEAN, NEW i \in DOMAIN text, text[i] # "]",
         flat => text[i] # "[", ~flat => Depth(text, i - 1) = 0,
         NEW e, e = ValueEnd(text, i), e > 0
  PROVE  /\ e \in i..Len(text) /\ e \in CandidateEnds(text, flat)
         /\ \A k \in CandidateEnds(text, flat) : k < e => k < i
         /\ ~flat => Depth(text, e) = 0
<1>0. i \in 1..Len(text)
  OBVIOUS
<1>1. CASE flat
  <2>1. e = i
    BY <1>1, ValueEnds
  <2>2. flat = TRUE
    BY <1>1
  <2>3. \A k : k \in CandidateEnds(text, flat) <=> k \in 1..Len(text) /\ text[k] \notin {"[", "]"}
    BY <2>2, FlatEnds
  <2>4. text[i] # "["
    BY <1>1
  <2>5. e \in CandidateEnds(text, flat) /\ \A k \in CandidateEnds(text, flat) : k < e => k < i
    BY <1>0, <2>1, <2>3, <2>4
  <2>6. e \in i..Len(text)
    BY <1>0, <2>1
  <2> QED
    BY <1>1, <2>5, <2>6
<1>2. CASE ~flat
  <2>1. Depth(text, i) = IF text[i] = "[" THEN 1 ELSE 0
    BY <1>2, DepthStep, i - 1 \in Nat, (i - 1) + 1 = i
  <2>2. e \in CandidateEnds(text, FALSE) /\ e \in i..Len(text)
    BY <2>1, ValueEnds DEF CandidateEnds, IsCandidate
  <2>3. Depth(text, e) = 0
    BY <2>2, EndsOutside
  <2>4. ASSUME NEW k \in CandidateEnds(text, FALSE), k < e, k >= i PROVE FALSE
    <3>1. k \in 1..Len(text) /\ Depth(text, k) = 0
      BY EndsOutside
    <3>2. text[i] = "["
      BY <2>2, <2>4, <3>1, ValueEnds
    <3>3. k \in i..(ValueEnd(text, i) - 1)
      BY <2>2, <2>4, <3>1
    <3> QED
      BY <2>1, <3>1, <3>2, <3>3, ValueEnds
  <2>5. flat = FALSE
    BY <1>2
  <2>6. CandidateEnds(text, flat) = CandidateEnds(text, FALSE)
    BY <2>5
  <2>7. ASSUME NEW k \in CandidateEnds(text, FALSE), k < e PROVE k < i
    <3>1. k \in 1..Len(text)
      BY EndsOutside
    <3>2. ~(k >= i)
      BY <2>4, <2>7
    <3> QED
      BY <1>0, <3>1, <3>2
  <2> QED
    BY <2>2, <2>3, <2>6, <2>7
<1> QED
  BY <1>1, <1>2

LEMMA AppendLists ==
  ASSUME NEW s \in Seq(Nat), NEW ends, Lists(s, ends), NEW end \in Nat, \A k \in ends : k < end
  PROVE  Lists(Append(s, end), ends \cup {end})
<1> DEFINE t == Append(s, end)
<1>1. t \in Seq(Nat) /\ Len(t) = Len(s) + 1 /\ t[Len(t)] = end /\ \A i \in DOMAIN s : t[i] = s[i] /\ i \in DOMAIN t
  OBVIOUS
<1>2. \A i \in DOMAIN t : i \in DOMAIN s \/ i = Len(t)
  OBVIOUS
<1>3. Len(t) \in DOMAIN t
  OBVIOUS
<1> HIDE DEF t
<1>4. \A i \in DOMAIN s : s[i] \in ends
  BY DEF Lists, Range
<1>5. ASSUME NEW i \in DOMAIN t, NEW j \in DOMAIN t, i < j PROVE t[i] < t[j]
  <2>1. i \in DOMAIN s /\ t[i] = s[i]
    BY <1>1, <1>2, <1>5
  <2>2. CASE j \in DOMAIN s
    BY <1>1, <1>5, <2>1, <2>2 DEF Lists
  <2>3. CASE j = Len(t)
    BY <1>1, <1>4, <2>1, <2>3
  <2> QED
    BY <1>2, <2>2, <2>3
<1>6. Range(t) = ends \cup {end}
  BY <1>1, <1>2, <1>3 DEF Lists, Range
<1> QED
  BY <1>5, <1>6 DEF Lists, t

--------------------------------------------------------------------------------
(* The lines follow the input.                                                *)

\* The last tokens of the candidates, and those up to a token.
Ends == CandidateEnds(input, mode = "auto")
EndsUpto(n) == {end \in Ends : end <= n}

RequestTyped ==
  /\ input \in Seq(Tokens) /\ \A k \in DOMAIN input : Depth(input, k) \in Nat
  /\ mode \in Modes /\ pos \in 0..Len(input)
  /\ stopped \in BOOLEAN /\ torn \in BOOLEAN /\ toWriter \in BOOLEAN

\* The lines are those of the candidates that are complete at pos; the newline of
\* the last one is written after it.
LinesAt ==
  /\ phase \in {"next", "emit", "deliver", "count", "ok"} => Lists(lines, EndsUpto(pos))
  /\ phase = "newline" => /\ pos > 0 /\ Lists(lines, EndsUpto(pos - 1))
                         /\ pos \in Ends
  /\ phase = "failed" => \E n \in 0..pos : Lists(lines, EndsUpto(n))

\* Outside auto mode, the call is never inside a value when it looks for one.
Outside ==
  mode # "auto" => depth = 0 /\ (phase \notin {"ok", "failed"} => Depth(input, pos) = 0)

Looked ==
  phase = "emit" => ~AtEnd /\ Next_ # "]" /\ (mode = "auto" => Next_ # "[")

Finished ==
  /\ torn => phase \in {"newline", "failed"}
  /\ phase = "ok" /\ ~stopped => AtEnd
  /\ stopped \/ phase = "deliver" => toCallback

LInv == RequestTyped /\ (toWriter => LinesAt) /\ Outside /\ Looked /\ Finished

LEMMA EndsInText ==
  ASSUME RequestTyped PROVE \A end \in Ends : end \in 1..Len(input)
<1>1. CASE mode = "auto"
  <2>1. (mode = "auto") = TRUE
    BY <1>1
  <2> QED
    BY <2>1, FlatEnds DEF RequestTyped, Ends
<1>2. CASE mode # "auto"
  <2>1. (mode = "auto") = FALSE
    BY <1>2
  <2> QED
    BY <2>1, EndsOutside DEF RequestTyped, Ends
<1> QED
  BY <1>1, <1>2

LEMMA InitLInv == Init => LInv
<1> SUFFICES ASSUME Init PROVE LInv
  OBVIOUS
<1>1. /\ input \in Inputs /\ mode \in Modes /\ phase = "next" /\ pos = 0 /\ depth = 0
      /\ stopped = FALSE /\ lines = <<>> /\ torn = FALSE /\ toWriter \in BOOLEAN
  BY DEF Init, StreamInit
<1>2. RequestTyped
  <2>1. input \in Seq(Tokens) /\ \A k \in DOMAIN input : Depth(input, k) \in Nat
    BY <1>1, InputAssumption
  <2>2. pos \in 0..Len(input)
    BY <1>1, <2>1
  <2> QED
    BY <1>1, <2>1, <2>2 DEF RequestTyped
<1>3. EndsUpto(pos) = {}
  BY <1>1, <1>2, EndsInText DEF EndsUpto
<1>4. Lists(lines, EndsUpto(pos))
  BY <1>1, <1>3 DEF Lists, Range
<1>5. Outside
  BY <1>1, <1>2, DepthZero DEF Outside, RequestTyped
<1> QED
  BY <1>1, <1>2, <1>4, <1>5 DEF LInv, LinesAt, Looked, Finished

\* The steps that read and write nothing.
Waits ==
  /\ UNCHANGED <<input, mode, toWriter, toCallback, pos, depth, lines>>
  /\ stopped' \in BOOLEAN /\ torn' \in BOOLEAN
  /\ \/ phase \in {"next", "emit", "deliver", "count"} /\ phase' \in {"next", "emit", "count", "ok", "failed"}
     \/ phase = "newline" /\ phase' = "failed"
  /\ stopped' => toCallback
  /\ torn' => phase' = "failed"
  /\ phase' = "ok" /\ ~stopped' => AtEnd
  /\ phase' = "emit" => ~AtEnd /\ Next_ # "]" /\ (mode = "auto" => Next_ # "[")

LEMMA WaitKeeps == ASSUME LInv, Waits PROVE LInv'
<1>1. RequestTyped'
  BY DEF Waits, LInv, RequestTyped
<1>2. \A n : EndsUpto(n)' = EndsUpto(n)
  BY DEF Waits, EndsUpto, Ends
<1>3. ASSUME toWriter' PROVE LinesAt'
  <2>1. toWriter /\ LinesAt /\ pos \in Nat /\ pos' = pos /\ lines' = lines
    BY <1>3 DEF Waits, LInv, RequestTyped
  <2>2. CASE phase = "newline"
    <3>1. phase' = "failed" /\ pos - 1 \in 0..pos /\ Lists(lines, EndsUpto(pos - 1))
      BY <2>1, <2>2 DEF Waits, LinesAt
    <3> QED
      BY <1>2, <2>1, <3>1 DEF LinesAt
  <2>3. CASE phase # "newline"
    <3>1. phase' \in {"next", "emit", "count", "ok", "failed"} /\ pos \in 0..pos /\ Lists(lines, EndsUpto(pos))
      BY <2>1, <2>3 DEF Waits, LinesAt
    <3> QED
      BY <1>2, <2>1, <3>1 DEF LinesAt
  <2> QED
    BY <2>2, <2>3
<1>4. Outside'
  BY DEF Waits, LInv, Outside
<1>5. Looked' /\ Finished'
  BY DEF Waits, LInv, Looked, Finished, AtEnd, Next_
<1> QED
  BY <1>1, <1>3, <1>4, <1>5 DEF LInv

LEMMA Waiting ==
  ASSUME LInv, EndOfInput \/ Refuse \/ Stop \/ ReadFails \/ StartCandidate \/ EmitFails
               \/ NewlineFails \/ DeliverFails \/ Deliver \/ CountWritten
  PROVE  Waits
<1> USE DEF LInv, RequestTyped, Finished, Waits, request, loop, counts, Go
<1>1. CASE EndOfInput
  BY <1>1 DEF EndOfInput
<1>2. CASE Refuse
  BY <1>2 DEF Refuse
<1>3. CASE Stop
  BY <1>3 DEF Stop
<1>4. CASE ReadFails
  BY <1>4 DEF ReadFails
<1>5. CASE StartCandidate
  BY <1>5 DEF StartCandidate, FlattenTopArray
<1>6. CASE EmitFails
  BY <1>6 DEF EmitFails
<1>7. CASE NewlineFails
  BY <1>7 DEF NewlineFails
<1>8. CASE DeliverFails
  BY <1>8 DEF DeliverFails
<1>9. CASE Deliver
  BY <1>9 DEF Deliver
<1>10. CASE CountWritten
  BY <1>10 DEF CountWritten
<1> QED
  BY <1>1, <1>2, <1>3, <1>4, <1>5, <1>6, <1>7, <1>8, <1>9, <1>10

\* A bracket of an array that is flattened is no candidate.
LEMMA BracketKeeps == ASSUME LInv, OpenTopArray \/ CloseTopArray PROVE LInv'
<1>1. /\ phase = "next" /\ mode = "auto"
      /\ \/ ~AtEnd /\ Next_ \in {"[", "]"} /\ pos' = pos + 1 /\ ~stopped
         \/ pos' = pos
      /\ UNCHANGED <<input, mode, toWriter, toCallback, phase, lines, torn, stopped>>
  BY DEF OpenTopArray, CloseTopArray, FlattenTopArray, request, loop, counts, LInv, Outside
<1>2. RequestTyped'
  BY <1>1 DEF LInv, RequestTyped, AtEnd
<1>3. \A n : EndsUpto(n)' = EndsUpto(n)
  BY <1>1 DEF EndsUpto, Ends
<1>4. EndsUpto(pos') = EndsUpto(pos)
  <2>1. CASE pos' = pos
    BY <2>1
  <2>2. CASE pos' # pos
    <3>1. ~AtEnd /\ Next_ \in {"[", "]"} /\ pos' = pos + 1 /\ pos \in Nat
      BY <1>1, <2>2 DEF LInv, RequestTyped
    <3>2. (mode = "auto") = TRUE
      BY <1>1
    <3>3. pos + 1 \notin Ends
      BY <3>1, <3>2, FlatEnds DEF LInv, RequestTyped, Next_, Ends
    <3>4. ASSUME NEW end \in Ends PROVE end <= pos + 1 <=> end <= pos
      <4>1. end \in Nat /\ end # pos + 1
        BY <3>3, EndsInText DEF LInv
      <4> QED
        BY <3>1, <4>1
    <3> QED
      BY <3>1, <3>4 DEF EndsUpto
  <2> QED
    BY <2>1, <2>2
<1>5. ASSUME toWriter' PROVE LinesAt'
  <2>1. Lists(lines, EndsUpto(pos)) /\ phase' = "next" /\ lines' = lines
    BY <1>1, <1>5 DEF LInv, LinesAt
  <2> QED
    BY <1>3, <1>4, <2>1 DEF LinesAt
<1> QED
  BY <1>1, <1>2, <1>5 DEF LInv, Outside, Looked, Finished

LEMMA UptoBelow ==
  ASSUME NEW p \in Nat, NEW q \in Nat, q > p, NEW all, all \subseteq Nat, \A k \in all : k < q => k < p + 1
  PROVE  {e \in all : e <= q - 1} = {e \in all : e <= p}
<1>1. ASSUME NEW e \in all PROVE e <= q - 1 <=> e <= p
  <2>1. e \in Nat /\ (e < q => e < p + 1)
    OBVIOUS
  <2> QED
    BY <2>1
<1> QED
  BY <1>1

LEMMA UptoAdds ==
  ASSUME NEW p \in Nat, NEW all, all \subseteq Nat, p \in all, p > 0
  PROVE  /\ {e \in all : e <= p} = {e \in all : e <= p - 1} \cup {p}
         /\ \A k \in {e \in all : e <= p - 1} : k < p
<1>1. ASSUME NEW e \in all PROVE (e <= p <=> e <= p - 1 \/ e = p) /\ (e <= p - 1 => e < p)
  <2>1. e \in Nat
    OBVIOUS
  <2> QED
    BY <2>1
<1> QED
  BY <1>1

LEMMA EmitLines == ASSUME LInv, Emit PROVE LInv'
<1>1. /\ phase = "emit" /\ phase' = "newline" /\ torn' = toWriter
      /\ UNCHANGED <<input, mode, toWriter, toCallback, lines, stopped, depth>>
  BY DEF Emit, Go, request, counts
<1>2. /\ input \in Seq(Tokens) /\ \A k \in DOMAIN input : Depth(input, k) \in Nat
      /\ pos \in 0..Len(input) /\ ~AtEnd
  BY <1>1 DEF LInv, RequestTyped, Looked
<1>3. pos + 1 \in DOMAIN input /\ pos \in Nat /\ (pos + 1) - 1 = pos
  BY <1>2 DEF AtEnd
<1>4. pos' = ValueEnd(input, pos + 1) /\ pos' > 0
  BY <1>3 DEF Emit
<1>5. /\ pos' \in (pos + 1)..Len(input) /\ pos' \in Ends
      /\ \A k \in Ends : k < pos' => k < pos + 1
      /\ mode # "auto" => Depth(input, pos') = 0
  <2> DEFINE flat == mode = "auto"
  <2>1. flat \in BOOLEAN
    OBVIOUS
  <2>2. input[pos + 1] # "]" /\ (flat => input[pos + 1] # "[") /\ (~flat => Depth(input, (pos + 1) - 1) = 0)
    BY <1>1, <1>3 DEF LInv, Looked, Outside, Next_
  <2>3. ~flat <=> mode # "auto"
    OBVIOUS
  <2> HIDE DEF flat
  <2>4. /\ pos' \in (pos + 1)..Len(input) /\ pos' \in CandidateEnds(input, flat)
        /\ \A k \in CandidateEnds(input, flat) : k < pos' => k < pos + 1
        /\ ~flat => Depth(input, pos') = 0
    BY <1>2, <1>3, <1>4, <2>1, <2>2, NextEnd
  <2> QED
    BY <2>3, <2>4 DEF flat, Ends
<1>6. RequestTyped'
  BY <1>1, <1>5 DEF LInv, RequestTyped
<1>7. EndsUpto(pos - 1)' = EndsUpto(pos)
  <2>1. Ends \subseteq Nat
    BY EndsInText DEF LInv
  <2>2. pos' \in Nat /\ pos' > pos
    BY <1>2, <1>3, <1>5
  <2>3. {e \in Ends : e <= pos' - 1} = {e \in Ends : e <= pos}
    BY <1>3, <1>5, <2>1, <2>2, UptoBelow
  <2> QED
    BY <1>1, <2>3 DEF EndsUpto, Ends
<1>8. ASSUME toWriter' PROVE LinesAt'
  <2>1. Lists(lines, EndsUpto(pos))
    BY <1>1, <1>8 DEF LInv, LinesAt
  <2>2. pos' > 0 /\ Lists(lines, EndsUpto(pos - 1))'
    BY <1>1, <1>4, <1>7, <2>1
  <2>3. (pos \in Ends)'
    BY <1>1, <1>5 DEF Ends
  <2> QED
    BY <1>1, <2>2, <2>3 DEF LinesAt
<1>9. Outside'
  BY <1>1, <1>5 DEF LInv, Outside
<1> QED
  BY <1>1, <1>6, <1>8, <1>9 DEF LInv, Looked, Finished

LEMMA NewlineLines == ASSUME IInv, LInv, WriteNewline PROVE LInv'
<1>1. /\ phase = "newline" /\ phase' \in {"deliver", "count"} /\ (phase' = "deliver" => toCallback) /\ torn' = FALSE
      /\ lines' = (IF toWriter THEN Append(lines, pos) ELSE lines)
      /\ UNCHANGED <<input, mode, toWriter, toCallback, pos, stopped, depth>>
  BY DEF WriteNewline, CountSeen, Go, request, loop
<1>2. RequestTyped'
  BY <1>1 DEF LInv, RequestTyped
<1>3. ASSUME toWriter PROVE Lists(lines', EndsUpto(pos))
  <2>1. /\ pos \in Nat /\ pos > 0 /\ Lists(lines, EndsUpto(pos - 1)) /\ lines \in Seq(Nat)
        /\ pos \in Ends
    BY <1>1, <1>3 DEF LInv, LinesAt, IInv, Typed
  <2>2. Ends \subseteq Nat
    BY EndsInText DEF LInv
  <2>3. EndsUpto(pos) = EndsUpto(pos - 1) \cup {pos} /\ \A k \in EndsUpto(pos - 1) : k < pos
    BY <2>1, <2>2, UptoAdds DEF EndsUpto
  <2> QED
    BY <1>1, <1>3, <2>1, <2>3, AppendLists
<1>4. EndsUpto(pos)' = EndsUpto(pos)
  BY <1>1 DEF EndsUpto, Ends
<1>5. Outside'
  BY <1>1 DEF LInv, Outside
<1> QED
  BY <1>1, <1>2, <1>3, <1>4, <1>5 DEF LInv, LinesAt, Looked, Finished

LEMMA StepLInv == IInv /\ LInv /\ [Next]_vars => LInv'
<1> SUFFICES ASSUME IInv, LInv, [Next]_vars PROVE LInv'
  OBVIOUS
<1>1. CASE UNCHANGED streamVars
  BY <1>1 DEF streamVars, request, loop, LInv, RequestTyped, LinesAt, Outside, Looked, Finished,
     EndsUpto, Ends, AtEnd, Next_
<1>2. CASE Stream
  BY <1>2, Waiting, WaitKeeps, BracketKeeps, EmitLines, NewlineLines DEF Stream, StreamNext
<1>3. CASE UNCHANGED vars
  BY <1>1, <1>3 DEF vars
<1> QED
  BY <1>1, <1>2, <1>3
     DEF Next, CreateTemp, OpenInput, EndStream, CloseTemp, Rename, Cleanup, Kill, UnchangedStream

\* At the end of the input every candidate has its line.
LEMMA AllListed ==
  ASSUME LInv, toWriter, phase = "ok", ~stopped
  PROVE  Lists(lines, Ends)
<1>1. Lists(lines, EndsUpto(pos)) /\ pos = Len(input) /\ RequestTyped
  BY DEF LInv, LinesAt, Finished, AtEnd
<1>2. EndsUpto(pos) = Ends
  BY <1>1, EndsInText DEF EndsUpto
<1> QED
  BY <1>1, <1>2

\* Writer gets a line for each candidate in order, none twice and none left out,
\* for every input and mode, wherever the call fails.
THEOREM LinesFollowInput == Spec => []LinesMatchInput
<1>1. LInv /\ IInv => LinesMatchInput
  <2> SUFFICES ASSUME LInv, IInv, toWriter
               PROVE  /\ \E n \in 0..pos : Lists(lines, {end \in CandidateEnds(input, mode = "auto") : end <= n})
                      /\ phase = "ok" /\ ~stopped => Lists(lines, CandidateEnds(input, mode = "auto"))
                      /\ phase = "ok" => ~torn
    BY DEF LinesMatchInput
  <2>1. pos \in Nat /\ phase \in Phases
    BY DEF IInv, Typed
  <2>2. \E n \in 0..pos : Lists(lines, EndsUpto(n))
    <3>1. CASE phase = "newline"
      BY <2>1, <3>1, pos - 1 \in 0..pos DEF LInv, LinesAt
    <3>2. CASE phase # "newline"
      BY <2>1, <3>2, pos \in 0..pos DEF LInv, LinesAt, Phases
    <3> QED
      BY <3>1, <3>2
  <2> QED
    BY <2>2, AllListed DEF EndsUpto, Ends, LInv, Finished
<1> QED
  BY <1>1, InitIInv, StepIInv, InitLInv, StepLInv, PTL DEF Spec

--------------------------------------------------------------------------------
(* The inline edit.                                                           *)

\* Only Rename changes the file, after a stream that has come to its end.
EInv ==
  /\ step # "library" => mode = "auto" /\ toWriter /\ ~toCallback
  /\ target = OldContents \/ Lists(target, CandidateEnds(input, TRUE))
  /\ outcome \in {"none", "failed"} => target = OldContents
  /\ outcome = "done" => Lists(target, CandidateEnds(input, TRUE)) /\ temp = {}
  /\ step \in {"close", "rename"} => phase = "ok"
  /\ step \notin {"cleanup", "end"} => outcome = "none"

LEMMA InitEInv == Init => EInv
BY DEF Init, EInv, OldContents

\* The steps before the rename, and those that end the edit.
LEMMA StepsKeepTarget ==
  ASSUME EInv,
         CreateTemp \/ OpenInput \/ EndStream \/ CloseTemp \/ Cleanup \/ Kill
  PROVE  EInv'
<1>1. UNCHANGED <<input, mode, toWriter, toCallback, phase>> /\ target' = target
  BY DEF CreateTemp, OpenInput, EndStream, CloseTemp, Cleanup, Kill, UnchangedStream, streamVars, request
<1>2. CandidateEnds(input, TRUE)' = CandidateEnds(input, TRUE) /\ OldContents' = OldContents
  BY <1>1 DEF OldContents
<1>3. CASE CreateTemp
  BY <1>1, <1>2, <1>3 DEF CreateTemp, EInv
<1>4. CASE OpenInput
  BY <1>1, <1>2, <1>4 DEF OpenInput, Fail, EInv
<1>5. CASE EndStream
  BY <1>1, <1>2, <1>5 DEF EndStream, Fail, EInv, Ended, StreamFailedOrEmpty
<1>6. CASE CloseTemp
  BY <1>1, <1>2, <1>6 DEF CloseTemp, Fail, EInv
<1>7. CASE Cleanup
  BY <1>1, <1>2, <1>7 DEF Cleanup, EInv
<1>8. CASE Kill
  BY <1>1, <1>2, <1>8 DEF Kill, EInv
<1> QED
  BY <1>3, <1>4, <1>5, <1>6, <1>7, <1>8

LEMMA StepEInv == LInv /\ EInv /\ [Next]_vars => EInv'
<1> SUFFICES ASSUME LInv, EInv, [Next]_vars PROVE EInv'
  OBVIOUS
<1>1. CASE Stream
  <2>1. UNCHANGED <<input, mode, toWriter, toCallback, step, temp, target, outcome>> /\ step \in {"stream", "library"}
    BY <1>1 DEF Stream, edit, StreamNext, EndOfInput, Refuse, OpenTopArray, CloseTopArray, Stop, ReadFails,
       StartCandidate, Emit, EmitFails, WriteNewline, NewlineFails, DeliverFails, Deliver, CountWritten, request
  <2> QED
    BY <2>1 DEF EInv, OldContents
<1>2. CASE Rename
  <2>1. UNCHANGED <<input, mode, toWriter, toCallback, phase, lines>> /\ step = "rename"
    BY <1>2 DEF Rename, UnchangedStream, streamVars, request
  <2>2. Lists(lines, CandidateEnds(input, TRUE))
    <3>1. phase = "ok" /\ mode = "auto" /\ toWriter /\ ~stopped
      BY <2>1 DEF EInv, LInv, Finished
    <3>2. (mode = "auto") = TRUE
      BY <3>1
    <3> QED
      BY <3>1, <3>2, AllListed DEF Ends
  <2> QED
    BY <1>2, <2>1, <2>2 DEF Rename, Fail, EInv, OldContents
<1>3. CASE UNCHANGED vars
  BY <1>3 DEF vars, edit, streamVars, request, EInv, OldContents
<1> QED
  BY <1>1, <1>2, <1>3, StepsKeepTarget DEF Next

\* The file has its old contents or every candidate mutated, whatever fails and
\* wherever the process is killed, and the report of the edit is true
\* (cmd/lql/main.go:497-533); what is left of the temporary file is not said.
THEOREM EditAtomic == Spec => []EditIsAtomic
<1>1. EInv => EditIsAtomic
  BY DEF EInv, EditIsAtomic
<1> QED
  BY <1>1, InitIInv, StepIInv, InitLInv, StepLInv, InitEInv, StepEInv, PTL DEF Spec

================================================================================
