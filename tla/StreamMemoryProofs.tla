--------------------------- MODULE StreamMemoryProofs ---------------------------
(***************************************************************************)
(* The memory of any number of mutate streams, for any classes, sizes and  *)
(* bounds: the loops of load and compare-and-swap implement the hint that  *)
(* moves in one step, what a stream holds is held by nobody else unless it *)
(* was the buffer of a payload inside another one, and a buffer that the   *)
(* pool has made itself never leads to a panic.                            *)
(***************************************************************************)
EXTENDS StreamMemory, FiniteSetTheorems, WellFoundedInduction, TLAPS

\* Bounds of the hint.
LEMMA SizesAreNumbers == Sizes \subseteq Nat \ {0} /\ \A n \in Sizes : n >= Floor /\ (Ceil > 0 => n <= Ceil)
BY BoundsAssumption DEF Sizes

\* clamp returns a size within the bounds, and leaves one alone.
LEMMA ClampInSizes == ASSUME NEW n \in Int PROVE Clamp(n) \in Sizes
BY BoundsAssumption DEF Clamp, Sizes

LEMMA ClampOfSize == ASSUME NEW n \in Sizes PROVE Clamp(n) = n
BY BoundsAssumption DEF Clamp, Sizes

\* An eighth of the way to a smaller size is on that way, and no further than
\* an eighth of the way to the floor.
LEMMA EighthOfTheWay ==
  ASSUME NEW f \in Nat, NEW s \in Nat, NEW c \in Nat, f <= s, s < c
  PROVE  /\ c - (c - s) \div 8 \in Int
         /\ c - (c - s) \div 8 >= s
         /\ c - (c - s) \div 8 <= c
         /\ c - (c - s) \div 8 >= c - (c - f) \div 8
BY SMT

\* Every observation is one of the atomic hint.
LEMMA MovedIsObserve ==
  ASSUME NEW c \in Sizes, NEW s \in Sizes
  PROVE  /\ Moved(c, s) \in Sizes
         /\ Moved(c, s) \in IF Ceil > 0 THEN (c - (c - Floor) \div 8)..Ceil
                            ELSE {n \in Nat : n >= c - (c - Floor) \div 8}
<1> DEFINE least == c - (c - Floor) \div 8
<1>1. c \in Nat /\ s \in Nat /\ Floor \in Nat /\ Floor <= s /\ Floor <= c /\ Ceil \in Nat
      /\ (Ceil > 0 => c <= Ceil /\ s <= Ceil)
  BY SizesAreNumbers, BoundsAssumption
<1>2. least \in Int /\ least <= c
  BY <1>1, SMT
<1>3. CASE s < c
  <2> DEFINE next == c - (c - s) \div 8
  <2>1. next \in Int /\ next >= s /\ next <= c /\ next >= least
    BY <1>1, <1>3, EighthOfTheWay
  <2>2. next \in Sizes
    BY <1>1, <2>1, SizesAreNumbers DEF Sizes
  <2>3. Moved(c, s) = next
    BY <1>3, <2>2, ClampOfSize DEF Moved
  <2> QED
    BY <1>1, <1>2, <2>1, <2>2, <2>3, SizesAreNumbers
<1>4. CASE ~(s < c)
  <2>1. Moved(c, s) = s
    BY <1>4, ClampOfSize DEF Moved
  <2> QED
    BY <1>1, <1>2, <1>4, <2>1, SizesAreNumbers
<1> QED
  BY <1>3, <1>4

\* A step of the loops stays within the bounds.
LEMMA HintStep ==
  ASSUME HintInv, [HintNext]_<<hint, observing>>
  PROVE  HintInv'
<1>1. CASE UNCHANGED <<hint, observing>>
  BY <1>1 DEF HintInv
<1>2. ASSUME NEW o \in Observers, CompareAndSwap(o) PROVE HintInv'
  <2>1. PICK loop \in observing[o] :
          \/ /\ hint = loop.current
             /\ hint' = Moved(loop.current, loop.size)
             /\ observing' = [observing EXCEPT ![o] = {}]
          \/ /\ hint # loop.current
             /\ observing' = [observing EXCEPT ![o] = {[current |-> hint, size |-> loop.size]}]
             /\ UNCHANGED hint
    BY <1>2 DEF CompareAndSwap
  <2>2. loop \in [current : Sizes, size : Sizes]
    BY DEF HintInv
  <2>3. hint' \in Sizes
    BY <2>1, <2>2, MovedIsObserve DEF HintInv
  <2> QED
    BY <2>1, <2>2, <2>3 DEF HintInv
<1>3. ASSUME NEW o \in Observers, NEW n \in Nat, StartObserve(o, n) PROVE HintInv'
  BY <1>3, ClampInSizes DEF StartObserve, HintInv
<1> QED
  BY <1>1, <1>2, <1>3 DEF HintNext

LEMMA HintStarts == ASSUME NEW initial \in Int, NewHint(initial) PROVE HintInv
BY ClampInSizes DEF NewHint, HintInv

\* The hint stays within its bounds, and so does what a loop is about to store.
THEOREM HintStaysInBounds == HintSpec => []HintInv
<1>1. HintInit => HintInv
  BY HintStarts DEF HintInit
<1>2. HintInv /\ [HintNext]_<<hint, observing>> => HintInv'
  BY HintStep
<1> QED
  BY <1>1, <1>2, PTL DEF HintSpec

\* No observation is lost to another stream, skips a value or overshoots one:
\* the loops implement the atomic hint.
THEOREM HintImplementsAtomic == HintSpec => HintIsAtomic
<1>1. HintInit => AtomicInit
  BY ClampInSizes DEF HintInit, NewHint, AtomicInit
<1>2. HintInv /\ [HintNext]_<<hint, observing>> => [Observe]_hint
  <2> SUFFICES ASSUME HintInv, [HintNext]_<<hint, observing>>, hint' # hint PROVE Observe
    OBVIOUS
  <2>1. PICK o \in Observers : CompareAndSwap(o)
    BY DEF HintNext, StartObserve
  <2>2. PICK loop \in observing[o] : hint = loop.current /\ hint' = Moved(loop.current, loop.size)
    BY <2>1 DEF CompareAndSwap
  <2>3. loop.current \in Sizes /\ loop.size \in Sizes
    BY DEF HintInv
  <2> QED
    BY <2>2, <2>3, MovedIsObserve DEF Observe
<1> QED
  BY <1>1, <1>2, HintStaysInBounds, PTL DEF HintSpec, HintIsAtomic, AtomicSpec

--------------------------------------------------------------------------------
(* Sizes.                                                                     *)

LEMMA LeastIsLeast ==
  ASSUME NEW S, S \subseteq Nat, S # {}
  PROVE  Least(S) \in S /\ \A k \in S : Least(S) <= k
<1> DEFINE Less == {ss \in Nat \X Nat : ss[1] < ss[2]}
<1>1. IsWellFoundedOn(Less, Nat)
  BY NatLessThanWellFounded DEF OpToRel
<1>2. PICK n \in S : \A k \in S : <<k, n>> \notin Less
  <2> HIDE DEF Less
  <2> QED
    BY <1>1, WFMin
<1>3. ASSUME NEW k \in S PROVE n <= k
  <2>1. <<k, n>> \in Less <=> k < n
    OBVIOUS
  <2> HIDE DEF Less
  <2> QED
    BY <1>2, <2>1
<1> QED
  BY <1>3 DEF Least

\* The class of a size is the first one that it fits.
LEMMA ClassFacts ==
  ASSUME NEW asked \in Nat
  PROVE  /\ ClassIndex(asked) = 0 => \A i \in DOMAIN ClassCaps : ClassCaps[i] < asked
         /\ ClassIndex(asked) # 0 =>
              /\ ClassIndex(asked) \in DOMAIN ClassCaps /\ asked <= ClassCaps[ClassIndex(asked)]
              /\ \A i \in DOMAIN ClassCaps : asked <= ClassCaps[i] => ClassIndex(asked) <= i
<1> DEFINE fits == {i \in DOMAIN ClassCaps : asked <= ClassCaps[i]}
<1>1. DOMAIN ClassCaps = 1..Len(ClassCaps) /\ Len(ClassCaps) \in Nat /\ \A i \in DOMAIN ClassCaps : ClassCaps[i] \in Nat
  BY ClassAssumption
<1>2. fits \subseteq Nat /\ 0 \notin fits
  BY <1>1
<1>3. ClassIndex(asked) = IF fits = {} THEN 0 ELSE Least(fits)
  BY DEF ClassIndex
<1>4. fits # {} => Least(fits) \in fits /\ \A k \in fits : Least(fits) <= k
  <2> HIDE DEF fits
  <2> QED
    BY <1>2, LeastIsLeast
<1> QED
  BY <1>1, <1>2, <1>3, <1>4

LEMMA RoundedUp ==
  ASSUME NEW n \in Nat
  PROVE  RoundUp(n) \in Nat /\ RoundUp(n) >= n
<1> DEFINE fits == {c \in SizeClasses : n <= c}
<1>1. fits # {} => Least(fits) \in fits
  <2>1. fits \subseteq Nat
    BY SizeClassAssumption
  <2> HIDE DEF fits
  <2> QED
    BY <2>1, LeastIsLeast
<1>2. RoundUp(n) = IF fits = {} THEN n ELSE Least(fits)
  BY DEF RoundUp
<1>3. CASE fits = {}
  BY <1>2, <1>3
<1>4. CASE fits # {}
  <2>1. Least(fits) \in SizeClasses /\ n <= Least(fits)
    BY <1>1, <1>4
  <2> QED
    BY <1>2, <1>4, <2>1, SizeClassAssumption
<1> QED
  BY <1>3, <1>4

\* Growing by a quarter and 192 ends, with enough.
LEMMA GrowsEnough ==
  ASSUME NEW need \in Nat,
         NEW grow, grow = CHOOSE f : f = [c \in Nat |-> IF c >= need THEN c ELSE f[c + (c + 768) \div 4]]
  PROVE  \A c \in Nat : grow[c] \in Nat /\ grow[c] >= need
<1> DEFINE next(c) == c + (c + 768) \div 4
           At(f, c) == IF c >= need THEN c ELSE f[next(c)]
<1>1. \A c \in Nat : next(c) \in Nat /\ next(c) > c
  OBVIOUS
<1> HIDE DEF next
<1> DEFINE Solves(f, k) == \A c \in Nat : c >= need - k => f[c] = At(f, c)
           Unsolved == {k \in 0..need : \A f \in [Nat -> Nat] : ~Solves(f, k)}
<1>2. ASSUME Unsolved # {} PROVE FALSE
  <2>1. PICK k \in Unsolved : \A m \in Unsolved : k <= m
    <3>1. Unsolved \subseteq Nat
      OBVIOUS
    <3> HIDE DEF Unsolved
    <3> QED
      BY <1>2, <3>1, LeastIsLeast
  <2>2. k \in 0..need /\ \A f \in [Nat -> Nat] : ~Solves(f, k)
    OBVIOUS
  <2>3. k # 0
    <3>1. [c \in Nat |-> c] \in [Nat -> Nat] /\ Solves([c \in Nat |-> c], 0)
      OBVIOUS
    <3> QED
      BY <2>2, <3>1
  <2>4. k - 1 \notin Unsolved /\ k - 1 \in 0..need
    <3>1. k \in Nat /\ ~(k <= k - 1) /\ k - 1 \in 0..need
      BY <2>2, <2>3
    <3> HIDE DEF Unsolved
    <3> QED
      BY <2>1, <3>1
  <2>5. PICK f \in [Nat -> Nat] : Solves(f, k - 1)
    BY <2>4
  <2> DEFINE g == [c \in Nat |-> IF c = need - k THEN f[next(c)] ELSE f[c]]
  <2>6. g \in [Nat -> Nat]
    BY <1>1
  <2>7. ASSUME NEW c \in Nat, c >= need - k PROVE g[c] = At(g, c)
    <3>1. next(c) \in Nat /\ next(c) # need - k
      BY <1>1, <2>2, <2>7
    <3>2. g[next(c)] = f[next(c)]
      BY <3>1
    <3>3. CASE c = need - k
      BY <2>2, <2>3, <3>2, <3>3
    <3>4. CASE c # need - k
      <4>1. c >= need - (k - 1)
        BY <2>2, <2>7, <3>4
      <4> QED
        BY <2>5, <3>2, <3>4, <4>1
    <3> QED
      BY <3>3, <3>4
  <2> HIDE DEF g, At
  <2> QED
    BY <2>2, <2>6, <2>7
<1>3. \E f : f = [c \in Nat |-> At(f, c)]
  <2>1. PICK f \in [Nat -> Nat] : Solves(f, need)
    BY <1>2, need \in 0..need
  <2>2. f = [c \in Nat |-> At(f, c)]
    BY <2>1
  <2> QED
    BY <2>2
<1>4. \A c \in Nat : grow[c] = At(grow, c)
  <2>1. grow = CHOOSE f : f = [c \in Nat |-> At(f, c)]
    BY DEF next
  <2> HIDE DEF At
  <2>2. grow = [c \in Nat |-> At(grow, c)]
    BY <1>3, <2>1
  <2> QED
    BY <2>2
<1> DEFINE Enough(c) == grow[c] \in Nat /\ grow[c] >= need
           Bad == {k \in 0..need : \E c \in Nat : c >= need - k /\ ~Enough(c)}
<1>5. ASSUME Bad # {} PROVE FALSE
  <2>1. PICK k \in Bad : \A m \in Bad : k <= m
    <3>1. Bad \subseteq Nat
      OBVIOUS
    <3> HIDE DEF Bad
    <3> QED
      BY <1>5, <3>1, LeastIsLeast
  <2>2. PICK c \in Nat : c >= need - k /\ ~Enough(c)
    OBVIOUS
  <2>3. c < need
    BY <1>4, <2>2
  <2>4. k \in 0..need /\ k # 0
    BY <2>2, <2>3
  <2>5. k - 1 \in 0..need /\ k - 1 \notin Bad
    <3>1. k \in Nat /\ ~(k <= k - 1) /\ k - 1 \in 0..need
      BY <2>4
    <3> HIDE DEF Bad
    <3> QED
      BY <2>1, <3>1
  <2>6. next(c) \in Nat /\ next(c) >= need - (k - 1)
    BY <1>1, <2>2, <2>4
  <2>7. Enough(next(c))
    BY <2>5, <2>6
  <2> QED
    BY <1>4, <2>2, <2>3, <2>7
<1>6. ASSUME NEW c \in Nat PROVE Enough(c)
  <2>1. need \in 0..need /\ need \notin Bad /\ c >= need - need
    BY <1>5
  <2> QED
    BY <2>1
<1> QED
  BY <1>6

\* append makes room for what is asked.
LEMMA GrownEnough ==
  ASSUME NEW cap \in Nat, NEW need \in Nat
  PROVE  GrownCap(cap, need) \in Nat /\ GrownCap(cap, need) >= need
<1> DEFINE grow == CHOOSE f : f = [c \in Nat |-> IF c >= need THEN c ELSE f[c + (c + 768) \div 4]]
<1>1. \A c \in Nat : grow[c] \in Nat /\ grow[c] >= need
  <2> HIDE DEF grow
  <2> QED
    BY GrowsEnough DEF grow
<1>2. GrownCap(cap, need) =
        IF need > 2 * cap THEN RoundUp(need)
        ELSE IF cap < 256 THEN RoundUp(2 * cap)
        ELSE RoundUp(grow[cap + (cap + 768) \div 4])
  BY DEF GrownCap
<1> HIDE DEF grow
<1>3. cap + (cap + 768) \div 4 \in Nat /\ 2 * cap \in Nat
  OBVIOUS
<1> QED
  BY <1>1, <1>2, <1>3, RoundedUp

--------------------------------------------------------------------------------
(* Buffers.                                                                   *)

Buf == [id : Ids, cap : Nat]

\* A new array is one that nobody refers to.
LEMMA MakeFacts ==
  ASSUME NEW cap \in Nat, NEW inUse, NEW b \in Make(cap, inUse)
  PROVE  /\ b \in Buf /\ b.cap = cap /\ b.id \notin inUse
         /\ \A x \in DOMAIN pool : b.id # x.id
<1>1. PICK i \in Unused(inUse) : b = [id |-> i, cap |-> cap]
  BY DEF Make
<1>2. i \in Ids /\ i \notin inUse /\ i \notin {x.id : x \in DOMAIN pool}
  BY DEF Unused, BagToSet
<1> QED
  BY <1>1, <1>2 DEF Buf

\* A buffer that is acquired has been in the pool, or is new.
LEMMA AcquiredFacts ==
  ASSUME NEW from, DOMAIN from \subseteq Buf, NEW asked \in Nat, NEW inUse, NEW b \in Acquired(from, asked, inUse)
  PROVE  /\ b \in Buf
         /\ b \in DOMAIN from \/ (b.id \notin inUse /\ \A x \in DOMAIN pool : b.id # x.id)
         /\ \/ b.cap = asked
            \/ ClassIndex(asked) # 0 /\ b.cap = ClassCaps[ClassIndex(asked)]
            \/ ClassIndex(asked) # 0 /\ ClassIndex(b.cap) = ClassIndex(asked)
<1>1. CASE ClassIndex(asked) = 0
  <2>1. b \in Make(asked, inUse)
    BY <1>1 DEF Acquired
  <2> QED
    BY <2>1, MakeFacts
<1>2. CASE ClassIndex(asked) # 0
  <2>1. ClassCaps[ClassIndex(asked)] \in Nat
    BY <1>2, ClassFacts, ClassAssumption
  <2>2. b \in {x \in DOMAIN from : ClassIndex(x.cap) = ClassIndex(asked)} \/ b \in Make(ClassCaps[ClassIndex(asked)], inUse)
    BY <1>2 DEF Acquired, BagToSet
  <2> QED
    BY <1>2, <2>1, <2>2, MakeFacts
<1> QED
  BY <1>1, <1>2

\* What the pool returns has at least the capacity of every class below the
\* size: only less than a whole class can be missing.
LEMMA AcquiredAboveClass ==
  ASSUME NEW from, DOMAIN from \subseteq Buf, NEW asked \in Nat, NEW inUse, NEW b \in Acquired(from, asked, inUse),
         NEW k \in DOMAIN ClassCaps, ClassCaps[k] < asked
  PROVE  b.cap >= ClassCaps[k]
<1>1. DOMAIN ClassCaps = 1..Len(ClassCaps) /\ Len(ClassCaps) \in Nat /\ \A i \in DOMAIN ClassCaps : ClassCaps[i] \in Nat
  BY ClassAssumption
<1>2. b \in Buf /\ b.cap \in Nat
  BY AcquiredFacts DEF Buf
<1>3. ASSUME ClassIndex(asked) # 0, ClassIndex(b.cap) = ClassIndex(asked), b.cap < ClassCaps[k] PROVE FALSE
  <2> DEFINE c == ClassIndex(asked)
  <2>1. c \in DOMAIN ClassCaps /\ asked <= ClassCaps[c]
    BY <1>3, ClassFacts
  <2>2. c <= k
    BY <1>1, <1>2, <1>3, ClassFacts
  <2> HIDE DEF c
  <2>3. c = k \/ ClassCaps[c] < ClassCaps[k]
    BY <1>1, <2>1, <2>2, ClassAssumption
  <2> QED
    BY <1>1, <2>1, <2>3
<1>4. \/ b.cap = asked
      \/ ClassIndex(asked) # 0 /\ b.cap = ClassCaps[ClassIndex(asked)]
      \/ ClassIndex(asked) # 0 /\ ClassIndex(b.cap) = ClassIndex(asked)
  BY AcquiredFacts
<1>5. ClassIndex(asked) # 0 => ClassCaps[ClassIndex(asked)] \in Nat /\ asked <= ClassCaps[ClassIndex(asked)]
  BY <1>1, ClassFacts
<1> QED
  BY <1>1, <1>2, <1>3, <1>4, <1>5

LEMMA CapOfOne ==
  /\ Cap({}) = 0
  /\ \A bufs, b : b \in bufs /\ (\A a, c \in bufs : a = c) => bufs = {b} /\ Cap(bufs) = b.cap
<1>1. ASSUME NEW bufs, NEW b \in bufs, \A a, c \in bufs : a = c PROVE bufs = {b} /\ Cap(bufs) = b.cap
  <2>1. bufs = {b}
    BY <1>1
  <2>2. (CHOOSE x : x \in {b}) = b
    OBVIOUS
  <2> QED
    BY <2>1, <2>2 DEF Cap
<1> QED
  BY <1>1 DEF Cap

LEMMA CapIsNat ==
  ASSUME NEW bufs, bufs \subseteq Buf, \A a, c \in bufs : a = c
  PROVE  Cap(bufs) \in Nat
<1>1. CASE bufs = {}
  BY <1>1, CapOfOne
<1>2. CASE bufs # {}
  <2>1. PICK b : b \in bufs
    BY <1>2
  <2>2. b.cap \in Nat
    BY <2>1 DEF Buf
  <2> QED
    BY <2>1, <2>2, CapOfOne
<1> QED
  BY <1>1, <1>2

\* What is in the pool after buffers are given back, or one is taken.
LEMMA PoolDomains ==
  ASSUME NEW from, NEW bufs, NEW b
  PROVE  /\ DOMAIN (from (+) Released(bufs)) \subseteq DOMAIN from \cup DOMAIN bufs
         /\ DOMAIN Taken(from, b) \subseteq DOMAIN from
         /\ DOMAIN (from (+) Released(SetToBag(bufs))) \subseteq DOMAIN from \cup bufs
<1>1. DOMAIN Released(bufs) \subseteq DOMAIN bufs
  BY DEF Released
<1>2. DOMAIN (from (+) Released(bufs)) = DOMAIN from \cup DOMAIN Released(bufs)
  BY DEF (+)
<1>3. DOMAIN Taken(from, b) \subseteq DOMAIN from
  BY DEF Taken, (-)
<1>4. DOMAIN Released(SetToBag(bufs)) \subseteq bufs
  BY DEF Released, SetToBag
<1>5. DOMAIN (from (+) Released(SetToBag(bufs))) = DOMAIN from \cup DOMAIN Released(SetToBag(bufs))
  BY DEF (+)
<1> QED
  BY <1>1, <1>2, <1>3, <1>4, <1>5

--------------------------------------------------------------------------------
(* Capacities and the panic.                                                  *)

MemoryType ==
  /\ DOMAIN pool \subseteq Buf
  /\ pc \in [Streams -> Points] /\ spilled \in [Streams -> BOOLEAN]
  /\ candidateHint \in [Streams -> Nat] /\ valueHint \in [Streams -> Nat]
  /\ mem \in [Streams -> SUBSET Buf] /\ writer \in [Streams -> SUBSET Buf]
  /\ used \in [Streams -> Nat] /\ size \in [Streams -> Nat] /\ made \in [Streams -> Nat]
  /\ nesting \in [Streams -> Nat] /\ payloads \in [Streams -> Seq(Buf)]

\* A stream has one buffer for each purpose, with room for what is in it.
StreamOK(s) ==
  /\ \A a, b \in mem[s] : a = b
  /\ \A a, b \in writer[s] : a = b
  /\ used[s] <= Cap(mem[s])
  /\ pc[s] = "panicked" => \A b \in mem[s] : \A i \in DOMAIN ClassCaps : b.cap # ClassCaps[i]

MemInv == HintInv /\ MemoryType /\ \A s \in Streams : StreamOK(s)

\* A step of one stream leaves the others alone.
LEMMA OneStream ==
  ASSUME MemInv, NEW s \in Streams, MemoryType', StreamOK(s)',
         \A t \in Streams \ {s} : /\ mem'[t] = mem[t] /\ used'[t] = used[t]
                                  /\ writer'[t] = writer[t] /\ pc'[t] = pc[t]
  PROVE  MemoryType' /\ \A t \in Streams : StreamOK(t)'
<1>1. ASSUME NEW t \in Streams PROVE StreamOK(t)'
  <2>1. CASE t = s
    BY <2>1
  <2>2. CASE t # s
    BY <2>2 DEF MemInv, StreamOK
  <2> QED
    BY <2>1, <2>2
<1> QED
  BY <1>1

\* Every step is one of the loops, or none.
LEMMA StepOfHint ==
  ASSUME MemInv, [Next]_vars
  PROVE  [HintNext]_<<hint, observing>>
<1>1. CASE UNCHANGED vars
  BY <1>1 DEF vars
<1>2. ASSUME NEW s \in Streams, EndCandidate(s) PROVE [HintNext]_<<hint, observing>>
  <2>1. CASE StartObserve(s, size[s])
    <3>1. size[s] \in Nat /\ s \in Observers
      BY DEF MemInv, MemoryType, Streams
    <3> QED
      BY <2>1, <3>1 DEF HintNext
  <2>2. CASE UNCHANGED <<hint, observing>>
    BY <2>2
  <2> QED
    BY <1>2, <2>1, <2>2 DEF EndCandidate
<1>3. ASSUME NEW s \in Streams, MoveHint(s) PROVE [HintNext]_<<hint, observing>>
  BY <1>3 DEF MoveHint, HintNext, Streams
<1>4. ASSUME NEW s \in Streams, Begin(s) \/ Prepare(s) \/ BeginPayload(s) \/ EndPayload(s) \/ Fail(s) \/ Return(s)
      PROVE  UNCHANGED <<hint, observing>>
  BY <1>4 DEF Begin, Prepare, BeginPayload, EndPayload, Fail, Return
<1>5. ASSUME NEW s \in Streams, NEW n, WriteMem(s, n) \/ WriteGrowing(s, n) \/ WriteFile(s, n) \/ WritePayload(s, n)
      PROVE  UNCHANGED <<hint, observing>>
  BY <1>5 DEF WriteMem, WriteGrowing, WriteFile, Capture, WritePayload
<1> QED
  BY <1>1, <1>2, <1>3, <1>4, <1>5 DEF Next

LEMMA LoadIsNat == ASSUME HintInv PROVE Load \in Nat
<1>1. hint \in Sizes
  BY DEF HintInv
<1>2. Clamp(hint) = hint
  BY <1>1, ClampOfSize
<1>3. hint \in Nat
  BY <1>1, SizesAreNumbers
<1> QED
  BY <1>2, <1>3 DEF Load

LEMMA BeginStep ==
  ASSUME MemInv, NEW s \in Streams, Begin(s)
  PROVE  MemoryType' /\ \A t \in Streams : StreamOK(t)'
<1>1. MemoryType'
  BY LoadIsNat DEF MemInv, MemoryType, Begin, spool, maker, Points
<1>2. StreamOK(s)'
  BY DEF MemInv, MemoryType, StreamOK, Begin, spool, maker
<1> QED
  BY <1>1, <1>2, OneStream DEF Begin, spool, maker, MemInv, MemoryType

\* The first buffer of a spool.
LEMMA SpoolMem ==
  ASSUME MemInv, NEW s \in Streams, AcquireSpoolMem(s)
  PROVE  /\ \E b \in Buf : mem' = [mem EXCEPT ![s] = {b}]
         /\ DOMAIN pool' \subseteq Buf
<1> DEFINE released == pool (+) Released(SetToBag(mem[s]))
           asked == Min2(candidateHint[s], MemoryBytes)
<1>1. PICK b \in Acquired(released, asked, InUse) :
        mem' = [mem EXCEPT ![s] = {b}] /\ pool' = Taken(released, b)
  BY DEF AcquireSpoolMem
<1>2. DOMAIN released \subseteq Buf
  <2>1. mem[s] \subseteq Buf /\ DOMAIN pool \subseteq Buf
    BY DEF MemInv, MemoryType
  <2> QED
    BY <2>1, PoolDomains
<1>3. asked \in Nat
  BY MemoryAssumption DEF Min2, MemInv, MemoryType
<1> HIDE DEF released, asked
<1>4. b \in Buf
  BY <1>1, <1>2, <1>3, AcquiredFacts
<1>5. DOMAIN pool' \subseteq Buf
  BY <1>1, <1>2, PoolDomains
<1> QED
  BY <1>1, <1>4, <1>5

LEMMA PrepareStep ==
  ASSUME MemInv, NEW s \in Streams, Prepare(s)
  PROVE  MemoryType' /\ \A t \in Streams : StreamOK(t)'
<1> USE DEF MemInv
<1>1. /\ DOMAIN pool' \subseteq Buf
      /\ \/ mem' = mem /\ mem[s] # {}
         \/ \E b \in Buf : mem' = [mem EXCEPT ![s] = {b}]
  <2>1. CASE AcquireSpoolMem(s)
    BY <2>1, SpoolMem
  <2>2. CASE UNCHANGED <<mem, pool>> /\ mem[s] # {}
    BY <2>2 DEF MemoryType
  <2> QED
    BY <2>1, <2>2 DEF Prepare
<1>2. /\ UNCHANGED <<candidateHint, maker>> /\ pc' = [pc EXCEPT ![s] = "capture"]
      /\ used' = [used EXCEPT ![s] = 0] /\ size' = [size EXCEPT ![s] = 0]
      /\ spilled' = [spilled EXCEPT ![s] = FALSE]
  BY DEF Prepare
<1>3. mem' \in [Streams -> SUBSET Buf] /\ (\A t \in Streams \ {s} : mem'[t] = mem[t]) /\ (\A a, b \in mem'[s] : a = b)
  <2>1. CASE mem' = mem
    BY <2>1 DEF MemoryType, StreamOK
  <2>2. ASSUME NEW b \in Buf, mem' = [mem EXCEPT ![s] = {b}]
        PROVE  mem' \in [Streams -> SUBSET Buf] /\ (\A t \in Streams \ {s} : mem'[t] = mem[t]) /\ mem'[s] = {b}
    BY <2>2 DEF MemoryType
  <2> QED
    BY <1>1, <2>1, <2>2
<1>4. MemoryType'
  BY <1>1, <1>2, <1>3 DEF MemoryType, maker, Points
<1>5. Cap(mem'[s]) \in Nat
  BY <1>3, CapIsNat
<1>6. StreamOK(s)'
  BY <1>2, <1>3, <1>5 DEF MemoryType, StreamOK, maker
<1> QED
  BY <1>2, <1>3, <1>4, <1>6, OneStream DEF MemoryType, maker

\* What a write leaves alone.
LEMMA CaptureLeaves ==
  ASSUME NEW s \in Streams, NEW n, Capture(s, n)
  PROVE  pc[s] = "capture" /\ nesting[s] = 0 /\ UNCHANGED <<candidateHint, writer, made, nesting, payloads, valueHint, overlapped>>
BY DEF Capture, maker

LEMMA WriteMemStep ==
  ASSUME MemInv, NEW s \in Streams, NEW n \in WriteSizes, WriteMem(s, n)
  PROVE  MemoryType' /\ \A t \in Streams : StreamOK(t)'
<1> USE DEF MemInv
<1>1. n \in Nat
  BY SizesAssumption
<1>2. /\ size' = [size EXCEPT ![s] = @ + n] /\ used' = [used EXCEPT ![s] = @ + n]
      /\ UNCHANGED <<pc, spilled, mem, pool, candidateHint, writer, made, nesting, payloads, valueHint>>
      /\ used[s] + n <= Cap(mem[s])
  BY CaptureLeaves DEF WriteMem, Written
<1>3. MemoryType'
  BY <1>1, <1>2 DEF MemoryType
<1>4. StreamOK(s)'
  BY <1>1, <1>2 DEF MemoryType, StreamOK
<1> QED
  BY <1>2, <1>3, <1>4, OneStream DEF MemoryType

LEMMA WriteGrowingStep ==
  ASSUME MemInv, NEW s \in Streams, NEW n \in WriteSizes, WriteGrowing(s, n)
  PROVE  MemoryType' /\ \A t \in Streams : StreamOK(t)'
<1> USE DEF MemInv
<1>1. n \in Nat /\ MemoryBytes \in Nat /\ mem[s] \subseteq Buf /\ DOMAIN pool \subseteq Buf
      /\ used[s] \in Nat /\ (\A a, c \in mem[s] : a = c) /\ used[s] <= Cap(mem[s])
  BY SizesAssumption, MemoryAssumption DEF MemoryType, StreamOK
<1>2. UNCHANGED <<candidateHint, writer, made, nesting, payloads, valueHint>> /\ pc[s] = "capture"
  BY CaptureLeaves DEF WriteGrowing
<1>3. used[s] + n <= MemoryBytes /\ used[s] + n > Cap(mem[s])
  BY DEF WriteGrowing, Fits
<1>4. PICK b \in Acquired(pool, MemoryBytes, InUse) :
       \/ /\ b.cap < used[s]
          /\ pc' = [pc EXCEPT ![s] = "panicked"] /\ pool' = Taken(pool, b)
          /\ UNCHANGED spool
       \/ /\ b.cap >= used[s]
          /\ \E grown \in IF b.cap >= used[s] + n THEN {b}
                          ELSE Make(GrownCap(b.cap, used[s] + n), InUse \cup {b.id}) :
               mem' = [mem EXCEPT ![s] = {grown}]
          /\ pool' = Taken(pool, b) (+) Released(SetToBag(mem[s]))
          /\ Written(s, n)
  BY DEF WriteGrowing
<1>5. b \in Buf /\ b.cap \in Nat
  BY <1>1, AcquiredFacts DEF Buf
<1>6. CASE /\ b.cap < used[s]
           /\ pc' = [pc EXCEPT ![s] = "panicked"] /\ pool' = Taken(pool, b)
           /\ UNCHANGED spool
  <2>1. DOMAIN pool' \subseteq Buf
    BY <1>1, <1>6, PoolDomains
  <2>2. UNCHANGED <<mem, used, spilled, size>>
    BY <1>6 DEF spool
  <2>3. MemoryType'
    BY <1>2, <1>6, <2>1, <2>2 DEF MemoryType, Points
  <2>4. ASSUME NEW old \in mem[s], NEW k \in DOMAIN ClassCaps, old.cap = ClassCaps[k] PROVE FALSE
    <3>1. Cap(mem[s]) = old.cap
      BY <1>1, <2>4, CapOfOne
    <3>2. old.cap \in Nat /\ old.cap < MemoryBytes
      BY <1>1, <1>3, <3>1 DEF Buf
    <3>3. b.cap >= ClassCaps[k]
      BY <1>1, <2>4, <3>2, AcquiredAboveClass
    <3> QED
      BY <1>1, <1>5, <1>6, <2>4, <3>1, <3>2, <3>3
  <2>5. StreamOK(s)'
    BY <1>2, <1>6, <2>2, <2>4 DEF MemoryType, StreamOK
  <2> QED
    BY <1>2, <1>6, <2>2, <2>3, <2>5, OneStream DEF MemoryType
<1>7. CASE /\ b.cap >= used[s]
           /\ \E grown \in IF b.cap >= used[s] + n THEN {b}
                           ELSE Make(GrownCap(b.cap, used[s] + n), InUse \cup {b.id}) :
                mem' = [mem EXCEPT ![s] = {grown}]
           /\ pool' = Taken(pool, b) (+) Released(SetToBag(mem[s]))
           /\ Written(s, n)
  <2>1. PICK grown : /\ grown \in IF b.cap >= used[s] + n THEN {b}
                                  ELSE Make(GrownCap(b.cap, used[s] + n), InUse \cup {b.id})
                     /\ mem' = [mem EXCEPT ![s] = {grown}]
    BY <1>7
  <2>2. grown \in Buf /\ grown.cap >= used[s] + n
    <3>1. CASE b.cap >= used[s] + n
      BY <1>5, <2>1, <3>1
    <3>2. CASE ~(b.cap >= used[s] + n)
      <4>1. GrownCap(b.cap, used[s] + n) \in Nat /\ GrownCap(b.cap, used[s] + n) >= used[s] + n
        <5> DEFINE need == used[s] + n
        <5>1. need \in Nat
          BY <1>1
        <5> HIDE DEF need
        <5>2. GrownCap(b.cap, need) \in Nat /\ GrownCap(b.cap, need) >= need
          BY <1>5, <5>1, GrownEnough
        <5> QED
          BY <5>2 DEF need
      <4>2. grown \in Make(GrownCap(b.cap, used[s] + n), InUse \cup {b.id})
        BY <2>1, <3>2
      <4> QED
        BY <4>1, <4>2, MakeFacts
    <3> QED
      BY <3>1, <3>2
  <2>3. DOMAIN pool' \subseteq Buf
    <3>1. DOMAIN Taken(pool, b) \subseteq Buf
      BY <1>1, PoolDomains
    <3> QED
      BY <1>1, <1>7, <3>1, PoolDomains
  <2>4. /\ size' = [size EXCEPT ![s] = @ + n] /\ used' = [used EXCEPT ![s] = @ + n]
        /\ UNCHANGED <<pc, spilled>>
    BY <1>7 DEF Written
  <2>5. MemoryType'
    <3>1. size' \in [Streams -> Nat] /\ used' \in [Streams -> Nat] /\ mem' \in [Streams -> SUBSET Buf]
      BY <1>1, <2>1, <2>2, <2>4 DEF MemoryType
    <3> QED
      BY <1>2, <2>3, <2>4, <3>1 DEF MemoryType
  <2>6. mem'[s] = {grown} /\ used'[s] = used[s] + n /\ pc'[s] = "capture" /\ writer'[s] = writer[s]
    BY <1>2, <2>1, <2>4 DEF MemoryType
  <2>7. Cap(mem'[s]) = grown.cap
    BY <2>6, CapOfOne
  <2>8. StreamOK(s)'
    BY <2>2, <2>6, <2>7 DEF StreamOK
  <2> QED
    BY <1>2, <2>1, <2>4, <2>5, <2>8, OneStream DEF MemoryType
<1> QED
  BY <1>4, <1>6, <1>7

LEMMA WriteFileStep ==
  ASSUME MemInv, NEW s \in Streams, NEW n \in WriteSizes, WriteFile(s, n)
  PROVE  MemoryType' /\ \A t \in Streams : StreamOK(t)'
<1> USE DEF MemInv
<1>1. n \in Nat /\ mem[s] \subseteq Buf /\ DOMAIN pool \subseteq Buf /\ (\A a, c \in mem[s] : a = c)
  BY SizesAssumption DEF MemoryType, StreamOK
<1>2. /\ UNCHANGED <<pc, candidateHint, writer, made, nesting, payloads, valueHint>> /\ pc[s] = "capture"
      /\ used' = [used EXCEPT ![s] = 0] /\ spilled' = [spilled EXCEPT ![s] = TRUE]
      /\ size' = [size EXCEPT ![s] = @ + n]
  BY CaptureLeaves DEF WriteFile
<1>3. mem' = mem \/ mem' = [mem EXCEPT ![s] = {}]
  BY DEF WriteFile
<1>4. DOMAIN pool' \subseteq Buf
  <2>1. pool' = pool \/ pool' = pool (+) Released(SetToBag(mem[s]))
    BY DEF WriteFile
  <2> QED
    BY <1>1, <2>1, PoolDomains
<1>5. mem' \in [Streams -> SUBSET Buf] /\ (\A t \in Streams \ {s} : mem'[t] = mem[t]) /\ (\A a, b \in mem'[s] : a = b)
  <2>1. mem'[s] = {} \/ mem'[s] = mem[s]
    BY <1>3 DEF MemoryType
  <2> QED
    BY <1>1, <1>3, <2>1 DEF MemoryType
<1>6. MemoryType'
  <2>1. size' \in [Streams -> Nat] /\ used' \in [Streams -> Nat] /\ spilled' \in [Streams -> BOOLEAN]
    BY <1>1, <1>2 DEF MemoryType
  <2> QED
    BY <1>2, <1>4, <1>5, <2>1 DEF MemoryType
<1>7. Cap(mem'[s]) \in Nat
  BY <1>5, CapIsNat
<1>8. StreamOK(s)'
  BY <1>2, <1>5, <1>7 DEF MemoryType, StreamOK
<1> QED
  BY <1>2, <1>5, <1>6, <1>8, OneStream DEF MemoryType

LEMMA BeginPayloadStep ==
  ASSUME MemInv, NEW s \in Streams, BeginPayload(s)
  PROVE  MemoryType' /\ \A t \in Streams : StreamOK(t)'
<1> USE DEF MemInv
<1>1. PICK b \in Acquired(pool, valueHint[s], InUse) : writer' = [writer EXCEPT ![s] = {b}] /\ pool' = Taken(pool, b)
  BY DEF BeginPayload
<1>2. valueHint[s] \in Nat /\ DOMAIN pool \subseteq Buf
  BY DEF MemoryType
<1>3. b \in Buf /\ DOMAIN pool' \subseteq Buf
  BY <1>1, <1>2, AcquiredFacts, PoolDomains
<1>4. /\ made' = [made EXCEPT ![s] = 0] /\ nesting' = [nesting EXCEPT ![s] = @ + 1]
      /\ UNCHANGED <<pc, candidateHint, mem, used, spilled, size, payloads, valueHint>>
  BY DEF BeginPayload, spool
<1>5. MemoryType'
  BY <1>1, <1>3, <1>4 DEF MemoryType
<1>6. StreamOK(s)'
  BY <1>1, <1>4 DEF MemoryType, StreamOK
<1> QED
  BY <1>1, <1>4, <1>5, <1>6, OneStream DEF MemoryType

LEMMA WritePayloadStep ==
  ASSUME MemInv, NEW s \in Streams, NEW n \in PayloadSizes, WritePayload(s, n)
  PROVE  MemoryType' /\ \A t \in Streams : StreamOK(t)'
<1> USE DEF MemInv
<1>1. n \in Nat /\ writer[s] \subseteq Buf /\ (\A a, c \in writer[s] : a = c) /\ made[s] \in Nat
  BY SizesAssumption DEF MemoryType, StreamOK
<1>2. /\ made' = [made EXCEPT ![s] = @ + n]
      /\ UNCHANGED <<pool, pc, candidateHint, mem, used, spilled, size, payloads, valueHint, nesting>>
  BY DEF WritePayload, spool
<1>3. \/ writer' = writer
      \/ \E b \in Buf : writer' = [writer EXCEPT ![s] = {b}]
  <2>1. Cap(writer[s]) \in Nat
    BY <1>1, CapIsNat
  <2>2. GrownCap(Cap(writer[s]), made[s] + n) \in Nat
    <3> DEFINE need == made[s] + n
    <3>1. need \in Nat
      BY <1>1
    <3> HIDE DEF need
    <3>2. GrownCap(Cap(writer[s]), need) \in Nat
      BY <2>1, <3>1, GrownEnough
    <3> QED
      BY <3>2 DEF need
  <2> QED
    BY <2>2, MakeFacts DEF WritePayload
<1>4. /\ writer' \in [Streams -> SUBSET Buf] /\ (\A t \in Streams \ {s} : writer'[t] = writer[t])
      /\ \A a, b \in writer'[s] : a = b
  <2>1. ASSUME NEW b \in Buf, writer' = [writer EXCEPT ![s] = {b}]
        PROVE  /\ writer' \in [Streams -> SUBSET Buf] /\ (\A t \in Streams \ {s} : writer'[t] = writer[t])
               /\ writer'[s] = {b}
    BY <2>1 DEF MemoryType
  <2>2. CASE writer' = writer
    BY <1>1, <2>2 DEF MemoryType
  <2> QED
    BY <1>3, <2>1, <2>2
<1>5. MemoryType'
  <2>1. made' \in [Streams -> Nat]
    BY <1>1, <1>2 DEF MemoryType
  <2> QED
    BY <1>2, <1>4, <2>1 DEF MemoryType
<1>6. StreamOK(s)'
  BY <1>2, <1>4 DEF MemoryType, StreamOK
<1> QED
  BY <1>2, <1>4, <1>5, <1>6, OneStream DEF MemoryType

\* The writer keeps its buffer, or has none.
LEMMA LeaveFacts ==
  ASSUME MemInv, NEW s \in Streams, Leave(s), nesting[s] > 0
  PROVE  /\ nesting' \in [Streams -> Nat] /\ made' \in [Streams -> Nat] /\ writer' \in [Streams -> SUBSET Buf]
         /\ \A t \in Streams \ {s} : writer'[t] = writer[t] /\ nesting'[t] = nesting[t]
         /\ nesting'[s] = nesting[s] - 1
         /\ writer'[s] = IF nesting[s] = 1 THEN {} ELSE writer[s]
BY DEF MemInv, MemoryType, Leave

LEMMA EndPayloadStep ==
  ASSUME MemInv, NEW s \in Streams, EndPayload(s)
  PROVE  MemoryType' /\ \A t \in Streams : StreamOK(t)'
<1> USE DEF MemInv
<1>1. nesting[s] > 0 /\ Leave(s) /\ UNCHANGED <<pc, candidateHint, mem, used, spilled, size>>
  BY DEF EndPayload, spool
<1>2. /\ nesting' \in [Streams -> Nat] /\ made' \in [Streams -> Nat] /\ writer' \in [Streams -> SUBSET Buf]
      /\ \A t \in Streams \ {s} : writer'[t] = writer[t]
      /\ writer'[s] = {} \/ writer'[s] = writer[s]
  BY <1>1, LeaveFacts
<1>3. DOMAIN pool \subseteq Buf /\ writer[s] \subseteq Buf /\ payloads[s] \in Seq(Buf) /\ made[s] \in Nat
  BY DEF MemoryType
<1>4. /\ DOMAIN pool' \subseteq Buf /\ payloads' \in [Streams -> Seq(Buf)] /\ valueHint' \in [Streams -> Nat]
  <2>1. CASE made[s] = 0
    <3>1. pool' = pool (+) Released(SetToBag(writer[s])) /\ UNCHANGED <<payloads, valueHint>>
      BY <2>1 DEF EndPayload
    <3>2. DOMAIN pool' \subseteq Buf
      BY <1>3, <3>1, PoolDomains
    <3> QED
      BY <3>1, <3>2 DEF MemoryType
  <2>2. CASE made[s] # 0
    <3>1. PICK b \in writer[s] : payloads' = [payloads EXCEPT ![s] = Append(@, b)]
      BY <2>2 DEF EndPayload
    <3>2. valueHint' = [valueHint EXCEPT ![s] = made[s]] /\ UNCHANGED pool
      BY <2>2 DEF EndPayload
    <3>3. Append(payloads[s], b) \in Seq(Buf)
      BY <1>3, <3>1
    <3> QED
      BY <1>3, <3>1, <3>2, <3>3 DEF MemoryType
  <2> QED
    BY <2>1, <2>2
<1>5. MemoryType'
  BY <1>1, <1>2, <1>4 DEF MemoryType
<1>6. StreamOK(s)'
  BY <1>1, <1>2 DEF MemoryType, StreamOK
<1> QED
  BY <1>1, <1>2, <1>5, <1>6, OneStream DEF MemoryType

LEMMA FailStep ==
  ASSUME MemInv, NEW s \in Streams, Fail(s)
  PROVE  MemoryType' /\ \A t \in Streams : StreamOK(t)'
<1> USE DEF MemInv
<1>1. /\ pc' = [pc EXCEPT ![s] = "failed"] /\ writer' = [writer EXCEPT ![s] = {}] /\ made' = [made EXCEPT ![s] = 0]
      /\ nesting' = [nesting EXCEPT ![s] = 0]
      /\ UNCHANGED <<candidateHint, mem, used, spilled, size, payloads, valueHint>>
  BY DEF Fail, spool
<1>2. DOMAIN pool' \subseteq Buf
  <2>1. pool' = pool (+) Released([b \in writer[s] |-> nesting[s]])
    BY DEF Fail
  <2>2. DOMAIN [b \in writer[s] |-> nesting[s]] = writer[s]
    OBVIOUS
  <2>3. DOMAIN pool \subseteq Buf /\ writer[s] \subseteq Buf
    BY DEF MemoryType
  <2> QED
    BY <2>1, <2>2, <2>3, PoolDomains
<1>3. MemoryType'
  BY <1>1, <1>2 DEF MemoryType, Points
<1>4. StreamOK(s)'
  BY <1>1 DEF MemoryType, StreamOK
<1> QED
  BY <1>1, <1>3, <1>4, OneStream DEF MemoryType

\* The payloads of a candidate are buffers.
LEMMA ReleaseFacts ==
  ASSUME MemInv, NEW s \in Streams, ReleasePayloads(s)
  PROVE  DOMAIN pool' \subseteq Buf /\ payloads' \in [Streams -> Seq(Buf)]
<1> DEFINE all == {payloads[s][i] : i \in DOMAIN payloads[s]}
           bag == [b \in all |-> Cardinality({i \in DOMAIN payloads[s] : payloads[s][i] = b})]
<1>1. pool' = pool (+) Released(bag) /\ payloads' = [payloads EXCEPT ![s] = <<>>]
  BY DEF ReleasePayloads
<1>2. DOMAIN pool \subseteq Buf /\ payloads[s] \in Seq(Buf) /\ payloads \in [Streams -> Seq(Buf)]
  BY DEF MemInv, MemoryType
<1>3. DOMAIN bag = all /\ all \subseteq Buf
  BY <1>2
<1> HIDE DEF all, bag
<1>4. DOMAIN pool' \subseteq Buf
  BY <1>1, <1>2, <1>3, PoolDomains
<1> QED
  BY <1>1, <1>2, <1>4

LEMMA EndCandidateStep ==
  ASSUME MemInv, NEW s \in Streams, EndCandidate(s)
  PROVE  MemoryType' /\ \A t \in Streams : StreamOK(t)'
<1> USE DEF MemInv
<1>1. UNCHANGED <<mem, used, spilled, size, writer, made, nesting, valueHint>>
  BY DEF EndCandidate, spool
<1>2. /\ DOMAIN pool' \subseteq Buf /\ payloads' \in [Streams -> Seq(Buf)]
      /\ candidateHint' = [candidateHint EXCEPT ![s] = size[s]] \/ candidateHint' = candidateHint
      /\ pc' = [pc EXCEPT ![s] = "observe"] \/ pc' = [pc EXCEPT ![s] = "ready"]
  <2>1. CASE ReleasePayloads(s) /\ candidateHint' = candidateHint /\ pc' = [pc EXCEPT ![s] = "ready"]
    BY <2>1, ReleaseFacts
  <2>2. CASE /\ UNCHANGED <<pool, payloads>> /\ candidateHint' = [candidateHint EXCEPT ![s] = size[s]]
             /\ pc' = [pc EXCEPT ![s] = "observe"]
    BY <2>2 DEF MemoryType
  <2> QED
    BY <2>1, <2>2 DEF EndCandidate
<1>3. pc' \in [Streams -> Points] /\ candidateHint' \in [Streams -> Nat] /\ pc'[s] # "panicked"
      /\ \A t \in Streams \ {s} : pc'[t] = pc[t]
  BY <1>2 DEF MemoryType, Points
<1>4. MemoryType'
  BY <1>1, <1>2, <1>3 DEF MemoryType
<1>5. StreamOK(s)'
  BY <1>1, <1>3 DEF MemoryType, StreamOK
<1> QED
  BY <1>1, <1>3, <1>4, <1>5, OneStream

LEMMA MoveHintStep ==
  ASSUME MemInv, NEW s \in Streams, MoveHint(s)
  PROVE  MemoryType' /\ \A t \in Streams : StreamOK(t)'
<1> USE DEF MemInv
<1>1. UNCHANGED <<candidateHint, mem, used, spilled, size, writer, made, nesting, valueHint>> /\ pc[s] = "observe"
  BY DEF MoveHint, spool
<1>2. /\ DOMAIN pool' \subseteq Buf /\ payloads' \in [Streams -> Seq(Buf)]
      /\ pc' = pc \/ pc' = [pc EXCEPT ![s] = "ready"]
  <2>1. CASE ReleasePayloads(s) /\ pc' = [pc EXCEPT ![s] = "ready"]
    BY <2>1, ReleaseFacts
  <2>2. CASE UNCHANGED <<pool, payloads, pc>>
    BY <2>2 DEF MemoryType
  <2> QED
    BY <2>1, <2>2 DEF MoveHint
<1>3. pc' \in [Streams -> Points] /\ pc'[s] # "panicked" /\ \A t \in Streams \ {s} : pc'[t] = pc[t]
  BY <1>1, <1>2 DEF MemoryType, Points
<1>4. MemoryType'
  BY <1>1, <1>2, <1>3 DEF MemoryType
<1>5. StreamOK(s)'
  BY <1>1, <1>3 DEF MemoryType, StreamOK
<1> QED
  BY <1>1, <1>3, <1>4, <1>5, OneStream

LEMMA ReturnStep ==
  ASSUME MemInv, NEW s \in Streams, Return(s)
  PROVE  MemoryType' /\ \A t \in Streams : StreamOK(t)'
<1> USE DEF MemInv
<1>1. /\ pc' = [pc EXCEPT ![s] = "idle"] /\ mem' = [mem EXCEPT ![s] = {}] /\ used' = [used EXCEPT ![s] = 0]
      /\ size' = [size EXCEPT ![s] = 0] /\ spilled' = [spilled EXCEPT ![s] = FALSE]
      /\ candidateHint' = [candidateHint EXCEPT ![s] = 0]
      /\ valueHint' = [valueHint EXCEPT ![s] = InitialHint]
      /\ UNCHANGED <<writer, made, nesting>>
  BY DEF Return
<1>2. DOMAIN pool' \subseteq Buf /\ payloads' \in [Streams -> Seq(Buf)]
  BY ReleaseFacts DEF Return
<1>3. MemoryType'
  BY <1>1, <1>2, MemoryAssumption DEF MemoryType, Points
<1>4. StreamOK(s)'
  BY <1>1, CapOfOne DEF MemoryType, StreamOK
<1> QED
  BY <1>1, <1>3, <1>4, OneStream DEF MemoryType

LEMMA MemoryInvariant == MemorySpec => []MemInv
<1>1. Init => MemInv
  <2> SUFFICES ASSUME Init PROVE MemInv
    OBVIOUS
  <2>1. HintInv
    BY HintStarts, MemoryAssumption DEF Init
  <2>2. MemoryType
    BY MemoryAssumption DEF Init, MemoryType, Points, EmptyBag, SetToBag
  <2>3. \A s \in Streams : StreamOK(s)
    BY CapOfOne DEF Init, StreamOK
  <2> QED
    BY <2>1, <2>2, <2>3 DEF MemInv
<1>2. MemInv /\ [Next]_vars => MemInv'
  <2> SUFFICES ASSUME MemInv, [Next]_vars PROVE MemInv'
    OBVIOUS
  <2>1. HintInv'
    BY StepOfHint, HintStep DEF MemInv
  <2>2. CASE UNCHANGED vars
    BY <2>1, <2>2 DEF vars, spool, maker, MemInv, MemoryType, StreamOK
  <2>3. CASE Next
    <3>1. PICK s \in Streams :
            \/ Begin(s) \/ Prepare(s)
            \/ \E n \in WriteSizes : WriteMem(s, n) \/ WriteGrowing(s, n) \/ WriteFile(s, n)
            \/ BeginPayload(s) \/ \E n \in PayloadSizes : WritePayload(s, n)
            \/ EndPayload(s) \/ Fail(s) \/ EndCandidate(s) \/ MoveHint(s) \/ Return(s)
      BY <2>3 DEF Next
    <3>2. MemoryType' /\ \A t \in Streams : StreamOK(t)'
      BY <3>1, BeginStep, PrepareStep, WriteMemStep, WriteGrowingStep, WriteFileStep, BeginPayloadStep,
         WritePayloadStep, EndPayloadStep, FailStep, EndCandidateStep, MoveHintStep, ReturnStep
    <3> QED
      BY <2>1, <3>2 DEF MemInv
  <2> QED
    BY <2>2, <2>3
<1> QED
  BY <1>1, <1>2, PTL DEF MemorySpec

\* A panic takes a buffer whose capacity is not that of a class.
THEOREM PanicIsOdd == MemorySpec => []PanicNeedsOddBuffer
<1>1. MemInv => PanicNeedsOddBuffer
  BY DEF MemInv, StreamOK, PanicNeedsOddBuffer
<1> QED
  BY <1>1, MemoryInvariant, PTL

\* Streams move the hint as if each observation were one step.
THEOREM StreamsUseAtomicHint == MemorySpec => HintIsAtomic
<1>1. Init => HintInit
  BY MemoryAssumption DEF Init, HintInit
<1>2. MemInv /\ [Next]_vars => [HintNext]_<<hint, observing>>
  BY StepOfHint
<1>3. MemorySpec => HintSpec
  BY <1>1, <1>2, MemoryInvariant, PTL DEF MemorySpec, HintSpec
<1> QED
  BY <1>3, HintImplementsAtomic

--------------------------------------------------------------------------------
(* Who has a buffer.                                                          *)

\* The arrays whose identities are in twice are left out.
Once(bag, twice) == \A b \in DOMAIN bag : b.id \notin twice => bag[b] = 1

\* No array of P or of H is in a second place.
Exclusive(P, H, twice) ==
  /\ \A b, c \in P : b.id = c.id /\ b.id \notin twice => b = c
  /\ \A h \in H : h[4].id \notin twice => \A b \in P : h[4].id # b.id
  /\ \A h, g \in H : h[4].id = g[4].id /\ h[4].id \notin twice => h = g

LEMMA GiveOnce ==
  ASSUME NEW from, NEW bufs, NEW twice, Once(from, twice), Once(bufs, twice),
         \A b \in DOMAIN bufs : b.id \notin twice => b \notin DOMAIN from
  PROVE  Once(from (+) Released(bufs), twice)
<1>1. \A b \in DOMAIN Released(bufs) : b \in DOMAIN bufs /\ Released(bufs)[b] = bufs[b]
  BY DEF Released
<1> QED
  BY <1>1 DEF (+), Once

LEMMA TakeOnce ==
  ASSUME NEW from, NEW b, NEW twice, Once(from, twice)
  PROVE  /\ Once(Taken(from, b), twice) /\ DOMAIN Taken(from, b) \subseteq DOMAIN from
         /\ b.id \notin twice => b \notin DOMAIN Taken(from, b)
<1> DEFINE left == [e \in DOMAIN from |-> IF e \in {b} THEN from[e] - 1 ELSE from[e]]
<1>1. Taken(from, b) = [e \in {d \in DOMAIN left : left[d] > 0} |-> left[e]]
  BY DEF Taken, (-), SetToBag
<1>2. \A e \in DOMAIN from : e = b /\ b.id \notin twice => ~(left[e] > 0)
  BY DEF Once
<1>3. \A e \in DOMAIN from : e # b /\ e.id \notin twice => left[e] = 1
  BY DEF Once
<1> HIDE DEF left
<1>4. DOMAIN left = DOMAIN from
  BY DEF left
<1> QED
  BY <1>1, <1>2, <1>3, <1>4 DEF Once

LEMMA SetOnce == ASSUME NEW S, NEW twice PROVE Once(SetToBag(S), twice) /\ DOMAIN SetToBag(S) = S
BY DEF Once, SetToBag

\* Buffers are given back, or dropped.
LEMMA Give ==
  ASSUME NEW P, NEW H, NEW twice, Exclusive(P, H, twice), NEW G, G \subseteq H,
         NEW Q, \A b \in Q : b \in P \/ \E g \in G : b = g[4],
         NEW I, I \subseteq H \ G
  PROVE  Exclusive(Q, I, twice)
BY DEF Exclusive

\* One that is in the pool, or new, gets a place.
LEMMA Hand ==
  ASSUME NEW P, NEW H, NEW twice, Exclusive(P, H, twice), NEW place,
         place[4] \in P \/ /\ \A x \in P : x.id # place[4].id
                           /\ \A h \in H : h[4].id # place[4].id,
         NEW Q, Q \subseteq P, place[4].id \notin twice => place[4] \notin Q,
         NEW I, I \subseteq H \cup {place}
  PROVE  Exclusive(Q, I, twice)
<1>1. \A x \in Q : x \in P /\ (place[4].id \notin twice => x.id # place[4].id)
  BY DEF Exclusive
<1>2. place[4].id \notin twice => \A h \in H : h[4].id # place[4].id
  BY DEF Exclusive
<1> QED
  BY <1>1, <1>2 DEF Exclusive

\* No two places have an array that was not the writer's at the end of a payload
\* inside another one.
Separate == Once(pool, overlapped) /\ Exclusive(DOMAIN pool, Held, overlapped)

\* The writer has a buffer only while a payload is made.
WriterInv == \A s \in Streams : nesting[s] = 0 => writer[s] = {}

ExclusiveInv == Separate /\ WriterInv

\* A stream changes what it holds itself.
LEMMA HeldChange ==
  ASSUME NEW s \in Streams, NEW X, Holds(s)' \subseteq X,
         \A t \in Streams \ {s} : mem'[t] = mem[t] /\ writer'[t] = writer[t] /\ payloads'[t] = payloads[t]
  PROVE  Held' \subseteq (Held \ Holds(s)) \cup X
<1>1. ASSUME NEW t \in Streams, t # s, NEW h, h \in Holds(t)' PROVE h \in Held \ Holds(s)
  <2>1. h \in Holds(t)
    BY <1>1 DEF Holds, InMem, InWriter, InPayloads
  <2>2. h[1] = t /\ \A g \in Holds(s) : g[1] = s
    BY <2>1 DEF Holds, InMem, InWriter, InPayloads
  <2> QED
    BY <1>1, <2>1, <2>2 DEF Held
<1> QED
  BY <1>1 DEF Held

\* What is held is in use.
LEMMA HeldInUse == \A h \in Held : h[4].id \in InUse
<1>1. ASSUME NEW s \in Streams, NEW h \in Holds(s) PROVE h[4] \in Bufs(s)
  BY <1>1 DEF Holds, InMem, InWriter, InPayloads, Bufs
<1> QED
  BY <1>1 DEF Held, InUse

LEMMA PlacesOf ==
  ASSUME NEW s \in Streams
  PROVE  /\ InMem(s) \subseteq Held /\ InWriter(s) \subseteq Held /\ InPayloads(s) \subseteq Held
         /\ \A b \in mem[s] : \E g \in InMem(s) : b = g[4]
         /\ \A b \in writer[s] : \E g \in InWriter(s) : b = g[4]
         /\ \A i \in DOMAIN payloads[s] : \E g \in InPayloads(s) : payloads[s][i] = g[4]
         /\ InMem(s) \cap InWriter(s) = {} /\ InMem(s) \cap InPayloads(s) = {} /\ InWriter(s) \cap InPayloads(s) = {}
<1>1. /\ \A b \in mem[s] : <<s, "mem", 0, b>> \in InMem(s)
      /\ \A b \in writer[s] : <<s, "writer", 0, b>> \in InWriter(s)
      /\ \A i \in DOMAIN payloads[s] : <<s, "payload", i, payloads[s][i]>> \in InPayloads(s)
  BY DEF InMem, InWriter, InPayloads
<1>2. /\ \A g \in InMem(s) : g[2] = "mem"
      /\ \A g \in InWriter(s) : g[2] = "writer"
      /\ \A g \in InPayloads(s) : g[2] = "payload"
  BY DEF InMem, InWriter, InPayloads
<1>3. Holds(s) \subseteq Held
  BY DEF Held
<1> QED
  BY <1>1, <1>2, <1>3 DEF Holds

\* What a stream holds is not in the pool.
LEMMA NotPooled ==
  ASSUME ExclusiveInv, NEW s \in Streams
  PROVE  /\ \A b \in mem[s] : b.id \in InUse /\ (b.id \notin overlapped => \A x \in DOMAIN pool : x.id # b.id)
         /\ \A b \in writer[s] : b.id \in InUse /\ (b.id \notin overlapped => \A x \in DOMAIN pool : x.id # b.id)
         /\ \A i \in DOMAIN payloads[s] :
              payloads[s][i].id \notin overlapped => \A x \in DOMAIN pool : x.id # payloads[s][i].id
BY PlacesOf, HeldInUse DEF ExclusiveInv, Separate, Exclusive

\* Steps that move no buffer.
LEMMA SameBuffers ==
  ASSUME ExclusiveInv, UNCHANGED <<pool, mem, writer, payloads, overlapped>>
  PROVE  Separate'
<1>1. Held' = Held
  BY DEF Held, Holds, InMem, InWriter, InPayloads
<1> QED
  BY <1>1 DEF ExclusiveInv, Separate

LEMMA StaySeparate ==
  ASSUME UNCHANGED overlapped, Once(pool', overlapped), Exclusive(DOMAIN pool', Held', overlapped)
  PROVE  Separate'
BY DEF Separate

LEMMA SpoolMemExclusive ==
  ASSUME MemInv, ExclusiveInv, NEW s \in Streams, AcquireSpoolMem(s), UNCHANGED <<writer, payloads, overlapped>>
  PROVE  Separate'
<1> DEFINE released == pool (+) Released(SetToBag(mem[s]))
           asked == Min2(candidateHint[s], MemoryBytes)
           left == Held \ InMem(s)
<1>1. PICK b \in Acquired(released, asked, InUse) :
        mem' = [mem EXCEPT ![s] = {b}] /\ pool' = Taken(released, b)
  BY DEF AcquireSpoolMem
<1>2. mem[s] \subseteq Buf /\ DOMAIN pool \subseteq Buf
  BY DEF MemInv, MemoryType
<1>3. DOMAIN released \subseteq DOMAIN pool \cup mem[s]
  BY PoolDomains
<1>4. asked \in Nat
  BY MemoryAssumption DEF Min2, MemInv, MemoryType
<1>5. Once(released, overlapped)
  BY SetOnce, GiveOnce, NotPooled DEF ExclusiveInv, Separate
<1>6. Exclusive(DOMAIN released, left, overlapped)
  <2>1. \A b_ \in DOMAIN released : b_ \in DOMAIN pool \/ \E g \in InMem(s) : b_ = g[4]
    BY <1>3, PlacesOf
  <2> HIDE DEF released
  <2> QED
    BY <2>1, PlacesOf, Give DEF ExclusiveInv, Separate
<1> HIDE DEF released, asked
<1>7. b \in DOMAIN released \/ /\ \A x \in DOMAIN released : x.id # b.id
                               /\ \A h \in left : h[4].id # b.id
  <2>1. b \in DOMAIN released \/ (b.id \notin InUse /\ \A x \in DOMAIN pool : b.id # x.id)
    BY <1>1, <1>2, <1>3, <1>4, AcquiredFacts
  <2> QED
    BY <1>3, <2>1, NotPooled, HeldInUse
<1> DEFINE place == <<s, "mem", 0, b>>
<1>8. Held' \subseteq left \cup {place}
  <2>1. Holds(s)' \subseteq {place} \cup (Holds(s) \ InMem(s))
    <3>1. InMem(s)' = {place} /\ InWriter(s)' = InWriter(s) /\ InPayloads(s)' = InPayloads(s)
      BY <1>1 DEF InMem, InWriter, InPayloads, MemInv, MemoryType
    <3> QED
      BY <3>1, PlacesOf DEF Holds
  <2>2. \A t \in Streams \ {s} : mem'[t] = mem[t] /\ writer'[t] = writer[t] /\ payloads'[t] = payloads[t]
    BY <1>1 DEF MemInv, MemoryType
  <2>3. Held' \subseteq (Held \ Holds(s)) \cup ({place} \cup (Holds(s) \ InMem(s)))
    BY <2>1, <2>2, HeldChange
  <2>4. Holds(s) \subseteq Held /\ InMem(s) \subseteq Holds(s)
    BY DEF Held, Holds
  <2> QED
    BY <2>3, <2>4
<1>9. /\ Once(pool', overlapped) /\ DOMAIN pool' \subseteq DOMAIN released
      /\ b.id \notin overlapped => b \notin DOMAIN pool'
  BY <1>1, <1>5, TakeOnce
<1>10. place[4] = b
  OBVIOUS
<1> HIDE DEF place, left
<1>11. Exclusive(DOMAIN pool', Held', overlapped)
  BY <1>6, <1>7, <1>8, <1>9, <1>10, Hand
<1> QED
  BY <1>9, <1>11, StaySeparate

LEMMA WriteGrowingExclusive ==
  ASSUME MemInv, ExclusiveInv, NEW s \in Streams, NEW n \in WriteSizes, WriteGrowing(s, n)
  PROVE  Separate'
<1>1. /\ n \in Nat /\ MemoryBytes \in Nat /\ used[s] \in Nat /\ mem[s] \subseteq Buf /\ DOMAIN pool \subseteq Buf
      /\ UNCHANGED <<writer, payloads, overlapped>>
  BY SizesAssumption, MemoryAssumption, CaptureLeaves DEF WriteGrowing, MemInv, MemoryType
<1>2. PICK b \in Acquired(pool, MemoryBytes, InUse) :
       \/ /\ b.cap < used[s]
          /\ pc' = [pc EXCEPT ![s] = "panicked"] /\ pool' = Taken(pool, b)
          /\ UNCHANGED spool
       \/ /\ b.cap >= used[s]
          /\ \E grown \in IF b.cap >= used[s] + n THEN {b}
                          ELSE Make(GrownCap(b.cap, used[s] + n), InUse \cup {b.id}) :
               mem' = [mem EXCEPT ![s] = {grown}]
          /\ pool' = Taken(pool, b) (+) Released(SetToBag(mem[s]))
          /\ Written(s, n)
  BY DEF WriteGrowing
<1>3. b \in Buf /\ (b \in DOMAIN pool \/ (b.id \notin InUse /\ \A x \in DOMAIN pool : b.id # x.id))
  BY <1>1, <1>2, AcquiredFacts
<1>4. /\ Once(Taken(pool, b), overlapped) /\ DOMAIN Taken(pool, b) \subseteq DOMAIN pool
      /\ b.id \notin overlapped => b \notin DOMAIN Taken(pool, b)
  BY TakeOnce DEF ExclusiveInv, Separate
<1>5. CASE pool' = Taken(pool, b) /\ UNCHANGED spool
  <2>1. Held' = Held
    BY <1>1, <1>5 DEF Held, Holds, InMem, InWriter, InPayloads, spool
  <2> QED
    BY <1>1, <1>4, <1>5, <2>1 DEF ExclusiveInv, Separate, Exclusive
<1>6. CASE /\ \E grown \in IF b.cap >= used[s] + n THEN {b}
                           ELSE Make(GrownCap(b.cap, used[s] + n), InUse \cup {b.id}) :
                mem' = [mem EXCEPT ![s] = {grown}]
           /\ pool' = Taken(pool, b) (+) Released(SetToBag(mem[s]))
  <2>1. PICK grown : /\ grown \in IF b.cap >= used[s] + n THEN {b}
                                  ELSE Make(GrownCap(b.cap, used[s] + n), InUse \cup {b.id})
                     /\ mem' = [mem EXCEPT ![s] = {grown}]
    BY <1>6
  <2>2. grown = b \/ (grown.id \notin InUse /\ \A x \in DOMAIN pool : grown.id # x.id)
    <3>1. CASE b.cap >= used[s] + n
      BY <2>1, <3>1
    <3>2. CASE ~(b.cap >= used[s] + n)
      <4> DEFINE need == used[s] + n
      <4>1. need \in Nat /\ b.cap \in Nat
        BY <1>1, <1>3 DEF Buf
      <4>2. grown \in Make(GrownCap(b.cap, need), InUse \cup {b.id})
        BY <2>1, <3>2
      <4> HIDE DEF need
      <4>3. GrownCap(b.cap, need) \in Nat
        BY <4>1, GrownEnough
      <4>4. grown.id \notin InUse \cup {b.id} /\ \A x \in DOMAIN pool : grown.id # x.id
        BY <4>2, <4>3, MakeFacts
      <4> QED
        BY <4>4
    <3> QED
      BY <3>1, <3>2
  <2> DEFINE left == Held \ InMem(s)
             place == <<s, "mem", 0, grown>>
             all == DOMAIN pool \cup mem[s]
  <2>3. Exclusive(all, left, overlapped)
    <3>1. \A x \in all : x \in DOMAIN pool \/ \E g \in InMem(s) : x = g[4]
      BY PlacesOf
    <3> HIDE DEF all
    <3> QED
      BY <3>1, PlacesOf, Give DEF ExclusiveInv, Separate
  <2>4. grown \in all \/ /\ \A x \in all : x.id # grown.id
                         /\ \A h \in left : h[4].id # grown.id
    BY <1>3, <2>2, NotPooled, HeldInUse
  <2>5. /\ Once(pool', overlapped) /\ DOMAIN pool' \subseteq all
        /\ grown.id \notin overlapped => grown \notin DOMAIN pool'
    <3>1. \A x \in mem[s] : x.id \notin overlapped => x \notin DOMAIN Taken(pool, b)
      BY <1>4, NotPooled
    <3>2. Once(pool', overlapped)
      BY <1>4, <1>6, <3>1, SetOnce, GiveOnce
    <3>3. DOMAIN pool' \subseteq DOMAIN Taken(pool, b) \cup mem[s]
      BY <1>6, PoolDomains
    <3>4. grown.id \notin overlapped => grown \notin mem[s]
      BY <1>3, <2>2, NotPooled
    <3>5. grown.id \notin overlapped => grown \notin DOMAIN Taken(pool, b)
      BY <1>4, <2>2
    <3> QED
      BY <1>4, <3>2, <3>3, <3>4, <3>5
  <2>6. Held' \subseteq left \cup {place}
    <3>1. Holds(s)' \subseteq {place} \cup (Holds(s) \ InMem(s))
      <4>1. InMem(s)' = {place} /\ InWriter(s)' = InWriter(s) /\ InPayloads(s)' = InPayloads(s)
        BY <1>1, <2>1 DEF InMem, InWriter, InPayloads, MemInv, MemoryType
      <4> QED
        BY <4>1, PlacesOf DEF Holds
    <3>2. \A t \in Streams \ {s} : mem'[t] = mem[t] /\ writer'[t] = writer[t] /\ payloads'[t] = payloads[t]
      BY <1>1, <2>1 DEF MemInv, MemoryType
    <3>3. Held' \subseteq (Held \ Holds(s)) \cup ({place} \cup (Holds(s) \ InMem(s)))
      BY <3>1, <3>2, HeldChange
    <3>4. Holds(s) \subseteq Held /\ InMem(s) \subseteq Holds(s)
      BY DEF Held, Holds
    <3> QED
      BY <3>3, <3>4
  <2>7. place[4] = grown
    OBVIOUS
  <2> HIDE DEF left, place, all
  <2>8. Exclusive(DOMAIN pool', Held', overlapped)
    BY <2>3, <2>4, <2>5, <2>6, <2>7, Hand
  <2> QED
    BY <1>1, <2>5, <2>8, StaySeparate
<1> QED
  BY <1>2, <1>5, <1>6

LEMMA WriteFileExclusive ==
  ASSUME MemInv, ExclusiveInv, NEW s \in Streams, NEW n \in WriteSizes, WriteFile(s, n)
  PROVE  Separate'
<1>1. UNCHANGED <<writer, payloads, overlapped>>
  BY CaptureLeaves DEF WriteFile
<1>2. CASE UNCHANGED <<pool, mem>>
  BY <1>1, <1>2, SameBuffers
<1>3. CASE pool' = pool (+) Released(SetToBag(mem[s])) /\ mem' = [mem EXCEPT ![s] = {}]
  <2>1. Once(pool', overlapped) /\ DOMAIN pool' \subseteq DOMAIN pool \cup mem[s]
    <3>1. \A b \in mem[s] : b.id \notin overlapped => b \notin DOMAIN pool
      BY NotPooled
    <3>2. Once(SetToBag(mem[s]), overlapped) /\ DOMAIN SetToBag(mem[s]) = mem[s]
      BY SetOnce
    <3>3. Once(pool', overlapped)
      BY <1>3, <3>1, <3>2, GiveOnce DEF ExclusiveInv, Separate
    <3> QED
      BY <1>3, <3>3, PoolDomains
  <2>2. Held' \subseteq Held \ InMem(s)
    <3>1. Holds(s)' \subseteq Holds(s) \ InMem(s)
      <4>1. InMem(s)' = {} /\ InWriter(s)' = InWriter(s) /\ InPayloads(s)' = InPayloads(s)
        BY <1>1, <1>3 DEF InMem, InWriter, InPayloads, MemInv, MemoryType
      <4> QED
        BY <4>1, PlacesOf DEF Holds
    <3>2. \A t \in Streams \ {s} : mem'[t] = mem[t] /\ writer'[t] = writer[t] /\ payloads'[t] = payloads[t]
      BY <1>1, <1>3 DEF MemInv, MemoryType
    <3>3. Held' \subseteq (Held \ Holds(s)) \cup (Holds(s) \ InMem(s))
      BY <3>1, <3>2, HeldChange
    <3>4. Holds(s) \subseteq Held /\ InMem(s) \subseteq Holds(s)
      BY DEF Held, Holds
    <3> QED
      BY <3>3, <3>4
  <2>3. \A x \in DOMAIN pool' : x \in DOMAIN pool \/ \E g \in InMem(s) : x = g[4]
    BY <2>1, PlacesOf
  <2>4. Exclusive(DOMAIN pool', Held', overlapped)
    BY <2>2, <2>3, PlacesOf, Give DEF ExclusiveInv, Separate
  <2> QED
    BY <1>1, <2>1, <2>4, StaySeparate
<1> QED
  BY <1>2, <1>3 DEF WriteFile

\* The writer of a stream gets a buffer from the pool or a new one.
LEMMA WriterChange ==
  ASSUME MemInv, NEW s \in Streams, NEW b, writer' = [writer EXCEPT ![s] = {b}], UNCHANGED <<mem, payloads>>
  PROVE  Held' \subseteq Held \cup {<<s, "writer", 0, b>>}
<1> DEFINE place == <<s, "writer", 0, b>>
<1>1. Holds(s)' \subseteq {place} \cup Holds(s)
  <2>1. InWriter(s)' = {place} /\ InMem(s)' = InMem(s) /\ InPayloads(s)' = InPayloads(s)
    BY DEF InMem, InWriter, InPayloads, MemInv, MemoryType
  <2> QED
    BY <2>1 DEF Holds
<1>2. \A t \in Streams \ {s} : mem'[t] = mem[t] /\ writer'[t] = writer[t] /\ payloads'[t] = payloads[t]
  BY DEF MemInv, MemoryType
<1>3. Held' \subseteq (Held \ Holds(s)) \cup ({place} \cup Holds(s))
  BY <1>1, <1>2, HeldChange
<1>4. Holds(s) \subseteq Held
  BY DEF Held
<1> QED
  BY <1>3, <1>4

LEMMA BeginPayloadExclusive ==
  ASSUME MemInv, ExclusiveInv, NEW s \in Streams, BeginPayload(s)
  PROVE  Separate'
<1>1. PICK b \in Acquired(pool, valueHint[s], InUse) : writer' = [writer EXCEPT ![s] = {b}] /\ pool' = Taken(pool, b)
  BY DEF BeginPayload
<1>2. valueHint[s] \in Nat /\ DOMAIN pool \subseteq Buf /\ UNCHANGED <<mem, payloads, overlapped>>
  BY DEF MemInv, MemoryType, BeginPayload, spool
<1>3. b \in DOMAIN pool \/ (b.id \notin InUse /\ \A x \in DOMAIN pool : b.id # x.id)
  BY <1>1, <1>2, AcquiredFacts
<1>4. /\ Once(pool', overlapped) /\ DOMAIN pool' \subseteq DOMAIN pool
      /\ b.id \notin overlapped => b \notin DOMAIN pool'
  BY <1>1, TakeOnce DEF ExclusiveInv, Separate
<1> DEFINE place == <<s, "writer", 0, b>>
<1>5. place[4] = b
  OBVIOUS
<1>6. Held' \subseteq Held \cup {place}
  BY <1>1, <1>2, WriterChange
<1>7. b \in DOMAIN pool \/ /\ \A x \in DOMAIN pool : x.id # b.id
                           /\ \A h \in Held : h[4].id # b.id
  BY <1>3, HeldInUse
<1> HIDE DEF place
<1>8. Exclusive(DOMAIN pool', Held', overlapped)
  BY <1>4, <1>5, <1>6, <1>7, Hand DEF ExclusiveInv, Separate
<1> QED
  BY <1>2, <1>4, <1>8, StaySeparate

LEMMA WritePayloadExclusive ==
  ASSUME MemInv, ExclusiveInv, NEW s \in Streams, NEW n \in PayloadSizes, WritePayload(s, n)
  PROVE  Separate'
<1>1. UNCHANGED <<pool, mem, payloads, overlapped>>
  BY DEF WritePayload, spool
<1>2. CASE UNCHANGED writer
  BY <1>1, <1>2, SameBuffers
<1>3. CASE \E b \in Make(GrownCap(Cap(writer[s]), made[s] + n), InUse) : writer' = [writer EXCEPT ![s] = {b}]
  <2>1. PICK b \in Make(GrownCap(Cap(writer[s]), made[s] + n), InUse) : writer' = [writer EXCEPT ![s] = {b}]
    BY <1>3
  <2>2. b.id \notin InUse /\ \A x \in DOMAIN pool : b.id # x.id
    <3> DEFINE need == made[s] + n
    <3>1. need \in Nat /\ Cap(writer[s]) \in Nat
      <4>1. writer[s] \subseteq Buf /\ (\A a, c \in writer[s] : a = c) /\ made[s] \in Nat /\ n \in Nat
        BY SizesAssumption DEF MemInv, MemoryType, StreamOK
      <4> QED
        BY <4>1, CapIsNat
    <3>2. b \in Make(GrownCap(Cap(writer[s]), need), InUse)
      BY <2>1
    <3> HIDE DEF need
    <3>3. GrownCap(Cap(writer[s]), need) \in Nat
      BY <3>1, GrownEnough
    <3> QED
      BY <3>2, <3>3, MakeFacts
  <2> DEFINE place == <<s, "writer", 0, b>>
  <2>3. place[4] = b
    OBVIOUS
  <2>4. Held' \subseteq Held \cup {place}
    BY <1>1, <2>1, WriterChange
  <2>5. DOMAIN pool' \subseteq DOMAIN pool /\ b \notin DOMAIN pool'
    BY <1>1, <2>2
  <2>6. /\ \A x \in DOMAIN pool : x.id # b.id
        /\ \A h \in Held : h[4].id # b.id
    BY <2>2, HeldInUse
  <2> HIDE DEF place
  <2>7. Exclusive(DOMAIN pool', Held', overlapped)
    BY <2>3, <2>4, <2>5, <2>6, Hand DEF ExclusiveInv, Separate
  <2> QED
    BY <1>1, <2>7, StaySeparate DEF ExclusiveInv, Separate
<1> QED
  BY <1>2, <1>3 DEF WritePayload

\* More arrays are left out.
LEMMA LeaveOut ==
  ASSUME NEW bag, NEW P, NEW H, NEW twice, Once(bag, twice), Exclusive(P, H, twice), NEW more, twice \subseteq more
  PROVE  Once(bag, more) /\ Exclusive(P, H, more)
BY DEF Once, Exclusive

\* Those that are left out can be anywhere.
LEMMA Anywhere ==
  ASSUME NEW P, NEW H, NEW twice, Exclusive(P, H, twice),
         NEW Q, \A b \in Q : b \in P \/ b.id \in twice,
         NEW I, \A h \in I : h \in H \/ h[4].id \in twice
  PROVE  Exclusive(Q, I, twice)
BY DEF Exclusive

\* The outermost payload is over: the writer has no buffer any more.
LEMMA EndOutermostExclusive ==
  ASSUME MemInv, ExclusiveInv, NEW s \in Streams, EndPayload(s), nesting[s] = 1
  PROVE  Separate'
<1>1. nesting[s] > 0 /\ Leave(s) /\ UNCHANGED mem
  BY DEF EndPayload, spool
<1>2. nesting[s] = 1 /\ UNCHANGED overlapped
  BY <1>1 DEF Leave, Overlap
<1>3. writer'[s] = {} /\ \A t \in Streams \ {s} : writer'[t] = writer[t]
  BY <1>1, <1>2, LeaveFacts
<1>4. InWriter(s)' = {} /\ InMem(s)' = InMem(s)
  BY <1>1, <1>3 DEF InWriter, InMem
<1> DEFINE left == Held \ InWriter(s)
<1>5. Holds(s) \subseteq Held /\ InWriter(s) \subseteq Holds(s)
  BY DEF Held, Holds
<1>6. CASE pool' = pool (+) Released(SetToBag(writer[s])) /\ UNCHANGED payloads
  <2>1. Once(pool', overlapped) /\ DOMAIN pool' \subseteq DOMAIN pool \cup writer[s]
    <3>1. \A b \in writer[s] : b.id \notin overlapped => b \notin DOMAIN pool
      BY NotPooled
    <3>2. Once(SetToBag(writer[s]), overlapped) /\ DOMAIN SetToBag(writer[s]) = writer[s]
      BY SetOnce
    <3>3. Once(pool', overlapped)
      BY <1>6, <3>1, <3>2, GiveOnce DEF ExclusiveInv, Separate
    <3> QED
      BY <1>6, <3>3, PoolDomains
  <2>2. Held' \subseteq left
    <3>1. Holds(s)' \subseteq Holds(s) \ InWriter(s)
      <4>1. InPayloads(s)' = InPayloads(s)
        BY <1>6 DEF InPayloads
      <4> QED
        BY <1>4, <4>1, PlacesOf DEF Holds
    <3>2. \A t \in Streams \ {s} : mem'[t] = mem[t] /\ writer'[t] = writer[t] /\ payloads'[t] = payloads[t]
      BY <1>1, <1>3, <1>6
    <3>3. Held' \subseteq (Held \ Holds(s)) \cup (Holds(s) \ InWriter(s))
      BY <3>1, <3>2, HeldChange
    <3> QED
      BY <1>5, <3>3
  <2>3. \A x \in DOMAIN pool' : x \in DOMAIN pool \/ \E g \in InWriter(s) : x = g[4]
    BY <2>1, PlacesOf
  <2>4. Exclusive(DOMAIN pool', Held', overlapped)
    BY <2>2, <2>3, PlacesOf, Give DEF ExclusiveInv, Separate
  <2> QED
    BY <1>2, <2>1, <2>4, StaySeparate
<1>7. CASE (\E b \in writer[s] : payloads' = [payloads EXCEPT ![s] = Append(@, b)]) /\ UNCHANGED pool
  <2>1. PICK b \in writer[s] : payloads' = [payloads EXCEPT ![s] = Append(@, b)]
    BY <1>7
  <2> DEFINE place == <<s, "payload", Len(payloads[s]) + 1, b>>
             all == DOMAIN pool \cup writer[s]
  <2>2. Exclusive(all, left, overlapped)
    <3>1. \A x \in all : x \in DOMAIN pool \/ \E g \in InWriter(s) : x = g[4]
      BY PlacesOf
    <3> HIDE DEF all
    <3> QED
      BY <3>1, PlacesOf, Give DEF ExclusiveInv, Separate
  <2>3. b \in all /\ DOMAIN pool \subseteq all /\ (b.id \notin overlapped => b \notin DOMAIN pool)
    BY NotPooled
  <2>4. Held' \subseteq left \cup {place}
    <3>1. payloads[s] \in Seq(Buf) /\ payloads'[s] = Append(payloads[s], b) /\ \A t \in Streams \ {s} : payloads'[t] = payloads[t]
      BY <2>1 DEF MemInv, MemoryType
    <3>2. InPayloads(s)' \subseteq InPayloads(s) \cup {place}
      <4>1. ASSUME NEW i \in DOMAIN payloads'[s] PROVE <<s, "payload", i, payloads'[s][i]>> \in InPayloads(s) \cup {place}
        <5>1. i \in 1..(Len(payloads[s]) + 1)
          BY <3>1, <4>1
        <5>2. CASE i = Len(payloads[s]) + 1
          <6>1. payloads'[s][i] = b
            BY <3>1, <5>2
          <6> QED
            BY <5>2, <6>1
        <5>3. CASE i # Len(payloads[s]) + 1
          <6>1. i \in DOMAIN payloads[s] /\ payloads'[s][i] = payloads[s][i]
            BY <3>1, <5>1, <5>3
          <6> QED
            BY <6>1 DEF InPayloads
        <5> QED
          BY <5>2, <5>3
      <4> HIDE DEF place
      <4> QED
        BY <4>1 DEF InPayloads
    <3>3. Holds(s)' \subseteq (Holds(s) \ InWriter(s)) \cup {place}
      BY <1>4, <3>2, PlacesOf DEF Holds
    <3>4. \A t \in Streams \ {s} : mem'[t] = mem[t] /\ writer'[t] = writer[t] /\ payloads'[t] = payloads[t]
      BY <1>1, <1>3, <3>1
    <3>5. Held' \subseteq (Held \ Holds(s)) \cup ((Holds(s) \ InWriter(s)) \cup {place})
      BY <3>3, <3>4, HeldChange
    <3> QED
      BY <1>5, <3>5
  <2>5. place[4] = b
    OBVIOUS
  <2> HIDE DEF place, all, left
  <2>6. Exclusive(DOMAIN pool, Held', overlapped)
    BY <2>2, <2>3, <2>4, <2>5, Hand
  <2> QED
    BY <1>2, <1>7, <2>6, StaySeparate DEF ExclusiveInv, Separate
<1> QED
  BY <1>6, <1>7 DEF EndPayload

\* A payload inside another one is over: its array is left out from here on.
LEMMA EndInnerExclusive ==
  ASSUME MemInv, ExclusiveInv, NEW s \in Streams, EndPayload(s), nesting[s] # 1
  PROVE  Separate'
<1>1. nesting[s] > 0 /\ Leave(s) /\ UNCHANGED mem
  BY DEF EndPayload, spool
<1>2. overlapped' = overlapped \cup {b.id : b \in writer[s]}
  BY <1>1 DEF Leave, Overlap, MemInv, MemoryType
<1>3. writer' = writer
  BY <1>1 DEF Leave
<1>4. Once(pool, overlapped') /\ Exclusive(DOMAIN pool, Held, overlapped')
  BY <1>2, LeaveOut DEF ExclusiveInv, Separate
<1>5. \A b \in writer[s] : b.id \in overlapped'
  BY <1>2
<1>6. CASE pool' = pool (+) Released(SetToBag(writer[s])) /\ UNCHANGED payloads
  <2>1. Once(pool', overlapped') /\ DOMAIN pool' \subseteq DOMAIN pool \cup writer[s]
    BY <1>4, <1>5, <1>6, SetOnce, GiveOnce, PoolDomains
  <2>2. Held' = Held
    BY <1>1, <1>3, <1>6 DEF Held, Holds, InMem, InWriter, InPayloads
  <2>3. Exclusive(DOMAIN pool', Held', overlapped')
    BY <1>4, <1>5, <2>1, <2>2, Anywhere
  <2> QED
    BY <2>1, <2>3 DEF Separate
<1>7. CASE (\E b \in writer[s] : payloads' = [payloads EXCEPT ![s] = Append(@, b)]) /\ UNCHANGED pool
  <2>1. PICK b \in writer[s] : payloads' = [payloads EXCEPT ![s] = Append(@, b)]
    BY <1>7
  <2>2. payloads[s] \in Seq(Buf) /\ payloads'[s] = Append(payloads[s], b) /\ \A t \in Streams \ {s} : payloads'[t] = payloads[t]
    BY <2>1 DEF MemInv, MemoryType
  <2>3. \A h \in InPayloads(s)' : h \in InPayloads(s) \/ h[4] = b
    <3>1. ASSUME NEW i \in DOMAIN payloads'[s]
          PROVE  payloads'[s][i] = b \/ (i \in DOMAIN payloads[s] /\ payloads'[s][i] = payloads[s][i])
      <4>1. i \in 1..(Len(payloads[s]) + 1)
        BY <2>2, <3>1
      <4>2. i = Len(payloads[s]) + 1 => payloads'[s][i] = b
        BY <2>2
      <4>3. i # Len(payloads[s]) + 1 => i \in DOMAIN payloads[s] /\ payloads'[s][i] = payloads[s][i]
        BY <2>2, <4>1
      <4> QED
        BY <4>2, <4>3
    <3> QED
      BY <3>1 DEF InPayloads
  <2>4. \A h \in Held' : h \in Held \/ h[4].id \in overlapped'
    <3>1. ASSUME NEW t \in Streams, NEW h \in Holds(t)' PROVE h \in Holds(t) \/ h[4] = b
      <4>1. h \in InMem(t)' \cup InWriter(t)' => h \in Holds(t)
        BY <1>1, <1>3 DEF InMem, InWriter, Holds
      <4>2. CASE t # s
        <5>1. h \in InPayloads(t)' => h \in Holds(t)
          BY <2>2, <4>2 DEF InPayloads, Holds
        <5> QED
          BY <3>1, <4>1, <5>1 DEF Holds
      <4>3. CASE t = s
        BY <2>3, <3>1, <4>1, <4>3 DEF Holds
      <4> QED
        BY <4>2, <4>3
    <3> QED
      BY <1>5, <2>1, <3>1 DEF Held
  <2>5. Exclusive(DOMAIN pool', Held', overlapped')
    BY <1>4, <1>7, <2>4, Anywhere
  <2> QED
    BY <1>4, <1>7, <2>5 DEF Separate
<1> QED
  BY <1>6, <1>7 DEF EndPayload

LEMMA FailExclusive ==
  ASSUME MemInv, ExclusiveInv, NEW s \in Streams, Fail(s)
  PROVE  Separate'
<1> DEFINE bag == [b \in writer[s] |-> nesting[s]]
<1>1. pool' = pool (+) Released(bag) /\ writer' = [writer EXCEPT ![s] = {}] /\ UNCHANGED <<mem, payloads>>
  BY DEF Fail, spool
<1>2. overlapped' = IF nesting[s] > 1 THEN overlapped \cup {b.id : b \in writer[s]} ELSE overlapped
  BY DEF Fail, Overlap
<1>3. Once(bag, overlapped') /\ DOMAIN bag = writer[s]
  <2>1. ASSUME NEW b \in writer[s], b.id \notin overlapped' PROVE nesting[s] = 1
    <3>1. nesting[s] \in Nat /\ nesting[s] # 0
      BY DEF ExclusiveInv, WriterInv, MemInv, MemoryType
    <3>2. ~(nesting[s] > 1)
      BY <1>2, <2>1
    <3> QED
      BY <3>1, <3>2
  <2> QED
    BY <2>1 DEF Once
<1> HIDE DEF bag
<1>4. Once(pool, overlapped') /\ Exclusive(DOMAIN pool, Held, overlapped')
  BY <1>2, LeaveOut DEF ExclusiveInv, Separate
<1>5. \A b \in writer[s] : b.id \notin overlapped' => b \notin DOMAIN pool
  BY <1>2, NotPooled
<1>6. Once(pool', overlapped') /\ DOMAIN pool' \subseteq DOMAIN pool \cup writer[s]
  BY <1>1, <1>3, <1>4, <1>5, GiveOnce, PoolDomains
<1>7. Held' \subseteq Held \ InWriter(s)
  <2>1. Holds(s)' \subseteq Holds(s) \ InWriter(s)
    <3>1. InWriter(s)' = {} /\ InMem(s)' = InMem(s) /\ InPayloads(s)' = InPayloads(s)
      BY <1>1 DEF InWriter, InMem, InPayloads, MemInv, MemoryType
    <3> QED
      BY <3>1, PlacesOf DEF Holds
  <2>2. \A t \in Streams \ {s} : mem'[t] = mem[t] /\ writer'[t] = writer[t] /\ payloads'[t] = payloads[t]
    BY <1>1 DEF MemInv, MemoryType
  <2>3. Held' \subseteq (Held \ Holds(s)) \cup (Holds(s) \ InWriter(s))
    BY <2>1, <2>2, HeldChange
  <2>4. Holds(s) \subseteq Held /\ InWriter(s) \subseteq Holds(s)
    BY DEF Held, Holds
  <2> QED
    BY <2>3, <2>4
<1>8. \A x \in DOMAIN pool' : x \in DOMAIN pool \/ \E g \in InWriter(s) : x = g[4]
  BY <1>6, PlacesOf
<1>9. Exclusive(DOMAIN pool', Held', overlapped')
  BY <1>7, <1>8, <1>4, PlacesOf, Give
<1> QED
  BY <1>6, <1>9 DEF Separate

\* The payloads of a candidate are different buffers, and each is given back once.
LEMMA ReleaseExclusive ==
  ASSUME MemInv, ExclusiveInv, NEW s \in Streams, ReleasePayloads(s),
         mem' = mem \/ mem' = [mem EXCEPT ![s] = {}], UNCHANGED <<writer, overlapped>>
  PROVE  Separate'
<1> DEFINE all == {payloads[s][i] : i \in DOMAIN payloads[s]}
           bag == [b \in all |-> Cardinality({i \in DOMAIN payloads[s] : payloads[s][i] = b})]
<1>1. pool' = pool (+) Released(bag) /\ payloads' = [payloads EXCEPT ![s] = <<>>]
  BY DEF ReleasePayloads
<1>2. ASSUME NEW i \in DOMAIN payloads[s], NEW j \in DOMAIN payloads[s], payloads[s][i] = payloads[s][j],
             payloads[s][i].id \notin overlapped PROVE i = j
  <2> DEFINE one == <<s, "payload", i, payloads[s][i]>>
             two == <<s, "payload", j, payloads[s][j]>>
  <2>1. one \in Held /\ two \in Held
    BY PlacesOf DEF InPayloads
  <2>2. one[4].id = two[4].id
    BY <1>2
  <2>3. one = two
    <3> HIDE DEF one, two
    <3>1. one[4].id \notin overlapped
      BY <1>2 DEF one
    <3> QED
      BY <2>1, <2>2, <3>1 DEF ExclusiveInv, Separate, Exclusive
  <2> QED
    BY <2>3
<1>3. Once(bag, overlapped) /\ DOMAIN bag = all
  <2>1. ASSUME NEW b \in all, b.id \notin overlapped PROVE Cardinality({i \in DOMAIN payloads[s] : payloads[s][i] = b}) = 1
    <3>1. PICK i \in DOMAIN payloads[s] : payloads[s][i] = b
      OBVIOUS
    <3>2. {k \in DOMAIN payloads[s] : payloads[s][k] = b} = {i}
      BY <1>2, <2>1, <3>1
    <3> QED
      BY <3>2, FS_Singleton
  <2> QED
    BY <2>1 DEF Once
<1>4. \A b \in all : (b.id \notin overlapped => b \notin DOMAIN pool) /\ \E g \in InPayloads(s) : b = g[4]
  BY NotPooled, PlacesOf
<1> HIDE DEF bag, all
<1>5. Once(pool', overlapped) /\ DOMAIN pool' \subseteq DOMAIN pool \cup all
  BY <1>1, <1>3, <1>4, GiveOnce, PoolDomains DEF ExclusiveInv, Separate
<1>6. Held' \subseteq Held \ InPayloads(s)
  <2>1. Holds(s)' \subseteq Holds(s) \ InPayloads(s)
    <3>1. InPayloads(s)' = {} /\ InMem(s)' \subseteq InMem(s) /\ InWriter(s)' = InWriter(s)
      BY <1>1 DEF InWriter, InMem, InPayloads, MemInv, MemoryType
    <3> QED
      BY <3>1, PlacesOf DEF Holds
  <2>2. \A t \in Streams \ {s} : mem'[t] = mem[t] /\ writer'[t] = writer[t] /\ payloads'[t] = payloads[t]
    BY <1>1 DEF MemInv, MemoryType
  <2>3. Held' \subseteq (Held \ Holds(s)) \cup (Holds(s) \ InPayloads(s))
    BY <2>1, <2>2, HeldChange
  <2>4. Holds(s) \subseteq Held /\ InPayloads(s) \subseteq Holds(s)
    BY DEF Held, Holds
  <2> QED
    BY <2>3, <2>4
<1>7. \A x \in DOMAIN pool' : x \in DOMAIN pool \/ \E g \in InPayloads(s) : x = g[4]
  BY <1>4, <1>5
<1>8. Exclusive(DOMAIN pool', Held', overlapped)
  BY <1>6, <1>7, PlacesOf, Give DEF ExclusiveInv, Separate
<1> QED
  BY <1>5, <1>8, StaySeparate

LEMMA WriterStep ==
  ASSUME MemInv, WriterInv, [Next]_vars
  PROVE  WriterInv'
<1>1. CASE UNCHANGED vars
  BY <1>1 DEF WriterInv, vars, maker
<1>2. ASSUME NEW s \in Streams, Begin(s) \/ Prepare(s) \/ EndCandidate(s) \/ MoveHint(s) \/ Return(s) PROVE WriterInv'
  <2>1. UNCHANGED <<nesting, writer>>
    BY <1>2 DEF Begin, Prepare, EndCandidate, MoveHint, Return, maker
  <2> QED
    BY <2>1 DEF WriterInv
<1>3. ASSUME NEW s \in Streams, NEW n, WriteMem(s, n) \/ WriteGrowing(s, n) \/ WriteFile(s, n) PROVE WriterInv'
  <2>1. UNCHANGED <<nesting, writer>>
    BY <1>3, CaptureLeaves DEF WriteMem, WriteGrowing, WriteFile
  <2> QED
    BY <2>1 DEF WriterInv
<1>4. ASSUME NEW s \in Streams, BeginPayload(s) PROVE WriterInv'
  <2>1. /\ nesting[s] \in Nat /\ nesting'[s] = nesting[s] + 1
        /\ \A t \in Streams \ {s} : writer'[t] = writer[t] /\ nesting'[t] = nesting[t]
    BY <1>4 DEF BeginPayload, MemInv, MemoryType
  <2> QED
    BY <2>1 DEF WriterInv
<1>5. ASSUME NEW s \in Streams, NEW n, WritePayload(s, n) PROVE WriterInv'
  <2>1. nesting[s] > 0 /\ UNCHANGED nesting /\ \A t \in Streams \ {s} : writer'[t] = writer[t]
    BY <1>5 DEF WritePayload, MemInv, MemoryType
  <2> QED
    BY <2>1 DEF WriterInv
<1>6. ASSUME NEW s \in Streams, EndPayload(s) PROVE WriterInv'
  <2>1. nesting[s] > 0 /\ Leave(s)
    BY <1>6 DEF EndPayload
  <2>2. /\ nesting'[s] = nesting[s] - 1 /\ nesting[s] \in Nat
        /\ writer'[s] = IF nesting[s] = 1 THEN {} ELSE writer[s]
        /\ \A t \in Streams \ {s} : writer'[t] = writer[t] /\ nesting'[t] = nesting[t]
    BY <2>1, LeaveFacts DEF MemInv, MemoryType
  <2>3. nesting'[s] = 0 => writer'[s] = {}
    BY <2>1, <2>2
  <2> QED
    BY <2>2, <2>3 DEF WriterInv
<1>7. ASSUME NEW s \in Streams, Fail(s) PROVE WriterInv'
  BY <1>7 DEF Fail, MemInv, MemoryType, WriterInv
<1> QED
  BY <1>1, <1>2, <1>3, <1>4, <1>5, <1>6, <1>7 DEF Next

LEMMA ExclusiveStep ==
  ASSUME MemInv, ExclusiveInv, [Next]_vars
  PROVE  ExclusiveInv'
<1>1. WriterInv'
  BY WriterStep DEF ExclusiveInv
<1>2. CASE UNCHANGED vars
  BY <1>1, <1>2, SameBuffers DEF vars, spool, maker, ExclusiveInv
<1>3. ASSUME NEW s \in Streams, Begin(s) PROVE Separate'
  BY <1>3, SameBuffers DEF Begin, spool, maker
<1>4. ASSUME NEW s \in Streams, Prepare(s) PROVE Separate'
  BY <1>4, SameBuffers, SpoolMemExclusive DEF Prepare, maker
<1>5. ASSUME NEW s \in Streams, NEW n \in WriteSizes, WriteMem(s, n)
      PROVE  Separate'
  BY <1>5, SameBuffers, CaptureLeaves DEF WriteMem
<1>6. ASSUME NEW s \in Streams, EndCandidate(s) PROVE Separate'
  <2>1. UNCHANGED <<mem, writer, overlapped>>
    BY <1>6 DEF EndCandidate, spool
  <2>2. UNCHANGED <<pool, payloads>> \/ ReleasePayloads(s)
    BY <1>6 DEF EndCandidate
  <2> QED
    BY <2>1, <2>2, SameBuffers, ReleaseExclusive
<1>7. ASSUME NEW s \in Streams, MoveHint(s) PROVE Separate'
  <2>1. UNCHANGED <<mem, writer, overlapped>>
    BY <1>7 DEF MoveHint, spool
  <2>2. UNCHANGED <<pool, payloads>> \/ ReleasePayloads(s)
    BY <1>7 DEF MoveHint
  <2> QED
    BY <2>1, <2>2, SameBuffers, ReleaseExclusive
<1>8. ASSUME NEW s \in Streams, Return(s) PROVE Separate'
  BY <1>8, ReleaseExclusive DEF Return
<1>9. CASE Next
  <2>1. PICK s \in Streams :
          \/ Begin(s) \/ Prepare(s)
          \/ \E n \in WriteSizes : WriteMem(s, n) \/ WriteGrowing(s, n) \/ WriteFile(s, n)
          \/ BeginPayload(s) \/ \E n \in PayloadSizes : WritePayload(s, n)
          \/ EndPayload(s) \/ Fail(s) \/ EndCandidate(s) \/ MoveHint(s) \/ Return(s)
    BY <1>9 DEF Next
  <2>2. Separate'
    BY <2>1, <1>3, <1>4, <1>5, <1>6, <1>7, <1>8, WriteGrowingExclusive, WriteFileExclusive,
       BeginPayloadExclusive, WritePayloadExclusive, EndOutermostExclusive, EndInnerExclusive, FailExclusive
  <2> QED
    BY <1>1, <2>2 DEF ExclusiveInv
<1> QED
  BY <1>2, <1>9

\* No array is in two places, for any streams, classes, sizes, failures and depth
\* of payloads, but for those that the writer had when a payload inside another
\* one was over: only such an array is ever given back, or handed out, twice.
THEOREM BuffersAreExclusive == MemorySpec => []BuffersExclusive
<1>1. Init => ExclusiveInv
  <2> SUFFICES ASSUME Init PROVE ExclusiveInv
    OBVIOUS
  <2>1. DOMAIN pool = {}
    BY DEF Init, EmptyBag, SetToBag
  <2>2. Held = {}
    BY DEF Init, Held, Holds, InMem, InWriter, InPayloads
  <2>3. WriterInv
    BY DEF Init, WriterInv
  <2> QED
    BY <2>1, <2>2, <2>3 DEF ExclusiveInv, Separate, Once, Exclusive
<1>2. MemInv /\ ExclusiveInv /\ [Next]_vars => ExclusiveInv'
  BY ExclusiveStep
<1>3. ExclusiveInv => BuffersExclusive
  BY DEF ExclusiveInv, Separate, Once, Exclusive, BuffersExclusive, BagToSet
<1> QED
  BY <1>1, <1>2, <1>3, MemoryInvariant, PTL DEF MemorySpec

================================================================================
