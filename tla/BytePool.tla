-------------------------------- MODULE BytePool --------------------------------
(***************************************************************************)
(* streamBytePool: byte slices that all streams share, in one sync.Pool    *)
(* for each class of capacities.  A buffer is an array with a capacity;    *)
(* the pool is a bag, since nothing keeps one buffer from being released   *)
(* twice.                                                                  *)
(***************************************************************************)
EXTENDS Naturals, Sequences, Bags

CONSTANTS ClassCaps,    \* capacities of the classes, ascending
          SizeClasses,  \* sizes that the allocator of the runtime rounds up to
          Ids           \* bound: arrays that are referenced at a time

ASSUME ClassAssumption ==
  /\ ClassCaps \in Seq(Nat \ {0})
  /\ \A i, j \in DOMAIN ClassCaps : i < j => ClassCaps[i] < ClassCaps[j]

ASSUME SizeClassAssumption == SizeClasses \subseteq Nat

VARIABLE pool

Least(set) == CHOOSE n \in set : \A k \in set : n <= k

\* classIndex; 0 for -1.
ClassIndex(size) ==
  LET fits == {i \in DOMAIN ClassCaps : size <= ClassCaps[i]} IN IF fits = {} THEN 0 ELSE Least(fits)

\* A size above all classes is taken as it is.
RoundUp(n) ==
  LET fits == {c \in SizeClasses : n <= c} IN IF fits = {} THEN n ELSE Least(fits)

\* append beyond the capacity: doubled while it is below 256, and then grown
\* by a quarter and 192 until it is enough; the allocator rounds it up.
GrownCap(cap, need) ==
  IF need > 2 * cap THEN RoundUp(need)
  ELSE IF cap < 256 THEN RoundUp(2 * cap)
  ELSE LET grow[c \in Nat] == IF c >= need THEN c ELSE grow[c + (c + 768) \div 4]
       IN  RoundUp(grow[cap + (cap + 768) \div 4])

Unused(inUse) == Ids \ (inUse \cup {b.id : b \in BagToSet(pool)})

\* make([]byte, 0, cap); inUse are the arrays that are referenced.
Make(cap, inUse) == {[id |-> i, cap |-> cap] : i \in {i \in Unused(inUse) : i = Least(Unused(inUse))}}

\* Mutant: one pool for all classes.
AcquiredAny(from, size, inUse) ==
  IF ClassIndex(size) = 0 THEN Make(size, inUse)
  ELSE BagToSet(from) \cup Make(ClassCaps[ClassIndex(size)], inUse)

\* The buffers that acquire(size) may return: one of the class that the pool,
\* which is from, holds, whatever its capacity, or a new one.  sync.Pool may miss.
Acquired(from, size, inUse) ==
  LET class == ClassIndex(size)
  IN  IF class = 0 THEN Make(size, inUse)
      ELSE {b \in BagToSet(from) : ClassIndex(b.cap) = class} \cup Make(ClassCaps[class], inUse)

Taken(from, b) == from (-) SetToBag({b})

\* release: a buffer is filed under the class its capacity rounds up to.
\* The buffers are a bag: each is released as often as it is in it.
Released(bufs) == [b \in {b \in DOMAIN bufs : ClassIndex(b.cap) # 0} |-> bufs[b]]

================================================================================
