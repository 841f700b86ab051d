-------------------------- MODULE ReusableSinksProofs --------------------------
(***************************************************************************)
(* The sinks of a factory, for any number of streams and sinks, any sizes  *)
(* and any failures: who holds a sink, who will close its file, and what   *)
(* the payload of a candidate reads.                                       *)
(***************************************************************************)
EXTENDS ReusableSinks, FiniteSetTheorems, SequenceTheorems, TLAPS

\* Who has a sink.
HeldOnce ==
  /\ \A u \in Streams : holds[u] # NoSink => holds[u] \in 1..created
  /\ \A u, v \in Streams : holds[u] = holds[v] /\ holds[u] # NoSink => u = v

PooledOnce ==
  /\ \A i \in DOMAIN pool : pool[i] \in 1..created /\ \A u \in Streams : holds[u] # pool[i]
  /\ \A i, j \in DOMAIN pool : pool[i] = pool[j] => i = j

\* Close takes the pool and the list of all sinks with it.
ClosedTakesAll ==
  /\ closed => pool = <<>> /\ all = <<>>
  /\ ~closed => closing = <<>> /\ \A s \in 1..created : s \in Range(all)

Own == HeldOnce /\ PooledOnce /\ ClosedTakesAll

FactoryOK ==
  /\ closed \in BOOLEAN /\ created \in 0..MaxSinks
  /\ pool \in Seq(Sinks) /\ all \in Seq(Sinks) /\ closing \in Seq(Sinks)
  /\ stage \in [Streams -> {"idle", "writing", "value", "failed", "releasing"}]
  /\ holds \in [Streams -> Sinks \cup {NoSink}]
  /\ \A u \in Streams : holds[u] = NoSink <=> stage[u] = "idle"

--------------------------------------------------------------------------------
(* Sequences, and the content of a file that bytes are written to.            *)

LEMMA ConcatLaws ==
  ASSUME NEW a \in Seq(Nat), NEW b \in Seq(Nat), NEW c \in Seq(Nat)
  PROVE  /\ a \o b \in Seq(Nat) /\ Len(a \o b) = Len(a) + Len(b)
         /\ (a \o b) \o c = a \o (b \o c)
         /\ a \o <<>> = a /\ <<>> \o a = a
<1>1. a \o b \in Seq(Nat) /\ Len(a \o b) = Len(a) + Len(b)
  OBVIOUS
<1>2. (a \o b) \o c = a \o (b \o c)
  OBVIOUS
<1>3. a \o <<>> = a /\ <<>> \o a = a
  OBVIOUS
<1> QED
  BY <1>1, <1>2, <1>3

LEMMA JoinLaw ==
  ASSUME NEW a \in Seq(Nat), NEW b \in Seq(Nat), NEW c \in Seq(Nat)
  PROVE  /\ a \o (b \o c) = (a \o b) \o c
         /\ Len(a \o (b \o c)) = Len(a) + Len(b) + Len(c)
<1>1. Len(a \o (b \o c)) = Len(a) + Len(b) + Len(c)
  OBVIOUS
<1> QED
  BY <1>1, ConcatLaws

LEMMA SplitAt ==
  ASSUME NEW m \in Seq(Nat), NEW f \in 0..Len(m)
  PROVE  /\ SubSeq(m, 1, f) \in Seq(Nat) /\ Len(SubSeq(m, 1, f)) = f
         /\ SubSeq(m, f + 1, Len(m)) \in Seq(Nat)
         /\ SubSeq(m, 1, f) \o SubSeq(m, f + 1, Len(m)) = m
<1>1. /\ SubSeq(m, 1, f) \in Seq(Nat) /\ Len(SubSeq(m, 1, f)) = f
      /\ SubSeq(m, f + 1, Len(m)) \in Seq(Nat) /\ Len(SubSeq(m, f + 1, Len(m))) = Len(m) - f
  OBVIOUS
<1>2. SubSeq(m, 1, f) \o SubSeq(m, f + 1, Len(m)) = SubSeq(m, 1, Len(m))
  <2>1. 1 \in 1..Len(m) + 1 /\ f \in (1 - 1)..Len(m) /\ Len(m) \in f..Len(m)
    OBVIOUS
  <2> QED
    BY <2>1, ConcatAdjacentSubSeq, Zenon
<1>3. SubSeq(m, 1, Len(m)) = m
  OBVIOUS
<1> QED
  BY <1>1, <1>2, <1>3

LEMMA OverwriteTyped ==
  ASSUME NEW c \in Seq(Nat), NEW at \in Nat, NEW b \in Seq(Nat)
  PROVE  Overwrite(c, at, b) \in Seq(Nat)
<1> DEFINE end == at + Len(b)
           n == IF end > Len(c) THEN end ELSE Len(c)
           v(i) == IF i \in (at + 1)..end THEN b[i - at] ELSE IF i <= Len(c) THEN c[i] ELSE 0
<1>1. n \in Nat
  OBVIOUS
<1>2. \A i \in 1..n : v(i) \in Nat
  OBVIOUS
<1>3. Overwrite(c, at, b) = [i \in 1..n |-> v(i)]
  BY DEF Overwrite
<1> HIDE DEF n, v
<1> QED
  BY <1>1, <1>2, <1>3

\* Writing at the end of a file appends.
LEMMA OverwriteAppends ==
  ASSUME NEW c \in Seq(Nat), NEW b \in Seq(Nat)
  PROVE  Overwrite(c, Len(c), b) = c \o b
<1> DEFINE n == Len(c) + Len(b)
<1>1. Overwrite(c, Len(c), b) =
        [i \in 1..n |-> IF i \in (Len(c) + 1)..n THEN b[i - Len(c)]
                        ELSE IF i <= Len(c) THEN c[i] ELSE 0]
  BY DEF Overwrite
<1>2. Overwrite(c, Len(c), b) \in Seq(Nat) /\ c \o b \in Seq(Nat)
  BY OverwriteTyped
<1>3. Len(Overwrite(c, Len(c), b)) = n /\ Len(c \o b) = n /\ n \in Nat
  BY <1>1
<1>4. \A i \in 1..n : Overwrite(c, Len(c), b)[i] = (c \o b)[i]
  BY <1>1
<1> HIDE DEF n
<1> QED
  BY <1>2, <1>3, <1>4, SeqEqual

--------------------------------------------------------------------------------
(* The factory: who has a sink.                                               *)

LEMMA NoSinkIsNone == NoSink \notin Sinks
BY DEF NoSink, Sinks

\* What a stream does with the sink it holds leaves the factory alone.
LEMMA StreamStep ==
  ASSUME NEW u \in Streams, Write(u) \/ Finalize(u) \/ Cleanup(u), FactoryOK
  PROVE  /\ UNCHANGED <<closed, pool, all, closing, created, holds>>
         /\ stage[u] # "idle" /\ holds[u] \in Sinks
         /\ \E to \in {"writing", "value", "failed", "releasing"} : stage' = [stage EXCEPT ![u] = to]
<1>1. CASE Write(u)
  <2>1. UNCHANGED <<closed, pool, all, closing, created, holds>> /\ stage[u] = "writing"
    BY <1>1 DEF Write, factory
  <2>2. stage' = stage \/ stage' = [stage EXCEPT ![u] = "failed"]
    BY <1>1 DEF Write, WriteMem, Spill, WriteFile, Failed
  <2>3. stage' = stage => stage' = [stage EXCEPT ![u] = "writing"]
    BY <2>1 DEF FactoryOK
  <2> QED
    BY <2>1, <2>2, <2>3 DEF FactoryOK
<1>2. CASE Finalize(u)
  <2>1. UNCHANGED <<closed, pool, all, closing, created, holds>> /\ stage[u] = "writing"
    BY <1>2 DEF Finalize, factory
  <2>2. stage' = [stage EXCEPT ![u] = "value"] \/ stage' = [stage EXCEPT ![u] = "failed"]
    BY <1>2 DEF Finalize, Failed
  <2> QED
    BY <2>1, <2>2 DEF FactoryOK
<1>3. CASE Cleanup(u)
  BY <1>3 DEF Cleanup, factory, FactoryOK
<1> QED
  BY <1>1, <1>2, <1>3

LEMMA NewSinkOwn == ASSUME NEW u \in Streams, NewSink(u), FactoryOK, Own PROVE FactoryOK' /\ Own'
<1>1. /\ stage[u] = "idle" /\ ~closed /\ holds[u] = NoSink
      /\ stage' = [stage EXCEPT ![u] = "writing"] /\ UNCHANGED <<closed, closing>>
  BY DEF NewSink, FactoryOK
<1>2. CASE TakeFromPool(u)
  <2> DEFINE n == Len(pool)
  <2>1. /\ pool # <<>> /\ holds' = [holds EXCEPT ![u] = pool[n]]
        /\ pool' = SubSeq(pool, 1, n - 1) /\ UNCHANGED <<all, created>>
    BY <1>2 DEF TakeFromPool, Last, Front
  <2>2. n \in Nat \ {0} /\ n \in DOMAIN pool /\ pool[n] \in Sinks
    BY <2>1 DEF FactoryOK
  <2>3. /\ pool' \in Seq(Sinks) /\ DOMAIN pool' = 1..(n - 1)
        /\ \A i \in 1..(n - 1) : pool'[i] = pool[i] /\ i \in DOMAIN pool /\ i # n
    BY <2>1, <2>2 DEF FactoryOK
  <2>4. pool[n] # NoSink /\ pool[n] \in 1..created /\ \A v \in Streams : holds[v] # pool[n]
    BY <2>2, NoSinkIsNone DEF Own, PooledOnce
  <2>5. FactoryOK'
    BY <1>1, <2>1, <2>2, <2>3, <2>4 DEF FactoryOK
  <2>6. HeldOnce'
    BY <2>1, <2>4 DEF Own, HeldOnce, FactoryOK
  <2>7. PooledOnce'
    <3>1. \A v \in Streams : holds'[v] = IF v = u THEN pool[n] ELSE holds[v]
      BY <2>1 DEF FactoryOK
    <3>2. \A i \in 1..(n - 1) : pool[i] \in 1..created /\ pool[i] # pool[n]
      BY <2>2, <2>3 DEF Own, PooledOnce
    <3>3. \A i \in 1..(n - 1), v \in Streams : holds[v] # pool[i]
      BY <2>3 DEF Own, PooledOnce
    <3>4. \A i, j \in 1..(n - 1) : pool[i] = pool[j] => i = j
      BY <2>3 DEF Own, PooledOnce
    <3>5. \A i \in DOMAIN pool' : pool'[i] = pool[i] /\ i \in 1..(n - 1)
      BY <2>3
    <3>6. \A i \in DOMAIN pool' : pool'[i] \in 1..created' /\ \A v \in Streams : holds'[v] # pool'[i]
      BY <2>1, <3>1, <3>2, <3>3, <3>5
    <3>7. \A i, j \in DOMAIN pool' : pool'[i] = pool'[j] => i = j
      BY <3>4, <3>5
    <3> QED
      BY <3>6, <3>7 DEF PooledOnce
  <2>8. ClosedTakesAll'
    BY <1>1, <2>1 DEF Own, ClosedTakesAll
  <2> QED
    BY <2>5, <2>6, <2>7, <2>8 DEF Own
<1>3. CASE Create(u)
  <2>1. /\ pool = <<>> /\ created < MaxSinks /\ created' = created + 1
        /\ all' = Append(all, created + 1) /\ holds' = [holds EXCEPT ![u] = created + 1]
        /\ pool' = pool
    BY <1>3 DEF Create
  <2>2. created + 1 \in Sinks /\ created' \in 0..MaxSinks /\ created \in Nat
    BY <2>1, BoundsAssumption DEF FactoryOK, Sinks
  <2>3. all' \in Seq(Sinks)
    BY <2>1, <2>2 DEF FactoryOK
  <2>4. FactoryOK'
    BY <1>1, <2>1, <2>2, <2>3, NoSinkIsNone DEF FactoryOK
  <2>5. HeldOnce'
    <3>1. \A v \in Streams : holds'[v] = IF v = u THEN created + 1 ELSE holds[v]
      BY <2>1 DEF FactoryOK
    <3>2. \A v \in Streams : holds[v] # NoSink => holds[v] \in 1..created
      BY DEF Own, HeldOnce
    <3>3. \A v \in Streams : holds[v] # created + 1
      BY <2>2, <3>2 DEF NoSink
    <3>4. \A v, w \in Streams : holds'[v] = holds'[w] /\ holds'[v] # NoSink => v = w
      BY <3>1, <3>3 DEF Own, HeldOnce
    <3>5. \A v \in Streams : holds'[v] # NoSink => holds'[v] \in 1..created'
      BY <2>1, <2>2, <3>1, <3>2
    <3> QED
      BY <3>4, <3>5 DEF HeldOnce
  <2>6. PooledOnce'
    BY <2>1 DEF PooledOnce
  <2>7. ClosedTakesAll'
    <3>1. \A s \in Range(all) \cup {created + 1} : s \in Range(all')
      <4>1. /\ DOMAIN all' = 1..(Len(all) + 1) /\ DOMAIN all = 1..Len(all) /\ Len(all) \in Nat
            /\ all'[Len(all) + 1] = created + 1
            /\ \A i \in DOMAIN all : all'[i] = all[i]
        BY <2>1, <2>2 DEF FactoryOK
      <4> QED
        BY <4>1 DEF Range
    <3> QED
      BY <1>1, <2>1, <2>2, <3>1 DEF Own, ClosedTakesAll
  <2> QED
    BY <2>4, <2>5, <2>6, <2>7 DEF Own
<1> QED
  BY <1>2, <1>3 DEF NewSink

LEMMA ReleaseOwn == ASSUME NEW u \in Streams, ReleaseSink(u), FactoryOK, Own PROVE FactoryOK' /\ Own'
<1>1. /\ stage[u] = "releasing" /\ stage' = [stage EXCEPT ![u] = "idle"]
      /\ holds' = [holds EXCEPT ![u] = NoSink]
      /\ UNCHANGED <<closed, all, created, closing>>
  BY DEF ReleaseSink
<1>2. pool' = IF closed THEN pool ELSE Append(pool, holds[u])
  BY DEF ReleaseSink
<1>3. holds[u] \in Sinks /\ holds[u] \in 1..created
  BY <1>1 DEF FactoryOK, Own, HeldOnce
<1>4. pool' \in Seq(Sinks)
  BY <1>2, <1>3 DEF FactoryOK
<1>5. FactoryOK'
  BY <1>1, <1>4 DEF FactoryOK
<1>6. HeldOnce'
  BY <1>1 DEF FactoryOK, Own, HeldOnce
<1>7. PooledOnce'
  <2>1. CASE closed
    BY <1>1, <1>2, <2>1 DEF Own, ClosedTakesAll, PooledOnce
  <2>2. CASE ~closed
    <3>1. /\ DOMAIN pool' = 1..(Len(pool) + 1) /\ DOMAIN pool = 1..Len(pool) /\ Len(pool) \in Nat
          /\ pool'[Len(pool) + 1] = holds[u]
          /\ \A i \in DOMAIN pool : pool'[i] = pool[i]
      BY <1>2, <1>3, <2>2 DEF FactoryOK
    <3>2. \A v \in Streams : holds'[v] # holds[u]
      BY <1>1, <1>3, NoSinkIsNone DEF FactoryOK, Own, HeldOnce
    <3>3. \A i \in DOMAIN pool, v \in Streams : holds'[v] # pool[i] /\ pool[i] # holds[u]
      <4>1. \A i \in DOMAIN pool : pool[i] \in Sinks
        BY DEF FactoryOK
      <4> QED
        BY <1>1, <4>1, NoSinkIsNone DEF FactoryOK, Own, PooledOnce
    <3> QED
      BY <1>1, <1>3, <3>1, <3>2, <3>3 DEF Own, PooledOnce
  <2> QED
    BY <2>1, <2>2
<1>8. ClosedTakesAll'
  BY <1>1, <1>2 DEF Own, ClosedTakesAll
<1> QED
  BY <1>5, <1>6, <1>7, <1>8 DEF Own

LEMMA CleanupFailsOwn ==
  ASSUME NEW u \in Streams, CleanupFails(u), FactoryOK, Own PROVE FactoryOK' /\ Own'
<1>1. /\ stage' = [stage EXCEPT ![u] = "idle"] /\ holds' = [holds EXCEPT ![u] = NoSink]
      /\ UNCHANGED <<closed, pool, all, created, closing>>
  BY DEF CleanupFails, factory
<1>2. FactoryOK'
  BY <1>1 DEF FactoryOK
<1>3. HeldOnce'
  BY <1>1 DEF FactoryOK, Own, HeldOnce
<1>4. PooledOnce'
  <2>1. \A i \in DOMAIN pool : pool[i] \in Sinks
    BY DEF FactoryOK
  <2> QED
    BY <1>1, <2>1, NoSinkIsNone DEF FactoryOK, Own, PooledOnce
<1>5. ClosedTakesAll'
  BY <1>1 DEF Own, ClosedTakesAll
<1> QED
  BY <1>2, <1>3, <1>4, <1>5 DEF Own

LEMMA CloseOwn == ASSUME Close \/ CloseNext, FactoryOK, Own PROVE FactoryOK' /\ Own'
<1>1. CASE Close
  <2>1. closed' = TRUE /\ pool' = <<>> /\ all' = <<>> /\ closing' = all
        /\ UNCHANGED <<created, stage, holds>>
    BY <1>1 DEF Close
  <2>2. pool' \in Seq(Sinks) /\ all' \in Seq(Sinks) /\ closing' \in Seq(Sinks)
    BY <2>1 DEF FactoryOK
  <2> QED
    BY <2>1, <2>2 DEF FactoryOK, Own, HeldOnce, PooledOnce, ClosedTakesAll
<1>2. CASE CloseNext
  <2>1. closing # <<>> /\ closing' = Tail(closing)
        /\ UNCHANGED <<closed, pool, all, created, stage, holds>>
    BY <1>2 DEF CloseNext, factory
  <2>2. closing' \in Seq(Sinks) /\ closed
    BY <2>1 DEF FactoryOK, Own, ClosedTakesAll
  <2> QED
    BY <2>1, <2>2 DEF FactoryOK, Own, HeldOnce, PooledOnce, ClosedTakesAll
<1> QED
  BY <1>1, <1>2

LEMMA OwnStep == FactoryOK /\ Own /\ [Next]_vars => FactoryOK' /\ Own'
<1> SUFFICES ASSUME FactoryOK, Own, [Next]_vars PROVE FactoryOK' /\ Own'
  OBVIOUS
<1>1. ASSUME NEW u \in Streams, Write(u) \/ Finalize(u) \/ Cleanup(u) PROVE FactoryOK' /\ Own'
  <2>1. FactoryOK'
    BY <1>1, StreamStep, NoSinkIsNone DEF FactoryOK
  <2>2. UNCHANGED <<closed, pool, all, closing, created, holds>>
    BY <1>1, StreamStep
  <2> QED
    BY <2>1, <2>2 DEF Own, HeldOnce, PooledOnce, ClosedTakesAll
<1>2. CASE Over \/ UNCHANGED vars
  <2>1. UNCHANGED <<closed, pool, all, closing, created, stage, holds>>
    BY <1>2 DEF Over, vars, factory
  <2> QED
    BY <2>1 DEF FactoryOK, Own, HeldOnce, PooledOnce, ClosedTakesAll
<1> QED
  BY <1>1, <1>2, NewSinkOwn, ReleaseOwn, CleanupFailsOwn, CloseOwn DEF Next, StreamNext

LEMMA InitOwn == Init => FactoryOK /\ Own
<1> SUFFICES ASSUME Init PROVE FactoryOK /\ Own
  OBVIOUS
<1>1. /\ closed = FALSE /\ pool = <<>> /\ all = <<>> /\ closing = <<>> /\ created = 0
      /\ stage = [u \in Streams |-> "idle"] /\ holds = [u \in Streams |-> NoSink]
  BY DEF Init
<1>2. FactoryOK
  <2>1. pool \in Seq(Sinks) /\ all \in Seq(Sinks) /\ closing \in Seq(Sinks)
    BY <1>1
  <2>2. created \in 0..MaxSinks
    BY <1>1, BoundsAssumption
  <2>3. /\ stage \in [Streams -> {"idle", "writing", "value", "failed", "releasing"}]
        /\ holds \in [Streams -> Sinks \cup {NoSink}]
        /\ \A u \in Streams : holds[u] = NoSink /\ stage[u] = "idle"
    BY <1>1
  <2> QED
    BY <1>1, <2>1, <2>2, <2>3 DEF FactoryOK
<1> QED
  BY <1>1, <1>2 DEF Own, HeldOnce, PooledOnce, ClosedTakesAll

\* NewSink and releaseSink never let two streams write to one sink.
THEOREM SinksAreExclusive == Spec => []Exclusive
<1>1. FactoryOK /\ Own => Exclusive
  <2> SUFFICES ASSUME FactoryOK, Own PROVE Exclusive
    OBVIOUS
  <2>1. ASSUME NEW s \in Sinks PROVE Cardinality(Holders(s)) <= 1
    <3>1. CASE Holders(s) = {}
      BY <3>1, FS_EmptySet
    <3>2. CASE Holders(s) # {}
      <4>1. PICK u \in Holders(s) : TRUE
        BY <3>2
      <4>2. Holders(s) = {u}
        BY <4>1, NoSinkIsNone DEF Holders, Own, HeldOnce
      <4>3. Cardinality({u}) = 1
        BY FS_Singleton
      <4> QED
        BY <4>2, <4>3
    <3> QED
      BY <3>1, <3>2
  <2>2. IsInjective(pool) /\ \A i \in DOMAIN pool : Holders(pool[i]) = {}
    BY DEF IsInjective, Holders, Own, PooledOnce
  <2> QED
    BY <2>1, <2>2 DEF Exclusive
<1> QED
  BY <1>1, InitOwn, OwnStep, PTL DEF Spec

\* No sink that Close has closed is ever handed out again.
THEOREM ClosedKeepsNothing == Spec => []NothingPooledOnceClosed
<1>1. Own => NothingPooledOnceClosed
  BY DEF Own, ClosedTakesAll, NothingPooledOnceClosed
<1> QED
  BY <1>1, InitOwn, OwnStep, PTL DEF Spec

--------------------------------------------------------------------------------
(* The sinks keep their types.                                                *)

SinksOK ==
  /\ mem \in [Sinks -> Seq(Nat)] /\ content \in [Sinks -> Seq(Nat)] /\ buf \in [Sinks -> Seq(Nat)]
  /\ size \in [Sinks -> Nat] /\ pos \in [Sinks -> Nat]
  /\ usingTmp \in [Sinks -> BOOLEAN] /\ hasFile \in [Sinks -> BOOLEAN]
  /\ broken \in [Sinks -> BOOLEAN]

HistoryOK ==
  /\ written \in [Streams -> Seq(Nat)] /\ disturbed \in [Streams -> BOOLEAN]
  /\ stuck \subseteq Sinks /\ abandoned \subseteq Sinks /\ stamp \in 0..MaxBytes

\* resetForCandidate and closeResources touch one sink, and empty it.
LEMMA ResetOK ==
  ASSUME NEW s \in Sinks, Reset(s), SinksOK
  PROVE  /\ mem' \in [Sinks -> Seq(Nat)] /\ usingTmp' \in [Sinks -> BOOLEAN] /\ size' \in [Sinks -> Nat]
         /\ mem'[s] = <<>> /\ ~usingTmp'[s] /\ size'[s] = 0
         /\ \A t \in Sinks \ {s} : mem'[t] = mem[t] /\ usingTmp'[t] = usingTmp[t] /\ size'[t] = size[t]
<1>1. <<>> \in Seq(Nat)
  OBVIOUS
<1> QED
  BY <1>1 DEF Reset, SinksOK

LEMMA CloseResourcesOK ==
  ASSUME NEW s \in Sinks, CloseResources(s), SinksOK, stuck \subseteq Sinks
  PROVE  /\ SinksOK' /\ stuck' \subseteq Sinks
         /\ mem'[s] = <<>> /\ ~usingTmp'[s] /\ size'[s] = 0 /\ ~hasFile'[s]
         /\ \A t \in Sinks \ {s} :
              /\ mem'[t] = mem[t] /\ usingTmp'[t] = usingTmp[t] /\ size'[t] = size[t]
              /\ hasFile'[t] = hasFile[t] /\ content'[t] = content[t] /\ buf'[t] = buf[t] /\ pos'[t] = pos[t]
<1>1. Reset(s)
  BY DEF CloseResources
<1>2. <<>> \in Seq(Nat)
  OBVIOUS
<1>3. /\ hasFile' = [hasFile EXCEPT ![s] = FALSE]
      /\ buf' = [buf EXCEPT ![s] = <<>>] /\ broken' = [broken EXCEPT ![s] = FALSE]
      /\ content' = [content EXCEPT ![s] = <<>>] /\ pos' = [pos EXCEPT ![s] = 0]
  BY DEF CloseResources
<1>4. stuck' \subseteq Sinks
  BY DEF CloseResources
<1>5. SinksOK'
  BY <1>1, <1>2, <1>3, ResetOK DEF SinksOK
<1>6. ~hasFile'[s]
  BY <1>3 DEF SinksOK
<1>7. \A t \in Sinks \ {s} : hasFile'[t] = hasFile[t] /\ content'[t] = content[t]
                             /\ buf'[t] = buf[t] /\ pos'[t] = pos[t]
  BY <1>3 DEF SinksOK
<1> QED
  BY <1>1, <1>4, <1>5, <1>6, <1>7, ResetOK

LEMMA FlushToOK ==
  ASSUME NEW s \in Sinks, NEW offset \in Nat, FlushTo(s, offset), SinksOK
  PROVE  /\ content' \in [Sinks -> Seq(Nat)] /\ pos' \in [Sinks -> Nat] /\ buf' \in [Sinks -> Seq(Nat)]
         /\ content'[s] = Overwrite(content[s], pos[s], buf[s]) /\ pos'[s] = offset /\ buf'[s] = <<>>
         /\ \A t \in Sinks \ {s} : content'[t] = content[t] /\ buf'[t] = buf[t] /\ pos'[t] = pos[t]
<1>1. Overwrite(content[s], pos[s], buf[s]) \in Seq(Nat) /\ <<>> \in Seq(Nat)
  BY OverwriteTyped DEF SinksOK
<1> QED
  BY <1>1 DEF FlushTo, SinksOK

LEMMA SwitchOK ==
  ASSUME NEW s \in Sinks, NEW moved \in Seq(Nat), NEW flushed \in 0..Len(moved),
         SwitchToTempFile(s, moved, flushed), SinksOK
  PROVE  /\ hasFile' \in [Sinks -> BOOLEAN] /\ content' \in [Sinks -> Seq(Nat)]
         /\ pos' \in [Sinks -> Nat] /\ buf' \in [Sinks -> Seq(Nat)]
         /\ pos'[s] = Len(content'[s]) /\ content'[s] \o buf'[s] = moved
         /\ \A t \in Sinks \ {s} : /\ hasFile'[t] = hasFile[t] /\ content'[t] = content[t]
                                  /\ buf'[t] = buf[t] /\ pos'[t] = pos[t]
<1> DEFINE front == SubSeq(moved, 1, flushed)
           rest  == SubSeq(moved, flushed + 1, Len(moved))
<1>1. front \in Seq(Nat) /\ Len(front) = flushed /\ rest \in Seq(Nat) /\ front \o rest = moved
  BY SplitAt
<1>2. /\ hasFile' = [hasFile EXCEPT ![s] = TRUE] /\ content' = [content EXCEPT ![s] = front]
      /\ pos' = [pos EXCEPT ![s] = flushed] /\ buf' = [buf EXCEPT ![s] = rest]
  BY DEF SwitchToTempFile
<1> HIDE DEF front, rest
<1>3. flushed \in Nat
  OBVIOUS
<1> QED
  BY <1>1, <1>2, <1>3 DEF SinksOK

\* What a Write does to the sink s of the stream u, when it does not fail.
Appended(u, s, bytes) ==
  /\ size'[s] = size[s] + Len(bytes) /\ written' = [written EXCEPT ![u] = @ \o bytes]
  /\ stage' = stage
  /\ \/ ~usingTmp[s] /\ ~usingTmp'[s] /\ mem'[s] = mem[s] \o bytes
     \/ /\ ~usingTmp[s] /\ usingTmp'[s]
        /\ pos'[s] = Len(content'[s]) /\ content'[s] \o buf'[s] = mem[s] \o bytes
     \/ /\ usingTmp[s] /\ usingTmp'[s]
        /\ \/ /\ buf'[s] = buf[s] \o bytes /\ content'[s] = content[s] /\ pos'[s] = pos[s]
           \/ /\ content'[s] = Overwrite(content[s], pos[s], buf[s] \o bytes)
              /\ pos'[s] = pos[s] + Len(buf[s]) + Len(bytes) /\ buf'[s] = <<>>

OthersAlone(s) ==
  \A t \in Sinks \ {s} :
    /\ mem'[t] = mem[t] /\ usingTmp'[t] = usingTmp[t] /\ size'[t] = size[t]
    /\ hasFile'[t] = hasFile[t] /\ content'[t] = content[t] /\ buf'[t] = buf[t] /\ pos'[t] = pos[t]

LEMMA WriteMemOK ==
  ASSUME NEW u \in Streams, NEW s \in Sinks, NEW bytes \in Seq(Nat), WriteMem(u, s, bytes), SinksOK
  PROVE  SinksOK' /\ OthersAlone(s) /\ Appended(u, s, bytes)
<1>1. mem[s] \o bytes \in Seq(Nat) /\ size[s] + Len(bytes) \in Nat
  BY ConcatLaws DEF SinksOK
<1>2. /\ mem' = [mem EXCEPT ![s] = @ \o bytes] /\ size' = [size EXCEPT ![s] = @ + Len(bytes)]
      /\ UNCHANGED <<usingTmp, hasFile, content, pos, buf, broken, stage>> /\ ~usingTmp[s]
      /\ written' = [written EXCEPT ![u] = @ \o bytes]
  BY DEF WriteMem, file
<1> QED
  BY <1>1, <1>2 DEF SinksOK, OthersAlone, Appended

LEMMA WriteFileOK ==
  ASSUME NEW u \in Streams, NEW s \in Sinks, NEW bytes \in Seq(Nat), WriteFile(u, s, bytes), SinksOK
  PROVE  /\ SinksOK' /\ OthersAlone(s)
         /\ Appended(u, s, bytes) \/ (Failed(u) /\ written' = written)
<1>0. /\ UNCHANGED <<mem, usingTmp, hasFile>> /\ usingTmp[s]
      /\ mem[s] \in Seq(Nat) /\ buf[s] \in Seq(Nat) /\ content[s] \in Seq(Nat) /\ pos[s] \in Nat
      /\ size[s] \in Nat
  BY DEF WriteFile, SinksOK
<1>1. /\ buf[s] \o bytes \in Seq(Nat) /\ Len(bytes) \in Nat /\ Len(buf[s]) \in Nat /\ <<>> \in Seq(Nat)
      /\ Overwrite(content[s], pos[s], buf[s] \o bytes) \in Seq(Nat)
  <2>1. buf[s] \o bytes \in Seq(Nat) /\ Len(bytes) \in Nat /\ Len(buf[s]) \in Nat /\ <<>> \in Seq(Nat)
    BY <1>0, ConcatLaws
  <2> QED
    BY <1>0, <2>1, OverwriteTyped
<1>2. CASE /\ size' = [size EXCEPT ![s] = @ + Len(bytes)]
           /\ written' = [written EXCEPT ![u] = @ \o bytes]
           /\ UNCHANGED <<broken, stage>>
           /\ buf' = [buf EXCEPT ![s] = @ \o bytes] /\ UNCHANGED <<content, pos>>
  <2>1. SinksOK'
    BY <1>0, <1>1, <1>2 DEF SinksOK
  <2>2. OthersAlone(s)
    BY <1>0, <1>2 DEF SinksOK, OthersAlone
  <2>3. buf'[s] = buf[s] \o bytes /\ size'[s] = size[s] + Len(bytes)
    BY <1>2 DEF SinksOK
  <2> QED
    BY <1>0, <1>2, <2>1, <2>2, <2>3 DEF Appended
<1>3. CASE /\ size' = [size EXCEPT ![s] = @ + Len(bytes)]
           /\ written' = [written EXCEPT ![u] = @ \o bytes]
           /\ UNCHANGED <<broken, stage>>
           /\ content' = [content EXCEPT ![s] = Overwrite(@, pos[s], buf[s] \o bytes)]
           /\ pos' = [pos EXCEPT ![s] = @ + Len(buf[s]) + Len(bytes)]
           /\ buf' = [buf EXCEPT ![s] = <<>>]
  <2>1. SinksOK'
    <3>1. /\ content' \in [Sinks -> Seq(Nat)] /\ pos' \in [Sinks -> Nat] /\ buf' \in [Sinks -> Seq(Nat)]
          /\ size' \in [Sinks -> Nat]
      BY <1>0, <1>1, <1>3 DEF SinksOK
    <3> QED
      BY <1>0, <1>3, <3>1 DEF SinksOK
  <2>2. OthersAlone(s)
    BY <1>0, <1>3 DEF SinksOK, OthersAlone
  <2>3. /\ buf'[s] = <<>> /\ size'[s] = size[s] + Len(bytes)
        /\ content'[s] = Overwrite(content[s], pos[s], buf[s] \o bytes)
        /\ pos'[s] = pos[s] + Len(buf[s]) + Len(bytes)
    BY <1>3 DEF SinksOK
  <2> QED
    BY <1>0, <1>3, <2>1, <2>2, <2>3 DEF Appended
<1>4. CASE /\ broken' = [broken EXCEPT ![s] = TRUE] /\ Failed(u)
           /\ UNCHANGED <<buf, content, pos, size, written>>
  BY <1>0, <1>4 DEF SinksOK, OthersAlone
<1> QED
  BY <1>2, <1>3, <1>4 DEF WriteFile

LEMMA SpillOK ==
  ASSUME NEW u \in Streams, NEW s \in Sinks, NEW bytes \in Seq(Nat), Spill(u, s, bytes), SinksOK
  PROVE  /\ SinksOK' /\ OthersAlone(s)
         /\ Appended(u, s, bytes) \/ (Failed(u) /\ written' = written)
<1> DEFINE moved == mem[s] \o bytes
<1>0. /\ ~usingTmp[s] /\ mem[s] \in Seq(Nat) /\ Len(mem[s]) \in Nat /\ Len(bytes) \in Nat
      /\ moved \in Seq(Nat) /\ Len(moved) = Len(mem[s]) + Len(bytes) /\ <<>> \in Seq(Nat)
      /\ size[s] \in Nat
  BY ConcatLaws DEF Spill, SinksOK
<1>1. CASE /\ \E flushed \in {0, Len(mem[s]), Len(mem[s]) + Len(bytes)} :
                SwitchToTempFile(s, moved, flushed)
           /\ broken' = [broken EXCEPT ![s] = FALSE]
           /\ mem' = [mem EXCEPT ![s] = <<>>] /\ usingTmp' = [usingTmp EXCEPT ![s] = TRUE]
           /\ size' = [size EXCEPT ![s] = @ + Len(bytes)]
           /\ written' = [written EXCEPT ![u] = @ \o bytes]
           /\ UNCHANGED stage
  <2>1. PICK flushed \in 0..Len(moved) : SwitchToTempFile(s, moved, flushed)
    BY <1>0, <1>1
  <2>2. /\ hasFile' \in [Sinks -> BOOLEAN] /\ content' \in [Sinks -> Seq(Nat)]
        /\ pos' \in [Sinks -> Nat] /\ buf' \in [Sinks -> Seq(Nat)]
        /\ pos'[s] = Len(content'[s]) /\ content'[s] \o buf'[s] = moved
        /\ \A t \in Sinks \ {s} : /\ hasFile'[t] = hasFile[t] /\ content'[t] = content[t]
                                 /\ buf'[t] = buf[t] /\ pos'[t] = pos[t]
    BY <1>0, <2>1, SwitchOK
  <2>3. SinksOK'
    <3>1. /\ mem' \in [Sinks -> Seq(Nat)] /\ usingTmp' \in [Sinks -> BOOLEAN]
          /\ size' \in [Sinks -> Nat] /\ broken' \in [Sinks -> BOOLEAN]
      BY <1>0, <1>1 DEF SinksOK
    <3> QED
      BY <2>2, <3>1 DEF SinksOK
  <2>4. OthersAlone(s)
    BY <1>1, <2>2 DEF SinksOK, OthersAlone
  <2>5. usingTmp'[s] /\ size'[s] = size[s] + Len(bytes)
    BY <1>1 DEF SinksOK
  <2> QED
    BY <1>0, <1>1, <2>2, <2>3, <2>4, <2>5 DEF Appended
<1>2. CASE /\ hasFile[s] => content' \in {content, [content EXCEPT ![s] = <<>>]}
           /\ ~hasFile[s] => content' = content
           /\ Failed(u)
           /\ UNCHANGED <<mem, usingTmp, size, written, hasFile, pos, buf, broken>>
  BY <1>0, <1>2 DEF SinksOK, OthersAlone
<1>3. CASE /\ SwitchToTempFile(s, <<>>, 0)
           /\ broken' = [broken EXCEPT ![s] = TRUE]
           /\ \/ mem[s] # <<>> /\ UNCHANGED <<mem, usingTmp>>
              \/ /\ mem' = [mem EXCEPT ![s] = <<>>]
                 /\ usingTmp' = [usingTmp EXCEPT ![s] = TRUE]
           /\ Failed(u)
           /\ UNCHANGED <<size, written>>
  <2>1. 0 \in 0..Len(<<>>)
    OBVIOUS
  <2>2. /\ hasFile' \in [Sinks -> BOOLEAN] /\ content' \in [Sinks -> Seq(Nat)]
        /\ pos' \in [Sinks -> Nat] /\ buf' \in [Sinks -> Seq(Nat)]
        /\ \A t \in Sinks \ {s} : /\ hasFile'[t] = hasFile[t] /\ content'[t] = content[t]
                                 /\ buf'[t] = buf[t] /\ pos'[t] = pos[t]
    BY <1>0, <1>3, <2>1, SwitchOK
  <2>3. SinksOK'
    BY <1>0, <1>3, <2>2 DEF SinksOK
  <2>4. OthersAlone(s)
    BY <1>3, <2>2 DEF SinksOK, OthersAlone
  <2> QED
    BY <1>3, <2>3, <2>4
<1> QED
  BY <1>1, <1>2, <1>3 DEF Spill

\* The bytes that a Write writes are new ones.
LEMMA WriteOK ==
  ASSUME NEW u \in Streams, Write(u), FactoryOK, SinksOK, HistoryOK
  PROVE  /\ SinksOK' /\ OthersAlone(holds[u])
         /\ \/ \E bytes \in Seq(Nat) : Appended(u, holds[u], bytes)
            \/ Failed(u) /\ written' = written
<1>1. holds[u] \in Sinks
  BY StreamStep
<1>2. PICK n \in WriteSizes :
        LET bytes == [i \in 1..n |-> stamp + i]
        IN  \/ WriteMem(u, holds[u], bytes)
            \/ Spill(u, holds[u], bytes)
            \/ WriteFile(u, holds[u], bytes)
  BY DEF Write
<1> DEFINE bytes == [i \in 1..n |-> stamp + i]
<1>3. bytes \in Seq(Nat)
  <2>1. n \in Nat /\ stamp \in Nat
    BY SizesAssumption DEF HistoryOK
  <2>2. bytes \in [1..n -> Nat]
    BY <2>1
  <2> QED
    BY <2>1, <2>2
<1>4. WriteMem(u, holds[u], bytes) \/ Spill(u, holds[u], bytes) \/ WriteFile(u, holds[u], bytes)
  BY <1>2
<1> HIDE DEF bytes
<1> QED
  BY <1>1, <1>3, <1>4, WriteMemOK, SpillOK, WriteFileOK

\* Every step keeps the types, and leaves the sinks alone that it has no
\* business with.
LEMMA TypesStep ==
  FactoryOK /\ Own /\ SinksOK /\ HistoryOK /\ [Next]_vars => SinksOK' /\ HistoryOK'
<1> SUFFICES ASSUME FactoryOK, Own, SinksOK, HistoryOK, [Next]_vars PROVE SinksOK' /\ HistoryOK'
  OBVIOUS
<1>0. <<>> \in Seq(Nat)
  OBVIOUS
<1>1. ASSUME NEW u \in Streams, NewSink(u) PROVE SinksOK' /\ HistoryOK'
  <2>1. /\ UNCHANGED <<hasFile, content, pos, buf, broken, stuck, stamp, abandoned>>
        /\ written' = [written EXCEPT ![u] = <<>>] /\ disturbed' = [disturbed EXCEPT ![u] = FALSE]
    BY <1>1 DEF NewSink, file
  <2>2. HistoryOK'
    BY <1>0, <2>1 DEF HistoryOK
  <2>3. CASE TakeFromPool(u)
    <3>1. Last(pool) \in Sinks /\ Reset(Last(pool))
      BY <2>3 DEF TakeFromPool, Last, FactoryOK
    <3> QED
      BY <2>1, <2>2, <3>1, ResetOK DEF SinksOK
  <2>4. CASE Create(u)
    BY <2>1, <2>2, <2>4 DEF Create, SinksOK
  <2> QED
    BY <1>1, <2>3, <2>4 DEF NewSink
<1>2. ASSUME NEW u \in Streams, ReleaseSink(u) PROVE SinksOK' /\ HistoryOK'
  <2>1. holds[u] \in Sinks /\ UNCHANGED <<written, stamp, disturbed, abandoned>>
    BY <1>2 DEF ReleaseSink, FactoryOK, history
  <2>2. CASE CloseResources(holds[u])
    BY <2>1, <2>2, CloseResourcesOK DEF HistoryOK
  <2>3. CASE UNCHANGED sink
    BY <2>1, <2>3 DEF sink, file, SinksOK, HistoryOK
  <2> QED
    BY <1>2, <2>2, <2>3 DEF ReleaseSink
<1>3. ASSUME NEW u \in Streams, Write(u) PROVE SinksOK' /\ HistoryOK'
  <2>1. SinksOK'
    BY <1>3, WriteOK
  <2>2. UNCHANGED <<disturbed, abandoned>>
    BY <1>3 DEF Write
  <2>3. stamp' \in 0..MaxBytes
    BY <1>3, SizesAssumption, BoundsAssumption DEF Write, HistoryOK
  <2>4. UNCHANGED stuck
    BY <1>3 DEF Write, WriteMem, Spill, WriteFile, file
  <2>5. written' \in [Streams -> Seq(Nat)]
    <3>1. CASE written' = written
      BY <3>1 DEF HistoryOK
    <3>2. ASSUME NEW bytes \in Seq(Nat), Appended(u, holds[u], bytes)
          PROVE  written' \in [Streams -> Seq(Nat)]
      <4>1. written[u] \o bytes \in Seq(Nat)
        BY ConcatLaws DEF HistoryOK
      <4> QED
        BY <3>2, <4>1 DEF Appended, HistoryOK
    <3> QED
      BY <1>3, <3>1, <3>2, WriteOK
  <2> QED
    BY <2>1, <2>2, <2>3, <2>4, <2>5 DEF HistoryOK
<1>4. ASSUME NEW u \in Streams, Finalize(u) PROVE SinksOK' /\ HistoryOK'
  <2>1. /\ UNCHANGED <<mem, usingTmp, size, hasFile, stuck, written, stamp, disturbed, abandoned>>
        /\ holds[u] \in Sinks
    BY <1>4, StreamStep DEF Finalize, history, file
  <2>2. HistoryOK'
    BY <2>1 DEF HistoryOK
  <2>3. CASE UNCHANGED file
    BY <2>1, <2>2, <2>3 DEF file, SinksOK
  <2>4. CASE FlushTo(holds[u], pos[holds[u]] + Len(buf[holds[u]])) /\ UNCHANGED broken
    <3>1. pos[holds[u]] + Len(buf[holds[u]]) \in Nat
      BY <2>1 DEF SinksOK
    <3> QED
      BY <2>1, <2>2, <2>4, <3>1, FlushToOK DEF SinksOK
  <2>5. CASE FlushFails(holds[u])
    BY <2>1, <2>2, <2>5 DEF FlushFails, SinksOK
  <2> QED
    BY <1>4, <2>3, <2>4, <2>5 DEF Finalize
<1>5. ASSUME NEW u \in Streams, Cleanup(u) PROVE SinksOK' /\ HistoryOK'
  <2>1. /\ UNCHANGED <<hasFile, broken, stuck, written, stamp, disturbed, abandoned>>
        /\ holds[u] \in Sinks /\ Reset(holds[u])
    BY <1>5, StreamStep DEF Cleanup, history
  <2>2. HistoryOK'
    BY <2>1 DEF HistoryOK
  <2>3. CASE UNCHANGED <<content, pos, buf>>
    BY <2>1, <2>2, <2>3, ResetOK DEF SinksOK
  <2>4. CASE FlushTo(holds[u], 0)
    BY <2>1, <2>2, <2>4, ResetOK, FlushToOK DEF SinksOK
  <2> QED
    BY <1>5, <2>3, <2>4 DEF Cleanup
<1>6. ASSUME NEW u \in Streams, CleanupFails(u) PROVE SinksOK' /\ HistoryOK'
  <2>1. /\ UNCHANGED <<mem, usingTmp, size, hasFile, stuck, written, stamp, disturbed>>
        /\ holds[u] \in Sinks
        /\ abandoned' = abandoned \cup ({holds[u]} \ (Range(all) \cup Range(closing)))
    BY <1>6 DEF CleanupFails, history, FactoryOK
  <2>2. HistoryOK'
    BY <2>1 DEF HistoryOK
  <2>3. CASE FlushTo(holds[u], pos[holds[u]] + Len(buf[holds[u]])) /\ UNCHANGED broken
    <3>1. pos[holds[u]] + Len(buf[holds[u]]) \in Nat
      BY <2>1 DEF SinksOK
    <3> QED
      BY <2>1, <2>2, <2>3, <3>1, FlushToOK DEF SinksOK
  <2>4. CASE FlushFails(holds[u])
    BY <2>1, <2>2, <2>4 DEF FlushFails, SinksOK
  <2> QED
    BY <1>6, <2>3, <2>4 DEF CleanupFails
<1>7. CASE Close \/ Over \/ UNCHANGED vars
  <2>1. UNCHANGED <<mem, usingTmp, size, hasFile, content, pos, buf, broken, stuck, written, stamp,
                    disturbed, abandoned>>
    BY <1>7 DEF Close, Over, vars, sink, file, history
  <2> QED
    BY <2>1 DEF SinksOK, HistoryOK
<1>8. CASE CloseNext
  <2>1. /\ Head(closing) \in Sinks /\ CloseResources(Head(closing))
        /\ UNCHANGED <<written, stamp, abandoned>>
        /\ disturbed' = [u \in Streams |-> disturbed[u] \/ holds[u] = Head(closing)]
    BY <1>8 DEF CloseNext, FactoryOK
  <2>2. disturbed' \in [Streams -> BOOLEAN]
    BY <2>1
  <2> QED
    BY <2>1, <2>2, CloseResourcesOK DEF HistoryOK
<1> QED
  BY <1>1, <1>2, <1>3, <1>4, <1>5, <1>6, <1>7, <1>8 DEF Next, StreamNext

Typed == FactoryOK /\ SinksOK /\ HistoryOK

LEMMA TypedHolds == Spec => [](Typed /\ Own)
<1>1. Init => Typed /\ Own
  <2> SUFFICES ASSUME Init PROVE Typed /\ Own
    OBVIOUS
  <2>1. <<>> \in Seq(Nat) /\ 0 \in 0..MaxBytes
    BY BoundsAssumption
  <2>2. SinksOK
    BY <2>1 DEF Init, SinksOK
  <2>3. HistoryOK
    BY <2>1 DEF Init, HistoryOK
  <2> QED
    BY <2>2, <2>3, InitOwn DEF Typed
<1>2. Typed /\ Own /\ [Next]_vars => Typed' /\ Own'
  BY OwnStep, TypesStep DEF Typed
<1> QED
  BY <1>1, <1>2, PTL DEF Spec

\* Every variable keeps its type.
THEOREM TypeCorrect == Spec => []TypeOK
<1>1. Typed => TypeOK
  BY DEF Typed, FactoryOK, SinksOK, HistoryOK, TypeOK
<1> QED
  BY <1>1, TypedHolds, PTL

--------------------------------------------------------------------------------
(* Who will close a file.                                                     *)

LEMMA FilesStep == Typed /\ Own /\ FilesReclaimable /\ [Next]_vars => FilesReclaimable'
<1> SUFFICES ASSUME Typed, Own, FilesReclaimable, [Next]_vars PROVE FilesReclaimable'
  OBVIOUS
<1> USE DEF Typed
<1>1. ASSUME NEW s \in Sinks, hasFile'[s], hasFile[s], UNCHANGED <<all, closing, abandoned, holds>>
      PROVE  s \in Range(all') \cup Range(closing') \cup abandoned' \/ Holders(s)' # {}
  BY <1>1 DEF FilesReclaimable, Holders
<1>2. ASSUME NEW u \in Streams, Write(u) \/ Finalize(u) \/ Cleanup(u) PROVE FilesReclaimable'
  <2>1. UNCHANGED <<all, closing, holds>> /\ holds[u] \in Sinks
    BY <1>2, StreamStep
  <2>2. abandoned' = abandoned
    BY <1>2 DEF Write, Finalize, Cleanup
  <2>3. \A t \in Sinks \ {holds[u]} : hasFile'[t] = hasFile[t]
    BY <1>2, WriteOK DEF OthersAlone, Finalize, Cleanup, file
  <2>4. \A s \in Sinks : s = holds[u] => u \in Holders(s)'
    BY <2>1 DEF Holders
  <2>5. ASSUME NEW s \in Sinks, hasFile'[s]
        PROVE  s \in Range(all') \cup Range(closing') \cup abandoned' \/ Holders(s)' # {}
    <3>1. CASE s = holds[u]
      BY <2>4, <3>1
    <3>2. CASE s # holds[u]
      <4>1. hasFile[s]
        BY <2>3, <2>5, <3>2
      <4>2. UNCHANGED <<all, closing, abandoned, holds>>
        BY <2>1, <2>2
      <4> QED
        BY <1>1, <2>5, <4>1, <4>2
    <3> QED
      BY <3>1, <3>2
  <2> QED
    BY <2>5 DEF FilesReclaimable
<1>3. ASSUME NEW u \in Streams, NewSink(u) PROVE FilesReclaimable'
  <2>1. /\ UNCHANGED <<hasFile, closing, abandoned>> /\ holds[u] = NoSink
    BY <1>3 DEF NewSink, file, FactoryOK
  <2>2. \A v \in Streams : v # u => holds'[v] = holds[v]
    BY <1>3 DEF NewSink, TakeFromPool, Create, FactoryOK
  <2>3. Range(all) \subseteq Range(all')
    <3>1. CASE all' = all
      BY <3>1
    <3>2. CASE Create(u)
      <4>0. all' = Append(all, created') /\ created' \in Sinks
        BY <3>2, BoundsAssumption DEF Create, FactoryOK, Sinks
      <4>1. /\ DOMAIN all' = 1..(Len(all) + 1) /\ DOMAIN all = 1..Len(all) /\ Len(all) \in Nat
            /\ \A i \in DOMAIN all : all'[i] = all[i]
        BY <4>0 DEF FactoryOK
      <4> QED
        BY <4>1 DEF Range
    <3> QED
      BY <1>3, <3>1, <3>2 DEF NewSink, TakeFromPool
  <2>4. \A s \in Sinks : Holders(s) \subseteq Holders(s)'
    BY <2>1, <2>2, NoSinkIsNone DEF Holders
  <2> QED
    BY <2>1, <2>3, <2>4 DEF FilesReclaimable
<1>4. ASSUME NEW u \in Streams, ReleaseSink(u) PROVE FilesReclaimable'
  <2>1. /\ UNCHANGED <<all, closing, abandoned>> /\ holds[u] \in Sinks /\ holds[u] \in 1..created
        /\ \A v \in Streams : v # u => holds'[v] = holds[v]
    BY <1>4 DEF ReleaseSink, FactoryOK, Own, HeldOnce
  <2>2. \A t \in Sinks \ {holds[u]} : hasFile'[t] = hasFile[t] /\ Holders(t) \subseteq Holders(t)'
    <3>1. \A t \in Sinks \ {holds[u]} : hasFile'[t] = hasFile[t]
      BY <1>4, <2>1, CloseResourcesOK DEF ReleaseSink, sink, file, HistoryOK
    <3> QED
      BY <2>1, <3>1 DEF Holders
  <2>3. CASE closed
    <3>1. ~hasFile'[holds[u]]
      BY <1>4, <2>1, <2>3, CloseResourcesOK DEF ReleaseSink, HistoryOK
    <3> QED
      BY <2>1, <2>2, <3>1 DEF FilesReclaimable
  <2>4. CASE ~closed
    <3>1. holds[u] \in Range(all)
      BY <2>1, <2>4 DEF Own, ClosedTakesAll
    <3> QED
      BY <2>1, <2>2, <3>1 DEF FilesReclaimable
  <2> QED
    BY <2>3, <2>4
<1>5. ASSUME NEW u \in Streams, CleanupFails(u) PROVE FilesReclaimable'
  <2>1. /\ UNCHANGED <<hasFile, all, closing>> /\ holds[u] \in Sinks
        /\ abandoned' = abandoned \cup ({holds[u]} \ (Range(all) \cup Range(closing)))
        /\ \A v \in Streams : v # u => holds'[v] = holds[v]
    BY <1>5 DEF CleanupFails, factory, FactoryOK
  <2>2. \A t \in Sinks \ {holds[u]} : Holders(t) \subseteq Holders(t)'
    BY <2>1 DEF Holders
  <2> QED
    BY <2>1, <2>2 DEF FilesReclaimable
<1>6. CASE Close
  <2>1. ~closed /\ closing' = all /\ UNCHANGED <<hasFile, holds, abandoned>>
    BY <1>6 DEF Close, sink, file
  <2>2. Range(closing) = {}
    BY <2>1 DEF Own, ClosedTakesAll, Range
  <2>3. \A s \in Sinks : Holders(s)' = Holders(s)
    BY <2>1 DEF Holders
  <2> QED
    BY <2>1, <2>2, <2>3 DEF FilesReclaimable
<1>7. CASE CloseNext
  <2>1. /\ closing # <<>> /\ Head(closing) \in Sinks /\ CloseResources(Head(closing))
        /\ closing' = Tail(closing) /\ UNCHANGED <<all, holds, abandoned>>
    BY <1>7 DEF CloseNext, factory, FactoryOK
  <2>2. /\ ~hasFile'[Head(closing)]
        /\ \A t \in Sinks \ {Head(closing)} : hasFile'[t] = hasFile[t]
    BY <2>1, CloseResourcesOK DEF HistoryOK
  <2>3. Range(closing) \subseteq {Head(closing)} \cup Range(closing')
    <3>1. /\ Len(closing) \in Nat \ {0} /\ DOMAIN closing = 1..Len(closing)
          /\ DOMAIN closing' = 1..(Len(closing) - 1)
          /\ \A i \in 1..(Len(closing) - 1) : closing'[i] = closing[i + 1]
          /\ Head(closing) = closing[1]
      BY <2>1 DEF FactoryOK
    <3>2. ASSUME NEW i \in DOMAIN closing, i # 1 PROVE closing[i] \in Range(closing')
      <4>1. i - 1 \in 1..(Len(closing) - 1) /\ closing'[i - 1] = closing[i]
        BY <3>1, <3>2
      <4> QED
        BY <3>1, <4>1 DEF Range
    <3> QED
      BY <3>1, <3>2 DEF Range
  <2>4. \A s \in Sinks : Holders(s)' = Holders(s)
    BY <2>1 DEF Holders
  <2> QED
    BY <2>1, <2>2, <2>3, <2>4 DEF FilesReclaimable
<1>8. CASE Over \/ UNCHANGED vars
  <2>1. UNCHANGED <<hasFile, all, closing, abandoned, holds>>
    BY <1>8 DEF Over, vars, factory, sink, file
  <2> QED
    BY <1>1, <2>1 DEF FilesReclaimable
<1> QED
  BY <1>2, <1>3, <1>4, <1>5, <1>6, <1>7, <1>8 DEF Next, StreamNext

\* Whoever holds a file, or the factory, or the loop of Close, will close it.
THEOREM FilesAreReclaimable == Spec => []FilesReclaimable
<1>1. Init => FilesReclaimable
  BY DEF Init, FilesReclaimable
<1> QED
  BY <1>1, TypedHolds, FilesStep, PTL DEF Spec

--------------------------------------------------------------------------------
(* What the payload reads.                                                    *)

\* The sink s has the bytes w: in memory, or in the file and then in its buffer.
Has(s, w) ==
  /\ size[s] = Len(w)
  /\ ~usingTmp[s] => mem[s] = w
  /\ usingTmp[s] => pos[s] = Len(content[s]) /\ content[s] \o buf[s] = w

\* ... after the step.
WillHave(s, w) ==
  /\ size'[s] = Len(w)
  /\ ~usingTmp'[s] => mem'[s] = w
  /\ usingTmp'[s] => pos'[s] = Len(content'[s]) /\ content'[s] \o buf'[s] = w

\* A stream's sink has what the stream has written to it, and its buffer is
\* empty once the payload is read.
Captured ==
  \A u \in Streams : stage[u] \in {"writing", "value"} /\ ~disturbed[u] =>
    /\ Has(holds[u], written[u])
    /\ stage[u] = "value" /\ usingTmp[holds[u]] => buf[holds[u]] = <<>>

WillCapture(u) ==
  stage'[u] \in {"writing", "value"} /\ ~disturbed'[u] =>
    /\ WillHave(holds'[u], written'[u])
    /\ stage'[u] = "value" /\ usingTmp'[holds'[u]] => buf'[holds'[u]] = <<>>

LEMMA CapturedNext == ASSUME \A u \in Streams : WillCapture(u) PROVE Captured'
BY DEF Captured, Has, WillCapture, WillHave

\* A sink that has not been handed out yet is empty.
FreshEmpty ==
  \A s \in Sinks : s > created => mem[s] = <<>> /\ ~usingTmp[s] /\ size[s] = 0

Empties(s) == mem'[s] = <<>> /\ ~usingTmp'[s] /\ size'[s] = 0

LeavesAlone(s) == mem'[s] = mem[s] /\ usingTmp'[s] = usingTmp[s] /\ size'[s] = size[s]

LEMMA FreshNext ==
  ASSUME created \in Nat, created' \in Nat, created <= created', FreshEmpty,
         \A s \in Sinks : s > created => LeavesAlone(s) \/ Empties(s)
  PROVE  FreshEmpty'
<1>1. ASSUME NEW s \in Sinks, s > created' PROVE Empties(s)
  <2>1. s > created
    BY <1>1 DEF Sinks
  <2>2. mem[s] = <<>> /\ ~usingTmp[s] /\ size[s] = 0
    BY <2>1 DEF FreshEmpty
  <2> QED
    BY <2>1, <2>2 DEF LeavesAlone, Empties
<1> QED
  BY <1>1 DEF FreshEmpty, Empties

\* A Write that succeeds adds its bytes to what the sink has.
LEMMA AppendedHas ==
  ASSUME NEW u \in Streams, NEW s \in Sinks, NEW bytes \in Seq(Nat), NEW w \in Seq(Nat),
         SinksOK, SinksOK', Appended(u, s, bytes), Has(s, w)
  PROVE  WillHave(s, w \o bytes)
<1>0. /\ mem[s] \in Seq(Nat) /\ content[s] \in Seq(Nat) /\ buf[s] \in Seq(Nat)
      /\ content'[s] \in Seq(Nat) /\ <<>> \in Seq(Nat)
  BY DEF SinksOK
<1>1. size'[s] = Len(w \o bytes)
  <2>1. Len(w \o bytes) = Len(w) + Len(bytes)
    BY ConcatLaws
  <2> QED
    BY <2>1 DEF Appended, Has
<1>2. CASE ~usingTmp[s]
  BY <1>1, <1>2 DEF Appended, Has, WillHave
<1>3. ASSUME usingTmp[s] PROVE content[s] \o (buf[s] \o bytes) = w \o bytes
  <2>1. content[s] \o buf[s] = w
    BY <1>3 DEF Has
  <2> DEFINE a == content[s]
             b == buf[s]
  <2>2. a \in Seq(Nat) /\ b \in Seq(Nat) /\ a \o b = w
    BY <1>0, <2>1
  <2> HIDE DEF a, b
  <2>3. a \o (b \o bytes) = w \o bytes
    BY <2>2, JoinLaw
  <2> QED
    BY <2>3 DEF a, b
<1>4. CASE /\ usingTmp[s] /\ usingTmp'[s] /\ buf'[s] = buf[s] \o bytes
           /\ content'[s] = content[s] /\ pos'[s] = pos[s]
  BY <1>1, <1>3, <1>4 DEF Has, WillHave
<1>5. CASE /\ usingTmp[s] /\ usingTmp'[s]
           /\ content'[s] = Overwrite(content[s], pos[s], buf[s] \o bytes)
           /\ pos'[s] = pos[s] + Len(buf[s]) + Len(bytes) /\ buf'[s] = <<>>
  <2>1. pos[s] = Len(content[s])
    BY <1>5 DEF Has
  <2>2. buf[s] \o bytes \in Seq(Nat) /\ Len(buf[s] \o bytes) = Len(buf[s]) + Len(bytes)
    BY <1>0, ConcatLaws
  <2>3. Overwrite(content[s], Len(content[s]), buf[s] \o bytes) = content[s] \o (buf[s] \o bytes)
    BY <1>0, <2>2, OverwriteAppends
  <2>4. content'[s] = w \o bytes
    BY <1>3, <1>5, <2>1, <2>3
  <2>5. pos'[s] = Len(content'[s])
    <3>1. Len(content[s]) \in Nat /\ Len(buf[s]) \in Nat /\ Len(bytes) \in Nat
      BY <1>0
    <3>2. Len(content'[s]) = Len(content[s] \o (buf[s] \o bytes))
      BY <1>5, <2>1, <2>3, Zenon
    <3> DEFINE a == content[s]
               b == buf[s]
    <3>3. a \in Seq(Nat) /\ b \in Seq(Nat)
      BY <1>0
    <3> HIDE DEF a, b
    <3>4. Len(a \o (b \o bytes)) = Len(a) + Len(b) + Len(bytes)
      BY <3>3, JoinLaw
    <3>5. Len(content'[s]) = Len(content[s]) + Len(buf[s]) + Len(bytes)
      BY <3>2, <3>4, Zenon DEF a, b
    <3> QED
      BY <1>5, <2>1, <3>1, <3>5
  <2>6. content'[s] \o buf'[s] = w \o bytes
    <3>1. content'[s] \o <<>> = content'[s]
      BY <1>0, ConcatLaws
    <3> QED
      BY <1>5, <2>4, <3>1
  <2> QED
    BY <1>1, <1>5, <2>5, <2>6 DEF WillHave
<1> QED
  BY <1>2, <1>4, <1>5 DEF Appended

LEMMA FreshStep == Typed /\ Own /\ FreshEmpty /\ [Next]_vars => FreshEmpty'
<1> SUFFICES ASSUME Typed, Own, FreshEmpty, [Next]_vars PROVE FreshEmpty'
  OBVIOUS
<1> USE DEF Typed
<1>1. created \in Nat
  BY BoundsAssumption DEF FactoryOK
<1>2. ASSUME created' = created, \A s \in Sinks : s > created => LeavesAlone(s) \/ Empties(s)
      PROVE  FreshEmpty'
  BY <1>1, <1>2, FreshNext
<1>3. ASSUME NEW u \in Streams, NewSink(u) PROVE FreshEmpty'
  <2>1. CASE TakeFromPool(u)
    <3>1. Last(pool) \in Sinks /\ Reset(Last(pool)) /\ created' = created
      BY <2>1 DEF TakeFromPool, Last, FactoryOK
    <3>2. \A s \in Sinks : LeavesAlone(s) \/ Empties(s)
      BY <3>1, ResetOK DEF LeavesAlone, Empties
    <3> QED
      BY <1>2, <3>1, <3>2
  <2>2. CASE Create(u)
    <3>1. created' \in Nat /\ created <= created' /\ UNCHANGED <<mem, usingTmp, size>>
      BY <1>1, <2>2 DEF Create
    <3>2. \A s \in Sinks : LeavesAlone(s)
      BY <3>1 DEF LeavesAlone
    <3> QED
      BY <1>1, <3>1, <3>2, FreshNext
  <2> QED
    BY <1>3, <2>1, <2>2 DEF NewSink
<1>4. ASSUME NEW u \in Streams, Write(u) \/ Finalize(u) \/ Cleanup(u) PROVE FreshEmpty'
  <2>1. created' = created /\ holds[u] \in Sinks
    BY <1>4, StreamStep
  <2>2. holds[u] \in 1..created
    BY <2>1, NoSinkIsNone DEF Own, HeldOnce
  <2>3. \A t \in Sinks \ {holds[u]} : LeavesAlone(t)
    <3>1. CASE Write(u)
      BY <3>1, WriteOK DEF OthersAlone, LeavesAlone
    <3>2. CASE Finalize(u)
      BY <3>2 DEF Finalize, LeavesAlone
    <3>3. CASE Cleanup(u)
      BY <2>1, <3>3, ResetOK DEF Cleanup, LeavesAlone
    <3> QED
      BY <1>4, <3>1, <3>2, <3>3
  <2>4. \A s \in Sinks : s > created => s # holds[u]
    BY <1>1, <2>2 DEF Sinks
  <2> QED
    BY <1>2, <2>1, <2>3, <2>4
<1>5. ASSUME NEW u \in Streams, ReleaseSink(u) \/ CleanupFails(u) PROVE FreshEmpty'
  <2>1. created' = created /\ holds[u] \in Sinks
    BY <1>5 DEF ReleaseSink, CleanupFails, factory, FactoryOK
  <2>2. CASE UNCHANGED <<mem, usingTmp, size>>
    <3>1. \A s \in Sinks : LeavesAlone(s)
      BY <2>2 DEF LeavesAlone
    <3> QED
      BY <1>2, <2>1, <3>1
  <2>3. CASE CloseResources(holds[u])
    <3>1. \A s \in Sinks : LeavesAlone(s) \/ Empties(s)
      BY <2>1, <2>3, CloseResourcesOK DEF HistoryOK, LeavesAlone, Empties
    <3> QED
      BY <1>2, <2>1, <3>1
  <2> QED
    BY <1>5, <2>2, <2>3 DEF ReleaseSink, CleanupFails, sink
<1>6. CASE CloseNext
  <2>1. created' = created /\ Head(closing) \in Sinks /\ CloseResources(Head(closing))
    BY <1>6 DEF CloseNext, factory, FactoryOK
  <2>2. \A s \in Sinks : LeavesAlone(s) \/ Empties(s)
    BY <2>1, CloseResourcesOK DEF HistoryOK, LeavesAlone, Empties
  <2> QED
    BY <1>2, <2>1, <2>2
<1>7. CASE Close \/ Over \/ UNCHANGED vars
  <2>1. UNCHANGED <<created, mem, usingTmp, size>>
    BY <1>7 DEF Close, Over, vars, factory, sink
  <2>2. \A s \in Sinks : LeavesAlone(s)
    BY <2>1 DEF LeavesAlone
  <2> QED
    BY <1>2, <2>1, <2>2
<1> QED
  BY <1>3, <1>4, <1>5, <1>6, <1>7 DEF Next, StreamNext

SameSink(t) ==
  /\ LeavesAlone(t)
  /\ content'[t] = content[t] /\ buf'[t] = buf[t] /\ pos'[t] = pos[t]

\* A stream that keeps its sink, while the step is another one's.
LEMMA KeptCaptured ==
  ASSUME NEW v \in Streams, Captured, holds'[v] = holds[v], stage'[v] = stage[v],
         written'[v] = written[v], ~disturbed'[v] => ~disturbed[v],
         stage[v] \in {"writing", "value"} /\ ~disturbed'[v] => SameSink(holds[v])
  PROVE  WillCapture(v)
<1> SUFFICES ASSUME stage[v] \in {"writing", "value"}, ~disturbed'[v]
             PROVE  /\ WillHave(holds[v], written[v])
                    /\ stage[v] = "value" /\ usingTmp'[holds[v]] => buf'[holds[v]] = <<>>
  BY DEF WillCapture
<1>1. /\ Has(holds[v], written[v]) /\ SameSink(holds[v])
      /\ stage[v] = "value" /\ usingTmp[holds[v]] => buf[holds[v]] = <<>>
  BY DEF Captured
<1> DEFINE s == holds[v]
<1>2. SameSink(s) /\ Has(s, written[v])
  BY <1>1
<1>3. stage[v] = "value" /\ usingTmp[s] => buf[s] = <<>>
  BY <1>1
<1> HIDE DEF s
<1>4. WillHave(s, written[v])
  BY <1>2 DEF Has, WillHave, SameSink, LeavesAlone
<1>5. stage[v] = "value" /\ usingTmp'[s] => buf'[s] = <<>>
  BY <1>2, <1>3 DEF SameSink, LeavesAlone
<1> QED
  BY <1>4, <1>5 DEF s

LEMMA CapturedStep == Typed /\ Typed' /\ Own /\ FreshEmpty /\ Captured /\ [Next]_vars => Captured'
<1> SUFFICES ASSUME Typed, Typed', Own, FreshEmpty, Captured, [Next]_vars PROVE Captured'
  OBVIOUS
<1> USE DEF Typed
\* No two streams hold one sink.
<1>1. \A u, v \in Streams :
        u # v /\ holds[u] \in Sinks /\ stage[v] \in {"writing", "value"} =>
          holds[v] \in Sinks \ {holds[u]}
  BY NoSinkIsNone DEF FactoryOK, Own, HeldOnce
\* A step of the stream u with its sink leaves the others what they have.
<1>2. ASSUME NEW u \in Streams, holds[u] \in Sinks,
             \A v \in Streams : v # u => /\ holds'[v] = holds[v] /\ stage'[v] = stage[v]
                                         /\ written'[v] = written[v] /\ disturbed'[v] = disturbed[v],
             \A t \in Sinks \ {holds[u]} : SameSink(t),
             WillCapture(u)
      PROVE  Captured'
  <2>1. ASSUME NEW v \in Streams, v # u PROVE WillCapture(v)
    <3>1. /\ holds'[v] = holds[v] /\ stage'[v] = stage[v] /\ written'[v] = written[v]
          /\ disturbed'[v] = disturbed[v]
      BY <1>2, <2>1
    <3>2. stage[v] \in {"writing", "value"} => SameSink(holds[v])
      BY <1>1, <1>2, <2>1
    <3> QED
      BY <3>1, <3>2, KeptCaptured
  <2> QED
    BY <1>2, <2>1, CapturedNext
<1>3. ASSUME NEW u \in Streams, NewSink(u) PROVE Captured'
  <2>1. /\ UNCHANGED <<content, pos, buf>> /\ stage' = [stage EXCEPT ![u] = "writing"]
        /\ written' = [written EXCEPT ![u] = <<>>] /\ disturbed' = [disturbed EXCEPT ![u] = FALSE]
    BY <1>3 DEF NewSink, file
  <2>2. /\ holds'[u] \in Sinks /\ Empties(holds'[u])
        /\ \A v \in Streams : v # u => holds'[v] = holds[v]
        /\ \A t \in Sinks : (\E v \in Streams : holds[v] = t) => LeavesAlone(t)
    <3>1. CASE TakeFromPool(u)
      <4>1. /\ Len(pool) \in DOMAIN pool /\ Last(pool) = pool[Len(pool)] /\ Last(pool) \in Sinks
            /\ Reset(Last(pool)) /\ holds' = [holds EXCEPT ![u] = Last(pool)]
        BY <3>1 DEF TakeFromPool, Last, FactoryOK
      <4>2. \A v \in Streams : holds[v] # Last(pool)
        BY <4>1 DEF Own, PooledOnce
      <4>3. Empties(Last(pool)) /\ \A t \in Sinks \ {Last(pool)} : LeavesAlone(t)
        BY <4>1, ResetOK DEF Empties, LeavesAlone
      <4> QED
        BY <4>1, <4>2, <4>3 DEF FactoryOK
    <3>2. CASE Create(u)
      <4>1. created' = created + 1 /\ created < MaxSinks /\ created \in Nat /\ MaxSinks \in Nat
        BY <3>2, BoundsAssumption DEF Create, FactoryOK
      <4>2. created' \in Sinks /\ created' > created
        BY <4>1 DEF Sinks
      <4>3. UNCHANGED <<mem, usingTmp, size>> /\ holds' = [holds EXCEPT ![u] = created']
        BY <3>2 DEF Create
      <4>4. \A t \in Sinks : LeavesAlone(t)
        BY <4>3 DEF LeavesAlone
      <4>5. \A t \in Sinks : t > created => Empties(t)
        BY <4>3 DEF FreshEmpty, Empties
      <4> QED
        BY <4>2, <4>3, <4>4, <4>5 DEF FactoryOK
    <3> QED
      BY <1>3, <3>1, <3>2 DEF NewSink
  <2>3. WillCapture(u)
    <3>1. written'[u] = <<>> /\ stage'[u] = "writing"
      BY <2>1 DEF FactoryOK, HistoryOK
    <3> QED
      BY <2>2, <3>1 DEF WillCapture, WillHave, Empties
  <2>4. ASSUME NEW v \in Streams, v # u PROVE WillCapture(v)
    <3>1. /\ stage'[v] = stage[v] /\ written'[v] = written[v] /\ disturbed'[v] = disturbed[v]
          /\ holds'[v] = holds[v]
      BY <2>1, <2>2, <2>4 DEF FactoryOK, HistoryOK
    <3>2. stage[v] \in {"writing", "value"} => SameSink(holds[v])
      BY <2>1, <2>2 DEF FactoryOK, SameSink
    <3> QED
      BY <3>1, <3>2, KeptCaptured
  <2> QED
    BY <2>3, <2>4, CapturedNext
<1>4. ASSUME NEW u \in Streams, Write(u) PROVE Captured'
  <2>1. UNCHANGED <<holds, disturbed>> /\ holds[u] \in Sinks /\ OthersAlone(holds[u]) /\ stage[u] = "writing"
    BY <1>4, StreamStep, WriteOK DEF Write
  <2>2. \A t \in Sinks \ {holds[u]} : SameSink(t)
    BY <2>1 DEF OthersAlone, SameSink, LeavesAlone
  <2>3. CASE Failed(u) /\ written' = written
    <3>1. stage'[u] = "failed" /\ \A v \in Streams : v # u => stage'[v] = stage[v]
      BY <2>3 DEF Failed, FactoryOK
    <3>2. WillCapture(u)
      BY <3>1 DEF WillCapture
    <3> QED
      BY <1>2, <2>1, <2>2, <2>3, <3>1, <3>2
  <2>4. ASSUME NEW bytes \in Seq(Nat), Appended(u, holds[u], bytes) PROVE Captured'
    <3>1. /\ stage' = stage /\ written'[u] = written[u] \o bytes
          /\ \A v \in Streams : v # u => written'[v] = written[v]
      BY <2>4 DEF Appended, HistoryOK
    <3>2. WillCapture(u)
      <4>1. SUFFICES ASSUME ~disturbed[u] PROVE WillHave(holds[u], written[u] \o bytes)
        BY <2>1, <3>1 DEF WillCapture
      <4>2. Has(holds[u], written[u]) /\ written[u] \in Seq(Nat)
        BY <2>1, <4>1 DEF Captured, HistoryOK
      <4> QED
        BY <2>1, <2>4, <4>2, AppendedHas
    <3> QED
      BY <1>2, <2>1, <2>2, <3>1, <3>2
  <2> QED
    BY <1>4, <2>3, <2>4, WriteOK
<1>5. ASSUME NEW u \in Streams, Finalize(u) PROVE Captured'
  <2>1. /\ UNCHANGED <<holds, mem, usingTmp, size, written, disturbed>>
        /\ holds[u] \in Sinks /\ stage[u] = "writing"
    BY <1>5, StreamStep DEF Finalize, history
  <2> DEFINE s == holds[u]
  <2>2. /\ \A t \in Sinks \ {s} : content'[t] = content[t] /\ buf'[t] = buf[t] /\ pos'[t] = pos[t]
        /\ stage'[u] = "value" => \/ ~usingTmp[s]
                                  \/ /\ content'[s] = Overwrite(content[s], pos[s], buf[s])
                                     /\ pos'[s] = pos[s] + Len(buf[s]) /\ buf'[s] = <<>>
        /\ \A v \in Streams : v # u => stage'[v] = stage[v]
        /\ stage'[u] \in {"value", "failed"}
    <3>1. CASE ~usingTmp[s] /\ stage' = [stage EXCEPT ![u] = "value"] /\ UNCHANGED file
      BY <3>1 DEF file, FactoryOK
    <3>2. CASE FlushTo(s, pos[s] + Len(buf[s])) /\ stage' = [stage EXCEPT ![u] = "value"]
      <4>1. pos[s] + Len(buf[s]) \in Nat
        BY <2>1 DEF SinksOK
      <4> QED
        BY <2>1, <3>2, <4>1, FlushToOK DEF FactoryOK
    <3>3. CASE FlushFails(s) /\ Failed(u)
      BY <3>3 DEF FlushFails, Failed, FactoryOK
    <3> QED
      BY <1>5, <3>1, <3>2, <3>3 DEF Finalize
  <2>3. \A t \in Sinks \ {s} : SameSink(t)
    BY <2>1, <2>2 DEF SameSink, LeavesAlone
  <2>4. WillCapture(u)
    <3>1. SUFFICES ASSUME stage'[u] = "value", ~disturbed[u]
                   PROVE  WillHave(s, written[u]) /\ (usingTmp[s] => buf'[s] = <<>>)
      BY <2>1, <2>2 DEF WillCapture
    <3>2. Has(s, written[u]) /\ written[u] \in Seq(Nat)
      BY <2>1, <3>1 DEF Captured, HistoryOK
    <3>3. CASE ~usingTmp[s]
      BY <2>1, <3>2, <3>3 DEF Has, WillHave
    <3>4. CASE usingTmp[s]
      <4>1. content[s] \in Seq(Nat) /\ buf[s] \in Seq(Nat)
        BY <2>1 DEF SinksOK
      <4>2. pos[s] = Len(content[s]) /\ content[s] \o buf[s] = written[u] /\ size[s] = Len(written[u])
        BY <3>2, <3>4 DEF Has
      <4>3. content'[s] = Overwrite(content[s], pos[s], buf[s]) /\ buf'[s] = <<>>
            /\ pos'[s] = pos[s] + Len(buf[s])
        BY <2>2, <3>1, <3>4
      <4>4. content'[s] = written[u]
        BY <4>1, <4>2, <4>3, OverwriteAppends
      <4>5. Len(content[s] \o buf[s]) = Len(content[s]) + Len(buf[s])
        BY <4>1, ConcatLaws
      <4>6. written[u] \o <<>> = written[u]
        BY <3>2, ConcatLaws
      <4>7. pos'[s] = Len(content'[s]) /\ content'[s] \o buf'[s] = written[u]
        BY <4>2, <4>3, <4>4, <4>5, <4>6
      <4> QED
        BY <2>1, <3>4, <4>2, <4>3, <4>7 DEF WillHave
    <3> QED
      BY <3>3, <3>4
  <2> QED
    BY <1>2, <2>1, <2>2, <2>3, <2>4
\* A candidate that is cleaned up takes no other stream's bytes with it.
<1>6. ASSUME NEW u \in Streams, Cleanup(u) \/ CleanupFails(u) \/ ReleaseSink(u) PROVE Captured'
  <2>1. /\ holds[u] \in Sinks /\ UNCHANGED <<written, disturbed>>
        /\ \A v \in Streams : v # u => stage'[v] = stage[v] /\ holds'[v] = holds[v]
        /\ stage'[u] \in {"idle", "releasing"}
    <3>1. CASE Cleanup(u)
      BY <3>1 DEF Cleanup, history, FactoryOK
    <3>2. CASE CleanupFails(u)
      BY <3>2 DEF CleanupFails, history, FactoryOK
    <3>3. CASE ReleaseSink(u)
      BY <3>3 DEF ReleaseSink, history, FactoryOK
    <3> QED
      BY <1>6, <3>1, <3>2, <3>3
  <2>2. \A t \in Sinks \ {holds[u]} : SameSink(t)
    <3>0. pos[holds[u]] + Len(buf[holds[u]]) \in Nat /\ 0 \in Nat
      BY <2>1 DEF SinksOK
    <3>1. CASE Cleanup(u)
      <4>1. \A t \in Sinks \ {holds[u]} : LeavesAlone(t)
        BY <2>1, <3>1, ResetOK DEF Cleanup, LeavesAlone
      <4>2. CASE UNCHANGED <<content, pos, buf>>
        BY <4>1, <4>2 DEF SameSink
      <4>3. CASE FlushTo(holds[u], 0)
        BY <2>1, <3>0, <4>1, <4>3, FlushToOK DEF SameSink
      <4> QED
        BY <3>1, <4>2, <4>3 DEF Cleanup
    <3>2. CASE CleanupFails(u)
      BY <2>1, <3>0, <3>2, FlushToOK DEF CleanupFails, FlushFails, SameSink, LeavesAlone
    <3>3. CASE ReleaseSink(u)
      <4>1. CASE UNCHANGED sink
        BY <4>1 DEF sink, file, SameSink, LeavesAlone
      <4>2. CASE CloseResources(holds[u])
        BY <2>1, <4>2, CloseResourcesOK DEF HistoryOK, SameSink, LeavesAlone
      <4> QED
        BY <3>3, <4>1, <4>2 DEF ReleaseSink
    <3> QED
      BY <1>6, <3>1, <3>2, <3>3
  <2>3. WillCapture(u)
    BY <2>1 DEF WillCapture
  <2> QED
    BY <1>2, <2>1, <2>2, <2>3
<1>7. CASE CloseNext
  <2>1. /\ Head(closing) \in Sinks /\ CloseResources(Head(closing)) /\ UNCHANGED <<stage, holds, written>>
        /\ disturbed' = [u \in Streams |-> disturbed[u] \/ holds[u] = Head(closing)]
    BY <1>7 DEF CloseNext, FactoryOK
  <2>2. \A t \in Sinks \ {Head(closing)} : SameSink(t)
    BY <2>1, CloseResourcesOK DEF HistoryOK, SameSink, LeavesAlone
  <2>3. ASSUME NEW v \in Streams PROVE WillCapture(v)
    <3>1. ~disturbed'[v] => ~disturbed[v] /\ holds[v] # Head(closing)
      BY <2>1
    <3>2. stage[v] \in {"writing", "value"} => holds[v] \in Sinks
      BY DEF FactoryOK
    <3> QED
      BY <2>1, <2>2, <3>1, <3>2, KeptCaptured
  <2> QED
    BY <2>3, CapturedNext
<1>8. CASE Close \/ Over \/ UNCHANGED vars
  <2>1. UNCHANGED <<stage, holds, mem, usingTmp, size, content, pos, buf, written, disturbed>>
    BY <1>8 DEF Close, Over, vars, sink, file, history
  <2> QED
    BY <2>1 DEF Captured, Has
<1> QED
  BY <1>3, <1>4, <1>5, <1>6, <1>7, <1>8 DEF Next, StreamNext

\* OnValue reads what its stream has written, and nothing that earlier
\* candidates have left in the file or in its buffer.
THEOREM PayloadsAreIntact == Spec => []PayloadIntact
<1>1. Init => FreshEmpty /\ Captured
  BY DEF Init, FreshEmpty, Captured
<1>2. Typed /\ Captured => PayloadIntact
  <2> SUFFICES ASSUME Typed, Captured, NEW u \in Streams, stage[u] = "value", ~disturbed[u]
               PROVE  /\ (IF usingTmp[holds[u]] THEN content[holds[u]] ELSE mem[holds[u]]) = written[u]
                      /\ size[holds[u]] = Len(written[u])
    BY DEF PayloadIntact
  <2>1. /\ Has(holds[u], written[u]) /\ holds[u] \in Sinks
        /\ usingTmp[holds[u]] => buf[holds[u]] = <<>>
    BY DEF Captured, Typed, FactoryOK
  <2>2. content[holds[u]] \o <<>> = content[holds[u]]
    BY <2>1, ConcatLaws DEF Typed, SinksOK
  <2> QED
    BY <2>1, <2>2 DEF Has
<1> QED
  BY <1>1, <1>2, TypedHolds, FreshStep, CapturedStep, PTL DEF Spec

================================================================================
