--------------------------- MODULE SharedStateProofs ---------------------------
(***************************************************************************)
(* State that calls leave to the calls that follow them does no harm.      *)
(*                                                                         *)
(* PlanCache: the plan cache holds one plan for each selector, and every   *)
(* call selects what its own selector means, or what one means that is     *)
(* taken for it, and with the dates of its own time unless another caller  *)
(* has overwritten those of its plan: for any number of calls, states,     *)
(* objects and selectors, any hash, and whatever selectorEqual ignores.    *)
(*                                                                         *)
(* ProjectFields: a call writes the selected fields of its own document    *)
(* and nothing else, out of a tree and keys that the pooled state keeps:   *)
(* for any pointers, documents, limits, capacities and failures.           *)
(***************************************************************************)
EXTENDS PlanCache, ProjectFields, FiniteSetTheorems, WellFoundedInduction, TLAPS

--------------------------------------------------------------------------------
(* PlanCache.                                                                  *)

\* A plan can serve selector s: it was compiled from one with the same date term,
\* and with terms that s or a selector equal to it has.
Serves(p, s) ==
  /\ p.compiled.date = Date[s]
  /\ Date[s] \notin Relative => p.compiled.at = 0
  /\ \E t \in Selectors : (t = s \/ Equal(t, s)) /\ p.compiled.terms = Means[t]

\* What is kept serves the selector it is kept for.
KeptServes ==
  /\ \A i \in DOMAIN entries : Serves(entries[i].plan, entries[i].key)
  /\ \A st \in States : \A m \in memo[st] : Serves(m.plan, m.key)

\* What a call has got, and what it runs with, serves the one object it was given.
CallsServed ==
  \A c \in Calls :
    /\ \A o1, o2 \in request[c] : o1 = o2
    /\ pc[c] \in {"idle", "compile", "scan"} => plan[c] = {}
    /\ pc[c] # "scan" => engine[c] = {}
    /\ \A p \in plan[c], o \in request[c] : Serves(p, object[o])

IInv == TypeOK /\ OnePlanEach /\ KeptServes /\ CallsServed /\ EngineIsFresh

--------------------------------------------------------------------------------

\* What serves a selector serves every selector that is equal to it.
LEMMA EqualServes ==
  ASSUME NEW s \in Selectors, NEW t \in Selectors, Equal(s, t), NEW p, Serves(p, s)
  PROVE  Serves(p, t)
<1>1. Date[s] = Date[t] /\ Equal(t, s)
  BY SameAssumption DEF Equal
<1>2. PICK u \in Selectors : (u = s \/ Equal(u, s)) /\ p.compiled.terms = Means[u]
  BY DEF Serves
<1>3. u = t \/ Equal(u, t)
  BY <1>2, SameAssumption DEF Equal
<1> QED
  BY <1>1, <1>2, <1>3 DEF Serves

\* The meaning of a selector at a reading of the clock.
LEMMA MeaningType ==
  ASSUME NEW s \in Selectors, NEW t \in Clock
  PROVE  MeaningAt(s, t) \in Meanings
<1>1. Means[s] \in Nat /\ Date[s] \in Nat
  BY SelectorAssumption
<1>2. (IF Date[s] \in Relative THEN t ELSE 0) \in Clock
  BY LimitAssumption DEF Clock
<1> QED
  BY <1>1, <1>2 DEF MeaningAt, Meanings

\* A plan serves the selector it was just compiled from.
LEMMA CompiledServes ==
  ASSUME TypeOK, NEW o \in Objects
  PROVE  Compiled(o) \in Plans /\ Serves(Compiled(o), object[o])
<1>1. object[o] \in Selectors /\ clock \in Clock
  BY DEF TypeOK
<1>2. Compiled(o) \in Plans
  BY <1>1, MeaningType DEF Compiled, Plans
<1>3. Serves(Compiled(o), object[o])
  BY <1>1 DEF Compiled, Serves, MeaningAt
<1> QED
  BY <1>2, <1>3

\* What an engine e, made now, may have of the selector of object o.
OwnMeaning(e, o) ==
  LET own == MeaningAt(object[o], e.at)
  IN  /\ \/ e.means.terms = own.terms
         \/ \E s \in Selectors : Equal(s, object[o]) /\ e.means.terms = Means[s]
      /\ \/ e.means.date = own.date /\ e.means.at = own.at
         \/ own.date \in Relative /\ e.plan.object # o /\ Overwritten(e)

\* What a call runs with, out of a plan that serves its own selector.
LEMMA RuntimeIsMeaning ==
  ASSUME TypeOK, NEW p \in Plans, NEW o \in Objects, Serves(p, object[o])
  PROVE  LET e == [plan |-> p, means |-> Runtime(p), at |-> clock]
         IN  e \in Engines /\ OwnMeaning(e, o)
<1> DEFINE e   == [plan |-> p, means |-> Runtime(p), at |-> clock]
           s   == object[o]
           now == MeaningAt(object[p.object], clock)
<1>1. s \in Selectors /\ object[p.object] \in Selectors /\ clock \in Clock /\ p.compiled \in Meanings
  BY DEF TypeOK, Plans
<1>2. now \in Meanings
  BY <1>1, MeaningType
<1>3. /\ p.compiled.date = Date[s]
      /\ Date[s] \notin Relative => p.compiled.at = 0
  BY DEF Serves
<1>4. PICK t \in Selectors : (t = s \/ Equal(t, s)) /\ p.compiled.terms = Means[t]
  BY DEF Serves
<1>5. CASE Date[s] \in Relative
  <2>1. Runtime(p) = [now EXCEPT !.terms = p.compiled.terms]
    BY <1>3, <1>5 DEF Runtime, IsRelative
  <2>2. now.date = Date[object[p.object]] /\ now.at = (IF Date[object[p.object]] \in Relative THEN clock ELSE 0)
    BY DEF MeaningAt
  <2> HIDE DEF now
  <2>3. /\ Runtime(p) \in Meanings /\ Runtime(p).terms = p.compiled.terms
        /\ Runtime(p).date = now.date /\ Runtime(p).at = now.at
    BY <1>1, <1>2, <2>1 DEF Meanings
  <2>4. e \in Engines
    BY <1>1, <2>3 DEF Engines
  <2>5. /\ e.at = clock /\ e.plan = p /\ e.means.terms = p.compiled.terms
        /\ e.means.date = now.date /\ e.means.at = now.at
    BY <2>3
  <2>6. MeaningAt(s, clock) = [terms |-> Means[s], date |-> Date[s], at |-> clock]
    BY <1>5 DEF MeaningAt
  <2>7. e.means.terms = Means[s] \/ \E u \in Selectors : Equal(u, s) /\ e.means.terms = Means[u]
    BY <1>4, <2>5
  <2>8. CASE now.date = Date[s]
    <3>1. e.means.date = Date[s] /\ e.means.at = clock
      BY <1>5, <2>2, <2>5, <2>8
    <3> QED
      BY <2>4, <2>5, <2>6, <2>7, <3>1 DEF OwnMeaning
  <2>9. CASE now.date # Date[s]
    <3>1. p.object # o
      BY <2>2, <2>9
    <3>2. Overwritten(e)
      BY <1>3, <2>5, <2>9 DEF Overwritten
    <3> QED
      BY <1>5, <2>4, <2>5, <2>6, <2>7, <3>1, <3>2 DEF OwnMeaning
  <2> QED
    BY <2>8, <2>9
<1>6. CASE Date[s] \notin Relative
  <2>1. Runtime(p) = p.compiled
    BY <1>3, <1>6 DEF Runtime, IsRelative
  <2>2. e \in Engines
    BY <1>1, <2>1 DEF Engines
  <2> QED
    BY <1>3, <1>4, <1>6, <2>1, <2>2 DEF OwnMeaning, MeaningAt
<1> QED
  BY <1>5, <1>6

\* An entry is appended only if no equal one is found in its bucket.
LEMMA PutKeeps ==
  ASSUME TypeOK, OnePlanEach, NEW s \in Selectors, NEW p \in Plans, Put(s, p)
  PROVE  /\ entries' \in Seq(Keyed) /\ OnePlanEach'
         /\ \A i \in DOMAIN entries' :
              (i \in DOMAIN entries /\ entries'[i] = entries[i]) \/ entries'[i] = [key |-> s, plan |-> p]
<1>1. CASE UNCHANGED entries
  BY <1>1 DEF TypeOK, OnePlanEach, Equal
<1>2. CASE /\ Hits(s) = {} /\ Len(entries) < MaxEntries
           /\ entries' = Append(entries, [key |-> s, plan |-> p])
  <2> DEFINE e == [key |-> s, plan |-> p]
  <2>1. e \in Keyed /\ entries \in Seq(Keyed)
    BY DEF Keyed, TypeOK
  <2>2. /\ entries' \in Seq(Keyed) /\ Len(entries') = Len(entries) + 1
        /\ DOMAIN entries = 1..Len(entries) /\ DOMAIN entries' = 1..(Len(entries) + 1)
        /\ Len(entries) \in Nat
        /\ \A i \in DOMAIN entries : entries'[i] = entries[i]
        /\ entries'[Len(entries) + 1] = e
    BY <1>2, <2>1
  <2>3. \A i \in DOMAIN entries : ~(Hash[entries[i].key] = Hash[s] /\ Equal(entries[i].key, s))
    BY <1>2 DEF Hits
  <2>4. Len(entries') <= MaxEntries
    BY <1>2, <2>2, LimitAssumption
  <2>5. ASSUME NEW i \in DOMAIN entries', NEW j \in DOMAIN entries',
               i < j, Hash[entries'[i].key] = Hash[entries'[j].key]
        PROVE  ~Equal(entries'[i].key, entries'[j].key)
    <3>1. i \in DOMAIN entries
      BY <2>2, <2>5
    <3>2. CASE j \in DOMAIN entries
      BY <2>2, <2>5, <3>1, <3>2 DEF OnePlanEach
    <3>3. CASE j = Len(entries) + 1
      <4>1. entries'[j].key = s
        BY <2>2, <3>3
      <4> QED
        BY <2>2, <2>3, <2>5, <3>1, <4>1
    <3> QED
      BY <2>2, <3>2, <3>3
  <2> QED
    BY <2>2, <2>4, <2>5 DEF OnePlanEach, Equal
<1> QED
  BY <1>1, <1>2 DEF Put

--------------------------------------------------------------------------------

LEMMA InitIInv == Init => IInv
BY LimitAssumption
   DEF Init, IInv, TypeOK, OnePlanEach, KeptServes, CallsServed, EngineIsFresh, Clock, Points

\* A lookup, in the memo or in the cache, finds a plan that serves the caller.
LEMMA LookupKeeps ==
  ASSUME IInv, NEW c \in Calls, NEW o \in Objects, NEW st \in States, GetSelectorPlan(c, o, st)
  PROVE  IInv'
<1> USE DEF IInv
<1>1. object[o] \in Selectors
  BY DEF TypeOK
<1>2. /\ pc[c] = "idle" /\ request' = [request EXCEPT ![c] = {o}]
      /\ state' = [state EXCEPT ![c] = {st}]
      /\ UNCHANGED <<clock, object, entries, engine>>
  BY DEF GetSelectorPlan
<1>3. plan[c] = {} /\ engine[c] = {}
  BY <1>2 DEF CallsServed
<1>4. \/ /\ pc' = [pc EXCEPT ![c] = "compile"]
         /\ UNCHANGED <<plan, memo>>
      \/ \E p \in Plans :
           /\ Serves(p, object[o])
           /\ plan' = [plan EXCEPT ![c] = {p}] /\ pc' = [pc EXCEPT ![c] = "prepare"]
           /\ \/ UNCHANGED memo
              \/ memo' = [memo EXCEPT ![st] = {[key |-> object[o], plan |-> p]}]
  <2>1. ASSUME NEW m \in memo[st], Equal(m.key, object[o]), Found(c, m.plan), UNCHANGED memo
        PROVE  <1>4!2
    <3>1. m \in Keyed /\ Serves(m.plan, m.key)
      BY DEF TypeOK, KeptServes
    <3>2. m.plan \in Plans /\ Serves(m.plan, object[o])
      BY <1>1, <2>1, <3>1, EqualServes DEF Keyed
    <3> QED
      BY <2>1, <3>2 DEF Found
  <2>2. ASSUME NEW i \in Hits(object[o]), Found(c, entries[i].plan),
               Remember(st, object[o], entries[i].plan)
        PROVE  <1>4!2
    <3>1. i \in DOMAIN entries /\ Equal(entries[i].key, object[o])
      BY DEF Hits
    <3>2. entries[i] \in Keyed
      BY <3>1 DEF TypeOK
    <3>3. entries[i].plan \in Plans /\ Serves(entries[i].plan, object[o])
      BY <1>1, <3>1, <3>2, EqualServes DEF Keyed, KeptServes
    <3> QED
      BY <2>2, <3>3 DEF Found, Remember
  <2> QED
    BY <2>1, <2>2 DEF GetSelectorPlan
<1>5. TypeOK'
  <2>1. /\ clock' \in Clock /\ object' \in [Objects -> Selectors] /\ entries' \in Seq(Keyed)
        /\ request' \in [Calls -> SUBSET Objects] /\ state' \in [Calls -> SUBSET States]
        /\ engine' \in [Calls -> SUBSET Engines]
    BY <1>2 DEF TypeOK
  <2>2. \A p \in Plans : [key |-> object[o], plan |-> p] \in Keyed
    BY <1>1 DEF Keyed
  <2>3. memo' \in [States -> SUBSET Keyed]
    BY <1>4, <2>2 DEF TypeOK
  <2>4. pc' \in [Calls -> Points] /\ plan' \in [Calls -> SUBSET Plans]
    BY <1>4 DEF TypeOK, Points
  <2> QED
    BY <2>1, <2>3, <2>4 DEF TypeOK
<1>6. OnePlanEach'
  BY <1>2 DEF OnePlanEach, Equal
<1>7. KeptServes'
  BY <1>2, <1>4 DEF KeptServes, Serves, TypeOK
<1>8. CallsServed'
  BY <1>2, <1>3, <1>4 DEF CallsServed, Serves, TypeOK
<1>9. EngineIsFresh'
  BY <1>2, <1>3 DEF EngineIsFresh, MeaningAt, TypeOK
<1> QED
  BY <1>5, <1>6, <1>7, <1>8, <1>9

LEMMA CompileKeeps == ASSUME IInv, NEW c \in Calls, Compile(c) PROVE IInv'
<1> USE DEF IInv
<1>1. PICK o \in request[c] : plan' = [plan EXCEPT ![c] = {Compiled(o)}]
  BY DEF Compile
<1>2. o \in Objects /\ Compiled(o) \in Plans /\ Serves(Compiled(o), object[o])
  BY CompiledServes DEF TypeOK
<1>3. /\ pc[c] = "compile" /\ pc' = [pc EXCEPT ![c] = "put"]
      /\ UNCHANGED <<clock, object, entries, memo, request, state, engine>>
  BY DEF Compile
<1>4. TypeOK'
  BY <1>1, <1>2, <1>3 DEF TypeOK, Points
<1>5. OnePlanEach' /\ KeptServes' /\ EngineIsFresh'
  BY <1>3 DEF OnePlanEach, Equal, KeptServes, Serves, EngineIsFresh, MeaningAt
<1>6. CallsServed'
  BY <1>1, <1>2, <1>3 DEF CallsServed, Serves, TypeOK
<1> QED
  BY <1>4, <1>5, <1>6

LEMMA PutSelectorPlanKeeps == ASSUME IInv, NEW c \in Calls, PutSelectorPlan(c) PROVE IInv'
<1> USE DEF IInv
<1>1. PICK o \in request[c], st \in state[c], p \in plan[c] :
        Put(object[o], p) /\ Remember(st, object[o], p)
  BY DEF PutSelectorPlan
<1>2. /\ o \in Objects /\ st \in States /\ p \in Plans /\ object[o] \in Selectors
      /\ Serves(p, object[o])
  BY DEF TypeOK, CallsServed
<1>3. /\ pc[c] = "put" /\ pc' = [pc EXCEPT ![c] = "prepare"]
      /\ UNCHANGED <<clock, object, request, state, plan, engine>>
  BY DEF PutSelectorPlan
<1>4. /\ entries' \in Seq(Keyed) /\ OnePlanEach'
      /\ \A i \in DOMAIN entries' :
           (i \in DOMAIN entries /\ entries'[i] = entries[i]) \/ entries'[i] = [key |-> object[o], plan |-> p]
  BY <1>1, <1>2, PutKeeps
<1>5. TypeOK'
  BY <1>1, <1>2, <1>3, <1>4 DEF TypeOK, Points, Remember, Keyed
<1>6. KeptServes'
  <2> DEFINE new == [key |-> object[o], plan |-> p]
  <2>1. Serves(new.plan, new.key)
    BY <1>2
  <2>2. memo' = [memo EXCEPT ![st] = {new}]
    BY <1>1 DEF Remember
  <2> HIDE DEF new
  <2>3. \A i \in DOMAIN entries' : Serves(entries'[i].plan, entries'[i].key)
    BY <1>4, <2>1 DEF KeptServes, new
  <2>4. ASSUME NEW u \in States, NEW m \in memo'[u] PROVE Serves(m.plan, m.key)
    <3>1. m = new \/ m \in memo[u]
      BY <2>2 DEF TypeOK
    <3> QED
      BY <2>1, <3>1 DEF KeptServes
  <2> QED
    BY <2>3, <2>4 DEF KeptServes, Serves
<1>7. CallsServed' /\ EngineIsFresh'
  BY <1>3 DEF CallsServed, Serves, EngineIsFresh, MeaningAt, TypeOK
<1> QED
  BY <1>4, <1>5, <1>6, <1>7

LEMMA PrepareKeeps == ASSUME IInv, NEW c \in Calls, Prepare(c) PROVE IInv'
<1> USE DEF IInv
<1> DEFINE Made(p) == [plan |-> p, means |-> Runtime(p), at |-> clock]
<1>1. /\ pc[c] = "prepare" /\ pc' = [pc EXCEPT ![c] = "scan"]
      /\ engine' = [engine EXCEPT ![c] = {Made(p) : p \in plan[c]}]
      /\ plan' = [plan EXCEPT ![c] = {}]
      /\ UNCHANGED <<clock, object, entries, memo, request, state>>
  BY DEF Prepare
<1>2. ASSUME NEW p \in plan[c], NEW o \in request[c] PROVE Made(p) \in Engines /\ OwnMeaning(Made(p), o)
  <2>1. p \in Plans /\ o \in Objects /\ Serves(p, object[o])
    BY DEF TypeOK, CallsServed
  <2> QED
    BY <2>1, RuntimeIsMeaning
<1>3. ASSUME NEW p \in plan[c] PROVE Made(p) \in Engines
  <2>1. p \in Plans /\ p.compiled \in Meanings /\ object[p.object] \in Selectors /\ clock \in Clock
    BY DEF TypeOK, Plans
  <2>2. MeaningAt(object[p.object], clock) \in Meanings
    BY <2>1, MeaningType
  <2>3. Runtime(p) \in Meanings
    BY <2>1, <2>2 DEF Runtime, Meanings
  <2> QED
    BY <2>1, <2>3 DEF Engines
<1> HIDE DEF Made
<1>4. TypeOK'
  BY <1>1, <1>3 DEF TypeOK, Points
<1>5. OnePlanEach' /\ KeptServes'
  BY <1>1 DEF OnePlanEach, Equal, KeptServes, Serves
<1>6. CallsServed'
  BY <1>1 DEF CallsServed, Serves, TypeOK
<1>7. EngineIsFresh'
  <2>1. \A d \in Calls : \A e \in engine[d], o \in request[d] : OwnMeaning(e, o)
    BY DEF EngineIsFresh, OwnMeaning
  <2>2. \A d \in Calls : \A e \in engine'[d], o \in request[d] : OwnMeaning(e, o)
    BY <1>1, <1>2, <2>1 DEF TypeOK
  <2> QED
    BY <1>1, <2>2 DEF EngineIsFresh, OwnMeaning, MeaningAt, Overwritten, Equal
<1> QED
  BY <1>4, <1>5, <1>6, <1>7

LEMMA ReturnKeeps == ASSUME IInv, NEW c \in Calls, Return(c) PROVE IInv'
<1> USE DEF IInv
<1>1. /\ pc' = [pc EXCEPT ![c] = "idle"]
      /\ request' = [request EXCEPT ![c] = {}] /\ state' = [state EXCEPT ![c] = {}]
      /\ engine' = [engine EXCEPT ![c] = {}] /\ plan' = [plan EXCEPT ![c] = {}]
      /\ UNCHANGED <<clock, object, entries, memo>>
  BY DEF Return
<1>2. TypeOK'
  BY <1>1 DEF TypeOK, Points
<1>3. OnePlanEach' /\ KeptServes'
  BY <1>1 DEF OnePlanEach, Equal, KeptServes, Serves
<1>4. CallsServed'
  BY <1>1 DEF CallsServed, Serves, TypeOK
<1>5. EngineIsFresh'
  <2>1. \A d \in Calls : \A e \in engine[d], o \in request[d] : OwnMeaning(e, o)
    BY DEF EngineIsFresh, OwnMeaning
  <2>2. \A d \in Calls : \A e \in engine'[d], o \in request'[d] : OwnMeaning(e, o)
    BY <1>1, <2>1 DEF TypeOK
  <2> QED
    BY <1>1, <2>2 DEF EngineIsFresh, OwnMeaning, MeaningAt, Overwritten, Equal
<1> QED
  BY <1>2, <1>3, <1>4, <1>5

\* What is kept and what calls have got does not depend on an object that no
\* call was given.
LEMMA OverwriteKeeps ==
  ASSUME IInv, NEW o \in Objects, NEW s \in Selectors, Overwrite(o, s) PROVE IInv'
<1> USE DEF IInv
<1>1. /\ \A c \in Calls : o \notin request[c]
      /\ object' = [object EXCEPT ![o] = s] /\ object \in [Objects -> Selectors]
      /\ UNCHANGED <<clock, entries, memo, pc, request, state, plan, engine>>
  BY DEF Overwrite, caller, TypeOK
<1>2. TypeOK'
  BY <1>1 DEF TypeOK
<1>3. OnePlanEach' /\ KeptServes'
  BY <1>1 DEF OnePlanEach, KeptServes, Serves, Equal
<1>4. \A c \in Calls : \A r \in request[c] : object'[r] = object[r]
  BY <1>1 DEF TypeOK
<1>5. CallsServed'
  BY <1>1, <1>4 DEF CallsServed, Serves, Equal
<1>6. EngineIsFresh'
  BY <1>1, <1>4 DEF EngineIsFresh, MeaningAt, Overwritten, Equal
<1> QED
  BY <1>2, <1>3, <1>5, <1>6

LEMMA DropKeeps == ASSUME IInv, NEW st \in States, Drop(st) PROVE IInv'
<1>1. TypeOK'
  BY DEF IInv, Drop, caller, TypeOK
<1>2. OnePlanEach' /\ KeptServes'
  BY DEF IInv, Drop, caller, OnePlanEach, Equal, KeptServes, Serves
<1>3. CallsServed'
  BY DEF IInv, Drop, caller, CallsServed, Serves, Equal
<1>4. EngineIsFresh'
  BY DEF IInv, Drop, caller, EngineIsFresh, MeaningAt, Overwritten, Equal
<1> QED
  BY <1>1, <1>2, <1>3, <1>4 DEF IInv

LEMMA TickKeeps == ASSUME IInv, Tick PROVE IInv'
<1>1. clock \in Nat /\ clock' \in Clock
  BY LimitAssumption DEF IInv, TypeOK, Tick, Clock
<1>2. TypeOK'
  BY <1>1 DEF IInv, Tick, caller, TypeOK
<1>3. OnePlanEach' /\ KeptServes'
  BY DEF IInv, Tick, caller, OnePlanEach, Equal, KeptServes, Serves
<1>4. CallsServed'
  BY DEF IInv, Tick, caller, CallsServed, Serves, Equal
<1>5. EngineIsFresh'
  BY DEF IInv, Tick, caller, EngineIsFresh, MeaningAt, Overwritten, Equal
<1> QED
  BY <1>2, <1>3, <1>4, <1>5 DEF IInv

LEMMA StepIInv == IInv /\ [Next]_vars => IInv'
<1> SUFFICES ASSUME IInv, [Next]_vars PROVE IInv'
  OBVIOUS
<1>1. CASE UNCHANGED vars
  <2>1. TypeOK'
    BY <1>1 DEF vars, caller, IInv, TypeOK
  <2>2. OnePlanEach' /\ KeptServes' /\ CallsServed'
    BY <1>1 DEF vars, caller, IInv, OnePlanEach, Equal, KeptServes, Serves, CallsServed
  <2>3. EngineIsFresh'
    BY <1>1 DEF vars, caller, IInv, EngineIsFresh, MeaningAt, Overwritten, Equal
  <2> QED
    BY <2>1, <2>2, <2>3 DEF IInv
<1>2. CASE Next
  BY <1>2, LookupKeeps, CompileKeeps, PutSelectorPlanKeeps, PrepareKeeps, ReturnKeeps,
     OverwriteKeeps, DropKeeps, TickKeeps DEF Next
<1> QED
  BY <1>1, <1>2

LEMMA Inductive == Spec => []IInv
BY InitIInv, StepIInv, PTL DEF Spec

\* The cache holds one plan for each selector and keeps within its limit.
THEOREM CacheHoldsOneOfEach == Spec => []OnePlanEach
BY Inductive, PTL DEF IInv

\* Every call selects by the terms of its own selector, or of one that
\* selectorEqual does not tell from it (stream_query_selector_cache.go:109-126),
\* and by its own date at the time of the call, unless that is relative and the
\* plan reads it from another object that has been overwritten
\* (stream_query.go:4871).
THEOREM CallsUseTheirOwnSelector == Spec => []EngineIsFresh
BY Inductive, PTL DEF IInv

--------------------------------------------------------------------------------
(* ProjectFields: sequences.                                                   *)

\* A set of numbers has a least one.
LEMMA Least ==
  ASSUME NEW S, S \subseteq Nat, S # {}
  PROVE  \E n \in S : \A k \in S : n <= k
<1> DEFINE Less == {ss \in Nat \X Nat : ss[1] < ss[2]}
<1>1. IsWellFoundedOn(Less, Nat)
  BY NatLessThanWellFounded DEF OpToRel
<1>2. PICK n \in S : \A k \in S : <<k, n>> \notin Less
  <2> HIDE DEF Less
  <2> QED
    BY <1>1, WFMin
<1>3. ASSUME NEW k \in S PROVE n <= k
  <2>1. <<k, n>> \in Less <=> k < n
    OBVIOUS
  <2> HIDE DEF Less
  <2> QED
    BY <1>2, <2>1
<1> QED
  BY <1>3

\* A sequence is told by its elements.
LEMMA SameSequence ==
  ASSUME NEW S, NEW s \in Seq(S), NEW t \in Seq(S), Len(s) = Len(t), \A i \in 1..Len(s) : s[i] = t[i]
  PROVE  s = t
OBVIOUS

\* The beginning of a sequence.
LEMMA Beginning ==
  ASSUME NEW S, NEW q \in Seq(S), NEW n \in 0..Len(q)
  PROVE  /\ SubSeq(q, 1, n) \in Seq(S) /\ Len(SubSeq(q, 1, n)) = n
         /\ \A i \in 1..n : SubSeq(q, 1, n)[i] = q[i]
OBVIOUS

\* A prefix is told by its elements.
LEMMA PrefixIs ==
  ASSUME NEW S, NEW s \in Seq(S), NEW t \in Seq(S)
  PROVE  IsPrefix(s, t) <=> Len(s) <= Len(t) /\ \A i \in 1..Len(s) : s[i] = t[i]
<1>1. SubSeq(s, 1, Len(s)) = s
  OBVIOUS
<1>2. ASSUME Len(s) <= Len(t) PROVE s = SubSeq(t, 1, Len(s)) <=> \A i \in 1..Len(s) : s[i] = t[i]
  <2> DEFINE u == SubSeq(t, 1, Len(s))
  <2>1. u \in Seq(S) /\ Len(u) = Len(s) /\ \A i \in 1..Len(s) : u[i] = t[i]
    BY <1>2, Beginning
  <2> HIDE DEF u
  <2>2. (\A i \in 1..Len(s) : s[i] = t[i]) => s = u
    BY <2>1, SameSequence
  <2> QED
    BY <2>1, <2>2 DEF u
<1> QED
  BY <1>1, <1>2 DEF IsPrefix

\* A sequence with one more element.
LEMMA Longer ==
  ASSUME NEW S, NEW s \in Seq(S), NEW x \in S
  PROVE  /\ Append(s, x) \in Seq(S) /\ Len(Append(s, x)) = Len(s) + 1
         /\ \A i \in 1..Len(s) : Append(s, x)[i] = s[i]
         /\ Append(s, x)[Len(s) + 1] = x
OBVIOUS

\* A sequence is a prefix of another one with the element that comes next there.
LEMMA LongerPrefix ==
  ASSUME NEW S, NEW s \in Seq(S), NEW x \in S, NEW t \in Seq(S)
  PROVE  IsPrefix(Append(s, x), t) <=> IsPrefix(s, t) /\ Len(s) < Len(t) /\ t[Len(s) + 1] = x
<1> DEFINE u == Append(s, x)
<1>1. u \in Seq(S) /\ Len(u) = Len(s) + 1 /\ (\A i \in 1..Len(s) : u[i] = s[i]) /\ u[Len(s) + 1] = x
  BY Longer
<1> HIDE DEF u
<1>2. IsPrefix(u, t) <=> Len(u) <= Len(t) /\ \A i \in 1..Len(u) : u[i] = t[i]
  BY <1>1, PrefixIs
<1>3. IsPrefix(s, t) <=> Len(s) <= Len(t) /\ \A i \in 1..Len(s) : s[i] = t[i]
  BY PrefixIs
<1>4. PICK l \in Nat : l = Len(s)
  OBVIOUS
<1>5. (\A i \in 1..(l + 1) : u[i] = t[i]) <=> (\A i \in 1..l : u[i] = t[i]) /\ u[l + 1] = t[l + 1]
  OBVIOUS
<1>6. IsPrefix(u, t) <=> IsPrefix(s, t) /\ Len(s) < Len(t) /\ t[Len(s) + 1] = x
  BY <1>1, <1>2, <1>3, <1>4, <1>5
<1> QED
  BY <1>6 DEF u

\* The empty sequence is a prefix of every one.
LEMMA EmptyPrefix ==
  ASSUME NEW S, NEW t \in Seq(S)
  PROVE  IsPrefix(<<>>, t)
<1>1. <<>> \in Seq(S) /\ Len(<<>>) = 0
  OBVIOUS
<1>2. PICK s \in Seq(S) : s = <<>> /\ Len(s) = 0
  BY <1>1
<1>3. Len(s) <= Len(t) /\ \A i \in 1..Len(s) : s[i] = t[i]
  BY <1>2
<1>4. IsPrefix(s, t)
  BY <1>3, PrefixIs
<1> QED
  BY <1>2, <1>4

\* A prefix of a prefix is a prefix.
LEMMA PrefixTwice ==
  ASSUME NEW S, NEW s \in Seq(S), NEW t \in Seq(S), NEW u \in Seq(S), IsPrefix(s, t), IsPrefix(t, u)
  PROVE  IsPrefix(s, u)
<1>1. Len(s) <= Len(t) /\ \A i \in 1..Len(s) : s[i] = t[i]
  BY PrefixIs
<1>2. Len(t) <= Len(u) /\ \A i \in 1..Len(t) : t[i] = u[i]
  BY PrefixIs
<1>3. Len(s) <= Len(u) /\ \A i \in 1..Len(s) : s[i] = u[i]
  BY <1>1, <1>2
<1> QED
  BY <1>3, PrefixIs

--------------------------------------------------------------------------------
(* Plans.                                                                      *)

\* Pointers and places.
Pointers == Seq(Tokens)
Places   == Seq(Steps)

\* The children of a node are the tokens that lead on to some pointer.
LEMMA ChildLeadsOn ==
  ASSUME NEW ps, ps \subseteq Pointers, NEW a \in Pointers
  PROVE  /\ Children(ps, a) \subseteq Tokens
         /\ \A t \in Tokens : t \in Children(ps, a) <=> \E p \in ps : IsPrefix(Append(a, t), p)
         /\ Children(ps, a) = {} <=> \A p \in ps : IsPrefix(a, p) => p = a
<1>1. ASSUME NEW p \in ps
      PROVE  IsStrictPrefix(a, p) <=> IsPrefix(a, p) /\ Len(a) < Len(p)
  <2>1. p \in Pointers
    OBVIOUS
  <2>2. IsPrefix(a, p) <=> Len(a) <= Len(p) /\ \A i \in 1..Len(a) : a[i] = p[i]
    BY <2>1, PrefixIs DEF Pointers
  <2>3. ASSUME IsPrefix(a, p), ~(Len(a) < Len(p)) PROVE a = p
    BY <2>1, <2>2, <2>3, SameSequence DEF Pointers
  <2> QED
    BY <2>1, <2>3 DEF IsStrictPrefix, Pointers
<1>2. ASSUME NEW p \in ps, IsPrefix(a, p), Len(a) < Len(p)
      PROVE  p[Len(a) + 1] \in Tokens
  BY <1>2 DEF Pointers
<1>3. Children(ps, a) = {p[Len(a) + 1] : p \in {p \in ps : IsPrefix(a, p) /\ Len(a) < Len(p)}}
  BY <1>1 DEF Children
<1>4. Children(ps, a) \subseteq Tokens
  BY <1>2, <1>3
<1>5. ASSUME NEW t \in Tokens, NEW p \in ps
      PROVE  IsPrefix(Append(a, t), p) <=> IsPrefix(a, p) /\ Len(a) < Len(p) /\ p[Len(a) + 1] = t
  BY LongerPrefix DEF Pointers
<1>6. ASSUME NEW t \in Tokens PROVE t \in Children(ps, a) <=> \E p \in ps : IsPrefix(Append(a, t), p)
  BY <1>3, <1>5
<1>7. Children(ps, a) = {} <=> \A p \in ps : IsPrefix(a, p) => p = a
  BY <1>1, <1>3 DEF IsStrictPrefix
<1> QED
  BY <1>4, <1>6, <1>7

\* What ProjectFields accepts.
IsPlan(ps) ==
  /\ ps \subseteq Pointers /\ IsFiniteSet(ps) /\ ValidPlan(ps)
  /\ \A p \in ps : p # <<>> /\ Number[p[1]] < 0

\* An address on the way of a pointer.
InPlan(ps, a) == a \in Pointers /\ \E p \in ps : IsPrefix(a, p)

\* No pointer of a plan is in front of another one.
LEMMA NoneInside ==
  ASSUME NEW ps, IsPlan(ps), NEW p \in ps, NEW q \in ps, IsPrefix(p, q)
  PROVE  p = q
BY DEF IsPlan, ValidPlan, IsStrictPrefix

\* Of the ways through a plan only one leads to a place.
LEMMA OneLeadsTo ==
  ASSUME NEW ps, IsPlan(ps), NEW a, NEW b, InPlan(ps, a), InPlan(ps, b),
         NEW q \in Places, LeadsTo(a, q), LeadsTo(b, q)
  PROVE  a = b
<1>1. a \in Pointers /\ b \in Pointers /\ Len(a) = Len(b)
  BY DEF InPlan, LeadsTo
<1>2. SUFFICES ASSUME a # b PROVE FALSE
  OBVIOUS
<1> DEFINE Apart == {n \in 1..Len(a) : a[n] # b[n]}
<1>3. Apart # {} /\ Apart \subseteq Nat
  <2>1. Apart # {}
    BY <1>1, <1>2, SameSequence DEF Pointers
  <2> QED
    BY <2>1
<1>4. PICK n \in Apart : \A k \in Apart : n <= k
  <2> HIDE DEF Apart
  <2> QED
    BY <1>3, Least
<1>5. n \in 1..Len(a) /\ a[n] # b[n]
  OBVIOUS
<1>6. \A m \in 1..(n - 1) : a[m] = b[m]
  <2>1. ASSUME NEW m \in 1..(n - 1) PROVE a[m] = b[m]
    <3>1. m \in 1..Len(a) /\ ~(n <= m)
      BY <1>1, <1>5 DEF Pointers
    <3> QED
      BY <1>4, <3>1
  <2> QED
    BY <2>1
<1> HIDE DEF Apart
<1>7. Takes(a[n], q[n]) /\ Takes(b[n], q[n]) /\ a[n] \in Tokens /\ b[n] \in Tokens /\ q[n] \in Steps
  BY <1>1, <1>5 DEF LeadsTo, Pointers, Places
<1>8. Number[a[n]] = Number[b[n]] /\ Number[a[n]] \in 0..MaxIndex
  <2>1. ~IsMember(q[n]) /\ Number[a[n]] = Number[b[n]] /\ Number[a[n]] <= MaxIndex /\ Number[a[n]] = q[n].at - 1
    BY <1>5, <1>7 DEF Takes
  <2>2. q[n].at - 1 \in Nat
    BY <1>7 DEF Steps, Positions
  <2> QED
    BY <2>1, <2>2, BoundAssumption
<1> DEFINE before == SubSeq(a, 1, n - 1)
<1>9. before \in Pointers /\ Len(before) = n - 1 /\ \A i \in 1..(n - 1) : before[i] = a[i]
  <2>1. n - 1 \in 0..Len(a)
    BY <1>5
  <2> QED
    BY <1>1, <2>1, Beginning DEF Pointers
<1> HIDE DEF before
<1>10. ASSUME NEW c, InPlan(ps, c), n \in 1..Len(c), \A m \in 1..(n - 1) : c[m] = a[m], NEW p \in ps, IsPrefix(c, p)
       PROVE  IsPrefix(Append(before, c[n]), p)
  <2>1. c \in Pointers /\ p \in Pointers /\ c[n] \in Tokens
    BY <1>10 DEF InPlan, IsPlan, Pointers
  <2>2. Len(c) <= Len(p) /\ \A i \in 1..Len(c) : c[i] = p[i]
    BY <1>10, <2>1, PrefixIs DEF Pointers
  <2>3. Len(before) <= Len(p) /\ \A i \in 1..Len(before) : before[i] = p[i]
    <3>1. n \in Nat /\ n <= Len(c) /\ Len(c) \in Nat /\ Len(p) \in Nat
      BY <1>10, <2>1 DEF Pointers
    <3>2. ASSUME NEW i \in 1..(n - 1) PROVE before[i] = p[i]
      BY <1>9, <1>10, <2>2, <3>1
    <3> QED
      BY <1>9, <2>2, <3>1, <3>2
  <2>4. IsPrefix(before, p)
    BY <1>9, <2>1, <2>3, PrefixIs DEF Pointers
  <2>5. Len(before) < Len(p) /\ p[Len(before) + 1] = c[n]
    <3>1. n \in Nat /\ n <= Len(c) /\ Len(c) \in Nat /\ Len(p) \in Nat /\ (n - 1) + 1 = n
      BY <1>10, <2>1 DEF Pointers
    <3> QED
      BY <1>9, <1>10, <2>2, <3>1
  <2> QED
    BY <1>9, <2>1, <2>4, <2>5, LongerPrefix DEF Pointers
<1>11. PICK p \in ps : IsPrefix(a, p)
  BY DEF InPlan
<1>12. PICK r \in ps : IsPrefix(b, r)
  BY DEF InPlan
<1>13. IsPrefix(Append(before, a[n]), p) /\ IsPrefix(Append(before, b[n]), r)
  BY <1>1, <1>5, <1>6, <1>10, <1>11, <1>12
<1>14. a[n] \in Children(ps, before) /\ b[n] \in Children(ps, before)
  BY <1>7, <1>9, <1>13, ChildLeadsOn DEF IsPlan
<1>15. n \in DOMAIN p /\ SubSeq(p, 1, n - 1) = before
  <2>1. p \in Pointers
    BY DEF IsPlan
  <2>2. Len(a) <= Len(p) /\ \A i \in 1..Len(a) : a[i] = p[i]
    BY <1>1, <1>11, <2>1, PrefixIs DEF Pointers
  <2>3. n \in Nat /\ n >= 1 /\ n <= Len(p) /\ Len(p) \in Nat /\ n - 1 \in 0..Len(p)
    BY <1>1, <1>5, <2>1, <2>2 DEF Pointers
  <2> DEFINE u == SubSeq(p, 1, n - 1)
  <2>4. u \in Pointers /\ Len(u) = n - 1 /\ \A i \in 1..(n - 1) : u[i] = p[i]
    BY <2>1, <2>3, Beginning DEF Pointers
  <2> HIDE DEF u
  <2>5. \A i \in 1..Len(u) : u[i] = before[i]
    BY <1>1, <1>5, <1>9, <2>2, <2>4 DEF Pointers
  <2>6. u = before
    BY <1>9, <2>4, <2>5, SameSequence DEF Pointers
  <2> QED
    BY <2>1, <2>3, <2>6 DEF u, Pointers
<1>16. a[n] = b[n]
  BY <1>8, <1>14, <1>15 DEF IsPlan, ValidPlan, IndexedChildren
<1> QED
  BY <1>5, <1>16

--------------------------------------------------------------------------------
(* Reading.                                                                    *)

\* A value to be read that is about a field.
Covers(v, p, q) == IsPrefix(v.node, p) /\ IsPrefix(v.place, q)

Covered(vs, p, q) == \E v \in vs : Covers(v, p, q)

\* What comes before a place comes before all that is in it, and has no part of it.
LEMMA BeforePlace ==
  ASSUME NEW q \in Places, NEW r \in Places, Before(q, r)
  PROVE  /\ ~IsPrefix(r, q)
         /\ \A s \in Places : IsPrefix(r, s) => Before(q, s)
<1>1. PICK n \in DOMAIN q \cap DOMAIN r : AgreeBefore(n, q, r) /\ q[n].at < r[n].at
  BY DEF Before
<1>2. n \in 1..Len(q) /\ n \in 1..Len(r) /\ q[n] \in Steps /\ r[n] \in Steps
  BY DEF Places
<1>3. q[n].at \in Nat /\ r[n].at \in Nat
  BY <1>2 DEF Steps, Positions
<1>4. ~IsPrefix(r, q)
  <2>1. IsPrefix(r, q) => r[n] = q[n]
    BY <1>2, PrefixIs DEF Places
  <2> QED
    BY <1>1, <1>3, <2>1
<1>5. ASSUME NEW s \in Places, IsPrefix(r, s) PROVE Before(q, s)
  <2>1. Len(r) <= Len(s) /\ \A i \in 1..Len(r) : r[i] = s[i]
    BY <1>5, PrefixIs DEF Places
  <2>2. n \in DOMAIN q \cap DOMAIN s /\ s[n] = r[n]
    BY <1>2, <2>1 DEF Places
  <2>3. AgreeBefore(n, q, s)
    BY <1>1, <1>2, <2>1 DEF AgreeBefore, Places
  <2> QED
    BY <1>1, <2>2, <2>3 DEF Before
<1> QED
  BY <1>4, <1>5

\* A value at a field is about that field alone.
LEMMA FieldCoversItself ==
  ASSUME NEW ps, IsPlan(ps), NEW p \in ps, NEW r \in ps, NEW q \in Places, NEW s \in Places,
         LeadsTo(p, q), LeadsTo(r, s), IsPrefix(r, p), IsPrefix(s, q)
  PROVE  r = p /\ s = q
<1>1. r = p
  BY NoneInside
<1>2. Len(s) = Len(q)
  BY <1>1 DEF LeadsTo
<1>3. \A i \in 1..Len(s) : s[i] = q[i]
  BY PrefixIs DEF Places
<1> QED
  BY <1>1, <1>2, <1>3, SameSequence DEF Places

\* A document has its root and all that is on the way to its places.
LEMMA DocumentIs ==
  ASSUME NEW d \in Documents
  PROVE  /\ d \subseteq Places /\ <<>> \in d
         /\ \A q \in d : \A n \in 1..Len(q) : SubSeq(q, 1, n) \in d
<1>1. d \subseteq Places /\ <<>> \in d /\ \A q \in d : \A n \in DOMAIN q : SubSeq(q, 1, n) \in d
  BY DocumentAssumption DEF Places
<1> QED
  BY <1>1 DEF Places

\* What is known of a value that is to be read.
ValueOK(v) ==
  /\ v.place \in document
  /\ InPlan(paths, v.node) /\ LeadsTo(v.node, v.place)

\* The values that are selected in another one, each a step below it.
LEMMA SelectedIs ==
  ASSUME IsPlan(paths), document \in Documents, NEW v, ValueOK(v), NEW w \in Selected(v)
  PROVE  ValueOK(w) /\ IsPrefix(v.node, w.node) /\ IsPrefix(v.place, w.place)
<1>1. PICK c \in Children(paths, v.node) \X document :
        /\ w = [node |-> Append(v.node, c[1]), place |-> c[2]]
        /\ c[2] # <<>> /\ Front(c[2]) = v.place /\ Takes(c[1], Last(c[2]))
  BY DEF Selected
<1>2. PICK t, q : c = <<t, q>> /\ t \in Children(paths, v.node) /\ q \in document
  OBVIOUS
<1>3. /\ w.node = Append(v.node, t) /\ w.place = q
      /\ q # <<>> /\ Front(q) = v.place /\ Takes(t, Last(q))
  BY <1>1, <1>2
<1>4. v.node \in Pointers /\ paths \subseteq Pointers /\ q \in Places /\ v.place \in Places
  BY <1>2, DocumentIs DEF ValueOK, InPlan, IsPlan
<1>5. t \in Tokens /\ \E p \in paths : IsPrefix(Append(v.node, t), p)
  BY <1>2, <1>4, ChildLeadsOn
<1> DEFINE a == Append(v.node, t)
<1>6. /\ a \in Pointers /\ Len(a) = Len(v.node) + 1
      /\ (\A i \in 1..Len(v.node) : a[i] = v.node[i]) /\ a[Len(v.node) + 1] = t
  BY <1>4, <1>5, Longer DEF Pointers
<1> HIDE DEF a
<1>7. PICK l \in Nat : l = Len(v.node)
  BY <1>4 DEF Pointers
<1>8. Len(q) = l + 1 /\ \A i \in 1..l : q[i] = v.place[i]
  <2>1. Len(q) \in Nat /\ Len(q) >= 1
    BY <1>3, <1>4 DEF Places
  <2>2. Len(v.place) = Len(q) - 1 /\ \A i \in 1..(Len(q) - 1) : v.place[i] = q[i]
    <3>1. Len(q) - 1 \in 0..Len(q)
      BY <2>1
    <3> QED
      BY <1>3, <1>4, <3>1, Beginning DEF Front, Places
  <2>3. Len(v.place) = l
    BY <1>7 DEF ValueOK, LeadsTo
  <2> QED
    BY <2>1, <2>2, <2>3
<1>9. LeadsTo(a, q)
  <2>1. \A n \in 1..l : Takes(v.node[n], v.place[n])
    BY <1>4, <1>7 DEF ValueOK, LeadsTo, Pointers
  <2>2. Takes(a[l + 1], q[l + 1])
    BY <1>3, <1>6, <1>7, <1>8 DEF Last
  <2>3. \A n \in 1..(l + 1) : Takes(a[n], q[n])
    BY <1>6, <1>7, <1>8, <2>1, <2>2
  <2> QED
    BY <1>6, <1>7, <1>8, <2>3 DEF LeadsTo, Pointers
<1>10. IsPrefix(v.node, a)
  BY <1>4, <1>6, PrefixIs DEF Pointers
<1>11. IsPrefix(v.place, q)
  <2>1. Len(v.place) = l
    BY <1>7 DEF ValueOK, LeadsTo
  <2> QED
    BY <1>4, <1>8, <2>1, PrefixIs DEF Places
<1> QED
  BY <1>2, <1>3, <1>5, <1>6, <1>9, <1>10, <1>11 DEF a, ValueOK, InPlan

\* They are about the same fields as the value they are in.
LEMMA SelectedCover ==
  ASSUME IsPlan(paths), document \in Documents, NEW v, ValueOK(v), v.node \notin paths,
         NEW p \in paths, NEW q \in document, LeadsTo(p, q)
  PROVE  Covered(Selected(v), p, q) <=> Covers(v, p, q)
<1>1. v.node \in Pointers /\ p \in Pointers /\ paths \subseteq Pointers /\ q \in Places /\ v.place \in Places
  BY DocumentIs DEF ValueOK, InPlan, IsPlan
<1>2. ASSUME NEW w \in Selected(v), Covers(w, p, q) PROVE Covers(v, p, q)
  <2>1. ValueOK(w) /\ IsPrefix(v.node, w.node) /\ IsPrefix(v.place, w.place)
    BY SelectedIs
  <2>2. w.node \in Pointers /\ w.place \in Places
    BY <2>1, DocumentIs DEF ValueOK, InPlan
  <2> QED
    BY <1>1, <1>2, <2>1, <2>2, PrefixTwice DEF Covers, Pointers, Places
<1>3. ASSUME Covers(v, p, q) PROVE Covered(Selected(v), p, q)
  <2>1. PICK l \in Nat : l = Len(v.node)
    BY <1>1 DEF Pointers
  <2>2. l <= Len(p) /\ \A i \in 1..l : v.node[i] = p[i]
    BY <1>1, <1>3, <2>1, PrefixIs DEF Covers, Pointers
  <2>3. l # Len(p)
    <3>1. ASSUME l = Len(p) PROVE v.node = p
      BY <1>1, <2>1, <2>2, <3>1, SameSequence DEF Pointers
    <3> QED
      BY <3>1
  <2>4. Len(p) \in Nat /\ l + 1 <= Len(p) /\ l + 1 \in 1..Len(p)
    BY <1>1, <2>2, <2>3 DEF Pointers
  <2>5. Len(q) = Len(p) /\ Takes(p[l + 1], q[l + 1])
    BY <1>1, <2>4 DEF LeadsTo, Pointers
  <2> DEFINE t == p[l + 1]
             r == SubSeq(q, 1, l + 1)
  <2>6. t \in Tokens /\ IsPrefix(Append(v.node, t), p)
    <3>1. t \in Tokens
      BY <1>1, <2>4 DEF Pointers
    <3>2. Len(v.node) < Len(p) /\ p[Len(v.node) + 1] = t /\ IsPrefix(v.node, p)
      BY <1>3, <2>1, <2>4 DEF Covers
    <3> QED
      BY <1>1, <3>1, <3>2, LongerPrefix DEF Pointers
  <2>7. t \in Children(paths, v.node)
    BY <1>1, <2>6, ChildLeadsOn
  <2>8. r \in document /\ r \in Places /\ Len(r) = l + 1 /\ \A i \in 1..(l + 1) : r[i] = q[i]
    <3>1. l + 1 \in 1..Len(q) /\ l + 1 \in 0..Len(q)
      BY <2>4, <2>5
    <3> QED
      BY <1>1, <3>1, DocumentIs, Beginning DEF Places
  <2> HIDE DEF r
  <2>9. r # <<>> /\ Last(r) = q[l + 1]
    BY <2>8 DEF Last, Places
  <2>10. Front(r) = v.place
    <3>1. Len(v.place) = l /\ \A i \in 1..l : v.place[i] = q[i]
      BY <1>1, <1>3, <2>1, PrefixIs DEF Covers, ValueOK, LeadsTo, Places
    <3>2. l \in 0..Len(r) /\ Len(r) - 1 = l
      BY <2>8
    <3> DEFINE u == SubSeq(r, 1, l)
    <3>3. u \in Places /\ Len(u) = l /\ \A i \in 1..l : u[i] = r[i]
      BY <2>8, <3>2, Beginning DEF Places
    <3>4. Front(r) = u
      BY <3>2 DEF Front
    <3> HIDE DEF u
    <3>5. \A i \in 1..Len(u) : u[i] = v.place[i]
      BY <2>8, <3>1, <3>3
    <3>6. u = v.place
      BY <1>1, <3>1, <3>3, <3>5, SameSequence DEF Places
    <3> QED
      BY <3>4, <3>6
  <2> DEFINE w == [node |-> Append(v.node, t), place |-> r]
  <2>11. w \in Selected(v)
    <3> DEFINE c == <<t, r>>
    <3>1. c \in Children(paths, v.node) \X document /\ c[1] = t /\ c[2] = r
      BY <2>7, <2>8
    <3>2. Takes(t, Last(r))
      BY <2>5, <2>9
    <3> HIDE DEF c, t
    <3>3. c[2] # <<>> /\ Front(c[2]) = v.place /\ Takes(c[1], Last(c[2]))
      BY <2>9, <2>10, <3>1, <3>2
    <3>4. w = [node |-> Append(v.node, c[1]), place |-> c[2]]
      BY <3>1
    <3> HIDE DEF w
    <3> QED
      BY <3>1, <3>3, <3>4 DEF Selected
  <2>12. Covers(w, p, q)
    <3>1. IsPrefix(r, q)
      BY <1>1, <2>4, <2>5, <2>8, PrefixIs DEF Places
    <3> QED
      BY <2>6, <3>1 DEF Covers
  <2> QED
    BY <2>11, <2>12 DEF Covered
<1> QED
  BY <1>2, <1>3 DEF Covered

--------------------------------------------------------------------------------
(* The tree.                                                                   *)

\* Pointers that do not mix.
Uniform(ps) ==
  /\ \A p, q \in ps : \A n \in DOMAIN p \cap DOMAIN q :
       AgreeBefore(n, p, q) /\ p[n] \in Digits => q[n] \in Digits
  /\ \A p \in ps : \A n \in DOMAIN p : p[n] \in Digits => Number[p[n]] <= MaxIndex

\* Pointers mix in a document just when those that are there are not uniform.
LEMMA MixedIs ==
  ASSUME Present \subseteq Pointers
  PROVE  Mixed <=> ~Uniform(Present)
<1>1. ASSUME NEW p \in Present, NEW n \in DOMAIN p PROVE Number[p[n]] \in Int
  BY TokenAssumption, BoundAssumption DEF Pointers
<1>2. MaxIndex \in Int
  BY BoundAssumption
<1>3. ASSUME NEW p \in Present, NEW n \in DOMAIN p PROVE Number[p[n]] > MaxIndex <=> ~(Number[p[n]] <= MaxIndex)
  BY <1>1, <1>2
<1> QED
  BY <1>3 DEF Mixed, Uniform

\* The tokens at the n-th place of a pointer, among those that agree in front.
LEMMA ChildrenOnTheWay ==
  ASSUME NEW ps, ps \subseteq Pointers, NEW p \in Pointers, NEW n \in 1..Len(p)
  PROVE  /\ SubSeq(p, 1, n - 1) \in Pointers
         /\ Children(ps, SubSeq(p, 1, n - 1)) = {r[n] : r \in {r \in ps : n \in DOMAIN r /\ AgreeBefore(n, r, p)}}
<1> DEFINE a == SubSeq(p, 1, n - 1)
<1>1. a \in Pointers /\ Len(a) = n - 1 /\ \A i \in 1..(n - 1) : a[i] = p[i]
  <2>1. n - 1 \in 0..Len(p)
    OBVIOUS
  <2> QED
    BY <2>1, Beginning DEF Pointers
<1> HIDE DEF a
<1>2. ASSUME NEW r \in ps PROVE IsStrictPrefix(a, r) <=> n \in DOMAIN r /\ AgreeBefore(n, r, p)
  <2>1. r \in Pointers /\ Len(r) \in Nat /\ DOMAIN r = 1..Len(r)
    BY DEF Pointers
  <2>2. IsPrefix(a, r) <=> Len(a) <= Len(r) /\ \A i \in 1..Len(a) : a[i] = r[i]
    <3>1. a \in Seq(Tokens) /\ r \in Seq(Tokens)
      BY <1>1, <2>1 DEF Pointers
    <3> QED
      BY ONLY <3>1, PrefixIs
  <2>3. IsPrefix(a, r) <=> n - 1 <= Len(r) /\ AgreeBefore(n, r, p)
    BY <1>1, <2>2 DEF AgreeBefore
  <2>4. IsPrefix(a, r) => (a = r <=> n - 1 = Len(r))
    <3>1. IsPrefix(a, r) /\ Len(a) = Len(r) => a = r
      BY <1>1, <2>1, <2>2, SameSequence DEF Pointers
    <3> QED
      BY <1>1, <3>1
  <2> QED
    BY <1>1, <2>1, <2>3, <2>4 DEF IsStrictPrefix
<1>3. Len(a) + 1 = n
  BY <1>1
<1>4. Children(ps, a) = {r[n] : r \in {r \in ps : IsStrictPrefix(a, r)}}
  BY <1>3 DEF Children
<1>5. Children(ps, a) = {r[n] : r \in {r \in ps : n \in DOMAIN r /\ AgreeBefore(n, r, p)}}
  BY <1>2, <1>4
<1> QED
  BY <1>1, <1>5 DEF a

\* The tree takes a field just when its pointer mixes with none of it.
LEMMA AcceptsIs ==
  ASSUME IsPlan(paths), DOMAIN root \subseteq paths, Uniform(DOMAIN root), NEW p \in paths
  PROVE  Accepts(p) <=> Uniform(DOMAIN root \cup {p})
<1>1. p \in Pointers /\ DOMAIN root \subseteq Pointers /\ DOMAIN p = 1..Len(p)
  BY DEF IsPlan, Pointers
<1> DEFINE Kind(n)  == KindAt(SubSeq(p, 1, n - 1))
           Below(n) == {r[n] : r \in {r \in DOMAIN root : n \in DOMAIN r /\ AgreeBefore(n, r, p)}}
<1>2. ASSUME NEW n \in 1..Len(p)
      PROVE  /\ Kind(n) = "array" <=> Below(n) \cap Digits # {}
             /\ Kind(n) = "map" => Below(n) # {} \/ n = 1
             /\ Kind(n) = "nil" <=> Below(n) = {} /\ n # 1
             /\ Kind(n) \in {"array", "map", "nil"}
  <2> DEFINE a == SubSeq(p, 1, n - 1)
  <2>1. a \in Pointers /\ Children(DOMAIN root, a) = Below(n)
    BY <1>1, ChildrenOnTheWay
  <2>2. Len(a) = n - 1 /\ \A i \in 1..(n - 1) : a[i] = p[i]
    <3>1. n - 1 \in 0..Len(p)
      BY <1>1 DEF Pointers
    <3> QED
      BY <1>1, <3>1, Beginning DEF Pointers
  <2> HIDE DEF a
  <2>3. a \notin DOMAIN root
    <3>1. IsPrefix(a, p)
      BY <1>1, <2>1, <2>2, PrefixIs DEF Pointers
    <3>2. a # p
      BY <1>1, <2>2 DEF Pointers
    <3> QED
      BY <3>1, <3>2, NoneInside
  <2>4. a = <<>> <=> n = 1
    BY <2>1, <2>2 DEF Pointers
  <2> HIDE DEF Below
  <2>5. /\ KindAt(a) = "array" <=> Below(n) \cap Digits # {}
        /\ KindAt(a) = "map" => Below(n) # {} \/ n = 1
        /\ KindAt(a) = "nil" <=> Below(n) = {} /\ n # 1
        /\ KindAt(a) \in {"array", "map", "nil"}
    BY <2>1, <2>3, <2>4 DEF KindAt
  <2> QED
    BY <2>5 DEF a
<1> HIDE DEF Kind
<1>3. Accepts(p) <=> \A n \in 1..Len(p) : BecomesArray(Kind(n), p[n]) \/ BecomesMap(Kind(n), p[n])
  BY <1>1 DEF Accepts, Kind
<1>4. ASSUME Uniform(DOMAIN root \cup {p}), NEW n \in 1..Len(p)
      PROVE  BecomesArray(Kind(n), p[n]) \/ BecomesMap(Kind(n), p[n])
  <2>1. CASE p[n] \in Digits
    <3>1. Number[p[n]] <= MaxIndex
      BY <1>1, <1>4, <2>1 DEF Uniform
    <3>2. Below(n) \subseteq Digits
      <4>1. ASSUME NEW r \in DOMAIN root, n \in DOMAIN r, AgreeBefore(n, r, p) PROVE r[n] \in Digits
        <5>1. AgreeBefore(n, p, r)
          BY <4>1 DEF AgreeBefore
        <5> QED
          BY <1>1, <1>4, <2>1, <4>1, <5>1 DEF Uniform
      <4> QED
        BY <4>1
    <3>3. n # 1
      BY <1>4, <2>1, TokenAssumption DEF IsPlan, Pointers
    <3>4. Kind(n) \in {"nil", "array"}
      <4> HIDE DEF Below
      <4> QED
        BY <1>2, <3>2, <3>3
    <3> QED
      BY <2>1, <3>1, <3>4 DEF BecomesArray
  <2>2. CASE p[n] \notin Digits
    <3>1. Below(n) \cap Digits = {}
      BY <1>1, <1>4, <2>2 DEF Uniform
    <3>2. Kind(n) \in {"nil", "map"}
      <4> HIDE DEF Below
      <4> QED
        BY <1>2, <3>1
    <3> QED
      BY <2>2, <3>2 DEF BecomesMap
  <2> QED
    BY <2>1, <2>2
<1>5. ASSUME \A n \in 1..Len(p) : BecomesArray(Kind(n), p[n]) \/ BecomesMap(Kind(n), p[n])
      PROVE  Uniform(DOMAIN root \cup {p})
  <2>1. ASSUME NEW n \in 1..Len(p), p[n] \in Digits PROVE Number[p[n]] <= MaxIndex
    BY <1>5, <2>1 DEF BecomesArray, BecomesMap
  <2>2. ASSUME NEW r \in DOMAIN root, NEW n \in 1..Len(p), n \in DOMAIN r, AgreeBefore(n, r, p)
        PROVE  r[n] \in Digits <=> p[n] \in Digits
    <3>1. r[n] \in Below(n)
      BY <2>2
    <3>2. CASE p[n] \in Digits
      <4>1. Kind(n) \in {"nil", "array"}
        BY <1>5, <3>2 DEF BecomesArray, BecomesMap
      <4>2. Below(n) \cap Digits # {}
        <5> HIDE DEF Below
        <5> QED
          BY <1>2, <3>1, <4>1
      <4>3. PICK s \in DOMAIN root : n \in DOMAIN s /\ AgreeBefore(n, s, p) /\ s[n] \in Digits
        BY <4>2
      <4>4. AgreeBefore(n, s, r)
        BY <2>2, <4>3 DEF AgreeBefore
      <4> QED
        BY <2>2, <3>2, <4>3, <4>4 DEF Uniform
    <3>3. CASE p[n] \notin Digits
      <4>1. Kind(n) \in {"nil", "map"}
        BY <1>5, <3>3 DEF BecomesArray, BecomesMap
      <4>2. Below(n) \cap Digits = {}
        <5> HIDE DEF Below
        <5> QED
          BY <1>2, <4>1
      <4> HIDE DEF Below
      <4> QED
        BY <3>1, <3>3, <4>2
    <3> QED
      BY <3>2, <3>3
  <2>3. ASSUME NEW r \in DOMAIN root \cup {p}, NEW s \in DOMAIN root \cup {p}, NEW n \in DOMAIN r \cap DOMAIN s,
               AgreeBefore(n, r, s), r[n] \in Digits
        PROVE  s[n] \in Digits
    <3>1. AgreeBefore(n, s, r)
      BY <2>3 DEF AgreeBefore
    <3>2. CASE r \in DOMAIN root /\ s \in DOMAIN root
      BY <2>3, <3>2 DEF Uniform
    <3>3. CASE r = p /\ s \in DOMAIN root
      BY <1>1, <2>2, <2>3, <3>1, <3>3
    <3>4. CASE r \in DOMAIN root /\ s = p
      BY <1>1, <2>2, <2>3, <3>4
    <3>5. CASE r = p /\ s = p
      BY <2>3, <3>5
    <3> QED
      BY <3>2, <3>3, <3>4, <3>5
  <2>4. ASSUME NEW r \in DOMAIN root \cup {p}, NEW n \in DOMAIN r, r[n] \in Digits PROVE Number[r[n]] <= MaxIndex
    BY <1>1, <2>1, <2>4 DEF Uniform
  <2> QED
    BY <2>3, <2>4 DEF Uniform
<1> QED
  BY <1>3, <1>4, <1>5

\* It gets one leaf, and keeps all others.
LEMMA AssignIs ==
  ASSUME IsPlan(paths), DOMAIN root \subseteq paths, NEW p \in paths, NEW q, AssignProjectedField(p, q)
  PROVE  /\ DOMAIN root' = DOMAIN root \cup {p} /\ root'[p] = q
         /\ \A r \in DOMAIN root \ {p} : root'[r] = root[r]
<1>1. Kept(p) = DOMAIN root
  <2>1. ASSUME NEW r \in DOMAIN root PROVE ~IsStrictPrefix(p, r)
    BY DEF IsPlan, ValidPlan
  <2> QED
    BY <2>1 DEF Kept
<1> QED
  BY <1>1 DEF AssignProjectedField

--------------------------------------------------------------------------------
(* The invariants of reading.                                                  *)

\* A call has a plan and a document.
PlanInv == phase # "idle" => IsPlan(paths) /\ document \in Documents

\* A field that has been read.
Done(p, q) == p \in paths /\ q \in Reached(p) /\ ~Covered(todo, p, q)

\* What has been read comes before what is still to be read.
ReadInOrder == \A p \in paths : \A q \in Reached(p) : \A v \in todo : Done(p, q) => Before(q, v.place)

\* The tree has the last value of each field that has been read.
RootFollows ==
  /\ DOMAIN root \subseteq paths
  /\ \A p \in DOMAIN root : Done(p, root[p])
  /\ \A p \in paths : \A q \in Reached(p) : Done(p, q) =>
       p \in DOMAIN root /\ (q = root[p] \/ Before(q, root[p]))

\* While it reads, the tree follows the document.
ReadInv ==
  phase = "read" =>
    /\ output = <<>> /\ stack = <<>>
    /\ \A v \in todo : ValueOK(v)
    /\ ReadInOrder /\ RootFollows
    /\ found <=> DOMAIN root # {}
    /\ Uniform(DOMAIN root)

\* When all has been read.
TreeInv ==
  phase = "write" \/ (phase = "finalize" /\ outcome \in {"written", "write failed"}) =>
    /\ DOMAIN root = Present /\ Present # {} /\ Uniform(Present)
    /\ \A p \in DOMAIN root : IsLast(p, root[p])

\* A pointer is present when it leads to a place of the document.
LEMMA PresentIs ==
  /\ Present \subseteq paths
  /\ \A p \in paths : \A q \in Reached(p) : p \in Present
BY DEF Present

\* A call takes a plan and a document, and has read nothing.
LEMMA ProjectFieldsKeeps ==
  ASSUME PlanInv, NEW list \in PathLists, NEW doc \in Documents, ProjectFields(list, doc),
         output = <<>>, stack = <<>>, ~found
  PROVE  PlanInv' /\ ReadInv' /\ TreeInv' /\ ConflictsExact'
<1> DEFINE ps == ParseProjectionPaths(list)
<1>1. CASE ~ValidPlan(ps)
  <2>1. UNCHANGED <<phase, paths, document, todo, root, found, output, stack, outcome>> /\ phase = "idle"
    BY <1>1 DEF ProjectFields, call, writing
  <2> QED
    BY <2>1 DEF PlanInv, ReadInv, TreeInv, ConflictsExact
<1>2. CASE ValidPlan(ps)
  <2>1. /\ paths' = ps /\ document' = doc /\ phase' = "read" /\ root' = <<>>
        /\ todo' = {[node |-> <<>>, place |-> <<>>]}
        /\ UNCHANGED <<found, output, stack>>
    BY <1>2 DEF ProjectFields, writing, Reset
  <2>2. IsPlan(ps)
    <3>1. IsFiniteSet(ToSet(list))
      <4>1. list \in Seq(Seq(Tokens))
        BY RequestAssumption
      <4>2. list \in Surjection(1..Len(list), ToSet(list)) /\ Len(list) \in Int
        BY <4>1 DEF ToSet, Surjection
      <4> QED
        BY <4>2, FS_Interval, FS_Surjection
    <3>2. list \in Seq(Seq(Tokens))
      BY RequestAssumption
    <3>3. ToSet(list) \subseteq Pointers
      BY <3>2 DEF ToSet, Pointers
    <3>4. ps # {}
      BY <1>2 DEF ValidPlan
    <3>5. ps = ToSet(list) /\ \A p \in ps : p # <<>> /\ ~(Number[p[1]] >= 0)
      BY <3>4 DEF ParseProjectionPaths
    <3>6. ASSUME NEW p \in ps PROVE Number[p[1]] < 0
      <4>1. p \in Pointers /\ p # <<>>
        BY <3>3, <3>5
      <4>2. p[1] \in Tokens
        BY <4>1 DEF Pointers
      <4>3. Number[p[1]] \in Int
        BY <4>2, TokenAssumption
      <4> HIDE DEF ps
      <4> QED
        BY <3>5, <4>3
    <3> HIDE DEF ps
    <3> QED
      BY <1>2, <3>1, <3>3, <3>5, <3>6 DEF IsPlan
  <2> HIDE DEF ps
  <2>3. PlanInv'
    BY <2>1, <2>2 DEF PlanInv
  <2>4. doc \subseteq Places /\ <<>> \in doc
    BY DocumentIs
  <2>5. PICK v : v = [node |-> <<>>, place |-> <<>>]
    OBVIOUS
  <2>6. (\A w \in todo : ValueOK(w))'
    <3>1. PICK p \in ps : p \in Pointers
      BY <2>2 DEF IsPlan, ValidPlan
    <3>2. <<>> \in Pointers /\ Len(<<>>) = 0
      BY DEF Pointers
    <3>3. IsPrefix(<<>>, p)
      BY <3>1, EmptyPrefix DEF Pointers
    <3>4. LeadsTo(<<>>, <<>>)
      BY DEF LeadsTo
    <3>5. todo' = {v} /\ v.node = <<>> /\ v.place = <<>>
      BY <2>1, <2>5
    <3>6. InPlan(ps, v.node) /\ LeadsTo(v.node, v.place) /\ v.place \in doc
      BY <2>4, <3>2, <3>3, <3>4, <3>5 DEF InPlan
    <3> QED
      BY <2>1, <3>5, <3>6 DEF ValueOK
  <2>7. ASSUME NEW p \in ps, NEW q \in doc PROVE Covered({v}, p, q)
    <3>1. p \in Pointers /\ q \in Places /\ <<>> \in Pointers /\ <<>> \in Places /\ Len(<<>>) = 0
      BY <2>2, <2>4 DEF IsPlan, Pointers, Places
    <3>2. IsPrefix(<<>>, p) /\ IsPrefix(<<>>, q)
      BY <3>1, EmptyPrefix DEF Pointers, Places
    <3> QED
      BY <2>5, <3>2 DEF Covered, Covers
  <2>8. (\A p \in paths : \A q \in Reached(p) : ~Done(p, q))'
    BY <2>1, <2>5, <2>7 DEF Done, Reached
  <2>9. DOMAIN root' = {}
    BY <2>1
  <2>10. ReadInOrder' /\ RootFollows' /\ Uniform(DOMAIN root')
    BY <2>8, <2>9 DEF ReadInOrder, RootFollows, Uniform
  <2>11. ReadInv'
    BY <2>1, <2>6, <2>9, <2>10 DEF ReadInv
  <2>12. TreeInv' /\ ConflictsExact'
    BY <2>1 DEF TreeInv, ConflictsExact
  <2> QED
    BY <2>3, <2>11, <2>12
<1> QED
  BY <1>1, <1>2

\* What the tree has of what is done is part of what the document has.
LEMMA RootIsPresent ==
  ASSUME phase = "read", PlanInv, ReadInv
  PROVE  /\ DOMAIN root \subseteq Present /\ Present \subseteq Pointers /\ document \subseteq Places
         /\ \A p \in paths : Reached(p) \subseteq Places
<1>1. IsPlan(paths) /\ document \in Documents
  BY DEF PlanInv
<1>2. DOMAIN root \subseteq Present
  BY DEF ReadInv, RootFollows, Done, Present
<1>3. Present \subseteq Pointers /\ document \subseteq Places
  BY <1>1, DocumentIs DEF IsPlan, Present
<1> QED
  BY <1>2, <1>3 DEF Reached

\* Entering a value neither adds to what is done nor takes from it.
LEMMA EnterValueKeeps ==
  ASSUME PlanInv, ReadInv, NEW v \in todo, EnterValue(v)
  PROVE  PlanInv' /\ ReadInv' /\ TreeInv' /\ ConflictsExact'
<1>1. /\ phase = "read" /\ IsNext(v) /\ v.node \notin paths
      /\ todo' = (todo \ {v}) \cup Selected(v)
      /\ UNCHANGED <<phase, paths, document, root, found, output, stack, outcome>>
  BY DEF EnterValue, writing
<1>2. IsPlan(paths) /\ document \in Documents /\ document \subseteq Places
  BY <1>1, RootIsPresent DEF PlanInv
<1>3. (\A w \in todo : ValueOK(w)) /\ ValueOK(v)
  BY <1>1 DEF ReadInv
<1>4. \A w \in Selected(v) : ValueOK(w) /\ IsPrefix(v.place, w.place)
  BY <1>2, <1>3, SelectedIs
<1>5. (\A w \in todo : ValueOK(w))'
  BY <1>1, <1>3, <1>4 DEF ValueOK
<1>6. \A p : Reached(p)' = Reached(p)
  BY <1>1 DEF Reached
<1>7. ASSUME NEW p \in paths, NEW q \in Reached(p) PROVE Done(p, q)' <=> Done(p, q)
  <2>1. q \in document /\ LeadsTo(p, q)
    BY <1>7 DEF Reached
  <2>2. Covered(Selected(v), p, q) <=> Covers(v, p, q)
    BY <1>1, <1>2, <1>3, <2>1, SelectedCover
  <2>3. Covered(todo', p, q) <=> Covered(todo, p, q)
    BY <1>1, <2>2 DEF Covered
  <2> QED
    BY <1>1, <1>6, <2>3 DEF Done
<1>8. ReadInOrder'
  <2>1. ASSUME NEW p \in paths, NEW q \in Reached(p), NEW w \in todo', Done(p, q) PROVE Before(q, w.place)
    <3>1. CASE w \in todo
      BY <1>1, <2>1, <3>1 DEF ReadInv, ReadInOrder
    <3>2. CASE w \in Selected(v)
      <4>1. Before(q, v.place)
        BY <1>1, <2>1 DEF ReadInv, ReadInOrder
      <4>2. q \in Places /\ v.place \in Places /\ w.place \in Places
        BY <1>2, <1>3, <1>4, <3>2 DEF ValueOK, Reached
      <4> QED
        BY <1>4, <3>2, <4>1, <4>2, BeforePlace
    <3> QED
      BY <1>1, <3>1, <3>2
  <2> QED
    BY <1>1, <1>6, <1>7, <2>1 DEF ReadInOrder
<1>9. RootFollows'
  <2>1. \A p \in DOMAIN root : p \in paths /\ root[p] \in Reached(p)
    BY <1>1 DEF ReadInv, RootFollows, Done
  <2> QED
    BY <1>1, <1>6, <1>7, <2>1 DEF ReadInv, RootFollows
<1>10. ReadInv' /\ PlanInv'
  BY <1>1, <1>5, <1>8, <1>9 DEF ReadInv, PlanInv
<1> QED
  BY <1>1, <1>10 DEF TreeInv, ConflictsExact

\* Copying the next value makes one more field done, the last one so far.
LEMMA CopyValueKeeps ==
  ASSUME PlanInv, ReadInv, NEW v \in todo, CopyValue(v)
  PROVE  PlanInv' /\ ReadInv' /\ TreeInv' /\ ConflictsExact'
<1>1. /\ phase = "read" /\ IsNext(v) /\ v.node \in paths
      /\ todo' = todo \ {v}
      /\ UNCHANGED <<paths, document, output, stack>>
  BY DEF CopyValue, writing
<1>2. /\ IsPlan(paths) /\ document \in Documents /\ document \subseteq Places
      /\ DOMAIN root \subseteq Present /\ Present \subseteq Pointers /\ DOMAIN root \subseteq paths
  BY <1>1, RootIsPresent DEF PlanInv, ReadInv, RootFollows
<1>3. \A w \in todo : ValueOK(w)
  BY <1>1 DEF ReadInv
<1> DEFINE p == v.node
           q == v.place
<1>4. p \in paths /\ q \in Reached(p) /\ q \in Places /\ p \in Pointers
  BY <1>1, <1>2, <1>3 DEF ValueOK, Reached, IsPlan
<1>5. PlanInv'
  <2>1. (IsPlan(paths) /\ document \in Documents)'
    BY <1>1, <1>2
  <2> QED
    BY <2>1 DEF PlanInv
<1>6. /\ Present' = Present /\ Mixed' = Mixed /\ \A r : Reached(r)' = Reached(r)
  BY <1>1 DEF Present, Mixed, Reached
<1>7. p \in Present
  BY <1>4, PresentIs
<1>8. CASE ~Accepts(v.node)
  <2>1. phase' = "finalize" /\ outcome' = "conflict"
    BY <1>8 DEF CopyValue
  <2>2. ~Uniform(DOMAIN root \cup {p})
    BY <1>1, <1>2, <1>4, <1>8, AcceptsIs DEF ReadInv
  <2>3. DOMAIN root \cup {p} \subseteq Present
    BY <1>2, <1>7
  <2>4. Mixed
    <3> DEFINE some == DOMAIN root \cup {p}
    <3> HIDE DEF some
    <3>1. ~Uniform(some) /\ some \subseteq Present
      BY <2>2, <2>3 DEF some
    <3>2. ~Uniform(Present)
      BY <3>1 DEF Uniform
    <3> QED
      BY <1>2, <3>2, MixedIs
  <2>5. ConflictsExact'
    BY <1>1, <1>6, <1>7, <2>1, <2>4 DEF ConflictsExact, ReadInv
  <2>6. ReadInv' /\ TreeInv'
    BY <2>1 DEF ReadInv, TreeInv
  <2> QED
    BY <1>5, <2>5, <2>6
<1>9. CASE Accepts(v.node)
  <2>1. AssignProjectedField(p, q) /\ found' = TRUE /\ UNCHANGED <<phase, outcome>>
    BY <1>9 DEF CopyValue
  <2>2. /\ DOMAIN root' = DOMAIN root \cup {p} /\ root'[p] = q
        /\ \A r \in DOMAIN root \ {p} : root'[r] = root[r]
    BY <1>2, <1>4, <2>1, AssignIs
  <2>3. Uniform(DOMAIN root')
    BY <1>1, <1>2, <1>4, <1>9, <2>2, AcceptsIs DEF ReadInv
  <2>4. \A w \in todo \ {v} : Before(q, w.place)
    BY <1>1 DEF IsNext
  <2>5. ~Covered(todo', p, q)
    <3>1. ASSUME NEW w \in todo \ {v}, Covers(w, p, q) PROVE FALSE
      <4>1. IsPrefix(w.place, q) /\ Before(q, w.place) /\ w.place \in Places
        BY <1>2, <1>3, <2>4, <3>1 DEF Covers, ValueOK
      <4> QED
        BY <1>4, <4>1, BeforePlace
    <3> QED
      BY <1>1, <3>1 DEF Covered
  <2>6. ASSUME NEW r \in paths, NEW s \in Reached(r)
        PROVE  Done(r, s)' <=> Done(r, s) \/ (r = p /\ s = q)
    <3>1. Covers(v, r, s) => r = p /\ s = q
      <4>1. s \in Places /\ LeadsTo(r, s) /\ LeadsTo(p, q)
        BY <1>2, <1>4, <2>6 DEF Reached
      <4> QED
        BY <1>2, <1>4, <4>1, FieldCoversItself DEF Covers
    <3>2. Done(r, s)' <=> ~Covered(todo', r, s)
      BY <1>1, <1>6, <2>6 DEF Done
    <3>3. Done(r, s) <=> ~Covered(todo, r, s)
      BY <2>6 DEF Done
    <3>4. Covered(todo, r, s) <=> Covered(todo', r, s) \/ Covers(v, r, s)
      BY <1>1 DEF Covered
    <3> QED
      BY <2>5, <3>1, <3>2, <3>3, <3>4
  <2>7. ASSUME NEW r \in paths, NEW s \in Reached(r), Done(r, s) PROVE Before(s, q)
    BY <1>1, <2>7 DEF ReadInv, ReadInOrder
  <2>8. ReadInOrder'
    <3>1. ASSUME NEW r \in paths, NEW s \in Reached(r), NEW w \in todo', Done(r, s)' PROVE Before(s, w.place)
      <4>1. CASE Done(r, s)
        BY <1>1, <3>1, <4>1 DEF ReadInv, ReadInOrder
      <4>2. CASE r = p /\ s = q
        BY <1>1, <2>4, <3>1, <4>2
      <4> QED
        BY <2>6, <3>1, <4>1, <4>2
    <3> QED
      BY <1>1, <1>6, <3>1 DEF ReadInOrder
  <2>9. RootFollows'
    <3>1. DOMAIN root' \subseteq paths
      BY <1>2, <1>4, <2>2
    <3>2. ASSUME NEW r \in DOMAIN root' PROVE Done(r, root[r])'
      <4>1. CASE r = p
        BY <1>4, <2>2, <2>6, <4>1
      <4>2. CASE r # p
        <5>1. r \in DOMAIN root /\ root'[r] = root[r] /\ Done(r, root[r])
          BY <1>1, <2>2, <3>2, <4>2 DEF ReadInv, RootFollows
        <5>2. r \in paths /\ root[r] \in Reached(r)
          BY <5>1 DEF Done
        <5> QED
          BY <2>6, <5>1, <5>2
      <4> QED
        BY <4>1, <4>2
    <3>3. ASSUME NEW r \in paths, NEW s \in Reached(r), Done(r, s)'
          PROVE  r \in DOMAIN root' /\ (s = root'[r] \/ Before(s, root'[r]))
      <4>1. CASE r = p
        BY <2>2, <2>6, <2>7, <3>3, <4>1
      <4>2. CASE r # p
        <5>1. Done(r, s)
          BY <2>6, <3>3, <4>2
        <5>2. r \in DOMAIN root /\ (s = root[r] \/ Before(s, root[r]))
          BY <1>1, <5>1 DEF ReadInv, RootFollows, Done
        <5> QED
          BY <2>2, <4>2, <5>2
      <4> QED
        BY <4>1, <4>2
    <3> QED
      BY <1>1, <1>6, <3>1, <3>2, <3>3 DEF RootFollows
  <2>10. (\A w \in todo : ValueOK(w))'
    BY <1>1, <1>3 DEF ValueOK
  <2>11. (found <=> DOMAIN root # {})'
    BY <2>1, <2>2
  <2>12. output' = <<>> /\ stack' = <<>>
    BY <1>1 DEF ReadInv
  <2>13. ReadInv'
    BY <2>3, <2>8, <2>9, <2>10, <2>11, <2>12 DEF ReadInv
  <2>14. TreeInv' /\ ConflictsExact'
    BY <1>1, <2>1 DEF TreeInv, ConflictsExact
  <2> QED
    BY <1>5, <2>13, <2>14
<1> QED
  BY <1>8, <1>9

\* When all has been read the tree has the last value of each pointer.
LEMMA EndReadKeeps ==
  ASSUME PlanInv, ReadInv, EndRead
  PROVE  PlanInv' /\ ReadInv' /\ TreeInv' /\ ConflictsExact'
<1>1. /\ phase = "read" /\ todo = {}
      /\ UNCHANGED <<paths, document, root, output>>
      /\ phase' \in {"write", "finalize"}
      /\ phase' = "write" <=> found
      /\ ~found => outcome' = "not found"
  BY DEF EndRead, call, writing
<1>2. /\ IsPlan(paths) /\ document \in Documents
      /\ DOMAIN root \subseteq Present /\ Present \subseteq Pointers
  BY <1>1, RootIsPresent DEF PlanInv
<1>3. Present' = Present /\ Mixed' = Mixed /\ \A r : Reached(r)' = Reached(r)
  BY <1>1 DEF Present, Mixed, Reached
<1>4. \A p \in paths : \A q \in Reached(p) : Done(p, q)
  BY <1>1 DEF Done, Covered
<1>5. DOMAIN root = Present
  BY <1>1, <1>2, <1>4 DEF Present, ReadInv, RootFollows
<1>6. \A p \in DOMAIN root : IsLast(p, root[p])
  <2>1. ASSUME NEW p \in DOMAIN root PROVE IsLast(p, root[p])
    <3>1. p \in paths /\ root[p] \in Reached(p)
      BY <1>1 DEF ReadInv, RootFollows, Done
    <3>2. \A r \in Reached(p) : r = root[p] \/ Before(r, root[p])
      BY <1>1, <1>4, <3>1 DEF ReadInv, RootFollows
    <3> QED
      BY <3>1, <3>2 DEF IsLast
  <2> QED
    BY <2>1
<1>7. Uniform(Present) /\ ~Mixed /\ (found <=> Present # {})
  BY <1>1, <1>2, <1>5, MixedIs DEF ReadInv
<1>8. PlanInv' /\ ReadInv'
  <2>1. (IsPlan(paths) /\ document \in Documents)'
    BY <1>1, <1>2
  <2>2. phase' # "read"
    BY <1>1
  <2> QED
    BY <2>1, <2>2 DEF PlanInv, ReadInv
<1>9. TreeInv'
  <2>1. CASE found
    <3>1. (\A p \in DOMAIN root : IsLast(p, root[p]))'
      BY <1>1, <1>3, <1>6 DEF IsLast
    <3>2. (DOMAIN root = Present /\ Present # {} /\ Uniform(Present))'
      BY <1>1, <1>3, <1>5, <1>7, <2>1
    <3> QED
      BY <3>1, <3>2 DEF TreeInv
  <2>2. CASE ~found
    BY <1>1, <2>2 DEF TreeInv
  <2> QED
    BY <2>1, <2>2
<1>10. ConflictsExact'
  BY <1>1, <1>3, <1>7 DEF ConflictsExact
<1> QED
  BY <1>8, <1>9, <1>10

\* Failing to read ends the call; what it has read so far does not matter.
LEMMA ReadFailsKeeps ==
  ASSUME PlanInv, ReadInv, ReadFails
  PROVE  PlanInv' /\ ReadInv' /\ TreeInv' /\ ConflictsExact'
<1>1. phase = "read" /\ phase' = "finalize" /\ outcome' = "read failed" /\ UNCHANGED <<paths, document>>
  BY DEF ReadFails, call
<1>2. PlanInv'
  <2>1. (IsPlan(paths) /\ document \in Documents)'
    BY <1>1 DEF PlanInv
  <2> QED
    BY <2>1 DEF PlanInv
<1>3. ReadInv' /\ TreeInv' /\ ConflictsExact'
  BY <1>1 DEF ReadInv, TreeInv, ConflictsExact
<1> QED
  BY <1>2, <1>3

\* Writing changes nothing of the plan, the document and the tree.
WritingStep ==
  /\ phase = "write" /\ UNCHANGED Unwritten
  /\ \/ phase' = "write" /\ UNCHANGED outcome
     \/ phase' = "finalize" /\ outcome' \in {"written", "write failed"}

\* The actions of writing keep what is known of the plan and of the tree.
LEMMA WritingKeeps ==
  ASSUME PlanInv, TreeInv, WritingStep
  PROVE  PlanInv' /\ ReadInv' /\ TreeInv' /\ ConflictsExact'
<1>1. /\ phase = "write" /\ UNCHANGED <<paths, document, todo, root, found>>
      /\ \/ phase' = "write" /\ UNCHANGED outcome
         \/ phase' = "finalize" /\ outcome' \in {"written", "write failed"}
  BY DEF WritingStep, Unwritten, call
<1>2. Present' = Present /\ Mixed' = Mixed /\ \A r : Reached(r)' = Reached(r)
  BY <1>1 DEF Present, Mixed, Reached
<1>3. IsPlan(paths) /\ document \in Documents
  BY <1>1 DEF PlanInv
<1>4. PlanInv'
  <2>1. (IsPlan(paths) /\ document \in Documents)'
    BY <1>1, <1>3
  <2> QED
    BY <2>1 DEF PlanInv
<1>5. /\ DOMAIN root = Present /\ Present # {} /\ Uniform(Present)
      /\ \A p \in DOMAIN root : IsLast(p, root[p])
  BY <1>1 DEF TreeInv
<1>6. TreeInv'
  <2>1. (DOMAIN root = Present /\ Present # {} /\ Uniform(Present))'
    BY <1>1, <1>2, <1>5
  <2>2. (\A p \in DOMAIN root : IsLast(p, root[p]))'
    BY <1>1, <1>2, <1>5 DEF IsLast
  <2> QED
    BY <2>1, <2>2 DEF TreeInv
<1>7. Present \subseteq Pointers
  BY <1>3, PresentIs DEF IsPlan
<1>8. ~Mixed
  BY <1>5, <1>7, MixedIs
<1>9. ConflictsExact'
  BY <1>1, <1>2, <1>5, <1>8 DEF ConflictsExact
<1>10. ReadInv'
  BY <1>1 DEF ReadInv
<1> QED
  BY <1>4, <1>6, <1>9, <1>10

\* Between calls nothing is written and nothing found.
IdleInv == phase = "idle" => output = <<>> /\ stack = <<>> /\ ~found

\* The inductive invariant of reading.
ProjectInv == IdleInv /\ PlanInv /\ ReadInv /\ TreeInv /\ ConflictsExact

\* Nothing has been read or written at first.
LEMMA ProjectInvInit == ProjectInit => ProjectInv
BY DEF ProjectInit, ProjectInv, IdleInv, PlanInv, ReadInv, TreeInv, ConflictsExact

\* What the actions of writing have in common.
LEMMA WritingSteps == WriteRoot \/ WriteMember \/ WriteItem \/ WriteEnd \/ WriteFails => WritingStep
<1>1. WriteRoot => WritingStep
  BY DEF WriteRoot, WritingStep, Unwritten
<1>2. WriteMember => WritingStep
  BY DEF WriteMember, WritingStep, Unwritten
<1>3. WriteItem => WritingStep
  BY DEF WriteItem, WritingStep, Unwritten
<1>4. WriteEnd => WritingStep
  BY DEF WriteEnd, WritingStep, Unwritten
<1>5. WriteFails => WritingStep
  BY DEF WriteFails, WritingStep, Unwritten
<1> QED
  BY <1>1, <1>2, <1>3, <1>4, <1>5

\* Every step keeps the invariants of reading.
LEMMA ProjectInvStep == ProjectInv /\ [ProjectNext]_projectVars => ProjectInv'
<1> SUFFICES ASSUME ProjectInv, [ProjectNext]_projectVars PROVE ProjectInv'
  OBVIOUS
<1>1. IdleInv /\ PlanInv /\ ReadInv /\ TreeInv /\ ConflictsExact
  BY DEF ProjectInv
<1>2. ASSUME NEW list \in PathLists, NEW doc \in Documents, ProjectFields(list, doc) PROVE ProjectInv'
  <2>1. phase = "idle" /\ (phase' = "idle" \/ phase' = "read") /\ UNCHANGED <<found, stack, output>>
    BY <1>2 DEF ProjectFields, writing
  <2>2. IdleInv'
    BY <1>1, <2>1 DEF IdleInv
  <2>3. PlanInv' /\ ReadInv' /\ TreeInv' /\ ConflictsExact'
    BY <1>1, <1>2, <2>1, ProjectFieldsKeeps DEF IdleInv
  <2> QED
    BY <2>2, <2>3 DEF ProjectInv
<1>3. ASSUME NEW v \in todo, CopyValue(v) PROVE ProjectInv'
  <2>1. phase' # "idle"
    BY <1>3 DEF CopyValue
  <2> QED
    BY <1>1, <1>3, <2>1, CopyValueKeeps DEF ProjectInv, IdleInv
<1>4. ASSUME NEW v \in todo, EnterValue(v) PROVE ProjectInv'
  <2>1. phase' # "idle"
    BY <1>4 DEF EnterValue
  <2> QED
    BY <1>1, <1>4, <2>1, EnterValueKeeps DEF ProjectInv, IdleInv
<1>5. ASSUME ReadFails PROVE ProjectInv'
  <2>1. phase' # "idle"
    BY <1>5 DEF ReadFails
  <2> QED
    BY <1>1, <1>5, <2>1, ReadFailsKeeps DEF ProjectInv, IdleInv
<1>6. ASSUME EndRead PROVE ProjectInv'
  <2>1. phase' # "idle"
    BY <1>6 DEF EndRead
  <2> QED
    BY <1>1, <1>6, <2>1, EndReadKeeps DEF ProjectInv, IdleInv
<1>7. ASSUME WritingStep PROVE ProjectInv'
  <2>1. phase' # "idle"
    BY <1>7 DEF WritingStep
  <2> QED
    BY <1>1, <1>7, <2>1, WritingKeeps DEF ProjectInv, IdleInv
<1>8. ASSUME Finalize PROVE ProjectInv'
  BY <1>8 DEF Finalize, ProjectInv, IdleInv, PlanInv, ReadInv, TreeInv, ConflictsExact
<1>9. ASSUME UNCHANGED projectVars PROVE ProjectInv'
  <2>1. UNCHANGED <<phase, paths, document, todo, root, found, stack, output, outcome>>
    BY <1>9 DEF projectVars, call, writing
  <2> QED
    BY <1>1, <2>1 DEF ProjectInv, IdleInv, PlanInv, IsPlan, ReadInv, ReadInOrder, RootFollows, Done, Covered,
      Covers, Reached, ValueOK, InPlan, TreeInv, ConflictsExact, Present, Mixed, IsLast
<1> QED
  BY <1>2, <1>3, <1>4, <1>5, <1>6, <1>7, <1>8, <1>9, WritingSteps DEF ProjectNext

\* A call fails for a conflict just when its pointers mix in its document,
\* and reports that nothing was found just when nothing is there, for any
\* plans, documents, limits and failures (project_fields.go:140-234, 986-1060).
THEOREM CallsProject == ProjectSpec => []ConflictsExact
<1>1. ProjectSpec => []ProjectInv
  BY ProjectInvInit, ProjectInvStep, PTL DEF ProjectSpec
<1>2. ProjectInv => ConflictsExact
  BY DEF ProjectInv
<1> QED
  BY <1>1, <1>2, PTL

--------------------------------------------------------------------------------
(* keyOrderScratch.                                                            *)

\* The arrays of keyOrderScratch.
Buffers == [room : Nat, keys : Seq(Tokens)]

ArraysOK(xs) ==
  /\ xs \in Seq(Buffers) /\ xs # <<>>
  /\ \A n \in DOMAIN xs : Len(xs[n].keys) <= xs[n].room

\* Arrays come, and none gets shorter.
Grows(xs, ys) ==
  DOMAIN xs \subseteq DOMAIN ys /\ \A n \in DOMAIN xs : Len(xs[n].keys) <= Len(ys[n].keys)

\* A function on the first numbers is a sequence.
LEMMA AsSequence ==
  ASSUME NEW S, NEW n \in Nat, NEW s \in [1..n -> S]
  PROVE  s \in Seq(S) /\ Len(s) = n
OBVIOUS

\* What is appended is at the end of the last array; what an array has behind
\* as many keys stays.
LEMMA AppendKeysIs ==
  ASSUME ArraysOK(arrays), NEW keys \in Seq(Tokens), AppendKeys(keys)
  PROVE  /\ ArraysOK(arrays') /\ Grows(arrays, arrays')
         /\ Len(keys) <= Len(arrays'[Len(arrays')].keys)
         /\ \A i \in 1..Len(keys) : arrays'[Len(arrays')].keys[i] = keys[i]
         /\ \A n \in DOMAIN arrays : \A i \in DOMAIN arrays[n].keys :
              i > Len(keys) => arrays'[n].keys[i] = arrays[n].keys[i]
<1> DEFINE last == Len(arrays)
<1>1. /\ arrays \in Seq(Buffers) /\ last \in Nat /\ last >= 1 /\ DOMAIN arrays = 1..last
      /\ \A n \in 1..last : arrays[n] \in Buffers /\ Len(arrays[n].keys) <= arrays[n].room
  BY DEF ArraysOK
<1> HIDE DEF last
<1>2. PICK b \in Buffers : b = arrays[last]
  BY <1>1
<1>3. b.room \in Nat /\ b.keys \in Seq(Tokens) /\ Len(b.keys) \in Nat /\ Len(b.keys) <= b.room
  BY <1>1, <1>2 DEF Buffers
<1>4. PICK n \in Nat : n = Len(keys)
  OBVIOUS
<1>5. CASE n <= b.room /\ arrays' = [arrays EXCEPT ![last].keys = keys \o SubSeq(@, n + 1, Len(@))]
  <2> DEFINE rest == SubSeq(b.keys, n + 1, Len(b.keys))
             new  == keys \o rest
  <2>1. /\ rest \in Seq(Tokens)
        /\ Len(rest) = IF n + 1 <= Len(b.keys) THEN Len(b.keys) - n ELSE 0
        /\ \A i \in 1..Len(rest) : rest[i] = b.keys[n + i]
    BY <1>3, <1>4
  <2> HIDE DEF rest
  <2>2. new \in Seq(Tokens) /\ Len(new) = n + Len(rest)
        /\ (\A i \in 1..n : new[i] = keys[i])
        /\ (\A i \in 1..Len(rest) : new[n + i] = rest[i])
    BY <1>4, <2>1
  <2>3. arrays' = [arrays EXCEPT ![last] = [b EXCEPT !.keys = new]]
    BY <1>2, <1>5 DEF rest
  <2> HIDE DEF new
  <2> DEFINE c == [b EXCEPT !.keys = new]
  <2>4. c \in Buffers /\ c.keys = new /\ c.room = b.room
    BY <2>2 DEF Buffers
  <2> HIDE DEF c
  <2>5. Len(new) <= b.room /\ Len(b.keys) <= Len(new) /\ n <= Len(new)
    BY <1>3, <1>5, <2>1, <2>2
  <2>6. \A i \in 1..Len(b.keys) : i > n => new[i] = b.keys[i]
    <3>1. ASSUME NEW i \in 1..Len(b.keys), i > n PROVE new[i] = b.keys[i]
      <4>1. i - n \in 1..Len(rest) /\ n + (i - n) = i
        BY <1>3, <2>1, <3>1
      <4> QED
        BY <2>1, <2>2, <4>1
    <3> QED
      BY <3>1
  <2>7. /\ Len(arrays') = last /\ DOMAIN arrays' = 1..last /\ arrays'[last] = c
        /\ \A m \in 1..last : m # last => arrays'[m] = arrays[m]
        /\ arrays' \in Seq(Buffers)
    BY <1>1, <2>3, <2>4 DEF c
  <2>8. ArraysOK(arrays')
    <3>1. \A m \in 1..last : Len(arrays'[m].keys) <= arrays'[m].room
      BY <1>1, <2>4, <2>5, <2>7
    <3>2. arrays' # <<>>
      BY <1>1, <2>7
    <3> QED
      BY <2>7, <3>1, <3>2 DEF ArraysOK
  <2>9. Grows(arrays, arrays')
    <3>1. ASSUME NEW m \in 1..last PROVE Len(arrays[m].keys) <= Len(arrays'[m].keys)
      <4>1. CASE m = last
        BY <1>2, <2>4, <2>5, <2>7, <4>1
      <4>2. CASE m # last
        <5>1. arrays[m].keys \in Seq(Tokens)
          BY <1>1 DEF Buffers
        <5> QED
          BY <2>7, <4>2, <5>1
      <4> QED
        BY <4>1, <4>2
    <3> QED
      BY <1>1, <2>7, <3>1 DEF Grows
  <2>10. ASSUME NEW m \in DOMAIN arrays, NEW i \in DOMAIN arrays[m].keys, i > n
         PROVE  arrays'[m].keys[i] = arrays[m].keys[i]
    <3>1. CASE m = last
      <4>1. i \in 1..Len(b.keys)
        BY <1>2, <1>3, <2>10, <3>1
      <4> QED
        BY <1>2, <2>4, <2>6, <2>7, <2>10, <3>1, <4>1
    <3>2. CASE m # last
      BY <1>1, <2>7, <3>2
    <3> QED
      BY <3>1, <3>2
  <2> QED
    BY <1>4, <2>2, <2>4, <2>5, <2>7, <2>8, <2>9, <2>10
<1>6. ASSUME n > b.room, NEW first \in [1..b.room -> ToSet(keys)], NEW room \in Rooms, n <= room,
             arrays' = Append([arrays EXCEPT ![last].keys = first], [room |-> room, keys |-> keys])
      PROVE  /\ ArraysOK(arrays') /\ Grows(arrays, arrays')
             /\ n <= Len(arrays'[Len(arrays')].keys)
             /\ \A i \in 1..n : arrays'[Len(arrays')].keys[i] = keys[i]
             /\ \A m \in DOMAIN arrays : \A i \in DOMAIN arrays[m].keys :
                  i > n => arrays'[m].keys[i] = arrays[m].keys[i]
  <2>1. first \in Seq(Tokens) /\ Len(first) = b.room
    <3>1. ToSet(keys) \subseteq Tokens
      BY DEF ToSet
    <3>2. first \in [1..b.room -> Tokens]
      BY <1>6, <3>1
    <3> QED
      BY ONLY <1>3, <3>2, AsSequence
  <2> DEFINE c  == [b EXCEPT !.keys = first]
             d  == [room |-> room, keys |-> keys]
             xs == [arrays EXCEPT ![last] = c]
  <2>2. c \in Buffers /\ c.keys = first /\ c.room = b.room
    BY <2>1 DEF Buffers
  <2>3. d \in Buffers /\ d.keys = keys /\ d.room = room
    BY BoundAssumption DEF Buffers
  <2>4. arrays' = Append(xs, d)
    BY <1>2, <1>6
  <2> HIDE DEF c, d
  <2>5. /\ xs \in Seq(Buffers) /\ Len(xs) = last /\ xs[last] = c
        /\ \A m \in 1..last : m # last => xs[m] = arrays[m]
    BY <1>1, <2>2
  <2> HIDE DEF xs
  <2>6. /\ Len(arrays') = last + 1 /\ DOMAIN arrays' = 1..(last + 1) /\ arrays'[last] = c
        /\ \A m \in 1..last : m # last => arrays'[m] = arrays[m]
        /\ arrays'[last + 1] = d /\ arrays' \in Seq(Buffers)
    <3>1. /\ Append(xs, d) \in Seq(Buffers) /\ Len(Append(xs, d)) = Len(xs) + 1
          /\ \A m \in 1..Len(xs) : Append(xs, d)[m] = xs[m]
          /\ Append(xs, d)[Len(xs) + 1] = d
      BY <2>3, <2>5, Longer
    <3>2. PICK ys : ys = arrays'
      OBVIOUS
    <3>3. /\ ys \in Seq(Buffers) /\ Len(ys) = last + 1
          /\ \A m \in 1..last : ys[m] = xs[m]
          /\ ys[last + 1] = d
      BY <2>4, <2>5, <3>1, <3>2
    <3>4. DOMAIN ys = 1..(last + 1) /\ last \in 1..last
      BY <1>1, <3>3
    <3> QED
      BY <2>5, <3>2, <3>3, <3>4
  <2>7. ArraysOK(arrays')
    <3>1. ASSUME NEW m \in 1..(last + 1) PROVE Len(arrays'[m].keys) <= arrays'[m].room
      <4>1. CASE m = last
        BY <1>3, <2>1, <2>2, <2>6, <4>1
      <4>2. CASE m = last + 1
        BY <1>4, <1>6, <2>3, <2>6, <4>2
      <4>3. CASE m \in 1..last /\ m # last
        BY <1>1, <2>6, <4>3
      <4> QED
        BY <1>1, <4>1, <4>2, <4>3
    <3>2. arrays' # <<>>
      BY <1>1, <2>6
    <3> QED
      BY <2>6, <3>1, <3>2 DEF ArraysOK
  <2>8. Grows(arrays, arrays')
    <3>1. ASSUME NEW m \in 1..last PROVE Len(arrays[m].keys) <= Len(arrays'[m].keys)
      <4>1. CASE m = last
        BY <1>2, <1>3, <2>1, <2>2, <2>6, <4>1
      <4>2. CASE m # last
        <5>1. arrays[m].keys \in Seq(Tokens)
          BY <1>1 DEF Buffers
        <5> QED
          BY <2>6, <4>2, <5>1
      <4> QED
        BY <4>1, <4>2
    <3> QED
      BY <1>1, <2>6, <3>1 DEF Grows
  <2>9. ASSUME NEW m \in DOMAIN arrays, NEW i \in DOMAIN arrays[m].keys, i > n
        PROVE  arrays'[m].keys[i] = arrays[m].keys[i]
    <3>1. CASE m = last
      <4>1. i \in 1..Len(b.keys)
        BY <1>2, <1>3, <2>9, <3>1
      <4> QED
        BY <1>3, <1>4, <1>6, <2>9, <4>1
    <3>2. CASE m # last
      BY <1>1, <2>6, <3>2
    <3> QED
      BY <3>1, <3>2
  <2> QED
    BY <1>4, <2>3, <2>6, <2>7, <2>8, <2>9
<1> QED
  <2>1. \/ n <= b.room /\ arrays' = [arrays EXCEPT ![last].keys = keys \o SubSeq(@, n + 1, Len(@))]
        \/ n > b.room /\ \E first \in [1..b.room -> ToSet(keys)], room \in Rooms :
              n <= room /\ arrays' = Append([arrays EXCEPT ![last].keys = first], [room |-> room, keys |-> keys])
    BY <1>2, <1>4 DEF AppendKeys, last
  <2> QED
    BY <1>4, <1>5, <1>6, <2>1

--------------------------------------------------------------------------------
(* The tree that is written.                                                   *)

\* The tree of the whole document.
TreeOK ==
  /\ IsPlan(paths) /\ document \subseteq Places
  /\ DOMAIN root \subseteq paths /\ DOMAIN root # {} /\ Uniform(DOMAIN root)
  /\ \A p \in DOMAIN root : IsLast(p, root[p])

\* The tree is that of the whole document while it is written.
LEMMA TreeIsOK ==
  ASSUME phase = "write", PlanInv, TreeInv
  PROVE  TreeOK
<1>1. IsPlan(paths) /\ document \subseteq Places
  BY DocumentIs DEF PlanInv
<1> QED
  BY <1>1, PresentIs DEF TreeOK, TreeInv

\* The keys of an object or array.
LEMMA KeysAre ==
  ASSUME TreeOK, NEW a \in Pointers
  PROVE  /\ Keys(a) \subseteq Tokens /\ IsFiniteSet(Keys(a))
         /\ Cardinality(Keys(a)) \in Nat
         /\ Keys(a) # {} => Cardinality(Keys(a)) >= 1
         /\ \A t \in Tokens : t \in Keys(a) <=> \E p \in DOMAIN root : IsPrefix(Append(a, t), p)
         /\ Keys(a) \subseteq Children(paths, a)
<1>1. DOMAIN root \subseteq Pointers /\ IsFiniteSet(paths) /\ DOMAIN root \subseteq paths /\ paths \subseteq Pointers
  BY DEF TreeOK, IsPlan
<1>2. /\ Keys(a) \subseteq Tokens
      /\ \A t \in Tokens : t \in Keys(a) <=> \E p \in DOMAIN root : IsPrefix(Append(a, t), p)
      /\ \A t \in Tokens : t \in Children(paths, a) <=> \E p \in paths : IsPrefix(Append(a, t), p)
  BY <1>1, ChildLeadsOn DEF Keys
<1>3. IsFiniteSet(Keys(a))
  <2> DEFINE some == {p \in DOMAIN root : IsStrictPrefix(a, p)}
             f    == [p \in some |-> p[Len(a) + 1]]
  <2>1. IsFiniteSet(some)
    BY <1>1, FS_Subset
  <2>2. f \in Surjection(some, Keys(a))
    BY DEF Surjection, Keys, Children
  <2> HIDE DEF f, some
  <2> QED
    BY <2>1, <2>2, FS_Surjection
<1>4. Cardinality(Keys(a)) \in Nat /\ (Keys(a) # {} => Cardinality(Keys(a)) # 0)
  BY <1>3, FS_CardinalityType, FS_EmptySet
<1>5. Keys(a) \subseteq Children(paths, a)
  BY <1>1, <1>2
<1> QED
  BY <1>2, <1>3, <1>4, <1>5

\* What there is at an address.
LEMMA KindIs ==
  ASSUME TreeOK, NEW a \in Pointers
  PROVE  /\ KindAt(a) = "leaf" <=> a \in DOMAIN root
         /\ KindAt(a) \in {"array", "map"} <=> Keys(a) # {}
         /\ KindAt(a) \in {"leaf", "array", "map", "nil"}
         /\ KindAt(a) = "array" =>
              /\ \A t \in Keys(a) : Number[t] \in 0..MaxIndex
              /\ \A t, u \in Keys(a) : Number[t] = Number[u] => t = u
<1>1. /\ DOMAIN root \subseteq Pointers /\ DOMAIN root \subseteq paths /\ paths \subseteq Pointers
      /\ IsPlan(paths) /\ Uniform(DOMAIN root)
  BY DEF TreeOK, IsPlan
<1>2. /\ Keys(a) \subseteq Tokens
      /\ \A t \in Tokens : t \in Keys(a) <=> \E p \in DOMAIN root : IsPrefix(Append(a, t), p)
      /\ Keys(a) = {} <=> \A p \in DOMAIN root : IsPrefix(a, p) => p = a
  BY <1>1, ChildLeadsOn DEF Keys
<1>3. a = <<>> => Keys(a) # {} /\ a \notin DOMAIN root
  <2>1. ASSUME a = <<>> PROVE Keys(a) # {}
    <3>1. PICK p \in DOMAIN root : p \in Pointers
      BY <1>1 DEF TreeOK
    <3>2. p # <<>> /\ IsPrefix(<<>>, p)
      BY <1>1, <3>1, EmptyPrefix DEF IsPlan, Pointers
    <3> QED
      BY <1>2, <2>1, <3>2
  <2> QED
    BY <1>1, <2>1 DEF IsPlan
<1>4. a \in DOMAIN root => Keys(a) = {}
  <2>1. ASSUME a \in DOMAIN root, NEW p \in DOMAIN root, IsPrefix(a, p) PROVE p = a
    BY <1>1, <2>1, NoneInside
  <2> QED
    BY <1>2, <2>1
<1>5. /\ KindAt(a) = "leaf" <=> a \in DOMAIN root
      /\ KindAt(a) \in {"array", "map"} <=> Keys(a) # {}
      /\ KindAt(a) \in {"leaf", "array", "map", "nil"}
      /\ KindAt(a) = "array" => Keys(a) \cap Digits # {}
  BY <1>3, <1>4 DEF KindAt, Keys
<1>6. ASSUME KindAt(a) = "array"
      PROVE  /\ \A t \in Keys(a) : Number[t] \in 0..MaxIndex
             /\ \A t, u \in Keys(a) : Number[t] = Number[u] => t = u
  <2>1. PICK t \in Keys(a) : t \in Digits
    BY <1>5, <1>6
  <2>2. PICK p \in DOMAIN root : IsPrefix(Append(a, t), p)
    BY <1>2, <2>1
  <2>3. PICK l \in Nat : l = Len(a)
    BY DEF Pointers
  <2>4. ASSUME NEW u \in Keys(a), NEW q \in DOMAIN root, IsPrefix(Append(a, u), q)
        PROVE  /\ l + 1 \in DOMAIN q /\ q[l + 1] = u /\ SubSeq(q, 1, l) = a
               /\ \A i \in 1..l : q[i] = a[i]
    <3>1. IsPrefix(a, q) /\ Len(a) < Len(q) /\ q[Len(a) + 1] = u
      BY <1>1, <1>2, <2>4, LongerPrefix DEF Pointers
    <3>2. \A i \in 1..l : a[i] = q[i]
      BY <1>1, <2>3, <3>1, PrefixIs DEF Pointers
    <3>3. l + 1 \in 1..Len(q) /\ l \in 0..Len(q)
      BY <1>1, <2>3, <3>1 DEF Pointers
    <3> DEFINE c == SubSeq(q, 1, l)
    <3>4. c \in Pointers /\ Len(c) = l /\ \A i \in 1..l : c[i] = q[i]
      BY <1>1, <3>3, Beginning DEF Pointers
    <3> HIDE DEF c
    <3>5. \A i \in 1..Len(c) : c[i] = a[i]
      BY <3>2, <3>4
    <3>6. c = a
      BY <2>3, <3>4, <3>5, SameSequence DEF Pointers
    <3> QED
      BY <1>1, <2>3, <3>1, <3>2, <3>3, <3>6 DEF c, Pointers
  <2>5. ASSUME NEW u \in Keys(a) PROVE Number[u] \in 0..MaxIndex
    <3>1. PICK q \in DOMAIN root : IsPrefix(Append(a, u), q)
      BY <1>2, <2>5
    <3>2. l + 1 \in DOMAIN p \cap DOMAIN q /\ p[l + 1] = t /\ q[l + 1] = u
      BY <2>1, <2>2, <2>4, <2>5, <3>1
    <3>3. AgreeBefore(l + 1, p, q)
      <4>1. (l + 1) - 1 = l
        BY <2>3
      <4> QED
        BY <2>1, <2>2, <2>4, <2>5, <3>1, <4>1 DEF AgreeBefore
    <3>4. u \in Digits
      BY <1>1, <2>1, <3>2, <3>3 DEF Uniform
    <3>5. Number[u] <= MaxIndex
      BY <1>1, <3>2, <3>4 DEF Uniform
    <3>6. Number[u] \in Int /\ Number[u] >= 0
      BY <1>2, <2>5, <3>4, TokenAssumption
    <3> QED
      BY <3>5, <3>6, BoundAssumption
  <2>6. ASSUME NEW u \in Keys(a), NEW v \in Keys(a), Number[u] = Number[v] PROVE u = v
    <3>1. l + 1 \in DOMAIN p /\ SubSeq(p, 1, (l + 1) - 1) = a
      BY <2>1, <2>2, <2>3, <2>4
    <3>2. u \in IndexedChildren(paths, a) /\ v \in IndexedChildren(paths, a)
      BY <2>5, <2>6, KeysAre DEF IndexedChildren
    <3>3. p \in paths
      BY <1>1
    <3> QED
      BY <1>1, <2>6, <3>1, <3>2, <3>3 DEF IsPlan, ValidPlan
  <2> QED
    BY <2>5, <2>6
<1> QED
  BY <1>5, <1>6

\* A step that a token takes leads on.
LEMMA LeadsOn ==
  ASSUME NEW a \in Pointers, NEW q \in Places, NEW t \in Tokens, NEW s \in Steps
  PROVE  LeadsTo(Append(a, t), Append(q, s)) <=> LeadsTo(a, q) /\ Takes(t, s)
<1> DEFINE b == Append(a, t)
           r == Append(q, s)
<1>1. PICK l \in Nat : l = Len(a)
  BY DEF Pointers
<1>2. PICK k \in Nat : k = Len(q)
  BY DEF Places
<1>3. Len(b) = l + 1 /\ (\A i \in 1..l : b[i] = a[i]) /\ b[l + 1] = t /\ DOMAIN b = 1..(l + 1) /\ DOMAIN a = 1..l
  <2>1. b \in Pointers
    BY Longer DEF Pointers
  <2> QED
    BY <1>1, <2>1, Longer DEF Pointers
<1>4. Len(r) = k + 1 /\ (\A i \in 1..k : r[i] = q[i]) /\ r[k + 1] = s
  BY <1>2, Longer DEF Places
<1> HIDE DEF b, r
<1>5. l = k => ((\A n \in 1..(l + 1) : Takes(b[n], r[n])) <=> (\A n \in 1..l : Takes(a[n], q[n])) /\ Takes(t, s))
  <2>1. ASSUME l = k
        PROVE  (\A n \in 1..(l + 1) : Takes(b[n], r[n])) <=> (\A n \in 1..l : Takes(b[n], r[n])) /\ Takes(b[l + 1], r[l + 1])
    OBVIOUS
  <2>2. ASSUME l = k, NEW n \in 1..l PROVE Takes(b[n], r[n]) <=> Takes(a[n], q[n])
    BY <1>3, <1>4, <2>2
  <2> QED
    BY <1>3, <1>4, <2>1, <2>2
<1>6. LeadsTo(b, r) <=> l = k /\ \A n \in 1..(l + 1) : Takes(b[n], r[n])
  BY <1>3, <1>4 DEF LeadsTo
<1>7. LeadsTo(a, q) <=> l = k /\ \A n \in 1..l : Takes(a[n], q[n])
  BY <1>1, <1>2, <1>3 DEF LeadsTo
<1> QED
  BY <1>5, <1>6, <1>7 DEF b, r

\* Where the parts of an object and of an array are.
LEMMA PartsAre ==
  /\ \A n \in Positions, t \in Tokens : Member(n, t) \in Steps /\ \A u \in Tokens : Takes(u, Member(n, t)) <=> u = t
  /\ \A n \in Positions : /\ Item(n) \in Steps
                          /\ \A u \in Tokens : Takes(u, Item(n)) <=> Number[u] <= MaxIndex /\ Number[u] = n - 1
<1>1. ASSUME NEW n \in Positions, NEW t \in Tokens
      PROVE  Member(n, t) \in Steps /\ IsMember(Member(n, t)) /\ Member(n, t).key = t
  BY DEF Member, Steps, IsMember
<1>2. ASSUME NEW n \in Positions
      PROVE  Item(n) \in Steps /\ ~IsMember(Item(n)) /\ Item(n).at = n
  BY DEF Item, Steps, IsMember
<1> QED
  BY <1>1, <1>2 DEF Takes

--------------------------------------------------------------------------------
(* The order of keys.                                                          *)

\* The rank of a key is its place in their order.
LEMMA RankIs ==
  ASSUME NEW K, K \subseteq Tokens, IsFiniteSet(K)
  PROVE  /\ \A t \in K : Rank(t, K) \in Nat /\ 1 <= Rank(t, K) /\ Rank(t, K) <= Cardinality(K)
         /\ \A t, u \in K : Rank(t, K) = Rank(u, K) => t = u
<1> DEFINE Upto(t) == {u \in K : Order[u] <= Order[t]}
<1>1. ASSUME NEW t \in K
      PROVE  /\ t \in Upto(t) /\ Upto(t) \subseteq K /\ IsFiniteSet(Upto(t)) /\ Rank(t, K) = Cardinality(Upto(t))
             /\ Cardinality(Upto(t)) \in Nat /\ 1 <= Cardinality(Upto(t)) /\ Cardinality(Upto(t)) <= Cardinality(K)
  <2>1. t \in Upto(t) /\ Upto(t) \subseteq K
    BY TokenAssumption
  <2>2. Rank(t, K) = Cardinality(Upto(t))
    BY DEF Rank
  <2> HIDE DEF Upto
  <2>3. IsFiniteSet(Upto(t)) /\ Cardinality(Upto(t)) <= Cardinality(K)
    BY <2>1, FS_Subset
  <2>4. Cardinality(Upto(t)) \in Nat /\ Cardinality(Upto(t)) # 0
    BY <2>1, <2>3, FS_CardinalityType, FS_EmptySet
  <2> QED
    BY <2>1, <2>2, <2>3, <2>4
<1>2. ASSUME NEW t \in K, NEW u \in K, Order[t] <= Order[u], Rank(t, K) = Rank(u, K) PROVE t = u
  <2>1. Order[t] \in Int /\ Order[u] \in Int
    BY TokenAssumption
  <2>2. Upto(t) \subseteq Upto(u)
    BY <1>2, <2>1, TokenAssumption
  <2>3. u \in Upto(t) => Order[u] <= Order[t]
    OBVIOUS
  <2> HIDE DEF Upto
  <2>4. Upto(t) = Upto(u)
    BY <1>1, <1>2, <2>2, FS_Subset
  <2>5. Order[u] <= Order[t]
    BY <1>1, <2>3, <2>4
  <2> QED
    BY <1>2, <2>1, <2>5, TokenAssumption
<1>3. ASSUME NEW t \in K, NEW u \in K, Rank(t, K) = Rank(u, K) PROVE t = u
  <2>1. Order[t] <= Order[u] \/ Order[u] <= Order[t]
    BY TokenAssumption
  <2> QED
    BY <1>2, <1>3, <2>1
<1> HIDE DEF Upto
<1>4. \A t \in K : Rank(t, K) \in Nat /\ 1 <= Rank(t, K) /\ Rank(t, K) <= Cardinality(K)
  BY <1>1
<1> QED
  BY <1>3, <1>4

\* Keys in order are each at the place of its rank.
LEMMA RankInOrder ==
  ASSUME NEW K, K \subseteq Tokens, NEW n \in Nat, NEW keys \in [1..n -> K], ToSet(keys) = K,
         \A i, j \in DOMAIN keys : i < j => Order[keys[i]] < Order[keys[j]],
         NEW i \in 1..n
  PROVE  Rank(keys[i], K) = i
<1> DEFINE upto == {u \in K : Order[u] <= Order[keys[i]]}
           g    == [j \in 1..i |-> keys[j]]
<1>1. \A j \in 1..n : keys[j] \in K /\ Order[keys[j]] \in Int
  BY TokenAssumption
<1>2. ASSUME NEW j \in 1..n PROVE Order[keys[j]] <= Order[keys[i]] <=> j <= i
  <2>1. j < i => Order[keys[j]] < Order[keys[i]]
    OBVIOUS
  <2>2. i < j => Order[keys[i]] < Order[keys[j]]
    OBVIOUS
  <2>3. j = i => Order[keys[j]] = Order[keys[i]]
    OBVIOUS
  <2> QED
    BY <1>1, <2>1, <2>2, <2>3
<1>3. i \in Nat /\ i >= 1 /\ i <= n /\ 1..i \subseteq 1..n
  OBVIOUS
<1>4. g \in Surjection(1..i, upto)
  <2>1. \A j \in 1..i : g[j] \in upto
    BY <1>1, <1>2, <1>3
  <2>2. ASSUME NEW u \in upto PROVE \E j \in 1..i : g[j] = u
    <3>1. PICK j \in 1..n : u = keys[j]
      BY DEF ToSet
    <3>2. j \in 1..i
      BY <1>2, <1>3, <3>1
    <3> QED
      BY <3>1, <3>2
  <2> QED
    BY <2>1, <2>2 DEF Surjection
<1>5. g \in Injection(1..i, upto)
  <2>1. ASSUME NEW j \in 1..i, NEW k \in 1..i, g[j] = g[k] PROVE j = k
    <3>1. keys[j] = keys[k] /\ j \in 1..n /\ k \in 1..n
      BY <1>3, <2>1
    <3>2. ~(j < k) /\ ~(k < j)
      BY <1>1, <3>1
    <3> QED
      BY <1>3, <3>2
  <2> QED
    BY <1>4, <2>1 DEF Injection, IsInjective, Surjection
<1>6. ExistsBijection(1..i, upto)
  BY <1>4, <1>5 DEF ExistsBijection, Bijection
<1> HIDE DEF upto, g
<1>7. Cardinality(1..i) = i /\ IsFiniteSet(1..i)
  BY <1>3, FS_Interval
<1>8. Cardinality(upto) = i
  BY <1>6, <1>7, FS_Bijection
<1> QED
  BY <1>8 DEF Rank, upto

--------------------------------------------------------------------------------
(* What is being written.                                                      *)

\* Frames and events of this plan.
Frames == [node : Pointers, place : Places, parts : Nat, done : Nat, array : Nat]
Events == [place : Places, value : SUBSET Places]

\* An array has as many parts as its last item needs; a map has one for each of
\* its keys, and reads them from an array that has them all, if it has several.
PartsOK(f, xs) ==
  \/ /\ KindAt(f.node) = "array" /\ f.array = 0 /\ f.parts <= MaxIndex + 1
     /\ \A t \in Keys(f.node) : Number[t] < f.parts
  \/ /\ KindAt(f.node) = "map" /\ f.parts = Cardinality(Keys(f.node))
     /\ f.array = 0 <=> f.parts = 1
     /\ f.array # 0 => f.array \in DOMAIN xs /\ f.parts <= Len(xs[f.array].keys)

FrameOK(f, xs) == LeadsTo(f.node, f.place) /\ f.done <= f.parts /\ PartsOK(f, xs)

\* Each object or array is in the one before it, the first one is the root.
Nested(st) ==
  \A k \in DOMAIN st :
    Len(st[k].node) = k - 1 /\ (k > 1 => IsPrefix(st[k - 1].node, st[k].node))

StackOK(st, xs) ==
  st \in Seq(Frames) /\ Nested(st) /\ \A k \in DOMAIN st : FrameOK(st[k], xs)

\* What an array of keyOrderScratch has after n keys.
SameBehind(n, xs, ys) ==
  \A m \in DOMAIN xs : \A i \in DOMAIN xs[m].keys : i > n => ys[m].keys[i] = xs[m].keys[i]

\* The keys that a map has still to write are in their order.
KeysAhead(f, xs) ==
  f.array # 0 => \A i \in (f.done + 1)..f.parts :
    xs[f.array].keys[i] \in Keys(f.node) /\ Rank(xs[f.array].keys[i], Keys(f.node)) = i

\* An array has keys of the pointers, no more than its room.
LEMMA BufferIs ==
  ASSUME NEW xs, ArraysOK(xs), NEW m \in DOMAIN xs
  PROVE  xs[m].keys \in Seq(Tokens) /\ Len(xs[m].keys) \in Nat
<1>1. xs \in Seq(Buffers)
  BY DEF ArraysOK
<1>2. DOMAIN xs = 1..Len(xs) /\ \A n \in 1..Len(xs) : xs[n] \in Buffers
  BY <1>1
<1>3. PICK b \in Buffers : b = xs[m]
  BY <1>2
<1>4. b.keys \in Seq(Tokens) /\ Len(b.keys) \in Nat
  BY DEF Buffers
<1> QED
  BY <1>3, <1>4

\* A frame keeps an array that has all its keys while arrays grow.
LEMMA FrameStays ==
  ASSUME NEW xs, NEW ys, Grows(xs, ys), NEW f, FrameOK(f, xs), f.parts \in Nat,
         ArraysOK(xs), ArraysOK(ys)
  PROVE  FrameOK(f, ys)
<1>1. ASSUME f.array \in DOMAIN xs, f.parts <= Len(xs[f.array].keys)
      PROVE  f.array \in DOMAIN ys /\ f.parts <= Len(ys[f.array].keys)
  <2>1. f.array \in DOMAIN ys /\ Len(xs[f.array].keys) <= Len(ys[f.array].keys)
    BY <1>1 DEF Grows
  <2>2. Len(xs[f.array].keys) \in Nat /\ Len(ys[f.array].keys) \in Nat
    BY <1>1, <2>1, BufferIs
  <2>3. PICK m \in Nat, n \in Nat : m = Len(xs[f.array].keys) /\ n = Len(ys[f.array].keys)
    BY <2>2
  <2>4. f.parts <= m /\ m <= n
    BY <1>1, <2>1, <2>3
  <2>5. f.parts <= n
    BY <2>4
  <2> QED
    BY <2>1, <2>3, <2>5
<1> QED
  BY <1>1 DEF FrameOK, PartsOK

\* A value is written at once, or it is an object or array that is put on the stack.
Scalar(nodes, place, around) ==
  /\ \A a \in nodes : KindAt(a) \in {"leaf", "nil"}
  /\ output' = Append(output, [place |-> place, value |-> {root[a] : a \in nodes \cap DOMAIN root}])
  /\ stack' = around /\ arrays' = arrays

Pushes(a, place, around, f) ==
  /\ f \in Frames /\ f.node = a /\ f.place = place /\ f.done = 0
  /\ output' = output /\ stack' = Append(around, f)
  /\ ArraysOK(arrays') /\ Grows(arrays, arrays')
  /\ PartsOK(f, arrays') /\ KeysAhead(f, arrays')
  /\ f.array = 0 => arrays' = arrays
  /\ SameBehind(f.parts, arrays, arrays')

\* An array of the tree is put on the stack.
LEMMA WriteArrayPushes ==
  ASSUME TreeOK, ArraysOK(arrays), NEW a \in Pointers, NEW place \in Places, NEW around,
         WriteArray(a, place, around)
  PROVE  \E f : Pushes(a, place, around, f)
<1>1. PICK n \in 1..(MaxIndex + 1) :
        /\ \A t \in Keys(a) : Number[t] < n
        /\ stack' = Append(around, Frame(a, place, n, 0))
  BY DEF WriteArray
<1>2. KindAt(a) = "array" /\ arrays' = arrays /\ output' = output
  BY DEF WriteArray
<1> DEFINE f == Frame(a, place, n, 0)
<1>3. /\ f \in Frames /\ f.node = a /\ f.place = place /\ f.done = 0 /\ f.array = 0 /\ f.parts = n
      /\ n \in Nat /\ n <= MaxIndex + 1
  BY BoundAssumption DEF Frame, Frames
<1>4. stack' = Append(around, f)
  BY <1>1
<1> HIDE DEF f
<1>5. PartsOK(f, arrays') /\ KeysAhead(f, arrays')
  BY <1>1, <1>2, <1>3 DEF PartsOK, KeysAhead
<1>6. Grows(arrays, arrays') /\ SameBehind(f.parts, arrays, arrays') /\ ArraysOK(arrays')
  <2>1. Grows(arrays, arrays)
    BY BufferIs DEF Grows
  <2> QED
    BY <1>2, <2>1 DEF SameBehind
<1> QED
  BY <1>2, <1>3, <1>4, <1>5, <1>6 DEF Pushes

\* A map of the tree is put on the stack, with its keys in order in an array
\* if it has several.
LEMMA WriteMapPushes ==
  ASSUME TreeOK, ArraysOK(arrays), NEW a \in Pointers, NEW place \in Places, NEW around,
         WriteMap(a, place, around)
  PROVE  \E f : Pushes(a, place, around, f)
<1> DEFINE n == Cardinality(Keys(a))
<1>1. KindAt(a) = "map" /\ output' = output
  BY DEF WriteMap
<1>2. n \in Nat /\ Keys(a) \subseteq Tokens /\ n >= 1
  BY <1>1, KeysAre, KindIs
<1>3. CASE n = 1 /\ stack' = Append(around, Frame(a, place, 1, 0)) /\ arrays' = arrays
  <2> DEFINE f == Frame(a, place, 1, 0)
  <2>1. f \in Frames /\ f.node = a /\ f.place = place /\ f.done = 0 /\ f.array = 0 /\ f.parts = 1
    BY DEF Frame, Frames
  <2>2. stack' = Append(around, f)
    BY <1>3
  <2> HIDE DEF f
  <2>3. PartsOK(f, arrays') /\ KeysAhead(f, arrays')
    BY <1>1, <1>3, <2>1 DEF PartsOK, KeysAhead
  <2>4. Grows(arrays, arrays') /\ SameBehind(f.parts, arrays, arrays') /\ ArraysOK(arrays')
    <3>1. Grows(arrays, arrays)
      BY BufferIs DEF Grows
    <3> QED
      BY <1>3, <3>1 DEF SameBehind
  <2> QED
    BY <1>1, <1>3, <2>1, <2>2, <2>3, <2>4 DEF Pushes
<1>4. ASSUME n # 1, NEW keys \in [1..n -> Keys(a)], InOrder(keys, a), AppendKeys(keys),
             stack' = Append(around, Frame(a, place, n, Len(arrays')))
      PROVE  \E f : Pushes(a, place, around, f)
  <2> HIDE DEF n
  <2>1. keys \in [1..n -> Tokens]
    BY <1>2, <1>4
  <2>2. keys \in Seq(Tokens) /\ Len(keys) = n
    BY ONLY <1>2, <2>1, AsSequence
  <2>3. /\ ArraysOK(arrays') /\ Grows(arrays, arrays')
        /\ Len(keys) <= Len(arrays'[Len(arrays')].keys)
        /\ \A i \in 1..Len(keys) : arrays'[Len(arrays')].keys[i] = keys[i]
        /\ \A m \in DOMAIN arrays : \A i \in DOMAIN arrays[m].keys :
              i > Len(keys) => arrays'[m].keys[i] = arrays[m].keys[i]
    BY <1>4, <2>2, AppendKeysIs
  <2>4. Len(arrays') \in Nat /\ Len(arrays') # 0 /\ Len(arrays') \in DOMAIN arrays'
    BY <2>3 DEF ArraysOK
  <2> DEFINE f == Frame(a, place, n, Len(arrays'))
  <2>5. f \in Frames /\ f.node = a /\ f.place = place /\ f.done = 0 /\ f.array = Len(arrays') /\ f.parts = n
    BY <1>2, <2>4 DEF Frame, Frames
  <2>6. stack' = Append(around, f)
    BY <1>4
  <2> HIDE DEF f
  <2>7. \A i \in 1..n : keys[i] \in Keys(a) /\ Rank(keys[i], Keys(a)) = i
    BY <1>2, <1>4, RankInOrder DEF InOrder
  <2>8. KeysAhead(f, arrays')
    BY <2>2, <2>3, <2>5, <2>7 DEF KeysAhead
  <2>9. PartsOK(f, arrays')
    BY <1>1, <1>4, <2>2, <2>3, <2>4, <2>5 DEF PartsOK, n
  <2>10. SameBehind(f.parts, arrays, arrays')
    BY <2>2, <2>3, <2>5 DEF SameBehind
  <2> QED
    BY <1>1, <2>3, <2>4, <2>5, <2>6, <2>8, <2>9, <2>10 DEF Pushes
<1>5. \/ n = 1 /\ stack' = Append(around, Frame(a, place, 1, 0)) /\ arrays' = arrays
      \/ n # 1 /\ stack' = Append(around, Frame(a, place, n, Len(arrays')))
         /\ \E keys \in [1..n -> Keys(a)] : InOrder(keys, a) /\ AppendKeys(keys)
  BY DEF WriteMap
<1> QED
  BY <1>3, <1>4, <1>5

\* What is written next is a scalar, or an object or array that is put on the
\* stack.
LEMMA WritesOrPushes ==
  ASSUME TreeOK, ArraysOK(arrays), NEW nodes, nodes \subseteq Pointers, NEW place \in Places, NEW around,
         WriteProjectedValue(nodes, place, around)
  PROVE  \/ Scalar(nodes, place, around)
         \/ \E a \in nodes : \E f : Pushes(a, place, around, f)
BY WriteArrayPushes, WriteMapPushes DEF WriteProjectedValue, WriteScalar, Scalar

\* The number of the part that a key is.
Position(a, t) == IF KindAt(a) = "array" THEN Number[t] + 1 ELSE Rank(t, Keys(a))

\* What an object or an array writes next: nodes that its place leads to, and
\* none only for an item, ...
NextPart(nodes, step) ==
  /\ step \in Steps /\ nodes \subseteq Pointers /\ (IsMember(step) => nodes # {})
  /\ \A a \in nodes : \E t \in Tokens : a = Append(Top.node, t) /\ Takes(t, step)

\* ... which are the keys whose turn it is, if none has been overwritten.
RightPart(nodes, step) ==
  /\ \A a \in nodes : \E t \in Keys(Top.node) : a = Append(Top.node, t) /\ Position(Top.node, t) = Top.done + 1
  /\ \A t \in Keys(Top.node) :
       Position(Top.node, t) = Top.done + 1 \/ Takes(t, step) => Append(Top.node, t) \in nodes

\* The frame on top is as good as all others, and as deep as the stack is.
LEMMA TopIs ==
  ASSUME StackOK(stack, arrays), stack # <<>>
  PROVE  /\ Len(stack) \in Nat /\ Len(stack) >= 1 /\ DOMAIN stack = 1..Len(stack) /\ Len(stack) \in DOMAIN stack
         /\ Top \in Frames /\ FrameOK(Top, arrays) /\ Len(Top.node) = Len(stack) - 1
<1>1. stack \in Seq(Frames)
  BY DEF StackOK
<1>2. Len(stack) \in Nat /\ Len(stack) >= 1 /\ DOMAIN stack = 1..Len(stack) /\ \A k \in 1..Len(stack) : stack[k] \in Frames
  BY <1>1
<1>3. Len(stack) \in 1..Len(stack)
  BY <1>2
<1>4. stack[Len(stack)] = Top
  BY DEF Top
<1> QED
  BY <1>2, <1>3, <1>4 DEF StackOK, Nested

\* WriteMember writes the key that its array has next; it is the key whose turn
\* it is, if none that is still to come has been overwritten.
LEMMA MemberIsNext ==
  ASSUME TreeOK, ArraysOK(arrays), StackOK(stack, arrays), WriteMember
  PROVE  /\ stack # <<>> /\ Top.done < Top.parts
         /\ \E nodes, step :
              /\ NextPart(nodes, step) /\ WriteProjectedValue(nodes, Append(Top.place, step), Advanced)
              /\ KeysAhead(Top, arrays) => RightPart(nodes, step)
<1>1. /\ stack # <<>> /\ Top.done < Top.parts /\ KindAt(Top.node) = "map"
  BY DEF WriteMember
<1>2. PICK t \in NextKeys(Top) :
        WriteProjectedValue({Append(Top.node, t)}, Append(Top.place, Member(Top.done + 1, t)), Advanced)
  BY DEF WriteMember
<1>3. PICK f \in Frames : f = Top
  BY <1>1, TopIs
<1>4. /\ f.node \in Pointers /\ f.place \in Places /\ f.parts \in Nat /\ f.done \in Nat /\ f.array \in Nat
      /\ FrameOK(f, arrays) /\ f.done < f.parts /\ KindAt(f.node) = "map"
  BY <1>1, <1>3, TopIs DEF Frames
<1>5. /\ f.parts = Cardinality(Keys(f.node)) /\ (f.array = 0 <=> f.parts = 1)
      /\ f.array # 0 => f.array \in DOMAIN arrays /\ f.parts <= Len(arrays[f.array].keys)
  BY <1>4 DEF FrameOK, PartsOK
<1>6. /\ Keys(f.node) \subseteq Tokens /\ IsFiniteSet(Keys(f.node))
      /\ \A u \in Keys(f.node) : Rank(u, Keys(f.node)) \in Nat /\ 1 <= Rank(u, Keys(f.node)) /\ Rank(u, Keys(f.node)) <= f.parts
      /\ \A u, v \in Keys(f.node) : Rank(u, Keys(f.node)) = Rank(v, Keys(f.node)) => u = v
  BY <1>4, <1>5, KeysAre, RankIs
<1>7. t \in Tokens
  <2>1. CASE f.array = 0
    BY <1>2, <1>3, <1>6, <2>1 DEF NextKeys
  <2>2. CASE f.array # 0
    <3>1. arrays[f.array].keys \in Seq(Tokens) /\ Len(arrays[f.array].keys) \in Nat
      BY <1>5, <2>2, BufferIs
    <3>2. PICK keys \in Seq(Tokens) : keys = arrays[f.array].keys /\ f.done + 1 \in 1..Len(keys)
      BY <1>4, <1>5, <2>2, <3>1
    <3> QED
      BY <1>2, <1>3, <2>2, <3>2 DEF NextKeys
  <2> QED
    BY <2>1, <2>2
<1>8. f.done + 1 \in Positions
  BY <1>4 DEF Positions
<1> DEFINE nodes == {Append(f.node, t)}
           step  == Member(f.done + 1, t)
<1>9. step \in Steps /\ \A u \in Tokens : Takes(u, step) <=> u = t
  BY <1>7, <1>8, PartsAre
<1>10. Append(f.node, t) \in Pointers
  BY <1>4, <1>7, Longer DEF Pointers
<1>11. WriteProjectedValue(nodes, Append(Top.place, step), Advanced)
  BY <1>2, <1>3
<1> HIDE DEF step
<1>12. NextPart(nodes, step)
  <2>1. nodes # {}
    OBVIOUS
  <2> QED
    BY <1>3, <1>7, <1>9, <1>10, <2>1 DEF NextPart
<1>13. KeysAhead(Top, arrays) => RightPart(nodes, step)
  <2>1. ASSUME KeysAhead(f, arrays) PROVE t \in Keys(f.node) /\ Rank(t, Keys(f.node)) = f.done + 1
    <3>1. CASE f.array = 0
      <4>1. t \in Keys(f.node) /\ f.parts = 1 /\ f.done = 0
        BY <1>2, <1>3, <1>4, <1>5, <3>1 DEF NextKeys
      <4> QED
        BY <1>6, <4>1
    <3>2. CASE f.array # 0
      <4>1. f.done + 1 \in (f.done + 1)..f.parts
        BY <1>4
      <4>2. t = arrays[f.array].keys[f.done + 1]
        BY <1>2, <1>3, <3>2 DEF NextKeys
      <4> QED
        BY <2>1, <3>2, <4>1, <4>2 DEF KeysAhead
    <3> QED
      BY <3>1, <3>2
  <2>2. \A u : Position(f.node, u) = Rank(u, Keys(f.node))
    BY <1>4 DEF Position
  <2>3. ASSUME KeysAhead(f, arrays) PROVE RightPart(nodes, step)
    <3>1. t \in Keys(f.node) /\ Position(f.node, t) = f.done + 1
      BY <2>1, <2>2, <2>3
    <3>2. ASSUME NEW u \in Keys(f.node), Position(f.node, u) = f.done + 1 \/ Takes(u, step) PROVE u = t
      BY <1>6, <1>9, <2>2, <3>1, <3>2
    <3> QED
      BY <1>3, <3>1, <3>2 DEF RightPart
  <2> QED
    BY <1>3, <2>3
<1> HIDE DEF nodes
<1> QED
  BY <1>1, <1>11, <1>12, <1>13

\* WriteItem writes the item of the next index, or null for none.
LEMMA ItemIsNext ==
  ASSUME TreeOK, ArraysOK(arrays), StackOK(stack, arrays), WriteItem
  PROVE  /\ stack # <<>> /\ Top.done < Top.parts
         /\ \E nodes, step :
              /\ NextPart(nodes, step) /\ WriteProjectedValue(nodes, Append(Top.place, step), Advanced)
              /\ KeysAhead(Top, arrays) => RightPart(nodes, step)
<1>1. /\ stack # <<>> /\ Top.done < Top.parts /\ KindAt(Top.node) = "array"
  BY DEF WriteItem
<1>2. PICK f \in Frames : f = Top
  BY <1>1, TopIs
<1>3. /\ f.node \in Pointers /\ f.done \in Nat /\ KindAt(f.node) = "array"
  BY <1>1, <1>2 DEF Frames
<1>4. Keys(f.node) \subseteq Tokens /\ \A t \in Keys(f.node) : Number[t] \in 0..MaxIndex
  BY <1>3, KeysAre, KindIs
<1>5. f.done + 1 \in Positions
  BY <1>3 DEF Positions
<1> DEFINE nodes == {Append(f.node, t) : t \in {t \in Keys(f.node) : Number[t] = f.done}}
           step  == Item(f.done + 1)
<1>6. step \in Steps /\ \A u \in Tokens : Takes(u, step) <=> Number[u] <= MaxIndex /\ Number[u] = f.done
  <2>1. (f.done + 1) - 1 = f.done
    BY <1>3
  <2> QED
    BY <1>5, <2>1, PartsAre
<1>7. \A t \in Tokens : Append(f.node, t) \in Pointers
  BY <1>3, Longer DEF Pointers
<1>8. WriteProjectedValue(nodes, Append(Top.place, step), Advanced)
  BY <1>2 DEF WriteItem
<1>9. NextPart(nodes, step)
  <2>1. ~IsMember(step)
    BY DEF IsMember, Item
  <2> HIDE DEF step
  <2>2. ASSUME NEW a \in nodes PROVE a \in Pointers /\ \E t \in Tokens : a = Append(f.node, t) /\ Takes(t, step)
    <3>1. PICK t \in Keys(f.node) : a = Append(f.node, t) /\ Number[t] = f.done
      OBVIOUS
    <3>2. Number[t] <= MaxIndex
      BY <1>4, BoundAssumption
    <3> QED
      BY <1>4, <1>6, <1>7, <3>1, <3>2
  <2> HIDE DEF nodes
  <2> QED
    BY <1>2, <1>6, <2>2, <2>1 DEF NextPart
<1>10. RightPart(nodes, step)
  <2>1. \A t \in Keys(f.node) : Position(f.node, t) = f.done + 1 <=> Number[t] = f.done
    BY <1>3, <1>4, BoundAssumption DEF Position
  <2>2. ASSUME NEW a \in nodes PROVE \E t \in Keys(f.node) : a = Append(f.node, t) /\ Position(f.node, t) = f.done + 1
    BY <2>1
  <2> HIDE DEF step
  <2>3. ASSUME NEW t \in Keys(f.node), Position(f.node, t) = f.done + 1 \/ Takes(t, step) PROVE Append(f.node, t) \in nodes
    BY <1>4, <1>6, <2>1, <2>3
  <2> HIDE DEF nodes
  <2> QED
    BY <1>2, <2>2, <2>3 DEF RightPart
<1> HIDE DEF nodes, step
<1> QED
  BY <1>1, <1>8, <1>9, <1>10

\* The frame on top with one more part done.
LEMMA AdvancedIs ==
  ASSUME StackOK(stack, arrays), stack # <<>>, Top.done < Top.parts
  PROVE  /\ StackOK(Advanced, arrays) /\ Len(Advanced) = Len(stack) /\ DOMAIN Advanced = DOMAIN stack
         /\ \A k \in DOMAIN stack : k # Len(stack) => Advanced[k] = stack[k]
         /\ \A k \in DOMAIN stack :
              /\ Advanced[k].node = stack[k].node /\ Advanced[k].place = stack[k].place
              /\ Advanced[k].parts = stack[k].parts /\ Advanced[k].array = stack[k].array
         /\ Advanced[Len(stack)].done = Top.done + 1
<1>1. stack \in Seq(Frames)
  BY DEF StackOK
<1>2. Len(stack) \in Nat /\ Len(stack) >= 1 /\ DOMAIN stack = 1..Len(stack)
  BY TopIs
<1>3. Len(stack) \in 1..Len(stack)
  BY <1>2
<1>4. PICK l \in Nat : l = Len(stack) /\ l >= 1 /\ DOMAIN stack = 1..l /\ l \in 1..l
  BY <1>2, <1>3, Zenon
<1>5. PICK f \in Frames : f = stack[l] /\ f = Top /\ FrameOK(f, arrays) /\ f.done < f.parts
  BY <1>4, TopIs DEF Top
<1> DEFINE g == [f EXCEPT !.done = @ + 1]
<1>6. /\ g \in Frames /\ g.node = f.node /\ g.place = f.place /\ g.parts = f.parts /\ g.array = f.array
      /\ g.done = f.done + 1
  BY DEF Frames
<1>7. Advanced = [stack EXCEPT ![l] = g]
  BY <1>4, <1>5 DEF Advanced
<1> HIDE DEF g
<1>8. PICK st : st = Advanced
  OBVIOUS
<1>9. /\ st \in Seq(Frames) /\ Len(st) = l /\ DOMAIN st = 1..l /\ st[l] = g
      /\ \A k \in 1..l : k # l => st[k] = stack[k]
  BY <1>1, <1>4, <1>6, <1>7, <1>8
<1>10. \A k \in 1..l : /\ st[k].node = stack[k].node /\ st[k].place = stack[k].place
                      /\ st[k].parts = stack[k].parts /\ st[k].array = stack[k].array
  BY <1>5, <1>6, <1>9
<1>11. FrameOK(g, arrays)
  <2>1. f.parts \in Nat /\ f.done \in Nat
    BY DEF Frames
  <2>2. g.done <= g.parts
    BY <1>5, <1>6, <2>1
  <2> QED
    BY <1>5, <1>6, <2>2 DEF FrameOK, PartsOK
<1>12. \A k \in 1..l : FrameOK(st[k], arrays)
  BY <1>4, <1>9, <1>11 DEF StackOK
<1>13. Nested(st)
  <2>1. \A k \in 1..l : Len(stack[k].node) = k - 1 /\ (k > 1 => IsPrefix(stack[k - 1].node, stack[k].node))
    BY <1>4 DEF StackOK, Nested
  <2>2. \A k \in 1..l : k > 1 => k - 1 \in 1..l
    OBVIOUS
  <2> QED
    BY <1>9, <1>10, <2>1, <2>2 DEF Nested
<1>14. StackOK(st, arrays)
  BY <1>9, <1>12, <1>13 DEF StackOK
<1>15. st[l].done = Top.done + 1
  BY <1>5, <1>6, <1>9
<1> QED
  BY <1>4, <1>8, <1>9, <1>10, <1>14, <1>15

\* A frame that is pushed goes with those around it.
LEMMA PushedIs ==
  ASSUME ArraysOK(arrays), NEW around, StackOK(around, arrays), NEW a \in Pointers, NEW place \in Places, NEW f,
         Pushes(a, place, around, f), LeadsTo(a, place), Len(a) = Len(around),
         around # <<>> => IsPrefix(around[Len(around)].node, a)
  PROVE  /\ StackOK(stack', arrays')
         /\ Len(stack') = Len(around) + 1 /\ DOMAIN stack' = 1..(Len(around) + 1)
         /\ \A k \in 1..Len(around) : stack'[k] = around[k]
         /\ stack'[Len(around) + 1] = f
<1>1. /\ f \in Frames /\ f.node = a /\ f.place = place /\ f.done = 0 /\ stack' = Append(around, f)
      /\ ArraysOK(arrays') /\ Grows(arrays, arrays') /\ PartsOK(f, arrays')
  BY DEF Pushes
<1>2. around \in Seq(Frames)
  BY DEF StackOK
<1>3. PICK l \in Nat : l = Len(around) /\ DOMAIN around = 1..l
  BY <1>2
<1>4. PICK st : st = stack'
  OBVIOUS
<1>5. /\ st \in Seq(Frames) /\ Len(st) = l + 1 /\ DOMAIN st = 1..(l + 1) /\ st[l + 1] = f
      /\ \A k \in 1..l : st[k] = around[k]
  BY <1>1, <1>2, <1>3, <1>4, Longer
<1>6. FrameOK(f, arrays')
  <2>1. f.done <= f.parts
    BY <1>1 DEF Frames
  <2> QED
    BY <1>1, <2>1 DEF FrameOK
<1>7. \A k \in 1..l : FrameOK(around[k], arrays')
  <2>1. ASSUME NEW k \in 1..l PROVE FrameOK(around[k], arrays')
    <3>1. FrameOK(around[k], arrays) /\ around[k] \in Frames
      BY <1>2, <1>3 DEF StackOK
    <3>2. around[k].parts \in Nat
      BY <3>1 DEF Frames
    <3> QED
      BY <1>1, <3>1, <3>2, FrameStays
  <2> QED
    BY <2>1
<1>8. Nested(st)
  <2>1. \A k \in 1..l : Len(around[k].node) = k - 1 /\ (k > 1 => IsPrefix(around[k - 1].node, around[k].node))
    BY <1>3 DEF StackOK, Nested
  <2>2. ASSUME NEW k \in 1..(l + 1) PROVE Len(st[k].node) = k - 1 /\ (k > 1 => IsPrefix(st[k - 1].node, st[k].node))
    <3>1. CASE k \in 1..l
      <4>1. k > 1 => k - 1 \in 1..l
        BY <3>1
      <4> QED
        BY <1>5, <2>1, <3>1, <4>1
    <3>2. CASE k = l + 1
      <4>1. Len(st[k].node) = k - 1
        BY <1>1, <1>3, <1>5, <3>2
      <4>2. ASSUME k > 1 PROVE IsPrefix(st[k - 1].node, st[k].node)
        <5>1. l \in 1..l /\ k - 1 = l /\ around # <<>>
          BY <1>3, <3>2, <4>2
        <5> QED
          BY <1>1, <1>3, <1>5, <3>2, <5>1
      <4> QED
        BY <4>1, <4>2
    <3> QED
      BY <3>1, <3>2
  <2> QED
    BY <1>5, <2>2 DEF Nested
<1>9. StackOK(st, arrays')
  <2>1. ASSUME NEW k \in 1..(l + 1) PROVE FrameOK(st[k], arrays')
    <3>1. k \in 1..l \/ k = l + 1
      OBVIOUS
    <3> QED
      BY <1>5, <1>6, <1>7, <3>1
  <2> QED
    BY <1>5, <1>8, <2>1 DEF StackOK
<1> QED
  BY <1>3, <1>4, <1>5, <1>9

\* Without the frame on top.
LEMMA FrontIs ==
  ASSUME StackOK(stack, arrays), stack # <<>>
  PROVE  /\ StackOK(Front(stack), arrays) /\ Len(Front(stack)) = Len(stack) - 1
         /\ \A k \in 1..(Len(stack) - 1) : Front(stack)[k] = stack[k]
<1>1. stack \in Seq(Frames) /\ Nested(stack) /\ \A k \in DOMAIN stack : FrameOK(stack[k], arrays)
  BY DEF StackOK
<1>2. PICK l \in Nat : l = Len(stack) /\ l >= 1 /\ DOMAIN stack = 1..l
  BY TopIs
<1>3. PICK st : st = Front(stack)
  OBVIOUS
<1>4. st \in Seq(Frames) /\ Len(st) = l - 1 /\ \A k \in 1..(l - 1) : st[k] = stack[k]
  <2>1. l - 1 \in 0..Len(stack)
    BY <1>2
  <2> QED
    BY <1>1, <1>2, <1>3, <2>1, Beginning DEF Front
<1>5. DOMAIN st = 1..(l - 1)
  BY <1>4
<1>6. Nested(st)
  <2>1. \A k \in 1..l : Len(stack[k].node) = k - 1 /\ (k > 1 => IsPrefix(stack[k - 1].node, stack[k].node))
    BY <1>1, <1>2 DEF Nested
  <2>2. \A k \in 1..(l - 1) : k \in 1..l /\ (k > 1 => k - 1 \in 1..(l - 1))
    OBVIOUS
  <2> QED
    BY <1>4, <1>5, <2>1, <2>2 DEF Nested
<1>7. \A k \in 1..(l - 1) : FrameOK(st[k], arrays)
  BY <1>1, <1>2, <1>4
<1> QED
  BY <1>2, <1>3, <1>4, <1>5, <1>6, <1>7 DEF StackOK

\* A node and the place of a part that is next.
LEMMA NextPartIs ==
  ASSUME StackOK(stack, arrays), stack # <<>>, NEW nodes, NEW step, NextPart(nodes, step)
  PROVE  /\ Append(Top.place, step) \in Places /\ nodes \subseteq Pointers
         /\ \A a \in nodes : LeadsTo(a, Append(Top.place, step)) /\ Len(a) = Len(stack) /\ IsPrefix(Top.node, a)
<1>1. PICK f \in Frames : f = Top /\ FrameOK(f, arrays) /\ Len(f.node) = Len(stack) - 1
  BY TopIs
<1>2. f.node \in Pointers /\ f.place \in Places /\ LeadsTo(f.node, f.place) /\ step \in Steps /\ Len(stack) \in Nat
  BY <1>1, TopIs DEF Frames, FrameOK, NextPart
<1>3. Append(f.place, step) \in Places
  BY <1>2, Longer DEF Places
<1>4. ASSUME NEW a \in nodes PROVE LeadsTo(a, Append(f.place, step)) /\ Len(a) = Len(stack) /\ IsPrefix(f.node, a)
  <2>1. PICK t \in Tokens : a = Append(f.node, t) /\ Takes(t, step)
    BY <1>1 DEF NextPart
  <2>2. LeadsTo(a, Append(f.place, step))
    BY <1>2, <2>1, LeadsOn
  <2>3. PICK b \in Pointers : b = a /\ Len(b) = Len(f.node) + 1 /\ \A i \in 1..Len(f.node) : b[i] = f.node[i]
    BY <1>2, <2>1, Longer DEF Pointers
  <2>4. IsPrefix(f.node, b)
    BY <1>2, <2>3, PrefixIs DEF Pointers
  <2>5. Len(a) = Len(stack)
    BY <1>1, <1>2, <2>3
  <2> QED
    BY <2>2, <2>3, <2>4, <2>5
<1> QED
  BY <1>1, <1>3, <1>4 DEF NextPart

\* What is written is null or the last value of a pointer that leads there.
EventOK(e) == \A v \in e.value : \E p \in paths : IsLast(p, v) /\ LeadsTo(p, e.place)

OutputOK(o) == o \in Seq(Events) /\ \A n \in DOMAIN o : EventOK(o[n])

\* A good event may come behind good ones.
LEMMA OneMoreEvent ==
  ASSUME NEW o, OutputOK(o), NEW e \in Events, EventOK(e)
  PROVE  /\ OutputOK(Append(o, e)) /\ Len(Append(o, e)) = Len(o) + 1 /\ DOMAIN Append(o, e) = 1..(Len(o) + 1)
         /\ \A n \in 1..Len(o) : Append(o, e)[n] = o[n]
         /\ Append(o, e)[Len(o) + 1] = e
<1>1. o \in Seq(Events)
  BY DEF OutputOK
<1>2. PICK l \in Nat : l = Len(o) /\ DOMAIN o = 1..l
  BY <1>1
<1>3. PICK x : x = Append(o, e)
  OBVIOUS
<1>4. /\ x \in Seq(Events) /\ Len(x) = l + 1 /\ (\A n \in 1..l : x[n] = o[n]) /\ x[l + 1] = e
  BY <1>1, <1>2, <1>3, Longer
<1>5. DOMAIN x = 1..(l + 1)
  BY <1>4
<1>6. \A n \in 1..(l + 1) : EventOK(x[n])
  <2>1. \A n \in 1..l : EventOK(x[n])
    BY <1>2, <1>4 DEF OutputOK
  <2>2. \A n \in 1..(l + 1) : n \in 1..l \/ n = l + 1
    OBVIOUS
  <2> QED
    BY <1>4, <2>1, <2>2
<1> QED
  BY <1>2, <1>3, <1>4, <1>5, <1>6 DEF OutputOK

\* Writing a value where its nodes lead keeps what is known of the arrays, the
\* stack and the output.
LEMMA PartKeeps ==
  ASSUME TreeOK, ArraysOK(arrays), NEW around, StackOK(around, arrays), OutputOK(output),
         NEW nodes, nodes \subseteq Pointers, NEW place \in Places,
         \A a \in nodes : /\ LeadsTo(a, place) /\ Len(a) = Len(around)
                          /\ around # <<>> => IsPrefix(around[Len(around)].node, a),
         WriteProjectedValue(nodes, place, around)
  PROVE  ArraysOK(arrays') /\ StackOK(stack', arrays') /\ OutputOK(output')
<1>1. CASE Scalar(nodes, place, around)
  <2> DEFINE e == [place |-> place, value |-> {root[a] : a \in nodes \cap DOMAIN root}]
  <2>1. e \in Events /\ EventOK(e)
    <3>1. ASSUME NEW a \in nodes \cap DOMAIN root PROVE root[a] \in Places /\ IsLast(a, root[a]) /\ a \in paths
      BY DEF TreeOK, IsLast, Reached
    <3>2. e.place = place /\ e.value = {root[a] : a \in nodes \cap DOMAIN root} /\ e.value \subseteq Places
      BY <3>1
    <3>3. e \in Events
      BY <3>2 DEF Events
    <3>4. ASSUME NEW v \in e.value PROVE \E p \in paths : IsLast(p, v) /\ LeadsTo(p, e.place)
      BY <3>1, <3>2, <3>4
    <3> HIDE DEF e
    <3> QED
      BY <3>3, <3>4 DEF EventOK
  <2>2. output' = Append(output, e) /\ stack' = around /\ arrays' = arrays
    BY <1>1 DEF Scalar
  <2> HIDE DEF e
  <2>3. OutputOK(output')
    BY <2>1, <2>2, OneMoreEvent
  <2> QED
    BY <2>2, <2>3
<1>2. ASSUME NEW a \in nodes, NEW f, Pushes(a, place, around, f)
      PROVE  ArraysOK(arrays') /\ StackOK(stack', arrays') /\ OutputOK(output')
  <2>1. StackOK(stack', arrays')
    BY <1>2, PushedIs
  <2> QED
    BY <1>2, <2>1 DEF Pushes
<1> QED
  BY <1>1, <1>2, WritesOrPushes

\* The inductive invariant of writing.
WriteInv ==
  /\ ArraysOK(arrays) /\ OutputOK(output)
  /\ phase = "write" => StackOK(stack, arrays)

\* The output of the same call is as good as it was.
LEMMA SameOutputOK ==
  ASSUME UNCHANGED <<paths, document>>, NEW o
  PROVE  OutputOK(o)' <=> OutputOK(o)
<1>1. \A p, v : IsLast(p, v)' <=> IsLast(p, v)
  BY DEF IsLast, Reached
<1> QED
  BY <1>1 DEF OutputOK, EventOK

\* A stack for the same tree is as good as it was.
LEMMA SameStackOK ==
  ASSUME UNCHANGED root, NEW st, NEW xs
  PROVE  StackOK(st, xs)' <=> StackOK(st, xs)
<1>1. \A a : KindAt(a)' = KindAt(a) /\ Keys(a)' = Keys(a)
  BY DEF KindAt, Keys
<1> QED
  BY <1>1 DEF StackOK, FrameOK, PartsOK

\* Nothing is wrong with the empty stack, ...
LEMMA EmptyStack == ASSUME NEW xs PROVE StackOK(<<>>, xs)
BY DEF StackOK, Nested

\* ... or with the empty output.
LEMMA NoOutput == OutputOK(<<>>)
BY DEF OutputOK

\* WriteRoot puts the map of the root on the empty stack.
LEMMA WriteRootKeeps ==
  ASSUME TreeOK, ArraysOK(arrays), OutputOK(output), WriteRoot
  PROVE  /\ ArraysOK(arrays') /\ StackOK(stack', arrays') /\ output' = output
         /\ \E f : Pushes(<<>>, <<>>, <<>>, f) /\ Len(stack') = 1 /\ DOMAIN stack' = 1..1 /\ stack'[1] = f
<1>1. WriteMap(<<>>, <<>>, <<>>)
  BY DEF WriteRoot
<1>2. PICK o : o = <<>>
  OBVIOUS
<1>3. o \in Pointers /\ o \in Places /\ Len(o) = 0 /\ DOMAIN o = {} /\ LeadsTo(o, o) /\ StackOK(o, arrays)
  BY <1>2, EmptyStack DEF Pointers, Places, LeadsTo
<1>4. PICK f : Pushes(o, o, o, f)
  BY <1>1, <1>2, <1>3, WriteMapPushes
<1>5. o # <<>> => IsPrefix(o[Len(o)].node, o)
  BY <1>2
<1>6. /\ StackOK(stack', arrays') /\ Len(stack') = Len(o) + 1 /\ DOMAIN stack' = 1..(Len(o) + 1)
      /\ stack'[Len(o) + 1] = f
  BY <1>3, <1>4, <1>5, PushedIs, ZenonT(30)
<1> QED
  BY <1>2, <1>3, <1>4, <1>6 DEF Pushes

\* Writing a member or an item keeps the arrays, the stack and the output good.
LEMMA NextKeeps ==
  ASSUME TreeOK, ArraysOK(arrays), OutputOK(output), StackOK(stack, arrays), WriteMember \/ WriteItem
  PROVE  ArraysOK(arrays') /\ StackOK(stack', arrays') /\ OutputOK(output')
<1>1. PICK nodes, step :
        /\ stack # <<>> /\ Top.done < Top.parts
        /\ NextPart(nodes, step) /\ WriteProjectedValue(nodes, Append(Top.place, step), Advanced)
  BY MemberIsNext, ItemIsNext
<1>2. /\ Append(Top.place, step) \in Places /\ nodes \subseteq Pointers
      /\ \A a \in nodes : LeadsTo(a, Append(Top.place, step)) /\ Len(a) = Len(stack) /\ IsPrefix(Top.node, a)
  BY <1>1, NextPartIs
<1>3. /\ StackOK(Advanced, arrays) /\ Len(Advanced) = Len(stack)
      /\ Advanced[Len(stack)].node = Top.node
  <2>1. Len(stack) \in DOMAIN stack
    BY <1>1, TopIs
  <2> QED
    BY <1>1, <2>1, AdvancedIs DEF Top
<1> QED
  BY <1>1, <1>2, <1>3, PartKeeps

\* Every step keeps the invariants of writing.
LEMMA WriteInvStep ==
  ASSUME ProjectInv, WriteInv, [ProjectNext]_projectVars
  PROVE  WriteInv'
<1>1. ArraysOK(arrays) /\ OutputOK(output) /\ (phase = "write" => StackOK(stack, arrays) /\ TreeOK)
  BY TreeIsOK DEF WriteInv, ProjectInv
<1>2. ASSUME UNCHANGED writing, stack = <<>>, output = <<>> PROVE WriteInv'
  <2>1. arrays' = arrays /\ output' = <<>> /\ stack' = <<>>
    BY <1>2 DEF writing
  <2>2. ArraysOK(arrays)'
    BY <1>1, <2>1
  <2>3. StackOK(stack, arrays)'
    BY <2>1 DEF StackOK, Nested
  <2>4. OutputOK(output)'
    BY <2>1 DEF OutputOK
  <2> QED
    BY <2>2, <2>3, <2>4 DEF WriteInv
<1>3. ASSUME UNCHANGED <<paths, document, root>>,
             ArraysOK(arrays') /\ StackOK(stack', arrays') /\ OutputOK(output') PROVE WriteInv'
  <2>1. OutputOK(output)' /\ StackOK(stack, arrays)' /\ ArraysOK(arrays)'
    BY <1>3, SameOutputOK, SameStackOK
  <2> QED
    BY <2>1 DEF WriteInv
<1>4. ASSUME NEW list \in PathLists, NEW doc \in Documents, ProjectFields(list, doc) PROVE WriteInv'
  BY <1>2, <1>4 DEF ProjectFields, ProjectInv, IdleInv
<1>5. ASSUME NEW v \in todo, CopyValue(v) \/ EnterValue(v) PROVE WriteInv'
  BY <1>2, <1>5 DEF CopyValue, EnterValue, ProjectInv, ReadInv
<1>6. ASSUME ReadFails \/ EndRead PROVE WriteInv'
  BY <1>2, <1>6 DEF ReadFails, EndRead, ProjectInv, ReadInv
<1>7. ASSUME WritingStep PROVE UNCHANGED <<paths, document, root>> /\ phase = "write"
  BY <1>7 DEF WritingStep, Unwritten, call
<1>8. ASSUME WriteRoot PROVE WriteInv'
  <2>1. ArraysOK(arrays') /\ StackOK(stack', arrays') /\ OutputOK(output')
    BY <1>1, <1>7, <1>8, WritingSteps, WriteRootKeeps
  <2> QED
    BY <1>3, <1>7, <1>8, <2>1, WritingSteps
<1>9. ASSUME WriteMember \/ WriteItem PROVE WriteInv'
  <2>1. ArraysOK(arrays') /\ StackOK(stack', arrays') /\ OutputOK(output')
    BY <1>1, <1>7, <1>9, WritingSteps, NextKeeps
  <2> QED
    BY <1>3, <1>7, <1>9, <2>1, WritingSteps
<1>10. ASSUME WriteEnd PROVE WriteInv'
  <2>1. stack # <<>> /\ stack' = Front(stack) /\ arrays' = arrays /\ output' = output
    BY <1>10 DEF WriteEnd
  <2>2. StackOK(stack', arrays')
    BY <1>1, <1>7, <1>10, <2>1, WritingSteps, FrontIs
  <2> QED
    BY <1>1, <1>3, <1>7, <1>10, <2>1, <2>2, WritingSteps
<1>11. ASSUME WriteFails PROVE WriteInv'
  <2>1. arrays' = arrays /\ output' = output /\ stack' = stack
    BY <1>11 DEF WriteFails, writing
  <2> QED
    BY <1>1, <1>3, <1>7, <1>11, <2>1, WritingSteps
<1>12. ASSUME Finalize PROVE WriteInv'
  <2>1. output' = <<>> /\ phase' = "idle" /\ arrays' = <<[Last(arrays) EXCEPT !.keys = <<>>]>>
    BY <1>12 DEF Finalize
  <2>2. PICK b \in Buffers : b = Last(arrays)
    <3>1. arrays \in Seq(Buffers) /\ arrays # <<>>
      BY <1>1 DEF ArraysOK
    <3>2. Len(arrays) \in 1..Len(arrays) /\ \A n \in 1..Len(arrays) : arrays[n] \in Buffers
      BY <3>1
    <3> QED
      BY <3>2 DEF Last
  <2>3. <<>> \in Seq(Tokens)
    OBVIOUS
  <2>4. PICK none \in Seq(Tokens) : none = <<>>
    BY <2>3
  <2> DEFINE c == [b EXCEPT !.keys = none]
  <2>5. c \in Buffers /\ c.keys = none /\ c.room \in Nat
    BY DEF Buffers
  <2>6. arrays' = <<c>>
    BY <2>1, <2>2, <2>4
  <2> HIDE DEF c
  <2>7. ArraysOK(<<c>>)
    <3>1. Len(<<>>) <= c.room
      BY <2>5
    <3> QED
      BY <2>5, <2>4, <3>1 DEF ArraysOK
  <2>8. ArraysOK(arrays)' /\ OutputOK(output)'
    BY <2>1, <2>6, <2>7 DEF OutputOK
  <2> QED
    BY <2>1, <2>8 DEF WriteInv
<1>13. ASSUME UNCHANGED projectVars PROVE WriteInv'
  <2>1. UNCHANGED <<phase, paths, document, root, arrays, output, stack>>
    BY <1>13 DEF projectVars, call, writing
  <2>2. OutputOK(output)' /\ ArraysOK(arrays)' /\ (StackOK(stack, arrays)' <=> StackOK(stack, arrays))
    BY <1>1, <2>1, SameOutputOK, SameStackOK
  <2> QED
    BY <1>1, <2>1, <2>2 DEF WriteInv
<1> QED
  BY <1>4, <1>5, <1>6, <1>8, <1>9, <1>10, <1>11, <1>12, <1>13 DEF ProjectNext

\* They hold at first.
LEMMA WriteInvInit == ProjectInit => WriteInv
<1> SUFFICES ASSUME ProjectInit PROVE WriteInv
  OBVIOUS
<1>1. phase = "idle" /\ output = <<>> /\ arrays = <<[room |-> FirstRoom, keys |-> <<>>]>>
  BY DEF ProjectInit
<1>2. [room |-> FirstRoom, keys |-> <<>>] \in Buffers
  BY BoundAssumption DEF Buffers
<1>3. ArraysOK(arrays)
  <2>1. Len(<<>>) <= FirstRoom
    BY BoundAssumption
  <2> QED
    BY <1>1, <1>2, <2>1 DEF ArraysOK
<1> QED
  BY <1>1, <1>3 DEF WriteInv, OutputOK

\* A value that is written where its pointer leads comes under no other pointer.
LEMMA WrittenAreSelected ==
  ASSUME IdleInv, PlanInv, WriteInv, NEW n \in DOMAIN output, NEW v \in output[n].value
  PROVE  \E p \in paths : IsLast(p, v) /\ \A q \in paths : LeadsTo(q, output[n].place) <=> q = p
<1>1. output \in Seq(Events) /\ EventOK(output[n])
  BY DEF WriteInv, OutputOK
<1>2. output[n].place \in Places
  <2>1. output[n] \in Events
    BY <1>1
  <2> QED
    BY <2>1 DEF Events
<1>3. PICK p \in paths : IsLast(p, v) /\ LeadsTo(p, output[n].place)
  BY <1>1 DEF EventOK
<1>4. IsPlan(paths)
  <2>1. phase # "idle"
    BY DEF IdleInv
  <2> QED
    BY <2>1 DEF PlanInv
<1>5. \A q \in paths : InPlan(paths, q)
  <2>1. ASSUME NEW q \in paths PROVE InPlan(paths, q)
    <3>1. q \in Pointers
      BY <1>4 DEF IsPlan
    <3>2. IsPrefix(q, q)
      BY <3>1, PrefixIs DEF Pointers
    <3> QED
      BY <3>1, <3>2 DEF InPlan
  <2> QED
    BY <2>1
<1>6. ASSUME NEW q \in paths, LeadsTo(q, output[n].place) PROVE q = p
  BY <1>2, <1>3, <1>4, <1>5, <1>6, OneLeadsTo
<1> QED
  BY <1>3, <1>6

\* Keys have different numbers, from 1 to the number of parts.
LEMMA PositionIs ==
  ASSUME TreeOK, NEW a \in Pointers, Keys(a) # {}
  PROVE  /\ \A t \in Keys(a) : Position(a, t) \in Nat /\ Position(a, t) >= 1
         /\ \A t, u \in Keys(a) : Position(a, t) = Position(a, u) => t = u
<1>1. CASE KindAt(a) = "array"
  <2>1. /\ \A t \in Keys(a) : Number[t] \in 0..MaxIndex
        /\ \A t, u \in Keys(a) : Number[t] = Number[u] => t = u
    BY <1>1, KindIs
  <2>2. \A t \in Keys(a) : Number[t] \in Nat /\ Position(a, t) = Number[t] + 1
    BY <1>1, <2>1, BoundAssumption DEF Position
  <2> QED
    BY <2>1, <2>2
<1>2. CASE KindAt(a) # "array"
  <2>1. Keys(a) \subseteq Tokens /\ IsFiniteSet(Keys(a)) /\ \A t : Position(a, t) = Rank(t, Keys(a))
    BY <1>2, KeysAre DEF Position
  <2> QED
    BY <2>1, RankIs
<1> QED
  BY <1>1, <1>2

\* No key comes behind the last part.
LEMMA PositionInParts ==
  ASSUME TreeOK, NEW f \in Frames, NEW xs, FrameOK(f, xs), NEW t \in Keys(f.node)
  PROVE  Position(f.node, t) <= f.parts
<1>1. f.node \in Pointers /\ f.parts \in Nat /\ PartsOK(f, xs)
  BY DEF Frames, FrameOK
<1>2. CASE KindAt(f.node) = "array"
  <2>1. Number[t] < f.parts /\ Number[t] \in 0..MaxIndex
    BY <1>1, <1>2, KindIs DEF PartsOK
  <2> QED
    BY <1>1, <1>2, <2>1, BoundAssumption DEF Position
<1>3. CASE KindAt(f.node) # "array"
  <2>1. f.parts = Cardinality(Keys(f.node))
    BY <1>1, <1>3 DEF PartsOK
  <2>2. Keys(f.node) \subseteq Tokens /\ IsFiniteSet(Keys(f.node))
    BY <1>1, KeysAre
  <2> QED
    BY <1>3, <2>1, <2>2, RankIs DEF Position
<1> QED
  BY <1>2, <1>3

\* The key under which a pointer of the tree goes on.
LEMMA GoesOn ==
  ASSUME TreeOK, NEW p \in DOMAIN root, NEW a \in Pointers, NEW k \in Nat, Len(a) = k - 1, IsPrefix(a, p), Keys(a) # {}
  PROVE  /\ p \in Pointers /\ k \in 1..Len(p) /\ p[k] \in Keys(a)
         /\ IsPrefix(Append(a, p[k]), p)
         /\ \A t \in Tokens : IsPrefix(Append(a, t), p) <=> p[k] = t
<1>1. p \in Pointers
  BY DEF TreeOK, IsPlan
<1>2. a # p
  BY KindIs
<1>3. Len(a) <= Len(p) /\ \A i \in 1..Len(a) : a[i] = p[i]
  BY <1>1, PrefixIs DEF Pointers
<1>4. Len(p) \in Nat /\ Len(a) # Len(p)
  BY <1>1, <1>2, <1>3, SameSequence DEF Pointers
<1>5. k \in 1..Len(p) /\ Len(a) < Len(p) /\ Len(a) + 1 = k
  <2>1. Len(a) \in Nat
    BY DEF Pointers
  <2> QED
    BY <1>3, <1>4, <2>1
<1>6. p[k] \in Tokens
  BY <1>1, <1>5 DEF Pointers
<1>7. \A t \in Tokens : IsPrefix(Append(a, t), p) <=> p[k] = t
  BY <1>1, <1>5, LongerPrefix DEF Pointers
<1>8. p[k] \in Keys(a)
  BY <1>6, <1>7, KeysAre
<1> QED
  BY <1>1, <1>5, <1>6, <1>7, <1>8

\* Each object or array on the stack is in all that are below it there.
LEMMA NestedIs ==
  ASSUME NEW st \in Seq(Frames), Nested(st), NEW k \in DOMAIN st, NEW j \in 1..k
  PROVE  IsPrefix(st[j].node, st[k].node)
<1>1. PICK l \in Nat : l = Len(st) /\ DOMAIN st = 1..l
  OBVIOUS
<1>2. \A i \in 1..l : st[i].node \in Seq(Tokens) /\ (i > 1 => IsPrefix(st[i - 1].node, st[i].node))
  <2>1. \A i \in 1..l : st[i] \in Frames
    BY <1>1
  <2> QED
    BY <1>1, <2>1 DEF Nested, Frames, Pointers
<1> DEFINE Bad == {i \in j..l : ~IsPrefix(st[j].node, st[i].node)}
<1>3. SUFFICES ASSUME Bad # {} PROVE FALSE
  <2>1. k \in j..l
    BY <1>1
  <2> QED
    BY <2>1
<1>4. Bad \subseteq Nat
  BY <1>1
<1>5. PICK i \in Bad : \A m \in Bad : i <= m
  <2> HIDE DEF Bad
  <2> QED
    BY <1>3, <1>4, Least
<1>6. j \in 1..l /\ i \in j..l /\ ~IsPrefix(st[j].node, st[i].node)
  BY <1>1
<1>7. i # j
  <2>1. IsPrefix(st[j].node, st[j].node)
    BY <1>2, <1>6, PrefixIs
  <2> QED
    BY <1>6, <2>1
<1>8. i - 1 \in j..l /\ ~(i <= i - 1)
  BY <1>1, <1>6, <1>7
<1>9. IsPrefix(st[j].node, st[i - 1].node)
  BY <1>5, <1>8
<1>10. i \in 1..l /\ i > 1 /\ i - 1 \in 1..l
  BY <1>1, <1>6, <1>7
<1> QED
  BY <1>2, <1>6, <1>9, <1>10, PrefixTwice

\* How often a pointer has been written.
Once(p, o) ==
  \E n \in DOMAIN o : o[n].value = {root[p]} /\ \A m \in DOMAIN o : LeadsTo(p, o[m].place) <=> m = n
Never(p, o) == \A m \in DOMAIN o : ~LeadsTo(p, o[m].place)

\* The frame on the way of a pointer that is furthest up the stack.
IsDeepest(st, k, p) ==
  /\ k \in DOMAIN st /\ IsPrefix(st[k].node, p)
  /\ k = Len(st) \/ ~IsPrefix(st[k + 1].node, p)

\* All around the frame on top are at the part that it is in.
Chain(st) == \A k \in DOMAIN st : k > 1 => st[k - 1].done = Position(st[k - 1].node, st[k].node[k - 1])

\* No key that is still to come has been overwritten.
KeysKept(st, xs) == \A k \in DOMAIN st : KeysAhead(st[k], xs)

\* What is in a part that is done is written, and nothing else is.
Progress(st, o) ==
  \A p \in DOMAIN root : \A k \in DOMAIN st :
    IsDeepest(st, k, p) => IF Position(st[k].node, p[k]) <= st[k].done THEN Once(p, o) ELSE Never(p, o)

EmitOK(st, xs, o) == Chain(st) /\ KeysKept(st, xs) /\ Progress(st, o)

\* Events that a pointer has no part in do not matter to it.
LEMMA OtherEvent ==
  ASSUME NEW p, NEW o, OutputOK(o), NEW e \in Events, EventOK(e), ~LeadsTo(p, e.place)
  PROVE  /\ Once(p, o) => Once(p, Append(o, e))
         /\ Never(p, o) => Never(p, Append(o, e))
<1>1. PICK l \in Nat : l = Len(o) /\ DOMAIN o = 1..l
  <2>1. o \in Seq(Events)
    BY DEF OutputOK
  <2> QED
    BY <2>1
<1>2. PICK x : x = Append(o, e)
  OBVIOUS
<1>3. /\ x = Append(o, e) /\ DOMAIN x = 1..(l + 1) /\ DOMAIN o = 1..l
      /\ \A n \in 1..l : x[n] = o[n]
      /\ x[l + 1] = e
  BY <1>1, <1>2, OneMoreEvent
<1>4. \A m \in 1..(l + 1) : m \in 1..l \/ m = l + 1
  OBVIOUS
<1>5. \A m \in 1..l : m \in 1..(l + 1) /\ m # l + 1
  OBVIOUS
<1>6. ASSUME Once(p, o) PROVE Once(p, x)
  BY <1>3, <1>4, <1>5, <1>6 DEF Once
<1>7. ASSUME Never(p, o) PROVE Never(p, x)
  BY <1>3, <1>4, <1>7 DEF Never
<1> QED
  BY <1>3, <1>6, <1>7

\* A pointer that has not been written is written once with its own event.
LEMMA OwnEvent ==
  ASSUME NEW p, NEW o, OutputOK(o), NEW e \in Events, EventOK(e), LeadsTo(p, e.place), e.value = {root[p]},
         Never(p, o)
  PROVE  Once(p, Append(o, e))
<1>1. PICK l \in Nat : l = Len(o) /\ DOMAIN o = 1..l
  <2>1. o \in Seq(Events)
    BY DEF OutputOK
  <2> QED
    BY <2>1
<1>2. PICK x : x = Append(o, e)
  OBVIOUS
<1>3. /\ x = Append(o, e) /\ DOMAIN x = 1..(l + 1) /\ DOMAIN o = 1..l
      /\ \A n \in 1..l : x[n] = o[n]
      /\ x[l + 1] = e
  BY <1>1, <1>2, OneMoreEvent
<1>4. \A m \in 1..(l + 1) : m \in 1..l \/ m = l + 1
  OBVIOUS
<1>5. l + 1 \in 1..(l + 1) /\ \A m \in 1..l : m # l + 1
  OBVIOUS
<1> QED
  BY <1>3, <1>4, <1>5 DEF Once, Never

\* What is known of one frame of a stack.
LEMMA FrameIs ==
  ASSUME TreeOK, NEW st, NEW xs, StackOK(st, xs), NEW k \in DOMAIN st
  PROVE  /\ st[k] \in Frames /\ st[k].node \in Pointers /\ k \in Nat /\ k >= 1 /\ DOMAIN st = 1..Len(st)
         /\ Len(st[k].node) = k - 1 /\ FrameOK(st[k], xs) /\ Keys(st[k].node) # {}
         /\ st[k].done \in Nat /\ st[k].parts \in Nat
<1>1. st \in Seq(Frames)
  BY DEF StackOK
<1>2. DOMAIN st = 1..Len(st) /\ \A i \in 1..Len(st) : st[i] \in Frames
  BY <1>1
<1>3. PICK f \in Frames : f = st[k]
  BY <1>2
<1>4. f.node \in Pointers /\ f.done \in Nat /\ f.parts \in Nat
  BY DEF Frames
<1>5. FrameOK(f, xs) /\ Len(f.node) = k - 1
  BY <1>3 DEF StackOK, Nested
<1>6. Keys(f.node) # {}
  BY <1>4, <1>5, KindIs DEF FrameOK, PartsOK
<1>7. k \in Nat /\ k >= 1
  BY <1>2
<1> QED
  BY <1>2, <1>3, <1>4, <1>5, <1>6, <1>7

\* A pointer of the tree that has a frame's node in front of it.
LEMMA OnTheWay ==
  ASSUME TreeOK, NEW st, NEW xs, StackOK(st, xs), NEW k \in DOMAIN st, NEW p \in DOMAIN root, IsPrefix(st[k].node, p)
  PROVE  /\ p \in Pointers /\ k \in 1..Len(p) /\ p[k] \in Keys(st[k].node) /\ p[k] \in Tokens
         /\ IsPrefix(Append(st[k].node, p[k]), p)
         /\ \A t \in Tokens : IsPrefix(Append(st[k].node, t), p) <=> p[k] = t
         /\ Position(st[k].node, p[k]) \in Nat /\ Position(st[k].node, p[k]) >= 1
         /\ Position(st[k].node, p[k]) <= st[k].parts
<1>1. /\ st[k] \in Frames /\ st[k].node \in Pointers /\ k \in Nat
      /\ Len(st[k].node) = k - 1 /\ FrameOK(st[k], xs) /\ Keys(st[k].node) # {}
  BY FrameIs
<1>2. /\ p \in Pointers /\ k \in 1..Len(p) /\ p[k] \in Keys(st[k].node)
      /\ IsPrefix(Append(st[k].node, p[k]), p)
      /\ \A t \in Tokens : IsPrefix(Append(st[k].node, t), p) <=> p[k] = t
  BY <1>1, GoesOn
<1>3. p[k] \in Tokens
  BY <1>1, <1>2, KeysAre
<1>4. /\ Position(st[k].node, p[k]) \in Nat /\ Position(st[k].node, p[k]) >= 1
      /\ Position(st[k].node, p[k]) <= st[k].parts
  BY <1>1, <1>2, PositionIs, PositionInParts
<1> QED
  BY <1>2, <1>3, <1>4

\* The way of a pointer leads to the place of the next part just when it is the
\* next part.
LEMMA WayToNext ==
  ASSUME TreeOK, StackOK(stack, arrays), stack # <<>>,
         NEW nodes, NEW step, NextPart(nodes, step), RightPart(nodes, step),
         NEW r0 \in DOMAIN root, NEW p \in Pointers, IsPrefix(p, r0)
  PROVE  LeadsTo(p, Append(Top.place, step)) <=> p \in nodes
<1>1. p \in nodes => LeadsTo(p, Append(Top.place, step))
  BY NextPartIs
<1>2. ASSUME LeadsTo(p, Append(Top.place, step)) PROVE p \in nodes
  <2>1. PICK l \in Nat : l = Len(stack) /\ l \in DOMAIN stack /\ l >= 1 /\ stack[l] = Top
    BY TopIs DEF Top
  <2>2. /\ Top \in Frames /\ Top.node \in Pointers /\ Len(Top.node) = l - 1 /\ FrameOK(Top, arrays)
        /\ Keys(Top.node) # {}
    BY <2>1, FrameIs
  <2>3. Top.place \in Places /\ step \in Steps /\ LeadsTo(Top.node, Top.place)
    BY <2>2 DEF Frames, NextPart, FrameOK
  <2>4. PICK q \in Places : q = Append(Top.place, step) /\ Len(q) = Len(Top.place) + 1
    <3>1. Append(Top.place, step) \in Seq(Steps) /\ Len(Append(Top.place, step)) = Len(Top.place) + 1
      BY <2>3, Longer DEF Places
    <3> QED
      BY <3>1 DEF Places
  <2>5. Len(Top.place) = l - 1
    BY <2>2, <2>3 DEF LeadsTo
  <2>6. p \in Pointers /\ IsPlan(paths) /\ r0 \in paths /\ r0 \in Pointers
    BY DEF TreeOK, IsPlan
  <2>7. Len(p) = l
    BY <1>2, <2>1, <2>4, <2>5 DEF LeadsTo
  <2> DEFINE b == SubSeq(p, 1, l - 1)
             t == p[l]
  <2>8. b \in Pointers /\ Len(b) = l - 1 /\ \A i \in 1..(l - 1) : b[i] = p[i]
    <3>1. l - 1 \in 0..Len(p)
      BY <2>1, <2>7
    <3> QED
      BY <2>6, <3>1, Beginning DEF Pointers
  <2>9. t \in Tokens
    BY <2>1, <2>6, <2>7 DEF Pointers
  <2>10. p = Append(b, t)
    <3> HIDE DEF b
    <3>1. PICK c \in Pointers : c = Append(b, t) /\ Len(c) = (l - 1) + 1 /\ (\A i \in 1..(l - 1) : c[i] = b[i]) /\ c[(l - 1) + 1] = t
      <4>1. /\ Append(b, t) \in Seq(Tokens) /\ Len(Append(b, t)) = Len(b) + 1
            /\ (\A i \in 1..Len(b) : Append(b, t)[i] = b[i]) /\ Append(b, t)[Len(b) + 1] = t
        BY <2>8, <2>9, Longer DEF Pointers
      <4> HIDE DEF t
      <4> QED
        BY <2>8, <4>1 DEF Pointers
    <3>2. (l - 1) + 1 = l /\ \A i \in 1..l : i \in 1..(l - 1) \/ i = l
      BY <2>1
    <3>3. Len(c) = l /\ c[l] = p[l]
      BY <3>1, <3>2
    <3>4. \A i \in 1..l : c[i] = p[i]
      BY <2>8, <3>1, <3>2, <3>3
    <3>5. c = p
      BY <2>6, <2>7, <3>3, <3>4, SameSequence DEF Pointers
    <3> QED
      BY <3>1, <3>5
  <2> HIDE DEF b, t
  <2>11. LeadsTo(b, Top.place) /\ Takes(t, step)
    BY <1>2, <2>3, <2>8, <2>9, <2>10, LeadsOn
  <2>12. IsPrefix(b, p)
    <3>1. Len(b) <= Len(p)
      BY <2>7, <2>8
    <3> QED
      BY <2>6, <2>8, <3>1, PrefixIs DEF Pointers
  <2>13. InPlan(paths, b)
    <3>1. IsPrefix(b, r0)
      <4>1. Len(p) \in Nat /\ Len(b) \in Nat /\ Len(r0) \in Nat /\ Len(b) <= Len(p) /\ Len(p) <= Len(r0)
        BY <2>6, <2>7, <2>8, PrefixIs DEF Pointers
      <4>2. \A i \in 1..Len(b) : b[i] = p[i]
        BY <2>8
      <4>3. \A i \in 1..Len(p) : p[i] = r0[i]
        BY <2>6, PrefixIs DEF Pointers
      <4>4. Len(b) <= Len(r0) /\ \A i \in 1..Len(b) : b[i] = r0[i]
        BY <4>1, <4>2, <4>3
      <4> QED
        BY <2>6, <2>8, <4>4, PrefixIs DEF Pointers
    <3> QED
      BY <2>6, <2>8, <3>1 DEF InPlan
  <2>14. InPlan(paths, Top.node)
    <3>1. PICK u \in Keys(Top.node) : u \in Tokens
      BY <2>2, KeysAre
    <3>2. PICK r \in DOMAIN root : IsPrefix(Append(Top.node, u), r)
      BY <2>2, <3>1, KeysAre
    <3>3. r \in Pointers /\ r \in paths
      BY DEF TreeOK, IsPlan
    <3>4. IsPrefix(Top.node, r)
      BY <2>2, <3>1, <3>2, <3>3, LongerPrefix DEF Pointers
    <3> QED
      BY <2>2, <3>3, <3>4 DEF InPlan
  <2>15. b = Top.node
    BY <2>3, <2>6, <2>11, <2>13, <2>14, OneLeadsTo
  <2>16. t \in Keys(Top.node)
    <3>1. IsPrefix(Append(Top.node, t), r0)
      BY <2>10, <2>15
    <3> QED
      BY <2>2, <2>9, <3>1, KeysAre
  <2> QED
    BY <2>10, <2>11, <2>15, <2>16 DEF RightPart
<1> QED
  BY <1>1, <1>2

\* The same for a whole pointer.
LEMMA LeadsToNext ==
  ASSUME TreeOK, StackOK(stack, arrays), stack # <<>>,
         NEW nodes, NEW step, NextPart(nodes, step), RightPart(nodes, step), NEW p \in DOMAIN root
  PROVE  LeadsTo(p, Append(Top.place, step)) <=> p \in nodes
<1>1. p \in Pointers
  BY DEF TreeOK, IsPlan
<1>2. IsPrefix(p, p)
  BY <1>1, PrefixIs DEF Pointers
<1> QED
  BY <1>1, <1>2, WayToNext

\* A frame that is deepest for a pointer is the only one.
LEMMA AboveDeepest ==
  ASSUME TreeOK, NEW st, NEW xs, StackOK(st, xs), NEW k \in DOMAIN st, NEW p \in DOMAIN root, IsDeepest(st, k, p),
         IsPrefix(st[Len(st)].node, p)
  PROVE  k = Len(st)
<1>1. st \in Seq(Frames) /\ Nested(st) /\ p \in Pointers
  BY DEF StackOK, TreeOK, IsPlan
<1>2. PICK l \in Nat : l = Len(st) /\ DOMAIN st = 1..l
  BY <1>1
<1>3. SUFFICES ASSUME k # l PROVE FALSE
  BY <1>2
<1>4. k + 1 \in 1..l /\ l \in DOMAIN st /\ k + 1 \in DOMAIN st
  BY <1>2, <1>3
<1>5. st[k + 1].node \in Pointers /\ st[l].node \in Pointers
  BY <1>4, FrameIs
<1>6. IsPrefix(st[k + 1].node, st[l].node)
  BY <1>1, <1>4, NestedIs
<1>7. IsPrefix(st[k + 1].node, p)
  BY <1>1, <1>2, <1>5, <1>6, PrefixTwice DEF Pointers
<1> QED
  BY <1>2, <1>3, <1>7 DEF IsDeepest

\* What is around the next part is right about it.
LEMMA AroundIs ==
  ASSUME TreeOK, StackOK(stack, arrays), stack # <<>>, Top.done < Top.parts,
         Chain(stack), KeysKept(stack, arrays)
  PROVE  Chain(Advanced) /\ KeysKept(Advanced, arrays)
<1>1. PICK l \in Nat : l = Len(stack) /\ l \in DOMAIN stack /\ l >= 1 /\ DOMAIN stack = 1..l /\ stack[l] = Top
  BY TopIs DEF Top
<1>2. PICK st : st = Advanced
  OBVIOUS
<1>3. /\ DOMAIN st = 1..l
      /\ \A k \in 1..l : k # l => st[k] = stack[k]
      /\ \A k \in 1..l : /\ st[k].node = stack[k].node /\ st[k].parts = stack[k].parts /\ st[k].array = stack[k].array
      /\ st[l].done = stack[l].done + 1
  BY <1>1, <1>2, AdvancedIs
<1>4. Chain(st)
  <2>1. ASSUME NEW k \in 1..l, k > 1 PROVE st[k - 1].done = Position(st[k - 1].node, st[k].node[k - 1])
    <3>1. k - 1 \in 1..l /\ k - 1 # l
      BY <2>1
    <3>2. stack[k - 1].done = Position(stack[k - 1].node, stack[k].node[k - 1])
      BY <1>1, <2>1 DEF Chain
    <3> QED
      BY <1>3, <3>1, <3>2
  <2> QED
    BY <1>3, <2>1 DEF Chain
<1>5. KeysKept(st, arrays)
  <2>1. ASSUME NEW k \in 1..l PROVE KeysAhead(st[k], arrays)
    <3>1. KeysAhead(stack[k], arrays) /\ stack[k].done \in Nat
      BY <1>1, FrameIs DEF KeysKept
    <3>2. CASE k # l
      BY <1>3, <3>1, <3>2
    <3>3. CASE k = l
      <4>1. \A i \in (st[k].done + 1)..st[k].parts : i \in (stack[k].done + 1)..stack[k].parts
        <5>1. st[k].done = stack[k].done + 1 /\ st[k].parts = stack[k].parts /\ stack[k].parts \in Nat
          BY <1>1, <1>3, <3>3, FrameIs
        <5> QED
          BY <3>1, <5>1
      <4> QED
        BY <1>3, <3>1, <4>1 DEF KeysAhead
    <3> QED
      BY <3>2, <3>3
  <2> QED
    BY <1>3, <2>1 DEF KeysKept
<1> QED
  BY <1>2, <1>4, <1>5

\* A value is written once its turn has come, and no other one is.
LEMMA ScalarEmits ==
  ASSUME TreeOK, ArraysOK(arrays), StackOK(stack, arrays), stack # <<>>, Top.done < Top.parts, OutputOK(output),
         EmitOK(stack, arrays, output),
         NEW nodes, NEW step, NextPart(nodes, step), RightPart(nodes, step),
         Scalar(nodes, Append(Top.place, step), Advanced)
  PROVE  EmitOK(stack', arrays', output')
<1>1. PICK l \in Nat : l = Len(stack) /\ l \in DOMAIN stack /\ l >= 1 /\ DOMAIN stack = 1..l /\ stack[l] = Top
  BY TopIs DEF Top
<1>2. PICK st : st = Advanced
  OBVIOUS
<1>3. /\ DOMAIN st = 1..l /\ Len(st) = l
      /\ \A k \in 1..l : k # l => st[k] = stack[k]
      /\ \A k \in 1..l : st[k].node = stack[k].node
      /\ st[l].done = stack[l].done + 1
  BY <1>1, <1>2, AdvancedIs
<1> DEFINE place == Append(Top.place, step)
           e     == [place |-> place, value |-> {root[a] : a \in nodes \cap DOMAIN root}]
<1>4. stack' = st /\ arrays' = arrays /\ output' = Append(output, e)
  BY <1>2 DEF Scalar
<1>5. place \in Places /\ nodes \subseteq Pointers /\ \A a \in nodes : LeadsTo(a, place)
  BY NextPartIs
<1>6. \A p \in DOMAIN root : LeadsTo(p, place) <=> p \in nodes
  BY LeadsToNext
<1> HIDE DEF place
<1>7. e.place = place /\ e.value = {root[a] : a \in nodes \cap DOMAIN root}
  OBVIOUS
<1>8. \A a \in DOMAIN root : root[a] \in Places /\ IsLast(a, root[a]) /\ a \in paths
  BY DEF TreeOK, IsLast, Reached
<1>9. e \in Events
  BY <1>5, <1>8 DEF Events
<1> HIDE DEF e
<1>10. EventOK(e)
  BY <1>6, <1>7, <1>8 DEF EventOK
<1>11. ASSUME NEW p \in DOMAIN root, p \in nodes PROVE e.value = {root[p]}
  <2>1. ASSUME NEW a \in nodes \cap DOMAIN root PROVE a = p
    <3>1. LeadsTo(a, place) /\ LeadsTo(p, place)
      BY <1>6, <1>11, <2>1
    <3>2. a \in Pointers /\ p \in Pointers /\ a \in paths /\ p \in paths /\ IsPlan(paths)
      BY <1>8, <2>1 DEF TreeOK, IsPlan
    <3>3. IsPrefix(a, a) /\ IsPrefix(p, p)
      BY <3>2, PrefixIs DEF Pointers
    <3> QED
      BY <1>5, <3>1, <3>2, <3>3, OneLeadsTo DEF InPlan
  <2> QED
    BY <1>7, <1>11, <2>1
<1>12. Chain(st) /\ KeysKept(st, arrays)
  BY <1>2, AroundIs DEF EmitOK
<1>13. ASSUME NEW p \in DOMAIN root, NEW k \in DOMAIN st, IsDeepest(st, k, p)
       PROVE  IF Position(st[k].node, p[k]) <= st[k].done THEN Once(p, output') ELSE Never(p, output')
  <2>1. IsDeepest(stack, k, p) /\ k \in DOMAIN stack /\ IsPrefix(stack[k].node, p)
    <3>1. k \in 1..l /\ (k # l => k + 1 \in 1..l)
      BY <1>3
    <3> QED
      BY <1>1, <1>3, <1>13, <3>1 DEF IsDeepest
  <2> DEFINE n == Position(stack[k].node, p[k])
  <2>2. IF n <= stack[k].done THEN Once(p, output) ELSE Never(p, output)
    BY <2>1 DEF EmitOK, Progress
  <2>3. n \in Nat /\ stack[k].done \in Nat
    BY <2>1, OnTheWay, FrameIs
  <2>4. Position(st[k].node, p[k]) = n
    BY <1>1, <1>3, <2>1
  <2>5. CASE p \in nodes
    <3>1. PICK t \in Keys(Top.node) : p = Append(Top.node, t) /\ Position(Top.node, t) = Top.done + 1
      BY <2>5 DEF RightPart
    <3>2. /\ Top.node \in Pointers /\ Len(Top.node) = l - 1 /\ Keys(Top.node) \subseteq Tokens
      BY <1>1, FrameIs, KeysAre
    <3>3. IsPrefix(Top.node, p)
      BY <2>5, NextPartIs
    <3>4. k = l
      BY <1>1, <2>1, <3>3, AboveDeepest
    <3>5. p[l] = t
      <4>1. PICK c : c = Append(Top.node, t) /\ c[Len(Top.node) + 1] = t
        BY <3>2, Longer DEF Pointers
      <4>2. Len(Top.node) + 1 = l
        BY <3>2
      <4> QED
        BY <3>1, <4>1, <4>2
    <3>6. n = Top.done + 1 /\ st[k].done = n
      BY <1>1, <1>3, <3>1, <3>4, <3>5
    <3>7. ~(n <= stack[k].done)
      BY <1>1, <2>3, <3>4, <3>6
    <3>8. Never(p, output)
      BY <2>2, <3>7
    <3>9. Once(p, output')
      BY <1>4, <1>6, <1>7, <1>9, <1>10, <1>11, <2>5, <3>8, OwnEvent
    <3> QED
      BY <2>3, <2>4, <3>6, <3>9
  <2>6. CASE p \notin nodes
    <3>1. (Once(p, output) => Once(p, output')) /\ (Never(p, output) => Never(p, output'))
      BY <1>4, <1>6, <1>7, <1>9, <1>10, <2>6, OtherEvent
    <3>2. CASE k # l
      BY <1>3, <2>2, <2>4, <3>1, <3>2
    <3>3. CASE k = l
      <4>1. n # Top.done + 1
        <5>1. SUFFICES ASSUME n = Top.done + 1 PROVE FALSE
          OBVIOUS
        <5>2. Top.node \in Pointers /\ p[k] \in Keys(Top.node) /\ p[k] \in Tokens /\ p \in Pointers
              /\ IsPrefix(Append(Top.node, p[k]), p)
          BY <1>1, <2>1, <3>3, FrameIs, OnTheWay
        <5>3. PICK a \in Pointers : a = Append(Top.node, p[k])
          BY <5>2, Longer DEF Pointers
        <5>4. a \in nodes
          BY <1>1, <3>3, <5>1, <5>2, <5>3 DEF RightPart
        <5>5. KindAt(a) \in {"leaf", "nil"}
          BY <5>4 DEF Scalar
        <5>6. IsPrefix(a, p) /\ a # p
          BY <2>6, <5>2, <5>3, <5>4
        <5>7. a \notin DOMAIN root
          BY <5>6, <1>8, NoneInside DEF TreeOK
        <5>8. Keys(a) = {}
          BY <5>5, KindIs
        <5>9. DOMAIN root \subseteq Pointers
          BY DEF TreeOK, IsPlan
        <5>10. Children(DOMAIN root, a) = {}
          BY <5>8 DEF Keys
        <5>11. \A r \in DOMAIN root : IsPrefix(a, r) => r = a
          BY <5>3, <5>9, <5>10, ChildLeadsOn
        <5> QED
          BY <5>6, <5>11
      <4>2. n <= st[k].done <=> n <= stack[k].done
        BY <1>1, <1>3, <2>3, <3>3, <4>1
      <4> QED
        BY <2>2, <2>4, <3>1, <4>2
    <3> QED
      BY <3>2, <3>3
  <2> QED
    BY <2>5, <2>6
<1>14. Progress(st, output')
  BY <1>13 DEF Progress
<1> QED
  BY <1>4, <1>12, <1>14 DEF EmitOK

\* Maps with several keys.
LEMMA WideIs ==
  ASSUME TreeOK, NEW a \in Pointers, KindAt(a) = "map", Cardinality(Keys(a)) > 1
  PROVE  a \in Wide
<1>1. Keys(a) # {}
  BY KindIs
<1>2. PICK t \in Keys(a) : t \in Tokens
  BY <1>1, KeysAre
<1>3. PICK p \in DOMAIN root : IsPrefix(Append(a, t), p)
  BY <1>2, KeysAre
<1>4. p \in Pointers
  BY DEF TreeOK, IsPlan
<1>5. PICK l \in Nat : l = Len(a)
  BY DEF Pointers
<1>6. IsPrefix(a, p) /\ l < Len(p)
  BY <1>2, <1>3, <1>4, <1>5, LongerPrefix DEF Pointers
<1>7. l + 1 \in DOMAIN p /\ l \in 0..Len(p)
  BY <1>4, <1>6 DEF Pointers
<1>8. \A i \in 1..l : a[i] = p[i]
  BY <1>4, <1>5, <1>6, PrefixIs DEF Pointers
<1> DEFINE b == SubSeq(p, 1, l)
<1>9. b \in Pointers /\ Len(b) = l /\ \A i \in 1..l : b[i] = p[i]
  BY <1>4, <1>7, Beginning DEF Pointers
<1> HIDE DEF b
<1>10. \A i \in 1..Len(b) : b[i] = a[i]
  BY <1>8, <1>9
<1>11. a = b
  BY <1>5, <1>9, <1>10, SameSequence DEF Pointers
<1>12. a = SubSeq(p, 1, (l + 1) - 1)
  BY <1>11 DEF b
<1>13. a \in UNION {{SubSeq(r, 1, n - 1) : n \in DOMAIN r} : r \in DOMAIN root}
  BY <1>7, <1>12
<1> QED
  BY <1>13 DEF Wide

\* A new object keeps away from the keys that are still to be written.
LEMMA KeysStayApart ==
  ASSUME TreeOK, KeysApart, NEW st, NEW xs, StackOK(st, xs), NEW k \in DOMAIN st, KeysAhead(st[k], xs), st[k].array # 0,
         NEW a \in Pointers, NEW t \in Keys(st[k].node), IsPrefix(Append(st[k].node, t), a),
         st[k].done = Position(st[k].node, t),
         KindAt(a) = "map", Cardinality(Keys(a)) > 1, NEW ys, SameBehind(Cardinality(Keys(a)), xs, ys), ArraysOK(xs)
  PROVE  KeysAhead(st[k], ys)
<1>1. PICK f \in Frames : f = st[k] /\ FrameOK(f, xs)
  BY FrameIs
<1>2. /\ f.node \in Pointers /\ f.parts \in Nat /\ f.done \in Nat /\ KindAt(f.node) = "map"
      /\ f.parts = Cardinality(Keys(f.node)) /\ f.parts # 1
      /\ f.array \in DOMAIN xs /\ f.parts <= Len(xs[f.array].keys)
  BY <1>1 DEF FrameOK, PartsOK, Frames
<1>3. f.parts > 1
  BY <1>1, <1>2, KeysAre, KindIs
<1>4. f.node \in Wide /\ a \in Wide
  BY <1>2, <1>3, WideIs
<1>5. f.done = Rank(t, Keys(f.node))
  BY <1>1, <1>2 DEF Position
<1>6. f.done = f.parts \/ Cardinality(Keys(a)) <= f.done
  <2>1. t \in Keys(f.node) /\ IsPrefix(Append(f.node, t), a)
    BY <1>1
  <2> QED
    BY <1>2, <1>4, <1>5, <2>1 DEF KeysApart
<1>7. xs[f.array].keys \in Seq(Tokens) /\ Len(xs[f.array].keys) \in Nat
  BY <1>2, BufferIs
<1>8. ASSUME NEW i \in (f.done + 1)..f.parts PROVE ys[f.array].keys[i] = xs[f.array].keys[i]
  <2>1. i > Cardinality(Keys(a))
    <3>1. Cardinality(Keys(a)) \in Nat
      BY KeysAre
    <3> QED
      BY <1>2, <1>6, <3>1
  <2>2. i \in DOMAIN xs[f.array].keys
    <3>1. PICK keys \in Seq(Tokens) : keys = xs[f.array].keys /\ f.parts <= Len(keys)
      BY <1>2, <1>7
    <3>2. i \in 1..Len(keys)
      BY <1>2, <3>1
    <3> QED
      BY <3>1, <3>2
  <2> QED
    BY <1>2, <2>1, <2>2 DEF SameBehind
<1> QED
  BY <1>1, <1>8 DEF KeysAhead

\* An object or array is put on the stack once its turn has come.
LEMMA PushEmits ==
  ASSUME TreeOK, KeysApart, ArraysOK(arrays), StackOK(stack, arrays), stack # <<>>, Top.done < Top.parts,
         EmitOK(stack, arrays, output),
         NEW nodes, NEW step, NextPart(nodes, step), RightPart(nodes, step),
         NEW a \in nodes, NEW f, Pushes(a, Append(Top.place, step), Advanced, f)
  PROVE  EmitOK(stack', arrays', output')
<1>1. PICK l \in Nat : l = Len(stack) /\ l \in DOMAIN stack /\ l >= 1 /\ DOMAIN stack = 1..l /\ stack[l] = Top
  BY TopIs DEF Top
<1>2. PICK st : st = stack'
  OBVIOUS
<1>3. /\ StackOK(Advanced, arrays) /\ Len(Advanced) = l /\ DOMAIN Advanced = 1..l
      /\ \A k \in 1..l : k # l => Advanced[k] = stack[k]
      /\ \A k \in 1..l : Advanced[k].node = stack[k].node /\ Advanced[k].array = stack[k].array
      /\ Advanced[l].done = Top.done + 1 /\ Advanced # <<>>
      /\ Chain(Advanced) /\ KeysKept(Advanced, arrays)
  <2>1. Advanced # <<>>
    BY <1>1, AdvancedIs
  <2> QED
    BY <1>1, <2>1, AdvancedIs, AroundIs DEF EmitOK
<1>4. /\ Append(Top.place, step) \in Places /\ a \in Pointers
      /\ LeadsTo(a, Append(Top.place, step)) /\ Len(a) = l /\ IsPrefix(Top.node, a)
  BY <1>1, NextPartIs
<1>5. Advanced[Len(Advanced)].node = Top.node
  BY <1>1, <1>3
<1>6. /\ StackOK(st, arrays') /\ Len(st) = l + 1 /\ DOMAIN st = 1..(l + 1)
      /\ (\A k \in 1..l : st[k] = Advanced[k]) /\ st[l + 1] = f
  BY <1>2, <1>3, <1>4, <1>5, PushedIs
<1>7. /\ f \in Frames /\ f.node = a /\ f.done = 0 /\ output' = output
      /\ PartsOK(f, arrays') /\ KeysAhead(f, arrays')
      /\ f.array = 0 => arrays' = arrays
      /\ SameBehind(f.parts, arrays, arrays') /\ ArraysOK(arrays')
  BY DEF Pushes
<1>8. PICK t \in Keys(Top.node) : a = Append(Top.node, t) /\ Position(Top.node, t) = Top.done + 1
  BY DEF RightPart
<1>9. Top.node \in Pointers /\ Len(Top.node) = l - 1 /\ t \in Tokens /\ Keys(Top.node) # {} /\ Top.done \in Nat
  BY <1>1, FrameIs, KeysAre
<1>10. a[l] = t
  <2>1. PICK c : c = Append(Top.node, t) /\ c[Len(Top.node) + 1] = t
    BY <1>9, Longer DEF Pointers
  <2>2. Len(Top.node) + 1 = l
    BY <1>9
  <2> QED
    BY <1>8, <2>1, <2>2
<1>11. \A k \in 1..(l + 1) : k \in 1..l \/ k = l + 1
  OBVIOUS
<1>12. Chain(st)
  <2>1. ASSUME NEW k \in 1..(l + 1), k > 1 PROVE st[k - 1].done = Position(st[k - 1].node, st[k].node[k - 1])
    <3>1. CASE k \in 1..l
      <4>1. k - 1 \in 1..l
        BY <2>1, <3>1
      <4>2. Advanced[k - 1].done = Position(Advanced[k - 1].node, Advanced[k].node[k - 1])
        BY <1>3, <2>1, <3>1 DEF Chain
      <4> QED
        BY <1>6, <3>1, <4>1, <4>2
    <3>2. CASE k = l + 1
      <4>1. k - 1 = l /\ l \in 1..l
        BY <1>1, <3>2
      <4>2. st[l].done = Top.done + 1 /\ st[l].node = Top.node /\ st[k].node[l] = t
        BY <1>1, <1>3, <1>6, <1>7, <1>10, <3>2, <4>1
      <4> QED
        BY <1>8, <4>1, <4>2
    <3> QED
      BY <1>11, <3>1, <3>2
  <2> QED
    BY <1>6, <2>1 DEF Chain
<1>13. KeysKept(st, arrays')
  <2>1. ASSUME NEW k \in 1..l PROVE KeysAhead(st[k], arrays')
    <3>1. KeysAhead(Advanced[k], arrays) /\ st[k] = Advanced[k]
      BY <1>3, <1>6 DEF KeysKept
    <3>2. CASE f.array = 0
      BY <1>7, <3>1, <3>2
    <3>3. CASE Advanced[k].array = 0
      BY <3>1, <3>3 DEF KeysAhead
    <3>4. CASE f.array # 0 /\ Advanced[k].array # 0
      <4>1. KindAt(a) = "map" /\ f.parts = Cardinality(Keys(a)) /\ f.parts # 1
        BY <1>7, <3>4 DEF PartsOK
      <4>2. Cardinality(Keys(a)) > 1
        BY <1>4, <4>1, KeysAre, KindIs
      <4>3. st[k].node \in Pointers /\ Len(st[k].node) = k - 1 /\ k \in Nat
        BY <1>6, FrameIs
      <4>4. k + 1 \in 1..(l + 1) /\ k + 1 > 1 /\ (k + 1) - 1 = k /\ k \in 1..(l + 1) /\ l + 1 \in 1..(l + 1) /\ k + 1 \in 1..(l + 1)
        OBVIOUS
      <4>5. st[k].done = Position(st[k].node, st[k + 1].node[k])
        BY <1>6, <1>12, <4>4 DEF Chain
      <4>6. st[k + 1].node \in Pointers /\ Len(st[k + 1].node) = k
        <5>1. k + 1 \in DOMAIN st
          BY <1>6, <4>4
        <5> QED
          BY <4>4, <5>1, <1>6, FrameIs
      <4>7. IsPrefix(st[k + 1].node, a) /\ IsPrefix(st[k].node, st[k + 1].node)
        <5>1. st \in Seq(Frames) /\ Nested(st)
          BY <1>6 DEF StackOK
        <5>2. k + 1 \in 1..(l + 1) /\ k \in 1..(k + 1) /\ l + 1 \in DOMAIN st /\ k + 1 \in DOMAIN st
          BY <1>6, <4>4
        <5>3. IsPrefix(st[k + 1].node, st[l + 1].node)
          BY <5>1, <5>2, NestedIs
        <5>4. IsPrefix(st[k].node, st[k + 1].node)
          BY <5>1, <5>2, NestedIs
        <5> QED
          BY <1>6, <1>7, <5>3, <5>4
      <4>8. PICK u \in Tokens : u = st[k + 1].node[k]
        <5>1. k \in 1..Len(st[k + 1].node)
          BY <4>3, <4>6
        <5> QED
          BY <4>6, <5>1 DEF Pointers
      <4>9. PICK c \in Pointers : c = st[k].node /\ Len(c) = k - 1
        BY <4>3
      <4>10. IsPrefix(Append(c, u), a)
        <5>1. Len(c) < Len(a) /\ a[Len(c) + 1] = u /\ IsPrefix(c, a)
          <6>1. IsPrefix(c, a)
            BY <1>4, <4>6, <4>7, <4>9, PrefixTwice DEF Pointers
          <6>2. Len(c) + 1 = k /\ Len(c) < Len(a)
            BY <1>4, <4>3, <4>9
          <6>3. a[k] = st[k + 1].node[k]
            <7>1. PICK d \in Pointers : d = st[k + 1].node /\ Len(d) = k
              BY <4>6
            <7>2. IsPrefix(d, a)
              BY <4>7, <7>1
            <7>3. \A i \in 1..Len(d) : d[i] = a[i]
              BY <1>4, <7>2, PrefixIs DEF Pointers
            <7>4. k \in 1..k
              BY <4>3
            <7> QED
              BY <7>1, <7>3, <7>4
          <6> QED
            BY <4>8, <6>1, <6>2, <6>3
        <5> QED
          BY <1>4, <4>8, <4>9, <5>1, LongerPrefix DEF Pointers
      <4>11. u \in Keys(c)
        <5>1. PICK v \in Keys(a) : v \in Tokens
          BY <1>4, <4>1, KeysAre, KindIs
        <5>2. PICK r \in DOMAIN root : IsPrefix(Append(a, v), r)
          BY <1>4, <5>1, KeysAre
        <5>3. r \in Pointers
          BY DEF TreeOK, IsPlan
        <5>4. IsPrefix(a, r)
          BY <1>4, <5>1, <5>2, <5>3, LongerPrefix DEF Pointers
        <5>5. Append(c, u) \in Pointers
          BY <4>8, <4>9, Longer DEF Pointers
        <5>6. IsPrefix(Append(c, u), r)
          BY <1>4, <4>10, <5>3, <5>4, <5>5, PrefixTwice DEF Pointers
        <5> QED
          BY <4>8, <4>9, <5>6, KeysAre
      <4>12. k \in DOMAIN Advanced /\ SameBehind(Cardinality(Keys(a)), arrays, arrays')
        BY <1>3, <1>7, <4>1
      <4>13. /\ u \in Keys(Advanced[k].node) /\ IsPrefix(Append(Advanced[k].node, u), a)
             /\ Advanced[k].done = Position(Advanced[k].node, u)
        BY <3>1, <4>5, <4>8, <4>9, <4>10, <4>11
      <4>14. KeysAhead(Advanced[k], arrays')
        BY <1>3, <1>4, <3>1, <3>4, <4>1, <4>2, <4>12, <4>13, KeysStayApart
      <4> QED
        BY <3>1, <4>14
    <3> QED
      BY <3>2, <3>3, <3>4
  <2> QED
    BY <1>6, <1>7, <1>11, <2>1 DEF KeysKept
<1>14. ASSUME NEW p \in DOMAIN root, NEW k \in DOMAIN st, IsDeepest(st, k, p)
       PROVE  IF Position(st[k].node, p[k]) <= st[k].done THEN Once(p, output') ELSE Never(p, output')
  <2>1. k \in 1..(l + 1) /\ IsPrefix(st[k].node, p)
    BY <1>6, <1>14 DEF IsDeepest
  <2>2. CASE k = l + 1
    <3>1. IsPrefix(a, p) /\ Len(stack) = l
      BY <1>1, <1>6, <1>7, <2>1, <2>2
    <3>2. p \in Pointers
      BY DEF TreeOK, IsPlan
    <3>3. IsPrefix(Top.node, p)
      BY <1>4, <1>9, <3>1, <3>2, PrefixTwice DEF Pointers
    <3>4. IsDeepest(stack, l, p)
      BY <1>1, <3>3 DEF IsDeepest
    <3>5. p[l] = t
      <4>1. IsPrefix(Append(stack[l].node, t), p) <=> p[l] = t
        BY <1>1, <1>9, <3>3, OnTheWay
      <4> QED
        BY <1>1, <1>8, <3>1, <4>1
    <3>6. ~(Position(stack[l].node, p[l]) <= stack[l].done)
      BY <1>1, <1>8, <1>9, <3>5
    <3>7. Never(p, output)
      BY <1>1, <3>4, <3>6 DEF EmitOK, Progress
    <3>8. ~(Position(st[k].node, p[k]) <= st[k].done)
      <4>1. Position(st[k].node, p[k]) \in Nat /\ Position(st[k].node, p[k]) >= 1
        BY <1>6, <2>1, OnTheWay
      <4>2. st[k].done = 0
        BY <1>6, <1>7, <2>2
      <4> QED
        BY <4>1, <4>2
    <3> QED
      BY <1>7, <3>7, <3>8
  <2>3. CASE k \in 1..l
    <3>1. st[k].node = stack[k].node /\ IsPrefix(stack[k].node, p)
      BY <1>3, <1>6, <2>1, <2>3
    <3>2. k # l => k + 1 \in 1..l
      BY <2>3
    <3>3. k # l + 1
      BY <2>3
    <3>4. ~IsPrefix(st[k + 1].node, p)
      BY <1>6, <1>14, <3>3 DEF IsDeepest
    <3>5. IsDeepest(stack, k, p)
      <4>1. CASE k = l
        BY <1>1, <3>1, <4>1 DEF IsDeepest
      <4>2. CASE k # l
        BY <1>1, <1>3, <1>6, <2>3, <3>1, <3>2, <3>4, <4>2 DEF IsDeepest
      <4> QED
        BY <4>1, <4>2
    <3>6. IF Position(stack[k].node, p[k]) <= stack[k].done THEN Once(p, output) ELSE Never(p, output)
      BY <3>5 DEF EmitOK, Progress, IsDeepest
    <3>7. CASE k # l
      <4>1. st[k] = stack[k]
        BY <1>3, <1>6, <2>3, <3>7
      <4> QED
        BY <1>7, <3>6, <4>1
    <3>8. CASE k = l
      <4>1. ~IsPrefix(a, p)
        BY <1>6, <1>7, <3>4, <3>8
      <4>2. /\ p[l] \in Keys(Top.node) /\ Position(Top.node, p[l]) \in Nat
            /\ IsPrefix(Append(Top.node, p[l]), p)
        BY <1>1, <3>1, <3>8, OnTheWay
      <4>3. Position(Top.node, p[l]) # Top.done + 1
        <5>1. p[l] # t
          BY <1>8, <4>1, <4>2
        <5> QED
          BY <1>8, <1>9, <4>2, <5>1, PositionIs
      <4>4. st[k].done = Top.done + 1
        BY <1>1, <1>3, <1>6, <2>3, <3>8
      <4>5. Position(Top.node, p[l]) <= st[k].done <=> Position(Top.node, p[l]) <= Top.done
        BY <1>9, <4>2, <4>3, <4>4
      <4> QED
        BY <1>1, <1>7, <3>1, <3>6, <3>8, <4>5
    <3> QED
      BY <3>7, <3>8
  <2> QED
    BY <1>11, <2>1, <2>2, <2>3
<1>15. Progress(st, output')
  BY <1>14 DEF Progress
<1> QED
  BY <1>2, <1>12, <1>13, <1>15 DEF EmitOK

\* With the root on the stack nothing is written yet.
LEMMA RootEmits ==
  ASSUME TreeOK, NEW f, NEW a, a = <<>>, Pushes(a, a, a, f), StackOK(stack', arrays'),
         Len(stack') = 1, DOMAIN stack' = 1..1, stack'[1] = f, output = <<>>
  PROVE  EmitOK(stack', arrays', output')
<1>1. PICK st : st = stack'
  OBVIOUS
<1>2. f.done = 0 /\ output' = <<>> /\ KeysAhead(f, arrays')
  BY DEF Pushes
<1>3. StackOK(st, arrays') /\ Len(st) = 1 /\ DOMAIN st = 1..1 /\ st[1] = f
  BY <1>1
<1>4. \A k \in DOMAIN st : k = 1
  BY <1>3
<1>5. Chain(st) /\ KeysKept(st, arrays')
  BY <1>2, <1>3, <1>4 DEF Chain, KeysKept
<1>6. ASSUME NEW p \in DOMAIN root, NEW k \in DOMAIN st, IsDeepest(st, k, p)
      PROVE  ~(Position(st[k].node, p[k]) <= st[k].done) /\ Never(p, output')
  <2>1. Position(st[k].node, p[k]) \in Nat /\ Position(st[k].node, p[k]) >= 1
    BY <1>3, <1>6, OnTheWay DEF IsDeepest
  <2>2. st[k].done = 0
    BY <1>2, <1>3, <1>4
  <2>3. Never(p, output')
    BY <1>2 DEF Never
  <2> QED
    BY <2>1, <2>2, <2>3
<1>7. Progress(st, output')
  BY <1>6 DEF Progress
<1> QED
  BY <1>1, <1>5, <1>7 DEF EmitOK

\* What an object or array has is written when it ends.
LEMMA WholeTop ==
  ASSUME TreeOK, StackOK(stack, arrays), stack # <<>>, Top.done = Top.parts, Progress(stack, output),
         NEW p \in DOMAIN root, IsPrefix(Top.node, p)
  PROVE  Once(p, output)
<1>1. PICK l \in Nat : l = Len(stack) /\ l \in DOMAIN stack /\ stack[l] = Top
  BY TopIs DEF Top
<1>2. IsDeepest(stack, l, p)
  BY <1>1 DEF IsDeepest
<1>3. Position(stack[l].node, p[l]) <= stack[l].done
  BY <1>1, OnTheWay
<1> QED
  BY <1>1, <1>2, <1>3 DEF Progress

\* A closing bracket loses nothing: what the frame has is written, and the part
\* it is in is done.
LEMMA EndEmits ==
  ASSUME TreeOK, StackOK(stack, arrays), Len(stack) > 1, stack # <<>>, Top.done = Top.parts,
         EmitOK(stack, arrays, output)
  PROVE  EmitOK(Front(stack), arrays, output) /\ Front(stack) # <<>>
<1>1. PICK l \in Nat : l = Len(stack) /\ l \in DOMAIN stack /\ l > 1 /\ DOMAIN stack = 1..l /\ stack[l] = Top
  BY TopIs DEF Top
<1>2. PICK st : st = Front(stack)
  OBVIOUS
<1>3. StackOK(st, arrays) /\ Len(st) = l - 1 /\ \A k \in 1..(l - 1) : st[k] = stack[k]
  BY <1>1, <1>2, FrontIs
<1>4. DOMAIN st = 1..(l - 1) /\ st # <<>>
  <2>1. st \in Seq(Frames)
    BY <1>3 DEF StackOK
  <2> QED
    BY <1>1, <1>3, <2>1
<1>5. Chain(st) /\ KeysKept(st, arrays)
  <2>1. \A k \in 1..(l - 1) : k \in 1..l /\ (k > 1 => k - 1 \in 1..(l - 1))
    OBVIOUS
  <2> QED
    BY <1>1, <1>3, <1>4, <2>1 DEF EmitOK, Chain, KeysKept
<1>6. ASSUME NEW p \in DOMAIN root, NEW k \in DOMAIN st, IsDeepest(st, k, p)
      PROVE  IF Position(st[k].node, p[k]) <= st[k].done THEN Once(p, output) ELSE Never(p, output)
  <2>1. k \in 1..(l - 1) /\ k \in 1..l /\ st[k] = stack[k] /\ IsPrefix(stack[k].node, p)
    BY <1>1, <1>3, <1>4, <1>6 DEF IsDeepest
  <2>2. CASE k = l - 1 /\ IsPrefix(Top.node, p)
    <3>1. Once(p, output)
      BY <2>2, WholeTop DEF EmitOK
    <3>2. stack[k].done = Position(stack[k].node, Top.node[k])
      <4>1. l - 1 = k /\ l > 1
        BY <1>1, <2>2
      <4> QED
        BY <1>1, <4>1 DEF EmitOK, Chain
    <3>3. Top.node[k] = p[k]
      <4>1. PICK d \in Pointers : d = Top.node /\ Len(d) = l - 1
        BY <1>1, FrameIs
      <4>2. p \in Pointers
        BY DEF TreeOK, IsPlan
      <4>3. \A i \in 1..Len(d) : d[i] = p[i]
        BY <2>2, <4>1, <4>2, PrefixIs DEF Pointers
      <4>4. k \in 1..Len(d)
        BY <2>1, <4>1
      <4> QED
        BY <4>1, <4>3, <4>4
    <3>4. Position(stack[k].node, p[k]) \in Nat
      <4>1. k \in DOMAIN stack
        BY <1>1, <2>1
      <4> QED
        BY <2>1, <4>1, OnTheWay
    <3> QED
      BY <2>1, <3>1, <3>2, <3>3, <3>4
  <2>3. CASE ~(k = l - 1 /\ IsPrefix(Top.node, p))
    <3>1. IsDeepest(stack, k, p)
      <4>1. CASE k = l - 1
        <5>1. k + 1 = l
          BY <1>1, <4>1
        <5> QED
          BY <1>1, <2>1, <2>3, <4>1, <5>1 DEF IsDeepest
      <4>2. CASE k # l - 1
        <5>1. k + 1 \in 1..(l - 1)
          BY <2>1, <4>2
        <5>2. ~IsPrefix(stack[k + 1].node, p)
          BY <1>3, <1>6, <4>2, <5>1 DEF IsDeepest
        <5> QED
          BY <1>1, <2>1, <5>2 DEF IsDeepest
      <4> QED
        BY <4>1, <4>2
    <3>2. k \in DOMAIN stack
      BY <1>1, <2>1
    <3> QED
      BY <2>1, <3>1, <3>2 DEF EmitOK, Progress
  <2> QED
    BY <2>2, <2>3
<1>7. Progress(st, output)
  BY <1>6 DEF Progress
<1> QED
  BY <1>2, <1>4, <1>5, <1>7 DEF EmitOK

\* The same for the whole tree.
LEMMA LastEnds ==
  ASSUME TreeOK, StackOK(stack, arrays), Len(stack) = 1, stack # <<>>, Top.done = Top.parts,
         Progress(stack, output), NEW p \in DOMAIN root
  PROVE  Once(p, output)
<1>1. 1 \in DOMAIN stack /\ stack[1] = Top
  BY TopIs DEF Top
<1>2. PICK d \in Pointers : d = Top.node /\ Len(d) = 0
  BY <1>1, FrameIs
<1>3. p \in Pointers /\ Len(p) \in Nat
  BY DEF TreeOK, IsPlan, Pointers
<1>4. IsPrefix(d, p)
  BY <1>2, <1>3, PrefixIs DEF Pointers
<1> QED
  BY <1>2, <1>4, WholeTop

\* Writing a member or an item keeps the progress.
LEMMA NextEmits ==
  ASSUME TreeOK, KeysApart, ArraysOK(arrays), StackOK(stack, arrays), OutputOK(output),
         EmitOK(stack, arrays, output), WriteMember \/ WriteItem
  PROVE  EmitOK(stack', arrays', output') /\ stack' # <<>>
<1>1. PICK nodes, step :
        /\ stack # <<>> /\ Top.done < Top.parts
        /\ NextPart(nodes, step) /\ WriteProjectedValue(nodes, Append(Top.place, step), Advanced)
        /\ KeysAhead(Top, arrays) => RightPart(nodes, step)
  BY MemberIsNext, ItemIsNext
<1>2. Append(Top.place, step) \in Places /\ nodes \subseteq Pointers
  BY <1>1, NextPartIs
<1>3. RightPart(nodes, step)
  <2>1. Len(stack) \in DOMAIN stack
    BY <1>1, TopIs
  <2> QED
    BY <1>1, <2>1 DEF EmitOK, KeysKept, Top
<1>4. CASE Scalar(nodes, Append(Top.place, step), Advanced)
  <2>1. EmitOK(stack', arrays', output')
    BY <1>1, <1>3, <1>4, ScalarEmits
  <2>2. Len(stack) >= 1 /\ Len(Advanced) = Len(stack) /\ stack' = Advanced
    BY <1>1, <1>4, TopIs, AdvancedIs DEF Scalar
  <2>3. stack' # <<>>
    BY <2>2
  <2> QED
    BY <2>1, <2>3
<1>5. ASSUME NEW a \in nodes, NEW f, Pushes(a, Append(Top.place, step), Advanced, f)
      PROVE  EmitOK(stack', arrays', output') /\ stack' # <<>>
  <2>1. EmitOK(stack', arrays', output')
    BY <1>1, <1>3, <1>5, PushEmits
  <2>2. Advanced \in Seq(Frames) /\ f \in Frames /\ stack' = Append(Advanced, f)
    BY <1>1, <1>5, AdvancedIs DEF StackOK, Pushes
  <2>3. stack' # <<>>
    BY <2>2
  <2> QED
    BY <2>1, <2>3
<1> QED
  BY <1>1, <1>2, <1>4, <1>5, WritesOrPushes

\* What writing has done so far, if objects keep away from each other's keys.
EmitInv ==
  KeysApart =>
    /\ phase = "write" => EmitOK(stack, arrays, output) /\ (stack = <<>> => output = <<>>)
    /\ Written => \A p \in DOMAIN root : Once(p, output)

\* The progress depends on nothing but the tree.
LEMMA SameTree ==
  ASSUME UNCHANGED root
  PROVE  /\ KeysApart' <=> KeysApart
         /\ \A st, xs, o : EmitOK(st, xs, o)' <=> EmitOK(st, xs, o)
         /\ \A p, o : Once(p, o)' <=> Once(p, o)
<1>1. \A a : KindAt(a)' = KindAt(a) /\ Keys(a)' = Keys(a)
  BY DEF KindAt, Keys
<1>2. Wide' = Wide
  BY <1>1 DEF Wide
<1>3. KeysApart' <=> KeysApart
  BY <1>1, <1>2 DEF KeysApart
<1>4. \A a, t : Position(a, t)' = Position(a, t)
  BY <1>1 DEF Position
<1>5. \A p, o : Once(p, o)' <=> Once(p, o)
  BY DEF Once
<1>6. \A st, xs, o : EmitOK(st, xs, o)' <=> EmitOK(st, xs, o)
  <2>1. \A st : Chain(st)' <=> Chain(st)
    BY <1>4 DEF Chain
  <2>2. \A st, xs : KeysKept(st, xs)' <=> KeysKept(st, xs)
    BY <1>1 DEF KeysKept, KeysAhead
  <2>3. \A st, o : Progress(st, o)' <=> Progress(st, o)
    BY <1>4, <1>5 DEF Progress, IsDeepest, Never
  <2> QED
    BY <2>1, <2>2, <2>3 DEF EmitOK
<1> QED
  BY <1>3, <1>5, <1>6

\* Every step keeps the progress of writing.
LEMMA EmitInvStep ==
  ASSUME ProjectInv, WriteInv, EmitInv, [ProjectNext]_projectVars
  PROVE  EmitInv'
<1>1. ArraysOK(arrays) /\ OutputOK(output) /\ (phase = "write" => StackOK(stack, arrays) /\ TreeOK)
  BY TreeIsOK DEF WriteInv, ProjectInv
<1>2. ASSUME stack' = <<>>, output' = <<>>, ~Written' PROVE EmitInv'
  BY <1>2 DEF EmitInv, EmitOK, Chain, KeysKept, Progress
<1>3. ASSUME ~Written', phase' # "write" PROVE EmitInv'
  BY <1>3 DEF EmitInv
<1>4. ASSUME WritingStep
      PROVE  /\ root' = root /\ phase = "write" /\ StackOK(stack, arrays) /\ TreeOK
             /\ KeysApart' => KeysApart /\ EmitOK(stack, arrays, output) /\ (stack = <<>> => output = <<>>)
  <2>1. root' = root /\ phase = "write"
    BY <1>4 DEF WritingStep, Unwritten
  <2> QED
    BY <1>1, <2>1, SameTree DEF EmitInv
<1>5. ASSUME WritingStep, phase' = "write",
             KeysApart => EmitOK(stack', arrays', output') /\ stack' # <<>>
      PROVE  EmitInv'
  <2>1. KeysApart' => KeysApart
    BY <1>4, <1>5
  <2>2. KeysApart' => EmitOK(stack, arrays, output)' /\ stack' # <<>>
    BY <1>4, <1>5, <2>1, SameTree
  <2>3. ~Written'
    BY <1>5 DEF Written
  <2> QED
    BY <2>2, <2>3 DEF EmitInv
<1>6. ASSUME NEW list \in PathLists, NEW doc \in Documents, ProjectFields(list, doc) PROVE EmitInv'
  BY <1>3, <1>6 DEF ProjectFields, Written
<1>7. ASSUME NEW v \in todo, CopyValue(v) \/ EnterValue(v) PROVE EmitInv'
  BY <1>3, <1>7 DEF CopyValue, EnterValue, Written
<1>8. ASSUME ReadFails PROVE EmitInv'
  BY <1>3, <1>8 DEF ReadFails, Written
<1>9. ASSUME EndRead PROVE EmitInv'
  <2>1. stack' = <<>> /\ output' = <<>>
    BY <1>9 DEF EndRead, writing, ProjectInv, ReadInv
  <2>2. ~Written'
    BY <1>9 DEF EndRead, Written
  <2> QED
    BY <1>2, <2>1, <2>2
<1>10. ASSUME WriteRoot PROVE EmitInv'
  <2>1. phase' = "write" /\ stack = <<>> /\ WritingStep
    BY <1>10, WritingSteps DEF WriteRoot
  <2>2. /\ StackOK(stack', arrays')
        /\ \E f : Pushes(<<>>, <<>>, <<>>, f) /\ Len(stack') = 1 /\ DOMAIN stack' = 1..1 /\ stack'[1] = f
    BY <1>1, <1>4, <1>10, <2>1, WriteRootKeeps
  <2>3. stack' # <<>>
    BY <2>2
  <2>4. ASSUME KeysApart PROVE EmitOK(stack', arrays', output')
    <3>1. output = <<>>
      BY <1>4, <2>1, <2>4, SameTree DEF EmitInv
    <3> QED
      BY <1>4, <2>1, <2>2, <3>1, RootEmits
  <2> QED
    BY <1>5, <2>1, <2>3, <2>4
<1>11. ASSUME WriteMember \/ WriteItem PROVE EmitInv'
  <2>1. phase' = "write" /\ phase = "write" /\ WritingStep
    BY <1>11, WritingSteps DEF WriteMember, WriteItem
  <2>2. ASSUME KeysApart PROVE EmitOK(stack', arrays', output') /\ stack' # <<>>
    <3>1. EmitOK(stack, arrays, output)
      BY <2>1, <2>2 DEF EmitInv
    <3> QED
      BY <1>1, <1>4, <1>11, <2>1, <2>2, <3>1, NextEmits
  <2> QED
    BY <1>5, <2>1, <2>2
<1>12. ASSUME WriteEnd PROVE EmitInv'
  <2>1. /\ phase = "write" /\ stack # <<>> /\ Top.done = Top.parts /\ WritingStep
        /\ stack' = Front(stack) /\ UNCHANGED <<arrays, output>>
        /\ IF Len(stack) = 1 THEN phase' = "finalize" /\ outcome' = "written" ELSE UNCHANGED <<phase, outcome>>
    BY <1>12, WritingSteps DEF WriteEnd
  <2>2. CASE Len(stack) = 1
    <3>1. ASSUME KeysApart' PROVE \A p \in DOMAIN root : Once(p, output)
      BY <1>1, <1>4, <2>1, <2>2, <3>1, LastEnds DEF EmitOK
    <3>2. KeysApart' => (\A p \in DOMAIN root : Once(p, output))'
      BY <1>4, <2>1, <3>1, SameTree
    <3> QED
      BY <2>1, <2>2, <3>2 DEF EmitInv
  <2>3. CASE Len(stack) # 1
    <3>1. Len(stack) > 1
      <4>1. Len(stack) \in Nat /\ Len(stack) >= 1
        BY <1>4, <2>1, TopIs
      <4>2. PICK l \in Nat : l = Len(stack) /\ l >= 1
        BY <4>1
      <4>3. l # 1
        BY <2>3, <4>2
      <4>4. l > 1
        BY <4>2, <4>3
      <4> QED
        BY <4>2, <4>4
    <3>2. ASSUME KeysApart PROVE EmitOK(stack', arrays', output') /\ stack' # <<>>
      <4>1. EmitOK(stack, arrays, output)
        BY <2>1, <3>2 DEF EmitInv
      <4> QED
        BY <1>1, <1>4, <2>1, <3>1, <4>1, EndEmits
    <3> QED
      BY <1>5, <2>1, <2>3, <3>2
  <2> QED
    BY <2>2, <2>3
<1>13. ASSUME WriteFails PROVE EmitInv'
  BY <1>3, <1>13 DEF WriteFails, Written
<1>14. ASSUME Finalize PROVE EmitInv'
  BY <1>3, <1>14 DEF Finalize, Written
<1>15. ASSUME UNCHANGED projectVars PROVE EmitInv'
  <2>1. UNCHANGED <<phase, root, arrays, output, stack, outcome>>
    BY <1>15 DEF projectVars, writing
  <2>2. Written' = Written
    BY <2>1 DEF Written
  <2>3. (KeysApart' <=> KeysApart) /\ (EmitOK(stack, arrays, output)' <=> EmitOK(stack, arrays, output))
    BY <2>1, SameTree
  <2>4. (\A p \in DOMAIN root : Once(p, output))' <=> \A p \in DOMAIN root : Once(p, output)
    BY <2>1, SameTree
  <2> QED
    BY <2>1, <2>2, <2>3, <2>4 DEF EmitInv
<1> QED
  BY <1>6, <1>7, <1>8, <1>9, <1>10, <1>11, <1>12, <1>13, <1>14, <1>15 DEF ProjectNext

\* When the call has written, it has written every pointer once.
LEMMA AllIsWritten == ProjectInv /\ EmitInv => SelectedFieldsEmitted
<1> SUFFICES ASSUME ProjectInv, EmitInv, Written, KeysApart, NEW p \in Present
             PROVE  \E n \in DOMAIN output :
                      /\ \E v \in output[n].value : IsLast(p, v)
                      /\ \A m \in DOMAIN output : LeadsTo(p, output[m].place) <=> m = n
  BY DEF SelectedFieldsEmitted
<1>1. p \in DOMAIN root /\ IsLast(p, root[p])
  BY DEF ProjectInv, TreeInv, Written
<1>2. PICK n \in DOMAIN output :
        output[n].value = {root[p]} /\ \A m \in DOMAIN output : LeadsTo(p, output[m].place) <=> m = n
  BY <1>1 DEF EmitInv, Once
<1> QED
  BY <1>1, <1>2

\* Every pointer that is in the document is in the output, once and with its
\* last value, if no object shares keys with one around it, for any plans,
\* documents, limits and capacities of keyOrderScratch (project_fields.go:1062-1160).
THEOREM SelectedFieldsAreWritten == ProjectSpec => []SelectedFieldsEmitted
<1>1. ProjectInit => ProjectInv /\ WriteInv /\ EmitInv
  <2>1. ProjectInit => EmitInv
    BY DEF ProjectInit, EmitInv, Written
  <2> QED
    BY <2>1, ProjectInvInit, WriteInvInit
<1>2. ProjectInv /\ WriteInv /\ EmitInv /\ [ProjectNext]_projectVars => (ProjectInv /\ WriteInv /\ EmitInv)'
  BY ProjectInvStep, WriteInvStep, EmitInvStep
<1>3. ProjectInv /\ WriteInv /\ EmitInv => SelectedFieldsEmitted
  BY AllIsWritten
<1>4. ProjectSpec => [](ProjectInv /\ WriteInv /\ EmitInv)
  BY <1>1, <1>2, PTL DEF ProjectSpec
<1> QED
  BY <1>3, <1>4, PTL

\* A gap, as the tree has it.
Gap(e) ==
  /\ ~IsMember(Last(e.place))
  /\ \A p \in DOMAIN root : \A n \in DOMAIN p : ~LeadsTo(SubSeq(p, 1, n), e.place)

GapsOK(o) == \A n \in DOMAIN o : o[n].value = {} => Gap(o[n])

\* Only calls that have come to write have written.
OnlyWriting ==
  output # <<>> =>
    \/ phase = "write"
    \/ phase = "finalize" /\ outcome \in {"written", "write failed"}

GapInv == OnlyWriting /\ (KeysApart => GapsOK(output))

\* If no key has been overwritten, null is only written for an item that no
\* pointer of the tree leads to or passes.
LEMMA NullIsGap ==
  ASSUME TreeOK, StackOK(stack, arrays), stack # <<>>,
         NEW nodes, NEW step, NextPart(nodes, step), RightPart(nodes, step),
         \A a \in nodes : KindAt(a) \in {"leaf", "nil"},
         NEW e, e.place = Append(Top.place, step), \A a \in nodes \cap DOMAIN root : root[a] \in e.value,
         e.value = {}
  PROVE  Gap(e)
<1>1. /\ Top.node \in Pointers /\ Top.place \in Places
  BY TopIs DEF Frames
<1>2. ASSUME NEW a \in nodes PROVE FALSE
  <2>1. PICK t \in Keys(Top.node) : a = Append(Top.node, t)
    BY <1>2 DEF RightPart
  <2>2. t \in Tokens /\ \E p \in DOMAIN root : IsPrefix(Append(Top.node, t), p)
    BY <1>1, <2>1, KeysAre
  <2>3. PICK p \in DOMAIN root : IsPrefix(a, p)
    BY <2>1, <2>2
  <2>4. a \in Pointers
    BY <1>2 DEF NextPart
  <2>5. a \notin DOMAIN root
    BY <1>2
  <2>6. Keys(a) = {}
    BY <1>2, <2>4, KindIs
  <2>7. DOMAIN root \subseteq Pointers
    BY DEF TreeOK, IsPlan
  <2>8. \A r \in DOMAIN root : IsPrefix(a, r) => r = a
    BY <2>4, <2>6, <2>7, ChildLeadsOn DEF Keys
  <2> QED
    BY <2>3, <2>5, <2>8
<1>3. ~IsMember(step) /\ step \in Steps
  BY <1>2 DEF NextPart
<1>4. Last(e.place) = step
  <2>1. Len(Append(Top.place, step)) = Len(Top.place) + 1 /\ Append(Top.place, step)[Len(Top.place) + 1] = step
    BY <1>1, <1>3, Longer DEF Places
  <2> QED
    BY <2>1 DEF Last
<1>5. ASSUME NEW p \in DOMAIN root, NEW n \in DOMAIN p PROVE ~LeadsTo(SubSeq(p, 1, n), e.place)
  <2>1. p \in Pointers
    BY DEF TreeOK, IsPlan
  <2>2. n \in 0..Len(p) /\ n \in Nat
    BY <2>1 DEF Pointers
  <2>3. PICK b : b = SubSeq(p, 1, n)
    OBVIOUS
  <2>4. b \in Pointers /\ Len(b) = n /\ \A i \in 1..n : b[i] = p[i]
    BY <2>1, <2>2, <2>3, Beginning DEF Pointers
  <2>5. IsPrefix(b, p)
    BY <2>1, <2>2, <2>4, PrefixIs DEF Pointers
  <2>6. ~LeadsTo(b, Append(Top.place, step))
    BY <1>2, <2>4, <2>5, WayToNext
  <2> QED
    BY <2>3, <2>6
<1> QED
  BY <1>3, <1>4, <1>5 DEF Gap

\* Writing a member or an item keeps the nulls to the gaps.
LEMMA NextKeepsGaps ==
  ASSUME TreeOK, ArraysOK(arrays), StackOK(stack, arrays), OutputOK(output), KeysKept(stack, arrays),
         GapsOK(output), WriteMember \/ WriteItem
  PROVE  GapsOK(output')
<1>1. PICK nodes, step :
        /\ stack # <<>> /\ Top.done < Top.parts
        /\ NextPart(nodes, step) /\ WriteProjectedValue(nodes, Append(Top.place, step), Advanced)
        /\ KeysAhead(Top, arrays) => RightPart(nodes, step)
  BY MemberIsNext, ItemIsNext
<1>2. PICK place : place = Append(Top.place, step)
  OBVIOUS
<1>3. place \in Places /\ nodes \subseteq Pointers
  BY <1>1, <1>2, NextPartIs
<1>4. RightPart(nodes, step)
  <2>1. Len(stack) \in DOMAIN stack
    BY <1>1, TopIs
  <2> QED
    BY <1>1, <2>1 DEF KeysKept, Top
<1>5. CASE Scalar(nodes, place, Advanced)
  <2> DEFINE e == [place |-> place, value |-> {root[a] : a \in nodes \cap DOMAIN root}]
  <2>1. output' = Append(output, e) /\ \A a \in nodes : KindAt(a) \in {"leaf", "nil"}
    BY <1>5 DEF Scalar
  <2>2. e.place = place /\ \A a \in nodes \cap DOMAIN root : root[a] \in e.value
    OBVIOUS
  <2> HIDE DEF e
  <2>3. e.value = {} => Gap(e)
    BY <1>1, <1>2, <1>4, <2>1, <2>2, NullIsGap
  <2>4. output \in Seq(Events)
    BY DEF OutputOK
  <2>5. PICK l \in Nat : l = Len(output) /\ DOMAIN output = 1..l
    BY <2>4
  <2>6. e \in Events
    <3>1. \A a \in nodes \cap DOMAIN root : root[a] \in Places
      BY DEF TreeOK, IsLast, Reached
    <3> QED
      BY <1>3, <3>1 DEF Events, e
  <2>7. PICK x : x = Append(output, e)
    OBVIOUS
  <2>8. x \in Seq(Events) /\ Len(x) = l + 1 /\ (\A n \in 1..l : x[n] = output[n]) /\ x[l + 1] = e
    BY <2>4, <2>5, <2>6, <2>7, Longer
  <2>9. DOMAIN x = 1..(l + 1) /\ \A n \in 1..(l + 1) : n \in 1..l \/ n = l + 1
    BY <2>8
  <2>10. GapsOK(x)
    BY <2>3, <2>5, <2>8, <2>9 DEF GapsOK
  <2> QED
    BY <2>1, <2>7, <2>10
<1>6. ASSUME NEW a \in nodes, NEW f, Pushes(a, place, Advanced, f) PROVE GapsOK(output')
  BY <1>6 DEF Pushes
<1> QED
  BY <1>1, <1>2, <1>3, <1>5, <1>6, WritesOrPushes

\* Every step keeps the nulls to the gaps.
LEMMA GapInvStep ==
  ASSUME ProjectInv, WriteInv, EmitInv, GapInv, [ProjectNext]_projectVars
  PROVE  GapInv'
<1>1. ArraysOK(arrays) /\ OutputOK(output) /\ (phase = "write" => StackOK(stack, arrays) /\ TreeOK)
  BY TreeIsOK DEF WriteInv, ProjectInv
<1>2. ASSUME output' = <<>> PROVE GapInv'
  <2>1. DOMAIN output' = {} /\ ~(output' # <<>>)
    BY <1>2
  <2>2. GapsOK(output)'
    BY <2>1 DEF GapsOK
  <2> QED
    BY <2>1, <2>2 DEF GapInv, OnlyWriting
<1>3. ASSUME root' = root, OnlyWriting', KeysApart => GapsOK(output') PROVE GapInv'
  <2>1. KeysApart' <=> KeysApart
    BY <1>3, SameTree
  <2>2. GapsOK(output)' <=> GapsOK(output')
    BY <1>3 DEF GapsOK, Gap
  <2> QED
    BY <1>3, <2>1, <2>2 DEF GapInv
<1>4. ASSUME WritingStep, output' = output \/ (KeysApart => GapsOK(output')) PROVE GapInv'
  <2>1. root' = root /\ OnlyWriting'
    BY <1>4 DEF WritingStep, Unwritten, OnlyWriting
  <2> QED
    BY <1>3, <1>4, <2>1 DEF GapInv
<1>5. ASSUME NEW list \in PathLists, NEW doc \in Documents, ProjectFields(list, doc) PROVE GapInv'
  BY <1>2, <1>5 DEF ProjectFields, writing, ProjectInv, IdleInv
<1>6. ASSUME NEW v \in todo, CopyValue(v) \/ EnterValue(v) PROVE GapInv'
  BY <1>2, <1>6 DEF CopyValue, EnterValue, writing, ProjectInv, ReadInv
<1>7. ASSUME ReadFails \/ EndRead PROVE GapInv'
  BY <1>2, <1>7 DEF ReadFails, EndRead, writing, ProjectInv, ReadInv
<1>8. ASSUME WriteRoot PROVE GapInv'
  BY <1>4, <1>8, WritingSteps DEF WriteRoot, WriteMap
<1>9. ASSUME WriteMember \/ WriteItem PROVE GapInv'
  <2>1. phase = "write" /\ WritingStep
    BY <1>9, WritingSteps DEF WritingStep
  <2>2. ASSUME KeysApart PROVE GapsOK(output')
    BY <1>1, <1>9, <2>1, <2>2, NextKeepsGaps DEF EmitInv, EmitOK, GapInv
  <2> QED
    BY <1>4, <2>1, <2>2
<1>10. ASSUME WriteEnd \/ WriteFails PROVE GapInv'
  BY <1>4, <1>10, WritingSteps DEF WriteEnd, WriteFails, writing
<1>11. ASSUME Finalize PROVE GapInv'
  BY <1>2, <1>11 DEF Finalize
<1>12. ASSUME UNCHANGED projectVars PROVE GapInv'
  <2>1. root' = root /\ output' = output /\ phase' = phase /\ outcome' = outcome
    BY <1>12 DEF projectVars, writing
  <2> QED
    BY <1>3, <2>1 DEF GapInv, OnlyWriting
<1> QED
  BY <1>5, <1>6, <1>7, <1>8, <1>9, <1>10, <1>11, <1>12 DEF ProjectNext

\* What is written is selected, or fills a gap.
LEMMA OnlySelected == ProjectInv /\ WriteInv /\ GapInv => OnlySelectedFields
<1> SUFFICES ASSUME ProjectInv, WriteInv, GapInv, NEW n \in DOMAIN output
             PROVE  /\ \A v \in output[n].value : \E p \in paths :
                         IsLast(p, v) /\ \A q \in paths : LeadsTo(q, output[n].place) <=> q = p
                    /\ KeysApart /\ output[n].value = {} => IsGap(output[n].place)
  BY DEF OnlySelectedFields
<1>1. ASSUME NEW v \in output[n].value
      PROVE  \E p \in paths : IsLast(p, v) /\ \A q \in paths : LeadsTo(q, output[n].place) <=> q = p
  BY WrittenAreSelected DEF ProjectInv
<1>2. ASSUME KeysApart, output[n].value = {} PROVE IsGap(output[n].place)
  <2>1. Gap(output[n])
    BY <1>2 DEF GapInv, GapsOK
  <2>2. DOMAIN root = Present
    <3>1. output # <<>>
      OBVIOUS
    <3> QED
      BY <3>1 DEF ProjectInv, TreeInv, GapInv, OnlyWriting
  <2> QED
    BY <2>1, <2>2 DEF Gap, IsGap
<1> QED
  BY <1>1, <1>2

\* Only the last values of selected fields are ever written, each where its own
\* pointer leads, also where objects overwrite each other's keys and in calls
\* that fail; and if none does, null only in the gaps of arrays
\* (project_fields.go:116, 121, 1062-1160).
THEOREM OnlySelectedFieldsAreWritten == ProjectSpec => []OnlySelectedFields
<1>1. ProjectInit => ProjectInv /\ WriteInv /\ EmitInv /\ GapInv
  <2>1. ProjectInit => EmitInv /\ GapInv
    BY DEF ProjectInit, EmitInv, Written, GapInv, GapsOK, OnlyWriting
  <2> QED
    BY <2>1, ProjectInvInit, WriteInvInit
<1>2. ProjectInv /\ WriteInv /\ EmitInv /\ GapInv /\ [ProjectNext]_projectVars
        => (ProjectInv /\ WriteInv /\ EmitInv /\ GapInv)'
  BY ProjectInvStep, WriteInvStep, EmitInvStep, GapInvStep
<1>3. ProjectInv /\ WriteInv /\ GapInv => OnlySelectedFields
  BY OnlySelected
<1>4. ProjectSpec => [](ProjectInv /\ WriteInv /\ EmitInv /\ GapInv)
  BY <1>1, <1>2, PTL DEF ProjectSpec
<1> QED
  BY <1>3, <1>4, PTL

================================================================================
