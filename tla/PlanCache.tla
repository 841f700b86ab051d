------------------------------- MODULE PlanCache -------------------------------
(***************************************************************************)
(* The compiled plans of selectors that concurrent calls of QueryStream    *)
(* share: a bounded cache that never evicts, and a memo of the last plan   *)
(* in each pooled scan state.                                              *)
(*                                                                         *)
(* A selector is known by pointers to the terms of its caller, so an       *)
(* object stands for such a tree and has a selector as its contents.  Keys *)
(* are clones of the contents; plans keep the pointers.  A relative date   *)
(* ("now", "today", "yesterday") means something else at every reading of  *)
(* the clock and is compiled again for each call, out of the date term of  *)
(* the object: what its caller has written there since is what is read.    *)
(***************************************************************************)
EXTENDS Naturals, Sequences

CONSTANTS Calls,        \* concurrent callers
          States,       \* scan states in streamScanStatePool
          Objects,      \* selector trees of the callers
          Selectors,    \* what an object may contain
          Invalid,      \* those that do not compile
          Date,         \* what their date terms say; 0 for no such term
          Relative,     \* the relative dates
          BadDates,     \* what no date term may say
          Means,        \* what the other terms of a selector select
          Hash,         \* hashSelector
          Same,         \* selectorEqual, as a set of pairs
          MaxEntries,   \* maxEntries
          MaxClock      \* bound: readings of the clock

ASSUME SelectorAssumption ==
  /\ Date \in [Selectors -> Nat] /\ Means \in [Selectors -> Nat] /\ Hash \in [Selectors -> Nat]
  /\ {Relative, BadDates} \subseteq SUBSET (Nat \ {0}) /\ Relative \cap BadDates = {}
  /\ Invalid \subseteq Selectors /\ \A s \in Selectors : Date[s] \in BadDates => s \in Invalid
\* Equal selectors have equal date terms.  Their other terms need not mean the
\* same: termEqual does not look at valueSet, so that an omitted value and an
\* empty one are equal.  A NaN bound is not equal to itself.
ASSUME SameAssumption ==
  \A s, t \in Selectors : <<s, t>> \in Same =>
    /\ <<t, s>> \in Same /\ Date[s] = Date[t]
    /\ \A u \in Selectors : <<t, u>> \in Same => <<s, u>> \in Same
ASSUME LimitAssumption == MaxEntries \in Nat /\ MaxClock \in Nat

VARIABLES
  clock,    \* queryStreamNow
  object,   \* contents of the objects
  entries,  \* the cache, in the order of insertion
  memo,     \* selectorPlanKey and selectorPlan of each scan state
  pc,       \* where each call is
  request,  \* the object each call was given
  state,    \* the scan state each call has taken
  plan,     \* the plan each call has got
  engine    \* what the engine of each call selects, and the clock it was made at
\* memo, request, state, plan and engine are sets of at most one, empty for nil.

caller == <<pc, request, state, plan, engine>>
vars == <<clock, object, entries, memo, caller>>

Points == {"idle", "compile", "put", "prepare", "scan"}
Clock == 0..MaxClock

\* What a selector selects at time t.
MeaningAt(s, t) == [terms |-> Means[s], date |-> Date[s], at |-> IF Date[s] \in Relative THEN t ELSE 0]

Meanings == [terms : Nat, date : Nat, at : Clock]
Plans == [object : Objects, compiled : Meanings]
Engines == [plan : Plans, means : Meanings, at : Clock]
Keyed == [key : Selectors, plan : Plans]

--------------------------------------------------------------------------------
(* The cache.                                                                 *)

Equal(s, t) == <<s, t>> \in Same

\* The entries of the bucket of s that are equal to it.
Hits(s) == {i \in DOMAIN entries : Hash[entries[i].key] = Hash[s] /\ Equal(entries[i].key, s)}

\* Mutant: what the miss of get said is not looked up again.
PutBlindly(s, p) ==
  entries' = IF Len(entries) < MaxEntries THEN Append(entries, [key |-> s, plan |-> p])
             ELSE entries

Put(s, p) ==
  entries' = IF Hits(s) = {} /\ Len(entries) < MaxEntries
             THEN Append(entries, [key |-> s, plan |-> p]) ELSE entries

Remembers(st, s) == \E m \in memo[st] : Equal(m.key, s)

Remember(st, s, p) == memo' = [memo EXCEPT ![st] = {[key |-> s, plan |-> p]}]

--------------------------------------------------------------------------------
(* A call.                                                                    *)

Free(st) == \A c \in Calls : st \notin state[c]

Found(c, p) == plan' = [plan EXCEPT ![c] = {p}] /\ pc' = [pc EXCEPT ![c] = "prepare"]

\* getSelectorPlan with a scan state of the pool: the memo of the state, then
\* the cache, under its read lock.
GetSelectorPlan(c, o, st) ==
  LET s == object[o] IN
  /\ pc[c] = "idle" /\ Free(st)
  /\ request' = [request EXCEPT ![c] = {o}] /\ state' = [state EXCEPT ![c] = {st}]
  /\ \/ \E m \in memo[st] : Equal(m.key, s) /\ Found(c, m.plan) /\ UNCHANGED memo
     \/ /\ ~Remembers(st, s)
        /\ \E i \in Hits(s) :
             /\ \A j \in Hits(s) : i <= j
             /\ Found(c, entries[i].plan) /\ Remember(st, s, entries[i].plan)
     \/ /\ ~Remembers(st, s) /\ Hits(s) = {}
        /\ pc' = [pc EXCEPT ![c] = "compile"]
        /\ UNCHANGED <<plan, memo>>
  /\ UNCHANGED <<clock, object, entries, engine>>

\* newStreamSelectorEngine: everything is copied out of the object except
\* the date terms, which stay referenced.
Compiled(o) == [object |-> o, compiled |-> MeaningAt(object[o], clock)]

Compile(c) ==
  /\ pc[c] = "compile"
  /\ \E o \in request[c] :
       /\ object[o] \notin Invalid
       /\ plan' = [plan EXCEPT ![c] = {Compiled(o)}]
  /\ pc' = [pc EXCEPT ![c] = "put"]
  /\ UNCHANGED <<clock, object, entries, memo, request, state, engine>>

\* put, under the lock of the cache, and setSelectorPlan.
PutSelectorPlan(c) ==
  /\ pc[c] = "put" /\ pc' = [pc EXCEPT ![c] = "prepare"]
  /\ \E o \in request[c], st \in state[c], p \in plan[c] :
       Put(object[o], p) /\ Remember(st, object[o], p)
  /\ UNCHANGED <<clock, object, request, state, plan, engine>>

\* Mutant: the relative dates are those of the time the plan was compiled.
RuntimeCompiled(p) == p.compiled

IsRelative(p) == p.compiled.date \in Relative

\* prepareDateRuntimeClauses: relative dates are compiled again.
Runtime(p) ==
  IF IsRelative(p) THEN [MeaningAt(object[p.object], clock) EXCEPT !.terms = p.compiled.terms] ELSE p.compiled

DateFails(p) == IsRelative(p) /\ Date[object[p.object]] \in BadDates

\* newEngineInto and prepareDateRuntimeClauses.
Prepare(c) ==
  /\ pc[c] = "prepare" /\ \A p \in plan[c] : ~DateFails(p)
  /\ pc' = [pc EXCEPT ![c] = "scan"]
  /\ engine' = [engine EXCEPT ![c] = {[plan |-> p, means |-> Runtime(p), at |-> clock] : p \in plan[c]}]
  /\ plan' = [plan EXCEPT ![c] = {}]
  /\ UNCHANGED <<clock, object, entries, memo, request, state>>

\* The scan is over, or the selector was invalid, or the date term of the plan
\* is by now; the state returns to the pool.
Return(c) ==
  /\ \/ pc[c] = "scan"
     \/ pc[c] = "compile" /\ \E o \in request[c] : object[o] \in Invalid
     \/ pc[c] = "prepare" /\ \E p \in plan[c] : DateFails(p)
  /\ pc' = [pc EXCEPT ![c] = "idle"]
  /\ request' = [request EXCEPT ![c] = {}] /\ state' = [state EXCEPT ![c] = {}]
  /\ engine' = [engine EXCEPT ![c] = {}] /\ plan' = [plan EXCEPT ![c] = {}]
  /\ UNCHANGED <<clock, object, entries, memo>>

--------------------------------------------------------------------------------
(* The callers, the runtime and the clock.                                    *)

\* A caller overwrites, in place, a selector that it has given to no call under
\* way.  With another date term it would be another object.
Overwrite(o, s) ==
  /\ s # object[o] /\ (Date[s] = 0 <=> Date[object[o]] = 0)
  /\ \A c \in Calls : o \notin request[c]
  /\ object' = [object EXCEPT ![o] = s]
  /\ UNCHANGED <<clock, entries, memo, caller>>

\* The garbage collector empties the pool; the next state is a new one.
Drop(st) ==
  /\ Free(st) /\ memo[st] # {}
  /\ memo' = [memo EXCEPT ![st] = {}]
  /\ UNCHANGED <<clock, object, entries, caller>>

Tick == clock < MaxClock /\ clock' = clock + 1 /\ UNCHANGED <<object, entries, memo, caller>>

Init ==
  /\ clock = 0 /\ object \in [Objects -> Selectors]
  /\ entries = <<>> /\ memo = [st \in States |-> {}]
  /\ pc = [c \in Calls |-> "idle"]
  /\ request = [c \in Calls |-> {}] /\ state = [c \in Calls |-> {}]
  /\ plan = [c \in Calls |-> {}] /\ engine = [c \in Calls |-> {}]

Next ==
  \/ \E c \in Calls :
       \/ \E o \in Objects, st \in States : GetSelectorPlan(c, o, st)
       \/ Compile(c) \/ PutSelectorPlan(c) \/ Prepare(c) \/ Return(c)
  \/ \E o \in Objects, s \in Selectors : Overwrite(o, s)
  \/ \E st \in States : Drop(st)
  \/ Tick

Spec == Init /\ [][Next]_vars

--------------------------------------------------------------------------------

TypeOK ==
  /\ clock \in Clock /\ object \in [Objects -> Selectors]
  /\ entries \in Seq(Keyed) /\ memo \in [States -> SUBSET Keyed]
  /\ pc \in [Calls -> Points] /\ request \in [Calls -> SUBSET Objects]
  /\ state \in [Calls -> SUBSET States] /\ plan \in [Calls -> SUBSET Plans]
  /\ engine \in [Calls -> SUBSET Engines]

\* "expected bounded cache size" (stream_query_selector_cache_test.go:69): the
\* cache keeps within its limit and holds one plan for each selector, also
\* when several calls have missed it and compile the same selector at once.
OnePlanEach ==
  /\ Len(entries) <= MaxEntries
  /\ \A i, j \in DOMAIN entries :
       i < j /\ Hash[entries[i].key] = Hash[entries[j].key] => ~Equal(entries[i].key, entries[j].key)

\* The date term that an engine has read was not the one that was compiled.
Overwritten(e) == e.means.date # e.plan.compiled.date

\* Whether its plan came from the memo, the cache or the compiler, a call
\* selects what its own selector means at the time of the call: no plan of
\* another selector with the same hash, no date of an earlier call, nothing
\* that another caller has written into its selector since.  Two failures of
\* the code are excepted.  The terms may be those of another selector that
\* selectorEqual takes for its own.  And a relative date is read from the object
\* whose plan it was given; when that is another one, and its caller has
\* overwritten the date term since the plan was compiled, it is that date.
EngineIsFresh ==
  \A c \in Calls : \A e \in engine[c], o \in request[c] :
    LET own == MeaningAt(object[o], e.at)
    IN  /\ \/ e.means.terms = own.terms
           \/ \E s \in Selectors : Equal(s, object[o]) /\ e.means.terms = Means[s]
        /\ \/ e.means.date = own.date /\ e.means.at = own.at
           \/ own.date \in Relative /\ e.plan.object # o /\ Overwritten(e)

================================================================================
