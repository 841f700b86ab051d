# A verification project for lql

`lql` is a Go library (and a small command) that filters and rewrites streams of
JSON values.  A *selector* says which values ("candidates") match, a *stream
query* reads an input of any length and reports or delivers the candidates, a
*mutate stream* rewrites each of them, and a *fused* call does both at once with
two goroutines and a pipe.  This directory holds TLA+ models of that code, the
TLC instances that check them, and the TLAPS proofs of what matters most in them.

Paths such as `stream_query.go` are relative to the root of the repository.
`PROJECT.json` relates every definition to the lines it models.

## 1. Inventory

| component | state it keeps | operations | what must be true |
|---|---|---|---|
| query stream (`stream_query.go`, `stream_contract.go`, `stream_byte_reader.go`) | a `streamScanState`: reader offset, candidate start, payload sink, result counters, stop flag | `QueryStreamWithResult`, `consumeTopArray`, `consumeCandidate`, `scanValue`, `cleanupPayload`, `wrapStreamError` | limits stop the scan at once, at every nesting of arrays; each candidate is reported exactly once; a delivered payload is whole; each sink is used in the documented order; counters and stop reason are exact |
| selector engine (`stream_query.go`, `selector_eval.go`, `selector_simplify.go`) | a compiled program, one hit per clause, the date clock | `simplifySelector`, `buildSelectorProgram`, `reset`, `match`, `canStillMatchObjectRoot` | the compiled program agrees with the evaluator on the whole document; no hit survives its candidate; capture is only given up when nothing can match any more |
| candidate spool (`stream_spool.go`) | bytes in memory, a temporary file, a buffered writer, counters | `Write`, `spillToDisk`, `Finalize`, `Open`, `cleanup`, `resetForCandidate` | the payload is what was written; an old file never shows through; no file is lost |
| pooled scan state (`stream_query.go:346`) | a spool that survives calls in a `sync.Pool` | `reset`, `releaseStreamScanState`, `internalQueryPayloadSink` | files are owned, and removed when a call ends |
| fused query and mutate (`query_mutate_stream.go`) | a pipe, a goroutine, a pooled async result, a context | `QueryMutateStreamWithResult` | output in order and complete, never a truncated candidate; the call returns; pooled state is not given back early |
| mutate stream (`mutate_stream.go`, `mutate.go`) | a `mutateStreamState`: reader, writer, rules, created members, sink | `MutateStreamWithResult`, `consumeCandidate`, `mutateObject`, `wrapStreamError` | output and counters agree, also when a candidate fails half-way; modes restrict the framing |
| reusable payload sinks (`query_payload_sink_reusable.go`, `mutate_payload_sink_reusable.go`) | a factory with a free list and the list of all sinks; per sink a file and a buffer | `NewSink`, `Write`, `Finalize`, `Open`, `Cleanup`, `Close` | a sink serves one stream at a time; payloads are intact; `Close` reaches every file |
| shared caches and pools (`stream_query_selector_cache.go`, `stream_adaptive_hint.go`, `stream_buffer_pool.go`) | a bounded map of plans that never evicts, an atomic size hint, pools of byte slices by size class | `get`/`put`, `observe`/`value`, `acquire`/`release` | the cache keeps its bound and one plan per key; the hint keeps its bounds; a buffer has the capacity asked for |
| JSON scanner (`stream_query.go`) | reader buffer, path stack, scratch buffers | `scanObject`, `scanArray`, `readString`, `readNumber` and their variants | a buffered key is used before the buffer is refilled; every variant agrees with the plain one |
| selector language (`selector.go`, `selector_validate.go`, `selector_capabilities.go`) | none | parsing, printing, validation, capabilities | parse and print agree; what validates also evaluates |
| temporal values (`temporal.go`) | none | date literals, granularity, ranges | a literal and its range are consistent |
| field projection (`project_fields.go`, `path_segments.go`, `jsonpointer/`) | buffers for projected values | `ProjectFields` | selected fields, and no others, appear once with their last value; conflicts do not depend on the order of the document |
| command line (`cmd/lql/main.go`) | a temporary file beside the input | inline edit: write, `Chmod`, `Rename` | the file is the old or the new one, at any interruption |

How they interact: `QueryStreamWithResult` takes a scan state from the pool,
a plan from the cache, and scans; the state drives the selector engine token by
token and writes the raw bytes of the candidate to a sink, which is the internal
spool, a sink of the caller's factory (for example the reusable one) or a
discarding sink.  `OnDecision` and `OnValue` are callbacks of the caller in the
middle of that.  The fused call is `QueryStreamWithResult` with an `OnValue` of
its own that copies the payload to a pipe, whose other end a goroutine reads with
`MutateStreamWithResult`.  Contexts are cancelled by other goroutines at any time.

Hard behaviours, each listed at its line under `hazards` in `PROJECT.json`:
a failure at any of the calls out of the loop; limits reached inside nested
arrays; several limits at once; cancellation between two reads; a file and
buffers that outlive their candidate and their call; a spill that fails
half-way; two goroutines on a pipe where either may fail or stop first; shared
sinks released after their factory was closed; stale hits; pruned capture; plans
that several calls share while callers overwrite their selectors and the clock
moves; buffers that all streams share; scratch memory that nested objects share;
output that is half written when a candidate fails; an inline edit that is killed.

## 2. Modules

| module | models | composed with |
|---|---|---|
| `QueryStream` | one call of `QueryStreamWithResult` | refines `PayloadSinkContract` |
| `PayloadSinkContract` | the documented order of the calls of a `QueryStreamPayloadSink` | |
| `SelectorProgram` | simplification, compilation, judgement and pruning of selectors | |
| `StringMatch` | the matchers that look for the needles of a clause while a string is read | |
| `PathMatch` | the paths of clauses: on a decoded document, and place by place in the stream | |
| `ClauseMatch` | the scan of a candidate in its four forms, against the clauses of a selector | extends `StringMatch`, `PathMatch` |
| `TempFile` | what a write at an offset does to a file | |
| `CandidateSpool` | the functions of `stream_spool.go`, with every failing system call | extends `TempFile` |
| `ScanStatePool` | calls that take the pooled scan state and capture candidates | extends `CandidateSpool` |
| `PlanCache` | concurrent calls on the plan cache and the memo of each pooled state | |
| `QueryMutate` | the two goroutines of the fused call and their pipe | |
| `ReusableSinks` | the sink factory, its sinks and their files, with several streams | extends `TempFile` |
| `MutationRules` | the two engines that apply mutations: `ApplyMutations` on a decoded document, and the rules of `MutateStream` | |
| `MutateStream` | the loop of `MutateStreamWithResult`: modes, partial output, counters | |
| `InlineEdit` | the inline edit of the command line, killed anywhere | extends `MutateStream` |
| `AtomicHint` | what users of the adaptive size hint rely on | |
| `AdaptiveHint` | the hint as a loop of load and compare-and-swap | extends and refines `AtomicHint` |
| `BytePool` | the pool of byte slices by class of capacity | |
| `StreamMemory` | the memory of concurrent mutate streams: spools and payloads | extends `BytePool`, `AdaptiveHint` |
| `ProjectFields` | the selected fields of an object: read value by value into a tree, and written from it, over calls of a pooled state | |
| `QueryStreamProofs`, `SelectorEngineProofs`, `QueryMutateProofs`, `ScanStatePoolProofs`, `ReusableSinksProofs`, `SharedStateProofs`, `InlineEditProofs`, `StreamMemoryProofs` | theorems about the modules of these names (`SelectorEngineProofs`: `SelectorProgram`, `ClauseMatch`, `PathMatch` and `StringMatch`; `SharedStateProofs`: `PlanCache` and `ProjectFields`, whose calls use what earlier calls left) and what they extend | each extends its modules and `TLAPS` |

`MC*` modules give TLC the values of the constants that a `.cfg` cannot write.

### QueryStream

The environment chooses the input one token at a time; a candidate is its root
kind, its size and the verdict of the engine.  `pc` is the place in the call:
`top`, `first`, `elem` and `after` are the four places where the code reads a
token (top level, after `[`, after `,`, after an element); `sink`, `scan`,
`decide`, `finalize`, `value`, `cleanup` are the calls out of
`consumeCandidate` in their order.  `depth` is the recursion depth of
`consumeTopArray`.  Variables carry the fields of the result (`seen`, `hits`,
`bytesRead`, `stop`) and of the state (`started`, `sink`, `discard`, `pruned`).
`pending` is what `consumeCandidate` is going to return once the sink has been
cleaned up.  `decided`, `delivered` and `badInput` are history variables.
`Surface` is what `wrapStreamError` does to an error at a nesting of arrays.

`PayloadSinkContract` is the promise of `stream_query.go:119`: `Write` any number
of times, then `Finalize`, then `Open`, and `Cleanup` exactly once unless the sink
could not be made.  The phase of the payload in `QueryStream` implements it with
the identity as mapping.

### SelectorProgram

A selector is a tree of `And`, `Or`, `Not` and clauses, written as the sequence of its nodes
with children before their parents, so that what the code computes by recursion over the tree is a
function over the nodes; a document is the set of
clauses that some value of it satisfies.  `Eval` is `matchSelector`,
`SimplifySelector` is `selector_simplify.go`, `BuildSelectorProgram` is the
compiled program (the same nodes with the ids of their clauses) and `MatchProgram`, `FuturePossibility` are its two
interpreters.  The actions begin a candidate, observe a clause in any order, and
judge; two candidates follow each other so that stale hits show.  A
selector with an `Or` ignores its other fields in `Eval`, in the simplifier
and in both interpreters: each of the four follows its own code.

### StringMatch, PathMatch, ClauseMatch

The part of the engine below `SelectorProgram`: which clauses a document satisfies.  A
document is a function from places (sequences of keys and indexes) to values, so it has no
duplicate keys and no order of members; the scan takes members in any order and the elements of an array in
theirs.  `EvalClause` is `selector_eval.go` on the decoded document.  The stream
follows its own code: `scanValue` in general, or, for the root, `scanObjectFastTopLevelEq`
and `scanObjectFastTopLevel`, chosen by `FastTopLevelEq` and `FastTopLevel` as
`buildFastEqPath` and `buildFastTopLevelProgram` choose them; a root that is not an object is scanned in general.  `HitsAfter` is `observe`,
`StringValueNeeded` decides whether a string is read at all, and a string that is read is
fed to the matchers in runs of any length (`FeedString`), which stands for every way in which the
reader's buffer and escapes can cut it.  `MatchersFollow` says what a matcher knows after
each run, and is the invariant that a proof of the matchers needs.

Texts are sequences of a few characters, one of which has a lower case; the temporal
literals and the numbers there are, are listed; the bounds of a range or a date are the set of values
they accept.  Relative dates, and so the clock, are left out.

`IsDocument` and `IsClause` are what the module assumes of its inputs (`CasesAssumption`), and what the code makes sure
of: the place above one that has a value holds an object or an array; no number or bool is a temporal literal
(those have two hyphens, `temporal.go:16`); `in` never ignores case, because its term has no such field; a clause with an
omitted value has the empty needle and no other (`existsOnly`, `stream_query.go:4717`); the number 0, which
stands for a text that is no number or no literal, is in no range.

### TempFile, CandidateSpool, ScanStatePool

File contents are sequences of bytes, each a number that no other byte ever written has,
so that an old byte is seen for what it is.  The variables of `CandidateSpool` are the fields of
`streamCandidateSpool` and of its `bufio.Writer`, and the disk.  There is one operator for each function of
`stream_spool.go`, and a system call that may fail is a step of its own: `spillToDisk` creates
or rewinds the file, moves the memory to it, and then appends.  What is written stays in the
buffer, or the buffer is written out with it: `bufio.Writer` decides, and the model allows both at every write.  `ScanStatePool` runs them in the
order in which `consumeCandidate` does: a call acquires the state (with one of
several temporary directories), candidates are captured or discarded, and the
state returns to the pool, from which the runtime may drop it.  `stuck` are the files
whose removal has failed, `dropped` those of states that the runtime has collected.

### PlanCache

A selector is known to the code by pointers to the terms of its caller, so the module has
objects (trees of the callers) whose contents are selectors.  The cache and the memos are
keyed by clones, plans keep the pointers, and a relative date is compiled again for each
call out of the object that the plan keeps.  `GetSelectorPlan`, `Compile`, `PutSelectorPlan` and `Prepare` are
the steps between which other calls run: the cache's lock is held in the first and
the third only.  Callers overwrite objects that no call is using, which is why the plan of one object may
serve another one with equal contents; date terms are overwritten like the rest, and where the date that was compiled
is relative, `Prepare` reads what its owner has written there since (`Runtime`), or fails on it (`DateFails`).
What a selector means (`Meanings`) is what its date says, at which time, and what its other terms say.
`Same` is `selectorEqual`, which calls 0 and -0 equal though they have different hashes, a NaN not equal to itself, and
an omitted value equal to an empty one, since `termEqual` and `hashTerm` do not look at `valueSet`.

### QueryMutate

The query goroutine writes pieces of candidates and newlines to an unbuffered
pipe; the mutate goroutine reads them.  The payload is split at any point, since
the pipe gives no framing.  The input of the query is chosen as it goes; the
mutate side is in one of the three modes.  Either side may fail; the context may be cancelled; the
end of the pipe carries the error of the query (`CloseWithError`) or `io.EOF`.  A
number is complete at the end of input, an object is not: that is why
`CloseWithError` matters.  The pooled async state is taken, written by the
goroutine, and given back.

### ReusableSinks

Two streams use one factory concurrently; `Close` may come at any time, once
per factory, and goes through its sinks one at a time.  Each step under the factory's
mutex is one action, as is each call of a stream on its sink.

### MutationRules

The repository has two implementations of the same language of mutations.
`ApplyMutations` (`mutate.go`) changes a decoded document, one mutation after the other;
`MutateStream` (`mutate_stream.go`) reads it once and follows all mutations as rules, pairs of
a mutation and a position in its path.  Both are translated, each from its own code.
`Error`, `Absent` and `Malformed` are an error, no value at all, and a key that was
written without its value.  `inPayload` says that a value is read from a payload that
was set or created before: the state has one reader for payloads, and a payload
in a payload resets it under the outer one, which then fails.  A program grows by
one mutation in each step, and the whole candidate is put through both engines.

Documents have no duplicate keys and no order of members, numbers are
integers, and values from files are left out.

### MutateStream, InlineEdit

The input is a sequence of tokens: an object, an object whose mutation fails, another value,
a bracket, or something malformed.  What the mutations do is in `MutationRules`; here a candidate
only succeeds or fails, after none or a part of it has been written (`torn`).  `phase` is the
place in `consumeCandidate`, and `depth` that of `consumeTopArray`.  `InlineEdit` makes the same
call either for a library caller or between creating the temporary file and `Rename`; `Kill`
may come at every step; `Cleanup` ignores the error of `os.Remove`, so the temporary file may stay.  The file's contents are the lines that the stream has written.

### AtomicHint, AdaptiveHint, BytePool, StreamMemory

`AtomicHint` promises a size within its bounds that each observation moves in one
step.  `AdaptiveHint` has the loop of load and compare-and-swap for each observer and
implements it.  `BytePool` is a bag of buffers (an array and a capacity), because nothing keeps a buffer
from being released twice; `Acquired` takes any buffer of the class, or makes a new one, since a `sync.Pool` may lose
what it has.  `RoundUp` is the allocator of the runtime: the smallest of its sizes, or what was asked for above all of them.  `StreamMemory` has the buffer of each stream's spool, its growth, spill and replacement,
and the payloads that increments make, which live until their candidate is over.  The stream has one writer for
payloads, so that one inside another puts its own buffer there; `overlapped` remembers the arrays that two payloads have used in this way.

### ProjectFields

A pointer is a sequence of tokens, the plan a set of pointers, and a document the set of the places
in it, each with the steps that lead there (to the n-th member of an object, with its key, or to the n-th item of
an array).  A value is known by its place, so that members under the same key differ.

Reading: `todo` has the values that are still to be read, each with its node of the trie; the first
of them in the document is next.  `CopyValue` takes it at a field and `EnterValue` inside, as `projectValue` does.  The tree (`root`) is
a function from the pointers of its leaves to places: what is an array, a map or nil at an address follows from the leaves below it
(`KindAt`), and `Accepts` is the walk of `assignProjectedField` along its types.

Writing: `stack` is the recursion of `writeProjectedValue`, a frame for each object and array that is open.  A frame of an object with
several keys remembers the array of `keyOrderScratch` that its keys are in, and `WriteMember` reads the next key from there, as it is
then.  `AppendKeys` is `append`: the keys overwrite the front of the array, or move to a new one and leave some of them in the
old one.  `output` has each scalar and null with its place.  The reader may fail at every value and the writer at every step; the next call takes the
state as it was left.  The properties compare the output with `Reached`, what a single pointer leads to.

## 3. Runs

| run | instance | shows |
|---|---|---|
| `query_stream` | 74 requests, five tokens, two nestings, sizes and gaps 0 and 1, every fault; 2.8 million states | limits, stop reason, reports, whole payloads, byte count, bad input reported, cancellation, the sink contract |
| `selector_program` | 8452 selectors of up to four nodes over two clauses, two candidates | the program agrees with the evaluator; pruning is safe |
| `clause_match` | 29 documents; each kind of clause on 17 paths, alone and together; 164 strings of up to seven characters | the stream hits the clauses that the evaluator finds satisfied; all tests of a path agree; matchers know what the bytes so far decide; hits stay |
| `scan_state_pool` | two calls, three captured candidates, two directories, memory of 2 bytes, every fault | payloads intact and counted, no dangling file, no file forgotten |
| `plan_cache` | two calls, two states, two objects, seven selectors (three of them equal, three with dates), a cache of two entries, two readings of the clock | one plan for each selector; every call selects what its own selector means now, but for equal ones and overwritten dates |
| `query_mutate` | three matches of up to two pieces, all modes, every fault | output in order, complete on return, quiet pooled state, the call returns unless the mutate side gives up by itself |
| `query_mutate_hang` | one match | **fails as expected**: when the mutate side gives up, the query stays in a write to the pipe |
| `reusable_sinks` | two streams, two sinks, memory of 1 byte, every fault | exclusive sinks, intact payloads, no file out of reach, nothing pooled after `Close` |
| `mutation_rules` | 23 documents, programs of up to three of 22 mutations, with every kind of path | the two engines agree on programs whose mutations do not undo each other; they fail together; wildcards and removals add nothing; what is removed last is gone |
| `inline_edit` | all inputs of up to five tokens, every mode, sink and failure | lines and counters are true; the file has its old contents or all the new ones, and these if the edit succeeds |
| `stream_memory` | two streams, six arrays, three candidates, two writes to spools and two to payloads, two payloads, also one inside the other | no buffer in two places, unless payloads made inside each other share it; a panic takes a buffer that `append` has grown; the hint implements the atomic one |
| `project_fields` | 16 lists of pointers, 90 documents, scratch arrays of 1, 2 and 4 keys, two calls, every fault | only selected fields are ever written, and, unless objects overwrite keys, all of them and null in gaps of arrays only; conflicts in whatever order |

Why the bounds are enough to be interesting: five tokens allow two nested
arrays, two candidates in one, and a candidate after an array; a limit of two
with three candidates shows a read past the limit; a memory of 1 or 2 bytes with
candidates of 3 shows both sides of the spill and the boundary; three
candidates show a file that is reused and then cut short; three matches show an
element before, at and after a failure; two calls that miss one selector and a cache of two
entries show the race of two `put`s and a full cache; the sizes of `stream_memory` are the
smallest classes of the pool and the sizes of Go's allocator between them, with writes whose sum
falls on both sides of a class and of `memoryBytes`.  Every action and every disjunct of
the next-state relations fires in these runs.  Names of the bounds: `MaxTokens`,
`MaxDepth` (QueryStream), `MaxTokens` (InlineEdit), `MaxCandidate`, `MaxCandidates`, `MaxCalls` (ScanStatePool),
`MaxMatches`, `MaxPieces` (QueryMutate), `MaxSinks`, `MaxCandidate`, `MaxBytes`
(ReusableSinks), `MaxMutations` (MutationRules), `MaxEntries` and `MaxClock` (PlanCache),
`Ids`, `MaxCandidates`, `MaxWork`, `MaxFills`, `MaxPayloads`, `MaxNesting` (StreamMemory), `MaxIndex`, `FirstRoom`, `Rooms`, `MaxCalls` (ProjectFields),
`DispatchLimit` (ClauseMatch; 2 instead of 4, so that a
selector of three clauses is dispatched by tail).  `MaxEntries`, `MaxIndex`, `FirstRoom` and `DispatchLimit` are limits of the
code, made small.  Symmetry is used for directories, streams, calls, states and objects, in runs
without liveness.

In `clause_match` the paths hold every token in every position that has code of its own (one, two and
no `...`, at the start, inside and at the end; numbers that are a key and an index), and the
needles overlap themselves and each other.

Deadlock is checked except where the system may stop: in `query_mutate_hang` and `query_mutate`
the call may really be stuck, which is what the first of them shows; in `inline_edit` the process ends; in `stream_memory` and
`project_fields` the callers stop calling when the bounds are used up.

Fairness is assumed in `QueryMutate` only: weak fairness of each goroutine's
step, which is the scheduling of Go.  Nothing is assumed of the environment:
neither that a context is ever cancelled nor that any call fails.  The other
modules have safety properties only: a single call ends because its input does, and
a stream that waits for its reader may wait for ever.

## 4. What the runs found

* `query_mutate_hang`: nobody closes the reading end of the pipe when the mutate side
  returns early; the caller's goroutine then waits in `pipeW.Write` for ever,
  and the error is never reported.

What follows is written into the properties, as the code has it:

* `releaseInternalPayload` returns early unless the last candidate used the internal sink.  If it
  was discarded, the spill file of an earlier candidate stays on disk with its descriptor
  open until the next use of the state (`discarded` in `FilesOwned`).
* The error class of a callback's own error depends on whether the candidate is in a
  top-level array: it is `invalid_body` there (`Surface`).
* `simulateMutationExistence` says that a value remains, so that `mutateObject` writes the key, and then no value
  follows: `/a/b=7, rm:/a/b` on `{"a":1}` writes `{"a":}` (`Malformed`; `Separable` leaves it out).
* A member that a wildcard rule removes or replaces comes back as an object
  that `buildMissingObjectNode` creates for a rule which has a wildcard only before that place:
  `rm:/a/*` and then `/a/*=7` (left out of `AddsNoMember`).
* Objects that `ProjectFields` writes inside each other share `keyOrderScratch`: `/a/x`, `/a/y` and `/b` of
  `{"a":{"x":1,"y":2},"b":3}` are written as `{"a":{"x":1,"y":2},"y":null}`, where `b` is lost and `y` was never selected.
  `SelectedFieldsEmitted` holds, and `OnlySelectedFields` rules out a null under a key, where no object overwrites keys that are
  still to be written (`KeysApart`).
* `ensureMemCapacity` slices a buffer of the pool to the length of the old one and panics if
  the pool returns less: `release` files a buffer under the class above its capacity.  That takes buffers
  which `append` has grown to a capacity that is not one of a class (`PanicNeedsOddBuffer`).
* Where an increment lies inside the payload of another one, as in `/a/b/c=5`, `/a/b=+1`, `/a=+1`, the
  inner one puts its own buffer into the shared `materializeWriter` (`mutate_stream.go:917`), the outer one goes
  on with it, and it is given back twice: two streams may then get the same array.  The run has such payloads;
  `BuffersExclusive` leaves out exactly the arrays that were shared in this way (`overlapped`).
* `selectorEqual` and `hashSelector` do not look at `Term.valueSet` (`stream_query_selector_cache.go:109`, `:247`), on which
  `addTermClause` (`stream_query.go:4719`) and `matchStringTerm` (`selector_eval.go:131`) depend: `contains` of a field
  with no value and with an empty one mean different things and share a plan.  `EngineIsFresh` says that a call selects
  by the terms of its own selector or of one that is equal in this sense.
* A plan in the cache keeps the pointer to the date term of the caller that compiled it (`stream_query.go:4871`).  When
  that caller overwrites a relative date there, other calls that have found the plan select by the new date, or fail with
  "invalid date selector".  `EngineIsFresh` excepts a relative date that was overwritten in another object.
* An inline edit that fails leaves its temporary file if `os.Remove` fails (`cmd/lql/main.go:506`), which nobody is
  told.  `EditIsAtomic` only says that none is left after a success.

Where the engines of mutations disagree and no doc or test says that they should not, `Separable`,
the precondition of `Parity`, leaves the program out: a removal of an array element by a plain
path (null in the stream, nothing in `ApplyMutations`); a creation together with a wildcard
rule that has passed its wildcard (`/a/*/b` with `/a/b`); and an object that is set and
then changed inside (the stream fails when that happens twice).

`Differs` lists where the stream and the evaluator decide a clause differently, which
`AgreesWithEvaluator` leaves out: `eq` with `ignoreCase`, which the inline language does not offer but the public `Term` and its JSON form do,
is folded by the stream (`stream_query.go:4718`) and not by the evaluator (`selector_eval.go:75`); a string that is a number satisfies a numeric range
in the evaluator only; a null satisfies `exists` in the stream when some clause of the
selector has an omitted value (`observe` then lets the null through to all clauses, although its comment at
`stream_query.go:5035` says that exists only matches non-null); a clause with an omitted value and
`...` at the end of its path hits a null in the stream only; and several needles of which one is empty do not find it in an
empty text, since the automaton accepts at a byte (`stream_query.go:3616`).

## 5. What is proved

The theorems hold for every value of the constants that satisfies the named assumptions of
the modules: any number of streams, calls and observers, any sizes, any bounds, any choice of faults.

| module | theorems | inductive invariant |
|---|---|---|
| `QueryStreamProofs` | `TypeCorrect`, `SinksFollowContract`, `LimitsHold`, `PayloadsAreWhole`, `NothingLostOrRepeated`, `BadInputSurfaces`, `BytesAreExact`, `StopReasonIsExact`, `CancelledCallEnds` | `SinkFollowsPC`, `LimitsFollowPC`, `CaptureFollowsVerdict`, `CallbacksFollowCounters`, `Ongoing`, `BytesFollowPC`, `CountersFollowPC` |
| `QueryMutateProofs` | `OutputKeepsOrder`, `ReturnIsComplete`, `StateIsQuiet` | `Typed`, `TakenFollowsCaller`, `PipeFollowsCaller`, `OutFollowsHeld` and what the goroutine leaves behind |
| `ScanStatePoolProofs` | `TypeCorrect`, `SpoolKeepsItsFile`, `NoFileIsForgotten`, `SpooledPayloadIsIntact` | `TypeOK`, `FilesHeld`, `Stages`, `Captured` |
| `ReusableSinksProofs` | `TypeCorrect`, `SinksAreExclusive`, `ClosedKeepsNothing`, `FilesAreReclaimable`, `PayloadsAreIntact` | `Own`, `Typed`, `FreshEmpty`, `Captured` |
| `SharedStateProofs`: `PlanCache` | `CacheHoldsOneOfEach`, `CallsUseTheirOwnSelector` | `TypeOK`, `OnePlanEach`, `KeptServes`, `CallsServed` |
| `SharedStateProofs`: `ProjectFields` | `CallsProject`, `OnlySelectedFieldsAreWritten`, `SelectedFieldsAreWritten` | `ProjectInv` (`PlanInv`, `ReadInv`, `TreeInv`), `WriteInv`, `EmitInv`, `GapInv` |
| `SelectorEngineProofs` | `ProgramAgrees`, `PruningSound`, `PathsAlwaysAgree`, `MatchersAlwaysFollow`, `EvaluatorAgrees`, `HitsAlwaysStay` | `ProgramInv`, `StringInStep`, `ScanInv` |
| `StreamMemoryProofs` | `HintStaysInBounds`, `HintImplementsAtomic`, `StreamsUseAtomicHint`, `PanicIsOdd`, `BuffersAreExclusive` | `HintInv`, `MemInv`, `ExclusiveInv`, `WriterInv` |
| `InlineEditProofs` | `CountersAgree`, `LinesFollowInput`, `EditAtomic` | `Counted`, `ReadAsFarAsSeen`, `LInv`, `EInv` |

The arguments:

* `QueryStream`.  The properties are not inductive.  What is missing is how
  the phase of the sink depends on the place in the code (`SinkFollowsPC`), that a
  discarded or pruned capture implies a request with best effort, matched only
  and an unmatched candidate, how many callbacks are due at
  each place, which limits have been tested at each place, that nothing is reported
  before the end, and how far the counters are behind the reader at each place.  The refinement of the contract is proved step by
  step: each action is a step of the contract or leaves the phase alone.  All properties of the run are proved.
* `QueryMutate`.  Only the last matched candidate can be on its way: what is offered, what is held and what is
  written out follow from where both goroutines are.  A number is complete only when the query's newline or its good end has come,
  which is why an error that closes the pipe cannot turn a prefix into a candidate.
* `ScanStatePool`.  What was written so far is the memory, or the file followed by the buffer
  (`Holds`), at every point of a spill; the file that is open is the only one
  that exists and could be removed.  A write behind the end of a file appends (`OverwriteAppends`), and a
  rewound file is empty only because it was truncated first.
* `ReusableSinks`.  First who has a sink: one stream, or the pool once, and after `Close` nobody but the streams and
  the loop of `Close` (`Own`).  From that, that a step of one stream leaves the sinks, files and buffers of all
  others alone, which carries `Captured`, the bytes of a candidate in memory, file and buffer.
* `PlanCache`.  `KeptServes`: a plan that is kept under a selector was compiled with the terms of one that is equal to it, and
  with its date.  `SameAssumption` is about `selectorEqual` alone: it is symmetric and transitive, and tells dates apart; equal selectors need
  not mean the same.  Only the date of another object can have changed since, because no call is given an object that is being overwritten.
* `SelectorProgram`.  Every function over the nodes of a selector exists (`Recursion`) and what holds at a node if it holds
  at all below holds at the root (`NodeInduction`).  With that, node by node: what simplification leaves agrees with the evaluator,
  and a truth that it finds is one (`SimplifyAgrees`); the program is the evaluator over ids (`MatchIsEval`); what a program cannot become
  once more hits are set it does not become (`FutureSound`).  `ProgramInv` then says that the hits are the clauses satisfied so far.
* `PathMatch`.  The positions of a place that the first segments of a path can lead to (`IsForward`) are what all matchers are about.  The linear,
  the single and the recursive matcher tell whether the end is one of them (`PathForward`), the evaluator reaches the place exactly then unless it
  is a null (`ReachedForward`), and the tests of the tail, also by the dispatch index, leave nothing of it out (`TailFollows`, `DispatchFollows`).
* `StringMatch`.  What ends at a byte (`Ends`) decides everything.  The table of `kmpPrefixTable` holds the longest border of each part of the needle
  (`TableIsBorder`), so that falling back from border to border finds the longest part that a byte leaves begun (`KMPNextIsDelta`); each state of the
  automaton goes to the longest needle begun, and accepts when one ends there, which by its links is known from shorter states.  `Follow` says what a matcher
  that has read `k` bytes holds; it survives a byte (`ByteFollows`), and a run that is compared as a whole instead (`SegmentFollows`).
* `ClauseMatch`.  `StringInStep`: what is left of the string that is read is an end of its text, and each of its matchers follows the rest.
  `ScanInv`, for the agreement with the evaluator: no clause is hit for nothing (`HitsSound`); what has been scanned has hit what it satisfies, or is the string
  that is being read and is shown to it (`HitsComplete`); a string is shown only to clauses whose path leads to it (`StringReached`); and the fast forms
  take a member of the root with all that is below it (`MembersWhole`), so that what they skip cannot satisfy a clause about members (`SatisfiedBy`).
  One lemma per kind of value says what it hits: in the general scan (`ValueHits`), a string that is skipped (`SkipHits`) or has ended
  (`EndHits`, from what its matchers hold after the last byte, `FinalIs`), and a member of the root (`FieldIs`).  `NoDifference` is where each disjunct of `Differs` is needed.
* `AdaptiveHint`.  A successful compare-and-swap moves the hint from what was loaded, hence is one atomic
  observation; all other steps stutter, and so do all steps of `StreamMemory` that are not one of the loops.
* `StreamMemory`.  What a spool holds fits its buffer, and the pool returns at least the class below the size that was asked for
  (`AcquiredAboveClass`): a buffer of a class is therefore never replaced by one too small for its bytes, which is `PanicIsOdd`.
  For `BuffersAreExclusive` the bag and the places of all streams are one partition of the arrays in use (`Exclusive`), and each step
  gives arrays back (`Give`) or hands one out (`Hand`).  All this is about the arrays that are not `overlapped`, for any nesting: the writer
  has a buffer only while a payload is made (`WriterInv`), and a payload that ends inside another one makes that buffer overlapped before it is kept.
* `MutateStream`, `InlineEdit`.  At each place, how far each counter is ahead of the next, and that
  the last line ends where the reader was when it was counted.  For the lines: the list of lines is the ends of the candidates up to
  the reader's position (`LinesAt`), where what ends a candidate is a matter of the depth of brackets over the whole input.  A
  call that ends well has therefore written all of them, which is what the rename of the inline edit relies on (`EInv`).

* `ProjectFields`, reading.  `ConflictsExact` is about the whole document, so `ReadInv` says how far the tree has followed it: a place that a
  pointer leads to is done when no value of `todo` covers it; what is done comes before all of `todo` (`ReadInOrder`); the tree has the last place that is done
  for each pointer, and nothing else (`RootFollows`); and its pointers do not mix (`Uniform`).  Entering a value covers the same fields as the value itself
  (`SelectedCover`), since no two ways through a plan lead to one place (`OneLeadsTo`): this is where the refusal of `/a/1` with `/a/+1` and
  of `/a` with `/a/x` is needed.  `AcceptsIs` says that the walk along the types of the tree fails just when the new pointer mixes with one in it, in whatever order they came.
  When all has been read, the tree is that of the document (`TreeInv`).
* `ProjectFields`, `OnlySelectedFields`.  Every frame is at an address that leads to its place (`FrameOK`), one token below the frame under it (`Nested`),
  and reads its keys from an array that has at least as many (`WriteInv`).  The keys there may be those of an object inside: a value is
  looked up under the key that is written, so that even a wrong key comes with its own value or with null.  Where `KeysApart` holds the keys are
  the frame's own (`EmitInv`), each of which has a leaf below it: what is null is then an item that no pointer leads to or passes (`NullIsGap`, `GapInv`).
* `ProjectFields`, `SelectedFieldsEmitted`.  `EmitInv` adds, where `KeysApart` holds: every frame still has its own keys in all that is ahead (`KeysAhead`);
  it is in the part that the frame above it is at (`Chain`); and for each pointer, the last frame on its way tells by the number of its
  part whether it has been written, once, or not at all (`Progress`).  `KeysStayApart` is the heart of it: `append` overwrites no more than as many keys as the inner object has,
  and these are behind the outer one, because a key in order is at the place of its rank (`RankInOrder`).
  Without `KeysApart` the property is false (section 4).

Only model-checked: `Parity`, `FailsTogether`, `AddsNoMember` and `RemovedIsGone` of `MutationRules`, whose two engines walk documents and programs
by `RECURSIVE` operators, which the prover does not support, and agree by an induction over documents; and
the liveness of `QueryMutate`, since liveness under fairness is out of the prover's reach.
Induction theorems that take an operator cannot be used either.  Where an argument by induction is needed it is by a least
counterexample, on sets of numbers (`Least`), and the values of a recursive function are computed from a lemma that
says it exists.

## 6. Abstractions and what is not modelled

* Candidates have no content in `QueryStream`; the JSON grammar is the choice between a good and a bad token.
* The engine's verdict in `QueryStream` is constrained to what `SelectorProgram` shows.
* Panics of callbacks are not modelled.
* `ProjectFields` is called with paths that `ParseProjectionPaths` has accepted.  A caller may also build a `ProjectionPath` of its own,
  with segments that the parser would refuse; that is left out.
* The buffer of 64 bytes in which `numberStateWriter` has the result of an increment while other mutations look below it (`mutate_stream.go:949`) is
  not in `StreamMemory`: it is taken from the pool and given back within one call.
* Documents in `SelectorProgram` are sets of satisfied clauses: how a path or a
  term is matched is in `ClauseMatch`, for one candidate and its clauses without the program.
* The pipe carries pieces, not bytes.  The checks of a fused request that come before the
  goroutine starts are not modelled.
* Temporary names are distinct (`os.CreateTemp` makes sure of it).  `BytePool` keeps lengths and capacities, not contents.
* The readers that `Open` returns for spools and sinks, and finalizers of files, are left out; so are values of mutations that come from files.
* The crash in `InlineEdit` is one of the process: what was renamed is there.  The code calls no `fsync`, so nothing is
  said about a loss of power.  Errors of `Stat` and `Chmod` are ignored there as in the code.  An inline edit
  with a selector goes through a pipe and a goroutine like those of `QueryMutate`, and is left out.
* The key of a member is a slice of the reader's buffer and is used after the next byte was read (`stream_query.go:1816`, the
  hazard without a property): no model has the contents of the buffer of `bufio.Reader`.
* The parsers and printers of the selector language (`selector.go`, `selector_validate.go`, `selector_capabilities.go`), the grammars of numbers and
  strings, and the arithmetic of dates are pure functions over text without state, and their content is wording.
* The tests, benchmarks, recorded baselines and output formats are left out.

## 7. Plan

What would come next, in order of weight:

1. `BufferedKey`: the key of a member as a slice of the reader's buffer, over `FeedString`'s runs.
2. `MutationRules` without recursive operators, its documents as sets of places like those of `ProjectFields`, and a proof of `Parity`.
3. The gated inline edit: `InlineEdit` over `QueryMutate` in place of `MutateStream`.
4. `Parity` for values that come from files.
