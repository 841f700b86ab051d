----------------------------- MODULE ProjectFields -----------------------------
(***************************************************************************)
(* ProjectFields: the fields of one JSON object that a set of JSON         *)
(* Pointers selects are copied to spools while the object is read, put     *)
(* together as a tree, and written when the whole input has been read.     *)
(* Calls take their state from a pool, one after the other.                *)
(*                                                                         *)
(* A pointer is a sequence of tokens.  A document is a set of places: the  *)
(* steps that lead to them from the root, each to a member or to an item.  *)
(* A value is known by its place.                                          *)
(***************************************************************************)
EXTENDS Integers, FiniteSets, SequencesExt

CONSTANTS Tokens,      \* segments of pointers and keys of objects
          Order,       \* the place of each token in the order of sort.Strings
          Number,      \* strconv.Atoi of each token, -1 if that is no index
          Digits,      \* tokens that consist of digits and fit an int
          MaxIndex,    \* maxProjectionFieldIndex
          PathLists,   \* what callers select
          Documents,   \* what readers provide
          FirstRoom,   \* capacity of keyOrderScratch in a new state (16 in the code)
          Rooms,       \* bound: capacities that append may give it
          MaxCalls     \* bound: calls

ASSUME TokenAssumption ==
  /\ Order \in [Tokens -> Int] /\ \A t, u \in Tokens : Order[t] = Order[u] => t = u
  /\ Number \in [Tokens -> Int] /\ \A t \in Digits : Number[t] >= 0
ASSUME RequestAssumption == PathLists \subseteq Seq(Seq(Tokens))
ASSUME BoundAssumption == {MaxIndex, FirstRoom, MaxCalls} \subseteq Nat /\ Rooms \subseteq Nat

Member(n, t) == [at |-> n, key |-> t]
Item(n)      == [at |-> n]
Positions    == Nat \ {0}
Steps        == [at : Positions, key : Tokens] \cup [at : Positions]
IsMember(s)  == "key" \in DOMAIN s

\* Objects: any other document is refused when its first byte has been read.
ASSUME DocumentAssumption ==
  \A d \in Documents :
    /\ d \subseteq Seq(Steps) /\ <<>> \in d
    /\ \A q \in d : \A n \in DOMAIN q : SubSeq(q, 1, n) \in d
    /\ \A q \in d \ {<<>>} : IsMember(q[1])
    /\ \A q, r \in d \ {<<>>} : Front(q) = Front(r) =>
         /\ IsMember(Last(q)) <=> IsMember(Last(r))
         /\ Last(q).at = Last(r).at => q = r

VARIABLES
  phase,    \* "idle", "read", "write" or "finalize"
  paths,    \* the plan: the pointers of its trie
  document,
  todo,     \* the values that are still to be read, each with its node of the trie
  root,     \* outputRoot: the values of its leaves; the pool keeps it until the next reset
  found,
  spools,   \* number of spools that are held
  stack,    \* the objects and arrays that are being written
  arrays,   \* the arrays that keyOrderScratch has had in this call; it has the last one
  output,   \* the scalars and nulls that have been written, and where
  outcome, calls

call    == <<paths, document, todo>>
writing == <<stack, arrays, output>>
projectVars == <<phase, call, root, found, spools, writing, outcome, calls>>

--------------------------------------------------------------------------------
(* The plan.                                                                  *)

\* ParseProjectionPaths: repetitions are skipped; {} for an error.
ParseProjectionPaths(list) ==
  IF \E p \in ToSet(list) : p = <<>> \/ Number[p[1]] >= 0 THEN {} ELSE ToSet(list)

\* The tokens that follow a prefix: the children of a node of the trie.
Children(ps, prefix) ==
  {p[Len(prefix) + 1] : p \in {p \in ps : IsStrictPrefix(prefix, p)}}

IndexedChildren(ps, prefix) == {t \in Children(ps, prefix) : Number[t] \in 0..MaxIndex}

\* buildProjectionTrie and finalizeProjectionTrie
ValidPlan(ps) ==
  /\ ps # {}
  /\ \A p, q \in ps : ~IsStrictPrefix(p, q)
  /\ \A p \in ps : \A n \in DOMAIN p :
       LET indexed == IndexedChildren(ps, SubSeq(p, 1, n - 1))
       IN  \A t, u \in indexed : Number[t] = Number[u] => t = u

--------------------------------------------------------------------------------
(* The tree.                                                                  *)

\* What is at an address: a leaf, an array, a map or nil.  The root is a map.
KindAt(node) ==
  LET below == Children(DOMAIN root, node) IN
  IF node \in DOMAIN root THEN "leaf"
  ELSE IF below \cap Digits # {} THEN "array"
  ELSE IF below # {} \/ node = <<>> THEN "map"
  ELSE "nil"

\* Mutant: any index is accepted.
BecomesArrayUnbounded(kind, token) == token \in Digits /\ kind \in {"nil", "array"}

\* Digits make an array, whatever the document has there.
BecomesArray(kind, token) ==
  token \in Digits /\ Number[token] <= MaxIndex /\ kind \in {"nil", "array"}

BecomesMap(kind, token) == token \notin Digits /\ kind \in {"nil", "map"}

\* assignProjectedField finds an array or a map, or makes one, at each token.
Accepts(path) ==
  \A n \in DOMAIN path :
    LET kind == KindAt(SubSeq(path, 1, n - 1))
    IN  BecomesArray(kind, path[n]) \/ BecomesMap(kind, path[n])

\* Pointers that agree in front of their n-th token.
AgreeBefore(n, p, q) == \A m \in 1..(n - 1) : p[m] = q[m]

\* Mutant: the arrays on the way are made anew.
KeptNew(path) ==
  {p \in DOMAIN root : \A n \in DOMAIN p \cap DOMAIN path :
     AgreeBefore(n, p, path) /\ path[n] \in Digits => p[n] = path[n]}

\* The leaves that an assignment leaves alone.
Kept(path) == {p \in DOMAIN root : ~IsStrictPrefix(path, p)}

AssignProjectedField(path, value) ==
  root' = [p \in Kept(path) \cup {path} |-> IF p = path THEN value ELSE root[p]]

--------------------------------------------------------------------------------
(* Reading.                                                                   *)

\* The child that a step of the document comes to: by its key, or by its index.
Takes(token, step) ==
  IF IsMember(step) THEN token = step.key
  ELSE Number[token] <= MaxIndex /\ Number[token] = step.at - 1

Before(q, r) ==
  \E n \in DOMAIN q \cap DOMAIN r : AgreeBefore(n, q, r) /\ q[n].at < r[n].at

\* Mutant: the map of the pooled state keeps its keys.
ResetKeeping == root' = root

Reset == root' = <<>>

\* Invalid paths are refused before a state is taken from the pool.
ProjectFields(list, doc) ==
  /\ phase = "idle" /\ calls < MaxCalls /\ calls' = calls + 1
  /\ LET ps == ParseProjectionPaths(list)
     IN  IF ValidPlan(ps)
         THEN /\ paths' = ps /\ document' = doc
              /\ todo' = {[node |-> <<>>, place |-> <<>>]}
              /\ Reset /\ phase' = "read"
         ELSE UNCHANGED <<phase, call, root>>
  /\ UNCHANGED <<found, spools, writing, outcome>>

\* The value that comes next in the document.
IsNext(v) == v \in todo /\ \A w \in todo \ {v} : Before(v.place, w.place)

\* projectValue at a field: it is copied to a spool and becomes a leaf.
CopyValue(v) ==
  /\ phase = "read" /\ IsNext(v) /\ v.node \in paths
  /\ todo' = todo \ {v} /\ spools' = spools + 1
  /\ IF Accepts(v.node)
     THEN AssignProjectedField(v.node, v.place) /\ found' = TRUE /\ UNCHANGED <<phase, outcome>>
     ELSE phase' = "finalize" /\ outcome' = "conflict" /\ UNCHANGED <<root, found>>
  /\ UNCHANGED <<paths, document, writing, calls>>

\* The values in an object or an array that have a child of its node.
Selected(v) ==
  {[node |-> Append(v.node, c[1]), place |-> c[2]] :
     c \in {c \in Children(paths, v.node) \X document :
              c[2] # <<>> /\ Front(c[2]) = v.place /\ Takes(c[1], Last(c[2]))}}

\* projectObject and projectArray; other values are skipped.
EnterValue(v) ==
  /\ phase = "read" /\ IsNext(v) /\ v.node \notin paths
  /\ todo' = (todo \ {v}) \cup Selected(v)
  /\ UNCHANGED <<phase, paths, document, root, found, spools, writing, outcome, calls>>

\* The input ends, is malformed or has something behind the object, or the
\* context is done; the value that was being copied has taken its spool.
ReadFails ==
  /\ phase = "read" /\ phase' = "finalize" /\ outcome' = "read failed"
  /\ \/ UNCHANGED spools
     \/ \E v \in todo : IsNext(v) /\ v.node \in paths /\ spools' = spools + 1
  /\ UNCHANGED <<call, root, found, writing, calls>>

EndRead ==
  /\ phase = "read" /\ todo = {}
  /\ IF found THEN phase' = "write" /\ UNCHANGED outcome
     ELSE phase' = "finalize" /\ outcome' = "not found"
  /\ UNCHANGED <<call, root, found, spools, writing, calls>>

--------------------------------------------------------------------------------
(* Writing.  An object with one key does not use keyOrderScratch; the others  *)
(* append their keys to it, sort them there, and read them from there one by  *)
(* one while what is in the object is written.                                *)

Keys(node) == Children(DOMAIN root, node)

\* append to keyOrderScratch[:0].  When the array is too small, as many keys as
\* it has room for are in it, in any order, before they move to another one.
AppendKeys(keys) ==
  LET n    == Len(keys)
      last == Len(arrays)
      some == 1..arrays[last].room
  IN
  \/ /\ n <= arrays[last].room
     /\ arrays' = [arrays EXCEPT ![last].keys = keys \o SubSeq(@, n + 1, Len(@))]
  \/ /\ n > arrays[last].room
     /\ \E first \in [some -> ToSet(keys)], room \in Rooms :
          /\ n <= room /\ IsInjective(first)
          /\ arrays' = Append([arrays EXCEPT ![last].keys = first], [room |-> room, keys |-> keys])

\* The keys of a map in the order of sort.Strings.
InOrder(keys, node) ==
  /\ ToSet(keys) = Keys(node)
  /\ \A i, j \in DOMAIN keys : i < j => Order[keys[i]] < Order[keys[j]]

\* An object or array with parts, of which some are done; array is the one of
\* keyOrderScratch that it reads its keys from.
Frame(node, place, parts, array) ==
  [node |-> node, place |-> place, parts |-> parts, done |-> 0, array |-> array]

\* What is no object and no array: at most one address, none for a nil item of
\* an array.  The value of null is {}.
WriteScalar(nodes, place, around) ==
  /\ \A a \in nodes : KindAt(a) \in {"leaf", "nil"}
  /\ output' = Append(output, [place |-> place, value |-> {root[a] : a \in nodes \cap DOMAIN root}])
  /\ stack' = around /\ UNCHANGED arrays

\* A slice is as long as its last item needs.
WriteArray(node, place, around) ==
  /\ KindAt(node) = "array"
  /\ \E n \in 1..(MaxIndex + 1) :
       /\ \A t \in Keys(node) : Number[t] < n
       /\ \E t \in Keys(node) : Number[t] = n - 1
       /\ stack' = Append(around, Frame(node, place, n, 0))
  /\ UNCHANGED <<arrays, output>>

WriteMap(node, place, around) ==
  LET n == Cardinality(Keys(node)) IN
  /\ KindAt(node) = "map"
  /\ \/ n = 1 /\ stack' = Append(around, Frame(node, place, 1, 0)) /\ UNCHANGED arrays
     \/ /\ n # 1
        /\ \E keys \in [1..n -> Keys(node)] : InOrder(keys, node) /\ AppendKeys(keys)
        /\ stack' = Append(around, Frame(node, place, n, Len(arrays')))
  /\ UNCHANGED output

WriteProjectedValue(nodes, place, around) ==
  \/ WriteScalar(nodes, place, around)
  \/ \E a \in nodes : WriteArray(a, place, around) \/ WriteMap(a, place, around)

Unwritten == <<call, root, found, spools, calls>>

WriteRoot ==
  /\ phase = "write" /\ stack = <<>> /\ WriteMap(<<>>, <<>>, <<>>)
  /\ UNCHANGED <<phase, outcome, Unwritten>>

Top      == stack[Len(stack)]
Advanced == [stack EXCEPT ![Len(stack)].done = @ + 1]

\* The next key, as the array has it now, and what the map has under it.
NextKeys(f) == IF f.array = 0 THEN Keys(f.node) ELSE {arrays[f.array].keys[f.done + 1]}

WriteMember ==
  /\ phase = "write" /\ stack # <<>> /\ Top.done < Top.parts /\ KindAt(Top.node) = "map"
  /\ \E t \in NextKeys(Top) :
       WriteProjectedValue({Append(Top.node, t)}, Append(Top.place, Member(Top.done + 1, t)), Advanced)
  /\ UNCHANGED <<phase, outcome, Unwritten>>

WriteItem ==
  /\ phase = "write" /\ stack # <<>> /\ Top.done < Top.parts /\ KindAt(Top.node) = "array"
  /\ WriteProjectedValue({Append(Top.node, t) : t \in {t \in Keys(Top.node) : Number[t] = Top.done}},
                         Append(Top.place, Item(Top.done + 1)), Advanced)
  /\ UNCHANGED <<phase, outcome, Unwritten>>

\* The closing bracket; the last one ends the call.
WriteEnd ==
  /\ phase = "write" /\ stack # <<>> /\ Top.done = Top.parts
  /\ stack' = Front(stack) /\ UNCHANGED <<arrays, output>>
  /\ IF Len(stack) = 1 THEN phase' = "finalize" /\ outcome' = "written" ELSE UNCHANGED <<phase, outcome>>
  /\ UNCHANGED Unwritten

\* Writer fails or MaxOutputBytes is exceeded, with a part of it written.
WriteFails ==
  /\ phase = "write" /\ phase' = "finalize" /\ outcome' = "write failed"
  /\ UNCHANGED <<Unwritten, writing>>

\* finalizeProjectFields: cleanup, and the state returns to the pool.
Finalize ==
  /\ phase = "finalize" /\ phase' = "idle" /\ spools' = 0 /\ found' = FALSE
  /\ paths' = {} /\ document' = {} /\ todo' = {} /\ output' = <<>> /\ outcome' = "none"
  /\ stack' = <<>> /\ arrays' = <<[Last(arrays) EXCEPT !.keys = <<>>]>>
  /\ UNCHANGED <<root, calls>>

ProjectInit ==
  /\ phase = "idle" /\ paths = {} /\ document = {} /\ todo = {} /\ root = <<>>
  /\ found = FALSE /\ spools = 0 /\ stack = <<>> /\ arrays = <<[room |-> FirstRoom, keys |-> <<>>]>>
  /\ output = <<>> /\ outcome = "none" /\ calls = 0

ProjectNext ==
  \/ \E list \in PathLists, doc \in Documents : ProjectFields(list, doc)
  \/ \E v \in todo : CopyValue(v) \/ EnterValue(v)
  \/ ReadFails \/ EndRead
  \/ WriteRoot \/ WriteMember \/ WriteItem \/ WriteEnd \/ WriteFails \/ Finalize

ProjectSpec == ProjectInit /\ [][ProjectNext]_projectVars

--------------------------------------------------------------------------------
(* What a projection is, one pointer at a time.                               *)

\* What a pointer leads to, in the document or in the output.
LeadsTo(p, q) == Len(p) = Len(q) /\ \A n \in DOMAIN p : Takes(p[n], q[n])

Reached(p) == {q \in document : LeadsTo(p, q)}

IsLast(p, q) == q \in Reached(p) /\ \A r \in Reached(p) \ {q} : Before(r, q)

Present == {p \in paths : Reached(p) # {}}

Written == phase = "finalize" /\ outcome = "written"

\* Maps with several keys in the tree.
Wide == {a \in UNION {{SubSeq(p, 1, n - 1) : n \in DOMAIN p} : p \in DOMAIN root} :
           KindAt(a) = "map" /\ Cardinality(Keys(a)) > 1}

Rank(t, keys) == Cardinality({u \in keys : Order[u] <= Order[t]})

\* No object overwrites keys that an object around it has still to write: what
\* is below the i-th of several keys has no more than i of them.
KeysApart ==
  \A a, b \in Wide : \A t \in Keys(a) : IsPrefix(Append(a, t), b) =>
    LET i == Rank(t, Keys(a)) IN i = Cardinality(Keys(a)) \/ Cardinality(Keys(b)) <= i

\* An item of an array that no pointer of the document leads to, or passes.
IsGap(place) ==
  /\ ~IsMember(Last(place))
  /\ \A p \in Present : \A n \in DOMAIN p : ~LeadsTo(SubSeq(p, 1, n), place)

\* "Paths are matched as JSON Pointer segments and only matched fields are
\* emitted" (project_fields.go:116): whatever is written, also by a call that
\* fails later, is the last value in the document of the one pointer that leads
\* there, or the null that fills a gap of an array.  Nothing of an earlier call
\* is left, no value comes under a key of another, even where objects overwrite
\* each other's keys, and null comes under a key only there: then a member that
\* is not selected is written, as "y" of {"a":{"x":1,"y":2},"y":null} is for
\* /a/x, /a/y and /b.
OnlySelectedFields ==
  \A n \in DOMAIN output :
    /\ \A v \in output[n].value : \E p \in paths :
         IsLast(p, v) /\ \A q \in paths : LeadsTo(q, output[n].place) <=> q = p
    /\ KeysApart /\ output[n].value = {} => IsGap(output[n].place)

\* Every pointer that is in the document is in the output, once and with its
\* last value, if no object shares keys with one around it.  (Otherwise
\* fields are lost: /a/x, /a/y and /b of {"a":{"x":1,"y":2},"b":3} are written
\* as {"a":{"x":1,"y":2},"y":null}.)
SelectedFieldsEmitted ==
  Written /\ KeysApart => \A p \in Present :
    \E n \in DOMAIN output :
      /\ \E v \in output[n].value : IsLast(p, v)
      /\ \A m \in DOMAIN output : LeadsTo(p, output[m].place) <=> m = n

\* Pointers mix in a document if one takes a node for an array and another one
\* takes it for an object, or if an index is too large.
Mixed ==
  \/ \E p, q \in Present : \E n \in DOMAIN p \cap DOMAIN q :
       AgreeBefore(n, p, q) /\ p[n] \in Digits /\ q[n] \notin Digits
  \/ \E p \in Present : \E n \in DOMAIN p : p[n] \in Digits /\ Number[p[n]] > MaxIndex

\* A call fails for a conflict just when pointers mix in its document, in
\* whatever order they come; it has not written anything then, and it does not
\* report that nothing was found when something is there.
ConflictsExact ==
  phase = "finalize" =>
    /\ outcome = "conflict" => Mixed /\ output = <<>>
    /\ outcome \in {"written", "write failed", "not found"} => ~Mixed
    /\ outcome = "not found" <=> Present = {} /\ outcome # "read failed"

================================================================================
