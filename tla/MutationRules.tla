----------------------------- MODULE MutationRules -----------------------------
(***************************************************************************)
(* The two engines that apply a list of mutations to a JSON object.        *)
(* ApplyMutations changes a decoded document, one mutation after another.  *)
(* MutateStream reads the document once: it follows all mutations at the   *)
(* same time as rules, pairs of a mutation and a position in its path, and *)
(* writes each value when it has seen what the rules make of it.           *)
(*                                                                         *)
(* A document is a value: an object (a function from keys), an array (a    *)
(* sequence), a number or another scalar.  The order of members and        *)
(* duplicate keys are left out.                                            *)
(***************************************************************************)
EXTENDS Integers, Sequences, SequencesExt

CONSTANTS Documents,    \* the objects to mutate
          Mutations,    \* the mutations a program is made of
          MaxMutations  \* bound: the length of a program

ASSUME BoundsAssumption == MaxMutations \in Nat

VARIABLES
  source,    \* the candidate
  program,   \* the mutations of the request
  doc,       \* what ApplyMutations makes of the candidate, or Error
  written    \* what MutateStream writes for it, or Error

vars == <<source, program, doc, written>>

--------------------------------------------------------------------------------
(* Values.                                                                     *)

Num(n)   == [num |-> n]
Scalar   == [scalar |-> "text"]
Null     == [scalar |-> "null"]
Obj(map) == [obj |-> map]
Arr(seq) == [arr |-> seq]

EmptyObject == Obj(<<>>)

IsNum(v) == DOMAIN v = {"num"}
IsObj(v) == DOMAIN v = {"obj"}
IsArr(v) == DOMAIN v = {"arr"}

\* Not values: an error, no value at all, and bytes that are not JSON (a key or
\* an element without its value).
Error     == [none |-> "error"]
Absent    == [none |-> "absent"]
Malformed == [none |-> "malformed"]

Kids(v) == IF IsObj(v) THEN v.obj ELSE IF IsArr(v) THEN v.arr ELSE <<>>

\* A container with new children.  A member that is removed disappears, an
\* element that is removed becomes null.
Rebuild(v, kids) ==
  IF Error \in Range(kids) THEN Error
  ELSE IF Malformed \in Range(kids) THEN Malformed
  ELSE IF IsObj(v) THEN Obj(Restrict(kids, {k \in DOMAIN kids : kids[k] # Absent}))
  ELSE IF IsArr(v) THEN Arr([i \in DOMAIN kids |-> IF kids[i] = Absent THEN Null ELSE kids[i]])
  ELSE v

--------------------------------------------------------------------------------
(* Mutations: a path of segments, a kind, and the value to set or to add.      *)

Wildcards == {"*", "[]", "**", "..."}
HasWildcard(path) == Range(path) \cap Wildcards # {}

\* The position of an array element that a segment names, 0 for none.
Index(segment) == CASE segment = "0" -> 1 [] segment = "1" -> 2 [] OTHER -> 0

\* A path segment other than "..." and a child of a container.
Selects(segment, v, k) ==
  CASE segment = "*"  -> IsObj(v)
    [] segment = "[]" -> IsArr(v)
    [] segment = "**" -> TRUE
    [] OTHER -> IF IsObj(v) THEN k = segment ELSE k = Index(segment)

\* The value a mutation leaves where it finds an old one, or Absent.
ApplyHere(old, mut) ==
  CASE mut.kind = "set"    -> mut.value
    [] mut.kind = "remove" -> Absent
    [] OTHER -> IF old = Absent THEN mut.value
                ELSE IF IsNum(old) THEN Num(old.num + mut.value.num)
                ELSE Error

--------------------------------------------------------------------------------
(* ApplyMutations.                                                             *)

\* navigate and the switch of applyMutation, for a path without wildcards: the
\* objects on the way are created, in place of what else is there.
RECURSIVE ApplyPlain(_, _, _)
ApplyPlain(node, path, mut) ==
  LET key   == Head(path)
      old   == IF key \in DOMAIN node.obj THEN node.obj[key] ELSE Absent
      child == IF IsObj(old) THEN old ELSE EmptyObject
      new   == IF Len(path) = 1 THEN ApplyHere(old, mut)
               ELSE IF mut.kind = "remove" /\ ~IsObj(old) THEN old
               ELSE ApplyPlain(child, Tail(path), mut)
  IN  Rebuild(node, [k \in DOMAIN node.obj \cup {key} |-> IF k = key THEN new ELSE node.obj[k]])

RECURSIVE ApplyRecursiveDesc(_, _)
ApplyRecursiveDesc(node, mut) ==
  LET here == Rebuild(node, [k \in DOMAIN Kids(node) |-> ApplyHere(Kids(node)[k], mut)])
  IN  IF here = Error THEN Error
      ELSE Rebuild(here, [k \in DOMAIN Kids(here) |-> ApplyRecursiveDesc(Kids(here)[k], mut)])

\* applyMutationAtPath, and applyMutationRecursivePath for "..." before the end.
RECURSIVE ApplyAtPath(_, _, _)
ApplyAtPath(node, path, mut) ==
  LET segment == Head(path)
      rest    == Tail(path)
      kids    == Kids(node)
      RECURSIVE ApplyRecursivePath(_)
      ApplyRecursivePath(v) ==
        LET here == ApplyAtPath(v, rest, mut)
        IN  IF here = Error THEN Error
            ELSE Rebuild(here, [k \in DOMAIN Kids(here) |-> ApplyRecursivePath(Kids(here)[k])])
  IN  IF segment = "..."
      THEN IF rest = <<>> THEN ApplyRecursiveDesc(node, mut) ELSE ApplyRecursivePath(node)
      ELSE Rebuild(node,
             [k \in DOMAIN kids |->
                IF ~Selects(segment, node, k) THEN kids[k]
                ELSE IF rest = <<>> THEN ApplyHere(kids[k], mut)
                ELSE ApplyAtPath(kids[k], rest, mut)])

ApplyMutation(node, mut) ==
  IF HasWildcard(mut.path) THEN ApplyAtPath(node, mut.path, mut)
  ELSE ApplyPlain(node, mut.path, mut)

--------------------------------------------------------------------------------
(* MutateStream: the rules at a value.                                         *)

\* Mutant: "..." is left behind once the segment after it has been found.
RECURSIVE AdvancePositionsOnce(_, _, _, _)
AdvancePositionsOnce(path, pos, v, k) ==
  IF path[pos] # "..." THEN IF Selects(path[pos], v, k) THEN {pos + 1} ELSE {}
  ELSE IF pos = Len(path) THEN {pos, pos + 1}
  ELSE IF Selects(path[pos + 1], v, k) THEN {pos + 2} ELSE {pos}

\* advanceMutationPositions: one child down.
RECURSIVE AdvancePositions(_, _, _, _)
AdvancePositions(path, pos, v, k) ==
  IF path[pos] = "..."
  THEN {pos} \cup (IF pos = Len(path) THEN {pos + 1} ELSE AdvancePositions(path, pos + 1, v, k))
  ELSE IF Selects(path[pos], v, k) THEN {pos + 1} ELSE {}

\* mut is compiled.mut; wildcard says whether the whole path has one.
Path(prog, rule) == prog[rule.idx].path
Direct(prog, rule) == rule.pos > Len(Path(prog, rule))

AdvanceRules(prog, rules, v, k) ==
  UNION {{[idx |-> r.idx, pos |-> p] : p \in AdvancePositions(Path(prog, r), r.pos, v, k)} :
           r \in {r \in rules : ~Direct(prog, r)}}

\* Mutant: a wildcard creates what it does not find.
CreateRulesAny(prog, rules) == {r \in rules : prog[r.idx].kind # "remove" /\ ~Direct(prog, r)
                                              /\ Path(prog, r)[r.pos] \notin Wildcards}

\* The rules that create what they do not find.
CreateRules(prog, rules) ==
  {r \in rules : /\ ~HasWildcard(Path(prog, r))
                 /\ prog[r.idx].kind # "remove"
                 /\ ~Direct(prog, r)}

HasCreateNonWildcardRule(prog, rules) == CreateRules(prog, rules) # {}

\* simulateMutationExistence: is there a value once the mutations are through?
SimulateExistence(prog, rules) ==
  LET Step(exists, idx) ==
        LET group == {r \in rules : r.idx = idx}
        IN  IF \E r \in group : Direct(prog, r) THEN prog[idx].kind # "remove"
            ELSE exists \/ CreateRules(prog, group) # {}
  IN  FoldLeft(Step, TRUE, [i \in DOMAIN prog |-> i])

\* Mutant: removals below a value that is not there are left out.
MissingKept(prog, rules) ==
  LET below   == {r \in rules : ~Direct(prog, r) /\ prog[r.idx].kind # "remove"}
      ordered == SetToSortSeq(below, LAMBDA r, s : r.idx < s.idx \/ (r.idx = s.idx /\ r.pos < s.pos))
      Relative(r) == [prog[r.idx] EXCEPT !.path = SubSeq(@, r.pos, Len(@))]
  IN  FoldLeft(LAMBDA v, r : IF v = Error THEN v ELSE ApplyMutation(v, Relative(r)),
               EmptyObject, ordered)

\* buildMissingObjectNode: what the mutations below a value that is not there
\* create, found by applying the rest of their paths to an empty object.
MissingValue(prog, rules) ==
  LET below   == {r \in rules : ~Direct(prog, r)}
      ordered == SetToSortSeq(below, LAMBDA r, s : r.idx < s.idx \/ (r.idx = s.idx /\ r.pos < s.pos))
      Relative(r) == [prog[r.idx] EXCEPT !.path = SubSeq(@, r.pos, Len(@))]
      made    == FoldLeft(LAMBDA v, r : IF v = Error THEN v ELSE ApplyMutation(v, Relative(r)),
                          EmptyObject, ordered)
  IN  IF made = EmptyObject THEN Absent ELSE made

--------------------------------------------------------------------------------
(* MutateStream: what is written for a value.  inPayload: the value is read    *)
(* from a payload, by the one payload reader of the state.                     *)

RECURSIVE MutateValue(_, _, _, _)

\* The children that are there.  Where the mutations leave no value, the bytes
\* are thrown away; where they do, the key or the comma is already written.
MutateKids(prog, v, rules, inPayload) ==
  LET Child(k) ==
        LET below == AdvanceRules(prog, rules, v, k)
            value == MutateValue(prog, Kids(v)[k], below, inPayload)
        IN  IF SimulateExistence(prog, below)
            THEN IF value = Absent THEN Malformed ELSE value
            ELSE IF value = Error THEN Error ELSE Absent
  IN  Rebuild(v, [k \in DOMAIN Kids(v) |-> Child(k)])

\* appendMissingObjectMembers: the members that were not seen follow.
MutateObjectValue(prog, v, rules, inPayload) ==
  LET members       == MutateKids(prog, v, rules, inPayload)
      potentialAdds == {Path(prog, r)[r.pos] : r \in CreateRules(prog, rules)}
      missing       == MissingValue(prog, rules)
      unseen        == DOMAIN missing.obj \ (DOMAIN v.obj \cap potentialAdds)
  IN  IF potentialAdds \subseteq DOMAIN v.obj \/ members = Error THEN members
      ELSE IF missing = Error THEN Error
      ELSE IF missing = Absent \/ members = Malformed THEN members
      ELSE Obj(members.obj @@ Restrict(missing.obj, unseen))

MutateSourceValue(prog, v, rules, inPayload) ==
  IF rules = {} THEN v
  ELSE IF IsObj(v) THEN MutateObjectValue(prog, v, rules, inPayload)
  ELSE IF HasCreateNonWildcardRule(prog, rules) THEN MissingValue(prog, rules)
  ELSE IF IsArr(v) THEN MutateKids(prog, v, rules, inPayload)
  ELSE v

\* applyPendingState: value is Absent once it has been removed.  A payload in a
\* payload takes the reader from the outer one, which then ends too early.
ApplyPendingState(prog, value, isPayload, pending, inPayload) ==
  IF pending = {} THEN value
  ELSE IF value = Absent THEN MissingValue(prog, pending)
  ELSE IF isPayload /\ inPayload THEN Error
  ELSE MutateSourceValue(prog, value, pending, isPayload \/ inPayload)

\* A value on its way through the mutations: what it is so far, whether that is
\* a payload, and the rules below it that are still to be followed.
Node(value, isPayload, pending) == [value |-> value, isPayload |-> isPayload, pending |-> pending]

\* Mutant: what a set or remove replaces is not evaluated.
MutateStepUnchecked(prog, rules, idx, node, inPayload) ==
  LET group == {r \in rules : r.idx = idx}
      below == {r \in group : ~Direct(prog, r)}
      old   == IF prog[idx].kind # "increment" THEN Absent
               ELSE ApplyPendingState(prog, node.value, node.isPayload, node.pending, inPayload)
  IN  IF group = below THEN Node(node.value, node.isPayload, node.pending \cup below)
      ELSE Node(IF old = Error THEN Error ELSE ApplyHere(old, prog[idx]), TRUE, below)

\* One mutation at a value: it ends there, or passes through.  What it replaces
\* is evaluated first (validatePendingState, materializePendingState).
MutateStep(prog, rules, idx, node, inPayload) ==
  LET group == {r \in rules : r.idx = idx}
      below == {r \in group : ~Direct(prog, r)}
      old   == ApplyPendingState(prog, node.value, node.isPayload, node.pending, inPayload)
  IN  IF group = below THEN Node(node.value, node.isPayload, node.pending \cup below)
      ELSE Node(IF old = Error THEN Error ELSE ApplyHere(old, prog[idx]), TRUE, below)

MutateValue(prog, v, rules, inPayload) ==
  LET Step(node, idx) == IF node.value = Error THEN node
                         ELSE MutateStep(prog, rules, idx, node, inPayload)
      last == FoldLeft(Step, Node(v, FALSE, {}), [i \in DOMAIN prog |-> i])
  IN  IF rules = {} THEN v
      ELSE IF last.value = Error THEN Error
      ELSE ApplyPendingState(prog, last.value, last.isPayload, last.pending, inPayload)

RootRules(prog) == {[idx |-> i, pos |-> 1] : i \in DOMAIN prog}

MutateCandidate(prog, v) == MutateValue(prog, v, RootRules(prog), FALSE)

--------------------------------------------------------------------------------

Init ==
  /\ source \in Documents
  /\ program = <<>>
  /\ doc = source /\ written = source

\* The program grows by one mutation.  ApplyMutations stops at its first error.
AddMutation ==
  /\ Len(program) < MaxMutations
  /\ \E mut \in Mutations :
       /\ program' = Append(program, mut)
       /\ doc' = IF doc = Error THEN Error ELSE ApplyMutation(doc, mut)
       /\ written' = MutateCandidate(program', source)
  /\ UNCHANGED source

\* The bound on programs is used up.
Over == Len(program) = MaxMutations /\ UNCHANGED vars

Next == AddMutation \/ Over

Spec == Init /\ [][Next]_vars

--------------------------------------------------------------------------------

\* Kinds of mutations in a program.
Creates(mut) == ~HasWildcard(mut.path) /\ mut.kind # "remove"
SetsObject(mut) == mut.kind = "set" /\ IsObj(mut.value)
Updates(mut) == HasWildcard(mut.path) /\ mut.kind # "remove"

\* A removal that both engines take in the same sense: by a plain path,
\* ApplyMutations enters no arrays and the stream does.
Removes(mut) ==
  mut.kind = "remove" /\ (HasWildcard(mut.path) \/ \A s \in Range(mut.path) : Index(s) = 0)

All(prog, from, to, Is(_)) == \A i \in from..to : Is(prog[i])

\* Programs whose mutations do not undo each other: removals come before what
\* is created, or after what is updated.  No object is set: the stream fails
\* when it must change what it is reading from such a payload.
Separable(prog) == \E n \in 0..Len(prog) :
    /\ \A i \in DOMAIN prog : ~SetsObject(prog[i])
    /\ \/ All(prog, 1, n, Removes) /\ All(prog, n + 1, Len(prog), Creates)
       \/ All(prog, 1, n, Updates) /\ All(prog, n + 1, Len(prog), Removes)

\* The paths of the members of a document, through any element of an array.
RECURSIVE Members(_)
Members(v) ==
  LET Below(name, k) == {<<name>>} \cup {<<name>> \o rest : rest \in Members(Kids(v)[k])}
  IN  CASE DOMAIN v = {"none"} -> {}
        [] IsArr(v) -> UNION {Below("[]", i) : i \in DOMAIN v.arr}
        [] OTHER    -> UNION {Below(k, k) : k \in DOMAIN Kids(v)}

\* The stream writes what ApplyMutations makes of the candidate, or both fail,
\* for programs whose mutations do not undo each other.
Parity == Separable(program) => written = doc

\* The stream fails if and only if ApplyMutations does, also where the value that
\* an earlier mutation rejects would have been replaced by a later one.  Programs
\* that remove something or set an object are left out.
FailsTogether ==
  (\A i \in DOMAIN program : program[i].kind # "remove" /\ ~SetsObject(program[i])) =>
    (written = Error) = (doc = Error)

\* Wildcards and removals add no member, whatever the stream has to hold back or
\* to write in advance.
AddsNoMember ==
  (\A i \in DOMAIN program : ~Creates(program[i])) => Members(written) \subseteq Members(source)

\* What the last mutation removes is not in the output, wherever earlier ones
\* have set, created or updated it.
RemovedIsGone ==
  program # <<>> /\ Last(program).kind = "remove" /\ ~HasWildcard(Last(program).path) =>
    Last(program).path \notin Members(written)

================================================================================
