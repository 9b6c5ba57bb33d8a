------------------------------ MODULE Captures ------------------------------
(***************************************************************************)
(* The check that a closure given to another goroutine captures nothing    *)
(* that may change under it (concurrency/capture.go,                       *)
(* transformer/concurrency_check.go and scope.go).                         *)
(*                                                                         *)
(* A world gives each name of the enclosing function its binding: its      *)
(* type, the declaration it comes from, whether its declared type is       *)
(* Sendable, and whether the enclosing function assigns to it.  Names that *)
(* are not in the world are functions and packages.                        *)
(***************************************************************************)
EXTENDS Shareable, TreeSemantics
LOCAL INSTANCE SequencesExt
LOCAL INSTANCE Functions

\* Over-approximation: a reference too many is harmless (capture.go:72).
captureOptions == [skipKeys |-> FALSE, skipTyped |-> FALSE, cleanOnly |-> FALSE,
                   functionScope |-> FALSE]

FreeVariables(closure) == Walk(closure, Start, captureOptions).refs
Captured(refs) == {r.name : r \in refs}
\* Every use of a captured name; one use as a value outweighs the paths.
UsesOf(refs, x) == {r.use : r \in {s \in refs : s.name = x}}

-----------------------------------------------------------------------------
(* The field a type has, with the type's arguments in place of its          *)
(* parameters.  There is none in a type without metadata.                   *)
FieldOf(t, f) ==
  IF ~IsStruct(t) THEN {}
  ELSE LET meta == Metadata[t.name]
       IN  {[val |-> field.val, type |-> substitute(field.type, buildSubst(meta.params, t.args))]
              : field \in {g \in Range(meta.fields) : g.name = f}}

\* The end of a path: its type, and whether every field on it is a val.
resolveFieldPath(t, path) ==
  FoldLeft(LAMBDA ends, f :
             UNION {{[field EXCEPT !.val = @ /\ end.val] : field \in FieldOf(end.type, f)}
                      : end \in ends},
           {[val |-> TRUE, type |-> t]}, path)

\* Mutant: the fields on the way are not looked at.
PathIsShareableAtItsEnd(t, path) ==
  LET ends == resolveFieldPath(t, path)
  IN  IF ends = {} THEN IsShareable(t) ELSE \A end \in ends : IsShareable(end.type)
\* A path that cannot be resolved is judged by the whole type.
PathIsShareable(t, path) ==
  LET ends == resolveFieldPath(t, path)
  IN  IF ends = {} THEN IsShareable(t) ELSE \A end \in ends : end.val /\ IsShareable(end.type)

checkCaptureShareable(t, uses) ==
  IF Whole \in uses THEN IsShareable(t) ELSE \A use \in uses : PathIsShareable(t, use.path)

\* Only the declaration of a var and a var parameter mark their name as mutable
\* (scope.go:160).
isMutableVar(binding) == binding.declared = "var"

checkSendableCaptures(world, refs) ==
  \A x \in Captured(refs) \cap DOMAIN world :
    /\ ~isMutableVar(world[x])
    /\ world[x].sendable \/ checkCaptureShareable(world[x].type, UsesOf(refs, x))

Accepts(world, closure) == checkSendableCaptures(world, FreeVariables(closure))

\* What the transformer lets the enclosing function assign to: names that are
\* not a val (transformAssignment).  Plain parameters, those of lambdas, and the
\* names bound by patterns, loops and uses are none, though the check takes them
\* for immutable (scope.go:15, statements.go:227).
Assignable(binding) == binding.declared # "val"
Reassigned(world) ==
  {x \in DOMAIN world : Assignable(world[x]) /\ world[x].assigned /\ ~isMutableVar(world[x])}

-----------------------------------------------------------------------------
(* Races.  A variable may change if the enclosing function assigns to it,   *)
(* a field if it is a var or of a Go type.  Selecting from a value that was *)
(* put into another one finds it again.  What is Sendable was checked where *)
(* it was written.                                                          *)

TypeOfField(t, f) ==
  IF FieldOf(t, f) = {} THEN t ELSE (CHOOSE field \in FieldOf(t, f) : TRUE).type
TypeAt(world, l) == FoldLeft(TypeOfField, world[l[1]].type, l[2])

ReachesWritable(world, l) ==
  ~world[l[1]].sendable /\ \E t \in ReachFrom({TypeAt(world, l)}) : Writable(t)

MayChange(world, l) ==
  IF l[2] = << >> THEN world[l[1]].assigned
  ELSE LET owner == TypeAt(world, << l[1], Front(l[2]) >>)
       IN  /\ ~world[l[1]].sendable
           /\ \/ \E field \in FieldOf(owner, Last(l[2])) : ~field.val
              \/ ~IsStruct(owner) /\ Writable(owner)

Outside(world, ls) == {l \in ls : l[1] \in DOMAIN world}
RacedReads(world, closure) ==
  {l \in Outside(world, RunClosure(closure).read) : MayChange(world, l)}
Leaks(world, closure) ==
  {l \in Outside(world, RunClosure(closure).used) : ReachesWritable(world, l)}

\* No closure is let through that reads what may change or hands it on, be it
\* through an alias, a pattern, a method or a nested function
\* (concurrency_check.go:174), but for the name itself of a plain parameter that
\* the enclosing function assigns to.
RacesAreRejected(world, closure) ==
  Accepts(world, closure) =>
    /\ RacedReads(world, closure) \subseteq {<<x, << >> >> : x \in Reassigned(world)}
    /\ Leaks(world, closure) = {}

\* The names captured are those a run looks up outside, and field names of
\* composite literals besides (capture.go:21-31).
CapturesAreLookUps(closure, keys) ==
  LET looked == RunClosure(closure).looked
  IN  looked \subseteq Captured(FreeVariables(closure))
        /\ Captured(FreeVariables(closure)) \subseteq looked \cup keys
=============================================================================
