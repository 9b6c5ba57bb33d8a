------------------------------ MODULE Resolver ------------------------------
(***************************************************************************)
(* Resolver.Resolve (internal/depman/version/resolver.go): minimal version *)
(* selection over constraints, with a queue of paths whose requirements    *)
(* have still to be looked at.  One step is one round of a loop.           *)
(***************************************************************************)
EXTENDS Versions

CONSTANTS Paths,       \* the module paths
          Available,   \* Available[p]: the versions of p, in any order
          Minimum,     \* Minimum[req]: what selectMinimum finds among the versions
                       \* available, << >> without one or when listing them fails
          Worlds       \* what versions require: see Requirement

\* A requirement is a path and a constraint; a world has the requirements of
\* the project, and of every version of every path.
Requirement(p, c) == [path |-> p, constraint |-> c]

\* What a version requires is asked for by its path and the version itself,
\* and what is selected for a requirement is a version of its path.
ASSUME ResolverAssumption ==
  /\ \A p \in Paths : Available[p] \in Seq(Version)
  /\ \A req \in DOMAIN Minimum :
       /\ req.path \in Paths
       /\ Minimum[req] = << >> \/ \E v \in Range(Available[req.path]) : Minimum[req] = << v >>
  /\ \A w \in Worlds :
       /\ w.direct \in Seq(DOMAIN Minimum)
       /\ \A p \in Paths : \A v \in Range(Available[p]) :
            <<p, v>> \in DOMAIN w.transitive
       /\ \A k \in DOMAIN w.transitive : w.transitive[k] \in Seq(DOMAIN Minimum)

VARIABLES
  world,      \* the requirements of this run
  initial,    \* the project's own requirements are being looked at
  todo,       \* the requirements the current loop has still to look at
  selected,   \* selected[p]: the version selected, << >> without one
  processed,  \* the paths whose requirements were looked at
  queue,
  errors,     \* the requirements reported as errors
  rounds      \* history: how often the requirements of a path were looked at

vars == <<world, initial, todo, selected, processed, queue, errors, rounds>>

Init ==
  /\ world \in Worlds
  /\ initial = TRUE /\ todo = world.direct
  /\ selected = [p \in Paths |-> << >>]
  /\ processed = {} /\ queue = << >> /\ errors = {}
  /\ rounds = [p \in Paths |-> 0]

Report ==
  /\ todo # << >> /\ Minimum[Head(todo)] = << >>
  /\ errors' = errors \cup {Head(todo)} /\ todo' = Tail(todo)
  /\ UNCHANGED <<world, initial, selected, processed, queue, rounds>>

\* Mutant: what was looked at is not looked at again.
SelectKeepingProcessed ==
  /\ todo # << >>
  /\ LET p == Head(todo).path
         least == Minimum[Head(todo)]
     IN    /\ least # << >>
           /\ IF selected[p] = << >> \/ GreaterThan(least[1], selected[p][1])
                THEN /\ selected' = [selected EXCEPT ![p] = least]
                     /\ UNCHANGED processed
                     /\ queue' = IF initial /\ selected[p] # << >>
                                   THEN queue ELSE Append(queue, p)
                ELSE UNCHANGED <<selected, processed, queue, rounds>>
  /\ todo' = Tail(todo)
  /\ UNCHANGED <<world, initial, errors, rounds>>
\* Mutant: the greatest version that satisfies it.
SelectGreatest ==
  /\ todo # << >>
  /\ LET p == Head(todo).path
         least == SelectBest(Head(todo).constraint, Available[p])
     IN    /\ least # << >>
           /\ IF selected[p] = << >> \/ GreaterThan(least[1], selected[p][1])
                THEN /\ selected' = [selected EXCEPT ![p] = least]
                     /\ processed' = processed \ {p}
                     /\ queue' = IF initial /\ selected[p] # << >>
                                   THEN queue ELSE Append(queue, p)
                ELSE UNCHANGED <<selected, processed, queue, rounds>>
  /\ todo' = Tail(todo)
  /\ UNCHANGED <<world, initial, errors, rounds>>
\* Mutant: the same version is selected again.
SelectAgain ==
  /\ todo # << >>
  /\ LET p == Head(todo).path
         least == Minimum[Head(todo)]
     IN    /\ least # << >>
           /\ IF selected[p] = << >> \/ ~LessThan(least[1], selected[p][1])
                THEN /\ selected' = [selected EXCEPT ![p] = least]
                     /\ processed' = processed \ {p}
                     /\ queue' = IF initial /\ selected[p] # << >>
                                   THEN queue ELSE Append(queue, p)
                ELSE UNCHANGED <<selected, processed, queue, rounds>>
  /\ todo' = Tail(todo)
  /\ UNCHANGED <<world, initial, errors, rounds>>

\* A first selection puts the path into the queue.  A higher one does so only
\* for a requirement of a module: a direct one finds the path there.
Select ==
  /\ todo # << >>
  /\ LET p == Head(todo).path
         least == Minimum[Head(todo)]
     IN    /\ least # << >>
           /\ IF selected[p] = << >> \/ GreaterThan(least[1], selected[p][1])
                THEN /\ selected' = [selected EXCEPT ![p] = least]
                     /\ processed' = processed \ {p}
                     /\ queue' = IF initial /\ selected[p] # << >>
                                   THEN queue ELSE Append(queue, p)
                ELSE UNCHANGED <<selected, processed, queue, rounds>>
  /\ todo' = Tail(todo)
  /\ UNCHANGED <<world, initial, errors, rounds>>

\* A path may be in the queue more than once.
Skip ==
  /\ todo = << >> /\ queue # << >>
  /\ Head(queue) \in processed
  /\ queue' = Tail(queue) /\ initial' = FALSE
  /\ UNCHANGED <<world, todo, selected, processed, errors, rounds>>

\* The path is marked before its requirements are looked at, so that one of
\* them may unmark it again.
Process ==
  /\ todo = << >> /\ queue # << >>
  /\ LET p == Head(queue)
     IN  /\ p \notin processed
         /\ processed' = processed \cup {p}
         /\ rounds' = [rounds EXCEPT ![p] = @ + 1]
         /\ todo' = world.transitive[<<p, selected[p][1]>>]
  /\ queue' = Tail(queue) /\ initial' = FALSE
  /\ UNCHANGED <<world, selected, errors>>

Next == Report \/ Select \/ Skip \/ Process

Spec == Init /\ [][Next]_vars

-----------------------------------------------------------------------------
(* Properties *)

Finished == todo = << >> /\ queue = << >>

TypeOK ==
  /\ initial \in BOOLEAN /\ todo \in Seq(DOMAIN Minimum)
  /\ DOMAIN selected = Paths
  /\ \A p \in Paths : selected[p] = << >> \/ \E v \in Range(Available[p]) : selected[p] = << v >>
  /\ processed \subseteq Paths /\ queue \in Seq(Paths) /\ errors \subseteq DOMAIN Minimum
  /\ rounds \in [Paths -> Nat]

Met(req) ==
  \/ req \in errors /\ Minimum[req] = << >>
  \/ /\ Minimum[req] # << >> /\ selected[req.path] # << >>
     /\ Compare(Minimum[req][1], selected[req.path][1]) <= 0

\* When it ends, whatever the project or a selected version requires either is
\* selected at no less than the least version that satisfies it, or was
\* reported (resolver.go:83-122).  The upper bound of a constraint is not kept:
\* another requirement may have raised the path above it.
EveryRequirementIsMet ==
  Finished =>
    /\ \A req \in Range(world.direct) : Met(req)
    /\ \A p \in Paths : selected[p] # << >> =>
         \A req \in Range(world.transitive[<<p, selected[p][1]>>]) : Met(req)

AllRequirements ==
  Range(world.direct) \cup UNION {Range(world.transitive[k]) : k \in DOMAIN world.transitive}

\* Nothing is selected that no requirement asks for: every selected version is
\* the least one for a requirement of the project or of some version.
EverySelectionIsAskedFor ==
  \A p \in Paths : selected[p] # << >> =>
    \E req \in AllRequirements : req.path = p /\ Minimum[req] = selected[p]

\* Resolution ends although requirements may be cyclic: the requirements of a
\* path are looked at once for each version it rises to (resolver.go:113).
ComesBackOnlyHigher ==
  \A p \in Paths : rounds[p] <= Len(Available[p])

\* What is required is selected or reported, what is selected is asked for, and
\* no path comes back without a higher version (resolver.go:83).
SelectionIsRight ==
  TypeOK /\ EveryRequirementIsMet /\ EverySelectionIsAskedFor /\ ComesBackOnlyHigher
=============================================================================
