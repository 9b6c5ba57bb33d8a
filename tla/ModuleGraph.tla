---------------------------- MODULE ModuleGraph ----------------------------
(***************************************************************************)
(* The dependency graph of a module (internal/depman/graph): how Builder   *)
(* builds it from the gala.mod files, how DetectCycles and TopologicalSort *)
(* walk it.  Recursion is an explicit stack; a version is a number, since  *)
(* only the order of versions is used (Versions.tla has the order itself). *)
(***************************************************************************)
EXTENDS Naturals, Sequences, FiniteSets, Functions

CONSTANTS Modules,     \* the module paths, Root among them
          Root,
          MaxVersion,
          Manifests    \* the worlds: functions from keys to requirements

Keys == Modules \X (1 .. MaxVersion)
RootKey == <<Root, 0>>  \* the gala.mod of the project itself

\* The gala.mod of a version requires a sequence of keys; a version that has
\* none, or cannot be fetched, is a leaf and requires nothing.  No requirement
\* is marked as indirect.
ASSUME GraphAssumption ==
  /\ Root \in Modules /\ MaxVersion \in Nat
  /\ Manifests \subseteq [Keys \cup {RootKey} -> Seq(Keys)]

VARIABLES
  requires,  \* requires[k]: the requirements in the gala.mod of k
  phase,     \* "build", "detect", "sort", "done" or "cycle"
  version,   \* version[p]: the version of p's node, 0 without one
  direct,    \* the paths whose nodes are marked as direct
  children,  \* children[p]: the paths its edges lead to, in order
  visited,   \* Builder.visited: keys; in the sort: paths
  stack,     \* the calls under way: a path and what it has still to do
  done,      \* DetectCycles: the paths in state 2
  order,     \* the result of TopologicalSort
  cycle      \* the cycle DetectCycles reports

graphVars == <<requires, phase, version, direct, children, visited, stack, done, order, cycle>>

Frame(p, todo) == [path |-> p, todo |-> todo]
Top == stack[Len(stack)]
Pop == SubSeq(stack, 1, Len(stack) - 1)
Took == [stack EXCEPT ![Len(stack)].todo = Tail(@)]
OnStack == {stack[i].path : i \in DOMAIN stack}

GraphInit ==
  /\ requires \in Manifests
  /\ phase = "build"
  /\ version = [p \in Modules |-> 0]
  /\ direct = {} /\ visited = {} /\ done = {}
  /\ children = [p \in Modules |-> << >>]
  /\ stack = << Frame(Root, requires[RootKey]) >>
  /\ order = << >> /\ cycle = << >>

-----------------------------------------------------------------------------
\* Mutant: the last version met is kept.
ProcessRequireOverwriting ==
  /\ phase = "build" /\ stack # << >> /\ Top.todo # << >>
  /\ LET req == Head(Top.todo)
         p == req[1]
     IN  /\ children' = [children EXCEPT ![Top.path] = Append(@, p)]
         /\ IF req \in visited
              THEN stack' = Took /\ UNCHANGED <<visited, version, direct>>
              ELSE /\ visited' = visited \cup {req}
                   /\ version' = [version EXCEPT ![p] = req[2]]
                   /\ direct' = IF Top.path = Root THEN direct \cup {p} ELSE direct
                   /\ stack' = Append(Took, Frame(p, requires[req]))
  /\ UNCHANGED <<requires, phase, done, order, cycle>>
\* Mutant: no edge to what was visited.
ProcessRequireOnce ==
  /\ phase = "build" /\ stack # << >> /\ Top.todo # << >>
  /\ LET req == Head(Top.todo)
         p == req[1]
     IN  /\ children' = IF req \in visited THEN children
                       ELSE [children EXCEPT ![Top.path] = Append(@, p)]
         /\ IF req \in visited
              THEN stack' = Took /\ UNCHANGED <<visited, version, direct>>
              ELSE /\ visited' = visited \cup {req}
                   /\ version' = [version EXCEPT ![p] = IF req[2] > @ THEN req[2] ELSE @]
                   /\ direct' = IF Top.path = Root THEN direct \cup {p} ELSE direct
                   /\ stack' = Append(Took, Frame(p, requires[req]))
  /\ UNCHANGED <<requires, phase, done, order, cycle>>

\* processRequire on the next requirement of the innermost call.  A key that
\* was visited only gets an edge; AddNode keeps the greatest version and never
\* takes direct back; the call recurs into the requirements of this version.
ProcessRequire ==
  /\ phase = "build" /\ stack # << >> /\ Top.todo # << >>
  /\ LET req == Head(Top.todo)
         p == req[1]
     IN  /\ children' = [children EXCEPT ![Top.path] = Append(@, p)]
         /\ IF req \in visited
              THEN stack' = Took /\ UNCHANGED <<visited, version, direct>>
              ELSE /\ visited' = visited \cup {req}
                   /\ version' = [version EXCEPT ![p] = IF req[2] > @ THEN req[2] ELSE @]
                   /\ direct' = IF Top.path = Root THEN direct \cup {p} ELSE direct
                   /\ stack' = Append(Took, Frame(p, requires[req]))
  /\ UNCHANGED <<requires, phase, done, order, cycle>>

\* The requirements of a call are processed: it returns to its caller.
Return ==
  /\ phase = "build" /\ stack # << >> /\ Top.todo = << >>
  /\ stack' = Pop
  /\ UNCHANGED <<requires, phase, version, direct, children, visited, done, order, cycle>>

BuildEnds ==
  /\ phase = "build" /\ stack = << >>
  /\ phase' = "detect"
  /\ stack' = << Frame(Root, children[Root]) >>
  /\ UNCHANGED <<requires, version, direct, children, visited, done, order, cycle>>

-----------------------------------------------------------------------------
\* Mutant: a child on the path is skipped.
DetectTwoStates ==
  /\ phase = "detect" /\ stack # << >> /\ Top.todo # << >>
  /\ LET child == Head(Top.todo)
     IN  stack' = IF child \in done \cup OnStack THEN Took
                  ELSE Append(Took, Frame(child, children[child]))
  /\ UNCHANGED <<requires, phase, version, direct, children, visited, done, order, cycle>>
\* DetectCycles: a child in state 2 is skipped, a child on the path closes a
\* cycle, any other is visited.
Detect ==
  /\ phase = "detect" /\ stack # << >> /\ Top.todo # << >>
  /\ LET child == Head(Top.todo)
     IN  IF child \in OnStack
           THEN LET start == CHOOSE i \in DOMAIN stack : stack[i].path = child
                IN  /\ phase' = "cycle"
                    /\ cycle' = [i \in 1 .. (Len(stack) - start + 1) |->
                                   stack[start + i - 1].path] \o << child >>
                    /\ UNCHANGED stack
           ELSE /\ stack' = IF child \in done THEN Took
                            ELSE Append(Took, Frame(child, children[child]))
                /\ UNCHANGED <<phase, cycle>>
  /\ UNCHANGED <<requires, version, direct, children, visited, done, order>>

Leave ==
  /\ phase = "detect" /\ stack # << >> /\ Top.todo = << >>
  /\ done' = done \cup {Top.path}
  /\ stack' = Pop
  /\ UNCHANGED <<requires, phase, version, direct, children, visited, order, cycle>>

\* TopologicalSort goes on only when there is no cycle.
SortBegins ==
  /\ phase = "detect" /\ stack = << >>
  /\ phase' = "sort"
  /\ visited' = {Root}
  /\ stack' = << Frame(Root, children[Root]) >>
  /\ UNCHANGED <<requires, version, direct, children, done, order, cycle>>

SortVisits ==
  /\ phase = "sort" /\ stack # << >> /\ Top.todo # << >>
  /\ LET child == Head(Top.todo)
     IN  IF child \in visited
           THEN stack' = Took /\ UNCHANGED visited
           ELSE /\ visited' = visited \cup {child}
                /\ stack' = Append(Took, Frame(child, children[child]))
  /\ UNCHANGED <<requires, phase, version, direct, children, done, order, cycle>>

\* Mutant: the nodes in the opposite order.
SortPrepends ==
  /\ phase = "sort" /\ stack # << >> /\ Top.todo = << >>
  /\ order' = << Top.path >> \o order
  /\ stack' = Pop
  /\ UNCHANGED <<requires, phase, version, direct, children, visited, done, cycle>>
SortAppends ==
  /\ phase = "sort" /\ stack # << >> /\ Top.todo = << >>
  /\ order' = Append(order, Top.path)
  /\ stack' = Pop
  /\ UNCHANGED <<requires, phase, version, direct, children, visited, done, cycle>>

SortEnds ==
  /\ phase = "sort" /\ stack = << >>
  /\ phase' = "done"
  /\ UNCHANGED <<requires, version, direct, children, visited, stack, done, order, cycle>>

GraphNext == \/ ProcessRequire \/ Return \/ BuildEnds \/ Detect \/ Leave
        \/ SortBegins \/ SortVisits \/ SortAppends \/ SortEnds

GraphSpec == GraphInit /\ [][GraphNext]_graphVars

-----------------------------------------------------------------------------
(* Properties *)

Built == phase # "build"
Nodes == {Root} \cup {p \in Modules : version[p] > 0}

\* What the root's manifest requires, directly or through the manifests of the
\* versions required: the least set closed under requires.
Closed(keys) ==
  Range(requires[RootKey]) \subseteq keys /\ \A k \in keys : Range(requires[k]) \subseteq keys
RequiredKeys ==
  LET closed == {keys \in SUBSET Keys : Closed(keys)}
  IN  {k \in Keys : \A keys \in closed : k \in keys}

Frames(T) == [path : Modules, todo : Seq(T)]

GraphTypeOK ==
  /\ requires \in [Keys \cup {RootKey} -> Seq(Keys)]
  /\ phase \in {"build", "detect", "sort", "done", "cycle"}
  /\ version \in [Modules -> 0 .. MaxVersion]
  /\ direct \subseteq Modules /\ done \subseteq Modules
  /\ children \in [Modules -> Seq(Modules)]
  /\ visited \subseteq (IF phase = "sort" \/ phase = "done" THEN Modules ELSE Keys)
  /\ stack \in Seq(Frames(IF phase = "build" THEN Keys ELSE Modules))
  /\ order \in Seq(Modules) /\ cycle \in Seq(Modules)

\* The graph that is built has a node for exactly the paths that are required,
\* with the greatest version required of each, although
\* the requirements of every version met on the way were followed
\* (builder.go:51, types.go:49).
NodesHoldTheGreatest ==
  Built =>
    LET required == RequiredKeys IN
    \A p \in Modules :
      LET vs == {k[2] : k \in {l \in required : l[1] = p}}
      IN  IF vs = {} THEN version[p] = 0
          ELSE version[p] \in vs /\ \A v \in vs : v <= version[p]

\* Every requirement of every version met has its edge, and only those do, also
\* when the version had been visited before (builder.go:59-66); what is marked
\* as direct is something the root requires.
EdgesAreTheRequirements ==
  Built =>
    LET requiring == RequiredKeys \cup {RootKey} IN
    /\ direct \subseteq Range(children[Root])
    /\ \A p, q \in Modules :
        q \in Range(children[p]) <=>
          \E k \in requiring :
            k[1] = p /\ \E r \in Range(requires[k]) : r[1] = q

\* DetectCycles reports a cycle exactly when the nodes the root reaches have
\* one, and what it reports is a closed walk along the edges (cycle.go:19).
CycleVerdict ==
  LET Edge(p, q) == q \in Range(children[p])
      cyclic == \E ps \in (SUBSET Nodes) \ {{}} : \A p \in ps : \E q \in ps : Edge(p, q)
  IN  /\ phase = "cycle" =>
           /\ Len(cycle) > 1 /\ cycle[1] = cycle[Len(cycle)]
           /\ \A i \in 1 .. (Len(cycle) - 1) : Edge(cycle[i], cycle[i + 1])
      /\ phase \in {"sort", "done"} => ~cyclic

\* TopologicalSort lists every node once, after all its dependencies
\* (cycle.go:121).
DependenciesComeFirst ==
  phase = "done" =>
    /\ Range(order) = Nodes
    /\ \A i, j \in DOMAIN order : order[i] = order[j] => i = j
    /\ \A i \in DOMAIN order : \A q \in Range(children[order[i]]) :
         \E j \in 1 .. (i - 1) : order[j] = q

\* The nodes have the greatest versions, the edges are the requirements, and
\* cycles and the order of the nodes are what they should be (builder.go:51,
\* cycle.go:19).
GraphIsRight ==
  /\ GraphTypeOK /\ NodesHoldTheGreatest /\ EdgesAreTheRequirements
  /\ CycleVerdict /\ DependenciesComeFirst
=============================================================================
