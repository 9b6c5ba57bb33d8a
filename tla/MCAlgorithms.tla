---------------------------- MODULE MCAlgorithms ----------------------------
(***************************************************************************)
(* The algorithms of the dependency manager, and the loading of packages.  *)
(* Versions is looked at for small arguments; Resolver, ModuleGraph and    *)
(* PackageLoading run in small worlds.  The subject of a behaviour is      *)
(* chosen at the start; the variables of the others keep a constant value. *)
(***************************************************************************)
EXTENDS VersionCalls, Resolver, ModuleGraph, PackageLoading, TLC

VARIABLE subject

allVars == <<subject, argument, vars, graphVars, loadVars>>

-----------------------------------------------------------------------------
(* Versions: numbers up to 2 (1 in the first two places), five pre-releases. *)
Pres == {<< >>, <<[numeric |-> TRUE, key |-> 1]>>, <<[numeric |-> FALSE, key |-> 0]>>,
         <<[numeric |-> FALSE, key |-> 0], [numeric |-> TRUE, key |-> 0]>>,
         <<[numeric |-> FALSE, key |-> 0], [numeric |-> TRUE, key |-> 2]>>}
SmallVersions == {Parse(n, p) : n \in {<<0>>, <<0, 0, 1>>, <<0, 1>>, <<1>>, <<1, 1>>, <<2>>}, p \in Pres}
FewVersions == {v \in SmallVersions : v.pre \in {<< >>, <<[numeric |-> TRUE, key |-> 1]>>}
                                      /\ v.patch = 0 /\ v.major + v.minor < 2}
SomeParts == {Part(op, v) : op \in {"latest", "exact", ">=", ">", "<=", "<", "^", "~"},
                            v \in FewVersions}
SmallLists == UNION {[1 .. n -> FewVersions] : n \in 0 .. 3}
SmallConstraints == {<<c>> : c \in SomeParts} \cup
                    {<<Part(">=", u), Part("<", v)>> : u, v \in FewVersions}

-----------------------------------------------------------------------------
(* Resolver: a and b have the versions 1 to 3, c has two, d has none listed. *)
MCPaths == {"a", "b", "c", "d"}
V(n) == Release(n, 0, 0)
MCAvailable == [p \in MCPaths |->
                IF p \in {"a", "b"} THEN <<V(2), V(1), V(3)>> ELSE <<V(2), V(1)>>]
Req(p, op, n) == [path |-> p, constraint |-> << Part(op, V(n)) >>]
SmallRequirements == [path : MCPaths,
                 constraint : {<< Part(op, V(n)) >> : op \in {"latest", "exact", ">=", ">", "<", "^"},
                                                      n \in 1 .. 3}]
Least == [req \in SmallRequirements |->
              IF req.path = "d" THEN << >> ELSE selectMinimum(req.constraint, MCAvailable[req.path])]
FromA == {<< >>, << Req("b", "^", 3), Req("a", ">", 1) >>, << Req("b", "<", 3), Req("c", ">", 2) >>}
FromB == {<< >>, << Req("a", ">=", 2) >>, << Req("d", "latest", 1), Req("a", "exact", 3) >>,
          << Req("c", "exact", 1), Req("b", ">", 1) >>}
SmallWorlds ==
  {[direct |-> d,
    transitive |-> [k \in MCPaths \X {V(n) : n \in 1 .. 3} |->
                      IF k[1] = "a" THEN as[k[2].major]
                      ELSE IF k[1] = "b" THEN bs[k[2].major] ELSE << >>]]
     : d \in {<< Req("a", "^", 1) >>, << Req("a", ">=", 1), Req("b", ">", 1), Req("a", "^", 2) >>},
       as \in [1 .. 3 -> FromA], bs \in [1 .. 3 -> FromB]}

-----------------------------------------------------------------------------
(* ModuleGraph: two modules with two versions, which may require each other, *)
(* their own other version and the project itself.                           *)
GraphKeys == {"a", "b"} \X {1, 2}
SmallManifests ==
  {[k \in ({"root", "a", "b"} \X {1, 2}) \cup {<<"root", 0>>} |->
      IF k = <<"root", 0>> THEN top ELSE IF k[1] = "root" THEN << <<"b", 2>> >> ELSE below[k]]
     : below \in [GraphKeys -> {<< >>, << <<"a", 2>> >>, << <<"b", 1>> >>,
                                << <<"b", 2>>, <<"a", 1>> >>, << <<"root", 1>> >>}],
       top \in {<< <<"a", 1>> >>, << <<"a", 2>>, <<"b", 1>> >>, << <<"b", 1>>, <<"a", 1>> >>}}

-----------------------------------------------------------------------------
(* PackageLoading: the first version of a imports b, which may be missing.   *)
(* A file of that version of a may fail, and the whole of it.  The two        *)
(* processes are alike.  A start with b in place and a that does not import  *)
(* it is left out.                                                           *)
SmallImports ==
  [p \in {"a", "b"} |->
     IF p = "a" THEN [v \in {1, 2} |-> IF v = 1 THEN <<"b">> ELSE << >>]
     ELSE [v \in {0, 1} |-> << >>]]
SmallBroken ==
  [p \in {"a", "b"} |->
     [v \in DOMAIN SmallImports[p] |->
        CASE p = "a" /\ v = 1 -> {"file", "package"}
          [] p = "b" /\ v = 1 -> {"package"}
          [] OTHER -> {}]]
Alike == Permutations(Processes)
SmallRoots == {<<"a">>}

-----------------------------------------------------------------------------
\* The resolver before it starts, in one of its worlds.
OneWorld == CHOOSE w \in SmallWorlds : TRUE
NoResolver == /\ world = OneWorld /\ initial = TRUE /\ todo = OneWorld.direct
              /\ selected = [p \in Paths |-> << >>] /\ rounds = [p \in Paths |-> 0]
              /\ processed = {} /\ queue = << >> /\ errors = {}
\* The builder before it starts, in one of its worlds.
OneManifest == CHOOSE m \in SmallManifests : TRUE
NoGraph == /\ requires = OneManifest /\ phase = "build"
           /\ version = [p \in Modules |-> 0] /\ children = [p \in Modules |-> << >>]
           /\ direct = {} /\ visited = {} /\ done = {}
           /\ stack = << Frame(Root, OneManifest[RootKey]) >> /\ order = << >> /\ cycle = << >>
\* Packages that nobody loads.
OneSource == [p \in Packages |-> 1]
NoCache == LoadInit /\ source = OneSource

MCInit ==
  \/ subject = "versions" /\ CallInit /\ NoResolver /\ NoGraph /\ NoCache
  \/ subject = "resolver" /\ argument = NoCall /\ Init /\ NoGraph /\ NoCache
  \/ subject = "graph" /\ argument = NoCall /\ NoResolver /\ GraphInit /\ NoCache
  \/ /\ subject = "cache" /\ argument = NoCall /\ NoResolver /\ NoGraph /\ LoadInit
     /\ source["a"] = 1 \/ source["b"] = Missing

Resolve == subject = "resolver" /\ Next /\ UNCHANGED <<subject, argument, graphVars, loadVars>>
Walk == subject = "graph" /\ GraphNext /\ UNCHANGED <<subject, argument, vars, loadVars>>
Load == subject = "cache" /\ LoadNext /\ UNCHANGED <<subject, argument, vars, graphVars>>

MCNext == Resolve \/ Walk \/ Load
MCSpec == MCInit /\ [][MCNext]_allVars

=============================================================================
