---------------------------- MODULE ModuleLookup ----------------------------
(***************************************************************************)
(* Where an imported package is found (transpiler/module/resolver.go): the *)
(* module of the project, its replacements and requirements, the search    *)
(* paths and what lies below them are tried one after the other.  Whether  *)
(* the package is GALA's or Go's, what it is called in Go and whether it   *)
(* may be imported at all are decided apart from that, and must agree.     *)
(*                                                                         *)
(* A directory and an import path are sequences of names.                  *)
(***************************************************************************)
EXTENDS Naturals, Sequences, FiniteSets, SequencesExt

CONSTANTS
  Names,        \* Every name of a directory, in the order they are read in.
  Hosts,        \* The first names of a path that are a host of repositories.
  Skipped,      \* The directories that a search does not enter.
  GalaModule,   \* The module of the standard library.
  Cwd           \* The working directory.

None == << >>
Proper(prefix, path) == prefix # path /\ IsPrefix(prefix, path)
Rest(prefix, path) == SubSeq(path, Len(prefix) + 1, Len(path))
\* A path is a sequence without its host, or nothing.
stripVCSHost(path) == IF Len(path) > 1 /\ path[1] \in Hosts THEN Tail(path) ELSE None

\* Is it the path of the module, with or without the host?
matchesModuleName(path, name) ==
  /\ name # None
  /\ \/ path = name
     \/ stripVCSHost(name) = path /\ path # None
     \/ stripVCSHost(path) = name
\* The part below the module, with or without the host; nothing when it is outside.
StripModulePrefix(path, name) ==
  LET bare == stripVCSHost(name)
  IN IF name = None THEN None
     ELSE IF Proper(name, path) THEN Rest(name, path)
     ELSE IF bare # None /\ Proper(bare, path) THEN Rest(bare, path)
     ELSE IF Proper(name, stripVCSHost(path)) THEN Rest(name, stripVCSHost(path)) ELSE None
Within(path, name) == matchesModuleName(path, name) \/ StripModulePrefix(path, name) # None

-----------------------------------------------------------------------------
(* The directories that exist: whether GALA files are in it, and the modules *)
(* that a gala.mod and a go.mod in it name (at most one each).               *)

isValidPackageDir(fs, dir) == dir \in DOMAIN fs
hasGalaFiles(fs, dir) == isValidPackageDir(fs, dir) /\ fs[dir].gala
isGalaDir(fs, dir) == isValidPackageDir(fs, dir) /\ (fs[dir].galaMod # {} \/ fs[dir].gala)
The(set) == CHOOSE x \in set : TRUE
DeclaredModulePath(fs, dir) ==
  IF ~isValidPackageDir(fs, dir) \/ fs[dir].galaMod \cup fs[dir].goMod = {} THEN None
  ELSE The(IF fs[dir].galaMod # {} THEN fs[dir].galaMod ELSE fs[dir].goMod)

\* The directory itself and those above it, the nearest first.
Upwards(dir) == [i \in 1 .. Len(dir) |-> SubSeq(dir, 1, Len(dir) + 1 - i)]
FirstIn(seq, Test(_)) == IF \E i \in DOMAIN seq : Test(seq[i]) THEN SelectSeq(seq, Test)[1] ELSE None
findGalaModFromDir(fs, dir) == FirstIn(Upwards(dir), LAMBDA d : isValidPackageDir(fs, d) /\ fs[d].galaMod # {})
FindModuleRoot(fs, dir) == FirstIn(Upwards(dir), LAMBDA d : isValidPackageDir(fs, d) /\ fs[d].goMod # {})
\* A module: its directory and its name.
Module(dir, name) == [dir |-> dir, name |-> name]
findModuleRootForSearchPath(fs, sp) ==
  LET gala == findGalaModFromDir(fs, sp)
      go == FindModuleRoot(fs, sp)
  IN IF gala # None THEN Module(gala, The(fs[gala].galaMod))
     ELSE IF go # None THEN Module(go, The(fs[go].goMod)) ELSE Module(None, None)

\* The resolver: its module, and the requirements and replacements of its gala.mod.
NewResolver(fs, searchPaths, manifest) ==
  LET from == Append(searchPaths, Cwd)
      gala == FirstIn([i \in DOMAIN from |-> findGalaModFromDir(fs, from[i])], LAMBDA d : d # None)
      go == FirstIn([i \in DOMAIN from |-> FindModuleRoot(fs, from[i])], LAMBDA d : d # None)
      without == [require |-> << >>, replace |-> << >>, searchPaths |-> searchPaths]
  IN IF gala # None THEN Module(gala, The(fs[gala].galaMod)) @@ manifest @@ without
     ELSE Module(go, IF go = None THEN None ELSE The(fs[go].goMod)) @@ without

-----------------------------------------------------------------------------
(* Replacements: a module by a directory, or by another module.              *)

\* A module is looked for as if it were a directory.
applyReplace(r, path) ==
  LET rep == FirstIn(r.replace, LAMBDA e : e.old = path \/ (~e.versioned /\ Proper(e.old, path)))
  IN IF rep = None THEN None
     ELSE (IF rep.local THEN rep.new ELSE Cwd \o rep.new) \o Rest(rep.old, path)

\* A requirement: its path, the directory of the cache when it is there, and
\* whether it is said to be Go.
subpackageDirForCachedModule(fs, base, path) ==
  LET rel == IF fs[base].galaMod = {} THEN None ELSE StripModulePrefix(path, The(fs[base].galaMod))
  IN IF rel # None /\ isValidPackageDir(fs, base \o rel) THEN base \o rel ELSE base
resolveFromCache(r, fs, path) ==
  LET serves(req) == \/ req.path = path
                     \/ /\ Proper(req.path, path) /\ req.cached # None
                        /\ isValidPackageDir(fs, req.cached \o Rest(req.path, path))
      req == FirstIn(r.require, serves)
  IN CASE req = None -> None
       [] req # None /\ req.path # path -> req.cached \o Rest(req.path, path)
       [] OTHER -> IF req.cached = None THEN None ELSE subpackageDirForCachedModule(fs, req.cached, path)
isGalaPackageInCache(fs, req) == req.cached # None /\ isGalaDir(fs, req.cached)

-----------------------------------------------------------------------------
(* The search below a directory.                                             *)

Rank(name) == CHOOSE i \in DOMAIN Names : Names[i] = name
\* A directory comes before what is in it, and entries in the order of their names.
Precedes(d, e) ==
  LET differ == {i \in DOMAIN d \cap DOMAIN e : d[i] # e[i]}
      first == CHOOSE i \in differ : \A j \in differ : i <= j
  IN IF differ = {} THEN Len(d) <= Len(e) ELSE Rank(d[first]) < Rank(e[first])
FirstOf(dirs) == IF dirs = {} THEN None ELSE CHOOSE d \in dirs : \A e \in dirs : Precedes(d, e)
findPackageDirByPathSuffix(fs, root, suffix) ==
  FirstOf({d \in DOMAIN fs : /\ Proper(root, d) /\ IsSuffix(suffix, d) /\ hasGalaFiles(fs, d)
                             /\ ToSet(Rest(root, d)) \cap Skipped = {}})
\* The longest suffix; the last name alone is not enough for a longer path.
findPackageDirByLongestSuffix(fs, root, path) ==
  LET stop == IF Len(path) > 1 THEN Len(path) - 1 ELSE Len(path)
  IN FirstIn([i \in 1 .. stop |-> findPackageDirByPathSuffix(fs, root, SubSeq(path, i, Len(path)))],
             LAMBDA d : d # None)
findChildDeclaringModule(fs, root, path) ==
  FirstOf({d \in DOMAIN fs : Proper(root, d) /\ Len(d) = Len(root) + 1 /\ DeclaredModulePath(fs, d) = path})

-----------------------------------------------------------------------------
(* The strategies.                                                           *)

Existing(fs, dir) == IF isValidPackageDir(fs, dir) THEN dir ELSE None
InModule(fs, m, path) ==
  LET rel == StripModulePrefix(path, m.name)
  IN IF rel # None /\ isValidPackageDir(fs, m.dir \o rel) THEN m.dir \o rel
     ELSE IF matchesModuleName(path, m.name) THEN Existing(fs, m.dir) ELSE None
\* Of a module of a search path, the module itself is tried first.
InSearched(r, fs, m, path) == IF m.name = None \/ m.dir = r.dir THEN None ELSE InModule(fs, m, path)
Replaced(r, fs, path) == Existing(fs, applyReplace(r, path))
OwnModule(r, fs, path) == IF r.dir = None THEN None ELSE InModule(fs, r, path)
SimpleName(r, fs, path) == IF r.dir # None /\ Len(path) = 1 THEN Existing(fs, r.dir \o path) ELSE None
Joined(r, fs, path) == FirstIn([i \in DOMAIN r.searchPaths |-> Existing(fs, r.searchPaths[i] \o path)], LAMBDA d : d # None)
SearchedModule(r, fs, path) ==
  FirstIn([i \in DOMAIN r.searchPaths |-> InSearched(r, fs, findModuleRootForSearchPath(fs, r.searchPaths[i]), path)],
          LAMBDA d : d # None)
CollectedModule(r, fs, path) ==
  FirstIn([i \in DOMAIN r.searchPaths |-> findChildDeclaringModule(fs, r.searchPaths[i], path)], LAMBDA d : d # None)
BySuffix(r, fs, path) ==
  LET rel == StripModulePrefix(path, r.name)
      roots == (IF r.dir = None THEN << >> ELSE <<r.dir>>) \o r.searchPaths
  IN FirstIn([i \in DOMAIN roots |-> findPackageDirByLongestSuffix(fs, roots[i], IF rel # None THEN rel ELSE path)],
             LAMBDA d : d # None)
\* Mutant: what has the name is looked for before the modules of that name.
ResolvesBySuffixFirst(r, fs, path) ==
  FirstIn(<<Replaced(r, fs, path), BySuffix(r, fs, path), OwnModule(r, fs, path)>>, LAMBDA d : d # None)
ResolvePackagePath(r, fs, path) ==
  FirstIn(<<Replaced(r, fs, path), OwnModule(r, fs, path), SimpleName(r, fs, path), resolveFromCache(r, fs, path),
            Joined(r, fs, path), SearchedModule(r, fs, path), CollectedModule(r, fs, path), BySuffix(r, fs, path)>>,
          LAMBDA d : d # None)

\* Is it a package of GALA?  A requirement that is not in the cache is not the last word.
IsGalaPackage(r, fs, path) ==
  LET replaced == applyReplace(r, path)
      req == FirstIn(r.require, LAMBDA q : Within(path, q.path))
      modules == [i \in DOMAIN r.searchPaths |-> findModuleRootForSearchPath(fs, r.searchPaths[i])]
      m == FirstIn(modules, LAMBDA n : n.name \notin {None, r.name} /\ Within(path, n.name))
  IN CASE Within(path, r.name) -> TRUE
       [] ~Within(path, r.name) /\ replaced # None -> isGalaDir(fs, replaced)
       [] OTHER -> IF req # None /\ (req.go \/ isGalaPackageInCache(fs, req)) THEN ~req.go
                   ELSE m # None /\ isValidPackageDir(fs, m.dir \o (IF matchesModuleName(path, m.name) THEN None
                                                                    ELSE StripModulePrefix(path, m.name)))
\* The path of a package in Go, when it is another than in GALA.
ResolveGoImportPath(r, fs, path) ==
  LET inGo(m) == IF matchesModuleName(path, m.name) THEN m.name
                 ELSE IF StripModulePrefix(path, m.name) # None THEN m.name \o StripModulePrefix(path, m.name)
                 ELSE None
      modules == [i \in DOMAIN r.searchPaths |-> findModuleRootForSearchPath(fs, r.searchPaths[i])]
      others == SelectSeq(modules, LAMBDA m : m.name # None /\ m.dir # r.dir)
  IN FirstIn([i \in DOMAIN others |-> inGo(others[i])], LAMBDA p : p \notin {None, path})

-----------------------------------------------------------------------------
(* Internal packages.                                                        *)

LastInternal(path) == LET is == {i \in DOMAIN path : path[i] = "internal"}
                      IN IF is = {} THEN 0 ELSE CHOOSE i \in is : \A j \in is : j <= i
AllowsInternalImport(importer, path) ==
  LET i == LastInternal(path)
  IN i <= 1 \/ importer = None \/ IsPrefix(SubSeq(path, 1, i - 1), importer)
DirContainsInternalViolation(importer, dir) ==
  LET i == LastInternal(dir) IN i > 1 /\ ~IsPrefix(SubSeq(dir, 1, i - 1), importer)
PackageImportPath(r, dir) ==
  IF r.name = None \/ r.dir = None \/ ~IsPrefix(r.dir, dir) THEN None ELSE r.name \o Rest(r.dir, dir)
\* Mutant: the path alone decides.
checkByPath(r, fs, dir, path) == ~AllowsInternalImport(PackageImportPath(r, dir), path)
\* Is the import refused?
checkInternalImport(r, fs, dir, path) ==
  LET found == ResolvePackagePath(r, fs, path)
  IN /\ ~AllowsInternalImport(PackageImportPath(r, dir), path)
     /\ found # None /\ DirContainsInternalViolation(dir, found)

\* Packages of the standard library are looked up without its module.
LookedUp(path) == IF Proper(GalaModule, path) THEN Rest(GalaModule, path) ELSE path
IsGala(r, fs, path) == Proper(GalaModule, path) \/ IsGalaPackage(r, fs, path)

-----------------------------------------------------------------------------------------------------------------------------------------------------
(* What an import means.                                                     *)

\* The path of a directory: below the nearest that has a module file.
PathOf(fs, dir) ==
  LET home == FirstIn(Upwards(dir), LAMBDA d : DeclaredModulePath(fs, d) # None)
  IN IF home = None THEN None ELSE DeclaredModulePath(fs, home) \o Rest(home, dir)
Same(path, other) == \/ path = other
                     \/ other # None /\ stripVCSHost(path) = other
                     \/ path # None /\ stripVCSHost(other) = path
\* The directories in which a package may be looked for.  A requirement serves its
\* own path, with the host, and a collection the whole path of a module in it.
Visible(r, fs, dir, path) ==
  \/ r.dir # None /\ IsPrefix(r.dir, dir)
  \/ \E i \in DOMAIN r.searchPaths :
       \/ LET m == findModuleRootForSearchPath(fs, r.searchPaths[i]) IN m.dir # None /\ IsPrefix(m.dir, dir)
       \/ Proper(r.searchPaths[i], dir) /\ Len(dir) = Len(r.searchPaths[i]) + 1 /\ DeclaredModulePath(fs, dir) = path
  \/ \E i \in DOMAIN r.require : r.require[i].cached # None /\ IsPrefix(r.require[i].cached, dir)
                             /\ IsPrefix(r.require[i].path, path)
\* The packages of GALA that the path may mean.
Owners(r, fs, path) == {d \in DOMAIN fs : fs[d].gala /\ Same(PathOf(fs, d), path) /\ Visible(r, fs, d, path)}
Found(r, fs, path) == ResolvePackagePath(r, fs, LookedUp(path))
\* A directory that has the path for its own, below the project or a search path.
HasNamesake(r, fs, path, owners) ==
  ~({SimpleName(r, fs, LookedUp(path)), Joined(r, fs, LookedUp(path))} \subseteq owners \cup {None})
IsMeant(r, fs, path, owners) == owners # {} /\ ~HasNamesake(r, fs, path, owners)

-----------------------------------------------------------------------------
(* Properties.                                                               *)

\* A package that can be seen is found, in a directory whose module gives it that
\* path, unless it is replaced (resolver.go:299).
FoundIsMeant(r, fs, path, owners) ==
  IsMeant(r, fs, path, owners) =>
    IF Replaced(r, fs, path) # None THEN Found(r, fs, path) = Replaced(r, fs, path)
    ELSE Found(r, fs, path) \in owners

SaidToBeGo(r, path) == \E i \in DOMAIN r.require : r.require[i].go /\ Within(path, r.require[i].path)
\* A replacement stands in for another module, and its directory exists.
Usable(r, fs, path) == applyReplace(r, path) = None \/ (Replaced(r, fs, path) # None /\ ~Within(path, r.name))
\* A package is said to be GALA's exactly when what is found for it is: two walks
\* over modules, requirements and replacements agree (resolver.go:606).
ClassedAsFound(r, fs, path, owners) ==
  IsMeant(r, fs, path, owners) /\ ~SaidToBeGo(r, path) /\ Usable(r, fs, path)
    /\ (Proper(GalaModule, path) \/ CollectedModule(r, fs, path) = None)
  => (IsGala(r, fs, path) <=> isGalaDir(fs, Found(r, fs, path)))
\* The name in Go is the one that the module of the package gives it (resolver.go:570).
NamedInGo(r, fs, path, owners) ==
  LET go == ResolveGoImportPath(r, fs, path)
  IN go # None => \A d \in owners : owners = {d} => go = PathOf(fs, d)
\* An internal package is refused exactly to those outside the parent of "internal",
\* whichever spelling it is imported by and wherever it is found (analyzer.go:51).
PrivateStays(r, fs, dir, path, found) ==
  found # None => (checkInternalImport(r, fs, dir, path)
                     <=> PackageImportPath(r, dir) # None /\ ~AllowsInternalImport(PathOf(fs, dir), PathOf(fs, found)))
ImportIsRight(r, fs, dirs, path, owners) ==
  /\ FoundIsMeant(r, fs, path, owners) /\ ClassedAsFound(r, fs, path, owners) /\ NamedInGo(r, fs, path, owners)
  /\ owners # {} => \A dir \in dirs \cap DOMAIN fs : PrivateStays(r, fs, dir, path, ResolvePackagePath(r, fs, path))
ImportsAreFound(r, fs, dirs, paths) == \A path \in paths : ImportIsRight(r, fs, dirs, path, Owners(r, fs, path))
=============================================================================
