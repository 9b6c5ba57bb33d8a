----------------------------- MODULE FileImports -----------------------------
(***************************************************************************)
(* The imports of a generated file (transformer/imports.go, transformer.go,*)
(* types.go, utils.go): which packages a GALA file may name, how each name *)
(* of a package is written in Go, and which imports the Go file gets: its  *)
(* own and those that the lowering needs, without the ones nothing uses.   *)
(***************************************************************************)
EXTENDS Naturals, Sequences, FiniteSets, SequencesExt

CONSTANTS
  Packages,     \* Path to [name, base, gala, go, types, functions, others].
  Std, Collection, Fmt, Utf8, Embed    \* Paths that the lowering itself needs.

\* An import: a path with an alias, "" for none, or with a dot.
Import(path, alias, dot) == [path |-> path, alias |-> alias, dot |-> dot]
NameOf(path) == Packages[path].name
\* A symbol of a package, and what it is called in Go.
Symbol(package, name) == [package |-> package, name |-> name]
Bare(name, means) == [kind |-> "bare", of |-> "", name |-> name, means |-> means]
Selector(of, name, means) == [kind |-> "selector", of |-> of, name |-> name, means |-> means]

-----------------------------------------------------------------------------
(* The import manager: entries in order, by alias and by name.               *)

NewImportManager ==
  [entries |-> << >>, byAlias |-> << >>, byName |-> << >>, used |-> {}, transitive |-> << >>, needs |-> {}]
Has(m, path) == \E i \in DOMAIN m.entries : m.entries[i].path = path
GetByPath(m, path) == SelectSeq(m.entries, LAMBDA e : e.path = path)[1]
Without(f, key, path) == [k \in DOMAIN f \ (IF key \in DOMAIN f /\ f[key] = path THEN {key} ELSE {}) |-> f[k]]
removeEntry(m, path) ==
  LET e == GetByPath(m, path)
  IN IF ~Has(m, path) THEN m
     ELSE [m EXCEPT !.entries = SelectSeq(@, LAMBDA d : d.path # path),
                    !.byAlias = Without(@, e.alias, path), !.byName = Without(@, e.name, path)]
Entered(m, path, name, alias, dot) ==
  [m EXCEPT !.entries = Append(@, [path |-> path, name |-> name, alias |-> alias, dot |-> dot]),
            !.byName = (name :> path) @@ @, !.byAlias = IF dot THEN @ ELSE (alias :> path) @@ @]
\* A package that is not known is taken to be called as its directory.
Add(m, path, alias, dot, actual) ==
  LET name == IF actual = "" THEN Packages[path].base ELSE actual
  IN Entered(removeEntry(m, path), path, name, IF alias = "" THEN name ELSE alias, dot)
AddFromPackages(m, loaded) ==
  FoldLeft(LAMBDA n, path : IF Has(n, path) THEN n ELSE Add(n, path, NameOf(path), FALSE, NameOf(path)), m, loaded)
DotImports(m) == {m.entries[i].name : i \in {j \in DOMAIN m.entries : m.entries[j].dot}}
IsDotImported(m, name) == name \in DotImports(m)
\* The alias of a package, and the path of an alias or a package.
GetAlias(m, name) == IF name \in DOMAIN m.byName THEN GetByPath(m, m.byName[name]).alias ELSE ""
GetPath(m, name) ==
  LET recorded == {path \in DOMAIN m.transitive : m.transitive[path] = name}
  IN IF name \in DOMAIN m.byAlias THEN m.byAlias[name]
     ELSE IF name \in DOMAIN m.byName THEN m.byName[name]
     ELSE IF recorded # {} THEN CHOOSE path \in recorded : TRUE ELSE ""
MarkDotImportUsed(m, name) == [m EXCEPT !.used = @ \cup {name}]
AddTransitive(m, path, alias) == IF path = "" THEN m ELSE [m EXCEPT !.transitive = (path :> alias) @@ @]
Needs(m, path) == [m EXCEPT !.needs = @ \cup {path}]

\* A file: its package, what it declares, its imports, the GALA packages that were
\* loaded for it, in the order they are read, and what is used in it.
Loaded(file, path) == \E i \in DOMAIN file.loaded : file.loaded[i] = path
Actual(file, path) == IF Loaded(file, path) THEN NameOf(path) ELSE ""
transformImportDeclaration(file, m, import) == Add(m, import.path, import.alias, import.dot, Actual(file, import.path))
Imported(file) ==
  FoldLeft(LAMBDA m, import : transformImportDeclaration(file, m, import),
           AddFromPackages(NewImportManager, file.loaded), file.imports)
\* What a package of that name is known to export, its vals and vars not included.
Exports(file, name) ==
  UNION {Packages[path].types \cup Packages[path].functions :
           path \in {p \in ToSet(file.loaded) : NameOf(p) = name}}
ValidateDotImports(file, m) ==
  \E p, q \in DotImports(m) : p # q /\ Exports(file, p) \cap Exports(file, q) # {}

-----------------------------------------------------------------------------
(* How a name is written.  Each returns the manager and the name.            *)

Written(m, ident) == [m |-> m, ident |-> ident]
Own(name) == Symbol("", name)
stdIdent(file, m, name, means) ==
  IF file.package = NameOf(Std) \/ IsDotImported(m, NameOf(Std)) THEN Written(m, Bare(name, means))
  ELSE Written(Needs(m, Std), Selector(NameOf(Std), name, means))

\* Resolution of a bare name among those that are known, by the name of a package.
Known(file, name, kind) ==
  {NameOf(path) : path \in {p \in ToSet(file.loaded) : name \in Packages[p][kind]}}
     \cup (IF name \in file.own[kind] THEN {file.package} ELSE {})
Resolve(file, m, name, kind) ==
  LET known == Known(file, name, kind)
      names(dot) == [i \in DOMAIN m.entries |-> IF m.entries[i].dot = dot THEN m.entries[i].name ELSE ""]
      order == (IF file.package = "main" THEN <<"main">> ELSE << >>)
                 \o <<NameOf(Std), file.package>> \o names(TRUE) \o names(FALSE)
      found == SelectSeq(order, LAMBDA n : n \in known)
  IN IF found = << >> THEN "" ELSE found[1]

\* Mutant: no import is recorded.
QualifiedOnly(m, package, path, name, means) ==
  LET alias == IF GetAlias(m, package) = "" THEN package ELSE GetAlias(m, package)
  IN IF IsDotImported(m, package) THEN Written(MarkDotImportUsed(m, package), Bare(name, means))
     ELSE Written(m, Selector(alias, name, means))
\* A name of another package, whose import is recorded unless it is there.
Qualified(m, package, path, name, means) ==
  LET alias == IF GetAlias(m, package) = "" THEN package ELSE GetAlias(m, package)
  IN IF IsDotImported(m, package) THEN Written(MarkDotImportUsed(m, package), Bare(name, means))
     ELSE Written(AddTransitive(m, path, alias), Selector(alias, name, means))
Foreign(m, package, name, means) == Qualified(m, package, GetPath(m, package), name, means)
transformName(file, m, name, kind, means) ==
  LET package == Resolve(file, m, name, kind)
  IN CASE package = NameOf(Std) -> stdIdent(file, m, name, means)
       [] package \in {"", file.package} -> Written(m, Bare(name, means))
       [] OTHER -> Foreign(m, package, name, means)
transformType(file, m, name, means) == transformName(file, m, name, "types", means)
\* A type that is called from an expression comes before a function.
transformPrimary(file, m, name, means) ==
  IF name \in Packages[Std].types /\ Loaded(file, Std) THEN stdIdent(file, m, name, means)
  ELSE transformName(file, m, name, "functions", means)
\* A type that was inferred; a type of GALA does not know its path.
typeToExpr(file, m, path, name, means) ==
  LET package == NameOf(path)
      known == GetPath(m, package)
  IN CASE path = Std -> stdIdent(file, m, name, means)
       [] path # Std /\ package = file.package /\ Packages[path].gala /\ ~IsDotImported(m, package) -> Written(m, Bare(name, means))
       [] OTHER -> Qualified(m, package, IF known = "" /\ ~Packages[path].gala THEN path ELSE known, name, means)
\* The function that a generic method becomes: no import is recorded for it.
ident(file, m, package, name, means) ==
  CASE package = NameOf(Std) -> stdIdent(file, m, name, means)
    [] package = file.package -> Written(m, Bare(name, means))
    [] OTHER -> Qualified(m, package, "", name, means)
collectionIdent(m, name, means) ==
  IF IsDotImported(m, NameOf(Collection)) THEN Written(MarkDotImportUsed(m, NameOf(Collection)), Bare(name, means))
  ELSE Written(AddTransitive(m, Collection, NameOf(Collection)), Selector(NameOf(Collection), name, means))

\* A use: of a type or a value by its bare name, of a selector as it is written, of a
\* type that was inferred, of a method of it, and of what the lowering needs: the
\* text of an embedded file needs its import only.
Use(kind, of, name) == [kind |-> kind, of |-> of, name |-> name]
transformUse(file, m, use, means) ==
  CASE use.kind = "type" -> transformType(file, m, use.name, means)
    [] use.kind = "value" -> transformPrimary(file, m, use.name, means)
    [] use.kind = "selector" -> Written(m, Selector(use.of, use.name, means))
    [] use.kind = "text" -> Written(Needs(m, use.of), Bare(use.name, means))
    [] use.kind = "inferred" -> typeToExpr(file, m, use.of, use.name, means)
    [] use.kind = "method" -> ident(file, m, NameOf(use.of), use.name, means)
    [] use.kind = "needed" ->
         IF use.of = Collection THEN collectionIdent(m, use.name, means)
         ELSE IF use.of = Std THEN stdIdent(file, m, use.name, means)
         ELSE Written(Needs(m, use.of), Selector(NameOf(use.of), use.name, means))

-----------------------------------------------------------------------------
(* The imports of the Go file.                                               *)

Spec(path, name) == [path |-> path, name |-> name]
SpecOf(import) == Spec(Packages[import.path].go, IF import.dot THEN "." ELSE import.alias)
\* The standard library is imported unless it was with a dot; fmt and utf8 unless they were at all.
Added(file, m) ==
  (IF Std \in m.needs /\ file.package # NameOf(Std) /\ ~IsDotImported(m, NameOf(Std)) THEN <<Spec(Packages[Std].go, "")>> ELSE << >>)
    \o (IF Fmt \in m.needs /\ ~Has(m, Fmt) THEN <<Spec(Fmt, "")>> ELSE << >>)
    \o (IF Utf8 \in m.needs /\ ~Has(m, Utf8) THEN <<Spec(Utf8, "")>> ELSE << >>)
AddTransitiveImportsToFile(m, specs) ==
  LET missing == {path \in DOMAIN m.transitive :
                    \A i \in DOMAIN specs : specs[i].path # path /\ specs[i].name # m.transitive[path]}
  IN specs \o [i \in 1 .. Cardinality(missing) |-> Spec(SetToSeq(missing)[i], "")]
\* An import of embed by the file itself is enough.
WithEmbed(file, m, specs) ==
  IF Embed \notin m.needs \/ \E i \in DOMAIN specs : specs[i].path = Embed THEN specs
  ELSE <<Spec(Embed, IF \E i \in DOMAIN file.body : file.body[i] = Use("needed", Embed, "FS") THEN "" ELSE "_")>> \o specs
\* The entry is looked up by the path in Go; a package without one is called as its directory.
PkgName(m, path) ==
  IF Has(m, path) THEN GetByPath(m, path).name
  ELSE Packages[CHOOSE p \in DOMAIN Packages : Packages[p].go = path].base
NamesIn(file, idents) ==
  UNION {IF i.kind = "bare" THEN {i.name} ELSE {i.of, i.name} : i \in idents} \cup file.own.types \cup file.own.functions
dotImportUsedInAST(file, name, idents) ==
  Exports(file, name) = {} \/ Exports(file, name) \cap NamesIn(file, idents) # {}
Keeps(file, m, spec, idents) ==
  LET name == PkgName(m, spec.path)
  IN CASE spec.name = "_" -> TRUE
       [] spec.name = "." -> name = NameOf(Std) \/ name \in m.used \/ dotImportUsedInAST(file, name, idents)
       [] OTHER -> (IF spec.name = "" THEN name ELSE spec.name) \in {i.of : i \in idents}
\* Mutant: no import is dropped.
PrunesNothing(file, m, specs, idents) == specs
PruneUnused(file, m, specs, idents) == SelectSeq(specs, LAMBDA s : Keeps(file, m, s, idents))
\* What is used, with what each use means, is written one after the other.
Transformed(file, m, meanings) ==
  LET one(s, i) == LET w == transformUse(file, s.m, file.body[i], meanings[i])
                   IN [m |-> w.m, idents |-> s.idents \cup {w.ident}]
  IN FoldLeft(one, [m |-> m, idents |-> {}], [i \in DOMAIN file.body |-> i])
GoFile(file, s) ==
  LET own == [i \in DOMAIN file.imports |-> SpecOf(file.imports[i])]
  IN [idents |-> s.idents,
      specs |-> PruneUnused(file, s.m, WithEmbed(file, s.m, AddTransitiveImportsToFile(s.m, Added(file, s.m) \o own)), s.idents)]
Transform(file, meanings) == GoFile(file, Transformed(file, Imported(file), meanings))
LocalName(import) == IF import.dot THEN "." ELSE IF import.alias = "" THEN NameOf(import.path) ELSE import.alias
checkDuplicateImports(file) ==
  \E i, j \in DOMAIN file.imports :
     i < j /\ file.imports[i].path = file.imports[j].path /\ LocalName(file.imports[i]) = LocalName(file.imports[j])
Refused(file) == checkDuplicateImports(file) \/ ValidateDotImports(file, Imported(file))

-----------------------------------------------------------------------------
(* What the names mean: in GALA, by the imports of the source; in Go, by the *)
(* imports of the Go file.                                                   *)

ExportsOf(path) == Packages[path].types \cup Packages[path].functions \cup Packages[path].others
\* What the source means by a use.  A bare name of the file's package, of the standard
\* library or of a dot import comes before one of a package that is only loaded.
Near(file, name) ==
  (IF name \in file.own.types \cup file.own.functions THEN {Own(name)} ELSE {})
    \cup {Symbol(path, name) : path \in {p \in {Std} \cup {i.path : i \in {j \in ToSet(file.imports) : j.dot}} :
                                            name \in ExportsOf(p)}}
Far(file, name) == {Symbol(p, name) : p \in {q \in ToSet(file.loaded) : name \in Packages[q].types \cup Packages[q].functions}}
Meanings(file, use) ==
  CASE use.kind \in {"type", "value"} -> IF Near(file, use.name) # {} THEN Near(file, use.name) ELSE Far(file, use.name)
    [] use.kind = "selector" ->
         {Symbol(i.path, use.name) : i \in {j \in ToSet(file.imports) :
            ~j.dot /\ LocalName(j) = use.of /\ use.name \in ExportsOf(j.path)}}
    [] OTHER -> {Symbol(use.of, use.name)}

InGo(path) == {p \in DOMAIN Packages : Packages[p].go = path}
GoName(spec) == IF spec.name # "" \/ InGo(spec.path) = {} THEN spec.name ELSE NameOf(CHOOSE p \in InGo(spec.path) : TRUE)
Denotes(file, specs, expr) ==
  LET scope == IF expr.kind = "bare" THEN "." ELSE expr.of
  IN UNION {{Symbol(p, expr.name) : p \in {q \in InGo(s.path) : expr.name \in ExportsOf(q)}} : s \in {t \in ToSet(specs) : GoName(t) = scope}}
       \cup (IF expr.kind = "bare" /\ expr.name \in file.own.types \cup file.own.functions THEN {Own(expr.name)} ELSE {})
Redeclares(file, spec) == \E p \in InGo(spec.path) : ExportsOf(p) \cap (file.own.types \cup file.own.functions) # {}
NeedsNoName(expr) == expr.means.name = "string"
GoCompiles(file, go) ==
  /\ \A i, j \in DOMAIN go.specs : i # j => GoName(go.specs[i]) # GoName(go.specs[j]) \/ GoName(go.specs[i]) \in {".", "_"}
  /\ \A s \in ToSet(go.specs) : s.name = "." => ~Redeclares(file, s)
  /\ \A s \in ToSet(go.specs) : s.name # "_" =>
       \E i \in go.idents : IF s.name = "." THEN i.kind = "bare" /\ Denotes(file, <<s>>, i) \ {Own(i.name)} # {}
                                            ELSE i.kind = "selector" /\ i.of = GoName(s)
\* The imports that the source may have: a name stands for one package, and none that
\* was loaded or is needed is called as another one's alias.
Distinct(file) ==
  /\ \A i, j \in ToSet(file.imports) : i # j =>
       /\ i.dot \/ j.dot \/ LocalName(i) # LocalName(j)
       /\ i.path = j.path => ~i.dot /\ ~j.dot
  /\ \A i \in ToSet(file.imports) : i.dot => ExportsOf(i.path) \cap (file.own.types \cup file.own.functions) = {}
  /\ \A i \in ToSet(file.imports), p \in ToSet(file.loaded) \cup {u.of : u \in {v \in ToSet(file.body) : v.kind = "needed"}} :
       i.alias = NameOf(p) => i.path = p
\* The cases that the lowering gets right.  A method is called on a type of a package that
\* is imported; std has no name of its own; a package with another path in Go, or that the
\* lowering needs, is imported under the name that is used for it; embed is left to the
\* lowering where only its effect is needed; and a dot import that is always kept is used,
\* and one of which a val is used is used for a type or a function too.
Supported(file, meanings) ==
  LET imports(path) == {i \in ToSet(file.imports) : i.path = path}
      uses(path) == {k \in DOMAIN meanings : meanings[k].package = path /\ file.body[k].kind # "selector"}
      vals(path) == {k \in uses(path) : meanings[k].name \in Packages[path].others}
  IN /\ \A u \in ToSet(file.body) : u.kind = "method" => u.of = Std \/ imports(u.of) # {}
     /\ \A u \in ToSet(file.body) : u.kind = "needed" => \A i \in imports(u.of) : i.alias = ""
     /\ \A u \in ToSet(file.body) : u.kind = "text" => imports(u.of) = {}
     /\ \A k \in DOMAIN meanings : LET p == meanings[k].package IN
          p \in DOMAIN Packages /\ Packages[p].go # p => imports(p) # {}
     /\ \A i \in ToSet(file.imports) :
          /\ i.path = Std => i.dot
          /\ Packages[i.path].go # i.path => i.dot \/ i.alias # ""
          /\ i.dot /\ (i.path = Std \/ ~Packages[i.path].gala) => uses(i.path) # {}
          /\ i.dot /\ vals(i.path) # {} => uses(i.path) # vals(i.path)
\* Every use compiles and denotes what it means, and embed is imported where it must be.
ReachTheirPackages(file, meanings, go) ==
  ~Refused(file) /\ Distinct(file) /\ Supported(file, meanings) =>
     /\ GoCompiles(file, go)
     /\ \A i \in go.idents : NeedsNoName(i) \/ Denotes(file, go.specs, i) = {i.means}
     /\ (\E u \in ToSet(file.body) : u.kind = "text") => \E s \in ToSet(go.specs) : s.path = Embed
UsesReachTheirPackages(file) ==
  LET meanings == [i \in DOMAIN file.body |-> CHOOSE m \in Meanings(file, file.body[i]) : TRUE]
  IN ReachTheirPackages(file, meanings, Transform(file, meanings))
=============================================================================
