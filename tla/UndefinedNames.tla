--------------------------- MODULE UndefinedNames ---------------------------
(***************************************************************************)
(* The check that every name used as a value is defined                    *)
(* (internal/transpiler/analyzer/undefined_symbol.go, GALA-E0023).         *)
(*                                                                         *)
(* A file is a sequence of declarations: func (a method has a receiver     *)
(* among its binders), let for val and var, and struct.  The context has   *)
(* the name of the file's own package, the names of functions and vals     *)
(* that other files of it declare, and for each package how the file       *)
(* imports it ("dot", "named" or "no"), whether it is written in GALA,     *)
(* whether it came along ("loaded", "failed", or "absent" when an import   *)
(* cycle, a missing tool chain or an importing file that was passed over   *)
(* left it out without an error), what it declares but for vals, which of  *)
(* these are types, its vals, and the packages that it imports with a dot  *)
(* itself.                                                                 *)
(***************************************************************************)
EXTENDS TreeSemantics
LOCAL INSTANCE SequencesExt
LOCAL INSTANCE Functions

CONSTANTS
  Std,        \* the package that every file imports with a dot
  Builtins,   \* names of the language, and those that other checks own
  MethodForms \* the names <Type>_<Method> that are used: their type, and whether
              \* the transformer emits a function of that name

undefWalkOptions == [skipKeys |-> TRUE, skipTyped |-> TRUE, cleanOnly |-> TRUE,
                     functionScope |-> TRUE]

DirectImports(context) == {p \in DOMAIN context.packages : context.packages[p].imported # "no"}
Failures(context) == {p \in DOMAIN context.packages : context.packages[p].state = "failed"}

\* Mutant: only what the file itself imports has to be loaded.
DirectImportsLoaded(context) ==
  \A p \in DirectImports(context) \cup {Std} : context.packages[p].state = "loaded"
\* A Go package that is imported by name need not be known.
fileImportsFullyLoaded(context) ==
  /\ Failures(context) = {}
  /\ context.packages[Std].state = "loaded"
  /\ \A p \in DirectImports(context) :
       \/ context.packages[p].state = "loaded"
       \/ ~context.packages[p].gala /\ context.packages[p].imported = "named"

TuplePatterns(file) == UNION {Range(d.names) : d \in {e \in Range(file) : e.kind = "let" /\ e.tuple}}
DeclaredHere(file) ==
  UNION {IF d.kind = "let" THEN Range(d.names) ELSE {d.name} :
           d \in {e \in Range(file) : e.kind # "func" \/ ~e.method}}

\* What the metadata knows, of every package that reached the compilation; the
\* vals of a package are read from its sources if the file imports it.
importedTopLevelNames(context) ==
  UNION {context.packages[p].symbols \cup context.packages[p].vals :
           p \in {q \in DirectImports(context) \cup {Std} : context.packages[q].gala}}
Declared(file, context) ==
  (DeclaredHere(file) \ TuplePatterns(file)) \cup context.siblings
    \cup UNION {context.packages[p].symbols :
                  p \in {q \in DOMAIN context.packages : context.packages[q].state = "loaded"}}
    \cup importedTopLevelNames(context)

\* What may stand before a dot: a package that came along, through whatever
\* imports, the file's own, and what the file imports.
collectQualifiers(context) ==
  {Std, context.own} \cup DirectImports(context)
    \cup {p \in DOMAIN context.packages : context.packages[p].state = "loaded"}

indexDeclaredTypeNames(file, context) ==
  {d.name : d \in {e \in Range(file) : e.kind = "struct"}}
    \cup UNION {context.packages[p].types :
                  p \in {q \in DOMAIN context.packages : context.packages[q].state = "loaded"}}
isGeneratedMethodForm(name, file, context) ==
  name \in DOMAIN MethodForms /\ MethodForms[name].type \in indexDeclaredTypeNames(file, context)

resolves(name, file, context) ==
  \/ name \in Builtins \cup collectQualifiers(context) \cup Declared(file, context)
  \/ isGeneratedMethodForm(name, file, context)

\* Mutant: what is given to package values is not looked at.
walkFunctionsOnly(file) ==
  FoldLeft(LAMBDA w, d : IF d.kind = "func" THEN WalkFunctionDeclaration(d, w, undefWalkOptions)
                         ELSE w,
           Bind(PushScope(Start), TuplePatterns(file)), file)
walkSourceFile(file) ==
  FoldLeft(LAMBDA w, d :
             CASE d.kind = "func" -> WalkFunctionDeclaration(d, w, undefWalkOptions)
               [] d.kind = "let" -> WalkAll(d.args, w, undefWalkOptions)
               [] d.kind = "struct" ->
                    PopScope(WalkAll(Defaults(d.params),
                                     Bind(PushScope(w), d.binders \cup ParamNames(d.params)),
                                     undefWalkOptions)),
           Bind(PushScope(Start), TuplePatterns(file)), file)

\* The names reported, if the file is checked at all.
checkUndefinedSymbols(file, context) ==
  IF ~fileImportsFullyLoaded(context) THEN {}
  ELSE {r.name : r \in {s \in walkSourceFile(file).refs : ~resolves(s.name, file, context)}}

-----------------------------------------------------------------------------
(* Names the language finds: those the declarations look up outside of      *)
(* themselves, and those that are there to be found.                        *)
LookedUp(file) ==
  UNION {CASE d.kind = "func" -> RunBody(d, Local(NoNames, d.binders, {})).looked
           [] d.kind = "let" -> RunAll(d.args, NoNames).looked
           [] d.kind = "struct" ->
                RunAll(Defaults(d.params),
                       Local(NoNames, d.binders \cup ParamNames(d.params), {})).looked
           : d \in Range(file)}

RECURSIVE WithDots(_, _)
WithDots(ps, context) ==
  LET more == ps \cup UNION {context.packages[p].dots : p \in ps}
  IN  IF more = ps THEN ps ELSE WithDots(more, context)

DotImports(context) ==
  {Std} \cup {p \in DirectImports(context) : context.packages[p].imported = "dot"}

Reached(context) == WithDots(DotImports(context), context)

\* A package that was left out, though what the file imports imports it with a dot.
LeftOut(context) ==
  {p \in Reached(context) \ DotImports(context) : context.packages[p].state = "absent"}

TypesInScope(file, context) ==
  {d.name : d \in {e \in Range(file) : e.kind = "struct"}}
    \cup UNION {context.packages[p].types : p \in Reached(context)}

InScope(file, context) ==
  Builtins \cup DirectImports(context) \cup DeclaredHere(file) \cup context.siblings
    \cup UNION {context.packages[p].vals : p \in DotImports(context)}
    \cup UNION {context.packages[p].symbols : p \in Reached(context)}
    \cup {n \in DOMAIN MethodForms :
            MethodForms[n].emitted /\ MethodForms[n].type \in TypesInScope(file, context)}

Undefined(file, context) == LookedUp(file) \ InScope(file, context)

\* A name is reported only if it is undefined, also when some package could not be
\* loaded (undefined_symbol.go:348), but for the names of a package that was left
\* out without an error: no failure is noted then, and the file is checked.
NoFalseAlarm(file, context) ==
  checkUndefinedSymbols(file, context)
    \subseteq Undefined(file, context)
                \cup UNION {context.packages[p].symbols : p \in LeftOut(context)}
                \cup {n \in DOMAIN MethodForms :
                        \E p \in LeftOut(context) : MethodForms[n].type \in context.packages[p].types}

\* Left to Go: names of packages that are not imported with a dot, the packages
\* that came along and the file's own, which are no values, whatever follows a known
\* type and an underscore; and the name of a method hides what follows it in the file.
Tolerated(file, context) ==
  Declared(file, context) \cup collectQualifiers(context)
    \cup {n \in DOMAIN MethodForms : isGeneratedMethodForm(n, file, context)}
    \cup {d.name : d \in {e \in Range(file) : e.kind = "func"}}

\* In a file that is checked every undefined name is reported but for those
\* (undefined_symbol.go:44, 914).
NothingIsMissed(file, context) ==
  fileImportsFullyLoaded(context) =>
    Undefined(file, context) \ Tolerated(file, context) \subseteq checkUndefinedSymbols(file, context)
=============================================================================
