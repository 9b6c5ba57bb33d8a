----------------------------- MODULE Collection ------------------------------
(***************************************************************************)
(* What the analysis of a file collects (analyzer/analyzer.go): the types, *)
(* methods, functions and bindings of the file itself, by one pass, and    *)
(* those of the other files of its package, by another, with the checks    *)
(* for what is declared twice and for imports that the file lacks.         *)
(*                                                                         *)
(* A package is a sequence of files, a file the packages it imports and    *)
(* its declarations.  The text of a type is a package or "", a name and    *)
(* arguments; documentation goes with the place of a declaration.          *)
(***************************************************************************)
EXTENDS Naturals, Sequences, FiniteSets, SequencesExt

CONSTANTS Std,       \* The names that the prelude exports.
          Basic,     \* The names of the basic types.
          Exports    \* The names of every other package.

-----------------------------------------------------------------------------
(* Texts of types and what they are resolved to.                             *)

Is(pkg, name, args) == [pkg |-> pkg, name |-> name, args |-> args]
Here == "here"
Parameter == "parameter"

Dots(package) == {p \in DOMAIN Exports : \E i \in DOMAIN package : package[i].imports[p] = "dot"}
resolveBaseName(package, types, name) ==
  IF name \in Std THEN "std"
  ELSE IF name \in DOMAIN types THEN Here
  ELSE IF \E p \in Dots(package) : name \in Exports[p] THEN CHOOSE p \in Dots(package) : name \in Exports[p]
  ELSE Here
RECURSIVE resolveTypeWithParams(_, _, _, _)
resolveTypeWithParams(package, types, t, params) ==
  LET args == [i \in DOMAIN t.args |-> resolveTypeWithParams(package, types, t.args[i], params)]
  IN IF t.pkg # "" THEN Is(t.pkg, t.name, args)
     ELSE IF t.args = << >> /\ t.name \in ToSet(params) THEN Is(Parameter, t.name, << >>)
     ELSE IF t.name \in Basic THEN t
     ELSE Is(resolveBaseName(package, types, t.name), t.name, args)

\* A method of a generic type that returns the type with other arguments is
\* generated as a function.
causesInstantiationCycle(receiver, result) ==
  receiver.args # << >> /\ receiver.name = result.name /\ receiver.pkg = result.pkg /\ receiver.args # result.args

-----------------------------------------------------------------------------
(* What has been collected.                                                 *)

NoFile == 0
NewType(params, place) ==
  [params |-> params, fields |-> << >>, shorthand |-> FALSE, variants |-> << >>, sealed |-> FALSE,
   methods |-> << >>, definedIn |-> NoFile, place |-> place]
Collected == [types |-> << >>, functions |-> << >>, aliases |-> << >>, vals |-> << >>,
              sites |-> << >>, error |-> ""]
Fails(s, code) == [s EXCEPT !.error = code]
hasTypeDefinition(meta) == meta.fields # << >> \/ (meta.sealed /\ meta.variants # << >>)
\* recordDeclSite: the first place stays, and the same place again is none.
Site(s, key, place) == IF key \in DOMAIN s.sites /\ s.sites[key] # place THEN s.sites[key] ELSE << >>
recordDeclSite(s, key, place) == [s EXCEPT !.sites = @ @@ (key :> place)]

Fields(package, s, d) ==
  [i \in DOMAIN d.fields |->
     <<d.fields[i].name, resolveTypeWithParams(package, s.types, d.fields[i].type, d.params)>>]
RepeatsAField(d) == \E i, j \in DOMAIN d.fields : i # j /\ d.fields[i].name = d.fields[j].name
Signature(package, s, d, params) ==
  [params |-> [i \in DOMAIN d.ptypes |-> resolveTypeWithParams(package, s.types, d.ptypes[i], params)],
   result |-> resolveTypeWithParams(package, s.types, d.result, params)]
Specs(package, s, d, file) ==
  [m \in {d.fields[i].name : i \in DOMAIN d.fields} |->
     LET i == CHOOSE i \in DOMAIN d.fields : d.fields[i].name = m
     IN [params |-> << >>, result |-> resolveTypeWithParams(package, s.types, d.fields[i].type, d.params),
         isGeneric |-> FALSE, definedIn |-> file]]

\* The fields of a sealed type: those that variants share are there once, and a
\* name that has several types is prefixed with that of the variant.
VariantFields(d) ==
  FlattenSeq([i \in DOMAIN d.variants |->
                LET v == d.variants[i]
                IN [j \in DOMAIN v.fields |-> v.fields[j] @@ [variant |-> v.name]]])
conflictingFields(all) ==
  {all[i].name : i \in {i \in DOMAIN all : \E j \in DOMAIN all : /\ all[i].name = all[j].name
                                                               /\ all[i].type # all[j].type}}
ParentFields(package, types, d) ==
  LET all == VariantFields(d)
      structFieldName(f) == IF f.name \in conflictingFields(all) THEN f.variant \o f.name ELSE f.name
      add(fields, f) == IF \E i \in DOMAIN fields : fields[i][1] = structFieldName(f) THEN fields
                        ELSE Append(fields, <<structFieldName(f), resolveTypeWithParams(package, types, f.type, d.params)>>)
  IN Append(FoldLeft(add, << >>, all), <<"_variant", Is("", "uint8", << >>)>>)

Generated(ps, r) == [params |-> ps, result |-> r, isGeneric |-> FALSE, definedIn |-> NoFile]
Unapplied(types) ==
  CASE Len(types) = 0 -> Is("", "bool", << >>)
    [] Len(types) = 1 -> Is("std", "Option", types)
    [] OTHER -> Is("std", "Option", <<Is("std", "Tuple", types)>>)
Companion(d, types, file, place) ==
  LET self == Is(Here, d.name, [i \in DOMAIN d.params |-> Is(Parameter, d.params[i], << >>)])
  IN [NewType(d.params, place) EXCEPT
        !.definedIn = file,
        !.methods = ("Apply" :> Generated(types, self)) @@ ("Unapply" :> Generated(<<self>>, Unapplied(types)))]
IsMethods(d) == [m \in {"is" \o d.variants[i].name : i \in DOMAIN d.variants} |-> Generated(<< >>, Is("", "bool", << >>))]

\* The sealed type, with the methods it had, and a companion of each variant.
analyzeSealedType(package, s, d, file, place) ==
  LET resolved(t) == resolveTypeWithParams(package, s.types, t, d.params)
      fields(v) == [i \in DOMAIN v.fields |-> <<v.fields[i].name, resolved(v.fields[i].type)>>]
      variants == [i \in DOMAIN d.variants |-> <<d.variants[i].name, fields(d.variants[i])>>]
      before == IF d.name \in DOMAIN s.types THEN s.types[d.name].methods ELSE << >>
      parent == [NewType(d.params, place) EXCEPT
                   !.fields = ParentFields(package, s.types, d),
                   !.sealed = TRUE, !.variants = variants, !.methods = IsMethods(d) @@ before, !.definedIn = file]
      companion(i) == Companion(d, [j \in DOMAIN variants[i][2] |-> variants[i][2][j][2]], file, place)
      names == {d.variants[i].name : i \in DOMAIN d.variants}
  IN IF Cardinality(names) < Len(d.variants) THEN Fails(s, "variant")
     ELSE [s EXCEPT !.types = [n \in names |-> companion(CHOOSE i \in DOMAIN d.variants : d.variants[i].name = n)]
                                @@ (d.name :> parent) @@ @]

-----------------------------------------------------------------------------
(* The file that is analysed.                                               *)

DefineType(package, s, d, file, place) ==
  LET known == d.name \in DOMAIN s.types
      old == IF known THEN [s.types[d.name] EXCEPT !.fields = << >>, !.place = place, !.params = @ \o d.params]
             ELSE NewType(d.params, place)
      new == CASE d.kind \in {"struct", "shorthand"} ->
                    [old EXCEPT !.fields = Fields(package, s, d), !.definedIn = file, !.shorthand = @ \/ d.kind = "shorthand"]
               [] d.kind = "interface" -> [old EXCEPT !.methods = Specs(package, s, d, file) @@ @]
               [] d.kind = "alias" -> old
  IN IF d.name \in Std THEN Fails(s, "std")
     ELSE IF known /\ s.types[d.name].definedIn # NoFile /\ hasTypeDefinition(s.types[d.name]) THEN Fails(s, "type")
     ELSE IF RepeatsAField(d) THEN Fails(s, "field")
     ELSE [s EXCEPT !.types = (d.name :> new) @@ @]
DefineSealed(package, s, d, file, place) ==
  IF d.name \in DOMAIN s.types /\ s.types[d.name].definedIn # NoFile /\ hasTypeDefinition(s.types[d.name])
  THEN Fails(s, "type")
  ELSE analyzeSealedType(package, s, d, file, place)

\* The parameters of the receiver are known when its type has been collected.
\* Mutant: they are forgotten.
MethodOfItself(package, s, d, file) ==
  Signature(package, s, d, d.params) @@ [isGeneric |-> causesInstantiationCycle(d.receiver, d.result), definedIn |-> file]
MethodOf(package, s, d, file) ==
  LET params == (IF d.receiver.name \in DOMAIN s.types THEN s.types[d.receiver.name].params ELSE << >>) \o d.params
  IN Signature(package, s, d, params)
       @@ [isGeneric |-> causesInstantiationCycle(d.receiver, d.result), definedIn |-> file]
DefineMethod(package, s, d, file, place) ==
  LET base == d.receiver.name
      key == <<"method", base, d.name>>
      new == MethodOf(package, s, d, file)
      known == base \in DOMAIN s.types
      already == known /\ d.name \in DOMAIN s.types[base].methods
      old == s.types[base].methods[d.name]
      merged == IF already THEN [new EXCEPT !.isGeneric = @ \/ old.isGeneric] ELSE new
      added == IF known THEN [s EXCEPT !.types[base].methods = (d.name :> merged) @@ @]
               \* A type of another file: its entry holds the method, which names no file.
               ELSE [s EXCEPT !.types = (base :> [NewType(<< >>, << >>) EXCEPT
                                                    !.methods = d.name :> [new EXCEPT !.definedIn = NoFile]]) @@ @]
  IN IF already /\ old.definedIn # NoFile THEN Fails(s, "method")
     ELSE IF Site(s, key, place) # << >> THEN Fails(s, "method")
     ELSE recordDeclSite(added, key, place)
DefineFunction(package, s, d, file, place) ==
  LET key == <<"func", d.name, "">>
      new == Signature(package, s, d, d.params) @@ [definedIn |-> file]
  IN IF d.name \in Std THEN Fails(s, "std")
     ELSE IF d.name \in DOMAIN s.functions \/ Site(s, key, place) # << >> THEN Fails(s, "func")
     ELSE recordDeclSite([s EXCEPT !.functions = (d.name :> new) @@ @], key, place)

\* A generic struct's field named like another generic type (section 1.6).
Collides(s, file) ==
  \E n \in DOMAIN s.types : /\ s.types[n].definedIn = file /\ s.types[n].params # << >>
                            /\ \E i \in DOMAIN s.types[n].fields :
                                 LET f == s.types[n].fields[i][1]
                                 IN f # n /\ f \in DOMAIN s.types /\ s.types[f].params # << >>

-----------------------------------------------------------------------------
(* The other files of the package.                                          *)

SiblingType(package, s, d, file, place) ==
  LET known == d.name \in DOMAIN s.types
      old == s.types[d.name]
      new == [NewType(d.params, place) EXCEPT
                !.methods = IF known THEN old.methods ELSE << >>,
                !.definedIn = IF known /\ old.definedIn # NoFile THEN old.definedIn
                              ELSE IF d.kind \in {"struct", "shorthand"} THEN file ELSE NoFile,
                !.shorthand = d.kind = "shorthand"]
      filled == CASE d.kind \in {"struct", "shorthand"} -> [new EXCEPT !.fields = Fields(package, s, d)]
                  [] d.kind = "interface" -> [new EXCEPT !.methods = Specs(package, s, d, file) @@ @]
                  [] d.kind = "alias" -> new
  IN IF known /\ old.fields # << >> /\ old.definedIn # NoFile
     THEN IF old.definedIn # file THEN Fails(s, "type") ELSE s
     ELSE [s EXCEPT !.types = (d.name :> filled) @@ @,
                    !.aliases = IF d.kind = "alias"
                                THEN (d.name :> resolveTypeWithParams(package, s.types, d.type, d.params)) @@ @ ELSE @]
SiblingSealed(package, s, d, file, place) ==
  IF d.name \in DOMAIN s.types /\ s.types[d.name].sealed /\ s.types[d.name].definedIn # NoFile
  THEN IF s.types[d.name].definedIn # file THEN Fails(s, "type") ELSE s
  ELSE analyzeSealedType(package, s, d, file, place)

\* What is declared twice is reported when the first is in the file analysed.
\* Mutant: it is never reported.
SiblingMethodSilently(package, s, d, file, place, main) ==
  LET base == d.receiver.name
      entry == IF base \in DOMAIN s.types THEN s.types[base] ELSE NewType(<< >>, << >>)
  IN [s EXCEPT !.types = (base :> [entry EXCEPT !.methods = @ @@ (d.name :> MethodOf(package, s, d, file))]) @@ @]
SiblingMethod(package, s, d, file, place, main) ==
  LET base == d.receiver.name
      key == <<"method", base, d.name>>
      first == Site(s, key, place)
      new == MethodOf(package, s, d, file)
      entry == IF base \in DOMAIN s.types THEN s.types[base] ELSE NewType(<< >>, << >>)
      methods == IF d.name \in DOMAIN entry.methods
                 THEN [entry.methods EXCEPT ![d.name].isGeneric = @ \/ new.isGeneric]
                 ELSE (d.name :> new) @@ entry.methods
  IN IF first # << >> /\ first[1] = main THEN Fails(s, "method")
     ELSE recordDeclSite([s EXCEPT !.types = (base :> [entry EXCEPT !.methods = methods]) @@ @], key, place)
SiblingFunction(package, s, d, file, place, main) ==
  LET key == <<"func", d.name, "">>
      first == Site(s, key, place)
      new == Signature(package, s, d, d.params) @@ [definedIn |-> file]
  IN IF first # << >> /\ first[1] = main THEN Fails(s, "func")
     ELSE recordDeclSite([s EXCEPT !.functions = @ @@ (d.name :> new)], key, place)

\* A binding with a known type is not replaced by one without.
Untyped == Is("", "", << >>)
extractPackageVals(package, s, file) ==
  LET ds == package[file].decls
      one(t, i) ==
        LET d == ds[i]
            type == IF d.type = Untyped THEN Untyped ELSE resolveTypeWithParams(package, t.types, d.type, << >>)
        IN IF d.name \in DOMAIN t.vals /\ t.vals[d.name].type # Untyped /\ type = Untyped THEN t
           ELSE [t EXCEPT !.vals = (d.name :> [type |-> type, isVal |-> d.kind = "val", definedIn |-> file]) @@ @]
  IN FoldLeft(LAMBDA t, i : IF ds[i].kind \in {"val", "var"} THEN one(t, i) ELSE t, s, [i \in DOMAIN ds |-> i])

-----------------------------------------------------------------------------
(* The whole analysis of one file of a package.                              *)

\* Every declaration of some kinds, in order, until one fails.
Pass(package, s, file, kinds, Step(_, _, _)) ==
  LET ds == package[file].decls
  IN FoldLeft(LAMBDA t, i : IF t.error = "" /\ ds[i].kind \in kinds THEN Step(t, ds[i], <<file, i>>) ELSE t,
              s, [i \in DOMAIN ds |-> i])
Kinds == {"struct", "shorthand", "interface", "alias"}
CheckCollisions(s, file) == IF s.error = "" /\ Collides(s, file) THEN Fails(s, "collision") ELSE s
CollectMain(package, file) ==
  LET types == Pass(package, Collected, file, Kinds, LAMBDA s, d, at : DefineType(package, s, d, file, at))
      sealed == Pass(package, types, file, {"sealed"}, LAMBDA s, d, at : DefineSealed(package, s, d, file, at))
  IN Pass(package, CheckCollisions(sealed, file), file, {"method", "func"},
          LAMBDA s, d, at : IF d.kind = "method" THEN DefineMethod(package, s, d, file, at)
                            ELSE DefineFunction(package, s, d, file, at))
CollectVals(package, s, file) == IF s.error = "" THEN extractPackageVals(package, s, file) ELSE s
extractSiblingFullMetadata(package, s, file, main) ==
  LET types == Pass(package, s, file, Kinds, LAMBDA t, d, at : SiblingType(package, t, d, file, at))
      sealed == Pass(package, types, file, {"sealed"}, LAMBDA t, d, at : SiblingSealed(package, t, d, file, at))
      funcs == Pass(package, sealed, file, {"method", "func"},
                    LAMBDA t, d, at : IF d.kind = "method" THEN SiblingMethod(package, t, d, file, at, main)
                                      ELSE SiblingFunction(package, t, d, file, at, main))
  IN CollectVals(package, funcs, file)
Siblings(package, main) == SelectSeq([i \in DOMAIN package |-> i], LAMBDA i : i # main)
Collect(package, main) ==
  LET all == FoldLeft(LAMBDA s, f : IF s.error = "" THEN extractSiblingFullMetadata(package, s, f, main) ELSE s,
                      CollectMain(package, main), Siblings(package, main))
  IN CollectVals(package, all, main)

\* validateExplicitImports: what a signature of this file names must come from
\* a package that the file imports, or the file of the receiver's type.
Imported(package, file) == {p \in DOMAIN Exports : package[file].imports[p] # "none"}
RECURSIVE PackagesOf(_)
PackagesOf(t) == ({t.pkg} \cap DOMAIN Exports) \cup UNION {PackagesOf(t.args[i]) : i \in DOMAIN t.args}
OfSignature(m) == PackagesOf(m.result) \cup UNION {PackagesOf(m.params[i]) : i \in DOMAIN m.params}
OfFields(fields) == UNION {PackagesOf(fields[i][2]) : i \in DOMAIN fields}
\* Mutant: what a sibling imports counts.
LacksImportNowhere(package, s, main) == FALSE
LacksImport(package, s, main) ==
  LET knownGala == UNION {Imported(package, i) : i \in DOMAIN package}
      lacks(ps, file) == (ps \cap knownGala) \ (Imported(package, main) \cup Imported(package, file)) # {}
  IN \/ \E f \in DOMAIN s.functions : s.functions[f].definedIn = main /\ lacks(OfSignature(s.functions[f]), main)
     \/ \E n \in DOMAIN s.types : s.types[n].definedIn = main /\ lacks(OfFields(s.types[n].fields), main)
     \/ \E n \in DOMAIN s.types : \E m \in DOMAIN s.types[n].methods :
           /\ s.types[n].methods[m].definedIn = main
           /\ lacks(OfSignature(s.types[n].methods[m]), IF s.types[n].definedIn = NoFile THEN main ELSE s.types[n].definedIn)
validateExplicitImports(package, s, main) ==
  IF s.error = "" /\ LacksImport(package, s, main) THEN Fails(s, "import") ELSE s
Analyze(package, main) == validateExplicitImports(package, Collect(package, main), main)

\* A type that can be built and taken apart: the arguments of the type built
\* that its parameters are.
computeExtractIndices(apply) ==
  LET index(t) == SelectInSeq(apply.result.args, LAMBDA u : u = t)
  IN SelectSeq([i \in DOMAIN apply.params |-> index(apply.params[i])], LAMBDA k : k # 0)
discoverCompanionObjects(types) ==
  [n \in {n \in DOMAIN types : {"Apply", "Unapply"} \subseteq DOMAIN types[n].methods} |->
     LET apply == types[n].methods["Apply"]
     IN [target |-> apply.result.name, indices |-> computeExtractIndices(apply)]]

\* Mutant: a file that is no test sees them too.
SeesTests(directory, main) ==
  SelectSeq([f \in DOMAIN directory |-> f], LAMBDA f : f # main /\ directory[f].package = directory[main].package)
\* A file of a directory: its package, and whether it is a test.  Tests may be of
\* another package, and only tests see them.
filterSiblingsForCurrentFile(directory, main) ==
  LET own == directory[main]
  IN SelectSeq([f \in DOMAIN directory |-> f],
               LAMBDA f : f # main /\ directory[f].package = own.package /\ (directory[f].test => own.test))
MixesPackages(directory, main) ==
  ~directory[main].test /\ \E f \in DOMAIN directory : directory[f].package # directory[main].package /\ ~directory[f].test
AnalyzeIn(directory, main) ==
  LET seen == <<main>> \o filterSiblingsForCurrentFile(directory, main)
  IN IF MixesPackages(directory, main) THEN Fails(Collected, "package")
     ELSE Analyze([i \in DOMAIN seen |-> directory[seen[i]]], 1)

-----------------------------------------------------------------------------
(* What the declarations mean, whatever their order and their files.         *)

Structs == {"struct", "shorthand"}
TypeKinds == Kinds \cup {"sealed"}
Places(package) == UNION {{<<f, i>> : i \in DOMAIN package[f].decls} : f \in DOMAIN package}
At(package, place) == package[place[1]].decls[place[2]]
Declared(package, kinds) == {At(package, at) : at \in {at \in Places(package) : At(package, at).kind \in kinds}}
Variants(d) == IF d.kind = "sealed" THEN {d.variants[i].name : i \in DOMAIN d.variants} ELSE {}
NamesOf(ds) == {d.name : d \in ds} \cup UNION {Variants(d) : d \in ds}

RECURSIVE Meaning(_, _, _)
Meaning(package, t, params) ==
  LET dots == {p \in Dots(package) : t.name \in Exports[p]}
      home == CASE t.pkg # "" -> t.pkg
                [] t.pkg = "" /\ t.name \in params -> Parameter
                [] t.pkg = "" /\ t.name \in Basic -> ""
                [] t.pkg = "" /\ t.name \in Std -> "std"
                [] t.pkg = "" /\ t.name \in NamesOf(Declared(package, TypeKinds)) -> Here
                [] OTHER -> IF dots = {} THEN Here ELSE CHOOSE p \in dots : TRUE
  IN Is(home, t.name, [i \in DOMAIN t.args |-> Meaning(package, t.args[i], params)])
ParamsOf(package, name) ==
  UNION {ToSet(d.params) : d \in {e \in Declared(package, TypeKinds) : e.name = name}}

MeansItsStruct(package, type, d, file) ==
  /\ type.params = d.params /\ type.definedIn = file /\ type.shorthand = (d.kind = "shorthand")
  /\ type.fields = [i \in DOMAIN d.fields |-> <<d.fields[i].name, Meaning(package, d.fields[i].type, ToSet(d.params))>>]
MeansItsVariants(package, types, d, file) ==
  /\ types[d.name].sealed /\ types[d.name].params = d.params /\ types[d.name].definedIn = file
  /\ \A i \in DOMAIN d.variants :
        LET v == d.variants[i]
            of == [j \in DOMAIN v.fields |-> Meaning(package, v.fields[j].type, ToSet(d.params))]
        IN /\ types[d.name].variants[i] = <<v.name, [j \in DOMAIN v.fields |-> <<v.fields[j].name, of[j]>>]>>
           \* The parent keeps every field in one of its type, and no two that differ in one.
           /\ \A j \in DOMAIN of : \E k \in DOMAIN types[d.name].fields :
                types[d.name].fields[k] \in {<<v.fields[j].name, of[j]>>, <<v.name \o v.fields[j].name, of[j]>>}
           /\ \A j, k \in DOMAIN types[d.name].fields :
                j # k => types[d.name].fields[j][1] # types[d.name].fields[k][1]
           /\ ("is" \o v.name) \in DOMAIN types[d.name].methods
           /\ types[v.name].definedIn = file /\ types[v.name].params = d.params
           /\ types[v.name].methods["Apply"].params = of
           /\ discoverCompanionObjects(types)[v.name] =
                [target |-> d.name,
                 indices |-> FlattenSeq([j \in DOMAIN of |-> SetToSeq({k \in DOMAIN d.params : of[j] = Is(Parameter, d.params[k], << >>)})])]
           /\ types[v.name].methods["Apply"].result = types[v.name].methods["Unapply"].params[1]
MeansItsSignature(package, m, d, params) ==
  /\ m.params = [i \in DOMAIN d.ptypes |-> Meaning(package, d.ptypes[i], params)]
  /\ m.result = Meaning(package, d.result, params)

\* Collected as it is declared.  A type alias of the file itself is not, nor is
\* what a method says with the parameters of a type collected after it.
Means(package, s, main, at) ==
  LET d == At(package, at)
  IN CASE d.kind \in Structs -> MeansItsStruct(package, s.types[d.name], d, at[1])
       [] d.kind = "sealed" -> MeansItsVariants(package, s.types, d, at[1])
       [] d.kind = "interface" ->
            \A i \in DOMAIN d.fields :
              s.types[d.name].methods[d.fields[i].name].result = Meaning(package, d.fields[i].type, ToSet(d.params))
       [] d.kind = "alias" -> at[1] # main => s.aliases[d.name] = Meaning(package, d.type, ToSet(d.params))
       [] d.kind = "func" -> /\ MeansItsSignature(package, s.functions[d.name], d, ToSet(d.params))
                             /\ s.functions[d.name].definedIn = at[1]
       [] d.kind = "method" ->
            LET m == s.types[d.receiver.name].methods[d.name]
            IN /\ MeansItsSignature(package, m, d, ToSet(d.params) \cup ParamsOf(package, d.receiver.name))
               /\ m.isGeneric = causesInstantiationCycle(d.receiver, d.result)
       [] d.kind \in {"val", "var"} ->
            /\ s.vals[d.name].isVal = (d.kind = "val")
            /\ s.vals[d.name].type = IF d.type = Untyped THEN Untyped ELSE Meaning(package, d.type, {})
NothingElse(package, s) ==
  /\ DOMAIN s.types = NamesOf(Declared(package, TypeKinds)) \cup {d.receiver.name : d \in Declared(package, {"method"})}
  /\ DOMAIN s.functions = NamesOf(Declared(package, {"func"}))
  /\ DOMAIN s.vals = NamesOf(Declared(package, {"val", "var"}))
  /\ \A n \in DOMAIN s.types : \A m \in DOMAIN s.types[n].methods :
        \/ \E d \in Declared(package, {"method"}) : d.receiver.name = n /\ d.name = m
        \/ \E d \in Declared(package, {"interface"}) : d.name = n /\ \E i \in DOMAIN d.fields : d.fields[i].name = m
        \/ \E d \in Declared(package, {"sealed"}) : n \in NamesOf({d})

\* Two declarations of one name, of those that are looked for.
Key(d) == IF d.kind = "method" THEN <<d.receiver.name, d.name>>
          ELSE IF d.kind = "func" THEN <<"func", d.name>> ELSE <<"type", d.name>>
Defines(d) == d.kind \in {"method", "func", "sealed"} \/ (d.kind \in Structs /\ d.fields # << >>)
DeclaredTwice(package) ==
  \E a, b \in Places(package) :
    /\ a # b /\ Defines(At(package, a)) /\ Defines(At(package, b)) /\ Key(At(package, a)) = Key(At(package, b))
\* Two of which one or both are not: an alias, an interface, a variant, a val.
OverlooksOthers(package) ==
  \A a, b \in Places(package) :
    a # b => LET d == At(package, a)
                 e == At(package, b)
             IN ~ /\ (Defines(d) => ~Defines(e)) \/ Key(d) # Key(e)
                  /\ \/ d.kind \in TypeKinds /\ e.kind \in TypeKinds /\ NamesOf({d}) \cap NamesOf({e}) # {}
                     \/ d.kind \in {"val", "var"} /\ e.kind \in {"val", "var"} /\ d.name = e.name
\* The receiver's type is collected before the method, in the file's own pass.
ReceiversAreKnown(package, main) ==
  \A at \in Places(package) :
    At(package, at).kind = "method" /\ ParamsOf(package, At(package, at).receiver.name) # {} =>
       \E b \in Places(package) : /\ At(package, b).kind \in TypeKinds /\ At(package, b).name = At(package, at).receiver.name
                                  /\ b[1] \in {at[1], main}

\* An accepted file knows every declaration of its package by its meaning, and
\* nothing else, whichever file is the one analysed (analyzer.go:1536).
CollectedIsDeclared(package, main, s) ==
  s.error = "" /\ ~DeclaredTwice(package) /\ OverlooksOthers(package) /\ ReceiversAreKnown(package, main) =>
    /\ \A at \in Places(package) : Means(package, s, main, at)
    /\ NothingElse(package, s)

\* What is declared twice is reported when some file of the package is analysed,
\* and what is not is not (analyzer.go:3576).
DuplicatesAreReported(package, analyses) ==
  OverlooksOthers(package) =>
    (DeclaredTwice(package) <=> \E main \in DOMAIN package : analyses[main].error \in {"type", "method", "func"})

\* The packages that a declaration names.
NamedBy(package, d) ==
  LET params == ToSet(d.params)
      of(ts) == UNION {PackagesOf(Meaning(package, ts[i], params)) : i \in DOMAIN ts}
      fields(fs) == of([i \in DOMAIN fs |-> fs[i].type])
  IN CASE d.kind \in Structs -> fields(d.fields)
       [] d.kind = "sealed" -> UNION {fields(d.variants[i].fields) : i \in DOMAIN d.variants}
       [] d.kind \in {"func", "method"} -> of(<<d.result>> \o d.ptypes)
       [] OTHER -> {}
TypeIsIn(package, file, name) == \E d \in ToSet(package[file].decls) : d.kind \in TypeKinds /\ d.name = name
\* What a declaration of an accepted file names comes from packages that the
\* file imports, or the file of its receiver's type (analyzer.go:1688): but a
\* method that is the first of a type of another file is not looked at.
ImportsAreExplicit(package, main, s) ==
  s.error = "" /\ OverlooksOthers(package) =>
    \A i \in DOMAIN package[main].decls :
      LET d == package[main].decls[i]
          homes == {main} \cup {f \in DOMAIN package : d.kind = "method" /\ TypeIsIn(package, f, d.receiver.name)}
      IN \/ d.kind = "method" /\ ~TypeIsIn(package, main, d.receiver.name)
         \/ NamedBy(package, d) \cap UNION {Imported(package, f) : f \in DOMAIN package}
               \subseteq UNION {Imported(package, f) : f \in homes}

\* What is known of a file that is no test is the same without the tests, and a
\* test knows the declarations of its package (analyzer.go:4692).
TestsAreApart(directory, main) ==
  LET without == <<SelectSeq(directory, LAMBDA f : ~f.test), Cardinality({f \in 1 .. main : ~directory[f].test})>>
      ways == {<<directory, main>>} \cup IF directory[main].test THEN {} ELSE {without}
      knows(seen) ==
        seen.error = "" =>
          \A f \in DOMAIN directory : \A i \in DOMAIN directory[f].decls :
             directory[f].package = directory[main].package /\ directory[f].decls[i].kind = "func"
               => directory[f].decls[i].name \in DOMAIN seen.functions
      all(results) == IF directory[main].test THEN \A seen \in results : knows(seen) ELSE Cardinality(results) = 1
  IN all({AnalyzeIn(way[1], way[2]) : way \in ways})

\* The three properties of a package, for each of its files as the one analysed.
AnalysedAs(package, analyses) ==
  /\ DuplicatesAreReported(package, analyses)
  /\ \A main \in DOMAIN package : /\ CollectedIsDeclared(package, main, analyses[main])
                                  /\ ImportsAreExplicit(package, main, analyses[main])
PackageIsAnalysed(package) == AnalysedAs(package, [main \in DOMAIN package |-> Analyze(package, main)])
=============================================================================
