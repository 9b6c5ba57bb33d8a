-------------------------- MODULE PackageMetadata ---------------------------
(***************************************************************************)
(* The metadata of a package: the bytes that a cache file holds it as      *)
(* (analyzer/cache_codec.go), what of it belongs to the package alone      *)
(* (analyzer/cache.go), how the metadata of several packages or files is   *)
(* merged (transpiler.go), and the text of a type (types.go).              *)
(*                                                                         *)
(* The codec has no schema: each function that writes a structure has one  *)
(* that must read its fields in the same order.  Here each is the sequence *)
(* of fields it handles, and the bytes are tokens.                         *)
(***************************************************************************)
EXTENDS Naturals, Sequences, FiniteSets, SequencesExt

-----------------------------------------------------------------------------
(* The kinds of fields, which Go's types fix for writer and reader alike.   *)

Str == <<"str">>
Flag == <<"bool">>
Num == <<"num">>
Type == <<"type">>
List(k) == <<"list", k>>
Map(key, k) == <<"map", key, k>>
Rec(r) == <<"rec", r>>
Ptr(r) == <<"ptr", r>>

Kind(r, f) ==
  CASE f \in {"Line", "Column"} -> Num
    [] f \in {"IsShorthand", "IsSealed", "IsGeneric", "IsVariadic"} -> Flag
    [] f = "Pos" -> Rec("SourcePos")
    [] f \in {"ReturnType", "Underlying", "Type", "Base", "Elem", "Key"} -> Type
    [] f \in {"ParamTypes", "FieldTypes", "Returns", "Results"} -> List(Type)
    [] f \in {"FieldNames", "TypeParams", "ParamNames", "FieldOrder", "DirectImports"} -> List(Str)
    [] f \in {"ImmutFlags", "ParamImmutFlags"} -> List(Flag)
    [] f = "ExtractIndices" -> List(Num)
    [] f = "SealedVariants" -> List(Rec("SealedVariant"))
    [] f = "Params" -> List(IF r = "GoFuncSig" THEN Rec("GoParam") ELSE Type)
    [] f \in {"FieldDocs", "FieldDefaults", "TypeParamConstraints", "Packages", "ImportPathMap"} -> Map(Str, Str)
    [] f = "FieldPositions" -> Map(Str, Rec("SourcePos"))
    [] f = "DefaultExprs" -> Map(Num, Str)
    [] f \in {"Fields", "TypeAliases", "Variables", "Constants"} -> Map(Str, Type)
    [] f = "GoExports" -> Map(Str, List(Str))
    [] f = "CompanionObjects" -> Map(Str, Ptr("Companion"))
    [] f = "Methods" -> Map(Str, Ptr(IF r = "TypeMeta" THEN "MethodMeta" ELSE "GoFuncSig"))
    [] f = "Types" -> Map(Str, Ptr(IF r = "RichAST" THEN "TypeMeta" ELSE "GoTypeData"))
    [] f = "Functions" -> Map(Str, Ptr(IF r = "RichAST" THEN "FuncMeta" ELSE "GoFuncSig"))
    [] f = "GoTypeInfo" -> Ptr("GoTypeInfo")
    [] OTHER -> Str

-----------------------------------------------------------------------------
(* What the functions write...                                              *)

encodeCachedRichAST ==
  <<"PackageName", "PackageDoc", "Types", "Functions", "Packages", "CompanionObjects", "GoExports",
    "GoTypeInfo", "TypeAliases", "ImportPathMap", "DepsHash", "DirectImports">>
writeMethodMeta ==
  <<"Name", "Package", "Doc", "Pos", "ParamTypes", "ParamNames", "ReturnType", "TypeParams",
    "DefaultExprs", "ReceiverName", "IsGeneric", "DefinedIn">>
writeSealedVariant == <<"Name", "Doc", "Pos", "FieldNames", "FieldTypes">>
\* Mutant: the documentation of the fields is written after the position.
writeTypeMetaPosFirst ==
  <<"Name", "Package", "Doc", "Pos", "FieldDocs", "Methods", "Fields", "FieldNames", "FieldPositions",
    "FieldDefaults", "IsShorthand", "TypeParams", "TypeParamConstraints", "ImmutFlags", "IsSealed",
    "SealedVariants", "DefinedIn">>
writeTypeMeta ==
  <<"Name", "Package", "Doc", "FieldDocs", "Pos", "Methods", "Fields", "FieldNames", "FieldPositions",
    "FieldDefaults", "IsShorthand", "TypeParams", "TypeParamConstraints", "ImmutFlags", "IsSealed",
    "SealedVariants", "DefinedIn">>
writeFuncMeta ==
  <<"Name", "Package", "Doc", "Pos", "ParamTypes", "ParamNames", "ParamImmutFlags", "ReturnType",
    "TypeParams", "DefaultExprs", "DefinedIn">>
writeCompanion == <<"Name", "Package", "TargetType", "ExtractIndices">>
writeGoFuncSig == <<"Params", "Returns", "IsVariadic", "TypeParams">>
writeGoTypeData == <<"Kind", "Fields", "FieldOrder", "Methods", "Underlying", "TypeParams">>
writeGoTypeInfo == <<"Functions", "Types", "Variables", "Constants", "TypeAliases">>
writeType(tag) ==
  CASE tag = "basic" -> <<"Name">>
    [] tag = "named" -> <<"Package", "Name", "ImportPath">>
    [] tag = "generic" -> <<"Base", "Params">>
    [] tag \in {"array", "pointer"} -> <<"Elem">>
    [] tag = "map" -> <<"Key", "Elem">>
    [] tag = "func" -> <<"Params", "Results">>
    [] tag \in {"nil", "nilType", "void"} -> << >>
Written(r) ==
  CASE r = "RichAST" -> encodeCachedRichAST
    [] r = "MethodMeta" -> writeMethodMeta
    [] r = "SealedVariant" -> writeSealedVariant
    [] r = "TypeMeta" -> writeTypeMeta
    [] r = "FuncMeta" -> writeFuncMeta
    [] r = "Companion" -> writeCompanion
    [] r = "GoFuncSig" -> writeGoFuncSig
    [] r = "GoTypeData" -> writeGoTypeData
    [] r = "GoTypeInfo" -> writeGoTypeInfo
    [] r = "GoParam" -> <<"Name", "Type">>
    [] r = "SourcePos" -> <<"Line", "Column">>
    [] OTHER -> writeType(r)

-----------------------------------------------------------------------------
(* ... and what the functions read.                                         *)

decodeCachedRichAST ==
  <<"PackageName", "PackageDoc", "Types", "Functions", "Packages", "CompanionObjects", "GoExports",
    "GoTypeInfo", "TypeAliases", "ImportPathMap", "DepsHash", "DirectImports">>
readMethodMeta ==
  <<"Name", "Package", "Doc", "Pos", "ParamTypes", "ParamNames", "ReturnType", "TypeParams",
    "DefaultExprs", "ReceiverName", "IsGeneric", "DefinedIn">>
readSealedVariantSlice == <<"Name", "Doc", "Pos", "FieldNames", "FieldTypes">>
readTypeMeta ==
  <<"Name", "Package", "Doc", "FieldDocs", "Pos", "Methods", "Fields", "FieldNames", "FieldPositions",
    "FieldDefaults", "IsShorthand", "TypeParams", "TypeParamConstraints", "ImmutFlags", "IsSealed",
    "SealedVariants", "DefinedIn">>
readFuncMeta ==
  <<"Name", "Package", "Doc", "Pos", "ParamTypes", "ParamNames", "ParamImmutFlags", "ReturnType",
    "TypeParams", "DefaultExprs", "DefinedIn">>
readCompanion == <<"Name", "Package", "TargetType", "ExtractIndices">>
readGoFuncSig == <<"Params", "Returns", "IsVariadic", "TypeParams">>
readGoTypeData == <<"Kind", "Fields", "FieldOrder", "Methods", "Underlying", "TypeParams">>
readGoTypeInfoPtr == <<"Functions", "Types", "Variables", "Constants", "TypeAliases">>
readType(tag) ==
  CASE tag = "basic" -> <<"Name">>
    [] tag = "named" -> <<"Package", "Name", "ImportPath">>
    [] tag = "generic" -> <<"Base", "Params">>
    [] tag \in {"array", "pointer"} -> <<"Elem">>
    [] tag = "map" -> <<"Key", "Elem">>
    [] tag = "func" -> <<"Params", "Results">>
    [] tag \in {"nil", "nilType", "void"} -> << >>
ReadBack(r) ==
  CASE r = "RichAST" -> decodeCachedRichAST
    [] r = "MethodMeta" -> readMethodMeta
    [] r = "SealedVariant" -> readSealedVariantSlice
    [] r = "TypeMeta" -> readTypeMeta
    [] r = "FuncMeta" -> readFuncMeta
    [] r = "Companion" -> readCompanion
    [] r = "GoFuncSig" -> readGoFuncSig
    [] r = "GoTypeData" -> readGoTypeData
    [] r = "GoTypeInfo" -> readGoTypeInfoPtr
    [] r = "GoParam" -> <<"Name", "Type">>
    [] r = "SourcePos" -> <<"Line", "Column">>
    [] OTHER -> readType(r)

-----------------------------------------------------------------------------
(* Encoder and decoder.  A record is a function of its fields, a type is    *)
(* <<tag, record>>, a pointer has at most one element, and an empty map or  *)
(* list is the same as none.                                                *)

Header == << <<"magic", "GAC">>, <<"version", 4>> >>
Count(n) == <<"count", n>>

RECURSIVE Write(_, _)
Fields(r, v) == FlattenSeq([i \in DOMAIN Written(r) |-> Write(Kind(r, Written(r)[i]), v[Written(r)[i]])])
Write(k, v) ==
  CASE k[1] \in {"str", "bool", "num"} -> << <<k[1], v>> >>
    [] k[1] = "list" -> <<Count(Len(v))>> \o FlattenSeq([i \in DOMAIN v |-> Write(k[2], v[i])])
    [] k[1] = "map" ->
         LET keys == SetToSeq(DOMAIN v)
         IN <<Count(Len(keys))>>
              \o FlattenSeq([i \in DOMAIN keys |-> << <<k[2][1], keys[i]>> >> \o Write(k[3], v[keys[i]])])
    [] k[1] = "ptr" -> IF v = << >> THEN << <<"bool", FALSE>> >>
                       ELSE << <<"bool", TRUE>> >> \o Fields(k[2], v[1])
    [] k[1] = "rec" -> Fields(k[2], v)
    [] k[1] = "type" -> << <<"tag", v[1]>> >> \o Fields(v[1], v[2])

\* A reader stands at a position; after a failure nothing is read.
Got(value, at) == [ok |-> TRUE, value |-> value, at |-> at]
Failure == [ok |-> FALSE]
Take(tag, bytes, at) ==
  IF at > Len(bytes) \/ bytes[at][1] # tag THEN Failure ELSE Got(bytes[at][2], at + 1)
After(part, Next(_, _)) == IF part.ok THEN Next(part.value, part.at) ELSE Failure

RECURSIVE Read(_, _, _)
\* The values of kinds, one after the other.
ReadAll(kinds, bytes, at) ==
  FoldLeft(LAMBDA acc, k : After(acc, LAMBDA vs, p : After(Read(k, bytes, p), LAMBDA v, q : Got(Append(vs, v), q))),
           Got(<< >>, at), kinds)
ReadRecord(r, bytes, at) ==
  LET fields == ReadBack(r)
  IN After(ReadAll([i \in DOMAIN fields |-> Kind(r, fields[i])], bytes, at),
           LAMBDA vs, p : Got([f \in ToSet(fields) |-> vs[CHOOSE i \in DOMAIN fields : fields[i] = f]], p))
AsMap(kvs) ==
  [x \in {kvs[i] : i \in {j \in DOMAIN kvs : j % 2 = 1}} |->
     kvs[1 + (CHOOSE i \in DOMAIN kvs : i % 2 = 1 /\ kvs[i] = x /\ \A j \in DOMAIN kvs :
                                                    j % 2 = 1 /\ kvs[j] = x => j <= i)]]
Read(k, bytes, at) ==
  CASE k[1] \in {"str", "bool", "num"} -> Take(k[1], bytes, at)
    [] k[1] = "list" ->
         After(Take("count", bytes, at), LAMBDA n, p : ReadAll([i \in 1 .. n |-> k[2]], bytes, p))
    [] k[1] = "map" ->
         After(After(Take("count", bytes, at),
                     LAMBDA n, p : ReadAll([i \in 1 .. 2 * n |-> IF i % 2 = 1 THEN k[2] ELSE k[3]], bytes, p)),
               LAMBDA kvs, p : Got(AsMap(kvs), p))
    [] k[1] = "ptr" ->
         After(Take("bool", bytes, at),
               LAMBDA b, p : IF b THEN After(ReadRecord(k[2], bytes, p), LAMBDA v, q : Got(<<v>>, q))
                             ELSE Got(<< >>, p))
    [] k[1] = "rec" -> ReadRecord(k[2], bytes, at)
    [] k[1] = "type" ->
         After(Take("tag", bytes, at),
               LAMBDA tag, p : After(ReadRecord(tag, bytes, p), LAMBDA v, q : Got(<<tag, v>>, q)))

Encode(c) == Header \o Fields("RichAST", c)
Decode(bytes) ==
  IF Len(bytes) < 2 \/ SubSeq(bytes, 1, 2) # Header THEN Failure ELSE ReadRecord("RichAST", bytes, 3)

\* What was encoded is what is decoded, and a file that was cut short is
\* refused (cache_codec.go:14).  Bytes after the last field are not looked at.
CacheRoundTrips(c) == LET bytes == Encode(c) IN Decode(bytes) = Got(c, Len(bytes) + 1)
TornIsRefused(c, quarters) ==
  LET bytes == Encode(c) IN ~Decode(SubSeq(bytes, 1, ((Len(bytes) - 1) * quarters) \div 4)).ok

-----------------------------------------------------------------------------
(* What of the metadata is the package's own.  A key is <<package, symbol>>,*)
(* with the package "" for a bare name.                                     *)

belongsToPkg(key, pkg) == IF key[1] = "" THEN pkg \in {"", "main", "test"} ELSE key[1] = pkg
Own(entries, pkg) ==
  Restrict(entries, {k \in DOMAIN entries : \/ entries[k].Package = pkg
                                            \/ entries[k].Package = "" /\ belongsToPkg(k, pkg)})
filterGoTypeInfo(info, pkg) == Restrict(info, {k \in DOMAIN info : k[1] = pkg})
ownGoExports(exports, pkg) ==
  IF pkg = "" THEN exports ELSE Restrict(exports, {p \in DOMAIN exports : p = pkg /\ exports[p] # << >>})
\* Mutant: the key alone decides.
projectByKey(r) ==
  LET keep(entries) == Restrict(entries, {k \in DOMAIN entries : k[1] = r.PackageName})
  IN [r EXCEPT !.Types = keep(@), !.Functions = keep(@), !.CompanionObjects = keep(@), !.Packages = << >>]
\* The metadata of the imports, which Merge added, is left out.
projectOwnRichAST(r) ==
  LET pkg == r.PackageName
  IN [r EXCEPT !.Types = Own(@, pkg), !.Functions = Own(@, pkg), !.CompanionObjects = Own(@, pkg),
               !.GoExports = ownGoExports(@, pkg), !.GoTypeInfo = filterGoTypeInfo(@, pkg), !.Packages = << >>]
toCachedRichAST(r) == projectOwnRichAST(r)

-----------------------------------------------------------------------------
(* Merging other metadata into r: what r knows of a type stays, and what it *)
(* does not know comes from the other; of the rest, the other's is kept.    *)

\* Mutant: what the other knows replaces what is known.
MergeTypesOver(ours, theirs) == [theirs EXCEPT !.Methods = @ @@ ours.Methods]
MergeTypes(ours, theirs) ==
  LET fields == theirs.FieldNames # << >> /\ ours.FieldNames = << >>
      params == theirs.TypeParams # << >> /\ ours.TypeParams = << >>
      sealed == theirs.IsSealed /\ ~ours.IsSealed
  IN [ours EXCEPT !.Methods = @ @@ theirs.Methods,
                  !.FieldNames = IF fields THEN theirs.FieldNames ELSE @,
                  !.Fields = IF fields THEN theirs.Fields ELSE @,
                  !.ImmutFlags = IF fields THEN theirs.ImmutFlags ELSE @,
                  !.TypeParams = IF params THEN theirs.TypeParams ELSE @,
                  !.TypeParamConstraints = IF params THEN theirs.TypeParamConstraints ELSE @,
                  !.IsSealed = @ \/ theirs.IsSealed,
                  !.SealedVariants = IF sealed THEN theirs.SealedVariants ELSE @,
                  !.Doc = IF @ = "" THEN theirs.Doc ELSE @,
                  !.FieldDocs = IF @ = << >> THEN theirs.FieldDocs ELSE @]
Merge(r, other) ==
  [r EXCEPT !.Types = [k \in DOMAIN @ \cap DOMAIN other.Types |-> MergeTypes(@[k], other.Types[k])]
                        @@ @ @@ other.Types,
            !.Functions = other.Functions @@ @,
            !.Packages = other.Packages @@ @,
            !.CompanionObjects = other.CompanionObjects @@ @,
            !.GoExports = [p \in DOMAIN @ \cap DOMAIN other.GoExports |-> @[p] \o other.GoExports[p]]
                            @@ @ @@ other.GoExports,
            !.GoTypeInfo = other.GoTypeInfo @@ @,
            !.TypeAliases = other.TypeAliases @@ @,
            !.ImportPathMap = other.ImportPathMap @@ @,
            !.PackageDoc = IF @ = "" /\ r.PackageName # "" /\ r.PackageName = other.PackageName
                           THEN other.PackageDoc ELSE @]

\* The exports are appended, whatever is there; only their set counts.
Same(r, s) ==
  LET counted(x) == [x EXCEPT !.GoExports = [p \in DOMAIN @ |-> ToSet(@[p])]] IN counted(r) = counted(s)

\* Merging the same metadata again changes nothing (analyzer.go:2982).
MergeIsIdempotent(r, other) == Same(Merge(Merge(r, other), other), Merge(r, other))

\* Two views of a type, each with all or nothing of each part, give the same
\* in either order (transpiler.go:134).  FieldDefaults, IsShorthand and
\* FieldPositions do not come with the fields: they are not in a view.
ViewsJoin(ours, theirs) == MergeTypes(ours, theirs) = MergeTypes(theirs, ours)

\* The projection of a package, merged with its imports again, is what the
\* analysis had; and its documentation is its own (cache.go:55, 
\* transpiler.go:243).
ProjectionIsEnough(own, imports) ==
  LET analyzed == FoldLeft(Merge, own, imports)
      loaded == FoldLeft(Merge, toCachedRichAST(analyzed), imports)
  IN Same([loaded EXCEPT !.Packages = << >>], [analyzed EXCEPT !.Packages = << >>])
       /\ loaded.PackageDoc = own.PackageDoc

-----------------------------------------------------------------------------
(* The text of a type, as tokens without the spaces, and back.              *)

RECURSIVE Text(_)
Texts(ts) == FlattenSeq([i \in DOMAIN ts |-> IF i = 1 THEN Text(ts[i]) ELSE <<",">> \o Text(ts[i])])
Text(t) ==
  CASE t[1] = "basic" -> <<t[2].Name>>
    [] t[1] = "named" -> (IF t[2].Package = "" THEN << >> ELSE <<t[2].Package, ".">>) \o <<t[2].Name>>
    [] t[1] = "generic" -> Text(t[2].Base) \o <<"[">> \o Texts(t[2].Params) \o <<"]">>
    [] t[1] = "array" -> <<"[", "]">> \o Text(t[2].Elem)
    [] t[1] = "map" -> <<"map", "[">> \o Text(t[2].Key) \o <<"]">> \o Text(t[2].Elem)
    [] t[1] = "pointer" -> <<"*">> \o Text(t[2].Elem)
    [] t[1] = "func" ->
         <<"func", "(">> \o Texts(t[2].Params) \o <<")">>
           \o (CASE Len(t[2].Results) = 0 -> << >>
                 [] Len(t[2].Results) = 1 -> Texts(t[2].Results)
                 [] OTHER -> <<"(">> \o Texts(t[2].Results) \o <<")">>)
    [] OTHER -> << >>

FirstOf(token, s) == CHOOSE i \in DOMAIN s : s[i] = token /\ \A j \in 1 .. i - 1 : s[j] # token
Before(s, i) == SubSeq(s, 1, i - 1)
Behind(s, i) == SubSeq(s, i + 1, Len(s))
DepthAt(s, i) == Cardinality({j \in 1 .. i : s[j] = "["}) - Cardinality({j \in 1 .. i : s[j] = "]"})
\* Mutant: a comma inside inner brackets splits too.
OuterCommasAll(s) == {i \in DOMAIN s : s[i] = ","}
OuterCommas(s) == {i \in DOMAIN s : s[i] = "," /\ DepthAt(s, i) = 0}
PointerInPackage(s) == {i \in 1 .. Len(s) - 1 : s[i] = "." /\ s[i + 1] = "*"}

RECURSIVE ParseType(_)
Split(s) ==
  LET cuts == SetToSortSeq(OuterCommas(s) \cup {0, Len(s) + 1}, LAMBDA a, b : a < b)
  IN [i \in 1 .. Len(cuts) - 1 |-> ParseType(SubSeq(s, cuts[i] + 1, cuts[i + 1] - 1))]
ParseType(s) ==
  CASE s = << >> -> <<"nilType", << >> >>
    [] Len(s) > 1 /\ SubSeq(s, 1, 2) = <<"[", "]">> -> <<"array", [Elem |-> ParseType(Behind(s, 2))]>>
    [] s[1] = "*" -> <<"pointer", [Elem |-> ParseType(Tail(s))]>>
    [] s[1] # "*" /\ PointerInPackage(s) # {} ->
         LET i == CHOOSE i \in PointerInPackage(s) : \A j \in PointerInPackage(s) : i <= j
         IN <<"pointer", [Elem |-> ParseType(Before(s, i) \o <<".">> \o Behind(s, i + 1))]>>
    [] PointerInPackage(s) = {} /\ Len(s) > 1 /\ SubSeq(s, 1, 2) = <<"map", "[">> /\ Contains(s, "]") ->
         <<"map", [Key |-> ParseType(SubSeq(s, 3, FirstOf("]", s) - 1)), Elem |-> ParseType(Behind(s, FirstOf("]", s)))]>>
    [] s[1] \notin {"[", "*", "map"} /\ PointerInPackage(s) = {} /\ Contains(s, "[") /\ Last(s) = "]" ->
         <<"generic", [Base |-> ParseType(Before(s, FirstOf("[", s))),
                       Params |-> Split(SubSeq(s, FirstOf("[", s) + 1, Len(s) - 1))]>>
    [] OTHER ->
         IF Contains(s, ".")
         THEN LET i == CHOOSE i \in DOMAIN s : s[i] = "." /\ ~Contains(Behind(s, i), ".")
              IN <<"named", [Package |-> Before(s, i)[1], Name |-> Behind(s, i)[1], ImportPath |-> ""]>>
         ELSE <<"basic", [Name |-> s[1]]>>

\* The text of a type is parsed back into the type: of every type that the
\* parser knows, one without functions and with plain keys (types.go:252).
TextIsParsedBack(t) == ParseType(Text(t)) = t
=============================================================================
