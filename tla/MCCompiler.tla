----------------------------- MODULE MCCompiler -----------------------------
(***************************************************************************)
(* The compiler's pure algorithms over small arguments: what is inferred,   *)
(* collected, looked up and checked, how expressions and declarations are  *)
(* lowered, and what is written and read back.  A behaviour looks at one   *)
(* argument.                                                               *)
(***************************************************************************)
EXTENDS Integers, Sequences, FiniteSets, TLC

LOCAL INSTANCE SequencesExt

CONSTANT Subjects  \* those a run looks at
VARIABLE argument

Of(what) == argument.what = what

-----------------------------------------------------------------------------
(* Infer: functions of one and two parameters.                               *)
I == INSTANCE Infer

Number == I!Const("int")
X == I!Var("x")
F == I!Var("f")
One == I!Lit(Number)
Apply2(a, b) == I!App(I!Var(a), I!Var(b))
IncOne == I!App(I!Var("inc"), One)
Applications == {Apply2(a, b) : a, b \in {"x", "inc", "id", "f"}} \cup {Apply2("not", "x"), IncOne}
SomeConditions == {X, Apply2("not", "x"), IncOne}
Branches == {X, I!App(I!Var("inc"), X), F, Apply2("f", "x")}
FunctionBodies ==
  Applications
    \cup {I!If(c, a, b) : c \in SomeConditions, a, b \in Branches}
    \cup {I!App(a, b) : a \in Applications, b \in {X, One}}
    \cup {I!App(I!Var(f), a) : f \in {"x", "f", "id"}, a \in Applications}
LetBodies ==
  {I!Let("f", I!Abs("y", value), body) :
     value \in {I!Var("y"), X},
     body \in FunctionBodies}
Expressions == {I!Abs("x", b) : b \in LetBodies \cup FunctionBodies}
                 \cup {I!Abs("f", I!Abs("x", b)) : b \in FunctionBodies}

Ground == {Number, I!Bool}
Small == Ground \cup {I!Arrow(a, b) : a, b \in Ground}
Large == Ground \cup {I!Arrow(a, b) : a, b \in Small}
Library == [x \in {"inc", "not", "id"} |->
              IF x = "inc" THEN I!Mono(I!Arrow(Number, Number))
              ELSE IF x = "not" THEN I!Mono(I!Arrow(I!Bool, I!Bool))
              ELSE [vars |-> {1}, type |-> I!Arrow(I!TVar(1), I!TVar(1))]]
GroundLibrary == [x \in {"inc", "not", "id"} |->
                    IF x = "id" THEN {I!Arrow(a, a) : a \in Large} ELSE {Library[x].type}]

-----------------------------------------------------------------------------
(* TailCalls: conditions, leaves and one nested if.                          *)
T == INSTANCE TailCalls WITH Fuel <- 5

Par(i) == <<"par", i>>
Dec(i) == <<"dec", i>>
Keep(i) == <<"keep", i>>
Sum == <<"sum">>
IfElse(c, a, b) == <<"if", c, a, b>>
Succ(e) == <<"succ", e>>
TailCalls == {T!Self(<<a, b>>) : a, b \in {Dec(1), Sum, Par(1), Keep(1)}}
               \cup {<<"self", <<Dec(1), Sum>>, "named">>}
OtherLeaves == {Succ(T!Self(<<Dec(1), Par(2)>>)), <<"block", T!Self(<<Dec(1), Sum>>)>>,
                Succ(Keep(2)), T!Self(<<Dec(1), T!Self(<<Dec(1), <<"num", 1>>>>)>>)}
SomeLeaves == TailCalls \cup OtherLeaves \cup {Par(2), Sum}
LoopBodies ==
  {IfElse(c, a, b) : c \in {Par(1), Dec(1), Sum}, a \in {Par(2), Succ(Keep(2))},
                     b \in SomeLeaves \cup {IfElse(d, Par(2), e) : d \in {Dec(1), Par(2)},
                                                                   e \in TailCalls}}
    \cup {IfElse(Par(2), b, Par(1)) : b \in SomeLeaves}
    \cup {IfElse(Par(1), a, b) : a, b \in SomeLeaves}

-----------------------------------------------------------------------------
(* Matching: up to three clauses for a type of two variants.                 *)
M == INSTANCE Matching

TwoVariants == {"A", "B"}
ThreeValues == {[variant |-> n[1], payload |-> n[2]] : n \in {<<"A", 0>>, <<"A", 1>>, <<"B", 0>>}}
Pattern(kind, name, arg) == [kind |-> kind, name |-> name, arg |-> arg]
Patterns == {Pattern("wildcard", "", M!Bound), Pattern("binding", "", M!Bound),
             Pattern("variant", "A", M!Bound), Pattern("variant", "A", <<0>>),
             Pattern("variant", "B", M!Bound)}
Clauses == [pattern : Patterns, guard : {M!NoGuard, <<{1}>>}]

-----------------------------------------------------------------------------
(* Shareable: a struct of vals, one with a var, one that holds it, generic   *)
(* ones, and types that refer to themselves.                                 *)
AField(f, t, v) == [name |-> f, type |-> t, val |-> v]
AType(kind, name, pkg, args) == [kind |-> kind, name |-> name, pkg |-> pkg, args |-> args]
AnInt == AType("basic", "int", "", << >>)
Parameter(p) == AType("basic", p, "", << >>)
Nominal(n) == AType("named", n, "main", << >>)
Applied(n, ts) == AType("generic", n, "main", ts)
MutableArray(t) == AType("generic", "Array", "collection_mutable", << t >>)
ImmutableArray(t) == AType("generic", "Array", "collection_immutable", << t >>)
Function == AType("func", "", "", << >>)

Struct(params, fields) == [params |-> params, fields |-> fields, variants |-> << >>, sealed |-> FALSE]
SmallMetadata ==
  [n \in {"Point", "Counter", "Holder", "Box", "List", "Node", "Twist", "Tree"} |->
     CASE n = "Point" -> Struct(<< >>, <<AField("a", AnInt, TRUE), AField("b", AnInt, TRUE)>>)
       [] n = "Counter" -> Struct(<< >>, <<AField("a", AnInt, TRUE), AField("b", AnInt, FALSE)>>)
       [] n = "Holder" -> Struct(<< >>, <<AField("a", Nominal("Counter"), TRUE),
                                          AField("b", MutableArray(AnInt), TRUE)>>)
       [] n = "Box" -> Struct(<<"T">>, <<AField("a", Parameter("T"), TRUE)>>)
       [] n = "List" -> [params |-> <<"T">>, fields |-> << >>, sealed |-> TRUE,
                         variants |-> << <<Parameter("T"), Applied("List", <<Parameter("T")>>)>>,
                                         << >> >>]
       [] n = "Node" -> Struct(<<"T">>, <<AField("a", Parameter("T"), TRUE),
                               AField("b", Applied("Option", <<Applied("Node", <<MutableArray(AnInt)>>)>>),
                                      TRUE)>>)
       [] n = "Twist" -> Struct(<<"T", "U">>, <<AField("a", Parameter("T"), TRUE),
                                AField("b", Applied("Twist", <<Parameter("U"), Parameter("T")>>), TRUE)>>)
       [] n = "Tree" -> Struct(<< >>, <<AField("a", AnInt, TRUE),
                               AField("b", Applied("Option", <<Nominal("Tree")>>), TRUE)>>)]

C == INSTANCE Captures WITH Metadata <- SmallMetadata, GoScalars <- {"Duration"}

PlainTypes == {AnInt, C!Basic("any"), AType("slice", "", "", <<AnInt>>), Function} \cup
              {Nominal(n) : n \in {"Duration", "Mutex", "Point", "Counter", "Holder", "Tree"}}
Over(ts) == {Applied(n, <<t>>) : n \in {"Box", "List", "Option", "Node"}, t \in ts}
              \cup {MutableArray(t) : t \in ts} \cup {ImmutableArray(t) : t \in ts}
Twists == {Applied("Twist", <<t, u>>) : t, u \in PlainTypes}
SharedTypes == PlainTypes \cup Over(PlainTypes) \cup Twists
                 \cup Over(PlainTypes \cup Over(PlainTypes))

-----------------------------------------------------------------------------
(* Captures: closures of one or two statements that use x, y and what they   *)
(* name themselves.                                                          *)
Dotted(v, suffixes) == C!Chain(C!Id(v), suffixes)
NoArgs == C!Call(<< >>)
Readings == {<< >>, <<C!Sel("a")>>, <<C!Sel("b")>>, <<C!Sel("a"), C!Sel("b")>>,
             <<C!Sel("m"), NoArgs>>, <<C!Sel("a"), C!Sel("m"), NoArgs>>, <<C!Sel("a"), C!Sel("a"), C!Sel("m"), NoArgs>>,
             <<C!Sel("b"), C!Index(<<C!Name("i")>>)>>, <<C!Call(<<C!Name("i")>>)>>,
             <<C!Sel("a"), C!Sel("m"), C!Call(<<C!Name("y")>>), C!Sel("b")>>}
Chains(v) == {Dotted(v, ss) : ss \in Readings}
Text(n) == C!Chain([kind |-> "text", parts |-> <<[clean |-> TRUE, node |-> n]>>], << >>)
New(key, n, suffixes) ==
  C!Chain([kind |-> "new", keys |-> <<C!Name(key)>>, args |-> <<n>>], suffixes)
NamePattern(x) == [kind |-> "names", name |-> x]
Wrapped(p) == [kind |-> "ctor", subs |-> <<p>>]
Loop(kind, fresh, names, args, body) ==
  [kind |-> kind, fresh |-> fresh, names |-> names, args |-> args, body |-> C!Block(body)]
IfThen(init, cond, body) ==
  [kind |-> "if", init |-> init, cond |-> cond, blocks |-> <<C!Block(body)>>]

Values ==
  Chains("x")
    \cup {C!Name("y"), C!Op(<<Dotted("x", <<C!Sel("a")>>), C!Name("y")>>),
          Text(Dotted("x", <<C!Sel("a")>>)), New("a", C!Name("x"), <<C!Sel("a")>>),
          C!Lambda(<<C!Param("x")>>, C!Name("x")), C!Lambda(<<C!Param("y")>>, Dotted("x", <<C!Sel("b")>>)),
          C!Match(Dotted("x", <<C!Sel("a")>>), <<C!Case(NamePattern("z"), C!Name("z")),
                                                 C!Case(Wrapped(NamePattern("x")), C!Name("x"))>>)}
FirstStatements ==
  {C!Let(v, e) : v \in {"x", "z"}, e \in Values}
    \cup {C!Func("x", <<C!Param("y")>>, Dotted("x", <<C!Call(<<C!Name("y")>>)>>)),
          C!Func("z", <<C!Param("y")>>, Dotted("x", <<C!Sel("a")>>)),
          Loop("range", TRUE, <<"z">>, <<Dotted("x", <<C!Sel("b")>>)>>, <<Dotted("z", <<C!Sel("a")>>)>>),
          Loop("range", FALSE, <<"y">>, <<Dotted("x", <<C!Sel("b")>>)>>, << >>),
          Loop("for", TRUE, << >>, <<C!Let("x", C!Name("y")), C!Name("x")>>, <<Dotted("x", <<C!Sel("a")>>)>>),
          IfThen(<<C!Let("x", Dotted("x", <<C!Sel("a")>>))>>, C!Name("x"), <<C!Name("x")>>)}
ClosureBodies == {C!Block(<<s, e>>) : s \in FirstStatements, e \in Values \cup Chains("z")}
                   \cup Values

Outer(type, declared, sendable, assigned) ==
  [type |-> type, declared |-> declared, sendable |-> sendable, assigned |-> assigned]
OuterX ==
  {Outer(t, "val", FALSE, FALSE) :
     t \in {AnInt, Nominal("Point"), Nominal("Counter"), Nominal("Holder"), Nominal("Mutex"),
            Applied("Box", <<Nominal("Holder")>>)}}
    \cup {Outer(Nominal("Point"), "var", FALSE, TRUE), Outer(Nominal("Point"), "param", FALSE, TRUE),
          Outer(Function, "param", TRUE, FALSE)}
OuterY == {Outer(AnInt, "val", FALSE, FALSE), Outer(AnInt, "var", FALSE, TRUE)}
\* A plain parameter may be assigned as well (Assignable): both are, or y alone is.
Parameters == {Outer(Nominal("Point"), how, FALSE, how = "param") : how \in {"val", "param"}}
AnIntParameter == Outer(AnInt, "param", FALSE, TRUE)

-----------------------------------------------------------------------------
(* UndefinedNames: p and g may be imported with a dot or by name, r comes    *)
(* with the prelude; each package has a function, GALA ones have a type and a *)
(* val, and a method of a type may be called by its generated name.           *)
U == INSTANCE UndefinedNames WITH Std <- "std", Builtins <- {"print"},
       MethodForms <- [n \in {"pT_m", "pT_z", "rT_m", "u_m"} |->
                         [type |-> CASE n = "rT_m" -> "rT" [] n = "u_m" -> "u" [] OTHER -> "pT",
                          emitted |-> n # "pT_z"]]

APackage(name, gala, imported, state) ==
  [gala |-> gala, imported |-> imported, state |-> state,
   symbols |-> {name \o "F"} \cup IF gala THEN {name \o "T"} ELSE {},
   types |-> IF gala THEN {name \o "T"} ELSE {},
   vals |-> IF gala THEN {name \o "V"} ELSE {}, dots |-> IF name = "std" THEN {"r"} ELSE {}]
Forms == {"dot", "named", "no"}
States == {"loaded", "failed", "absent"}
Contexts ==
  {[siblings |-> {"s"}, own |-> "o",
    packages |-> [n \in {"std", "p", "g", "r"} |->
                    CASE n = "std" -> APackage("std", TRUE, "no", s)
                      [] n = "r" -> APackage("r", TRUE, "no", r)
                      [] n = "p" -> APackage("p", TRUE, p[1], p[2])
                      [] n = "g" -> APackage("g", FALSE, g[1], g[2])]]
     : s, r \in States, p, g \in Forms \X States}

UsedNames == {"u", "s", "stdF", "stdV", "pF", "pV", "gF", "rF", "p", "r", "o", "pT_m", "pT_z", "rT_m", "u_m",
              "print", "h", "m", "x", "v", "T"}
Uses == {C!Name(n) : n \in UsedNames}
          \cup {C!Op(<<C!Name("print"), C!Lambda(<<C!Param("u")>>, C!Name("u"))>>),
                New("u", C!Name("h"), << >>), Text(C!Name("u")),
                C!Match(C!Name("h"), <<C!Case(NamePattern("u"), C!Name("u")),
                                       C!Case([kind |-> "literal"], C!Name("u"))>>),
                C!Block(<<C!Let("u", C!Name("h")), C!Name("u")>>),
                C!Block(<<IfThen(<<C!Let("u", C!Name("h"))>>, C!Name("u"), << >>), C!Name("u")>>)}
TopFunction(name, method, binders, params, body) ==
  [kind |-> "func", name |-> name, method |-> method, binders |-> binders, params |-> params,
   body |-> body]
TopLet(names, tuple, e) == [kind |-> "let", names |-> names, args |-> <<e>>, tuple |-> tuple]
WithDefault(x, e) == [name |-> x, default |-> <<e>>]
TopStruct(name, params) == [kind |-> "struct", name |-> name, binders |-> {"T"}, params |-> params]
Users == {TopFunction("h", FALSE, {"T"}, <<C!Param("x")>>, e) : e \in Uses}
           \cup {TopFunction("m", TRUE, {"v"}, <<WithDefault("x", e)>>, C!Name("v")) : e \in Uses}
           \cup {TopLet(<<"h">>, FALSE, e) : e \in Uses}
           \cup {TopStruct("h", <<C!Param("x"), WithDefault("y", e)>>) : e \in Uses}
OtherDeclarations ==
  {TopLet(<<"x">>, FALSE, C!Name("print")), TopLet(<<"x", "u">>, TRUE, C!Name("print")),
   TopFunction("u", TRUE, {"v"}, << >>, C!Name("v")), TopFunction("u", FALSE, {}, << >>, C!Name("u")),
   TopStruct("u", << >>)}
AllLoaded == {d \in Contexts : \A n \in {"std", "p", "g", "r"} : d.packages[n].state = "loaded"}
Files == {<<d>> : d \in Users} \cup (Users \X OtherDeclarations) \cup (OtherDeclarations \X Users)

-----------------------------------------------------------------------------
(* CallArguments: up to three parameters and arguments, and a label unknown. *)
A == INSTANCE CallArguments

ParameterLists == {<<"a">>, <<"a", "b">>, <<"a", "b", "c">>}
Callees ==
  {c \in [form : A!Forms, params : ParameterLists, optional : SUBSET {"a", "b", "c"}] :
     /\ c.optional \subseteq {c.params[i] : i \in DOMAIN c.params}
     /\ c.form \notin A!Functions \cup A!Opaque \cup {"shorthand"} => c.optional = {}
     /\ c.form # "shorthand" => \A i \in 1 .. Len(c.params) - 1 :
                                 c.params[i] \in c.optional => c.params[i + 1] \in c.optional}
Calls == UNION {[1 .. n -> {A!None, "a", "b", "c", "z"}] : n \in 0 .. 3} \cup {[i \in 1 .. 4 |-> A!None]}

-----------------------------------------------------------------------------
(* BindChain: two statements with every mention, three with fewer; x is an   *)
(* outer val.                                                                *)
B == INSTANCE BindChain

AStatement(kind, tag, name, mention, ok) ==
  [kind |-> kind, tag |-> tag, name |-> name, mention |-> mention[1], of |-> mention[2], ok |-> ok]
Nothing == <<"none", "">>
Mentions == {Nothing} \cup ({"name"} \X {"x", "a", "b"}) \cup ({"field", "own"} \X {"x", "a"})
Statements(kinds, tag, names, mentions) ==
  {AStatement(k, tag, n, m, ok) : k \in kinds, n \in names, m \in mentions, ok \in BOOLEAN}
TheValue == AStatement("value", 9, B!Blank, Nothing, TRUE)
TwoStatements == {<<c, d>> : c \in Statements({"bind"}, 1, {B!Blank, "x", "a"}, {Nothing, <<"name", "x">>, <<"field", "x">>}),
                             d \in Statements({"bind", "also", "val"}, 2, {B!Blank, "x", "a"}, Mentions)}
FewMentions == {Nothing, <<"name", "x">>, <<"name", "a">>}
ThreeStatements ==
  {<<c, d, e>> : c \in Statements({"bind"}, 1, {"a"}, FewMentions),
                 d \in Statements({"bind", "also", "val"}, 2, {"x", "b"}, FewMentions),
                 e \in Statements({"also", "bind"}, 3, {"x", "b"}, FewMentions)}
Outermost == [v \in {"x"} |-> <<0>>]
Blocks == TwoStatements \cup {ss \o <<TheValue>> : ss \in TwoStatements \cup ThreeStatements}

-----------------------------------------------------------------------------
(* Patterns: variants with and without fields, one field name of two types,  *)
(* a type whose first variant refers to it, and one level of nesting.        *)
Field(n, t) == [name |-> n, type |-> t]
AVariant(n, fields) == [name |-> n, fields |-> fields]
SmallSealed ==
  [s \in {"Opt", "Shape", "List", "Stack"} |->
     CASE s = "Opt" -> <<AVariant("Full", <<Field("v", <<"int">>)>>), AVariant("Empty", << >>)>>
       [] s = "Shape" -> <<AVariant("Dot", << >>),
                           AVariant("Line", <<Field("x", <<"int">>), Field("y", <<"int">>)>>),
                           AVariant("Box", <<Field("x", <<"sealed", "Opt">>)>>)>>
       [] s = "List" -> <<AVariant("Leaf", <<Field("v", <<"int">>)>>),
                          AVariant("Node", <<Field("l", <<"sealed", "List">>), Field("r", <<"sealed", "List">>)>>)>>
       [] s = "Stack" -> <<AVariant("Push", <<Field("top", <<"int">>), Field("rest", <<"sealed", "Stack">>)>>),
                           AVariant("Bottom", << >>)>>]
P == INSTANCE Patterns WITH Sealed <- SmallSealed

PairOf(t, u) == P!Tuple(<<t, u>>)
MatchedTypes ==
  {P!SealedType(s) : s \in DOMAIN SmallSealed}
    \cup {PairOf(P!SealedType("Opt"), P!SealedType("Stack")), P!Struct(<<P!Whole, P!SealedType("Opt")>>),
          P!SeqOf(P!Whole), P!SeqOf(P!SealedType("Opt"))}

WildcardPattern == [kind |-> "wildcard"]
Called(n, args) == [kind |-> "ctor", name |-> n, args |-> args]
NameIt(x) == [kind |-> "name", name |-> x]
FieldTypes(v) == [i \in DOMAIN v.fields |-> v.fields[i].type]
ListsOf(sets) == CASE Len(sets) = 0 -> {<< >>}
                   [] Len(sets) = 1 -> {<<a>> : a \in sets[1]}
                   [] Len(sets) = 2 -> {<<a, b>> : a \in sets[1], b \in sets[2]}

RECURSIVE PatternsOf(_, _), ValuesOf(_, _)
PatternLists(types, n) == ListsOf([i \in DOMAIN types |-> PatternsOf(types[i], n)])
PatternsOf(t, n) ==
  {WildcardPattern, NameIt("a"), NameIt("b")}
    \cup (IF t[1] = "int" THEN {[kind |-> "literal", value |-> i] : i \in {0, 1}} ELSE {})
    \cup (IF n = 0 THEN {}
          ELSE CASE t[1] = "int" -> {}
                 [] t[1] = "tuple" -> {[kind |-> "tuple", args |-> ps] : ps \in PatternLists(t[2], n - 1)}
                 [] t[1] = "struct" -> {Called("P", ps) : ps \in PatternLists(t[2], n - 1)}
                 [] t[1] = "seq" ->
                      {Called("P", ps \o rest) :
                         ps \in {<<p>> : p \in PatternsOf(t[2], n - 1)} \cup PatternLists(<<t[2], t[2]>>, n - 1),
                         rest \in {<< >>, <<[kind |-> "rest", name |-> "_"]>>, <<[kind |-> "rest", name |-> "c"]>>}}
                 [] t[1] = "sealed" ->
                      UNION {{Called(v.name, ps) : ps \in PatternLists(FieldTypes(v), n - 1)}
                               \cup (IF v.fields = << >> THEN {NameIt(v.name)} ELSE {})
                               : v \in {SmallSealed[t[2]][k] : k \in DOMAIN SmallSealed[t[2]]}})
ValueLists(types, n) == ListsOf([i \in DOMAIN types |-> ValuesOf(types[i], n)])
ValuesOf(t, n) ==
  CASE t[1] = "int" -> {<<"int", 0>>, <<"int", 1>>}
    [] t[1] \in {"tuple", "struct"} -> {<<t[1], vs>> : vs \in ValueLists(t[2], n)}
    [] t[1] = "seq" -> {<<"seq", vs>> : vs \in UNION {[1 .. m -> ValuesOf(t[2], n)] : m \in 0 .. 2}}
    [] t[1] = "sealed" ->
         UNION {{<<"variant", v.name, vs>> :
                   vs \in IF n = 0 /\ (\E i \in DOMAIN v.fields : v.fields[i].type = t) THEN {}
                          ELSE ValueLists(FieldTypes(v), IF n = 0 THEN 0 ELSE n - 1)}
                  : v \in {SmallSealed[t[2]][k] : k \in DOMAIN SmallSealed[t[2]]}}

-----------------------------------------------------------------------------
(* YamlCodec: structs with a container first and last, nested, in sequences  *)
(* and in maps; strings of every kind.                                       *)
StringType == <<"prim", "string">>
IntType == <<"prim", "int">>
SmallStructs ==
  [n \in {"Point", "Person", "Team", "Grid", "Index"} |->
     CASE n = "Point" -> <<Field("a", StringType), Field("b", IntType)>>
       [] n = "Person" -> <<Field("a", <<"option", StringType>>), Field("b", <<"seq", StringType>>),
                            Field("c", <<"struct", "Point">>)>>
       [] n = "Team" -> <<Field("a", <<"seq", <<"struct", "Point">>>>), Field("b", <<"seq", <<"struct", "Person">>>>),
                          Field("c", <<"option", <<"struct", "Point">>>>), Field("d", IntType)>>
       [] n = "Grid" -> <<Field("a", <<"seq", <<"seq", IntType>>>>), Field("b", <<"seq", <<"map", StringType>>>>),
                          Field("c", <<"other">>)>>
       [] n = "Index" -> <<Field("a", <<"map", <<"struct", "Point">>>>), Field("b", <<"map", <<"seq", IntType>>>>)>>]
Y == INSTANCE YamlCodec WITH Structs <- SmallStructs

Words == {Y!Word(k, k) : k \in {"plain", "number", "reserved", "special", "colon", "apostrophe"}}
KeyWords == {Y!Word("k", "plain"), Y!Word("special", "special")}
\* The fuel bounds the number of elements; one of each kind below the first level.
RECURSIVE YamlValues(_, _)
YamlLists(t, n) ==
  {<< >>} \cup {<<v>> : v \in YamlValues(t, n)}
    \cup (IF n = 0 THEN {} ELSE LET vs == YamlValues(t, 0) IN {<<v, w>> : v, w \in vs})
YamlValues(t, n) ==
  CASE t = StringType -> {<<"prim", w>> : w \in IF n = 2 THEN Words ELSE IF n = 1 THEN {Y!Word("special", "special"), Y!Word("colon", "colon")} ELSE {Y!Word("plain", "plain")}}
    [] t = IntType -> {<<"prim", Y!Word("number", "number")>>}
    [] t[1] = "option" -> {<<"none">>} \cup {<<"some", v>> : v \in YamlValues(t[2], n)}
    [] t[1] = "seq" -> {<<"seq", vs>> : vs \in YamlLists(t[2], IF n = 0 THEN 0 ELSE n - 1)}
    [] t[1] = "map" ->
         {<<"map", [i \in DOMAIN vs |-> <<ks[i], vs[i]>>]>> :
            ks \in {s \in [1 .. 2 -> KeyWords] : s[1] # s[2]}, vs \in YamlLists(t[2], IF n = 0 THEN 0 ELSE n - 1)}
    [] t[1] = "struct" ->
         LET fs == SmallStructs[t[2]]
             of(i) == YamlValues(fs[i].type, IF n = 0 THEN 0 ELSE n - 1)
         IN {<<"struct", vs>> : vs \in
               CASE Len(fs) = 2 -> of(1) \X of(2)
                 [] Len(fs) = 3 -> of(1) \X of(2) \X of(3)
                 [] Len(fs) = 4 -> of(1) \X of(2) \X of(3) \X of(4)}
    [] OTHER -> {<<"nothing">>}
AsIs == [f \in {"a", "b", "c", "d"} |-> Y!Word(f, "plain")]
Configs ==
  {[naming |-> nm, omits |-> om, renames |-> re] :
     nm \in {AsIs, [AsIs EXCEPT !["b"] = Y!Word("q", "special")], [AsIs EXCEPT !["b"] = Y!Word("a", "plain")]},
     om \in {{}, {"a", "b", "d"}}, re \in {<< >>, [f \in {"a"} |-> Y!Word("it's", "apostrophe")]}}
Documents == UNION {[struct : {n}, value : YamlValues(<<"struct", n>>, 3), config : Configs] : n \in DOMAIN SmallStructs}

-----------------------------------------------------------------------------
(* PackageMetadata: everything full or empty but for one field; views of one *)
(* type; packages that declare and import a little; nested types.            *)
D == INSTANCE PackageMetadata

AnyType == <<"func", [Params |-> << <<"generic", [Base |-> <<"named", [Package |-> "p", Name |-> "N", ImportPath |-> "q/p"]>>,
                                                  Params |-> << <<"array", [Elem |-> <<"pointer", [Elem |-> <<"void", << >> >>]>>]>>,
                                                                <<"nilType", << >> >> >>]>> >>,
                       Results |-> << <<"map", [Key |-> <<"basic", [Name |-> "k"]>>, Elem |-> <<"basic", [Name |-> "e"]>>]>> >>]>>
\* The value of a field: it holds its own name, unless it is to be empty.
RECURSIVE Filled(_, _, _, _)
FilledRecord(r, flip, base) ==
  [f \in ToSet(D!Written(r)) |->
     Filled(D!Kind(r, f), f, flip, IF flip = <<r, f>> THEN ~base ELSE base)]
Filled(k, f, flip, full) ==
  LET inner(kind) == Filled(kind, f, flip, full)
  IN CASE k = D!Str -> IF full THEN f ELSE ""
       [] k = D!Flag -> full
       [] k = D!Num -> IF full /\ f = "Line" THEN 1 ELSE IF full THEN 2 ELSE 0
       [] k = D!Type -> IF full THEN AnyType ELSE <<"nil", << >> >>
       [] k[1] = "list" -> IF ~full THEN << >> ELSE IF k[2][1] = "rec" THEN <<inner(k[2])>> ELSE <<inner(k[2]), inner(k[2])>>
       [] k[1] = "map" -> IF full THEN (IF k[2] = D!Num THEN 7 ELSE f) :> inner(k[3]) ELSE << >>
       [] k[1] = "rec" -> FilledRecord(k[2], flip, full)
       [] k[1] = "ptr" -> IF full THEN <<FilledRecord(k[2], flip, TRUE)>> ELSE << >>
RecordNames == {"RichAST", "TypeMeta", "MethodMeta", "SealedVariant", "FuncMeta", "Companion", "GoFuncSig",
                "GoTypeData", "GoTypeInfo", "GoParam", "SourcePos"}
Caches == {FilledRecord("RichAST", flip, TRUE) : flip \in UNION {{r} \X ToSet(D!Written(r)) : r \in RecordNames}}
            \cup {FilledRecord("RichAST", <<"RichAST", f>>, FALSE) : f \in ToSet(D!encodeCachedRichAST)}

\* What a view of one type knows of it.
Parts == {"fields", "params", "sealed", "doc", "fieldDocs", "m1", "m2"}
ViewOf(parts, pkg) ==
  LET part(p, x, none) == IF p \in parts THEN x ELSE none
  IN [Package |-> pkg, Methods |-> [m \in parts \cap {"m1", "m2"} |-> m], FieldNames |-> part("fields", <<"f">>, << >>),
      Fields |-> part("fields", "f" :> "t", << >>), ImmutFlags |-> part("fields", <<TRUE>>, << >>),
      TypeParams |-> part("params", <<"T">>, << >>), TypeParamConstraints |-> part("params", "T" :> "any", << >>),
      IsSealed |-> "sealed" \in parts, SealedVariants |-> part("sealed", <<"V">>, << >>),
      Doc |-> part("doc", "d", ""), FieldDocs |-> part("fieldDocs", "f" :> "d", << >>)]
Views == {ViewOf(parts, "p") : parts \in SUBSET Parts}

PackageOf(name, bare, marked, parts, doc) ==
  LET key(x) == <<IF bare THEN "" ELSE name, x>>
      pkg == IF marked THEN name ELSE ""
      entry(x) == key(x) :> [Package |-> pkg, Name |-> x]
  IN [PackageName |-> name, PackageDoc |-> doc, Types |-> key("X") :> ViewOf(parts, pkg),
      Functions |-> entry("f"), CompanionObjects |-> entry("X"), Packages |-> ("path/" \o name) :> name,
      GoExports |-> name :> <<"E">>, GoTypeInfo |-> <<name, "E">> :> "int", TypeAliases |-> name :> "int",
      ImportPathMap |-> << >>]
OwnPackages == {PackageOf(nb[1], nb[2], m, ps, d) :
                  nb \in {<<"main", TRUE>>, <<"test", TRUE>>, <<"", TRUE>>, <<"a", FALSE>>}, m \in BOOLEAN,
                  ps \in {{}, {"m1"}, Parts}, d \in {"", "own"}}
Imported == {PackageOf(n, FALSE, TRUE, ps, d) : n \in {"b", "c"}, ps \in {{"m2"}, Parts \ {"m1"}}, d \in {"", "theirs"}}
Halves == {PackageOf("a", FALSE, TRUE, ps, d) : ps \in {{}, {"m1", "fields"}, Parts}, d \in {"", "own"}}

PlainText == {<<"basic", [Name |-> n]>> : n \in {"int", "T"}}
               \cup {<<"named", [Package |-> "p", Name |-> "N", ImportPath |-> ""]>>}
RECURSIVE TypeTexts(_)
TypeTexts(n) ==
  IF n = 0 THEN PlainText
  ELSE LET ts == TypeTexts(n - 1)
       IN ts \cup {<<"array", [Elem |-> t]>> : t \in ts} \cup {<<"pointer", [Elem |-> t]>> : t \in ts}
             \cup {<<"map", [Key |-> k, Elem |-> t]>> : k \in PlainText, t \in ts}
             \cup {<<"generic", [Base |-> b, Params |-> ps]>> : b \in PlainText, ps \in {<<t>> : t \in ts} \cup {<<t, u>> : t \in ts, u \in TypeTexts(0) \cup {<<"array", [Elem |-> x]>> : x \in PlainText}}}

-----------------------------------------------------------------------------
(* Collection: two files of one and two declarations, each of which imports  *)
(* the package of E with a dot, by name or not at all.                       *)
N == INSTANCE Collection WITH Std <- {"Option"}, Basic <- {"int", "bool", "uint8"}, Exports <- "p" :> {"E"}

Name(n) == N!Is("", n, << >>)
Of1(n, t) == N!Is("", n, <<t>>)
Taken == N!Is("p", "E", << >>)
Member(n, t) == [name |-> n, type |-> t]
Blank == [kind |-> "", name |-> "", params |-> << >>, fields |-> << >>, variants |-> << >>,
          receiver |-> Name("X"), ptypes |-> << >>, result |-> Name("int"), type |-> N!Untyped]
StructIs(kind, n, params, fields) == [Blank EXCEPT !.kind = kind, !.name = n, !.params = params, !.fields = fields]
MethodIs(receiver, n, ptypes, result) ==
  [Blank EXCEPT !.kind = "method", !.name = n, !.receiver = receiver, !.ptypes = ptypes, !.result = result]
Declarations ==
  {StructIs("struct", "X", << >>, <<Member("a", Name("int")), Member("b", Name("E"))>>),
   StructIs("shorthand", "X", <<"T">>, <<Member("a", Name("T")), Member("b", Of1("Y", Name("T")))>>),
   StructIs("interface", "Y", << >>, <<Member("m", Name("E"))>>),
   [StructIs("alias", "Y", << >>, << >>) EXCEPT !.type = Name("X")],
   [StructIs("sealed", "Y", <<"T">>, << >>) EXCEPT
      !.variants = <<[name |-> "A", fields |-> <<Member("a", Name("T")), Member("b", Name("E"))>>],
                     [name |-> "B", fields |-> <<Member("b", Name("E")), Member("a", Name("E"))>>]>>],
   MethodIs(Name("X"), "m", <<Name("E")>>, Name("X")),
   MethodIs(Of1("X", Name("T")), "m", <<Name("T")>>, Of1("X", Of1("X", Name("T")))),
   MethodIs(Of1("X", Name("T")), "n", << >>, Of1("Option", Name("Y"))),
   [Blank EXCEPT !.kind = "func", !.name = "f", !.params = <<"T">>, !.ptypes = <<Name("T")>>, !.result = Taken],
   [Blank EXCEPT !.kind = "func", !.name = "f", !.ptypes = <<Name("X")>>, !.result = Name("A")],
   [Blank EXCEPT !.kind = "val", !.name = "v", !.type = Name("E")],
   [Blank EXCEPT !.kind = "var", !.name = "w"]}
ImportForms == {"dot", "named", "none"}
FileIs(form, decls) == [imports |-> "p" :> form, decls |-> decls]
FileOf(package, test, decls) == FileIs("none", decls) @@ [package |-> package, test |-> test]
Directories ==
  [1 .. 3 -> {FileOf(n, test, <<d>>) : n \in {"p", "q"}, test \in BOOLEAN,
                d \in {e \in Declarations : e.kind \in {"shorthand", "func"}}}]
PackageFiles ==
  {<<FileIs(a, <<d>>), FileIs(b, <<e, g>>)>> :
     a \in ImportForms, b \in {"dot"}, d, e \in Declarations, g \in {f \in Declarations : f.kind # "var"}}

-----------------------------------------------------------------------------
(* ValLowering: bodies of one to three statements over parameters of every   *)
(* kind.                                                                     *)
L == INSTANCE ValLowering
       WITH Structs <- [n \in {"Point", "Line", "Tuple"} |->
              LET of(t, v) == [type |-> t, val |-> v]
              IN CASE n = "Point" -> ("x" :> of(<<"int">>, TRUE)) @@ ("y" :> of(<<"int">>, FALSE))
                   [] n = "Line" -> ("a" :> of(<<"Point">>, TRUE)) @@ ("b" :> of(<<"Point">>, FALSE))
                                      @@ ("p" :> of(<<"ptr", "Point">>, TRUE))
                   [] n = "Tuple" -> ("V1" :> of(<<"int">>, TRUE)) @@ ("V2" :> of(<<"Point">>, TRUE))]

Param(n, t, v) == [name |-> n, type |-> t, val |-> v]
SomeParams ==
  <<Param("v", <<"int">>, TRUE), Param("n", <<"int">>, FALSE), Param("m", <<"imm", "int">>, FALSE),
    Param("k", <<"Point">>, TRUE), Param("o", <<"Point">>, FALSE), Param("q", <<"ptr", "Point">>, FALSE),
    Param("c", <<"const", "Point">>, FALSE), Param("l", <<"Line">>, FALSE), Param("t", <<"Tuple">>, FALSE),
    Param("s", <<"slice", "Point">>, TRUE), Param("z", <<"slice", "imm", "int">>, FALSE)>>
Var(x) == <<"name", x>>
The(e, f) == <<"field", e, f>>
Plus(d, e) == <<"op", "+", d, e>>
Less(d, e) == <<"op", "<", d, e>>
ANum == <<"num">>
Points == {Var("k"), Var("o"), Var("q"), Var("c"), The(Var("l"), "a"), The(Var("l"), "b"), The(Var("l"), "p"),
           The(Var("t"), "V2"), <<"at", Var("s"), Var("v")>>, <<"deref", Var("q")>>, <<"deref", Var("c")>>}
Places == {Var("v"), Var("n"), Var("m"), <<"at", Var("z"), ANum>>} \cup {The(e, f) : e \in Points, f \in {"x", "y"}}
Simple == Places \cup Points \cup {Plus(Var("m"), Var("v")), Plus(ANum, The(Var("t"), "V1")), <<"neg", Var("m")>>,
                                   <<"at", Var("z"), Var("m")>>, The(Var("o"), "q")}
Addresses == {<<"addr", e>> : e \in Places \cup Points}
BranchOf(x, e, value) == [decls |-> IF x = "" THEN << >> ELSE << <<"val", <<x>>, e>> >>, value |-> value]
IfExpressions == {<<"if", Less(Var("m"), Var("v")), BranchOf(x, Var(e), Var(r)), BranchOf(y, ANum, ANum)>> :
              x \in {"b", "n", "o", ""}, y \in {"", "b", "c"}, e \in {"n", "k"}, r \in {"b", "v", "n"}}
AVal(kind, x, e, declared) == <<kind, <<x>>, e, declared>>
Decls == {AVal(kind, "a", e, << >>) : kind \in {"val", "var", "short"}, e \in Simple \cup Addresses}
           \cup {AVal(kind, "a", e, <<"int">>) : kind \in {"val", "var"}, e \in Places}
           \cup {AVal(kind, "a", <<"addr", Var("k")>>, <<"const", "Point">>) : kind \in {"val", "var"}}
           \cup {<<"vals", <<"a", "b">>, <<d, e>> >> : d \in Points, e \in Places}
           \cup {<<"multi", <<"a", "b">>, <<"two">> >>, <<"tuple", <<"b", "a">>, Var("t")>>, <<"tuple", <<"a", "b">>, Var("k")>>}
Returned == {Var("a"), The(Var("a"), "x"), The(Var("a"), "y"), Plus(Var("a"), ANum), <<"deref", Var("a")>>}
Return(e) == <<"return", e>>
Assigns(es, values) == {<<"assign", e, r>> : e \in es, r \in values}
Lefts == Places \cup Points \cup {<<"deref", Var("q")>>}
Rights == {ANum, Var("m"), Var("k"), Var("q")}
Writes == Assigns({Var("a"), The(Var("a"), "x"), The(Var("a"), "y"), <<"deref", Var("a")>>}, {ANum, Var("o")})
            \cup {<<"inc", e>> : e \in {Var("a"), The(Var("a"), "y")}}
Holders == {AVal(kind, "a", e, << >>) : kind \in {"val", "var", "short"},
                                      e \in {ANum, Var("k"), Var("q"), Var("m"), <<"addr", Var("n")>>, <<"addr", Var("v")>>}}
\* A statement in a block of its own, with a name of that block or the outer one.
Nested(inner) ==
  {<<"if", init, Less(Var(x), ANum), <<inner>>, << >> >> :
     init \in {<< >>, <<"short", <<"a">>, Var("n")>>, <<"assign", Var("a"), ANum>>, <<"inc", Var("n")>>}, x \in {"a", "m"}}
    \cup {<<"range", fresh, names, e, <<inner>> >> :
            fresh \in BOOLEAN, names \in {<<"a">>, <<"n", "a">>}, e \in {Var("s"), Var("z")}}
    \cup {<<"for", <<"short", <<"a">>, ANum>>, Less(Var("a"), Var("v")), <<"inc", Var("a")>>, <<inner>> >>}
Inner == {<<"inc", Var("a")>>, Return(Var("a")), AVal("val", "a", Var("k"), << >>), AVal("var", "a", ANum, << >>)}
Bodies ==
  {<<d, Return(e)>> : d \in Decls, e \in Returned}
    \cup {<<AVal("val", "a", e, << >>), Return(r)>> : e \in IfExpressions, r \in {Var("a"), Var("n"), The(Var("o"), "x")}}
    \cup {<<a>> : a \in Assigns(Lefts, Rights \cup IfExpressions) \cup {<<"inc", e>> : e \in Lefts}}
    \cup {<<d, w, Return(ANum)>> : d \in Holders, w \in Writes}
    \cup {<<d, n, Return(Var("a"))>> : d \in {AVal(k, "a", e, << >>) : k \in {"val", "var"}, e \in {ANum, Var("k")}},
                                      n \in UNION {Nested(i) : i \in Inner}}

-----------------------------------------------------------------------------
(* ModuleLookup: a project p, a search path q, a collection s and a cached    *)
(* module c, with directories below, manifests and search paths.             *)
H == INSTANCE ModuleLookup
       WITH Names <- <<"a", "b", "c", "internal", "m", "p", "q", "s", "x">>, Hosts <- {"h"}, Skipped <- {},
            GalaModule <- <<"m", "g">>, Cwd <- <<"p">>

Directory(gala, galaMod, goMod) == [gala |-> gala, galaMod |-> galaMod, goMod |-> goMod]
Plain == Directory(TRUE, {}, {})
NoGala == Directory(FALSE, {}, {})
BelowProject ==
  {<< >>, <<"p", "x">> :> Plain, <<"p", "x">> :> NoGala, (<<"p", "b">> :> NoGala) @@ (<<"p", "b", "x">> :> Plain),
   (<<"p", "internal">> :> NoGala) @@ (<<"p", "internal", "x">> :> Plain) @@ (<<"q", "internal">> :> Plain)
      @@ (<<"p", "x">> :> Plain)}
BelowCollection == {<<"s", "x">> :> Directory(TRUE, {<<"b", "x">>}, {}), <<"s", "x">> :> Directory(TRUE, {}, {<<"m", "g", "x">>})}
FileSystems ==
  {(<<"p">> :> d) @@ below @@ (<<"q">> :> e) @@ (<<"q", "x">> :> Plain)
     @@ (<<"s">> :> NoGala) @@ (<<"c">> :> Directory(TRUE, {<<"h", "b">>}, {})) @@ (<<"c", "x">> :> Plain) :
    d \in {Directory(TRUE, {<<"h", "a">>}, {<<"a">>}), Directory(TRUE, {<<"a">>}, {}), Directory(TRUE, {}, {<<"h", "a">>})},
    e \in {Directory(TRUE, {<<"h", "b">>}, {}), Directory(TRUE, {}, {<<"b">>})}, below \in BelowProject \cup BelowCollection}
Require(path, cached, go) == <<[path |-> path, cached |-> cached, go |-> go]>>
Manifest(require, replace) == [require |-> require, replace |-> replace]
Manifests ==
  {Manifest(require, << >>) : require \in {<< >>, Require(<<"h", "b">>, <<"c">>, TRUE)}
      \cup {Require(p, c, FALSE) : p \in {<<"h", "b">>, <<"h", "b", "x">>}, c \in {<< >>, <<"c">>}}}
    \cup {Manifest(Require(<<"h", "b">>, <<"c">>, FALSE),
                   <<[old |-> <<"h", "b">>, versioned |-> v, local |-> n # <<"h", "d">>, new |-> n]>>) :
            v \in BOOLEAN, n \in {<<"q">>, <<"p", "b">>, <<"h", "d">>}}
SearchPaths == {<<<<"p">>, <<"q">>>>, <<<<"p", "x">>, <<"s">>>>}
ImportPaths ==
  {<<"a">>, <<"h", "a">>, <<"a", "x">>, <<"h", "a", "x">>, <<"b">>, <<"h", "b">>, <<"h", "b", "x">>, <<"b", "x">>, <<"x">>,
   <<"m", "g", "x">>, <<"h", "a", "internal", "x">>, <<"b", "internal">>}

-----------------------------------------------------------------------------
(* FileImports: files of one import and two uses, and of two and one.        *)
GoPackage(path, type, function) ==
  [name |-> path, base |-> path, gala |-> FALSE, go |-> path, types |-> {type}, functions |-> {function}, others |-> {}]
GalaPackage(path, name, go, type, function, others) ==
  [name |-> name, base |-> path, gala |-> TRUE, go |-> go, types |-> {type}, functions |-> {function}, others |-> others]
KnownPackages ==
  [p \in {"std", "array", "lib", "srv", "fs", "fmt", "utf8", "embed"} |->
     CASE p = "std" -> GalaPackage(p, p, p, "Option", "Some", {})
       [] p = "array" -> GalaPackage(p, p, p, "List", "Tabulate", {})
       [] p = "lib" -> GalaPackage(p, "box", p, "Box", "Make", {"Zero"})
       [] p = "srv" -> GalaPackage(p, p, "host/srv", "Server", "Serve", {})
       [] p = "fs" -> GoPackage(p, "Info", "Stat")
       [] p = "fmt" -> GoPackage(p, "Stringer", "Sprintf")
       [] p = "utf8" -> GoPackage(p, "Rune", "Decode")
       [] p = "embed" -> GoPackage(p, "FS", "Open")]
G == INSTANCE FileImports WITH Packages <- KnownPackages, Std <- "std", Collection <- "array", Fmt <- "fmt",
                               Utf8 <- "utf8", Embed <- "embed"

FileImport ==
  {G!Import(path, alias, FALSE) : path \in {"lib", "srv", "fs", "array"}, alias \in {"", "as", "array"}}
    \cup {G!Import(path, "", TRUE) : path \in {"std", "lib", "array", "fs"}}
    \cup {G!Import(path, "", FALSE) : path \in {"std", "fmt", "embed"}}
OneUse ==
  {G!Use("type", "", n) : n \in {"Option", "Box", "List", "Info", "Mine"}}
    \cup {G!Use("value", "", n) : n \in {"Some", "Make", "Zero", "Stat", "mine"}}
    \cup {G!Use("selector", q, n) : q \in {"as", "box", "array", "fs"}, n \in {"Box", "List", "Stat"}}
    \cup UNION {{G!Use("inferred", p, n) : n \in KnownPackages[p].types} : p \in {"std", "lib", "array", "srv", "fs"}}
    \cup UNION {{G!Use("method", p, n) : n \in KnownPackages[p].functions} : p \in {"std", "lib", "array", "srv"}}
    \cup {G!Use("needed", "fmt", "Sprintf"), G!Use("needed", "utf8", "Decode"), G!Use("needed", "array", "List"),
          G!Use("needed", "std", "Option"), G!Use("needed", "embed", "FS"), G!Use("text", "embed", "string")}
GalaFiles ==
  [package : {"main", "fs"}, imports : {<<i>> : i \in FileImport}, body : {<< >>} \cup {<<u>> : u \in OneUse},
   loaded : {<<"std">>, <<"lib", "std">>, <<"array", "std", "lib", "srv">>}]
    \cup [package : {"main"}, imports : {<<i>> : i \in FileImport}, body : OneUse \X OneUse,
          loaded : {<<"std", "srv", "lib", "array">>}]
    \cup [package : {"main"}, imports : FileImport \X FileImport, body : {<<u>> : u \in OneUse},
          loaded : {<<"std", "array", "lib", "srv">>}]
GalaFile(file) == [own |-> [types |-> {IF file.package = "fs" THEN "Info" ELSE "Mine"}, functions |-> {"mine"}]] @@ file
\* What is imported, inferred or called was loaded, and a use means one thing.
IsUnderstood(file) ==
  /\ \A i \in ToSet(file.imports) : KnownPackages[i.path].gala => G!Loaded(file, i.path)
  /\ \A u \in ToSet(file.body) :
       /\ u.kind \in {"inferred", "method"} /\ KnownPackages[u.of].gala => G!Loaded(file, u.of)
       /\ Cardinality(G!Meanings(file, u)) = 1

-----------------------------------------------------------------------------
(* One subject of each behaviour, and then one argument.                     *)

Start == [what |-> "start"]
Chosen(subject) == [what |-> "chosen", subject |-> subject]
Arguments(subject) ==
  CASE subject = "infer" -> [e : Expressions]
    [] subject = "loop" -> [body : LoopBodies, pars : (0 .. 2) \X (0 .. 1)]
    [] subject = "match" -> [form : {"expression", "postfix"},
                             cs : UNION {[1 .. n -> Clauses] : n \in 1 .. 3}]
    [] subject = "type" -> [type : SharedTypes]
    [] subject = "call" -> [callee : Callees, args : Calls]
    [] subject = "block" -> [stmts : Blocks, zips : {{}, {2}, {2, 3}}]
    [] subject = "pattern" -> UNION {[type : {t}, pattern : PatternsOf(t, 2)] : t \in MatchedTypes}
    [] subject = "closure" -> [x : OuterX, y : OuterY, body : ClosureBodies]
                                \cup [x : Parameters, y : {AnIntParameter}, body : ClosureBodies]
    [] subject = "yaml" -> Documents
    [] subject = "cache" -> [content : Caches]
    [] subject = "views" -> [ours : Views, theirs : Views]
    [] subject = "packages" -> [own : OwnPackages \cup Halves, imports : {<< >>} \cup {<<p>> : p \in Imported}
                                                            \cup {<<p, q>> : p, q \in Imported}]
    [] subject = "merged" -> [r : OwnPackages \cup Halves, other : Imported \cup Halves]
    [] subject = "package" -> [files : PackageFiles]
    [] subject = "directory" -> [files : Directories]
    [] subject = "text" -> [type : TypeTexts(2)]
    [] subject = "body" -> [body : Bodies]
    [] subject = "import" -> [fs : FileSystems, manifest : Manifests, searchPaths : SearchPaths]
    [] subject = "names" -> GalaFiles
    [] subject = "file" ->
         [file : {<<d>> : d \in {e \in Users : e.kind = "func" /\ ~e.method}}, context : Contexts]
           \cup [file : Files,
                 context : {d \in AllLoaded : d.packages["p"].imported = d.packages["g"].imported}]

Init == argument = Start
ChooseSubject == argument = Start /\ \E s \in Subjects : argument' = Chosen(s)
ChooseArgument == /\ argument.what = "chosen"
                  /\ \E a \in Arguments(argument.subject) :
                        argument' = [what |-> argument.subject] @@ a
Next == ChooseSubject \/ ChooseArgument
Spec == Init /\ [][Next]_argument

-----------------------------------------------------------------------------
(* Properties, each of its own subject.                                     *)

\* Infer: the type inferred is sound and principal (infer.go:124).
InfersThePrincipalType ==
  Of("infer") => I!InfersThePrincipalType(Library, GroundLibrary, argument.e, Small, Large)

\* TailCalls: the loop computes what the recursion does, and no call is left
\* where all are in tail position (tco.go:32).
LoopsMeanTheirCalls ==
  Of("loop") => /\ T!LoopAgrees(argument.body, argument.pars)
                /\ T!RunsInConstantStack(argument.body)

\* Matching, Patterns: the first clause that fits runs, the panic of an exhaustive
\* match is out of reach, and what covers every value is accepted (match.go:880); a
\* pattern matches what it means, with the bindings it means (patterns.go:60).
FirstMatchWins ==
  /\ Of("match") => /\ \A v \in ThreeValues :
                         /\ M!FirstMatchWins(argument.form, TwoVariants, argument.cs, v)
                         /\ M!NeverUnreachable(TwoVariants, argument.cs, v)
                    /\ M!CoveringIsAccepted(argument.form, TwoVariants, argument.cs)
  /\ Of("pattern") => \A v \in ValuesOf(argument.type, 1) :
                        P!PatternMeansItsText(argument.pattern, v, argument.type)

\* CallArguments: every argument reaches its parameter, and a call that means
\* nothing is refused (calls.go:2872).
CallsAreBound == Of("call") => /\ A!CallsAreBound(argument.callee, argument.args)
                               /\ A!OthersAreRefused(argument.callee, argument.args)

\* BindChain: the calls do what the clauses say, no clause sees a sibling, and
\* what is well-formed is accepted (bind.go:213).
BlockMeansItsClauses ==
  Of("block") => /\ B!BlockMeansItsClauses(argument.stmts, Outermost, argument.zips)
                 /\ B!WellFormedIsAccepted(argument.stmts, DOMAIN Outermost, argument.zips)

\* ValLowering: a body compiles when it means something and then only, with every
\* val unwrapped where it is read and none written (expressions.go:946).
CompilesIfMeant ==
  Of("body") => L!CompilesIfMeant(SomeParams, argument.body, <<"int">>,
                                  {"a", "v", "n", "m", "k", "o", "q", "c", "l", "t", "s", "z"})

World == [v \in {"x", "y"} |-> IF v = "x" THEN argument.x ELSE argument.y]
Closure == C!Lambda(<< >>, argument.body)

\* Shareable, Captures: a type is shareable exactly when nothing writable can be
\* reached from it, and no closure that races is let through (shareable.go:101,
\* concurrency_check.go:174); the names captured are those looked up outside
\* (capture.go:21).
SharingIsSafe == /\ Of("type") => C!ShareableIsDeep(argument.type)
                 /\ Of("closure") => /\ C!RacesAreRejected(World, Closure)
                                     /\ C!CapturesAreLookUps(Closure, {"a"})

\* UndefinedNames: no defined name is reported, whatever failed to load, and in
\* a file that is checked every undefined one is (undefined_symbol.go:348).
UndefinedIsReported == Of("file") => /\ U!NoFalseAlarm(argument.file, argument.context)
                                     /\ U!NothingIsMissed(argument.file, argument.context)

\* YamlCodec, PackageMetadata: what a struct, the metadata of a package or a
\* type is written as is read back as it was (codec_typed.go:44,
\* cache_codec.go:14, types.go:252).
CodecsRoundTrip ==
  /\ Of("yaml") => Y!RoundTrips(argument.struct, argument.value, argument.config)
  /\ Of("cache") => /\ D!CacheRoundTrips(argument.content)
                    /\ \A quarters \in 0 .. 4 : D!TornIsRefused(argument.content, quarters)
  /\ Of("text") => D!TextIsParsedBack(argument.type)

\* PackageMetadata: nothing that a package knows is lost when it is merged, cut
\* down to its own and merged again (transpiler.go:134, cache.go:55).
MergesLoseNothing ==
  /\ Of("views") => D!ViewsJoin(argument.ours, argument.theirs)
  /\ Of("packages") => D!ProjectionIsEnough(argument.own, argument.imports)
  /\ Of("merged") => D!MergeIsIdempotent(argument.r, argument.other)

\* Collection: whichever file of a package is analysed, every declaration is
\* known by its meaning, what is declared twice is reported, and what a file
\* names it imports (analyzer.go:1536).
PackageIsCollected ==
  /\ Of("directory") => \A main \in 1 .. 3 : N!TestsAreApart(argument.files, main)
  /\ Of("package") => N!PackageIsAnalysed(argument.files)

\* ModuleLookup: a package is found where its module puts it, said to be GALA's when
\* what is found is, named in Go as its module says, and internal packages are kept
\* (resolver.go:299).
ImportsAreFound ==
  Of("import") => H!ImportsAreFound(H!NewResolver(argument.fs, argument.searchPaths, argument.manifest), argument.fs,
                                    {<<"p">>, <<"q">>, <<"p", "x">>}, ImportPaths)

\* FileImports: every import of the Go file is used, and every name in it denotes what
\* it means in the source (imports.go:308).
UsesReachTheirPackages ==
  Of("names") => LET file == GalaFile(argument) IN IsUnderstood(file) => G!UsesReachTheirPackages(file)
=============================================================================
