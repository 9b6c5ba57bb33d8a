------------------------------ MODULE Patterns ------------------------------
(***************************************************************************)
(* What a GALA pattern becomes in Go (transformer/patterns.go) and how the *)
(* variants of a sealed type are laid out (transformer/sealed.go): one Go  *)
(* struct with the fields of every variant and a tag, whose companions     *)
(* take it apart with Unapply.                                             *)
(*                                                                         *)
(* A pattern is lowered to statements that bind and test, then to a        *)
(* condition: the statements of a nested pattern run whether the outer one *)
(* matched or not.  Types are Int, sealed types, tuples, structs and       *)
(* sequences.  Not modelled: typed patterns, extractors written by hand,   *)
(* explicit type arguments, and matched types that are unknown or any.     *)
(***************************************************************************)
EXTENDS Integers, Sequences, FiniteSets, TLC

CONSTANT Sealed     \* the variants of each sealed type, in order: [name, fields]

Whole == <<"int">>
SealedType(s) == <<"sealed", s>>
Tuple(ts) == <<"tuple", ts>>
Struct(ts) == <<"struct", ts>>
SeqOf(t) == <<"seq", t>>

IsSealed(t) == t[1] = "sealed"
Variants(t) == IF IsSealed(t) THEN Sealed[t[2]] ELSE << >>
VariantNames(t) == {Variants(t)[k].name : k \in DOMAIN Variants(t)}
\* Sealed types declare no variant twice.
Numbered(t, name) == CHOOSE k \in DOMAIN Variants(t) : Variants(t)[k].name = name

-----------------------------------------------------------------------------
(* The layout of a sealed type.                                              *)

Fields(t, k) == Variants(t)[k].fields
AllFields(t) == UNION {{Fields(t, k)[i] : i \in DOMAIN Fields(t, k)} : k \in DOMAIN Variants(t)}

conflictingFields(t) == {f.name : f \in {g \in AllFields(t) : \E h \in AllFields(t) :
                                           g.name = h.name /\ g.type # h.type}}
structFieldName(t, k, i) ==
    LET f == Fields(t, k)[i]
    IN  IF f.name \in conflictingFields(t) THEN Variants(t)[k].name \o f.name ELSE f.name

\* The fields of the Go struct with their types.
Slots(t) == UNION {{<<structFieldName(t, k, i), Fields(t, k)[i].type>> : i \in DOMAIN Fields(t, k)}
                     : k \in DOMAIN Variants(t)}
IsRecursive(type, t) == type = t

\* A recursive field is a pointer.
Nil == <<"nil">>
RECURSIVE Zero(_)
Zero(t) ==
    CASE t[1] = "int" -> <<"int", 0>>
      [] t[1] = "seq" -> <<"seq", << >>>>
      [] t[1] \in {"tuple", "struct"} -> <<t[1], [i \in DOMAIN t[2] |-> Zero(t[2][i])]>>
      [] IsSealed(t) -> <<"tagged", 1, {<<s[1], IF IsRecursive(s[2], t) THEN Nil ELSE Zero(s[2])>>
                                          : s \in Slots(t)}>>

Slot(value, name) == (CHOOSE s \in value[3] : s[1] = name)[2]
Pointed(value) == IF value = Nil THEN << >> ELSE value

\* Apply: the tag, the variant's own fields, and zeros elsewhere.
Apply(t, k, values) ==
    LET own == {<<structFieldName(t, k, i), values[i]>> : i \in DOMAIN values}
    IN  <<"tagged", k, own \cup {z \in Zero(t)[3] : \A s \in own : s[1] # z[1]}>>

\* Unapply: the fields when the tag is the variant's; reading a recursive field
\* that is nil panics.
Unapply(t, k, value) ==
    LET fields == [i \in DOMAIN Fields(t, k) |-> Slot(value, structFieldName(t, k, i))]
        ok == value[2] = k
    IN  [ok |-> ok, fields |-> fields, panics |-> ok /\ \E i \in DOMAIN fields : fields[i] = Nil]

-----------------------------------------------------------------------------
(* Lowered patterns.  "outside" says that there are statements before the    *)
(* condition.                                                                *)

Lowered(ok, env, outside) ==
    [compiles |-> TRUE, panics |-> FALSE, ok |-> ok, env |-> env, outside |-> outside]
Refused == [compiles |-> FALSE, panics |-> FALSE, ok |-> FALSE, env |-> << >>, outside |-> FALSE]
Test(ok) == Lowered(ok, << >>, FALSE)
Binding(x, value) == Lowered(TRUE, x :> value, TRUE)

\* Both: the statements of one after those of the other, the conditions joined;
\* Go refuses a second ":=" of a name.
Both(r, s) ==
    [compiles |-> r.compiles /\ s.compiles /\ DOMAIN r.env \cap DOMAIN s.env = {},
     panics |-> r.panics \/ s.panics, ok |-> r.ok /\ s.ok, env |-> r.env @@ s.env,
     outside |-> r.outside \/ s.outside]
RECURSIVE All(_)
All(rs) == IF rs = << >> THEN Test(TRUE) ELSE Both(Head(rs), All(Tail(rs)))

\* What a variant's arguments look at: the elements of a tuple, when there are as
\* many, or each the whole.
Inner(types) == IF Len(types) = 1 THEN types[1] ELSE Tuple(types)
InnerValue(values) == IF Len(values) = 1 THEN values[1] ELSE <<"tuple", values>>
ElementsWhole(args, type, value) == [i \in DOMAIN args |-> <<value, type>>]     \* a mutant: no expansion
Elements(args, type, value) ==
    IF type[1] = "tuple" /\ Len(args) > 1 /\ Len(args) = Len(type[2])
    THEN [i \in DOMAIN args |-> <<value[2][i], type[2][i]>>]
    ELSE [i \in DOMAIN args |-> <<value, type>>]

IsRest(p) == p.kind = "rest"
Unrest(p) == IF ~IsRest(p) THEN p
             ELSE [kind |-> IF p.name = "_" THEN "wildcard" ELSE "name", name |-> p.name]
HasRest(args) == \E i \in DOMAIN args : IsRest(args[i])

RECURSIVE transformPattern(_, _, _)
Each(args, elements) ==
    All([i \in DOMAIN args |-> transformPattern(args[i], elements[i][1], elements[i][2])])

\* A variant's companion is called.  The guarded Get leaves the zero value when
\* the tag is another one, and the arguments look at it all the same.
FieldTypes(t, k) == [i \in DOMAIN Fields(t, k) |-> Fields(t, k)[i].type]
Extracted(t, k, value) ==
    LET result == Unapply(t, k, value)
    IN  [found |-> [Lowered(result.ok, << >>, TRUE) EXCEPT !.panics = result.panics],
         inner |-> IF result.ok THEN InnerValue(result.fields) ELSE Zero(Inner(FieldTypes(t, k)))]
generateDirectUnapplyPattern(k, args, value, t) ==
    LET types == FieldTypes(t, k)
        extracted == Extracted(t, k, value)
    IN  IF extracted.found.panics \/ args = << >> \/ types = << >> THEN extracted.found
        ELSE Both(extracted.found, Each(args, Elements(args, Inner(types), extracted.inner)))

\* A sequence: the elements are read inside the block of the size check, where
\* the statements of a nested pattern are out of reach of the condition.
scanSeqPatternArgs(args) ==
    [nonRest |-> Cardinality({i \in DOMAIN args : ~IsRest(args[i])}),
     named |-> HasRest(args) /\ args[Len(args)].name # "_"]
Enough(value, n) == Len(value[2]) >= n
emitSizeCheck(value, n) == Lowered(Enough(value, n), << >>, TRUE)
Inside(arg, value, t) ==
    LET r == transformPattern(arg, value, t)
    IN  IF arg.kind # "name" /\ r.outside THEN Refused ELSE r
\* What is left of the sequence, or none of it when it is too short.
emitRestBinding(name, value, n) ==
    Binding(name, <<"seq", IF Enough(value, n) THEN SubSeq(value[2], n + 1, Len(value[2])) ELSE << >>>>)
generateSeqPatternMatch(args, value, t) ==
    LET scan == scanSeqPatternArgs(args)
        n == scan.nonRest
        read == [i \in 1 .. n |-> IF Enough(value, n) THEN value[2][i] ELSE Zero(t[2])]
        rest == IF scan.named THEN emitRestBinding(args[Len(args)].name, value, n) ELSE Test(TRUE)
    IN  IF args = << >> THEN Test(TRUE)
        ELSE IF \E i \in 1 .. Len(args) - 1 : IsRest(args[i]) THEN Refused
        ELSE Both(emitSizeCheck(value, n),
                  Both(All([i \in 1 .. n |-> Inside(args[i], read[i], t[2])]), rest))

\* A tuple or a struct: the arguments look at its first fields.  Go finds out
\* that a tuple has no such field, the transformer that a struct has not.
FirstFields(args, value, t) ==
    IF Len(args) > Len(t[2]) THEN Refused
    ELSE Each(args, [i \in DOMAIN args |-> <<value[2][i], t[2][i]>>])
generateDirectTupleStructMatch(args, value, t) == FirstFields(args, value, t)
generateDirectStructFieldMatch(args, value, t) == FirstFields(args, value, t)

Companions == UNION {{v.name : v \in {Sealed[s][k] : k \in DOMAIN Sealed[s]}} : s \in DOMAIN Sealed}
transformConstructorCallPattern(name, args, value, t) ==
    IF name \in VariantNames(t) /\ ~HasRest(args)
    THEN generateDirectUnapplyPattern(Numbered(t, name), args, value, t)
    ELSE IF name \in Companions THEN Refused
    ELSE IF t[1] = "seq" THEN generateSeqPatternMatch(args, value, t)
    ELSE IF HasRest(args) THEN Refused
    ELSE IF t[1] = "tuple" THEN generateDirectTupleStructMatch(args, value, t)
    ELSE IF t[1] = "struct" /\ name = "P" THEN generateDirectStructFieldMatch(args, value, t)
    ELSE Refused

transformPattern(p, value, t) ==
    CASE p.kind = "wildcard" -> Test(TRUE)
      [] p.kind = "name" -> Binding(p.name, value)
      [] p.kind = "literal" -> IF t = Whole THEN Test(value = <<"int", p.value>>) ELSE Refused
      [] p.kind = "tuple" -> IF t[1] = "tuple" /\ ~HasRest(p.args)
                             THEN generateDirectTupleStructMatch(p.args, value, t) ELSE Refused
      [] p.kind = "ctor" -> transformConstructorCallPattern(p.name, p.args, value, t)
      [] p.kind = "rest" -> Refused

\* A clause's own pattern: a name alone may be a variant, and the number of a
\* variant's arguments is checked.
Bare(p) == p.kind = "name" /\ p.name \in Companions
validateSealedVariantArity(p, t) ==
    p.kind = "ctor" /\ p.name \in VariantNames(t) => Len(p.args) = Len(Fields(t, Numbered(t, p.name)))
Guards == UNION {{v.name : v \in {w \in {Sealed[s][k] : k \in DOMAIN Sealed[s]} : w.fields = << >>}}
                   : s \in DOMAIN Sealed}
transformCaseClause(p, value, t) ==
    IF ~validateSealedVariantArity(p, t) THEN Refused
    ELSE IF ~Bare(p) THEN transformPattern(p, value, t)
    ELSE IF p.name \in VariantNames(t) /\ Fields(t, Numbered(t, p.name)) = << >>
         THEN transformConstructorCallPattern(p.name, << >>, value, t)
    ELSE IF p.name \in VariantNames(t) \cup Guards THEN Refused
    ELSE Binding(p.name, value)

-----------------------------------------------------------------------------
(* What patterns mean, over values of the source: a variant is its name and  *)
(* its fields.                                                               *)

RECURSIVE Encode(_, _)
EncodeAll(values, types) == [i \in DOMAIN values |-> Encode(values[i], types[i])]
Encode(v, t) ==
    CASE t[1] = "int" -> v
      [] t[1] = "seq" -> <<"seq", [i \in DOMAIN v[2] |-> Encode(v[2][i], t[2])]>>
      [] t[1] \in {"tuple", "struct"} -> <<t[1], EncodeAll(v[2], t[2])>>
      [] IsSealed(t) ->
           LET k == Numbered(t, v[2])
           IN  Apply(t, k, EncodeAll(v[3], [i \in DOMAIN Fields(t, k) |-> Fields(t, k)[i].type]))

NoMatch == [ok |-> FALSE, env |-> << >>]
RECURSIVE Meaning(_, _, _)
MeaningOfAll(args, values, types) ==
    LET each == [i \in DOMAIN args |-> Meaning(args[i], values[i], types[i])]
    IN  [ok |-> \A i \in DOMAIN args : each[i].ok,
         env |-> LET named == UNION {{<<x, i>> : x \in DOMAIN each[i].env} : i \in DOMAIN args}
                 IN  [x \in {pair[1] : pair \in named} |->
                        each[(CHOOSE pair \in named : pair[1] = x)[2]].env[x]]]
Meaning(p, v, t) ==
    CASE p.kind = "wildcard" -> [ok |-> TRUE, env |-> << >>]
      [] p.kind = "literal" -> [ok |-> v[2] = p.value, env |-> << >>]
      [] p.kind = "name" -> [ok |-> TRUE, env |-> p.name :> Encode(v, t)]
      [] p.kind \in {"tuple", "ctor"} /\ t[1] \in {"tuple", "struct"} -> MeaningOfAll(p.args, v[2], t[2])
      [] p.kind = "ctor" /\ IsSealed(t) ->
           IF v[2] # p.name THEN NoMatch
           ELSE MeaningOfAll(p.args, v[3], [i \in DOMAIN v[3] |-> Fields(t, Numbered(t, p.name))[i].type])
      [] p.kind = "ctor" /\ t[1] = "seq" ->
           LET n == Len(SelectSeq(p.args, LAMBDA a : ~IsRest(a)))
               rest == <<"seq", SubSeq(v[2], n + 1, Len(v[2]))>>
           IN  IF Len(v[2]) < n THEN NoMatch
               ELSE MeaningOfAll([i \in DOMAIN p.args |-> Unrest(p.args[i])],
                                 SubSeq(v[2], 1, n) \o <<rest>>, [i \in 1 .. n |-> t[2]] \o <<t>>)
MeaningOfClause(p, v, t) ==
    IF Bare(p) THEN [ok |-> v[2] = p.name, env |-> << >>] ELSE Meaning(p, v, t)

\* The patterns that fit a type: as many arguments as fields, no name twice, no
\* nested name of a variant, a rest at the end of a sequence only, and in a
\* sequence only patterns that need no statement.
RECURSIVE Names(_), Fit(_, _)
NamesOfAll(args) == UNION {Names(args[i]) : i \in DOMAIN args}
Names(p) == IF p.kind \in {"name", "rest"} THEN {p.name} \ {"_"}
            ELSE IF p.kind \in {"tuple", "ctor"} THEN NamesOfAll(p.args) ELSE {}
FitAll(args, types) ==
    /\ Len(args) = Len(types)
    /\ \A i \in DOMAIN args : Fit(args[i], types[i])
    /\ \A i, j \in DOMAIN args : i # j => Names(args[i]) \cap Names(args[j]) = {}
Fit(p, t) ==
    CASE p.kind = "wildcard" -> TRUE
      [] p.kind = "name" -> ~Bare(p)
      [] p.kind = "literal" -> t = Whole
      [] p.kind = "tuple" -> t[1] = "tuple" /\ FitAll(p.args, t[2])
      [] p.kind = "rest" -> FALSE
      [] p.kind = "ctor" ->
           IF p.name \in VariantNames(t)
           THEN FitAll(p.args, [i \in DOMAIN Fields(t, Numbered(t, p.name)) |->
                                  Fields(t, Numbered(t, p.name))[i].type])
           ELSE /\ p.name = "P"
                /\ \/ t[1] = "struct" /\ FitAll(p.args, t[2])
                   \/ /\ t[1] = "seq" /\ p.args # << >>
                      /\ FitAll([i \in DOMAIN p.args |-> Unrest(p.args[i])],
                                [i \in DOMAIN p.args |-> IF IsRest(p.args[i]) THEN t ELSE t[2]])
                      /\ \A i \in DOMAIN p.args :
                           /\ IsRest(p.args[i]) => i = Len(p.args)
                           /\ p.args[i].kind \in {"ctor", "tuple"} =>
                                p.args[i].kind = "tuple" /\ Names(p.args[i]) = {}
FitClause(p, t) ==
    IF Bare(p) THEN p.name \in VariantNames(t) /\ Fields(t, Numbered(t, p.name)) = << >> ELSE Fit(p, t)

\* Inside a variant's pattern, one of the first variant of a type that has a
\* recursive field there: the zero value is taken apart, and its pointer is nil.
RECURSIVE Risky(_, _, _)
Risky(p, t, nested) ==
    CASE p.kind = "ctor" /\ p.name \in VariantNames(t) ->
           LET fields == Fields(t, Numbered(t, p.name))
           IN  \/ /\ nested /\ Numbered(t, p.name) = 1
                  /\ \E i \in DOMAIN fields : IsRecursive(fields[i].type, t)
               \/ \E i \in DOMAIN p.args : Risky(p.args[i], fields[i].type, TRUE)
      [] p.kind \in {"tuple", "ctor"} /\ t[1] \in {"tuple", "struct"} ->
           \E i \in DOMAIN p.args : Risky(p.args[i], t[2][i], nested)
      [] OTHER -> FALSE

\* A pattern that fits is compiled, matches exactly what it means with the
\* bindings it means, and panics at most where the zero value of a recursive
\* type may be taken apart (patterns.go:1780-1789).
PatternMeansItsText(p, v, t) ==
    FitClause(p, t) =>
      LET r == transformCaseClause(p, Encode(v, t), t)
          m == MeaningOfClause(p, v, t)
      IN  /\ r.compiles
          /\ r.panics => Risky(p, t, FALSE)
          /\ ~r.panics => r.ok = m.ok /\ (m.ok => r.env = m.env)

\* As its comment says: the Get is guarded, so that nothing panics.
GuardedByIsDefined(p, v, t) ==
    FitClause(p, t) => ~transformCaseClause(p, Encode(v, t), t).panics
=============================================================================
