----------------------------- MODULE ValLowering -----------------------------
(***************************************************************************)
(* How bindings reach Go (transformer/declarations.go, statements.go,      *)
(* expressions.go, postfix.go, scope.go): a val is a Go variable of type   *)
(* Immutable[T], and so is a val field; wherever one is read, Get is       *)
(* called, and what may not be written is refused, by the compiler or by   *)
(* Go.  A body is lowered with the scopes as they are at each statement.   *)
(*                                                                         *)
(* An expression, of the source or of Go, is a tuple that starts with its  *)
(* kind.  A type is a sequence: what it is of, and so on: <<"ptr", "int">> *)
(* is *int, "imm" is std.Immutable and "const" std.ConstPtr.               *)
(***************************************************************************)
EXTENDS Naturals, Sequences, FiniteSets, SequencesExt

CONSTANT Structs      \* The fields of every struct: name to [type, val].

Number == <<"int">>
Unknown == << >>
Kind(t) == IF t = Unknown THEN "" ELSE t[1]
IsStruct(t) == Kind(t) \in DOMAIN Structs
HasField(t, f) == IsStruct(t) /\ f \in DOMAIN Structs[t[1]]
\* The struct behind a pointer to it.
Base(t) == IF Kind(t) = "ptr" THEN Tail(t) ELSE t

-----------------------------------------------------------------------------
(* Scopes: a sequence, the innermost last.                                   *)

Binding(type, val) == [type |-> type, val |-> val]
pushScope(scopes) == Append(scopes, << >>)
add(scopes, name, binding) == [scopes EXCEPT ![Len(scopes)] = (name :> binding) @@ @]
Holds(scopes, name) == {i \in DOMAIN scopes : name \in DOMAIN scopes[i]}
lookup(scopes, name) == scopes[Max(Holds(scopes, name))][name]
isVal(scopes, name) == Holds(scopes, name) # {} /\ lookup(scopes, name).val
getType(scopes, name) == IF Holds(scopes, name) = {} THEN Unknown ELSE lookup(scopes, name).type

-----------------------------------------------------------------------------
(* The type that the compiler infers for a lowered expression.               *)

RECURSIVE getExprTypeName(_, _)
\* The operand that is no constant governs.
arithmeticResultType(g, scopes) == getExprTypeName(IF g[3][1] = "num" THEN g[4] ELSE g[3], scopes)
FieldIn(t, f) == IF HasField(t, f) THEN Structs[t[1]][f] ELSE [type |-> Unknown, val |-> FALSE]
inferSelectorExprType(base, f) == FieldIn(Base(base), f).type
\* The type of a val or a val field is recorded without its Immutable.
Recorded(x, scopes) ==
  \/ x[1] = "name" /\ isVal(scopes, x[2])
  \/ x[1] = "field" /\ FieldIn(Base(getExprTypeName(x[2], scopes)), x[3]).val
inferGetMethodType(x, scopes, t) == IF Kind(t) = "imm" /\ ~Recorded(x, scopes) THEN Tail(t) ELSE t
Inside(t, kind) == IF Kind(t) = kind THEN Tail(t) ELSE Unknown
\* A function called at once has the type it is given; what x.Ptr() is, is not known.
inferCallExprType(g, scopes, t) ==
  CASE g[1] = "get" -> inferGetMethodType(g[2], scopes, t)
    [] g[1] = "read" -> Inside(t, "const")
    [] g[1] = "constptr" -> <<"const", "?">>
    [] g[1] = "iife" -> g[2]
    [] OTHER -> Unknown
\* An operation on an operand of type t.
TypeOver(g, scopes, t) ==
  CASE g[1] = "neg" -> t
    [] g[1] = "addr" -> <<"ptr">> \o t
    [] g[1] = "deref" -> Inside(t, "ptr")
    [] g[1] = "at" -> Inside(t, "slice")
    [] g[1] = "field" -> inferSelectorExprType(t, g[3])
    [] OTHER -> inferCallExprType(g, scopes, t)
getExprTypeName(g, scopes) ==
  CASE g[1] = "name" -> getType(scopes, g[2])
    [] g[1] = "num" -> Number
    [] g[1] = "op" -> IF g[2] = "<" THEN <<"bool">> ELSE arithmeticResultType(g, scopes)
    [] OTHER -> TypeOver(g, scopes, getExprTypeName(g[2], scopes))

unwrapImmutable(g, scopes) == IF Kind(getExprTypeName(g, scopes)) = "imm" THEN <<"get", g>> ELSE g
unwrapConstPtr(g, scopes) == IF Kind(getExprTypeName(g, scopes)) = "const" THEN <<"read", g>> ELSE g

-----------------------------------------------------------------------------
(* Expressions.                                                              *)

isImmutableField(t, f) == HasField(Base(t), f) /\ Structs[Base(t)[1]][f].val
\* Mutant: a val field is taken as it is.
TakesTheField(base, f, scopes) == <<"field", unwrapConstPtr(unwrapImmutable(base, scopes), scopes), f>>
FieldRead(at, f, type) == IF isImmutableField(type, f) THEN <<"get", <<"field", at, f>> >> ELSE <<"field", at, f>>
FieldAt(at, f, scopes) == FieldRead(at, f, getExprTypeName(at, scopes))
resolveFieldAccess(base, f, scopes) == FieldAt(unwrapConstPtr(unwrapImmutable(base, scopes), scopes), f, scopes)

transformPrimary(e, scopes) == IF e[1] = "name" /\ isVal(scopes, e[2]) THEN <<"get", e>> ELSE e
getSimpleValIdentifier(e, scopes) == e[1] = "name" /\ isVal(scopes, e[2])
\* The address of a val is a ConstPtr; a ConstPtr is read with Deref.
UnaryOf(kind, e, inner, scopes, type) ==
     CASE kind = "addr" -> IF getSimpleValIdentifier(e, scopes) THEN <<"constptr", <<"ptr", e>>>>
                           ELSE IF type = "imm" THEN <<"constptr", <<"ptr", inner>>>> ELSE <<"addr", inner>>
       [] kind = "deref" -> IF type = "const" THEN <<"read", inner>> ELSE <<"deref", inner>>
       [] kind = "neg" -> <<"neg", unwrapImmutable(inner, scopes)>>
transformUnaryExpr(kind, e, inner, scopes) == UnaryOf(kind, e, inner, scopes, Kind(getExprTypeName(inner, scopes)))
transformBinary(op, left, right, scopes) == <<"op", op, unwrapImmutable(left, scopes), unwrapImmutable(right, scopes)>>
resolveIndexAccess(base, index, scopes) == <<"at", unwrapImmutable(base, scopes), index>>
RECURSIVE transformExpression(_, _)
transformExpression(e, scopes) ==
  LET inner(i) == transformExpression(e[i], scopes)
  IN CASE e[1] = "op" -> transformBinary(e[2], inner(3), inner(4), scopes)
       [] e[1] \in {"addr", "deref", "neg"} -> transformUnaryExpr(e[1], e[2], inner(2), scopes)
       [] e[1] = "field" -> resolveFieldAccess(inner(2), e[3], scopes)
       [] e[1] = "at" -> resolveIndexAccess(inner(2), inner(3), scopes)
       [] OTHER -> transformPrimary(e, scopes)

-----------------------------------------------------------------------------
(* Declarations.  What is lowered is a sequence of Go statements and the     *)
(* scopes after it; what is refused is lowered to what Go does not accept.   *)

Lowered(out, scopes) == [out |-> out, scopes |-> scopes]
Refused(scopes) == Lowered(<< <<"refused">> >>, scopes)
AddAll(scopes, names, types, val) ==
  FoldLeft(LAMBDA s, i : add(s, names[i], Binding(types[i], val)), scopes, [i \in DOMAIN names |-> i])
Stripped(t) == IF Kind(t) = "imm" THEN Tail(t) ELSE t
NewImmutable(g) == <<"new", g>>

\* The names are added one after the other, each before its value is unwrapped;
\* the type of the value is inferred once, and stripped of Immutable or not.
Unwrapped(g, type) == IF Kind(type) = "imm" THEN <<"get", g>> ELSE g
Adds(d, value, scopes) == [values |-> Append(d.values, value), scopes |-> scopes]
Declare(names, declared, gs, scopes, val, strips) ==
  LET inferred(d, i, t) == Adds(d, Unwrapped(gs[i], t), add(d.scopes, names[i], Binding(IF strips THEN Stripped(t) ELSE t, val)))
      written(d, i, after) == Adds(d, unwrapImmutable(gs[i], after), after)
      one(d, i) == IF declared = Unknown THEN inferred(d, i, getExprTypeName(gs[i], d.scopes))
                   ELSE written(d, i, add(d.scopes, names[i], Binding(declared, val)))
  IN FoldLeft(one, [values |-> << >>, scopes |-> scopes], [i \in DOMAIN names |-> i])

\* Mutant: the value is wrapped as it is, itself perhaps Immutable.
WrapsAsItIs(names, declared, gs, scopes) ==
  Lowered(<< <<"var", names, Unknown, [i \in DOMAIN gs |-> NewImmutable(gs[i])]>> >>,
          Declare(names, declared, gs, scopes, TRUE, TRUE).scopes)
Wrapped(names, declared, d) ==
  Lowered(<< <<"var", names, IF declared = Unknown THEN Unknown ELSE <<"imm">> \o declared,
              [i \in DOMAIN names |-> NewImmutable(d.values[i])]>> >>, d.scopes)
transformValDeclaration(names, declared, gs, scopes) ==
  IF Kind(declared) = "imm" THEN Refused(scopes)
  ELSE Wrapped(names, declared, Declare(names, declared, gs, scopes, TRUE, TRUE))
\* One call for several names: its results go through variables of their own.
valFromMultiReturn(names, g, scopes) ==
  LET temps == [i \in DOMAIN names |-> "temp" \o names[i]]
  IN Lowered(<< <<"var", temps, Unknown, <<g>> >> >>
               \o [i \in DOMAIN names |-> <<"var", <<names[i]>>, Unknown, <<NewImmutable(<<"name", temps[i]>>)>> >>],
             AddAll(scopes, names, [i \in DOMAIN names |-> Number], TRUE))
\* The components are vals already.
TuplePattern(names, g, scopes, tuple) ==
  LET v(i) == IF i = 1 THEN "V1" ELSE "V2"
      component(i) == IF HasField(tuple, v(i)) THEN Structs[tuple[1]][v(i)].type ELSE Unknown
  IN Lowered(<< <<"var", <<"tuple">>, Unknown, <<unwrapImmutable(g, scopes)>> >> >>
               \o [i \in DOMAIN names |-> <<"var", <<names[i]>>, Unknown, << <<"field", <<"name", "tuple">>, v(i)>> >> >>],
             AddAll(scopes, names, [i \in DOMAIN names |-> component(i)], TRUE))
transformValTuplePattern(names, g, scopes) == TuplePattern(names, g, scopes, getExprTypeName(g, scopes))
PlainVar(names, declared, d) == Lowered(<< <<"var", names, declared, d.values>> >>, d.scopes)
transformVarDeclaration(names, declared, gs, scopes) ==
  PlainVar(names, declared, Declare(names, declared, gs, scopes, FALSE, TRUE))
\* The type of a short declaration is the one inferred, Immutable or not.
Define(names, d, mutable) ==
  Lowered(<< <<"define", names, [i \in DOMAIN names |-> IF mutable THEN d.values[i] ELSE NewImmutable(d.values[i])]>> >>,
          d.scopes)
transformShortVarDecl(names, gs, scopes, mutable) ==
  Define(names, Declare(names, Unknown, gs, scopes, ~mutable, FALSE), mutable)

\* An if-expression is a function called at once.  Its branches open no scope.
BranchAfter(branch, before) ==
  [before |-> before.out, value |-> transformExpression(branch.value, before.scopes), scopes |-> before.scopes]
After(s, next) == Lowered(s.out \o next.out, next.scopes)
transformBranch(branch, scopes) ==
  LET one(s, d) == After(s, transformValDeclaration(d[2], Unknown, <<transformExpression(d[3], s.scopes)>>, s.scopes))
  IN BranchAfter(branch, FoldLeft(one, Lowered(<< >>, scopes), branch.decls))
\* The type of the first branch, or else of the second.
TypedIf(cond, then, else, type) ==
  [value |-> <<"iife", IF type # Unknown THEN type ELSE getExprTypeName(else.value, else.scopes), cond,
               then.before, then.value, else.before, else.value>>,
   scopes |-> else.scopes]
IfOf(cond, branches) ==
  TypedIf(cond, branches[1], branches[2], getExprTypeName(branches[1].value, branches[2].scopes))
transformIfExpression(e, scopes) ==
  LET one(bs, b) == Append(bs, transformBranch(b, IF bs = << >> THEN scopes ELSE Last(bs).scopes))
  IN IfOf(transformExpression(e[2], scopes), FoldLeft(one, << >>, <<e[3], e[4]>>))
\* What is on the right of a declaration or an assignment, or is returned.
transformValue(e, scopes) ==
  IF e[1] = "if" THEN transformIfExpression(e, scopes)
  ELSE [value |-> transformExpression(e, scopes), scopes |-> scopes]

-----------------------------------------------------------------------------
(* Statements.                                                               *)

isDirectVal(e, scopes) == e[1] = "name" /\ isVal(scopes, e[2])
isConstPtrDerefAssignment(e, scopes) ==
  e[1] = "deref" /\ Kind(getExprTypeName(transformExpression(e[2], scopes), scopes)) = "const"
\* Mutant: the value is assigned as it is.
AssignsAsItIs(lhs, right, scopes) ==
  Lowered(<< <<"assign", transformExpression(lhs, scopes), right.value>> >>, right.scopes)
transformAssignment(lhs, right, scopes) ==
  IF isDirectVal(lhs, scopes) \/ isConstPtrDerefAssignment(lhs, scopes) THEN Refused(scopes)
  ELSE Lowered(<< <<"assign", transformExpression(lhs, scopes), unwrapImmutable(right.value, right.scopes)>> >>,
               right.scopes)
\* The check is for a name that is lowered to itself: no val is.
IncDec(g, scopes) ==
  IF g[1] = "name" /\ isVal(scopes, g[2]) THEN Refused(scopes) ELSE Lowered(<< <<"inc", g>> >>, scopes)
transformIncDecStmt(e, scopes) == IncDec(transformExpression(e, scopes), scopes)
SimpleOf(s, scopes, mutable, value) ==
  CASE s[1] = "short" -> transformShortVarDecl(s[2], <<value.value>>, value.scopes, mutable)
    [] s[1] = "assign" -> transformAssignment(s[2], value, scopes)
    [] s[1] = "inc" -> transformIncDecStmt(s[2], scopes)
transformSimpleStatement(s, scopes, mutable) == SimpleOf(s, scopes, mutable, transformValue(s[3], scopes))

inferRangeTypes(t) == IF Kind(t) = "slice" THEN <<Number, Tail(t)>> ELSE <<Number, Unknown>>

RECURSIVE transformBlock(_, _)
\* The condition and the body of an if come before its init, which opens no scope.
IfAfter(s, scopes, init) ==
  Lowered(<< <<"if", init.out, transformExpression(s[3], scopes), transformBlock(s[4], scopes),
              transformBlock(s[5], init.scopes)>> >>, init.scopes)
transformIfStatement(s, scopes) ==
  IfAfter(s, scopes, IF s[2] = << >> THEN Lowered(<< >>, scopes) ELSE transformSimpleStatement(s[2], scopes, FALSE))
RangeOver(s, over, inside) ==
  << <<"range", s[2], s[3], over,
       transformBlock(s[5], AddAll(inside, s[3], inferRangeTypes(getExprTypeName(over, inside)), FALSE))>> >>
ForAfter(s, init) ==
  << <<"for", init.out, transformExpression(s[3], init.scopes),
       transformSimpleStatement(s[4], init.scopes, FALSE).out, transformBlock(s[5], init.scopes)>> >>
transformForStatement(s, inside) ==
  IF s[1] = "range" THEN RangeOver(s, transformExpression(s[4], inside), inside)
  ELSE ForAfter(s, transformSimpleStatement(s[2], inside, TRUE))
Return(value) == Lowered(<< <<"return", unwrapImmutable(value.value, value.scopes)>> >>, value.scopes)
\* A statement whose value is lowered.
StatementOf(s, scopes, value) ==
  CASE s[1] = "val" -> transformValDeclaration(s[2], s[4], <<value.value>>, value.scopes)
    [] s[1] = "var" -> transformVarDeclaration(s[2], s[4], <<value.value>>, value.scopes)
    [] s[1] = "multi" -> valFromMultiReturn(s[2], value.value, value.scopes)
    [] s[1] = "tuple" -> transformValTuplePattern(s[2], value.value, value.scopes)
    [] s[1] = "return" -> Return(value)
    [] OTHER -> SimpleOf(s, scopes, FALSE, value)
transformStatement(s, scopes) ==
  CASE s[1] = "vals" -> transformValDeclaration(s[2], Unknown, [i \in DOMAIN s[3] |-> transformExpression(s[3][i], scopes)], scopes)
    [] s[1] = "if" -> transformIfStatement(s, scopes)
    [] s[1] \in {"range", "for"} -> Lowered(transformForStatement(s, pushScope(scopes)), scopes)
    [] OTHER -> StatementOf(s, scopes, transformValue(IF s[1] = "return" THEN s[2] ELSE s[3], scopes))
transformBlock(ss, scopes) ==
  FoldLeft(LAMBDA b, s : After(b, transformStatement(s, b.scopes)), Lowered(<< >>, pushScope(scopes)), ss).out

\* A parameter: its name, type and whether it is a val.
registerFunctionParametersInScope(params) ==
  FoldLeft(LAMBDA s, p : add(s, p.name, Binding(p.type, p.val)), << << >> >>, params)
transformFunctionDeclaration(params, body) == transformBlock(body, registerFunctionParametersInScope(params))
transformParameter(p) == IF p.val THEN <<"imm">> \o p.type ELSE p.type

-----------------------------------------------------------------------------
(* Go: the type of an expression, and whether statements compile.            *)

Ill == <<"ill">>
IsOf(t, kind) == IF Kind(t) = kind THEN Tail(t) ELSE Ill
TypeIn(env, name) == IF Holds(env, name) = {} THEN Ill ELSE lookup(env, name)
GoField(t, f) ==
  IF ~HasField(Base(t), f) THEN Ill
  ELSE LET field == Structs[Base(t)[1]][f] IN IF field.val THEN <<"imm">> \o field.type ELSE field.type

RECURSIVE GoType(_, _)
RECURSIVE Addressable(_, _)
Addressable(g, env) ==
  \/ g[1] \in {"name", "deref", "at"}
  \/ g[1] = "field" /\ (Kind(GoType(g[2], env)) = "ptr" \/ Addressable(g[2], env))
GoVars(env, names, types) == FoldLeft(LAMBDA v, i : add(v, names[i], types[i]), env, [i \in DOMAIN names |-> i])
\* An operation on one operand, and its type.
GoUnary(g, env, type) ==
  CASE g[1] = "neg" -> IF type = Number THEN Number ELSE Ill
    [] g[1] = "addr" -> IF type # Ill /\ Addressable(g[2], env) THEN <<"ptr">> \o type ELSE Ill
    [] g[1] = "deref" -> IsOf(type, "ptr")
    [] g[1] = "field" -> GoField(type, g[3])
    [] g[1] = "get" -> IsOf(type, "imm")
    [] g[1] = "ptr" -> IF Kind(type) = "imm" /\ Addressable(g[2], env) THEN <<"ptr">> \o Tail(type) ELSE Ill
    [] g[1] = "constptr" -> IF Kind(type) = "ptr" THEN <<"const">> \o Tail(type) ELSE Ill
    [] g[1] = "read" -> IsOf(type, "const")
    [] g[1] = "new" -> IF type = Ill THEN Ill ELSE <<"imm">> \o type
Arithmetic(op, left, right) ==
  IF left # Number \/ right # Number THEN Ill ELSE IF op = "<" THEN <<"bool">> ELSE Number
GoInside(value, inside) == IF \E n \in DOMAIN Last(inside) : Last(inside)[n] = Ill THEN Ill ELSE GoType(value, inside)
GoBranch(before, value, env) ==
  GoInside(value, FoldLeft(LAMBDA v, d : GoVars(v, d[2], [i \in DOMAIN d[2] |-> GoType(d[4][i], v)]), pushScope(env), before))
GoType(g, env) ==
  CASE g[1] = "name" -> TypeIn(env, g[2])
    [] g[1] = "num" -> Number
    [] g[1] = "op" -> Arithmetic(g[2], GoType(g[3], env), GoType(g[4], env))
    [] g[1] = "at" -> IF GoType(g[3], env) = Number THEN IsOf(GoType(g[2], env), "slice") ELSE Ill
    [] g[1] = "iife" -> IF /\ GoType(g[3], env) = <<"bool">>
                           /\ \A b \in {<<g[4], g[5]>>, <<g[6], g[7]>>} : GoBranch(b[1], b[2], env) = g[2]
                        THEN g[2] ELSE Ill
    [] OTHER -> GoUnary(g, env, GoType(g[2], env))

Compiled(ok, env) == [ok |-> ok, env |-> env]
\* Declares names in the innermost scope, each anew.
GoDeclares(names, types, given, env) ==
  Compiled(/\ \A i \in DOMAIN names : types[i] # Ill /\ given \in {Unknown, types[i]}
           /\ \A i \in DOMAIN names : names[i] \notin DOMAIN env[Len(env)],
           GoVars(env, names, types))
RECURSIVE GoBlock(_, _, _)
\* What follows the init of an if or a for: a condition and blocks.
GoAfter(g, init, result) ==
  /\ init.ok /\ GoType(g[3], init.env) = <<"bool">>
  /\ \A b \in {g[4], g[5]} : GoBlock(b, pushScope(init.env), result).ok
GoRange(g, env, elem, result) ==
  /\ elem # Ill
  /\ g[2] \/ \A i \in DOMAIN g[3] : TypeIn(env, g[3][i]) = <<Number, elem>>[i]
  /\ GoBlock(g[5], pushScope(IF g[2] THEN GoVars(pushScope(env), g[3], <<Number, elem>>) ELSE env), result).ok
GoAssigns(g, env, type, value) == type # Ill /\ type = value /\ Addressable(g[2], env)
TypesOf(gs, env) == [i \in DOMAIN gs |-> GoType(gs[i], env)]
GoStatement(g, env, result) ==
  CASE g[1] = "refused" -> Compiled(FALSE, env)
    [] g[1] = "var" -> GoDeclares(g[2], IF g[4][1][1] = "two" THEN <<Number, Number>> ELSE TypesOf(g[4], env), g[3], env)
    [] g[1] = "define" -> GoDeclares(g[2], TypesOf(g[3], env), Unknown, env)
    [] g[1] = "assign" -> Compiled(GoAssigns(g, env, GoType(g[2], env), GoType(g[3], env)), env)
    [] g[1] = "inc" -> Compiled(GoAssigns(g, env, GoType(g[2], env), Number), env)
    [] g[1] = "return" -> Compiled(GoType(g[2], env) = result, env)
    [] g[1] \in {"if", "for"} -> Compiled(GoAfter(g, GoBlock(g[2], pushScope(env), result), result), env)
    [] g[1] = "range" -> Compiled(GoRange(g, env, IsOf(GoType(g[4], env), "slice"), result), env)
GoNext(c, next) == Compiled(c.ok /\ next.ok, next.env)
GoBlock(ss, env, result) ==
  FoldLeft(LAMBDA c, s : GoNext(c, GoStatement(s, c.env, result)), Compiled(TRUE, env), ss)
Compiles(params, body, result) ==
  LET env == << [n \in {params[i].name : i \in DOMAIN params} |->
                   transformParameter(params[CHOOSE i \in DOMAIN params : params[i].name = n])] >>
  IN GoBlock(transformFunctionDeclaration(params, body), env, result).ok

-----------------------------------------------------------------------------
(* What the source means: types without Immutable, and what may be written.  *)

Read(t) == Stripped(t)
RECURSIVE TypeOf(_, _)
RECURSIVE Writable(_, _)
\* A var, what is behind a pointer, an element of a slice, or a var field of these.
Writable(e, scopes) ==
  CASE e[1] = "name" -> ~isVal(scopes, e[2])
    [] e[1] = "at" -> TRUE
    [] e[1] = "deref" -> Kind(TypeOf(e[2], scopes)) = "ptr"
    [] e[1] = "field" -> LET base == TypeOf(e[2], scopes)
                         IN /\ HasField(Base(base), e[3]) /\ ~Structs[Base(base)[1]][e[3]].val
                            /\ Kind(base) = "ptr" \/ Writable(e[2], scopes)
    [] OTHER -> FALSE
\* The address of a val, or of an Immutable, can only be read through.
AddressType(e, scopes, type) ==
  IF type = Ill THEN Ill
  ELSE IF e[1] = "name" /\ isVal(scopes, e[2]) THEN <<"const">> \o type
  ELSE IF ~Writable(e, scopes) THEN Ill
  ELSE IF Kind(type) = "imm" THEN <<"const">> \o Read(type) ELSE <<"ptr">> \o type
FieldType(base, f) ==
  LET struct == IF Kind(base) = "const" THEN Tail(base) ELSE Base(base)
  IN IF HasField(struct, f) THEN Structs[struct[1]][f].type ELSE Ill
UnaryType(e, scopes, type) ==
  CASE e[1] = "neg" -> IF Read(type) = Number THEN Number ELSE Ill
    [] e[1] = "addr" -> AddressType(e[2], scopes, type)
    [] e[1] = "deref" -> IF Kind(type) \in {"ptr", "const"} THEN Tail(type) ELSE Ill
    [] e[1] = "field" -> FieldType(Read(type), e[3])
TypeInside(value, inside) == IF \E n \in DOMAIN Last(inside) : Last(inside)[n].type = Ill THEN Ill ELSE TypeOf(value, inside)
BranchType(b, scopes) ==
  TypeInside(b.value, FoldLeft(LAMBDA v, d : add(v, d[2][1], Binding(Read(TypeOf(d[3], v)), TRUE)), pushScope(scopes), b.decls))
SameType(cond, a, b) == IF cond = <<"bool">> /\ a = b THEN a ELSE Ill
TypeOf(e, scopes) ==
  CASE e[1] = "name" -> IF Holds(scopes, e[2]) = {} THEN Ill ELSE getType(scopes, e[2])
    [] e[1] = "num" -> Number
    [] e[1] = "op" -> Arithmetic(e[2], Read(TypeOf(e[3], scopes)), Read(TypeOf(e[4], scopes)))
    [] e[1] = "at" -> IF TypeOf(e[3], scopes) = Number THEN IsOf(Read(TypeOf(e[2], scopes)), "slice") ELSE Ill
    [] e[1] = "if" -> SameType(TypeOf(e[2], scopes), BranchType(e[3], scopes), BranchType(e[4], scopes))
    [] e[1] \in {"neg", "addr", "deref", "field"} -> UnaryType(e, scopes, TypeOf(e[2], scopes))
    [] OTHER -> Ill

Meant(ok, scopes) == [ok |-> ok, scopes |-> scopes]
\* The names of a declaration, each new in its block.
Declares(names, types, val, scopes) ==
  Meant(\A i \in DOMAIN names : types[i] # Ill /\ names[i] \notin DOMAIN Last(scopes),
        AddAll(scopes, names, types, val))
AssignMeans(s, scopes, type, value) == type # Ill /\ Writable(s[2], scopes) /\ type = value
MeansSimple(s, scopes, val) ==
  CASE s[1] = "short" -> Declares(s[2], <<Read(TypeOf(s[3], scopes))>>, val, scopes)
    [] s[1] = "assign" -> Meant(AssignMeans(s, scopes, TypeOf(s[2], scopes), Read(TypeOf(s[3], scopes))), scopes)
    [] s[1] = "inc" -> Meant(AssignMeans(s, scopes, TypeOf(s[2], scopes), Number), scopes)
RECURSIVE MeansBlock(_, _, _)
DeclaresOne(s, scopes, type) ==
  Declares(s[2], <<IF s[4] \in {Unknown, type} THEN type ELSE Ill>>, s[1] = "val", scopes)
DeclaresTuple(s, scopes, type) ==
  IF type # <<"Tuple">> THEN Meant(FALSE, scopes)
  ELSE Declares(s[2], <<Structs["Tuple"]["V1"].type, Structs["Tuple"]["V2"].type>>, TRUE, scopes)
AfterInit(s, inside, val) == IF s[2] = << >> THEN Meant(TRUE, inside) ELSE MeansSimple(s[2], inside, val)
IfMeans(s, init, result) ==
  /\ init.ok /\ TypeOf(s[3], init.scopes) = <<"bool">>
  /\ \A b \in (IF s[1] = "if" THEN {s[4], s[5]} ELSE {s[5]}) : MeansBlock(b, init.scopes, result)
  /\ s[1] = "for" => MeansSimple(s[4], init.scopes, TRUE).ok
RangeMeans(s, scopes, elem, result) ==
  /\ elem # Ill
  /\ \/ s[2]
     \/ \A i \in DOMAIN s[3] : ~isVal(scopes, s[3][i]) /\ TypeOf(<<"name", s[3][i]>>, scopes) = <<Number, elem>>[i]
  /\ MeansBlock(s[5], IF s[2] THEN AddAll(pushScope(scopes), s[3], <<Number, elem>>, FALSE) ELSE scopes, result)
MeansStatement(s, scopes, result) ==
  CASE s[1] \in {"short", "assign", "inc"} -> MeansSimple(s, scopes, TRUE)
    [] s[1] \in {"val", "var"} -> DeclaresOne(s, scopes, Read(TypeOf(s[3], scopes)))
    [] s[1] = "vals" -> Declares(s[2], [i \in DOMAIN s[3] |-> Read(TypeOf(s[3][i], scopes))], TRUE, scopes)
    [] s[1] = "multi" -> Declares(s[2], <<Number, Number>>, TRUE, scopes)
    [] s[1] = "tuple" -> DeclaresTuple(s, scopes, Read(TypeOf(s[3], scopes)))
    [] s[1] = "return" -> Meant(Read(TypeOf(s[2], scopes)) = result, scopes)
    [] s[1] \in {"if", "for"} -> Meant(IfMeans(s, AfterInit(s, pushScope(scopes), s[1] = "if"), result), scopes)
    [] s[1] = "range" -> Meant(RangeMeans(s, scopes, IsOf(TypeOf(s[4], scopes), "slice"), result), scopes)
MeansNext(m, next) == Meant(m.ok /\ next.ok, next.scopes)
MeansIn(ss, scopes, result) ==
  FoldLeft(LAMBDA m, s : MeansNext(m, MeansStatement(s, m.scopes, result)), Meant(TRUE, scopes), ss).ok
MeansBlock(ss, scopes, result) == MeansIn(ss, pushScope(scopes), result)
MeansSomething(params, body, result) == MeansIn(body, registerFunctionParametersInScope(params), result)

-----------------------------------------------------------------------------
(* Properties.                                                               *)

RECURSIVE NamesIn(_)
NamesIn(e) ==
  CASE e[1] = "name" -> {e[2]}
    [] e[1] = "op" -> NamesIn(e[3]) \cup NamesIn(e[4])
    [] e[1] \in {"neg", "addr", "deref", "field"} -> NamesIn(e[2])
    [] e[1] = "at" -> NamesIn(e[2]) \cup NamesIn(e[3])
    [] OTHER -> {}
DeclaredBy(branch) == {branch.decls[i][2][1] : i \in DOMAIN branch.decls}
\* The branches of an if-expression declare names that are in use nowhere else.
BranchesApart(params, e, taken) ==
  e[1] = "if" => /\ (DeclaredBy(e[3]) \cup DeclaredBy(e[4])) \cap taken = {}
                 /\ DeclaredBy(e[3]) \cap DeclaredBy(e[4]) = {}
IsA(params, e, Test(_, _)) ==
  e[1] = "name" /\ \E i \in DOMAIN params : params[i].name = e[2] /\ Test(params[i].type, params[i].val)
\* Without what goes astray.  Refused though they mean something: names declared
\* by the init of an if, or by a branch, that hide others; a short declaration of
\* an Immutable; values that name what they are declared for; what is behind the
\* address of a val, when the type is not written.  Accepted though it writes a
\* val: a range over Immutables that assigns to one.
RECURSIVE Straight(_, _, _)
Straight(params, ss, taken) ==
  LET imm(t, v) == Kind(t) = "imm"
      imms(t, v) == Kind(t) = "slice" /\ Kind(Tail(t)) = "imm"
      held(t, v) == v /\ IsStruct(t)
      OfHeld(e) == e[1] = "addr" /\ IsA(params, e[2], held)
      own(s) == \E e \in (IF s[1] = "vals" THEN ToSet(s[3]) ELSE {s[3]}) : ToSet(s[2]) \cap NamesIn(e) # {}
  IN \A s \in ToSet(ss) :
       CASE s[1] = "vals" -> ~own(s)
         [] s[1] \in {"val", "var"} ->
              /\ BranchesApart(params, s[3], taken) /\ (s[4] # Unknown => ~own(s))
              /\ s[4] = Unknown => ~OfHeld(s[3])
         [] s[1] = "short" -> BranchesApart(params, s[3], taken) /\ ~OfHeld(s[3])
                           /\ ~IsA(params, s[3], imm) /\ ~(s[3][1] = "at" /\ IsA(params, s[3][2], imms))
         [] s[1] = "if" -> /\ s[2] = << >> \/ s[2][1] # "short"
                           /\ Straight(params, s[4] \o s[5], taken)
         [] s[1] = "for" -> Straight(params, s[5], taken)
         [] s[1] = "range" -> (s[2] \/ ~IsA(params, s[4], imms)) /\ Straight(params, s[5], taken)
         [] s[1] = "assign" -> BranchesApart(params, s[3], taken)
         [] s[1] = "return" -> BranchesApart(params, s[2], taken)
         [] OTHER -> TRUE

\* A body that means something compiles, every val in it unwrapped once where it
\* is read; and one that means nothing, as it writes a val or mistakes a type,
\* is refused by the compiler or by Go (expressions.go:946, statements.go:217).
CompilesIfMeant(params, body, result, taken) ==
  Straight(params, body, taken) => (Compiles(params, body, result) <=> MeansSomething(params, body, result))
=============================================================================
