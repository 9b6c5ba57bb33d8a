------------------------------- MODULE Infer -------------------------------
(***************************************************************************)
(* Type inference (internal/transpiler/infer): Hindley-Milner over a small *)
(* expression language.  A type is <<"var", n>>, <<"const", name>> or      *)
(* <<"->", argument, result>> (other applications behave as the arrow      *)
(* does); a substitution is a function from variables to types; a scheme   *)
(* is [vars |-> ..., type |-> ...].  A result carries the next fresh       *)
(* variable, which the code keeps in the Inferer.                          *)
(***************************************************************************)
EXTENDS Naturals, Sequences, FiniteSets

TVar(n) == <<"var", n>>
Const(name) == <<"const", name>>
Arrow(a, b) == <<"->", a, b>>
Bool == Const("bool")

Lit(type) == <<"lit", type>>
Var(name) == <<"name", name>>
Abs(param, body) == <<"abs", param, body>>
App(fn, arg) == <<"app", fn, arg>>
Let(name, value, body) == <<"let", name, value, body>>
If(cond, then, else) == <<"if", cond, then, else>>

-----------------------------------------------------------------------------
\* Apply follows the variables of a substitution to the end.
RECURSIVE Apply(_, _)
Apply(s, t) ==
  CASE t[1] = "var" -> IF t[2] \in DOMAIN s THEN Apply(s, s[t[2]]) ELSE t
    [] t[1] = "const" -> t
    [] t[1] = "->" -> Arrow(Apply(s, t[2]), Apply(s, t[3]))

RECURSIVE FreeTypeVars(_)
FreeTypeVars(t) ==
  CASE t[1] = "var" -> {t[2]}
    [] t[1] = "const" -> {}
    [] t[1] = "->" -> FreeTypeVars(t[2]) \cup FreeTypeVars(t[3])

Empty == [v \in {} |-> Bool]

\* Compose(s, other) applies other first; an entry of s hides one of other.
Compose(s, other) ==
  [v \in DOMAIN s \cup DOMAIN other |-> IF v \in DOMAIN s THEN s[v] ELSE Apply(s, other[v])]

Mono(t) == [vars |-> {}, type |-> t]
ApplyScheme(s, scheme) ==
  [scheme EXCEPT !.type = Apply([v \in DOMAIN s \ scheme.vars |-> s[v]], @)]
ApplyEnv(s, env) == [x \in DOMAIN env |-> ApplyScheme(s, env[x])]

FreeInEnv(env) ==
  UNION {FreeTypeVars(env[x].type) \ env[x].vars : x \in DOMAIN env}

Bind(env, x, scheme) == [y \in DOMAIN env \cup {x} |-> IF y = x THEN scheme ELSE env[y]]

\* Mutant: the variables of the environment are quantified, too.
generalizeAll(env, t) == [vars |-> FreeTypeVars(t), type |-> t]
generalize(env, t) == [vars |-> FreeTypeVars(t) \ FreeInEnv(env), type |-> t]

-----------------------------------------------------------------------------
\* unify and infer answer with ok |-> FALSE where the code returns an error.
bind(v, t) ==
  IF t = TVar(v) THEN [ok |-> TRUE, sub |-> Empty]
  ELSE [ok |-> v \notin FreeTypeVars(t), sub |-> [w \in {v} |-> t]]

RECURSIVE unify(_, _)
unify(t, u) ==
  CASE t[1] = "var" -> bind(t[2], u)
    [] t[1] # "var" /\ u[1] = "var" -> bind(u[2], t)
    [] t[1] = "->" /\ u[1] = "->" ->
         LET first == unify(t[2], u[2])
             second == unify(Apply(first.sub, t[3]), Apply(first.sub, u[3]))
         IN  IF ~first.ok THEN first
             ELSE [ok |-> second.ok, sub |-> Compose(first.sub, second.sub)]
    [] OTHER -> [ok |-> t = u, sub |-> Empty]

Failed(next) == [ok |-> FALSE, type |-> Bool, sub |-> Empty, next |-> next]
Inferred(t, s, next) == [ok |-> TRUE, type |-> t, sub |-> s, next |-> next]

\* A fresh variable for every quantified one, taken in ascending order.
instantiate(scheme, next) ==
  LET Nth(v) == next + Cardinality({w \in scheme.vars : w < v})
  IN  Inferred(Apply([v \in scheme.vars |-> TVar(Nth(v))], scheme.type), Empty,
               next + Cardinality(scheme.vars))

\* The environment of the branches of an if, given what inferring the condition
\* (s1) and making it bool (s2) found.
branchEnv(env, s1, s2) == ApplyEnv(s1, ApplyEnv(s2, env))

RECURSIVE infer(_, _, _)

inferApp(env, e, next) ==
  LET fn == infer(env, e[2], next + 1)
      arg == infer(ApplyEnv(fn.sub, env), e[3], fn.next)
      u == unify(Apply(arg.sub, fn.type), Arrow(arg.type, TVar(next)))
  IN  IF ~fn.ok THEN fn ELSE IF ~arg.ok THEN arg ELSE IF ~u.ok THEN Failed(arg.next)
      ELSE Inferred(Apply(u.sub, TVar(next)),
                    Compose(Compose(u.sub, arg.sub), fn.sub), arg.next)

inferLet(env, e, next) ==
  LET value == infer(env, e[3], next)
      outer == ApplyEnv(value.sub, env)
      body == infer(Bind(outer, e[2], generalize(outer, value.type)), e[4], value.next)
  IN  IF ~value.ok THEN value ELSE IF ~body.ok THEN body
      ELSE Inferred(body.type, Compose(body.sub, value.sub), body.next)

inferIf(env, e, next) ==
  LET cond == infer(env, e[2], next)
      isBool == unify(cond.type, Bool)
      inner == branchEnv(env, cond.sub, isBool.sub)
      then == infer(inner, e[3], cond.next)
      else == infer(ApplyEnv(then.sub, inner), e[4], then.next)
      same == unify(Apply(else.sub, then.type), else.type)
  IN  IF ~cond.ok THEN cond ELSE IF ~isBool.ok THEN Failed(cond.next)
      ELSE IF ~then.ok THEN then ELSE IF ~else.ok THEN else
      ELSE IF ~same.ok THEN Failed(else.next)
      ELSE Inferred(Apply(same.sub, Apply(else.sub, then.type)),
                    Compose(Compose(Compose(Compose(same.sub, else.sub), then.sub),
                                    isBool.sub), cond.sub), else.next)

infer(env, e, next) ==
  CASE e[1] = "lit" -> Inferred(e[2], Empty, next)
    [] e[1] = "name" -> IF e[2] \in DOMAIN env THEN instantiate(env[e[2]], next)
                        ELSE Failed(next)
    [] e[1] = "abs" ->
         LET body == infer(Bind(env, e[2], Mono(TVar(next))), e[3], next + 1)
         IN  IF ~body.ok THEN body
             ELSE [body EXCEPT !.type = Arrow(Apply(body.sub, TVar(next)), @)]
    [] e[1] = "app" -> inferApp(env, e, next)
    [] e[1] = "let" -> inferLet(env, e, next)
    [] e[1] = "if" -> inferIf(env, e, next)

Infer(env, e) == infer(env, e, 100)

-----------------------------------------------------------------------------
(* The reference: the ground types, out of a finite universe, that the      *)
(* typing rules derive for an expression.  A name stands for a set of them, *)
(* so that a let may use its value at several types.                        *)

RECURSIVE GroundTypes(_, _, _)
GroundTypes(universe, env, e) ==
  LET Of(x) == GroundTypes(universe, env, x)
  IN  CASE e[1] = "lit" -> {e[2]}
        [] e[1] = "name" -> IF e[2] \in DOMAIN env THEN env[e[2]] ELSE {}
        [] e[1] = "abs" ->
             UNION {{Arrow(a, b) : b \in GroundTypes(universe, Bind(env, e[2], {a}), e[3])}
                      : a \in universe}
        [] e[1] = "app" ->
             LET args == Of(e[3]) IN {f[3] : f \in {g \in Of(e[2]) : g[1] = "->" /\ g[2] \in args}}
        [] e[1] = "let" ->
             LET value == Of(e[3])
             IN  IF value = {} THEN {}
                 ELSE GroundTypes(universe, Bind(env, e[2], value), e[4])
        [] e[1] = "if" -> IF Bool \in Of(e[2]) THEN Of(e[3]) \cap Of(e[4]) ELSE {}

\* t is an instance of the type g: unifying them binds variables of g only.
InstanceOf(t, g) == unify(g, t).ok

\* The inferred type has exactly the instances that can be derived: it is sound
\* (an expression with a type has that type) and principal (infer.go:124).  The
\* comparison is over the small types, the derivations may use the large ones.
InfersThePrincipalType(env, groundEnv, e, small, large) ==
  LET answer == Infer(env, e)
      derivable == GroundTypes(large, groundEnv, e)
  IN  IF answer.ok
        THEN \A t \in small : t \in derivable <=> InstanceOf(t, answer.type)
        ELSE derivable = {}
=============================================================================
