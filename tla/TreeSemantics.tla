--------------------------- MODULE TreeSemantics ---------------------------
(***************************************************************************)
(* What the trees of ScopeWalk do when they run, all branches of them:     *)
(* which names they look up outside, and what they touch there.  This is   *)
(* the meaning that the passes built on the walk are judged by; it is      *)
(* given by environments, not by a stack of scopes.                        *)
(*                                                                         *)
(* A location is an outer name and the fields that lead to it.  Running a  *)
(* tree gives the locations its value may be, those it reads, those it     *)
(* hands to code that may reach anything from them, the names it looks up  *)
(* outside, and the environment, which gives each local name the locations *)
(* it may be.                                                              *)
(***************************************************************************)
EXTENDS ScopeWalk
LOCAL INSTANCE SequencesExt
LOCAL INSTANCE Functions

Result(value, read, used, looked, env) ==
  [value |-> value, read |-> read, used |-> used, looked |-> looked, env |-> env]
Nothing(env) == Result({}, {}, {}, {}, env)
Both(a, b) == Result(a.value \cup b.value, a.read \cup b.read, a.used \cup b.used,
                     a.looked \cup b.looked, b.env)
Used(r) == [r EXCEPT !.used = @ \cup r.value]
In(env, r) == [r EXCEPT !.env = env]
Local(env, names, value) ==
  [x \in DOMAIN env \cup names |-> IF x \in names THEN value ELSE env[x]]

RECURSIVE Run(_, _)

\* One after the other; the value of each may be part of that of the whole.
RunAll(nodes, env) == FoldLeft(LAMBDA r, n : Both(r, Run(n, r.env)), Nothing(env), nodes)

RunBody(n, env) ==
  Used(In(env, RunAll(Defaults(n.params) \o << n.body >>, Local(env, ParamNames(n.params), {}))))

LookUp(x, env) ==
  IF x \in DOMAIN env THEN Result(env[x], {}, {}, {}, env)
  ELSE Result({<< x, << >> >>}, {<< x, << >> >>}, {}, {x}, env)

RunBase(b, env) ==
  CASE b.kind = "id" -> LookUp(b.name, env)
    [] b.kind = "text" -> Used(RunAll([i \in DOMAIN b.parts |-> b.parts[i].node], env))
    [] OTHER -> Used(RunAll(b.args, env))

\* A selector that is called is a method: it reads no field.
RunSuffix(r, suffixes, i) ==
  LET s == suffixes[i]
      fields == {<< l[1], Append(l[2], s.name) >> : l \in r.value}
  IN  IF s.kind # "sel" THEN Used(Both(r, RunAll(s.args, r.env)))
      ELSE IF i < Len(suffixes) /\ suffixes[i + 1].kind = "call" THEN r
      ELSE [r EXCEPT !.value = fields, !.read = @ \cup fields]

RunClause(r, c) ==
  LET arm == RunAll(c.guard \o << c.body >>, Local(r.env, PatternNames(c.pattern), r.value))
  IN  Both(r, In(r.env, arm))

Run(n, env) ==
  CASE n.kind = "chain" ->
         LET r == FoldLeft(LAMBDA q, i : RunSuffix(q, n.suffixes, i), RunBase(n.base, env),
                           [i \in DOMAIN n.suffixes |-> i])
         IN  IF n.clauses = << >> THEN r ELSE FoldLeft(RunClause, Used(r), n.clauses)
    [] n.kind = "typed" -> Used(LookUp(n.name, env))
    [] n.kind = "lambda" -> [RunBody(n, env) EXCEPT !.value = {}]
    [] n.kind = "func" ->
         In(Local(env, {n.name}, {}),
            [RunBody(n, Local(env, {n.name} \cup n.binders, {})) EXCEPT !.value = {}])
    [] n.kind = "let" ->
         LET r == RunAll(n.args, env)
         IN  [r EXCEPT !.env = Local(r.env, Range(n.names), r.value), !.value = {}]
    [] n.kind = "block" -> In(env, Used(RunAll(n.body, env)))
    [] n.kind = "if" -> In(env, Used(RunAll(n.init \o << n.cond >> \o n.blocks, env)))
    [] n.kind \in {"for", "range"} ->
         LET r == Used(RunAll(n.args, env))
             named == IF n.kind = "for" THEN r
                      ELSE IF n.fresh THEN [r EXCEPT !.env = Local(r.env, Range(n.names), r.value)]
                      ELSE FoldLeft(LAMBDA q, x : Both(q, LookUp(x, q.env)), r, n.names)
         IN  In(env, Both(named, Run(n.body, named.env)))
    [] OTHER -> Used(RunAll(n.args, env))

NoNames == [x \in {} |-> {}]
RunClosure(closure) == Used(Run(closure, NoNames))
=============================================================================
