----------------------------- MODULE ScopeWalk -----------------------------
(***************************************************************************)
(* The walk that finds the names a piece of code refers to and does not    *)
(* bind itself (internal/transpiler/scopewalk/scopewalk.go), which the     *)
(* capture analysis and the check for undefined names share.               *)
(*                                                                         *)
(* A syntax tree is a record with a kind:                                  *)
(*   expressions  chain (base, suffixes, clauses), op (args: operators and *)
(*                every node without a handler), lambda (params, body)     *)
(*   bases        id (name), text (parts), tuple (args), new (keys, args)  *)
(*   suffixes     sel (name), call (args), index (args)                    *)
(*   arguments    expressions, and typed (name) for x: T                   *)
(*   patterns     names (name), tuple (subs), ctor (subs), literal         *)
(*   statements   let (names, args) for val, var, :=, bind, also and use;  *)
(*                func, block, if, for, range, and expressions             *)
(* Types, labels and selectors refer to nothing and are left out.          *)
(***************************************************************************)
EXTENDS Integers, Sequences, FiniteSets
LOCAL INSTANCE SequencesExt
LOCAL INSTANCE Functions

\* The walker: the scopes, innermost last, and what it has reported.
Start == [scopes |-> << >>, refs |-> {}]

PushScope(w) == [w EXCEPT !.scopes = Append(@, {})]
PopScope(w) == [w EXCEPT !.scopes = Front(@)]
Bind(w, names) ==
  LET open == IF w.scopes = << >> THEN PushScope(w) ELSE w
  IN  IF names \ {"_"} = {} THEN w
      ELSE [open EXCEPT !.scopes[Len(open.scopes)] = @ \cup (names \ {"_"})]
Bound(w, name) == \E i \in DOMAIN w.scopes : name \in w.scopes[i]

Whole == [whole |-> TRUE, path |-> << >>]
PathUse(path) == [whole |-> FALSE, path |-> path]

reference(w, name, use) ==
  IF name = "_" \/ Bound(w, name) THEN w
  ELSE [w EXCEPT !.refs = @ \cup {[name |-> name, use |-> use]}]

\* A run of selectors is a path; one method may be called on the last field.
classifySuffixes(suffixes, clauses) ==
  LET n == Len(suffixes)
      selectors == {i \in 1 .. n : \A j \in 1 .. i : suffixes[j].kind = "sel"}
      k == Cardinality(selectors)
      Path(m) == PathUse([i \in 1 .. m |-> suffixes[i].name])
  IN  IF clauses # << >> \/ n = 0 THEN Whole
      ELSE IF k = n THEN Path(n)
      ELSE IF k = n - 1 /\ k >= 2 /\ suffixes[n].kind = "call" THEN Path(k - 1)
      ELSE Whole

RECURSIVE PatternNames(_)
PatternNames(p) ==
  CASE p.kind = "names" -> {p.name}
    [] p.kind \in {"tuple", "ctor"} -> UNION {PatternNames(p.subs[i]) : i \in DOMAIN p.subs}
    [] OTHER -> {}

ParamNames(params) == {params[i].name : i \in DOMAIN params}
Defaults(params) ==
  FlattenSeq([i \in DOMAIN params |-> params[i].default])

-----------------------------------------------------------------------------
RECURSIVE Walk(_, _, _)

WalkAll(nodes, w, o) == FoldLeft(LAMBDA v, n : Walk(n, v, o), w, nodes)

\* Names are bound before the defaults are walked, and the body comes last.
WalkFunctionBody(n, w, o) == WalkAll(Defaults(n.params) \o << n.body >>,
                                     Bind(w, ParamNames(n.params)), o)

WalkLambda(n, w, o) == PopScope(WalkFunctionBody(n, PushScope(w), o))

WalkBlock(n, w, o) == PopScope(WalkAll(n.body, PushScope(w), o))

\* Mutant: the names are bound before their values are walked.
walkDeclarationFirst(n, w, o) == WalkAll(n.args, Bind(w, Range(n.names)), o)
walkValVarDecl(n, w, o) == Bind(WalkAll(n.args, w, o), Range(n.names))

\* A function may call itself; its receiver and type parameters are bound for
\* the check of undefined names only (EnterFunctionScope).
WalkFunctionDeclaration(n, w, o) ==
  LET inside == PushScope(Bind(w, {n.name}))
  IN  PopScope(WalkFunctionBody(n, IF o.functionScope THEN Bind(inside, n.binders) ELSE inside, o))

walkIfStatement(n, w, o) ==
  PopScope(WalkAll(n.init \o << n.cond >> \o n.blocks, PushScope(w), o))

\* The clauses of a for, or the value of a range before its variables.
walkForStatement(n, w, o) ==
  LET clauses == WalkAll(n.args, PushScope(w), o)
      named == IF n.kind = "for" THEN clauses
               ELSE IF n.fresh THEN Bind(clauses, Range(n.names))
               ELSE FoldLeft(LAMBDA v, x : reference(v, x, Whole), clauses, n.names)
  IN  PopScope(Walk(n.body, named, o))

walkCaseClause(c, w, o) ==
  PopScope(WalkAll(c.guard \o << c.body >>, Bind(PushScope(w), PatternNames(c.pattern)), o))

walkPrimary(b, w, o) ==
  CASE b.kind = "text" ->
         WalkAll(FlattenSeq([i \in DOMAIN b.parts |->
                   IF o.cleanOnly /\ ~b.parts[i].clean THEN << >> ELSE << b.parts[i].node >>]), w, o)
    [] b.kind = "tuple" -> WalkAll(b.args, w, o)
    [] b.kind = "new" ->
         WalkAll(FlattenSeq([i \in DOMAIN b.args |->
                   IF o.skipKeys THEN << b.args[i] >> ELSE << b.keys[i], b.args[i] >>]), w, o)
    [] OTHER -> Walk(b, w, o)

walkPostfixExpr(n, w, o) ==
  LET base == IF n.base.kind = "id"
                THEN reference(w, n.base.name, classifySuffixes(n.suffixes, n.clauses))
                ELSE walkPrimary(n.base, w, o)
      suffixed == FoldLeft(LAMBDA v, s : IF s.kind = "sel" THEN v ELSE WalkAll(s.args, v, o),
                           base, n.suffixes)
  IN  FoldLeft(LAMBDA v, c : walkCaseClause(c, v, o), suffixed, n.clauses)

walkArgument(n, w, o) ==
  IF n.kind # "typed" THEN Walk(n, w, o)
  ELSE IF o.skipTyped THEN w ELSE reference(w, n.name, Whole)

Walk(n, w, o) ==
  CASE n.kind = "chain" -> walkPostfixExpr(n, w, o)
    [] n.kind = "typed" -> walkArgument(n, w, o)
    [] n.kind = "lambda" -> WalkLambda(n, w, o)
    [] n.kind = "block" -> WalkBlock(n, w, o)
    [] n.kind = "let" -> walkValVarDecl(n, w, o)
    [] n.kind = "func" -> WalkFunctionDeclaration(n, w, o)
    [] n.kind = "if" -> walkIfStatement(n, w, o)
    [] n.kind \in {"for", "range"} -> walkForStatement(n, w, o)
    [] OTHER -> WalkAll(n.args, w, o)

-----------------------------------------------------------------------------
(* Trees, for those who build them.                                        *)
Chain(base, suffixes) == [kind |-> "chain", base |-> base, suffixes |-> suffixes, clauses |-> << >>]
Match(subject, clauses) == [subject EXCEPT !.clauses = clauses]
Id(x) == [kind |-> "id", name |-> x]
Name(x) == Chain(Id(x), << >>)
Sel(f) == [kind |-> "sel", name |-> f]
Call(args) == [kind |-> "call", args |-> args]
Index(args) == [kind |-> "index", args |-> args]
Op(args) == [kind |-> "op", args |-> args]
Param(x) == [name |-> x, default |-> << >>]
Lambda(params, body) == [kind |-> "lambda", params |-> params, body |-> body]
Block(body) == [kind |-> "block", body |-> body]
Let(x, e) == [kind |-> "let", names |-> << x >>, args |-> << e >>]
Func(f, params, body) ==
  [kind |-> "func", name |-> f, binders |-> {}, params |-> params, body |-> body]
Case(pattern, body) == [pattern |-> pattern, guard |-> << >>, body |-> body]
=============================================================================
