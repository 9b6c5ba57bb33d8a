----------------------------- MODULE TailCalls -----------------------------
(***************************************************************************)
(* The rewrite of self tail calls into a loop                              *)
(* (internal/transpiler/transformer/tco.go) and what a function computes   *)
(* before and after it.  A function of two integer parameters has an       *)
(* if-expression as its body:                                              *)
(*   <<"num", k>>, <<"par", i>>, <<"dec", i>>, <<"sum">>   values          *)
(*   <<"keep", i>>        0, after a closure over parameter i was kept by   *)
(*                        somebody who calls it when the function is done   *)
(*   <<"self", args, style>>  a call of the function itself, "plain" or     *)
(*                        with named arguments                              *)
(*   <<"succ", e>>        1 + e, so that a call in e is no tail call        *)
(*   <<"block", e>>       a block branch with the value e                   *)
(*   <<"if", c, a, b>>    a if c <= 0, else b                               *)
(* A value comes with what the kept closures see at the end.               *)
(***************************************************************************)
EXTENDS Integers, Sequences, FiniteSets

CONSTANT Fuel   \* bound: calls and rounds of one evaluation

Self(args) == <<"self", args, "plain">>

RECURSIVE HasClosure(_)
HasClosure(e) ==
  CASE e[1] = "keep" -> TRUE
    [] e[1] \in {"succ", "block"} -> HasClosure(e[2])
    [] e[1] = "self" -> \E i \in DOMAIN e[2] : HasClosure(e[2][i])
    [] e[1] = "if" -> \E i \in 2 .. 4 : HasClosure(e[i])
    [] OTHER -> FALSE

-----------------------------------------------------------------------------
(* The rewrite.  Its result is an if whose leaves are <<"return", e>> and    *)
(* <<"step", args>>: assign the parameters and go round again.               *)

RECURSIVE hasTailSelfCall(_)
\* Mutant: both branches must end in a call.
hasTailSelfCallInBoth(e) ==
  CASE e[1] = "if" -> hasTailSelfCall(e[3]) /\ hasTailSelfCall(e[4])
    [] e[1] = "self" -> Len(e[2]) = 2
    [] OTHER -> FALSE
\* A block branch hides its calls; the style of the arguments is not looked at.
hasTailSelfCall(e) ==
  CASE e[1] = "if" -> hasTailSelfCall(e[3]) \/ hasTailSelfCall(e[4])
    [] e[1] = "self" -> Len(e[2]) = 2
    [] OTHER -> FALSE

\* Mutant: closures are not looked for.
containsNothing(args) == FALSE
containsFuncLit(args) == \E i \in DOMAIN args : HasClosure(args[i])

\* A call is a step only with positional arguments none of which makes a
\* closure, for that would see the parameters change.
buildTailCallStep(e) == /\ e[1] = "self" /\ Len(e[2]) = 2
                        /\ e[3] = "plain" /\ ~containsFuncLit(e[2])

RECURSIVE buildTail(_)
buildTail(e) ==
  CASE e[1] = "if" -> <<"if", e[2], buildTail(e[3]), buildTail(e[4])>>
    [] e[1] = "block" -> <<"return", e[2]>>
    [] OTHER -> IF buildTailCallStep(e) THEN <<"step", e[2]>> ELSE <<"return", e>>

RECURSIVE Steps(_)
Steps(stmt) == CASE stmt[1] = "if" -> Steps(stmt[3]) \/ Steps(stmt[4])
                 [] OTHER -> stmt[1] = "step"

\* << >> where the function keeps its ordinary lowering.
tryTransformSelfTailRecursion(body) ==
  IF body[1] # "if" \/ ~hasTailSelfCall(body) \/ ~Steps(buildTail(body)) THEN << >>
  ELSE buildTail(body)

-----------------------------------------------------------------------------
(* Evaluation.  An outcome has the value, what was kept (the values of      *)
(* parameters that closures will read) and the calls and rounds spent;      *)
(* running out of Fuel is an outcome of its own.                            *)

Outcome(v, kept, spent) == [ok |-> spent <= Fuel, value |-> v, kept |-> kept, spent |-> spent]
OutOfFuel == [ok |-> FALSE, value |-> 0, kept |-> << >>, spent |-> Fuel + 1]

\* The arguments one after the other, each with what it keeps.
Both(first, second) ==
  IF ~first.ok THEN first
  ELSE [second EXCEPT !.value = <<first.value, @>>, !.kept = first.kept \o @]

\* Eval(body, loop, e, pars, spent): e under the parameters pars; a self-call
\* runs the body, or the loop when there is one.  A closure kept under pars is
\* recorded as the index of its parameter and Run gives it its value.
RECURSIVE Eval(_, _, _, _, _), Run(_, _, _, _), Loop(_, _, _, _, _, _)

Ref(i) == [ref |-> i, value |-> 0]
Resolve(kept, pars) ==
  [i \in DOMAIN kept |-> IF kept[i].ref = 0 THEN kept[i]
                         ELSE [ref |-> 0, value |-> pars[kept[i].ref]]]

Eval(body, loop, e, pars, spent) ==
  CASE e[1] = "num" -> Outcome(e[2], << >>, spent)
    [] e[1] = "par" -> Outcome(pars[e[2]], << >>, spent)
    [] e[1] = "dec" -> Outcome(pars[e[2]] - 1, << >>, spent)
    [] e[1] = "sum" -> Outcome(pars[1] + pars[2], << >>, spent)
    [] e[1] = "keep" -> Outcome(0, << Ref(e[2]) >>, spent)
    [] e[1] = "block" -> Eval(body, loop, e[2], pars, spent)
    [] e[1] = "succ" ->
         LET inner == Eval(body, loop, e[2], pars, spent) IN [inner EXCEPT !.value = @ + 1]
    [] e[1] = "self" ->
         LET a == Eval(body, loop, e[2][1], pars, spent)
             b == Eval(body, loop, e[2][2], pars, a.spent)
             args == Both(a, b)
             called == Run(body, loop, args.value, args.spent)
         IN  IF ~args.ok THEN OutOfFuel
             ELSE [called EXCEPT !.kept = args.kept \o @]
    [] e[1] = "if" ->
         LET cond == Eval(body, loop, e[2], pars, spent)
             branch == Eval(body, loop, IF cond.value <= 0 THEN e[3] ELSE e[4], pars, cond.spent)
         IN  IF ~cond.ok THEN OutOfFuel ELSE [branch EXCEPT !.kept = cond.kept \o @]

\* One call.  Its closures see the parameters as they are when it returns.
Run(body, loop, pars, spent) ==
  IF spent >= Fuel THEN OutOfFuel
  ELSE IF loop # << >> THEN Loop(body, loop, loop, pars, << >>, spent + 1)
  ELSE LET answer == Eval(body, loop, body, pars, spent + 1)
       IN  [answer EXCEPT !.kept = Resolve(@, pars)]

\* Every argument of a step is evaluated with the old parameters.
Loop(body, loop, stmt, pars, kept, spent) ==
  CASE stmt[1] = "if" ->
         LET cond == Eval(body, loop, stmt[2], pars, spent)
         IN  IF ~cond.ok THEN OutOfFuel
             ELSE Loop(body, loop, IF cond.value <= 0 THEN stmt[3] ELSE stmt[4], pars,
                       kept \o cond.kept, cond.spent)
    [] stmt[1] = "return" ->
         LET answer == Eval(body, loop, stmt[2], pars, spent)
         IN  [answer EXCEPT !.kept = Resolve(kept \o @, pars)]
    [] stmt[1] = "step" ->
         LET a == Eval(body, loop, stmt[2][1], pars, spent)
             b == Eval(body, loop, stmt[2][2], pars, a.spent)
             args == Both(a, b)
         IN  IF ~args.ok \/ args.spent >= Fuel THEN OutOfFuel
             ELSE Loop(body, loop, loop, args.value, kept \o args.kept, args.spent + 1)

-----------------------------------------------------------------------------
(* Properties of a body and its arguments. *)

Same(a, b) == IF a.ok THEN a = b ELSE ~b.ok

RECURSIVE Conditions(_)
Conditions(e) == IF e[1] = "if" THEN {e[2]} \cup Conditions(e[3]) \cup Conditions(e[4]) ELSE {}

\* The loop computes what the recursion computes, with the same closures seeing
\* the same values and in as many rounds as there were calls, unless a
\* condition makes a closure (tco.go:40-60, 302-310).
LoopAgrees(body, pars) ==
  LET loop == tryTransformSelfTailRecursion(body)
  IN  loop # << >> /\ (\A c \in Conditions(body) : ~HasClosure(c)) =>
        Same(Run(body, loop, pars, 0), Run(body, << >>, pars, 0))

\* The same without the exception.
LoopAlwaysAgrees(body, pars) ==
  LET loop == tryTransformSelfTailRecursion(body)
  IN  loop # << >> => Same(Run(body, loop, pars, 0), Run(body, << >>, pars, 0))

RECURSIVE CallsItself(_)
CallsItself(e) ==
  CASE e[1] \in {"succ", "block"} -> CallsItself(e[2])
    [] e[1] = "self" -> TRUE
    [] e[1] = "if" -> \E i \in 2 .. 4 : CallsItself(e[i])
    [] OTHER -> FALSE

RECURSIVE Leaves(_)
Leaves(stmt) == IF stmt[1] = "if" THEN Leaves(stmt[3]) \cup Leaves(stmt[4]) ELSE {stmt}

\* A body whose only calls of itself are plain values of its branches runs in
\* constant stack: no call is left in the loop (tco.go:32-34).
RunsInConstantStack(body) ==
  LET tail == {e \in Leaves(body) : buildTailCallStep(e)}
      Elsewhere == Conditions(body) \cup (Leaves(body) \ tail)
                     \cup UNION {{e[2][i] : i \in 1 .. 2} : e \in tail}
  IN  tail # {} /\ (\A e \in Elsewhere : ~CallsItself(e)) =>
        LET loop == tryTransformSelfTailRecursion(body)
        IN  /\ loop # << >>
            /\ \A leaf \in Leaves(loop) : leaf[1] = "return" => ~CallsItself(leaf[2])
=============================================================================
