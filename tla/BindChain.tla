------------------------------ MODULE BindChain ------------------------------
(***************************************************************************)
(* Blocks of bind and also clauses (internal/transpiler/transformer/bind.go *)
(* and the block loop of statements.go): the term of FlatMap and Zip calls  *)
(* they are lowered to, against what the block means.                       *)
(*                                                                         *)
(* A statement is a clause (kind "bind" or "also"), a "val", or the value   *)
(* at the end.  Its right side mentions one identifier: as a name, as the   *)
(* name of a field, or as a parameter of a lambda of its own; or none.  It  *)
(* may fail.  Outer names are vals.  A monad has Zip combinators for the    *)
(* group sizes of zips; those with any accumulate errors, as Validated      *)
(* does, and the others stop at the first.                                  *)
(***************************************************************************)
EXTENDS Integers, Sequences, FiniteSets, SequencesExt

Blank == "_"
MaxZip == 10

Return == [op |-> "return"]
Refusal == [op |-> "refused"]
FlatMap(clause, body) == [op |-> "flatmap", clause |-> clause, body |-> body]
ZipAll(group, body) == [op |-> "zip", group |-> group, body |-> body]
Let(val, body) == [op |-> "let", val |-> val, body |-> body]

\* The group of the leading bind: collectBindGroup.
GroupSize(stmts) ==
  Max({n \in 1 .. Len(stmts) : \A i \in 2 .. n : stmts[i].kind = "also"})

Names(group) == {group[i].name : i \in DOMAIN group} \ {Blank}

\* Mutant of DependsOnSibling: clauses after it only.
DependsOnLater(group, i, scope) ==
  /\ group[i].mention # "none"
  /\ group[i].of \in {group[j].name : j \in i + 1 .. Len(group)} \ (scope \cup {Blank})

\* checkBindGroupIndependence: firstReferencedName looks at every identifier,
\* those that are no variables included.
DependsOnSibling(group, i, scope) ==
  /\ group[i].mention # "none"
  /\ group[i].of \in {group[j].name : j \in DOMAIN group \ {i}} \ (scope \cup {Blank})

Independent(group, scope) ==
  Len(group) >= 2 => \A i \in DOMAIN group : ~DependsOnSibling(group, i, scope)

\* desugarBindChain: which groups are zipped.
Zips(group, zips) == Len(group) \in (2 .. MaxZip) \cap zips

\* Mutant of Sequential: the last clause outermost.
SequentialReversed(group, body) == FoldRight(FlatMap, Reverse(group), body)

\* buildSequential of a group, around the body after it.
Sequential(group, body) == FoldRight(FlatMap, group, body)

\* buildBindBody and desugarBindChain
RECURSIVE BindBody(_, _, _)
BindBody(stmts, scope, zips) ==
  IF stmts = << >> THEN Refusal
  ELSE IF stmts[1].kind = "also" THEN Refusal
  ELSE IF stmts[1].kind = "bind"
  THEN LET n == GroupSize(stmts)
           group == SubSeq(stmts, 1, n)
           rest == BindBody(SubSeq(stmts, n + 1, Len(stmts)), scope \cup Names(group), zips)
       IN  IF ~Independent(group, scope) THEN Refusal
           ELSE IF Zips(group, zips) THEN ZipAll(group, rest) ELSE Sequential(group, rest)
  ELSE IF Len(stmts) = 1
  THEN IF stmts[1].kind = "value" THEN Return ELSE Refusal
  ELSE Let(stmts[1], BindBody(Tail(stmts), scope \cup {stmts[1].name}, zips))

-----------------------------------------------------------------------------
(* What Go does with the term.                                               *)

Repeated(group) == \E i, j \in DOMAIN group : i # j /\ group[i].name = group[j].name /\ group[i].name # Blank
UsesKnown(clause, scope) == clause.mention = "name" => clause.of \in scope

\* The variables are declared, and none twice in one scope.
RECURSIVE Compiles(_, _)
Compiles(term, scope) ==
  CASE term.op = "refused" -> FALSE
    [] term.op = "return" -> TRUE
    [] term.op = "let" -> UsesKnown(term.val, scope) /\ Compiles(term.body, scope \cup {term.val.name})
    [] term.op = "flatmap" -> /\ UsesKnown(term.clause, scope)
                              /\ Compiles(term.body, scope \cup Names(<<term.clause>>))
    [] term.op = "zip" -> /\ \A i \in DOMAIN term.group : UsesKnown(term.group[i], scope)
                          /\ ~Repeated(term.group)
                          /\ Compiles(term.body, scope \cup Names(term.group))

\* A value is the tag of its clause and the value of the variable it uses.
ValueOf(clause, env) ==
  <<clause.tag>> \o IF clause.mention = "name" THEN env[clause.of] ELSE << >>
Bound(env, clause, value) ==
  IF clause.name = Blank THEN env ELSE [x \in DOMAIN env \cup {clause.name} |->
                                          IF x = clause.name THEN value ELSE env[x]]
BindAll(env, group) ==
  FoldLeft(LAMBDA e, clause : Bound(e, clause, ValueOf(clause, env)), env, group)

Failing(group) == {i \in DOMAIN group : ~group[i].ok}
Failed(tags) == [errors |-> tags, env |-> << >>]

\* The names that are visible at the end, or the errors.
RECURSIVE Run(_, _)
Run(term, env) ==
  CASE term.op = "return" -> [errors |-> {}, env |-> env]
    [] term.op = "let" -> Run(term.body, Bound(env, term.val, ValueOf(term.val, env)))
    [] term.op = "flatmap" ->
         IF term.clause.ok THEN Run(term.body, Bound(env, term.clause, ValueOf(term.clause, env)))
         ELSE Failed({term.clause.tag})
    [] term.op = "zip" ->
         IF Failing(term.group) = {} THEN Run(term.body, BindAll(env, term.group))
         ELSE Failed({term.group[i].tag : i \in Failing(term.group)})

-----------------------------------------------------------------------------
(* What the block means: the clauses of a group are evaluated independently, *)
(* in what is visible before it.                                             *)

RECURSIVE Meaning(_, _, _)
Meaning(stmts, env, zips) ==
  IF stmts[1].kind = "bind"
  THEN LET n == GroupSize(stmts)
           group == SubSeq(stmts, 1, n)
           failing == Failing(group)
       IN  IF failing = {} THEN Meaning(SubSeq(stmts, n + 1, Len(stmts)), BindAll(env, group), zips)
           ELSE IF zips # {} THEN Failed({group[i].tag : i \in failing})
           ELSE Failed({group[Min(failing)].tag})
  ELSE IF Len(stmts) = 1 THEN [errors |-> {}, env |-> env]
  ELSE Meaning(Tail(stmts), Bound(env, stmts[1], ValueOf(stmts[1], env)), zips)

\* The statement that starts the group of i.
Start(stmts, i) == IF stmts[i].kind = "also"
                   THEN Max({j \in 1 .. i : stmts[j].kind # "also"}) ELSE i
Before(stmts, i, scope) == (scope \cup {stmts[j].name : j \in 1 .. Start(stmts, i) - 1}) \ {Blank}
Siblings(stmts, i) == {j \in DOMAIN stmts \ {i} : /\ Start(stmts, j) = Start(stmts, i)
                                                  /\ stmts[j].name # Blank}

WellFormed(stmts, scope) ==
  /\ Last(stmts).kind = "value"
  /\ \A i \in DOMAIN stmts :
       /\ stmts[i].kind = "also" => \E j \in 1 .. i : /\ stmts[j].kind = "bind"
                                                      /\ \A k \in j + 1 .. i : stmts[k].kind = "also"
       /\ stmts[i].mention = "name" => stmts[i].of \in Before(stmts, i, scope)
       /\ \A j \in Siblings(stmts, i) : stmts[j].name # stmts[i].name

\* A clause mentions, other than as a variable, the name of a sibling: it is
\* taken for a reference.
LooksDependent(stmts, scope) ==
  \E i \in DOMAIN stmts : /\ stmts[i].mention \in {"field", "own"}
                          /\ stmts[i].of \notin Before(stmts, i, scope)
                          /\ \E j \in Siblings(stmts, i) : stmts[j].name = stmts[i].of
\* Without a Zip, a clause is evaluated inside those before it: it captures the
\* name of such a sibling though it means the outer variable.
Captured(stmts) ==
  \E i \in DOMAIN stmts : \E j \in Siblings(stmts, i) :
     j < i /\ stmts[i].mention = "name" /\ stmts[j].name = stmts[i].of
\* A group that the monad has no Zip for, though it accumulates.
Unzipped(stmts, zips) ==
  /\ zips # {}
  /\ \E i \in DOMAIN stmts : /\ stmts[i].kind = "bind"
                             /\ Cardinality({j \in DOMAIN stmts : Start(stmts, j) = i}) \notin zips \cup {1}

Accepted(stmts, scope, zips) == Compiles(BindBody(stmts, scope, zips), scope)

\* A block that is accepted is well-formed, and its term does what the block
\* means, but for the two cases above (docs/BIND_NOTATION.MD:463).
BlockMeansItsClauses(stmts, env, zips) ==
  Accepted(stmts, DOMAIN env, zips) /\ WellFormed(stmts, DOMAIN env) =>
    \/ zips = {} /\ Captured(stmts)
    \/ Unzipped(stmts, zips)
    \/ Run(BindBody(stmts, DOMAIN env, zips), env) = Meaning(stmts, env, zips)

\* What is accepted is well-formed, but that one name may be bound twice in a
\* sequential group; and what is well-formed is accepted, unless it looks
\* dependent (docs/BIND_NOTATION.MD:471).
WellFormedIsAccepted(stmts, scope, zips) ==
  /\ WellFormed(stmts, scope) /\ ~LooksDependent(stmts, scope) => Accepted(stmts, scope, zips)
  /\ Accepted(stmts, scope, zips) =>
       \/ WellFormed(stmts, scope)
       \/ /\ zips = {} \/ Unzipped(stmts, zips)
          /\ \E i \in DOMAIN stmts : \E j \in Siblings(stmts, i) : stmts[j].name = stmts[i].name
=============================================================================
