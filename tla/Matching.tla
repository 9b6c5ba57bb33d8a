------------------------------ MODULE Matching ------------------------------
(***************************************************************************)
(* What the transformer makes of a match: the clause that becomes the      *)
(* default, the verdict on exhaustiveness, and the chain of ifs            *)
(* (internal/transpiler/transformer: match.go, postfix.go, utils.go).      *)
(*                                                                         *)
(* A value is [variant, payload].  The type of the subject is named by the *)
(* set of its variants: those of a sealed type, true and false of a bool,  *)
(* or none.  A pattern is [kind, name, arg]: a wildcard, a binding, or a   *)
(* variant (a literal is one without a name) whose argument is bound or    *)
(* compared.  A clause is [pattern, guard].                                *)
(***************************************************************************)
EXTENDS Naturals, Sequences

Bound == << >>    \* an argument that is bound; <<n>> is one compared with n
NoGuard == << >>  \* <<s>> is a guard that holds for the payloads in s

isWildcard(p) == p.kind = "wildcard"
isBindingPattern(p) == p.kind = "binding"
isDefaultPattern(p) == isWildcard(p) \/ isBindingPattern(p)
Guarded(c) == c.guard # NoGuard

\* What the condition of a clause tests.
Fits(c, v) ==
    /\ c.pattern.kind = "variant" => /\ c.pattern.name = v.variant
                                     /\ c.pattern.arg \in {Bound, <<v.payload>>}
    /\ Guarded(c) => v.payload \in c.guard[1]

Least(is) == CHOOSE i \in is : \A j \in is : i <= j

-----------------------------------------------------------------------------
(* The two lowerings, "expression" (match.go) and "postfix" (postfix.go).    *)

\* A wildcard is the default, and without one a binding is.
hasExplicitWildcard(cs) == \E i \in DOMAIN cs : isWildcard(cs[i].pattern) /\ ~Guarded(cs[i])
\* Mutant: a guarded wildcard is a default, too.
treatAsDefaultGuarded(cs, i) ==
    \/ isWildcard(cs[i].pattern)
    \/ ~hasExplicitWildcard(cs) /\ isBindingPattern(cs[i].pattern)
treatAsDefault(cs, i) ==
    /\ ~Guarded(cs[i])
    /\ \/ isWildcard(cs[i].pattern)
       \/ ~hasExplicitWildcard(cs) /\ isBindingPattern(cs[i].pattern)
Defaults(cs) == {i \in DOMAIN cs : treatAsDefault(cs, i)}

\* Guards and the arguments of a variant are not looked at.
extractVariantName(p) == p.name
\* Mutant: one variant that is covered is enough.
isExhaustiveSomewhere(variants, cs) ==
    \E v \in variants : \E i \in DOMAIN cs :
        ~isDefaultPattern(cs[i].pattern) /\ extractVariantName(cs[i].pattern) = v
isExhaustiveMatch(variants, cs) ==
    \A v \in variants : \E i \in DOMAIN cs :
        ~isDefaultPattern(cs[i].pattern) /\ extractVariantName(cs[i].pattern) = v

\* The second look for a default: postfix.go forgets the guard.
\* Mutant: only a wildcard counts.
hasWildcard(form, cs) == hasExplicitWildcard(cs)
hasDefault(form, cs) ==
    \/ Defaults(cs) # {}
    \/ \E i \in DOMAIN cs : isBindingPattern(cs[i].pattern)
                              /\ (form = "expression" => ~Guarded(cs[i]))

foundTwice(cs) == \E i, j \in Defaults(cs) : i # j
WithoutDefault(variants, cs) ==
    CASE variants = {} -> "missing default"
      [] ~isExhaustiveMatch(variants, cs) -> "non-exhaustive"
      [] OTHER -> "unreachable"  \* accepted, with a panic as the default

\* The verdicts, in the order of the checks; only postfix.go wants a clause.
transformMatchClauses(variants, cs) ==
    CASE foundTwice(cs) -> "multiple defaults"
      [] hasDefault("expression", cs) -> "accepted"
      [] OTHER -> WithoutDefault(variants, cs)
buildMatchExpressionFromClauses(variants, cs) ==
    CASE foundTwice(cs) -> "multiple defaults"
      [] cs = << >> -> "no case"
      [] hasDefault("postfix", cs) -> "accepted"
      [] OTHER -> WithoutDefault(variants, cs)
Verdict(form, variants, cs) ==
    IF form = "expression" THEN transformMatchClauses(variants, cs)
    ELSE buildMatchExpressionFromClauses(variants, cs)

\* The clause that runs: the first of the chain, which has no default, or else
\* the default.
Chosen(cs, v) ==
    LET chain == {i \in DOMAIN cs \ Defaults(cs) : Fits(cs[i], v)}
    IN  IF chain # {} THEN Least(chain) ELSE IF Defaults(cs) # {} THEN Least(Defaults(cs)) ELSE 0

-----------------------------------------------------------------------------
(* Properties, against the clause that fits first.                           *)

FirstFitting(cs, v) ==
    LET fitting == {i \in DOMAIN cs : Fits(cs[i], v)} IN IF fitting = {} THEN 0 ELSE Least(fitting)

Accepted(form, variants, cs) == Verdict(form, variants, cs) \in {"accepted", "unreachable"}
DefaultIsLast(cs) == \A i \in Defaults(cs) : i = Len(cs)

\* In an accepted match whose default is the last clause the first clause that
\* fits is the one that runs (match.go:902-917).
FirstMatchWins(form, variants, cs, v) ==
    Accepted(form, variants, cs) /\ DefaultIsLast(cs) => Chosen(cs, v) = FirstFitting(cs, v)

\* A match expression accepted without a default never panics, unless it has
\* guards or compares arguments (match.go:880-889, 233-257).
Plain(c) == ~Guarded(c) /\ c.pattern.arg = Bound
NeverUnreachable(variants, cs, v) ==
    (/\ Accepted("expression", variants, cs)
     /\ v.variant \in variants
     /\ \A i \in DOMAIN cs : Plain(cs[i])) => Chosen(cs, v) # 0

\* A match that covers every value with clauses that have neither guards nor
\* compared arguments is accepted, whichever way it is lowered, unless it has
\* two defaults (GALA.MD:863).
CoveringIsAccepted(form, variants, cs) ==
    (/\ \/ (\E i \in DOMAIN cs : ~Guarded(cs[i]) /\ isDefaultPattern(cs[i].pattern))
        \/ /\ variants # {}
           /\ \A n \in variants : \E i \in DOMAIN cs :
                Plain(cs[i]) /\ cs[i].pattern.kind = "variant" /\ cs[i].pattern.name = n
     /\ \A i, j \in Defaults(cs) : i = j)
    => Accepted(form, variants, cs)

\* The same without the exceptions: what the guide says of Scala's semantics
\* (GALA.MD:863) and of an exhaustive match.
ScalaSemantics(form, variants, cs, v) ==
    Accepted(form, variants, cs) => Chosen(cs, v) = FirstFitting(cs, v) /\ Chosen(cs, v) # 0
=============================================================================
