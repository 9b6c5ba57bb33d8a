---------------------------- MODULE CallArguments ----------------------------
(***************************************************************************)
(* How the arguments of a call reach the parameters                        *)
(* (internal/transpiler/transformer/calls.go, struct_defaults.go and the   *)
(* Copy of methods.go).  An argument is written with a label or without;   *)
(* its value is the place it is written at, so that a call is a sequence   *)
(* of labels.  A callee has its parameters in order, those that have a     *)
(* default, and a form: one of the ways of transformCallWithArgsCtx.       *)
(*                                                                         *)
(* The result is empty for a call that is refused, by the transpiler or by *)
(* the Go compiler, which checks the number of arguments and the names of  *)
(* the fields of what the transpiler emits.  Values are all of one type,   *)
(* and nothing is variadic.                                                *)
(***************************************************************************)
EXTENDS Integers, Sequences, FiniteSets, SequencesExt

\* What a parameter gets that no argument is written for.
Default == -1
Zero == -2
Old == -3

Functions == {"function", "method", "generic method"}
\* Methods whose receiver has an unresolved type, or whose metadata is unknown.
Opaque == {"open method", "unknown method"}
Constructions == {"shorthand", "block", "variant", "go type"}
Forms == Functions \cup Opaque \cup Constructions \cup {"copy"}

None == ""
Refused == << >>
At(params, p) == CHOOSE i \in DOMAIN params : params[i] = p

\* transformFunctionArgs: the places of the positional arguments, and the map
\* of the named ones, in which a later one replaces an earlier.
Positional(args) == SetToSortSeq({i \in DOMAIN args : args[i] = None}, LAMBDA i, j : i < j)
Named(args) == [l \in Range(args) \ {None} |-> Max({i \in DOMAIN args : args[i] = l})]

\* A call emitted with these values, in the order of the parameters: Go wants
\* as many as there are.
Emit(params, values) ==
  IF Len(values) = Len(params) THEN << [p \in Range(params) |-> values[At(params, p)]] >> ELSE Refused

-----------------------------------------------------------------------------
(* Functions, and methods of a type that is known.                           *)

\* Mutant of PlaceNamed: a parameter that is taken already is taken again.
PlaceNamedOver(c, positional, named) ==
  LET given == [p \in DOMAIN named \cup {c.params[i] : i \in 1 .. Min({Len(positional), Len(c.params)})} |->
                  IF p \in DOMAIN named THEN named[p] ELSE positional[At(c.params, p)]]
  IN  IF Len(positional) <= Len(c.params) /\ DOMAIN named \subseteq Range(c.params)
         /\ Range(c.params) \subseteq DOMAIN given \cup c.optional
      THEN << [p \in Range(c.params) |-> IF p \in DOMAIN given THEN given[p] ELSE Default] >>
      ELSE Refused

\* handleNamedArgsFuncCall, handleNamedArgsMethodCall
PlaceNamed(c, positional, named) ==
  LET taken == {c.params[i] : i \in 1 .. Min({Len(positional), Len(c.params)})}
  IN  IF /\ Len(positional) <= Len(c.params)
         /\ DOMAIN named \subseteq Range(c.params) \ taken
         /\ Range(c.params) \subseteq taken \cup DOMAIN named \cup c.optional
      THEN << [p \in Range(c.params) |->
                 IF p \in taken THEN positional[At(c.params, p)]
                 ELSE IF p \in DOMAIN named THEN named[p] ELSE Default] >>
      ELSE Refused

\* fillDefaultArgs, fillDefaultArgsMethod
FillDefaults(c, positional) ==
  IF \A i \in Len(positional) + 1 .. Len(c.params) : c.params[i] \in c.optional
  THEN Emit(c.params, [i \in 1 .. Len(c.params) |->
                         IF i <= Len(positional) THEN positional[i] ELSE Default])
  ELSE Refused

CallKnown(c, args) ==
  LET positional == Positional(args)
      named == Named(args)
  IN  IF DOMAIN named # {} THEN PlaceNamed(c, positional, named)
      ELSE IF c.optional # {} /\ Len(positional) < Len(c.params) THEN FillDefaults(c, positional)
      ELSE Emit(c.params, positional)

\* bindMethodArguments, of generic methods: slots are filled in the order the
\* arguments are written in; a positional one takes the next slot, whatever is
\* in it.
CallGeneric(c, args) ==
  LET start == [slots |-> [p \in Range(c.params) |-> Default], next |-> 1, ok |-> TRUE]
      Put(s, i) ==
        IF args[i] = None
        THEN IF s.next > Len(c.params) THEN [s EXCEPT !.ok = FALSE]
             ELSE [s EXCEPT !.slots[c.params[s.next]] = i, !.next = s.next + 1]
        ELSE IF args[i] \notin Range(c.params) \/ s.slots[args[i]] # Default
             THEN [s EXCEPT !.ok = FALSE]
             ELSE [s EXCEPT !.slots[args[i]] = i]
      end == FoldLeft(Put, start, [i \in DOMAIN args |-> i])
  IN  IF Named(args) = << >> /\ Len(args) >= Len(c.params) THEN Emit(c.params, Positional(args))
      ELSE IF end.ok /\ \A p \in Range(c.params) : end.slots[p] = Default => p \in c.optional
           THEN << end.slots >> ELSE Refused

\* emitMethodCallWithVoidLambdaHint, emitDirectMethodCall: in the order written.
CallOpaque(c, args) == Emit(c.params, [i \in DOMAIN args |-> i])

-----------------------------------------------------------------------------
(* Constructions.                                                            *)

\* fillOmittedStructFields: a shorthand struct wants what has no default.
Literal(c, given) ==
  IF c.form = "shorthand" /\ ~(Range(c.params) \subseteq DOMAIN given \cup c.optional) THEN Refused
  ELSE << [p \in Range(c.params) |->
             IF p \in DOMAIN given THEN given[p]
             ELSE IF c.form = "shorthand" THEN Default ELSE Zero] >>

\* The fields in order, as many as there are arguments: the others are dropped.
InOrder(c, positional) ==
  [p \in {c.params[i] : i \in 1 .. Min({Len(positional), Len(c.params)})} |-> positional[At(c.params, p)]]

\* buildSealedVariantApplyCall: the values in the order of the variant's fields;
\* a name that is none of them is dropped.
\* Mutant: in the order of the call.
buildApplyInCallOrder(c, named) == Emit(c.params, SetToSortSeq(Range(named), LAMBDA i, j : i < j))
buildSealedVariantApplyCall(c, named) ==
  LET given == SelectSeq(c.params, LAMBDA p : p \in DOMAIN named)
  IN  Emit(c.params, [i \in DOMAIN given |-> named[given[i]]])

\* checkUnknownStructFields; of a Go type the Go compiler knows the fields.  A
\* name that is no field of a struct in block form is dropped.
checkUnknownStructFields(c, named) ==
  c.form \in {"shorthand", "go type"} => DOMAIN named \subseteq Range(c.params)
buildStructLiteralWithNamedArgs(c, named) ==
  IF checkUnknownStructFields(c, named) THEN Literal(c, named) ELSE Refused

\* handleNamedArgsCall: nothing is done with the positional arguments of a
\* construction that has named ones.
ConstructNamed(c, named) ==
  IF c.form = "variant" THEN buildSealedVariantApplyCall(c, named)
  ELSE buildStructLiteralWithNamedArgs(c, named)

\* tryTransformCompanionApplyOrStructCtor, buildStructLiteral; without any
\* argument only a shorthand struct is constructed.
ConstructPositional(c, positional) ==
  CASE c.form = "variant" -> Emit(c.params, positional)
    [] c.form = "go type" \/ (c.form = "block" /\ positional = << >>) -> Refused
    [] OTHER -> Literal(c, InOrder(c, positional))

\* transformCopyCall
CallCopy(c, args) ==
  IF Range(args) \subseteq Range(c.params)
  THEN << [p \in Range(c.params) |-> IF p \in Range(args) THEN Named(args)[p] ELSE Old] >>
  ELSE Refused

\* transformCallWithArgsCtx, and the calls without arguments, where only
\* functions get their defaults.
CallResult(c, args) ==
  CASE args = << >> /\ c.form \in {"method", "generic method"} -> Emit(c.params, << >>)
    [] c.form \in {"function", "method"} -> CallKnown(c, args)
    [] c.form = "generic method" -> CallGeneric(c, args)
    [] c.form \in Opaque -> CallOpaque(c, args)
    [] c.form = "copy" -> CallCopy(c, args)
    [] OTHER -> IF Named(args) # << >> THEN ConstructNamed(c, Named(args))
                ELSE ConstructPositional(c, Positional(args))

-----------------------------------------------------------------------------
(* What a call means.                                                        *)

\* The parameter an argument is for: that of its label, or the next one.
ParamOf(c, args, i) ==
  LET rank == Cardinality({j \in 1 .. i : args[j] = None})
  IN  IF args[i] # None THEN args[i] ELSE IF rank <= Len(c.params) THEN c.params[rank] ELSE None

Omitted(c) == CASE c.form = "copy" -> Old
                [] c.form \in {"block", "go type"} -> Zero
                [] OTHER -> Default

\* Every argument is for a parameter of its own, and those that are left out
\* may be.  Constructions do not mix the two ways of writing arguments.
WellFormed(c, args) ==
  /\ \A i \in DOMAIN args : ParamOf(c, args, i) \in Range(c.params)
  /\ \A i, j \in DOMAIN args : ParamOf(c, args, i) = ParamOf(c, args, j) => i = j
  /\ Omitted(c) = Default => \A p \in Range(c.params) \ c.optional :
                               \E i \in DOMAIN args : ParamOf(c, args, i) = p
  /\ c.form \notin Functions \cup Opaque => ~(None \in Range(args) /\ Named(args) # << >>)
  /\ c.form \in {"copy", "go type"} => None \notin Range(args)
  /\ c.form \in {"block", "go type"} => args # << >>

Meant(c, args) ==
  [p \in Range(c.params) |->
     IF \E i \in DOMAIN args : ParamOf(c, args, i) = p
     THEN CHOOSE i \in DOMAIN args : ParamOf(c, args, i) = p ELSE Omitted(c)]

\* Named arguments in any order reach the parameters they name, and what is
\* left out gets its default (docs/GALA.MD:247, :262).
CallsMeanWhatTheySay(c, args) == WellFormed(c, args) => CallResult(c, args) = << Meant(c, args) >>

\* A method that is called without any argument gets no defaults, and for an
\* opaque receiver neither labels nor defaults are seen.
Seen(c, args) ==
  /\ c.form \in {"method", "generic method"} => args # << >> \/ c.optional = {}
  /\ c.form \in Opaque => Named(args) = << >> /\ Len(args) = Len(c.params)

\* What is dropped without a word: all but the last argument of a label, the
\* positional arguments of a construction with labels, those past its fields,
\* the value of a label before the positional argument of the same parameter of
\* a generic method, the labels of an opaque method, and those that a variant or
\* a struct in block form does not have.
DropsArguments(c, args) ==
  \/ c.form # "generic method" /\ \E i, j \in DOMAIN args : i # j /\ args[i] = args[j] /\ args[i] # None
  \/ c.form = "generic method" /\ \E i, j \in DOMAIN args : i < j /\ args[i] # None /\ args[j] = None
  \/ c.form \in Opaque /\ Named(args) # << >>
  \/ c.form \in Constructions /\ Named(args) # << >> /\ None \in Range(args)
  \/ c.form \in {"block", "shorthand"} /\ Len(args) > Len(c.params)
  \/ c.form \in {"block", "variant"} /\ ~(Range(args) \subseteq Range(c.params) \cup {None})

\* Every call of which nothing is dropped means what it says ...
CallsAreBound(c, args) == Seen(c, args) => CallsMeanWhatTheySay(c, args)
\* ... and is refused when it cannot mean anything.
OthersAreRefused(c, args) ==
  ~WellFormed(c, args) /\ ~DropsArguments(c, args) => CallResult(c, args) = Refused
=============================================================================
