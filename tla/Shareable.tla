----------------------------- MODULE Shareable -----------------------------
(***************************************************************************)
(* Which values may cross a goroutine boundary                             *)
(* (internal/transpiler/concurrency/shareable.go and helpers.go): the      *)
(* types all of whose contents are immutable, decided from the type and    *)
(* from what is known of the structs and sealed types it names.            *)
(*                                                                         *)
(* A type is [kind, name, pkg, args]; its kind is that of the Go type that *)
(* represents it: "void", "basic" (primitives, type parameters, types of   *)
(* package main), "named", "generic", "slice", "map", "pointer", "func".   *)
(* Metadata has what the resolver knows of GALA types: their parameters,   *)
(* their fields and whether each is a val, and the field types of their    *)
(* variants.  A Go type is not in it (concurrency_check.go:44-58).         *)
(***************************************************************************)
EXTENDS Integers, Sequences, FiniteSets
LOCAL INSTANCE Functions

CONSTANTS
  Metadata,    \* [name -> [params, fields, variants, sealed]]
  GoScalars    \* Go types whose underlying type is a primitive

Type(kind, name, pkg, args) == [kind |-> kind, name |-> name, pkg |-> pkg, args |-> args]
Basic(name) == Type("basic", name, "", << >>)
Named(name) == Type("named", name, "main", << >>)
Generic(name, args) == Type("generic", name, "main", args)

Primitives == {"int", "string", "bool"}
Wrappers == {"Option", "Try", "Either", "Tuple", "Immutable", "ConstPtr"}

\* Type parameters are basic types; arguments that are missing replace nothing.
buildSubst(params, args) ==
  [p \in {params[i] : i \in DOMAIN params \cap DOMAIN args} |->
     args[CHOOSE i \in DOMAIN params : params[i] = p]]

RECURSIVE substitute(_, _)
substitute(t, subst) ==
  IF t.kind = "basic" /\ t.name \in DOMAIN subst THEN subst[t.name]
  ELSE [t EXCEPT !.args = [i \in DOMAIN t.args |-> substitute(t.args[i], subst)]]

\* The types of the fields of a struct, or of those of all variants.
FieldTypes(meta, args) ==
  LET types == IF meta.sealed THEN UNION {Range(meta.variants[i]) : i \in DOMAIN meta.variants}
               ELSE {meta.fields[i].type : i \in DOMAIN meta.fields}
  IN  {substitute(t, buildSubst(meta.params, args)) : t \in types}

HasVarField(meta) == ~meta.sealed /\ \E i \in DOMAIN meta.fields : ~meta.fields[i].val

\* Mutant: one visit of a generic type stands for all its instances.
VisitOfAny(name, args) == << name >>
\* What is remembered of a type whose fields are being looked at.
VisitOf(name, args) == << name, args >>

RECURSIVE isShareable(_, _)

allShareable(types, visited) == \A t \in types : isShareable(t, visited)

isNamedStructShareable(name, args, visited) ==
  LET visit == VisitOf(name, args)
  IN  /\ name \in DOMAIN Metadata
      /\ visit \in visited \/ (/\ ~HasVarField(Metadata[name])
                               /\ allShareable(FieldTypes(Metadata[name], args),
                                               visited \cup {visit}))

isShareable(t, visited) ==
  CASE t.kind = "void" -> TRUE
    [] t.kind = "basic" ->
         t.name \in Primitives \/ isNamedStructShareable(t.name, << >>, visited)
    [] t.kind = "named" ->
         t.name \in Wrappers \cup GoScalars \/ isNamedStructShareable(t.name, << >>, visited)
    [] t.kind = "generic" ->
         IF t.pkg = "collection_mutable" THEN FALSE
         ELSE IF t.pkg = "collection_immutable" \/ t.name \in Wrappers
           THEN allShareable(Range(t.args), visited)
         ELSE isNamedStructShareable(t.name, t.args, visited)
    [] OTHER -> FALSE

IsShareable(t) == isShareable(t, {})

-----------------------------------------------------------------------------
(* What the answer is about: the types of everything that can be reached   *)
(* from a value, collected without a visited set.                          *)

Holds(t) == t.kind = "generic" /\ (t.pkg = "collection_immutable" \/ t.name \in Wrappers)
IsStruct(t) == t.kind \in {"basic", "named", "generic"} /\ t.name \in DOMAIN Metadata

Parts(t) == IF Holds(t) THEN Range(t.args)
            ELSE IF IsStruct(t) THEN FieldTypes(Metadata[t.name], t.args)
            ELSE {}

RECURSIVE ReachFrom(_)
ReachFrom(types) ==
  LET more == types \cup UNION {Parts(t) : t \in types}
  IN  IF more = types THEN types ELSE ReachFrom(more)

\* A value of the type itself can be written to, or nothing is known of it.
Writable(t) ==
  ~ \/ t.kind = "void"
    \/ t.kind = "basic" /\ t.name \in Primitives
    \/ t.kind = "named" /\ t.name \in GoScalars
    \/ Holds(t) /\ t.pkg # "collection_mutable"
    \/ IsStruct(t) /\ ~HasVarField(Metadata[t.name])

\* A type is shareable exactly when nothing writable can be reached from it,
\* however the types refer to each other and to themselves (shareable.go:279).
ShareableIsDeep(t) == IsShareable(t) = (\A u \in ReachFrom({t}) : ~Writable(u))
=============================================================================
