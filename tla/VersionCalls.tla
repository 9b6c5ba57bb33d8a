---------------------------- MODULE VersionCalls ----------------------------
(***************************************************************************)
(* The package of versions as its callers see it: a call compares two      *)
(* versions, or sorts a list and selects from it by a constraint.  Nothing *)
(* is kept from one call to the next, so a behaviour is one call.          *)
(***************************************************************************)
EXTENDS Versions

CONSTANTS SomeVersions,    \* what is compared
          SomeLists,       \* what is sorted and selected from
          SomeConstraints

ASSUME CallsAssumption == SomeVersions \subseteq Version /\ SomeLists \subseteq Seq(Version)

VARIABLE argument

NoCall == [what |-> "none"]
Arguments ==
  [what : {"order"}, u : SomeVersions, v : SomeVersions]
    \cup [what : {"lists"}, parts : SomeConstraints, vs : SomeLists]

CallInit == argument \in Arguments
CallSpec == CallInit /\ [][FALSE]_argument

-----------------------------------------------------------------------------
\* Versions: the order is total, a caret keeps to its series, and Sort, Max,
\* SelectBest and selectMinimum agree with the order (semver.go:83,
\* constraint.go:135).
VersionsAreOrdered ==
  /\ argument.what = "order" =>
       /\ \A w \in SomeVersions : OrdersTotally(argument.u, argument.v, w)
       /\ CaretKeepsTheSeries(argument.u, argument.v)
  /\ argument.what = "lists" =>
       /\ SortsAscending(argument.vs)
       /\ SelectsTheExtremes(argument.parts, argument.vs)
=============================================================================
