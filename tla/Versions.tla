------------------------------ MODULE Versions ------------------------------
(***************************************************************************)
(* Semantic versions and version constraints of the dependency manager     *)
(* (internal/depman/version/semver.go and constraint.go), as pure          *)
(* operators.  A version is a record of three numbers and the sequence of  *)
(* its pre-release identifiers; build metadata and the raw text take no    *)
(* part in any comparison and are left out.  An identifier is numeric or   *)
(* not, and its key orders it among the identifiers of its kind.           *)
(***************************************************************************)
EXTENDS Integers, FiniteSets, SequencesExt

Identifier == [numeric : BOOLEAN, key : Int]
Version == [major : Nat, minor : Nat, patch : Nat, pre : Seq(Identifier)]

Release(a, b, c) == [major |-> a, minor |-> b, patch |-> c, pre |-> << >>]

\* What Parse makes of the one, two or three numbers that were written.
Parse(numbers, pre) ==
  LET Nth(i) == IF i <= Len(numbers) THEN numbers[i] ELSE 0
  IN  [major |-> Nth(1), minor |-> Nth(2), patch |-> Nth(3), pre |-> pre]

-----------------------------------------------------------------------------
Sign(a, b) == IF a < b THEN -1 ELSE IF a > b THEN 1 ELSE 0

comparePrereleaseIdentifier(a, b) ==
  IF a.numeric = b.numeric THEN Sign(a.key, b.key)
  ELSE IF a.numeric THEN -1 ELSE 1

\* Mutant: the lengths do not count.
comparePrereleaseOfPrefix(a, b) ==
  LET differ == {i \in 1 .. Len(a) : /\ i <= Len(b)
                                     /\ comparePrereleaseIdentifier(a[i], b[i]) # 0}
  IN  IF differ = {} THEN 0
      ELSE LET i == CHOOSE i \in differ : \A j \in differ : i <= j
           IN  comparePrereleaseIdentifier(a[i], b[i])

\* The first identifiers that differ decide, then the lengths.
comparePrerelease(a, b) ==
  LET differ == {i \in 1 .. Len(a) : /\ i <= Len(b)
                                     /\ comparePrereleaseIdentifier(a[i], b[i]) # 0}
  IN  IF differ = {} THEN Sign(Len(a), Len(b))
      ELSE LET i == CHOOSE i \in differ : \A j \in differ : i <= j
           IN  comparePrereleaseIdentifier(a[i], b[i])

Compare(v, w) ==
  IF v.major # w.major THEN Sign(v.major, w.major)
  ELSE IF v.minor # w.minor THEN Sign(v.minor, w.minor)
  ELSE IF v.patch # w.patch THEN Sign(v.patch, w.patch)
  ELSE IF v.pre = << >> /\ w.pre # << >> THEN 1
  ELSE IF v.pre # << >> /\ w.pre = << >> THEN -1
  ELSE comparePrerelease(v.pre, w.pre)

LessThan(v, w) == Compare(v, w) < 0
GreaterThan(v, w) == Compare(v, w) > 0
Equal(v, w) == Compare(v, w) = 0

\* Max keeps the first of the greatest versions of a list that is not empty.
Better(best, v) == IF GreaterThan(v, best) THEN v ELSE best
MaxOf(vs) ==
  LET best[k \in 0 .. (Len(vs) - 1)] == IF k = 0 THEN vs[1] ELSE Better(best[k - 1], vs[k + 1])
  IN  best[Len(vs) - 1]

\* Sort exchanges the elements i < j whenever the later one is less.
\* Mutant: the element that was at i is lost.
SwapHalf(vs, i, j) == [vs EXCEPT ![i] = vs[j]]
Swap(vs, i, j) == [vs EXCEPT ![i] = vs[j], ![j] = vs[i]]
Exchange(vs, i, j) == IF LessThan(vs[j], vs[i]) THEN Swap(vs, i, j) ELSE vs
Round(vs, i) ==
  LET after[k \in 0 .. (Len(vs) - i)] == IF k = 0 THEN vs ELSE Exchange(after[k - 1], i, i + k)
  IN  after[Len(vs) - i]
Sort(vs) ==
  LET after[i \in 0 .. Len(vs)] == IF i = 0 THEN vs ELSE Round(after[i - 1], i)
  IN  after[Len(vs)]

-----------------------------------------------------------------------------
(* A constraint is the sequence of the parts that commas separate, all of  *)
(* which must hold; a part is [op |-> ..., version |-> ...].               *)

Part(op, v) == [op |-> op, version |-> v]

\* The first version a caret or a tilde excludes.
\* Mutant: a major version of 0 is a series, too.
caretBoundOfMajor(v) == Release(v.major + 1, 0, 0)
caretBound(v) ==
  IF v.major = 0
    THEN IF v.minor = 0 THEN Release(0, 0, v.patch + 1) ELSE Release(0, v.minor + 1, 0)
    ELSE Release(v.major + 1, 0, 0)

tildeBound(v) == Release(v.major, v.minor + 1, 0)

SatisfiesPart(part, v) ==
  LET c == Compare(v, part.version)
  IN  CASE part.op = "latest" -> TRUE
        [] part.op \in {"exact", "="} -> c = 0
        [] part.op = ">=" -> c >= 0
        [] part.op = ">" -> c > 0
        [] part.op = "<=" -> c <= 0
        [] part.op = "<" -> c < 0
        [] part.op = "^" -> c >= 0 /\ LessThan(v, caretBound(part.version))
        [] part.op = "~" -> c >= 0 /\ LessThan(v, tildeBound(part.version))

Satisfies(constraint, v) == \A i \in DOMAIN constraint : SatisfiesPart(constraint[i], v)

\* The first of the greatest versions that satisfy a constraint, or << >>.
\* Mutant: the last that satisfies it.
ImproveAlways(constraint, best, v) == IF Satisfies(constraint, v) THEN << v >> ELSE best
Improve(constraint, best, v) ==
  IF Satisfies(constraint, v) /\ (best = << >> \/ GreaterThan(v, best[1])) THEN << v >> ELSE best
SelectBest(constraint, vs) ==
  LET best[k \in 0 .. Len(vs)] == IF k = 0 THEN << >> ELSE Improve(constraint, best[k - 1], vs[k])
  IN  best[Len(vs)]

\* The first version of the sorted list that satisfies it, or << >>.
selectMinimum(constraint, vs) ==
  LET sorted == Sort(vs)
      good == {i \in DOMAIN sorted : Satisfies(constraint, sorted[i])}
  IN  IF good = {} THEN << >>
      ELSE << sorted[CHOOSE i \in good : \A j \in good : i <= j] >>

-----------------------------------------------------------------------------
(* What the callers rely on.  Each is stated of the arguments it is given  *)
(* and checked over bounded ones.                                          *)

\* Compare orders versions totally: it is antisymmetric up to equality of
\* precedence, and transitive through chains of three (semver.go:83).
OrdersTotally(u, v, w) ==
  /\ Compare(u, v) = -Compare(v, u)
  /\ Compare(u, v) <= 0 /\ Compare(v, w) <= 0 => Compare(u, w) <= 0
  /\ Compare(u, v) = 0 => Compare(u, w) = Compare(v, w)

\* Sort returns a permutation of its argument in ascending order, and Max its
\* last element's precedence (semver.go:243-263).
SortsAscending(vs) ==
  LET sorted == Sort(vs)
      Count(s, v) == Cardinality({i \in DOMAIN s : s[i] = v})
  IN  /\ \A i, j \in DOMAIN sorted : i < j => Compare(sorted[i], sorted[j]) <= 0
      /\ \A i \in DOMAIN vs : Count(sorted, vs[i]) = Count(vs, vs[i])
      /\ vs # << >> => Equal(MaxOf(vs), sorted[Len(vs)])

\* SelectBest and selectMinimum bracket what satisfies a constraint: both find
\* a version exactly when one exists, and nothing that satisfies it lies
\* outside them (constraint.go:267, resolver.go:136).
SelectsTheExtremes(constraint, vs) ==
  LET best == SelectBest(constraint, vs)
      least == selectMinimum(constraint, vs)
      good == {i \in DOMAIN vs : Satisfies(constraint, vs[i])}
  IN  /\ (best = << >>) = (good = {}) /\ (least = << >>) = (good = {})
      /\ \A i \in good : Compare(least[1], vs[i]) <= 0 /\ Compare(vs[i], best[1]) <= 0
      /\ best # << >> => Satisfies(constraint, best[1]) /\ Satisfies(constraint, least[1])

\* A caret admits no release that differs from its version in the leftmost
\* number that is not zero, and never an older one (constraint.go:135-160).
\* Pre-releases of the first excluded release are admitted, as they precede it.
CaretKeepsTheSeries(c, v) ==
  SatisfiesPart(Part("^", c), v) /\ v.pre = << >> =>
    /\ ~LessThan(v, c)
    /\ v.major = c.major
    /\ c.major = 0 => v.minor = c.minor
    /\ c.major = 0 /\ c.minor = 0 => v.patch = c.patch
=============================================================================
