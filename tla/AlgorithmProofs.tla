-------------------------- MODULE AlgorithmProofs --------------------------
(***************************************************************************)
(* Comparison orders all versions totally and a caret keeps to its series, *)
(* for versions with any numbers and any pre-releases; Sort, Max and the   *)
(* selections agree with the order on lists of any length; from it, an     *)
(* inductive invariant of Resolver.Resolve: whatever is required of a path *)
(* that was looked at is met, reported or still to be looked at.  Then the *)
(* graph of modules: what Builder builds and what the walks over it find;  *)
(* the clause that a match runs, for any clauses and values; and the       *)
(* loading of packages, in which no cache brings back an old result.       *)
(***************************************************************************)
EXTENDS VersionCalls, Resolver, ModuleGraph, PackageLoading, FiniteSetTheorems,
        FunctionTheorems, WellFoundedInduction, TLAPS

Matches == INSTANCE Matching

-----------------------------------------------------------------------------
(* The order of versions. *)

\* A set of numbers that is not empty has a least one.
LEMMA LeastOf ==
  ASSUME NEW numbers \in SUBSET Nat, numbers # {}
  PROVE  \E n \in numbers : \A m \in numbers : n <= m
<1>0. numbers \subseteq Nat /\ numbers # {}
  OBVIOUS
<1>1. PICK n \in numbers : \A m \in numbers : <<m, n>> \notin OpToRel(<, Nat)
  BY NatLessThanWellFounded, WFMin
<1>2. ASSUME NEW m \in numbers, m < n PROVE <<m, n>> \in OpToRel(<, Nat)
  <2>1. <<m, n>> \in Nat \X Nat /\ <<m, n>>[1] < <<m, n>>[2]
    BY <1>2
  <2> QED
    BY <2>1, Zenon DEF OpToRel
<1>3. \A m \in numbers : ~(m < n)
  BY <1>1, <1>2
<1>4. \A m \in numbers : n \in Nat /\ m \in Nat
  BY <1>0
<1>5. \A m \in numbers : n <= m
  BY <1>3, <1>4
<1> QED
  BY <1>5

\* Identifiers are ordered: the sign turns with the arguments, equal ones count
\* as one, and less is transitive (semver.go: comparePrereleaseIdentifier).
LEMMA IdentifiersOrdered ==
  ASSUME NEW x \in Identifier, NEW y \in Identifier, NEW z \in Identifier
  PROVE  LET C(a, b) == comparePrereleaseIdentifier(a, b)
         IN  /\ C(x, y) \in {-1, 0, 1} /\ C(x, y) = -C(y, x)
             /\ C(x, y) = 0 => C(x, z) = C(y, z)
             /\ C(y, z) = 0 => C(x, z) = C(x, y)
             /\ C(x, y) < 0 /\ C(y, z) < 0 => C(x, z) < 0
  BY DEF Identifier, comparePrereleaseIdentifier, Sign

\* Nothing differs up to n.
Alike(a, b, n) == \A i \in 1 .. n : comparePrereleaseIdentifier(a[i], b[i]) = 0

\* Either nothing differs up to the shorter length, or the first place that
\* differs decides.
LEMMA FirstDifference ==
  ASSUME NEW a \in Seq(Identifier), NEW b \in Seq(Identifier)
  PROVE  \/ /\ \A i \in 1 .. Len(a) : i <= Len(b) => comparePrereleaseIdentifier(a[i], b[i]) = 0
            /\ comparePrerelease(a, b) = Sign(Len(a), Len(b))
         \/ \E i \in 1 .. Len(a) :
              /\ i <= Len(b) /\ Alike(a, b, i - 1)
              /\ comparePrereleaseIdentifier(a[i], b[i]) # 0
              /\ comparePrerelease(a, b) = comparePrereleaseIdentifier(a[i], b[i])
<1> DEFINE differ == {i \in 1 .. Len(a) : i <= Len(b) /\ comparePrereleaseIdentifier(a[i], b[i]) # 0}
<1>1. comparePrerelease(a, b) =
        IF differ = {} THEN Sign(Len(a), Len(b))
        ELSE LET i == CHOOSE i \in differ : \A j \in differ : i <= j
             IN  comparePrereleaseIdentifier(a[i], b[i])
  BY DEF comparePrerelease
<1>2. CASE differ = {}
  BY <1>1, <1>2
<1>3. CASE differ # {}
  <2>1. Len(a) \in Nat
    OBVIOUS
  <2>2. differ \in SUBSET Nat
    BY <2>1
  <2>3. \E i \in differ : \A j \in differ : i <= j
    BY <1>3, <2>2, LeastOf
  <2>4. PICK i \in differ : /\ \A j \in differ : i <= j
                            /\ i = CHOOSE k \in differ : \A j \in differ : k <= j
    BY <2>3
  <2>5. comparePrerelease(a, b) = comparePrereleaseIdentifier(a[i], b[i])
    BY <1>1, <1>3, <2>4
  <2>6. /\ i \in 1 .. Len(a) /\ i <= Len(b)
        /\ comparePrereleaseIdentifier(a[i], b[i]) # 0
    BY <2>4
  <2>7. \A j \in 1 .. (i - 1) : j \in 1 .. Len(a) /\ j <= Len(b) /\ j < i
    BY <2>1, <2>6
  <2>8. Alike(a, b, i - 1)
    <3>1. ASSUME NEW j \in 1 .. (i - 1), comparePrereleaseIdentifier(a[j], b[j]) # 0 PROVE FALSE
      <4>1. j \in differ
        BY <2>7, <3>1
      <4>2. i <= j
        BY <2>4, <4>1
      <4> QED
        BY <2>7, <4>1, <4>2, <2>2, <2>6
    <3> QED
      BY <3>1 DEF Alike
  <2> QED
    BY <2>5, <2>6, <2>8
<1> QED
  BY <1>2, <1>3

\* Whichever place differs after equal ones is the one that decides.
LEMMA Decides ==
  ASSUME NEW a \in Seq(Identifier), NEW b \in Seq(Identifier), NEW i \in 1 .. Len(a),
         i <= Len(b), Alike(a, b, i - 1), comparePrereleaseIdentifier(a[i], b[i]) # 0
  PROVE  comparePrerelease(a, b) = comparePrereleaseIdentifier(a[i], b[i])
<1>1. i \in Nat /\ Len(a) \in Nat
  OBVIOUS
<1>2. CASE \E k \in 1 .. Len(a) :
             /\ k <= Len(b) /\ Alike(a, b, k - 1)
             /\ comparePrereleaseIdentifier(a[k], b[k]) # 0
             /\ comparePrerelease(a, b) = comparePrereleaseIdentifier(a[k], b[k])
  <2>1. PICK k \in 1 .. Len(a) :
          /\ Alike(a, b, k - 1) /\ comparePrereleaseIdentifier(a[k], b[k]) # 0
          /\ comparePrerelease(a, b) = comparePrereleaseIdentifier(a[k], b[k])
    BY <1>2
  <2>2. ~(k < i) /\ ~(i < k)
    BY <1>1, <2>1 DEF Alike
  <2>3. k = i
    BY <1>1, <2>2
  <2> QED
    BY <2>1, <2>3
<1> QED
  BY <1>2, FirstDifference

\* Without a place that differs the lengths decide.
LEMMA LengthsDecide ==
  ASSUME NEW a \in Seq(Identifier), NEW b \in Seq(Identifier), NEW n \in Nat,
         Alike(a, b, n), Len(a) <= n \/ Len(b) <= n
  PROVE  comparePrerelease(a, b) = Sign(Len(a), Len(b))
<1>1. \A i \in 1 .. Len(a) : i <= Len(b) => comparePrereleaseIdentifier(a[i], b[i]) = 0
  BY DEF Alike
<1> QED
  BY <1>1, FirstDifference

\* The same, with both cases as they are used: alike throughout the shorter
\* one, or apart somewhere.
LEMMA Cases ==
  ASSUME NEW a \in Seq(Identifier), NEW b \in Seq(Identifier)
  PROVE  \/ /\ Alike(a, b, Len(a)) /\ Len(a) <= Len(b)
            /\ comparePrerelease(a, b) = Sign(Len(a), Len(b))
         \/ /\ Alike(a, b, Len(b)) /\ Len(b) <= Len(a)
            /\ comparePrerelease(a, b) = Sign(Len(a), Len(b))
         \/ \E i \in Nat : /\ 1 <= i /\ i <= Len(a) /\ i <= Len(b) /\ Alike(a, b, i - 1)
                           /\ comparePrereleaseIdentifier(a[i], b[i]) # 0
                           /\ comparePrerelease(a, b) = comparePrereleaseIdentifier(a[i], b[i])
<1>1. Len(a) \in Nat /\ Len(b) \in Nat
  OBVIOUS
<1>2. CASE /\ \A i \in 1 .. Len(a) : i <= Len(b) => comparePrereleaseIdentifier(a[i], b[i]) = 0
           /\ comparePrerelease(a, b) = Sign(Len(a), Len(b))
  <2>1. CASE Len(a) <= Len(b)
    <3>1. Alike(a, b, Len(a))
      BY <1>1, <1>2, <2>1 DEF Alike
    <3> QED
      BY <1>2, <2>1, <3>1
  <2>2. CASE Len(b) <= Len(a)
    <3>1. Alike(a, b, Len(b))
      BY <1>1, <1>2, <2>2 DEF Alike
    <3> QED
      BY <1>2, <2>2, <3>1
  <2> QED
    BY <1>1, <2>1, <2>2
<1>3. CASE \E i \in 1 .. Len(a) :
             /\ i <= Len(b) /\ Alike(a, b, i - 1)
             /\ comparePrereleaseIdentifier(a[i], b[i]) # 0
             /\ comparePrerelease(a, b) = comparePrereleaseIdentifier(a[i], b[i])
  <2>1. PICK i \in 1 .. Len(a) :
             /\ i <= Len(b) /\ Alike(a, b, i - 1)
             /\ comparePrereleaseIdentifier(a[i], b[i]) # 0
             /\ comparePrerelease(a, b) = comparePrereleaseIdentifier(a[i], b[i])
    BY <1>3
  <2>2. i \in Nat /\ 1 <= i /\ i <= Len(a)
    BY <1>1, <2>1
  <2> QED
    BY <2>1, <2>2
<1> QED
  BY <1>2, <1>3, FirstDifference

\* The sign of two pre-releases turns with them.
LEMMA PrereleasesTurn ==
  ASSUME NEW a \in Seq(Identifier), NEW b \in Seq(Identifier)
  PROVE  /\ comparePrerelease(a, b) \in {-1, 0, 1}
         /\ comparePrerelease(a, b) = -comparePrerelease(b, a)
<1>1. Len(a) \in Nat /\ Len(b) \in Nat
  OBVIOUS
<1>2. /\ \A i \in 1 .. Len(a) : a[i] \in Identifier
      /\ \A i \in 1 .. Len(b) : b[i] \in Identifier
  OBVIOUS
<1>3. CASE \E n \in Nat : Alike(a, b, n) /\ n <= Len(a) /\ n <= Len(b) /\ (n = Len(a) \/ n = Len(b))
  <2>1. PICK n \in Nat : Alike(a, b, n) /\ n <= Len(a) /\ n <= Len(b) /\ (n = Len(a) \/ n = Len(b))
    BY <1>3
  <2>2. \A i \in 1 .. n : i \in 1 .. Len(a) /\ i \in 1 .. Len(b)
    BY <1>1, <2>1
  <2>3. ASSUME NEW i \in 1 .. n PROVE comparePrereleaseIdentifier(b[i], a[i]) = 0
    <3>1. a[i] \in Identifier /\ b[i] \in Identifier /\ comparePrereleaseIdentifier(a[i], b[i]) = 0
      BY <1>2, <2>1, <2>2 DEF Alike
    <3>2. comparePrereleaseIdentifier(b[i], a[i]) \in {-1, 0, 1}
      BY <3>1, IdentifiersOrdered
    <3>3. comparePrereleaseIdentifier(a[i], b[i]) = -comparePrereleaseIdentifier(b[i], a[i])
      BY <3>1, IdentifiersOrdered
    <3> QED
      BY <3>1, <3>2, <3>3
  <2>4. Alike(b, a, n)
    BY <2>3 DEF Alike
  <2>5. /\ comparePrerelease(a, b) = Sign(Len(a), Len(b))
        /\ comparePrerelease(b, a) = Sign(Len(b), Len(a))
    <3>1. (Len(a) <= n \/ Len(b) <= n) /\ (Len(b) <= n \/ Len(a) <= n)
      BY <1>1, <2>1
    <3> QED
      BY <2>1, <2>4, <3>1, LengthsDecide
  <2> QED
    BY <1>1, <2>5 DEF Sign
<1>4. CASE \E i \in Nat : /\ 1 <= i /\ i <= Len(a) /\ i <= Len(b) /\ Alike(a, b, i - 1)
                          /\ comparePrereleaseIdentifier(a[i], b[i]) # 0
                          /\ comparePrerelease(a, b) = comparePrereleaseIdentifier(a[i], b[i])
  <2>1. PICK i \in Nat : /\ 1 <= i /\ i <= Len(a) /\ i <= Len(b) /\ Alike(a, b, i - 1)
                         /\ comparePrereleaseIdentifier(a[i], b[i]) # 0
                         /\ comparePrerelease(a, b) = comparePrereleaseIdentifier(a[i], b[i])
    BY <1>4
  <2>2. \A j \in 1 .. i : a[j] \in Identifier /\ b[j] \in Identifier
    BY <1>1, <1>2, <2>1
  <2>3. \A j \in 1 .. i : /\ comparePrereleaseIdentifier(a[j], b[j]) \in {-1, 0, 1}
                          /\ comparePrereleaseIdentifier(b[j], a[j]) \in {-1, 0, 1}
                          /\ comparePrereleaseIdentifier(a[j], b[j]) = -comparePrereleaseIdentifier(b[j], a[j])
    BY <2>2, IdentifiersOrdered
  <2>4. i \in 1 .. i /\ (\A j \in 1 .. (i - 1) : j \in 1 .. i) /\ i \in 1 .. Len(b)
    BY <1>1, <2>1
  <2>5. Alike(b, a, i - 1) /\ comparePrereleaseIdentifier(b[i], a[i]) # 0
    BY <2>1, <2>3, <2>4 DEF Alike
  <2>6. comparePrerelease(b, a) = comparePrereleaseIdentifier(b[i], a[i])
    BY <2>1, <2>4, <2>5, Decides
  <2> QED
    BY <2>1, <2>3, <2>4, <2>6
<1> QED
  BY <1>1, <1>3, <1>4, Cases

\* Apart at i, or alike up to n where one of them ends: what is known of two
\* sequences when the comparison has been made.
Apart(a, b, i) ==
  /\ i \in Nat /\ 1 <= i /\ i <= Len(a) /\ i <= Len(b) /\ Alike(a, b, i - 1)
  /\ comparePrereleaseIdentifier(a[i], b[i]) # 0
  /\ comparePrerelease(a, b) = comparePrereleaseIdentifier(a[i], b[i])
Together(a, b, n) ==
  /\ n \in Nat /\ n <= Len(a) /\ n <= Len(b) /\ (n = Len(a) \/ n = Len(b)) /\ Alike(a, b, n)
  /\ comparePrerelease(a, b) = Sign(Len(a), Len(b))

\* Two pre-releases are apart somewhere or together up to the shorter length.
LEMMA TwoCases ==
  ASSUME NEW a \in Seq(Identifier), NEW b \in Seq(Identifier)
  PROVE  (\E i \in Nat : Apart(a, b, i)) \/ (\E n \in Nat : Together(a, b, n))
<1>1. Len(a) \in Nat /\ Len(b) \in Nat
  OBVIOUS
<1> QED
  BY <1>1, Cases DEF Apart, Together

\* At one place: equal identifiers count as one, and less is transitive.
LEMMA AlikeCarries ==
  ASSUME NEW a \in Seq(Identifier), NEW b \in Seq(Identifier), NEW c \in Seq(Identifier),
         NEW i \in Nat, 1 <= i, i <= Len(a), i <= Len(b), i <= Len(c)
  PROVE  LET C(x, y) == comparePrereleaseIdentifier(x, y)
         IN  /\ C(a[i], b[i]) = 0 => C(a[i], c[i]) = C(b[i], c[i])
             /\ C(b[i], c[i]) = 0 => C(a[i], c[i]) = C(a[i], b[i])
             /\ C(a[i], b[i]) < 0 /\ C(b[i], c[i]) < 0 => C(a[i], c[i]) < 0
             /\ C(a[i], b[i]) \in {-1, 0, 1} /\ C(b[i], c[i]) \in {-1, 0, 1} /\ C(a[i], c[i]) \in {-1, 0, 1}
<1>1. i \in 1 .. Len(a) /\ i \in 1 .. Len(b) /\ i \in 1 .. Len(c)
  OBVIOUS
<1>2. a[i] \in Identifier /\ b[i] \in Identifier /\ c[i] \in Identifier
  BY <1>1
<1> QED
  BY <1>2, IdentifiersOrdered

\* Not greater is transitive among pre-releases, and equal ones compare alike
\* with a third.
LEMMA PrereleasesChain ==
  ASSUME NEW a \in Seq(Identifier), NEW b \in Seq(Identifier), NEW c \in Seq(Identifier)
  PROVE  LET P(x, y) == comparePrerelease(x, y)
         IN  /\ P(a, b) <= 0 /\ P(b, c) <= 0 => P(a, c) <= 0
             /\ P(a, b) = 0 => P(a, c) = P(b, c)
<1> DEFINE C(x, y) == comparePrereleaseIdentifier(x, y)
           P(x, y) == comparePrerelease(x, y)
<1>1. Len(a) \in Nat /\ Len(b) \in Nat /\ Len(c) \in Nat
  OBVIOUS
<1>2. ASSUME NEW n \in Nat, Alike(a, b, n), Alike(b, c, n), n <= Len(a), n <= Len(b), n <= Len(c)
      PROVE  Alike(a, c, n)
  <2>1. ASSUME NEW i \in 1 .. n PROVE C(a[i], c[i]) = 0
    <3>1. i \in Nat /\ 1 <= i /\ i <= Len(a) /\ i <= Len(b) /\ i <= Len(c)
      BY <1>1, <1>2
    <3>2. C(a[i], b[i]) = 0
      BY <1>2 DEF Alike
    <3>3. C(b[i], c[i]) = 0
      BY <1>2 DEF Alike
    <3>4. C(a[i], c[i]) = C(b[i], c[i])
      <4>1. a[i] \in Identifier /\ b[i] \in Identifier /\ c[i] \in Identifier
        BY <3>1
      <4> QED
        BY <3>2, <4>1, IdentifiersOrdered
    <3> QED
      BY <3>3, <3>4
  <2> QED
    BY <2>1 DEF Alike
<1>3. ASSUME NEW m \in Nat, NEW n \in Nat, m <= n
      PROVE  /\ Alike(a, b, n) => Alike(a, b, m)
             /\ Alike(b, c, n) => Alike(b, c, m)
  BY <1>3 DEF Alike
<1>4. ASSUME NEW i \in Nat, 1 <= i, i <= Len(a), i <= Len(c), Alike(a, c, i - 1), C(a[i], c[i]) # 0
      PROVE  P(a, c) = C(a[i], c[i])
  <2>1. i \in 1 .. Len(a)
    BY <1>1, <1>4
  <2> QED
    BY <1>4, <2>1, Decides
<1>5. ASSUME NEW n \in Nat, Alike(a, c, n), Len(a) <= n \/ Len(c) <= n
      PROVE  P(a, c) = Sign(Len(a), Len(c))
  BY <1>5, LengthsDecide
<1>6. ASSUME NEW n \in Nat, NEW m \in Nat, Together(a, b, n), Together(b, c, m)
      PROVE  /\ P(a, b) <= 0 /\ P(b, c) <= 0 => P(a, c) <= 0
             /\ P(a, b) = 0 => P(a, c) = P(b, c)
  <2>1. PICK k \in Nat : k <= n /\ k <= m /\ (k = n \/ k = m)
    OBVIOUS
  <2>2. Alike(a, c, k)
    BY <1>1, <1>2, <1>3, <1>6, <2>1 DEF Together
  <2>3. P(a, b) <= 0 => Len(a) <= Len(b)
    BY <1>1, <1>6 DEF Together, Sign
  <2>4. P(b, c) <= 0 => Len(b) <= Len(c)
    BY <1>1, <1>6 DEF Together, Sign
  <2>5. P(a, b) = 0 => Len(a) = Len(b)
    BY <1>1, <1>6 DEF Together, Sign
  <2>6. P(a, b) <= 0 /\ P(b, c) <= 0 => Len(a) <= k
    BY <1>1, <1>6, <2>1, <2>3, <2>4 DEF Together
  <2>7. P(a, b) = 0 => Len(a) <= k \/ Len(c) <= k
    BY <1>1, <1>6, <2>1, <2>5 DEF Together
  <2>8. P(a, b) <= 0 /\ P(b, c) <= 0 => P(a, c) <= 0
    <3>1. SUFFICES ASSUME P(a, b) <= 0, P(b, c) <= 0 PROVE P(a, c) <= 0
      OBVIOUS
    <3>2. P(a, c) = Sign(Len(a), Len(c))
      BY <1>5, <2>1, <2>2, <2>6, <3>1
    <3> QED
      BY <1>1, <2>3, <2>4, <3>1, <3>2 DEF Sign
  <2>9. P(a, b) = 0 => P(a, c) = P(b, c)
    <3>1. SUFFICES ASSUME P(a, b) = 0 PROVE P(a, c) = P(b, c)
      OBVIOUS
    <3>2. P(a, c) = Sign(Len(a), Len(c))
      BY <1>5, <2>1, <2>2, <2>7, <3>1
    <3> QED
      BY <1>6, <2>5, <3>1, <3>2 DEF Together
  <2> QED
    BY <2>8, <2>9
<1>7. ASSUME NEW i \in Nat, NEW m \in Nat, Apart(a, b, i), Together(b, c, m)
      PROVE  /\ P(a, b) <= 0 /\ P(b, c) <= 0 => P(a, c) <= 0
             /\ P(a, b) = 0 => P(a, c) = P(b, c)
  <2>1. P(a, b) # 0 /\ P(a, b) = C(a[i], b[i])
    BY <1>7 DEF Apart
  <2>2. SUFFICES ASSUME P(b, c) <= 0 PROVE P(a, b) <= 0 => P(a, c) <= 0
    BY <2>1
  <2>3. Len(b) <= Len(c) /\ m = Len(b)
    BY <1>1, <1>7, <2>2 DEF Together, Sign
  <2>4. i - 1 \in Nat /\ 1 <= i /\ i - 1 <= m /\ i <= m /\ i <= Len(a) /\ i <= Len(b) /\ i <= Len(c)
    BY <1>1, <1>7, <2>3 DEF Apart
  <2>5. Alike(a, c, i - 1)
    <3>1. Alike(a, b, i - 1)
      BY <1>7 DEF Apart
    <3>2. Alike(b, c, i - 1)
      BY <1>3, <1>7, <2>4 DEF Together
    <3>3. i - 1 <= Len(a) /\ i - 1 <= Len(b) /\ i - 1 <= Len(c)
      BY <1>1, <2>4
    <3> QED
      BY <1>2, <2>4, <3>1, <3>2, <3>3
  <2>6. C(b[i], c[i]) = 0
    BY <1>7, <2>4 DEF Together, Alike
  <2>7. C(a[i], c[i]) = C(a[i], b[i])
    BY <2>4, <2>6, AlikeCarries
  <2>8. P(a, c) = C(a[i], b[i])
    BY <1>4, <2>1, <2>4, <2>5, <2>7
  <2> QED
    BY <2>1, <2>8
<1>8. ASSUME NEW n \in Nat, NEW i \in Nat, Together(a, b, n), Apart(b, c, i)
      PROVE  /\ P(a, b) <= 0 /\ P(b, c) <= 0 => P(a, c) <= 0
             /\ P(a, b) = 0 => P(a, c) = P(b, c)
  <2>1. SUFFICES ASSUME P(a, b) <= 0
                 PROVE  /\ P(b, c) <= 0 => P(a, c) <= 0
                        /\ P(a, b) = 0 => P(a, c) = P(b, c)
    OBVIOUS
  <2>2. n = Len(a) /\ Len(a) <= Len(b) /\ (P(a, b) = 0 => Len(a) = Len(b))
    BY <1>1, <1>8, <2>1 DEF Together, Sign
  <2>3. /\ 1 <= i /\ i <= Len(b) /\ i <= Len(c) /\ i - 1 \in Nat
        /\ Alike(b, c, i - 1) /\ P(b, c) = C(b[i], c[i]) /\ C(b[i], c[i]) # 0
    BY <1>8 DEF Apart
  <2>4. CASE i <= Len(a)
    <3>1. Alike(a, b, i - 1) /\ C(a[i], b[i]) = 0
      BY <1>8, <2>2, <2>3, <2>4 DEF Together, Alike
    <3>2. Alike(a, c, i - 1)
      <4>1. i - 1 <= Len(a) /\ i - 1 <= Len(b) /\ i - 1 <= Len(c)
        BY <1>1, <2>3, <2>4
      <4> QED
        BY <1>2, <2>3, <3>1, <4>1
    <3>3. C(a[i], c[i]) = C(b[i], c[i])
      BY <2>3, <2>4, <3>1, AlikeCarries
    <3>4. P(a, c) = C(b[i], c[i])
      BY <1>4, <2>3, <2>4, <3>2, <3>3
    <3> QED
      BY <2>3, <3>4
  <2>5. CASE ~(i <= Len(a))
    <3>1. Len(a) <= i - 1 /\ Len(a) < Len(b) /\ Len(a) < Len(c)
      BY <1>1, <2>3, <2>5
    <3>2. Alike(a, b, Len(a))
      BY <1>8, <2>2 DEF Together
    <3>3. Alike(b, c, Len(a))
      BY <1>1, <1>3, <2>3, <3>1
    <3>4. Len(a) <= Len(a) /\ Len(a) <= Len(b) /\ Len(a) <= Len(c)
      BY <1>1, <3>1
    <3>5. Alike(a, c, Len(a))
      BY <1>1, <1>2, <3>2, <3>3, <3>4
    <3>6. P(a, c) = Sign(Len(a), Len(c))
      BY <1>1, <1>5, <3>5, <3>4
    <3>7. P(a, c) = -1
      BY <1>1, <3>1, <3>6 DEF Sign
    <3>8. P(a, b) # 0
      BY <1>1, <2>2, <3>1
    <3> QED
      BY <3>7, <3>8
  <2> QED
    BY <2>4, <2>5
<1>9. ASSUME NEW i \in Nat, NEW j \in Nat, Apart(a, b, i), Apart(b, c, j)
      PROVE  /\ P(a, b) <= 0 /\ P(b, c) <= 0 => P(a, c) <= 0
             /\ P(a, b) = 0 => P(a, c) = P(b, c)
  <2>1. /\ 1 <= i /\ i <= Len(a) /\ i <= Len(b) /\ i - 1 \in Nat
        /\ Alike(a, b, i - 1) /\ P(a, b) = C(a[i], b[i]) /\ C(a[i], b[i]) # 0
    BY <1>9 DEF Apart
  <2>2. /\ 1 <= j /\ j <= Len(b) /\ j <= Len(c) /\ j - 1 \in Nat
        /\ Alike(b, c, j - 1) /\ P(b, c) = C(b[j], c[j]) /\ C(b[j], c[j]) # 0
    BY <1>9 DEF Apart
  <2>3. SUFFICES ASSUME C(a[i], b[i]) <= 0, C(b[j], c[j]) <= 0 PROVE P(a, c) <= 0
    BY <2>1, <2>2
  <2>4. PICK k \in Nat : k <= i /\ k <= j /\ (k = i \/ k = j)
    OBVIOUS
  <2>5. 1 <= k /\ k <= Len(a) /\ k <= Len(b) /\ k <= Len(c) /\ k - 1 \in Nat
    BY <1>1, <2>1, <2>2, <2>4
  <2>6. Alike(a, b, k - 1) /\ Alike(b, c, k - 1)
    <3>1. k - 1 <= i - 1 /\ k - 1 <= j - 1
      BY <2>4
    <3> QED
      BY <1>3, <2>1, <2>2, <2>5, <3>1
  <2>7. Alike(a, c, k - 1)
    <3>1. k - 1 <= Len(a) /\ k - 1 <= Len(b) /\ k - 1 <= Len(c)
      BY <1>1, <2>5
    <3> QED
      BY <1>2, <2>5, <2>6, <3>1
  <2>8. /\ k = i \/ C(a[k], b[k]) = 0
        /\ k = j \/ C(b[k], c[k]) = 0
    <3>1. k # i => k \in 1 .. (i - 1)
      BY <2>4, <2>5
    <3>2. k # j => k \in 1 .. (j - 1)
      BY <2>4, <2>5
    <3> QED
      BY <2>1, <2>2, <3>1, <3>2 DEF Alike
  <2>9. /\ C(a[k], b[k]) = 0 => C(a[k], c[k]) = C(b[k], c[k])
        /\ C(b[k], c[k]) = 0 => C(a[k], c[k]) = C(a[k], b[k])
        /\ C(a[k], b[k]) < 0 /\ C(b[k], c[k]) < 0 => C(a[k], c[k]) < 0
        /\ C(a[k], b[k]) \in {-1, 0, 1} /\ C(b[k], c[k]) \in {-1, 0, 1} /\ C(a[k], c[k]) \in {-1, 0, 1}
    BY <2>5, AlikeCarries
  <2>10. C(a[k], c[k]) < 0
    <3> HIDE DEF C
    <3>1. CASE k = i /\ k = j
      BY <2>1, <2>2, <2>3, <2>9, <3>1
    <3>2. CASE k = i /\ C(b[k], c[k]) = 0
      BY <2>1, <2>3, <2>9, <3>2
    <3>3. CASE k = j /\ C(a[k], b[k]) = 0
      BY <2>2, <2>3, <2>9, <3>3
    <3> QED
      BY <2>4, <2>8, <3>1, <3>2, <3>3
  <2>11. P(a, c) = C(a[k], c[k])
    BY <1>4, <2>5, <2>7, <2>9, <2>10
  <2> QED
    BY <2>9, <2>10, <2>11
<1> QED
  BY <1>6, <1>7, <1>8, <1>9, TwoCases

\* The sign of two versions turns with them.
LEMMA ComparesBySign ==
  ASSUME NEW v \in Version, NEW w \in Version
  PROVE  Compare(v, w) \in {-1, 0, 1} /\ Compare(v, w) = -Compare(w, v)
<1>1. PICK p, q : /\ p = comparePrerelease(v.pre, w.pre) /\ q = comparePrerelease(w.pre, v.pre)
                  /\ p \in {-1, 0, 1} /\ q \in {-1, 0, 1} /\ p = -q
  BY PrereleasesTurn DEF Version
<1>2. /\ v.major \in Nat /\ v.minor \in Nat /\ v.patch \in Nat
      /\ w.major \in Nat /\ w.minor \in Nat /\ w.patch \in Nat
  BY DEF Version
<1> QED
  BY <1>1, <1>2 DEF Compare, Sign

\* Not greater is transitive, and equal versions compare alike with a third.
LEMMA ComparesInChains ==
  ASSUME NEW u \in Version, NEW v \in Version, NEW w \in Version
  PROVE  /\ Compare(u, v) <= 0 /\ Compare(v, w) <= 0 => Compare(u, w) <= 0
         /\ Compare(u, v) = 0 => Compare(u, w) = Compare(v, w)
<1>1. PICK p, q, r : /\ p = comparePrerelease(u.pre, v.pre) /\ q = comparePrerelease(v.pre, w.pre)
                     /\ r = comparePrerelease(u.pre, w.pre)
                     /\ p \in {-1, 0, 1} /\ q \in {-1, 0, 1} /\ r \in {-1, 0, 1}
                     /\ p <= 0 /\ q <= 0 => r <= 0
                     /\ p = 0 => r = q
  <2>1. u.pre \in Seq(Identifier) /\ v.pre \in Seq(Identifier) /\ w.pre \in Seq(Identifier)
    BY DEF Version
  <2> QED
    BY <2>1, PrereleasesTurn, PrereleasesChain
<1>2. /\ u.major \in Nat /\ u.minor \in Nat /\ u.patch \in Nat
      /\ v.major \in Nat /\ v.minor \in Nat /\ v.patch \in Nat
      /\ w.major \in Nat /\ w.minor \in Nat /\ w.patch \in Nat
  BY DEF Version
<1>4. u.pre = << >> /\ v.pre = << >> => p = 0
  <2>1. ASSUME u.pre = << >>, v.pre = << >> PROVE p = 0
    <3>1. << >> \in Seq(Identifier) /\ Alike(<< >>, << >>, 0) /\ Len(<< >>) <= 0
      BY DEF Alike
    <3>2. comparePrerelease(<< >>, << >>) = Sign(Len(<< >>), Len(<< >>))
      BY <3>1, LengthsDecide
    <3> QED
      BY <1>1, <2>1, <3>2 DEF Sign
  <2> QED
    BY <2>1
<1>5. Compare(u, v) <= 0 /\ Compare(v, w) <= 0 => Compare(u, w) <= 0
  <2>1. CASE u.major # v.major \/ v.major # w.major
    <3>1. ASSUME Compare(u, v) <= 0, Compare(v, w) <= 0
          PROVE  u.major <= v.major /\ v.major <= w.major
      BY <1>2, <3>1 DEF Compare, Sign
    <3> QED
      BY <1>2, <2>1, <3>1 DEF Compare, Sign
  <2>2. CASE u.major = v.major /\ v.major = w.major /\ (u.minor # v.minor \/ v.minor # w.minor)
    BY <1>1, <1>2, <2>2 DEF Compare, Sign
  <2>3. CASE /\ u.major = v.major /\ v.major = w.major /\ u.minor = v.minor /\ v.minor = w.minor
             /\ u.patch # v.patch \/ v.patch # w.patch
    BY <1>1, <1>2, <2>3 DEF Compare, Sign
  <2>4. CASE /\ u.major = v.major /\ v.major = w.major /\ u.minor = v.minor /\ v.minor = w.minor
             /\ u.patch = v.patch /\ v.patch = w.patch
    BY <1>1, <2>4 DEF Compare
  <2> QED
    BY <2>1, <2>2, <2>3, <2>4
<1>6. Compare(u, v) = 0 => Compare(u, w) = Compare(v, w)
  BY <1>1, <1>2, <1>4 DEF Compare, Sign
<1> QED
  BY <1>5, <1>6

\* Compare orders all versions totally, with any numbers and any pre-releases
\* (semver.go: Version.Compare).
THEOREM VersionsAreTotallyOrdered ==
  \A u, v, w \in Version : OrdersTotally(u, v, w)
BY ComparesBySign, ComparesInChains DEF OrdersTotally

\* A version is equal to itself.
LEMMA EqualsItself == \A v \in Version : Compare(v, v) = 0
<1>1. ASSUME NEW v \in Version PROVE Compare(v, v) = 0
  <2>1. Compare(v, v) \in {-1, 0, 1} /\ Compare(v, v) = -Compare(v, v)
    BY ComparesBySign
  <2> QED
    BY <2>1
<1> QED
  BY <1>1

\* A caret admits no release that differs in the leftmost number that is not
\* zero, and none older, whatever its version (constraint.go: parseCaretConstraint).
THEOREM CaretsKeepTheSeries ==
  \A c, v \in Version : CaretKeepsTheSeries(c, v)
<1>1. SUFFICES ASSUME NEW c \in Version, NEW v \in Version,
                      SatisfiesPart(Part("^", c), v), v.pre = << >>
               PROVE  /\ ~LessThan(v, c)
                      /\ v.major = c.major
                      /\ c.major = 0 => v.minor = c.minor
                      /\ c.major = 0 /\ c.minor = 0 => v.patch = c.patch
  BY DEF CaretKeepsTheSeries
<1>2. /\ v.major \in Nat /\ v.minor \in Nat /\ v.patch \in Nat
      /\ c.major \in Nat /\ c.minor \in Nat /\ c.patch \in Nat
  BY DEF Version
<1>3. Compare(v, c) >= 0 /\ LessThan(v, caretBound(c))
  BY <1>1 DEF SatisfiesPart, Part
<1>4. Compare(v, c) \in {-1, 0, 1}
  BY ComparesBySign
<1>5. comparePrerelease(<< >>, << >>) = 0
  <2>1. << >> \in Seq(Identifier) /\ Alike(<< >>, << >>, 0) /\ Len(<< >>) <= 0
    BY DEF Alike
  <2>2. comparePrerelease(<< >>, << >>) = Sign(Len(<< >>), Len(<< >>))
    BY <2>1, LengthsDecide
  <2> QED
    BY <2>2 DEF Sign
<1>6. PICK b : b = caretBound(c)
  OBVIOUS
<1>7. b.pre = << >> /\ b.major \in Nat /\ b.minor \in Nat /\ b.patch \in Nat
  BY <1>2, <1>6 DEF caretBound, Release
<1>8. \/ v.major < b.major
      \/ v.major = b.major /\ v.minor < b.minor
      \/ v.major = b.major /\ v.minor = b.minor /\ v.patch < b.patch
  BY <1>1, <1>2, <1>3, <1>5, <1>6, <1>7 DEF LessThan, Compare, Sign
<1>9. /\ v.major >= c.major
      /\ v.major = c.major => v.minor >= c.minor
      /\ v.major = c.major /\ v.minor = c.minor => v.patch >= c.patch
  BY <1>2, <1>3 DEF Compare, Sign
<1>10. /\ c.major # 0 => b.major = c.major + 1 /\ b.minor = 0 /\ b.patch = 0
       /\ c.major = 0 /\ c.minor # 0 => b.major = 0 /\ b.minor = c.minor + 1 /\ b.patch = 0
       /\ c.major = 0 /\ c.minor = 0 => b.major = 0 /\ b.minor = 0 /\ b.patch = c.patch + 1
  BY <1>6 DEF caretBound, Release
<1>11. ~LessThan(v, c)
  BY <1>3, <1>4 DEF LessThan
<1> QED
  BY <1>2, <1>7, <1>8, <1>9, <1>10, <1>11

-----------------------------------------------------------------------------
(* The inductive invariant of the resolver. *)

\* Every direct requirement is met, or still to be looked at.
DirectOK ==
  \A req \in Range(world.direct) : Met(req) \/ (initial /\ req \in Range(todo))

\* So is every requirement of a path that was looked at, in its version.
ProcessedOK ==
  /\ initial => processed = {}
  /\ \A p \in processed :
       /\ selected[p] # << >>
       /\ \A req \in Range(world.transitive[<<p, selected[p][1]>>]) :
            Met(req) \/ req \in Range(todo)

\* A path that is selected was looked at, or waits for it.
QueueOK ==
  /\ \A p \in Paths : selected[p] # << >> => p \in processed \/ p \in Range(queue)
  /\ \A p \in Range(queue) : selected[p] # << >>

\* What is looked at is a requirement, and so is what was selected.
AskedOK ==
  /\ Range(todo) \subseteq AllRequirements
  /\ EverySelectionIsAskedFor

\* A path was looked at no more often than it has versions up to the selected
\* one; when it waits to be looked at, once less.
UpTo(p, v) == {i \in DOMAIN Available[p] : Compare(Available[p][i], v) <= 0}
RoundsOK ==
  \A p \in Paths :
    IF selected[p] = << >> THEN rounds[p] = 0
    ELSE IF p \in processed THEN rounds[p] <= Cardinality(UpTo(p, selected[p][1]))
    ELSE rounds[p] < Cardinality(UpTo(p, selected[p][1]))

IInv == /\ TypeOK /\ world \in Worlds
        /\ DirectOK /\ ProcessedOK /\ QueueOK /\ AskedOK /\ RoundsOK

-----------------------------------------------------------------------------
(* Lists of versions: Max, Sort and what constraints select. *)

\* What holds at first, and goes from one to the next, holds up to n.
LEMMA Steps ==
  ASSUME NEW n \in Nat, NEW right, 0 \in right,
         \A k \in 1 .. n : k - 1 \in right => k \in right
  PROVE  n \in right
<1> DEFINE wrong == {k \in 0 .. n : k \notin right}
<1>1. SUFFICES ASSUME wrong # {} PROVE FALSE
  OBVIOUS
<1>2. PICK k \in wrong : \A e \in wrong : k <= e
  <2>1. wrong \in SUBSET Nat
    OBVIOUS
  <2> QED
    BY <1>1, <2>1, LeastOf
<1>3. k \in 1 .. n /\ k - 1 \in 0 .. n /\ ~(k <= k - 1)
  BY <1>2
<1>4. k - 1 \in right
  BY <1>2, <1>3
<1> QED
  BY <1>2, <1>3, <1>4

\* f has the values of a loop of m rounds over values of S, and such an f exists.
Goes(f, S, first, m, step) ==
  f \in [0 .. m -> S] /\ f[0] = first /\ \A k \in 1 .. m : f[k] = step[k][f[k - 1]]

LEMMA LoopExists ==
  ASSUME NEW S, NEW first \in S, NEW n \in Nat, NEW step \in [1 .. n -> [S -> S]]
  PROVE  \E f : Goes(f, S, first, n, step)
<1> DEFINE right == {m \in 0 .. n : \E f : Goes(f, S, first, m, step)}
<1>1. 0 \in right
  <2>1. PICK f : f = [k \in 0 .. 0 |-> first]
    OBVIOUS
  <2>2. Goes(f, S, first, 0, step)
    BY <2>1 DEF Goes
  <2> QED
    BY <2>2
<1>2. ASSUME NEW m \in 1 .. n, m - 1 \in right PROVE m \in right
  <2>1. PICK f : Goes(f, S, first, m - 1, step)
    BY <1>2
  <2>2. m - 1 \in 0 .. (m - 1) /\ 0 \in 0 .. (m - 1) /\ m # 0
    OBVIOUS
  <2>3. f[m - 1] \in S
    BY <2>1, <2>2 DEF Goes
  <2>4. step[m] \in [S -> S]
    OBVIOUS
  <2>5. step[m][f[m - 1]] \in S
    BY <2>3, <2>4
  <2>6. PICK g : g = [k \in 0 .. m |-> IF k = m THEN step[m][f[m - 1]] ELSE f[k]]
    OBVIOUS
  <2>7. ASSUME NEW k \in 0 .. m, k # m PROVE k \in 0 .. (m - 1) /\ g[k] = f[k]
    BY <2>6, <2>7
  <2>8. g[m] = step[m][f[m - 1]]
    <3>1. m \in 0 .. m
      OBVIOUS
    <3> QED
      BY <2>6, <3>1
  <2>9. g \in [0 .. m -> S]
    <3>1. \A k \in 0 .. m : g[k] \in S
      BY <2>1, <2>5, <2>7, <2>8 DEF Goes
    <3> QED
      BY <2>6, <3>1
  <2>10. ASSUME NEW k \in 1 .. m PROVE g[k] = step[k][g[k - 1]]
    <3>1. k - 1 \in 0 .. m /\ k - 1 # m /\ k \in 0 .. m
      OBVIOUS
    <3>2. g[k - 1] = f[k - 1]
      BY <2>7, <3>1
    <3>3. CASE k = m
      BY <2>8, <3>2, <3>3
    <3>4. CASE k # m
      <4>1. g[k] = f[k] /\ k \in 1 .. (m - 1)
        BY <2>7, <3>1, <3>4
      <4> QED
        BY <2>1, <3>2, <4>1 DEF Goes
    <3> QED
      BY <3>3, <3>4
  <2>11. g[0] = first
    BY <2>1, <2>2, <2>7 DEF Goes
  <2>12. Goes(g, S, first, m, step)
    BY <2>9, <2>10, <2>11 DEF Goes
  <2> QED
    BY <2>12
<1>3. n \in right
  <2> HIDE DEF right
  <2> QED
    BY <1>1, <1>2, Steps
<1> QED
  BY <1>3

\* The maximum is a version of the list, and none is greater (semver.go: Max).
LEMMA MaxIs ==
  ASSUME NEW vs \in Seq(Version), vs # << >>
  PROVE  \E i \in DOMAIN vs : MaxOf(vs) = vs[i] /\ \A j \in DOMAIN vs : Compare(vs[j], vs[i]) <= 0
<1>0. PICK n \in Nat : n = Len(vs) - 1
  OBVIOUS
<1>1. DOMAIN vs = 1 .. (n + 1) /\ \A k \in 0 .. n : vs[k + 1] \in Version
  BY <1>0
<1>2. PICK step : step = [k \in 1 .. n |-> [best \in Version |-> Better(best, vs[k + 1])]]
  OBVIOUS
<1>3. vs[1] \in Version /\ step \in [1 .. n -> [Version -> Version]]
  BY <1>1, <1>2 DEF Better
<1>4. PICK f \in [0 .. n -> Version] :
           f[0] = vs[1] /\ \A k \in 1 .. n : f[k] = step[k][f[k - 1]]
  <2>1. PICK f : Goes(f, Version, vs[1], n, step)
    BY <1>3, LoopExists
  <2> QED
    BY <2>1 DEF Goes
<1>5. f = [k \in 0 .. n |-> IF k = 0 THEN vs[1] ELSE Better(f[k - 1], vs[k + 1])]
  <2>1. ASSUME NEW k \in 0 .. n, k # 0 PROVE f[k] = Better(f[k - 1], vs[k + 1])
    <3>1. k \in 1 .. n /\ k - 1 \in 0 .. n
      BY <2>1
    <3>2. f[k - 1] \in Version
      BY <1>4, <3>1
    <3> QED
      BY <1>2, <1>4, <3>1, <3>2
  <2> QED
    BY <1>4, <2>1
<1>6. PICK best : /\ best = [k \in 0 .. n |-> IF k = 0 THEN vs[1] ELSE Better(best[k - 1], vs[k + 1])]
                  /\ MaxOf(vs) = best[n]
  BY <1>0, <1>5 DEF MaxOf
<1> DEFINE Is(k, i) == best[k] = vs[i] /\ \A j \in 1 .. (k + 1) : Compare(vs[j], vs[i]) <= 0
           right == {k \in 0 .. n : \E i \in 1 .. (k + 1) : Is(k, i)}
<1>7. 0 \in right
  <2>1. best[0] = vs[1] /\ 0 \in 0 .. n
    BY <1>0, <1>6
  <2>2. Is(0, 1)
    BY <1>1, <2>1, EqualsItself
  <2> QED
    BY <2>1, <2>2
<1>8. ASSUME NEW k \in 1 .. n, k - 1 \in right PROVE k \in right
  <2>1. PICK i \in 1 .. k : Is(k - 1, i)
    BY <1>8
  <2>2. best[k] = Better(best[k - 1], vs[k + 1]) /\ k \in 0 .. n /\ i \in 1 .. (k + 1)
    BY <1>6
  <2>3. \A j \in 1 .. (k + 1) : j = k + 1 \/ j \in 1 .. k
    OBVIOUS
  <2>4. \A j \in 1 .. (k + 1) : vs[j] \in Version
    BY <1>1
  <2>5. k + 1 \in 1 .. (k + 1) /\ best[k - 1] = vs[i] /\ \A j \in 1 .. k : Compare(vs[j], vs[i]) <= 0
    BY <2>1
  <2>6. CASE Compare(vs[k + 1], vs[i]) > 0
    <3>1. Compare(vs[i], vs[k + 1]) <= 0
      BY <2>2, <2>4, <2>5, <2>6, ComparesBySign
    <3>2. \A j \in 1 .. k : Compare(vs[j], vs[k + 1]) <= 0
      BY <2>2, <2>4, <2>5, <3>1, ComparesInChains
    <3>3. best[k] = vs[k + 1]
      BY <2>2, <2>5, <2>6 DEF Better, GreaterThan
    <3>4. Compare(vs[k + 1], vs[k + 1]) = 0
      BY <2>4, <2>5, EqualsItself
    <3>5. Is(k, k + 1)
      BY <2>3, <3>2, <3>3, <3>4
    <3> QED
      BY <2>2, <2>5, <3>5
  <2>7. CASE ~(Compare(vs[k + 1], vs[i]) > 0)
    <3>1. best[k] = vs[i]
      BY <2>2, <2>5, <2>7 DEF Better, GreaterThan
    <3>2. Compare(vs[k + 1], vs[i]) <= 0
      BY <2>2, <2>4, <2>5, <2>7, ComparesBySign
    <3>3. Is(k, i)
      BY <2>3, <2>5, <3>1, <3>2
    <3> QED
      BY <2>2, <3>3
  <2> QED
    BY <2>6, <2>7
<1>9. n \in right
  <2> HIDE DEF right
  <2> QED
    BY <1>7, <1>8, Steps
<1> QED
  BY <1>1, <1>6, <1>9

\* SelectBest finds the greatest version of those that satisfy a constraint, if
\* there are any (constraint.go: SelectBest).
LEMMA BestIs ==
  ASSUME NEW constraint, NEW vs \in Seq(Version)
  PROVE  LET good == {i \in DOMAIN vs : Satisfies(constraint, vs[i])}
         IN  \/ good = {} /\ SelectBest(constraint, vs) = << >>
             \/ \E i \in good : /\ SelectBest(constraint, vs) = << vs[i] >>
                                /\ \A j \in good : Compare(vs[j], vs[i]) <= 0
<1>0. PICK n \in Nat : n = Len(vs)
  OBVIOUS
<1>1. DOMAIN vs = 1 .. n /\ \A k \in 1 .. n : vs[k] \in Version
  BY <1>0
<1> DEFINE S == Seq(Version)
<1>2. PICK step : step = [k \in 1 .. n |-> [best \in S |-> Improve(constraint, best, vs[k])]]
  OBVIOUS
<1>3. << >> \in S /\ step \in [1 .. n -> [S -> S]]
  <2>1. \A k \in 1 .. n : \A best \in S : Improve(constraint, best, vs[k]) \in S
    BY <1>1 DEF Improve
  <2> QED
    BY <1>2, <2>1
<1>4. PICK f : Goes(f, S, << >>, n, step)
  <2> HIDE DEF S
  <2> QED
    BY <1>3, LoopExists
<1>5. f = [k \in 0 .. n |-> IF k = 0 THEN << >> ELSE Improve(constraint, f[k - 1], vs[k])]
  <2>1. ASSUME NEW k \in 0 .. n, k # 0 PROVE f[k] = Improve(constraint, f[k - 1], vs[k])
    <3>1. k \in 1 .. n /\ k - 1 \in 0 .. n
      BY <2>1
    <3>2. f[k - 1] \in S
      BY <1>4, <3>1 DEF Goes
    <3> QED
      BY <1>2, <1>4, <3>1, <3>2 DEF Goes
  <2> QED
    BY <1>4, <2>1 DEF Goes
<1>6. PICK best : /\ best = [k \in 0 .. n |-> IF k = 0 THEN << >> ELSE Improve(constraint, best[k - 1], vs[k])]
                  /\ SelectBest(constraint, vs) = best[n]
  BY <1>0, <1>5 DEF SelectBest
<1> DEFINE Good(k) == {i \in 1 .. k : Satisfies(constraint, vs[i])}
           Is(k, i) == best[k] = << vs[i] >> /\ \A j \in Good(k) : Compare(vs[j], vs[i]) <= 0
           right == {k \in 0 .. n : \/ Good(k) = {} /\ best[k] = << >>
                                    \/ \E i \in Good(k) : Is(k, i)}
<1>7. 0 \in right
  <2>1. best[0] = << >> /\ 0 \in 0 .. n /\ Good(0) = {}
    BY <1>0, <1>6
  <2> QED
    BY <2>1
<1>8. ASSUME NEW k \in 1 .. n, k - 1 \in right PROVE k \in right
  <2>1. best[k] = Improve(constraint, best[k - 1], vs[k]) /\ k \in 0 .. n /\ k \in 1 .. k
    BY <1>6
  <2>2. \A j \in 1 .. k : j = k \/ j \in 1 .. (k - 1)
    OBVIOUS
  <2>3. \A j \in 1 .. k : vs[j] \in Version
    BY <1>1
  <2>4. Good(k - 1) \subseteq Good(k) /\ \A j \in Good(k) : j = k \/ j \in Good(k - 1)
    BY <2>2
  <2>5. \A j \in Good(k) : j \in 1 .. k
    OBVIOUS
  <2>6. Satisfies(constraint, vs[k]) <=> k \in Good(k)
    BY <2>1
  <2>7. \/ Good(k - 1) = {} /\ best[k - 1] = << >>
        \/ \E i \in Good(k - 1) : Is(k - 1, i)
    BY <1>8
  <2> HIDE DEF Good
  <2>8. CASE k \notin Good(k)
    <3>1. best[k] = best[k - 1] /\ Good(k) = Good(k - 1)
      BY <2>1, <2>4, <2>6, <2>8 DEF Improve
    <3> QED
      BY <2>1, <2>7, <3>1
  <2>9. CASE k \in Good(k) /\ Good(k - 1) = {} /\ best[k - 1] = << >>
    <3>1. best[k] = << vs[k] >>
      BY <2>1, <2>6, <2>9 DEF Improve
    <3>2. Compare(vs[k], vs[k]) <= 0
      BY <2>1, <2>3, EqualsItself
    <3>3. Is(k, k)
      BY <2>4, <2>9, <3>1, <3>2
    <3> QED
      BY <2>1, <2>9, <3>3
  <2>10. CASE k \in Good(k) /\ \E i \in Good(k - 1) : Is(k - 1, i)
    <3>1. PICK i \in Good(k - 1) : Is(k - 1, i)
      BY <2>10
    <3>2. /\ best[k - 1] = << vs[i] >> /\ \A j \in Good(k - 1) : Compare(vs[j], vs[i]) <= 0
          /\ vs[i] \in Version /\ vs[k] \in Version /\ i \in Good(k)
      BY <2>1, <2>3, <2>4, <2>5, <3>1
    <3>3. CASE Compare(vs[k], vs[i]) > 0
      <4>1. best[k] = << vs[k] >>
        BY <2>1, <2>6, <2>10, <3>2, <3>3 DEF Improve, GreaterThan
      <4>2. Compare(vs[i], vs[k]) <= 0 /\ Compare(vs[k], vs[k]) <= 0
        BY <3>2, <3>3, ComparesBySign, EqualsItself
      <4>3. ASSUME NEW j \in Good(k - 1) PROVE Compare(vs[j], vs[k]) <= 0
        <5>1. vs[j] \in Version /\ Compare(vs[j], vs[i]) <= 0
          BY <2>3, <2>4, <2>5, <3>2
        <5> QED
          BY <3>2, <4>2, <5>1, ComparesInChains
      <4>4. Is(k, k)
        BY <2>4, <4>1, <4>2, <4>3
      <4> QED
        BY <2>1, <2>10, <4>4
    <3>4. CASE ~(Compare(vs[k], vs[i]) > 0)
      <4>1. best[k] = << vs[i] >>
        BY <2>1, <3>2, <3>4 DEF Improve, GreaterThan
      <4>2. Compare(vs[k], vs[i]) <= 0
        BY <3>2, <3>4, ComparesBySign
      <4>3. Is(k, i)
        BY <2>4, <3>2, <4>1, <4>2
      <4> QED
        BY <2>1, <3>2, <4>3
    <3> QED
      BY <3>3, <3>4
  <2> QED
    BY <2>7, <2>8, <2>9, <2>10
<1>9. n \in right
  <2> HIDE DEF right
  <2> QED
    BY <1>7, <1>8, Steps
<1> QED
  BY <1>1, <1>6, <1>9

\* ws holds what vs holds, as often, in another order.
Permutes(p, n) ==
  /\ p \in [1 .. n -> 1 .. n]
  /\ \A a, b \in 1 .. n : p[a] = p[b] => a = b
  /\ \A a \in 1 .. n : \E b \in 1 .. n : p[b] = a
Reads(ws, vs, p, n) == \A a \in 1 .. n : ws[a] = vs[p[a]]
Rearranges(ws, vs) ==
  /\ ws \in Seq(Version) /\ Len(ws) = Len(vs)
  /\ \E p : Permutes(p, Len(vs)) /\ Reads(ws, vs, p, Len(vs))

\* Up to i, no version is greater than a later one.
Placed(ws, i) == \A a \in 1 .. i : \A b \in (a + 1) .. Len(ws) : Compare(ws[a], ws[b]) <= 0

LEMMA SwapIs ==
  ASSUME NEW ws \in Seq(Version), NEW i \in 1 .. Len(ws), NEW j \in 1 .. Len(ws), i # j
  PROVE  /\ Swap(ws, i, j) \in Seq(Version) /\ Len(Swap(ws, i, j)) = Len(ws)
         /\ Swap(ws, i, j)[i] = ws[j] /\ Swap(ws, i, j)[j] = ws[i]
         /\ \A k \in 1 .. Len(ws) : k # i /\ k # j => Swap(ws, i, j)[k] = ws[k]
<1>1. ws \in [1 .. Len(ws) -> Version] /\ Len(ws) \in Nat
  OBVIOUS
<1>2. PICK n \in Nat : n = Len(ws)
  BY <1>1
<1>3. Swap(ws, i, j) \in [1 .. n -> Version]
  BY <1>1, <1>2 DEF Swap
<1> QED
  BY <1>1, <1>2, <1>3 DEF Swap

LEMMA RearrangesItself ==
  ASSUME NEW vs \in Seq(Version)
  PROVE  Rearranges(vs, vs)
<1>1. PICK p : p = [a \in 1 .. Len(vs) |-> a]
  OBVIOUS
<1>2. Permutes(p, Len(vs)) /\ Reads(vs, vs, p, Len(vs))
  BY <1>1 DEF Permutes, Reads
<1> QED
  BY <1>2 DEF Rearranges

LEMMA Composes ==
  ASSUME NEW n, NEW p, NEW q, Permutes(p, n), Permutes(q, n)
  PROVE  \E r : Permutes(r, n) /\ \A a \in 1 .. n : p[a] \in 1 .. n /\ r[a] = q[p[a]]
<1>1. PICK r : r = [a \in 1 .. n |-> q[p[a]]]
  OBVIOUS
<1>2. /\ p \in [1 .. n -> 1 .. n] /\ q \in [1 .. n -> 1 .. n]
      /\ \A a, b \in 1 .. n : p[a] = p[b] => a = b
      /\ \A a, b \in 1 .. n : q[a] = q[b] => a = b
      /\ \A a \in 1 .. n : \E b \in 1 .. n : p[b] = a
      /\ \A a \in 1 .. n : \E b \in 1 .. n : q[b] = a
  BY DEF Permutes
<1>3. \A a \in 1 .. n : p[a] \in 1 .. n /\ r[a] = q[p[a]]
  BY <1>1, <1>2, Zenon
<1>4. r \in [1 .. n -> 1 .. n]
  <2>1. \A c \in 1 .. n : q[c] \in 1 .. n
    BY <1>2, Zenon
  <2>2. \A a \in 1 .. n : r[a] \in 1 .. n
    BY <1>3, <2>1, Zenon
  <2> QED
    BY <1>1, <2>2, Zenon
<1>5. ASSUME NEW a \in 1 .. n, NEW b \in 1 .. n, r[a] = r[b] PROVE a = b
  <2>1. p[a] \in 1 .. n /\ p[b] \in 1 .. n /\ q[p[a]] = q[p[b]]
    BY <1>3, <1>5, Zenon
  <2>2. p[a] = p[b]
    BY <1>2, <2>1
  <2> QED
    BY <1>2, <2>2
<1>6. ASSUME NEW a \in 1 .. n PROVE \E b \in 1 .. n : r[b] = a
  <2>1. PICK c \in 1 .. n : q[c] = a
    BY <1>2
  <2>2. PICK b \in 1 .. n : p[b] = c
    BY <1>2
  <2> QED
    BY <1>3, <2>1, <2>2, Zenon
<1> QED
  BY <1>3, <1>4, <1>5, <1>6 DEF Permutes

LEMMA RearrangesAgain ==
  ASSUME NEW us, NEW ws, NEW vs, Rearranges(us, ws), Rearranges(ws, vs)
  PROVE  Rearranges(us, vs)
<1>1. PICK n : n = Len(vs)
  OBVIOUS
<1>2. us \in Seq(Version) /\ Len(us) = n /\ Len(ws) = n
  BY <1>1 DEF Rearranges
<1>3. PICK p : Permutes(p, n) /\ Reads(us, ws, p, n)
  BY <1>1, <1>2 DEF Rearranges
<1>4. PICK q : Permutes(q, n) /\ Reads(ws, vs, q, n)
  BY <1>1 DEF Rearranges
<1>5. PICK r : Permutes(r, n) /\ \A a \in 1 .. n : p[a] \in 1 .. n /\ r[a] = q[p[a]]
  BY <1>3, <1>4, Composes
<1>6. Reads(us, vs, r, n)
  <2> SUFFICES ASSUME NEW a \in 1 .. n PROVE us[a] = vs[r[a]]
    BY DEF Reads
  <2>1. us[a] = ws[p[a]] /\ p[a] \in 1 .. n /\ r[a] = q[p[a]]
    BY <1>3, <1>5 DEF Reads
  <2>2. ws[p[a]] = vs[q[p[a]]]
    BY <1>4, <2>1 DEF Reads
  <2> QED
    BY <2>1, <2>2
<1> QED
  BY <1>1, <1>2, <1>5, <1>6 DEF Rearranges

LEMMA SwapRearranges ==
  ASSUME NEW ws \in Seq(Version), NEW i \in 1 .. Len(ws), NEW j \in 1 .. Len(ws), i # j
  PROVE  Rearranges(Swap(ws, i, j), ws)
<1>1. PICK n : n = Len(ws)
  OBVIOUS
<1>2. PICK p : p = [a \in 1 .. n |-> IF a = i THEN j ELSE IF a = j THEN i ELSE a]
  OBVIOUS
<1>3. p \in [1 .. n -> 1 .. n] /\ p[i] = j /\ p[j] = i /\ \A a \in 1 .. n : a # i /\ a # j => p[a] = a
  BY <1>1, <1>2
<1>4. \A a, b \in 1 .. n : p[a] = p[b] => a = b
  BY <1>1, <1>2
<1>5. \A a \in 1 .. n : \E b \in 1 .. n : p[b] = a
  BY <1>1, <1>3
<1>6. Permutes(p, n)
  BY <1>3, <1>4, <1>5 DEF Permutes
<1>7. Reads(Swap(ws, i, j), ws, p, n)
  <2> SUFFICES ASSUME NEW a \in 1 .. n PROVE Swap(ws, i, j)[a] = ws[p[a]]
    BY DEF Reads
  <2>1. CASE a = i
    BY <1>1, <1>3, <2>1, SwapIs
  <2>2. CASE a = j
    BY <1>1, <1>3, <2>2, SwapIs
  <2>3. CASE a # i /\ a # j
    <3>1. \A k \in 1 .. Len(ws) : k # i /\ k # j => Swap(ws, i, j)[k] = ws[k]
      BY SwapIs
    <3>2. p[a] = a /\ a \in 1 .. Len(ws)
      BY <1>1, <1>3, <2>3
    <3> QED
      BY <2>3, <3>1, <3>2, Zenon
  <2> QED
    BY <2>1, <2>2, <2>3
<1>8. Swap(ws, i, j) \in Seq(Version) /\ Len(Swap(ws, i, j)) = Len(ws)
  BY SwapIs
<1> QED
  BY <1>1, <1>6, <1>7, <1>8 DEF Rearranges

\* What holds v in one holds it as often in the other.
PlacesOf(s, v) == {i \in DOMAIN s : s[i] = v}

LEMMA CountsStay ==
  ASSUME NEW vs \in Seq(Version), NEW ws, Rearranges(ws, vs), NEW v
  PROVE  Cardinality(PlacesOf(ws, v)) = Cardinality(PlacesOf(vs, v))
<1>1. PICK n \in Nat : n = Len(vs)
  OBVIOUS
<1>2. DOMAIN vs = 1 .. n /\ DOMAIN ws = 1 .. n
  BY <1>1 DEF Rearranges
<1>3. PICK p : Permutes(p, n) /\ Reads(ws, vs, p, n)
  BY <1>1 DEF Rearranges
<1> DEFINE InWs == {i \in 1 .. n : ws[i] = v}
           InVs == {i \in 1 .. n : vs[i] = v}
<1>4. PICK q : q = [i \in InWs |-> p[i]]
  OBVIOUS
<1>5. q \in [InWs -> InVs]
  BY <1>3, <1>4 DEF Permutes, Reads
<1>6. \A a, b \in InWs : q[a] = q[b] => a = b
  BY <1>3, <1>4 DEF Permutes
<1>7. ASSUME NEW t \in InVs PROVE \E s \in InWs : q[s] = t
  <2>1. PICK s \in 1 .. n : p[s] = t
    BY <1>3 DEF Permutes
  <2>2. s \in InWs
    BY <1>3, <2>1 DEF Reads
  <2> QED
    BY <1>4, <2>1, <2>2
<1>8. q \in Bijection(InWs, InVs)
  <2>1. q \in Injection(InWs, InVs)
    BY <1>5, <1>6, Fun_IsInj
  <2>2. q \in Surjection(InWs, InVs)
    BY <1>5, <1>7, Fun_IsSurj
  <2> QED
    BY <2>1, <2>2 DEF Bijection
<1>9. ExistsBijection(InWs, InVs)
  BY <1>8 DEF ExistsBijection
<1>10. IsFiniteSet(InWs)
  <2>1. IsFiniteSet(1 .. n) /\ InWs \in SUBSET (1 .. n)
    BY FS_Interval
  <2> QED
    BY <2>1, FS_Subset
<1>11. Cardinality(InVs) = Cardinality(InWs)
  BY <1>9, <1>10, FS_Bijection
<1>12. InWs = PlacesOf(ws, v) /\ InVs = PlacesOf(vs, v)
  BY <1>2 DEF PlacesOf
<1> QED
  BY <1>11, <1>12

\* A round puts the least of the versions from i on at i, and moves only those
\* (semver.go: Sort).
LEMMA ExchangeIs ==
  ASSUME NEW ws \in Seq(Version), NEW i \in 1 .. Len(ws), NEW j \in 1 .. Len(ws), i # j
  PROVE  /\ Rearranges(Exchange(ws, i, j), ws)
         /\ Compare(Exchange(ws, i, j)[i], ws[i]) <= 0
         /\ Compare(Exchange(ws, i, j)[i], Exchange(ws, i, j)[j]) <= 0
         /\ \A k \in 1 .. Len(ws) : k # i /\ k # j => Exchange(ws, i, j)[k] = ws[k]
         /\ \/ Exchange(ws, i, j)[i] = ws[i] /\ Exchange(ws, i, j)[j] = ws[j]
            \/ Exchange(ws, i, j)[i] = ws[j] /\ Exchange(ws, i, j)[j] = ws[i]
<1>1. ws[i] \in Version /\ ws[j] \in Version
  OBVIOUS
<1>2. CASE LessThan(ws[j], ws[i])
  <2>1. Exchange(ws, i, j) = Swap(ws, i, j) /\ Compare(ws[j], ws[i]) <= 0
    BY <1>1, <1>2, ComparesBySign DEF Exchange, LessThan
  <2>2. Rearranges(Swap(ws, i, j), ws)
    BY SwapRearranges
  <2>3. /\ Swap(ws, i, j)[i] = ws[j] /\ Swap(ws, i, j)[j] = ws[i]
        /\ \A k \in 1 .. Len(ws) : k # i /\ k # j => Swap(ws, i, j)[k] = ws[k]
    BY SwapIs
  <2> QED
    BY <2>1, <2>2, <2>3
<1>3. CASE ~LessThan(ws[j], ws[i])
  <2>1. Exchange(ws, i, j) = ws /\ Compare(ws[i], ws[j]) <= 0 /\ Compare(ws[i], ws[i]) = 0
    BY <1>1, <1>3, ComparesBySign, EqualsItself DEF Exchange, LessThan
  <2> QED
    BY <2>1, RearrangesItself
<1> QED
  BY <1>2, <1>3

LEMMA RoundIs ==
  ASSUME NEW vs \in Seq(Version), NEW i \in 1 .. Len(vs)
  PROVE  /\ Rearranges(Round(vs, i), vs)
         /\ Placed(vs, i - 1) => Placed(Round(vs, i), i)
<1>0. PICK m \in Nat, n \in Nat : m = Len(vs) - i /\ n = Len(vs)
  <2>1. Len(vs) - i \in Nat /\ Len(vs) \in Nat
    OBVIOUS
  <2> QED
    BY <2>1
<1>1. i \in 1 .. n /\ n = m + i
  BY <1>0
<1> DEFINE S == {ws \in Seq(Version) : Len(ws) = n}
<1>2. PICK step : step = [k \in 1 .. m |-> [ws \in S |-> Exchange(ws, i, i + k)]]
  OBVIOUS
<1>3. \A k \in 1 .. m : i + k \in 1 .. n /\ i # i + k
  BY <1>1
<1>4. ASSUME NEW k \in 1 .. m, NEW ws \in S PROVE Exchange(ws, i, i + k) \in S
  <2>1. Rearranges(Exchange(ws, i, i + k), ws)
    BY <1>1, <1>3, ExchangeIs
  <2> QED
    BY <2>1 DEF Rearranges
<1>5. vs \in S /\ step \in [1 .. m -> [S -> S]]
  <2>1. vs \in S
    BY <1>0
  <2> HIDE DEF S
  <2> QED
    BY <1>2, <1>4, <2>1
<1>6. PICK f : Goes(f, S, vs, m, step)
  <2> HIDE DEF S
  <2> QED
    BY <1>5, LoopExists
<1>7. f = [k \in 0 .. m |-> IF k = 0 THEN vs ELSE Exchange(f[k - 1], i, i + k)]
  <2> HIDE DEF S
  <2>1. ASSUME NEW k \in 0 .. m, k # 0 PROVE f[k] = Exchange(f[k - 1], i, i + k)
    <3>1. k \in 1 .. m /\ k - 1 \in 0 .. m
      BY <2>1
    <3>2. f[k - 1] \in S
      BY <1>6, <3>1 DEF Goes
    <3> QED
      BY <1>2, <1>6, <3>1, <3>2 DEF Goes
  <2> QED
    BY <1>6, <2>1 DEF Goes
<1>8. PICK after : /\ after = [k \in 0 .. m |-> IF k = 0 THEN vs ELSE Exchange(after[k - 1], i, i + k)]
                   /\ Round(vs, i) = after[m]
  BY <1>0, <1>7 DEF Round
<1> DEFINE Least(ws, k) == \A b \in (i + 1) .. (i + k) : Compare(ws[i], ws[b]) <= 0
           Kept(ws) == Placed(vs, i - 1) => Placed(ws, i - 1)
           right == {k \in 0 .. m : Rearranges(after[k], vs) /\ Least(after[k], k) /\ Kept(after[k])}
<1>9. 0 \in right
  <2>1. after[0] = vs /\ 0 \in 0 .. m
    BY <1>8
  <2> QED
    BY <1>1, <2>1, RearrangesItself
<1>10. ASSUME NEW k \in 1 .. m, k - 1 \in right PROVE k \in right
  <2>1. PICK ws, us : ws = after[k - 1] /\ us = after[k]
    OBVIOUS
  <2>2. us = Exchange(ws, i, i + k) /\ k \in 0 .. m
    BY <1>8, <2>1
  <2>3. Rearranges(ws, vs) /\ Least(ws, k - 1) /\ Kept(ws)
    BY <1>10, <2>1
  <2>4. ws \in Seq(Version) /\ Len(ws) = n /\ i + k \in 1 .. Len(ws) /\ i \in 1 .. Len(ws)
    BY <1>0, <1>1, <1>3, <2>3 DEF Rearranges
  <2>5. /\ Rearranges(us, ws) /\ Compare(us[i], ws[i]) <= 0 /\ Compare(us[i], us[i + k]) <= 0
        /\ \A b \in 1 .. n : b # i /\ b # i + k => us[b] = ws[b]
        /\ \/ us[i] = ws[i] /\ us[i + k] = ws[i + k]
           \/ us[i] = ws[i + k] /\ us[i + k] = ws[i]
    BY <1>3, <2>2, <2>4, ExchangeIs
  <2>6. Rearranges(us, vs)
    BY <2>3, <2>5, RearrangesAgain
  <2>7. Len(us) = n /\ \A b \in 1 .. n : us[b] \in Version /\ ws[b] \in Version
    BY <1>0, <2>4, <2>5 DEF Rearranges
  <2>8. ASSUME NEW b \in (i + 1) .. (i + k) PROVE Compare(us[i], us[b]) <= 0
    <3>1. CASE b = i + k
      BY <2>5, <3>1
    <3>2. CASE b # i + k
      <4>1. b \in (i + 1) .. (i + (k - 1)) /\ b \in 1 .. n /\ b # i /\ i \in 1 .. n
        BY <1>1, <3>2
      <4>2. us[b] = ws[b] /\ Compare(ws[i], ws[b]) <= 0
        BY <2>3, <2>5, <3>2, <4>1
      <4> QED
        BY <2>5, <2>7, <4>1, <4>2, ComparesInChains
    <3> QED
      BY <3>1, <3>2
  <2>9. ASSUME Placed(vs, i - 1), NEW a \in 1 .. (i - 1), NEW b \in (a + 1) .. n
        PROVE  Compare(us[a], us[b]) <= 0
    <3>1. \A c \in (a + 1) .. n : Compare(ws[a], ws[c]) <= 0
      BY <2>3, <2>4, <2>9 DEF Placed
    <3>2. a \in 1 .. n /\ a # i /\ a # i + k /\ i \in (a + 1) .. n /\ i + k \in (a + 1) .. n /\ b \in 1 .. n
      BY <1>1
    <3>3. us[a] = ws[a]
      BY <2>5, <3>2
    <3>4. \E c \in (a + 1) .. n : us[b] = ws[c]
      BY <2>5, <3>2
    <3> QED
      BY <3>1, <3>3, <3>4
  <2>10. Kept(us)
    BY <2>7, <2>9 DEF Placed
  <2>11. Least(us, k)
    BY <2>8
  <2> QED
    BY <2>1, <2>2, <2>6, <2>10, <2>11
<1>11. m \in right
  <2> HIDE DEF right
  <2> QED
    BY <1>9, <1>10, Steps
<1>12. Rearranges(Round(vs, i), vs) /\ Least(Round(vs, i), m) /\ Kept(Round(vs, i))
  BY <1>8, <1>11
<1>13. Len(Round(vs, i)) = n
  BY <1>0, <1>12 DEF Rearranges
<1>14. ASSUME Placed(vs, i - 1), NEW a \in 1 .. i, NEW b \in (a + 1) .. n
       PROVE  Compare(Round(vs, i)[a], Round(vs, i)[b]) <= 0
  <2>1. CASE a = i
    <3>1. b \in (i + 1) .. (i + m)
      BY <1>1, <2>1
    <3> QED
      BY <1>12, <2>1, <3>1
  <2>2. CASE a # i
    <3>1. a \in 1 .. (i - 1)
      BY <1>1, <2>2
    <3> QED
      BY <1>12, <1>13, <1>14, <3>1 DEF Placed
  <2> QED
    BY <2>1, <2>2
<1> QED
  BY <1>12, <1>13, <1>14 DEF Placed

\* Sort rearranges the list so that no version is greater than a later one.
LEMMA SortIs ==
  ASSUME NEW vs \in Seq(Version)
  PROVE  Rearranges(Sort(vs), vs) /\ Placed(Sort(vs), Len(vs))
<1>0. PICK n \in Nat : n = Len(vs)
  OBVIOUS
<1> DEFINE S == {ws \in Seq(Version) : Len(ws) = n}
<1>1. PICK step : step = [k \in 1 .. n |-> [ws \in S |-> Round(ws, k)]]
  OBVIOUS
<1>2. ASSUME NEW k \in 1 .. n, NEW ws \in S PROVE Round(ws, k) \in S
  <2>1. Rearranges(Round(ws, k), ws)
    BY RoundIs
  <2> QED
    BY <2>1 DEF Rearranges
<1>3. vs \in S /\ step \in [1 .. n -> [S -> S]]
  <2>1. vs \in S
    BY <1>0
  <2> HIDE DEF S
  <2> QED
    BY <1>1, <1>2, <2>1
<1>4. PICK f : Goes(f, S, vs, n, step)
  <2> HIDE DEF S
  <2> QED
    BY <1>3, LoopExists
<1>5. f = [k \in 0 .. n |-> IF k = 0 THEN vs ELSE Round(f[k - 1], k)]
  <2> HIDE DEF S
  <2>1. ASSUME NEW k \in 0 .. n, k # 0 PROVE f[k] = Round(f[k - 1], k)
    <3>1. k \in 1 .. n /\ k - 1 \in 0 .. n
      BY <2>1
    <3>2. f[k - 1] \in S
      BY <1>4, <3>1 DEF Goes
    <3> QED
      BY <1>1, <1>4, <3>1, <3>2 DEF Goes
  <2> QED
    BY <1>4, <2>1 DEF Goes
<1>6. PICK after : /\ after = [k \in 0 .. n |-> IF k = 0 THEN vs ELSE Round(after[k - 1], k)]
                   /\ Sort(vs) = after[n]
  BY <1>0, <1>5 DEF Sort
<1> DEFINE right == {k \in 0 .. n : Rearranges(after[k], vs) /\ Placed(after[k], k)}
<1>7. 0 \in right
  <2>1. after[0] = vs /\ 0 \in 0 .. n
    BY <1>6
  <2> QED
    BY <2>1, RearrangesItself DEF Placed
<1>8. ASSUME NEW k \in 1 .. n, k - 1 \in right PROVE k \in right
  <2>1. after[k] = Round(after[k - 1], k) /\ k \in 0 .. n
    BY <1>6
  <2>2. Rearranges(after[k - 1], vs) /\ Placed(after[k - 1], k - 1)
    BY <1>8
  <2>3. after[k - 1] \in Seq(Version) /\ k \in 1 .. Len(after[k - 1])
    BY <1>0, <2>2 DEF Rearranges
  <2>4. Rearranges(after[k], after[k - 1]) /\ Placed(after[k], k)
    BY <2>1, <2>2, <2>3, RoundIs
  <2> QED
    BY <2>1, <2>2, <2>4, RearrangesAgain
<1>9. n \in right
  <2> HIDE DEF right
  <2> QED
    BY <1>7, <1>8, Steps
<1> QED
  BY <1>0, <1>6, <1>9

\* What occurs in one of two rearranged lists occurs in the other.
LEMMA SameElements ==
  ASSUME NEW ws, NEW vs \in Seq(Version), Rearranges(ws, vs)
  PROVE  /\ DOMAIN ws = DOMAIN vs
         /\ \A a \in DOMAIN ws : \E b \in DOMAIN vs : ws[a] = vs[b]
         /\ \A b \in DOMAIN vs : \E a \in DOMAIN ws : ws[a] = vs[b]
<1>1. PICK n \in Nat : n = Len(vs)
  OBVIOUS
<1>2. DOMAIN vs = 1 .. n /\ DOMAIN ws = 1 .. n
  BY <1>1 DEF Rearranges
<1>3. PICK p : Permutes(p, n) /\ Reads(ws, vs, p, n)
  BY <1>1 DEF Rearranges
<1>4. \A a \in 1 .. n : p[a] \in 1 .. n /\ ws[a] = vs[p[a]]
  BY <1>3 DEF Permutes, Reads
<1>5. \A b \in 1 .. n : \E a \in 1 .. n : p[a] = b
  BY <1>3 DEF Permutes
<1>6. ASSUME NEW b \in 1 .. n PROVE \E a \in 1 .. n : ws[a] = vs[b]
  <2>1. PICK a \in 1 .. n : p[a] = b
    BY <1>5
  <2>2. ws[a] = vs[b]
    BY <1>4, <2>1
  <2> QED
    BY <2>2
<1> QED
  BY <1>2, <1>4, <1>6

\* Sort returns what it was given, as often, in ascending order, and Max is as
\* great as its last element, for lists of any length (semver.go: Sort, Max).
THEOREM SortIsRight ==
  \A vs \in Seq(Version) : SortsAscending(vs)
<1>1. SUFFICES ASSUME NEW vs \in Seq(Version) PROVE SortsAscending(vs)
  OBVIOUS
<1>2. PICK sorted : sorted = Sort(vs)
  OBVIOUS
<1>3. Rearranges(sorted, vs) /\ Placed(sorted, Len(vs))
  BY <1>2, SortIs
<1>4. DOMAIN sorted = 1 .. Len(vs) /\ Len(sorted) = Len(vs) /\ sorted \in Seq(Version) /\ DOMAIN vs = 1 .. Len(vs)
  BY <1>3 DEF Rearranges
<1>5. ASSUME NEW i \in DOMAIN sorted, NEW j \in DOMAIN sorted, i < j
      PROVE  Compare(sorted[i], sorted[j]) <= 0
  <2>1. i \in 1 .. Len(vs) /\ j \in (i + 1) .. Len(sorted)
    BY <1>4, <1>5
  <2> QED
    BY <1>3, <2>1 DEF Placed
<1>6. ASSUME NEW i \in DOMAIN vs
      PROVE  Cardinality({k \in DOMAIN sorted : sorted[k] = vs[i]})
               = Cardinality({k \in DOMAIN vs : vs[k] = vs[i]})
  <2>1. PICK v : v = vs[i]
    OBVIOUS
  <2>2. Cardinality(PlacesOf(sorted, v)) = Cardinality(PlacesOf(vs, v))
    BY <1>3, CountsStay
  <2>3. /\ PlacesOf(sorted, v) = {k \in DOMAIN sorted : sorted[k] = vs[i]}
        /\ PlacesOf(vs, v) = {k \in DOMAIN vs : vs[k] = vs[i]}
    BY <2>1 DEF PlacesOf
  <2> QED
    BY <2>2, <2>3
<1>7. ASSUME vs # << >> PROVE Equal(MaxOf(vs), sorted[Len(vs)])
  <2>1. PICK i \in DOMAIN vs : MaxOf(vs) = vs[i] /\ \A j \in DOMAIN vs : Compare(vs[j], vs[i]) <= 0
    BY <1>7, MaxIs
  <2>2. Len(vs) \in DOMAIN sorted
    BY <1>4, <1>7
  <2>3. PICK a \in DOMAIN sorted : sorted[a] = vs[i]
    BY <1>3, SameElements
  <2>4. PICK b \in DOMAIN vs : sorted[Len(vs)] = vs[b]
    BY <1>3, <2>2, SameElements
  <2>5. vs[i] \in Version /\ vs[b] \in Version /\ Compare(vs[b], vs[i]) <= 0
    BY <2>1
  <2>6. Compare(vs[i], vs[b]) <= 0
    <3>1. CASE a = Len(vs)
      BY <2>3, <2>4, <2>5, <3>1, EqualsItself
    <3>2. CASE a # Len(vs)
      <4>1. a < Len(vs)
        BY <1>4, <3>2
      <4> QED
        BY <1>5, <2>2, <2>3, <2>4, <4>1
    <3> QED
      BY <3>1, <3>2
  <2>7. Compare(vs[i], vs[b]) = 0
    BY <2>5, <2>6, ComparesBySign
  <2> QED
    BY <2>1, <2>4, <2>7 DEF Equal
<1> QED
  BY <1>2, <1>5, <1>6, <1>7 DEF SortsAscending

\* SelectBest and selectMinimum find a version exactly when one satisfies the
\* constraint, and none that does lies outside the two, for any constraint and
\* lists of any length (constraint.go: SelectBest, resolver.go: selectMinimum).
THEOREM SelectionsAreExtreme ==
  \A constraint : \A vs \in Seq(Version) : SelectsTheExtremes(constraint, vs)
<1>1. SUFFICES ASSUME NEW constraint, NEW vs \in Seq(Version)
               PROVE  SelectsTheExtremes(constraint, vs)
  OBVIOUS
<1>2. PICK sorted : sorted = Sort(vs)
  OBVIOUS
<1>3. Rearranges(sorted, vs) /\ Placed(sorted, Len(vs))
  BY <1>2, SortIs
<1>4. DOMAIN sorted = 1 .. Len(vs) /\ Len(sorted) = Len(vs) /\ sorted \in Seq(Version) /\ DOMAIN vs = 1 .. Len(vs)
  BY <1>3 DEF Rearranges
<1>5. PICK good, among : /\ good = {i \in DOMAIN vs : Satisfies(constraint, vs[i])}
                         /\ among = {i \in DOMAIN sorted : Satisfies(constraint, sorted[i])}
  OBVIOUS
<1>6. PICK best, least : best = SelectBest(constraint, vs) /\ least = selectMinimum(constraint, vs)
  OBVIOUS
<1>7. \/ good = {} /\ best = << >>
      \/ \E i \in good : best = << vs[i] >> /\ \A j \in good : Compare(vs[j], vs[i]) <= 0
  BY <1>5, <1>6, BestIs
<1>8. good = {} <=> among = {}
  <2>1. ASSUME NEW b \in good PROVE among # {}
    <3>1. PICK a \in DOMAIN sorted : sorted[a] = vs[b]
      BY <1>3, <1>5, SameElements
    <3>2. a \in among
      BY <1>5, <3>1
    <3> QED
      BY <3>2
  <2>2. ASSUME NEW a \in among PROVE good # {}
    <3>1. PICK b \in DOMAIN vs : sorted[a] = vs[b]
      BY <1>3, <1>5, SameElements
    <3>2. b \in good
      BY <1>5, <3>1
    <3> QED
      BY <3>2
  <2> QED
    BY <2>1, <2>2
<1>9. CASE among = {}
  <2>1. least = << >>
    BY <1>2, <1>5, <1>6, <1>9 DEF selectMinimum
  <2> QED
    BY <1>5, <1>6, <1>7, <1>8, <1>9, <2>1 DEF SelectsTheExtremes
<1>10. CASE among # {}
  <2>1. \E i \in among : \A j \in among : i <= j
    <3>1. among \in SUBSET Nat
      BY <1>4, <1>5
    <3> QED
      BY <1>10, <3>1, LeastOf
  <2>2. PICK m : m = CHOOSE i \in among : \A j \in among : i <= j
    OBVIOUS
  <2>3. m \in among /\ \A j \in among : m <= j
    BY <2>1, <2>2
  <2>4. least = << sorted[m] >>
    BY <1>2, <1>5, <1>6, <1>10, <2>2 DEF selectMinimum
  <2>5. PICK i \in good : best = << vs[i] >> /\ \A j \in good : Compare(vs[j], vs[i]) <= 0
    BY <1>7, <1>8, <1>10
  <2>6. /\ Satisfies(constraint, vs[i]) /\ Satisfies(constraint, sorted[m])
        /\ m \in DOMAIN sorted /\ sorted[m] \in Version
    BY <1>4, <1>5, <2>3
  <2>7. ASSUME NEW j \in good PROVE Compare(sorted[m], vs[j]) <= 0
    <3>1. PICK a \in DOMAIN sorted : sorted[a] = vs[j]
      BY <1>3, <1>5, SameElements
    <3>2. a \in among /\ m <= a
      BY <1>5, <2>3, <3>1
    <3>3. CASE a = m
      BY <2>6, <3>1, <3>3, EqualsItself
    <3>4. CASE a # m
      <4>1. m \in 1 .. Len(vs) /\ a \in (m + 1) .. Len(sorted)
        BY <1>4, <2>6, <3>2, <3>4
      <4> QED
        BY <1>3, <3>1, <4>1 DEF Placed
    <3> QED
      BY <3>3, <3>4
  <2>8. best # << >> /\ least # << >> /\ best[1] = vs[i] /\ least[1] = sorted[m] /\ good # {}
    BY <2>4, <2>5
  <2>9. \A j \in good : Compare(least[1], vs[j]) <= 0 /\ Compare(vs[j], best[1]) <= 0
    BY <2>5, <2>7, <2>8
  <2>10. Satisfies(constraint, best[1]) /\ Satisfies(constraint, least[1])
    BY <2>6, <2>8
  <2> QED
    BY <1>5, <1>6, <2>8, <2>9, <2>10 DEF SelectsTheExtremes
<1> QED
  BY <1>9, <1>10

\* Every call of the package of versions returns what its callers rely on.
THEOREM CallsAreRight == CallSpec => []VersionsAreOrdered
<1>1. CallInit => VersionsAreOrdered
  <2>1. SUFFICES ASSUME CallInit PROVE VersionsAreOrdered
    OBVIOUS
  <2>2. ASSUME argument.what = "order"
        PROVE  /\ \A w \in SomeVersions : OrdersTotally(argument.u, argument.v, w)
               /\ CaretKeepsTheSeries(argument.u, argument.v)
    <3>1. argument.u \in Version /\ argument.v \in Version /\ SomeVersions \subseteq Version
      BY <2>1, <2>2, CallsAssumption DEF CallInit, Arguments
    <3> QED
      BY <3>1, VersionsAreTotallyOrdered, CaretsKeepTheSeries
  <2>3. ASSUME argument.what = "lists"
        PROVE  SortsAscending(argument.vs) /\ SelectsTheExtremes(argument.parts, argument.vs)
    <3>1. argument.vs \in Seq(Version)
      BY <2>1, <2>3, CallsAssumption DEF CallInit, Arguments
    <3> QED
      BY <3>1, SortIsRight, SelectionsAreExtreme
  <2> QED
    BY <2>2, <2>3 DEF VersionsAreOrdered
<1>2. VersionsAreOrdered /\ [FALSE]_argument => VersionsAreOrdered'
  <2>1. ASSUME VersionsAreOrdered, [FALSE]_argument PROVE argument' = argument
    BY <2>1
  <2> QED
    BY <2>1 DEF VersionsAreOrdered
<1> QED
  BY <1>1, <1>2, PTL DEF CallSpec

-----------------------------------------------------------------------------
(* Sequences, and what the assumption says of requirements and versions. *)

\* A sequence that is not empty is made of its head and its tail.
LEMMA HeadAndTail ==
  ASSUME NEW S, NEW s \in Seq(S), s # << >>
  PROVE  /\ Head(s) \in S /\ Tail(s) \in Seq(S)
         /\ Range(s) = {Head(s)} \cup Range(Tail(s))
<1>1. Head(s) \in S /\ Tail(s) \in Seq(S) /\ Len(s) \in Nat /\ Len(s) # 0
  OBVIOUS
<1>2. /\ Head(s) = s[1] /\ Len(Tail(s)) = Len(s) - 1
      /\ \A i \in 1 .. (Len(s) - 1) : Tail(s)[i] = s[i + 1]
  OBVIOUS
<1>3. /\ Range(s) = {s[i] : i \in 1 .. Len(s)}
      /\ Range(Tail(s)) = {Tail(s)[i] : i \in 1 .. (Len(s) - 1)}
  <2>1. DOMAIN s = 1 .. Len(s)
    OBVIOUS
  <2>2. DOMAIN Tail(s) = 1 .. (Len(s) - 1)
    BY <1>1, <1>2
  <2> QED
    BY <2>1, <2>2, Zenon DEF Range
<1>4. ASSUME NEW i \in 1 .. Len(s) PROVE s[i] = Head(s) \/ s[i] \in Range(Tail(s))
  <2>1. CASE i = 1
    BY <1>2, <2>1
  <2>2. CASE i # 1
    <3>1. i - 1 \in 1 .. (Len(s) - 1) /\ s[i] = Tail(s)[i - 1]
      BY <1>1, <1>2, <2>2
    <3> QED
      BY <1>3, <3>1
  <2> QED
    BY <2>1, <2>2
<1>5. ASSUME NEW i \in 1 .. (Len(s) - 1) PROVE Tail(s)[i] \in Range(s)
  <2>1. i + 1 \in 1 .. Len(s) /\ Tail(s)[i] = s[i + 1]
    BY <1>1, <1>2
  <2> QED
    BY <1>3, <2>1
<1>6. Head(s) \in Range(s)
  <2>1. 1 \in 1 .. Len(s)
    BY <1>1
  <2> QED
    BY <1>2, <1>3, <2>1
<1> QED
  BY <1>1, <1>3, <1>4, <1>5, <1>6

\* Append adds one element.
LEMMA AppendAdds ==
  ASSUME NEW S, NEW s \in Seq(S), NEW e \in S
  PROVE  Append(s, e) \in Seq(S) /\ Range(Append(s, e)) = Range(s) \cup {e}
<1>1. /\ Append(s, e) \in Seq(S) /\ Len(s) \in Nat /\ Len(Append(s, e)) = Len(s) + 1
      /\ Append(s, e)[Len(s) + 1] = e /\ \A i \in 1 .. Len(s) : Append(s, e)[i] = s[i]
  OBVIOUS
<1>2. /\ Range(s) = {s[i] : i \in 1 .. Len(s)}
      /\ Range(Append(s, e)) = {Append(s, e)[i] : i \in 1 .. (Len(s) + 1)}
  BY <1>1 DEF Range
<1>3. ASSUME NEW i \in 1 .. (Len(s) + 1) PROVE Append(s, e)[i] \in Range(s) \cup {e}
  <2>1. i = Len(s) + 1 \/ i \in 1 .. Len(s)
    BY <1>1
  <2> QED
    BY <1>1, <1>2, <2>1
<1>4. ASSUME NEW i \in 1 .. Len(s) PROVE s[i] \in Range(Append(s, e))
  <2>1. i \in 1 .. (Len(s) + 1) /\ Append(s, e)[i] = s[i]
    BY <1>1
  <2> QED
    BY <1>2, <2>1
<1>5. e \in Range(Append(s, e))
  <2>1. Len(s) + 1 \in 1 .. (Len(s) + 1)
    BY <1>1
  <2> QED
    BY <1>1, <1>2, <2>1
<1> QED
  BY <1>1, <1>2, <1>3, <1>4, <1>5

LEMMA RangeTyped ==
  ASSUME NEW S, NEW s \in Seq(S)
  PROVE  Range(s) \subseteq S
BY DEF Range

LEMMA EmptyRange == Range(<< >>) = {}
BY DEF Range

LEMMA VersionsTyped ==
  ASSUME NEW p \in Paths, NEW v \in Range(Available[p])
  PROVE  v \in Version
BY ResolverAssumption, RangeTyped

\* A requirement is for a path and has its least version there, if any.
LEMMA RequirementTyped ==
  ASSUME NEW req \in DOMAIN Minimum
  PROVE  /\ req.path \in Paths
         /\ Minimum[req] # << >> =>
              /\ Minimum[req] = << Minimum[req][1] >>
              /\ Minimum[req][1] \in Range(Available[req.path]) /\ Minimum[req][1] \in Version
<1>1. req.path \in Paths
  BY ResolverAssumption
<1>2. ASSUME NEW v \in Range(Available[req.path]), Minimum[req] = << v >>
      PROVE  /\ Minimum[req] = << Minimum[req][1] >>
             /\ Minimum[req][1] \in Range(Available[req.path]) /\ Minimum[req][1] \in Version
  BY <1>1, <1>2, VersionsTyped
<1> QED
  BY <1>1, <1>2, ResolverAssumption

\* What is selected is one of the path's versions.
LEMMA SelectionTyped ==
  ASSUME TypeOK, NEW p \in Paths, selected[p] # << >>
  PROVE  /\ selected[p] = << selected[p][1] >>
         /\ selected[p][1] \in Range(Available[p]) /\ selected[p][1] \in Version
<1>1. PICK v \in Range(Available[p]) : selected[p] = << v >>
  BY DEF TypeOK
<1> QED
  BY <1>1, VersionsTyped

\* The requirements of the project and of the versions are requirements.
LEMMA WorldTyped ==
  ASSUME world \in Worlds
  PROVE  /\ world.direct \in Seq(DOMAIN Minimum)
         /\ \A p \in Paths : \A v \in Range(Available[p]) :
              /\ <<p, v>> \in DOMAIN world.transitive
              /\ world.transitive[<<p, v>>] \in Seq(DOMAIN Minimum)
BY ResolverAssumption

-----------------------------------------------------------------------------
(* What the steps do. *)

\* Taking a requirement from the list, whatever is made of it.
LEMMA Takes ==
  ASSUME TypeOK, todo # << >>
  PROVE  /\ Head(todo) \in DOMAIN Minimum /\ Tail(todo) \in Seq(DOMAIN Minimum)
         /\ Range(todo) = {Head(todo)} \cup Range(Tail(todo))
BY HeadAndTail DEF TypeOK

\* Select raises the path, or the path is high enough.
Raises(p, v) ==
  /\ selected[p] = << >> \/ Compare(v, selected[p][1]) > 0
  /\ selected' = [selected EXCEPT ![p] = << v >>]
  /\ processed' = processed \ {p}
  /\ queue' = IF initial /\ selected[p] # << >> THEN queue ELSE Append(queue, p)
Rests(p, v) ==
  /\ selected[p] # << >> /\ Compare(v, selected[p][1]) <= 0
  /\ UNCHANGED <<selected, processed, queue>>

\* One of the two happens, with the least version that was found.
LEMMA SelectStep ==
  ASSUME TypeOK, Select
  PROVE  \E v : /\ Minimum[Head(todo)] = << v >> /\ v \in Range(Available[Head(todo).path])
                /\ v \in Version /\ Head(todo).path \in Paths
                /\ Raises(Head(todo).path, v) \/ Rests(Head(todo).path, v)
<1>1. Head(todo) \in DOMAIN Minimum
  BY Takes DEF Select
<1>2. PICK p : p = Head(todo).path
  OBVIOUS
<1>3. PICK least : least = Minimum[Head(todo)]
  OBVIOUS
<1>4. p \in Paths /\ least = << least[1] >> /\ least[1] \in Range(Available[p]) /\ least[1] \in Version
  BY <1>1, <1>2, <1>3, RequirementTyped DEF Select
<1>5. IF selected[p] = << >> \/ GreaterThan(least[1], selected[p][1])
        THEN /\ selected' = [selected EXCEPT ![p] = least]
             /\ processed' = processed \ {p}
             /\ queue' = IF initial /\ selected[p] # << >> THEN queue ELSE Append(queue, p)
        ELSE UNCHANGED <<selected, processed, queue>>
  BY <1>2, <1>3 DEF Select
<1>6. CASE selected[p] = << >> \/ GreaterThan(least[1], selected[p][1])
  <2>1. Raises(p, least[1])
    BY <1>4, <1>5, <1>6 DEF Raises, GreaterThan
  <2> QED
    BY <1>2, <1>3, <1>4, <2>1
<1>7. CASE ~(selected[p] = << >> \/ GreaterThan(least[1], selected[p][1]))
  <2>1. selected[p][1] \in Version
    BY <1>4, <1>7, SelectionTyped
  <2>2. Compare(least[1], selected[p][1]) <= 0
    <3>1. Compare(least[1], selected[p][1]) \in {-1, 0, 1}
      BY <1>4, <2>1, ComparesBySign
    <3> QED
      BY <1>7, <3>1 DEF GreaterThan
  <2>3. Rests(p, least[1])
    BY <1>5, <1>7, <2>2 DEF Rests
  <2> QED
    BY <1>2, <1>3, <1>4, <2>3
<1> QED
  BY <1>6, <1>7

\* The path whose requirements are looked at is selected.
LEMMA ProcessStep ==
  ASSUME IInv, Process
  PROVE  LET p == Head(queue)
         IN  /\ p \in Paths /\ p \notin processed /\ selected[p] # << >>
             /\ Tail(queue) \in Seq(Paths) /\ Range(queue) = {p} \cup Range(Tail(queue))
             /\ <<p, selected[p][1]>> \in DOMAIN world.transitive
             /\ world.transitive[<<p, selected[p][1]>>] \in Seq(DOMAIN Minimum)
<1>1. TypeOK /\ world \in Worlds /\ QueueOK
  BY DEF IInv
<1>2. queue \in Seq(Paths) /\ queue # << >>
  BY <1>1 DEF TypeOK, Process
<1>3. PICK p : p = Head(queue)
  OBVIOUS
<1>4. /\ p \in Paths /\ Tail(queue) \in Seq(Paths)
      /\ Range(queue) = {p} \cup Range(Tail(queue))
  BY <1>2, <1>3, HeadAndTail
<1>5. p \notin processed
  BY <1>3 DEF Process
<1>6. selected[p] # << >>
  BY <1>1, <1>4 DEF QueueOK
<1>7. selected[p][1] \in Range(Available[p])
  BY <1>1, <1>4, <1>6, SelectionTyped
<1>8. /\ <<p, selected[p][1]>> \in DOMAIN world.transitive
      /\ world.transitive[<<p, selected[p][1]>>] \in Seq(DOMAIN Minimum)
  BY <1>1, <1>4, <1>7, WorldTyped
<1> QED
  BY <1>3, <1>4, <1>5, <1>6, <1>8

\* Every step keeps the types, and the world it runs in.
LEMMA TypesStay ==
  ASSUME IInv, [Next]_vars
  PROVE  TypeOK' /\ world' = world
<1>1. /\ initial \in BOOLEAN /\ todo \in Seq(DOMAIN Minimum) /\ DOMAIN selected = Paths
      /\ \A p \in Paths : selected[p] = << >> \/ \E v \in Range(Available[p]) : selected[p] = << v >>
      /\ processed \subseteq Paths /\ queue \in Seq(Paths) /\ errors \subseteq DOMAIN Minimum
      /\ rounds \in [Paths -> Nat]
  BY DEF IInv, TypeOK
<1>2. TypeOK
  BY DEF IInv
<1>3. CASE Report
  <2>1. Head(todo) \in DOMAIN Minimum /\ Tail(todo) \in Seq(DOMAIN Minimum)
    BY <1>2, <1>3, Takes DEF Report
  <2> QED
    BY <1>1, <1>3, <2>1 DEF Report, TypeOK
<1>4. CASE Select
  <2>1. Tail(todo) \in Seq(DOMAIN Minimum)
    BY <1>2, <1>4, Takes DEF Select
  <2>2. todo' = Tail(todo) /\ UNCHANGED <<world, initial, errors, rounds>>
    BY <1>4 DEF Select
  <2>3. PICK v : /\ Minimum[Head(todo)] = << v >> /\ v \in Range(Available[Head(todo).path])
                 /\ v \in Version /\ Head(todo).path \in Paths
                 /\ Raises(Head(todo).path, v) \/ Rests(Head(todo).path, v)
    BY <1>2, <1>4, SelectStep
  <2>4. PICK p \in Paths : p = Head(todo).path
    BY <2>3
  <2>5. CASE Raises(p, v)
    <3>1. Append(queue, p) \in Seq(Paths)
      BY <1>1, AppendAdds
    <3>2. queue' \in Seq(Paths) /\ processed' \subseteq Paths
      BY <1>1, <2>5, <3>1 DEF Raises
    <3>3. /\ DOMAIN selected' = Paths
          /\ \A q \in Paths : \/ selected'[q] = << >>
                              \/ \E w \in Range(Available[q]) : selected'[q] = << w >>
      BY <1>1, <2>3, <2>4, <2>5 DEF Raises
    <3> QED
      BY <1>1, <2>1, <2>2, <3>2, <3>3 DEF TypeOK
  <2>6. CASE Rests(p, v)
    BY <1>1, <2>1, <2>2, <2>6 DEF Rests, TypeOK
  <2> QED
    BY <2>3, <2>4, <2>5, <2>6
<1>5. CASE Skip
  <2>1. Tail(queue) \in Seq(Paths)
    BY <1>1, <1>5, HeadAndTail DEF Skip
  <2> QED
    BY <1>1, <1>5, <2>1 DEF Skip, TypeOK
<1>6. CASE Process
  <2>1. PICK p : p = Head(queue)
    OBVIOUS
  <2>2. /\ p \in Paths /\ Tail(queue) \in Seq(Paths)
        /\ world.transitive[<<p, selected[p][1]>>] \in Seq(DOMAIN Minimum)
    BY <1>6, <2>1, ProcessStep
  <2>3. /\ processed' = processed \cup {p} /\ rounds' = [rounds EXCEPT ![p] = @ + 1]
        /\ todo' = world.transitive[<<p, selected[p][1]>>]
        /\ queue' = Tail(queue) /\ initial' = FALSE /\ UNCHANGED <<world, selected, errors>>
    BY <1>6, <2>1 DEF Process
  <2>4. rounds' \in [Paths -> Nat]
    BY <1>1, <2>2, <2>3
  <2> QED
    BY <1>1, <2>2, <2>3, <2>4 DEF TypeOK
<1>7. CASE UNCHANGED vars
  BY <1>1, <1>7 DEF vars, TypeOK
<1> QED
  BY <1>3, <1>4, <1>5, <1>6, <1>7 DEF Next

\* No path falls, and nothing reported is taken back.
LEMMA Rises ==
  ASSUME IInv, [Next]_vars
  PROVE  /\ errors \subseteq errors'
         /\ \A p \in Paths : selected[p] # << >> =>
              selected'[p] # << >> /\ Compare(selected[p][1], selected'[p][1]) <= 0
<1>1. TypeOK
  BY DEF IInv
<1>2. ASSUME UNCHANGED selected, NEW p \in Paths, selected[p] # << >>
      PROVE  selected'[p] # << >> /\ Compare(selected[p][1], selected'[p][1]) <= 0
  <2>1. Compare(selected[p][1], selected[p][1]) = 0
    BY <1>1, <1>2, SelectionTyped, EqualsItself
  <2> QED
    BY <1>2, <2>1
<1>3. CASE Report
  BY <1>2, <1>3 DEF Report
<1>4. CASE Select
  <2>1. PICK v : /\ v \in Version /\ Head(todo).path \in Paths
                 /\ Raises(Head(todo).path, v) \/ Rests(Head(todo).path, v)
    BY <1>1, <1>4, SelectStep
  <2>2. PICK p \in Paths : p = Head(todo).path
    BY <2>1
  <2>3. errors' = errors
    BY <1>4 DEF Select
  <2>4. CASE Raises(p, v)
    <3>1. DOMAIN selected = Paths
      BY <1>1 DEF TypeOK
    <3>2. selected'[p] = << v >> /\ \A q \in Paths : q # p => selected'[q] = selected[q]
      BY <2>4, <3>1 DEF Raises
    <3>3. ASSUME NEW q \in Paths, selected[q] # << >>
          PROVE  selected'[q] # << >> /\ Compare(selected[q][1], selected'[q][1]) <= 0
      <4>1. selected[q][1] \in Version
        BY <1>1, <3>3, SelectionTyped
      <4>2. CASE q = p
        <5>1. Compare(v, selected[p][1]) > 0
          BY <2>4, <3>3, <4>2 DEF Raises
        <5>2. Compare(selected[p][1], v) \in {-1, 0, 1} /\ Compare(v, selected[p][1]) = -Compare(selected[p][1], v)
          BY <2>1, <4>1, <4>2, ComparesBySign
        <5>3. Compare(selected[p][1], v) <= 0
          BY <5>1, <5>2
        <5>4. << v >> # << >> /\ << v >>[1] = v
          OBVIOUS
        <5> QED
          BY <3>2, <4>2, <5>3, <5>4
      <4>3. CASE q # p
        <5>1. Compare(selected[q][1], selected[q][1]) = 0
          BY <4>1, EqualsItself
        <5> QED
          BY <3>2, <3>3, <4>3, <5>1
      <4> QED
        BY <4>2, <4>3
    <3> QED
      BY <2>3, <3>3
  <2>5. CASE Rests(p, v)
    BY <1>2, <2>3, <2>5 DEF Rests
  <2> QED
    BY <2>1, <2>2, <2>4, <2>5
<1>5. CASE Skip
  BY <1>2, <1>5 DEF Skip
<1>6. CASE Process
  BY <1>2, <1>6 DEF Process
<1>7. CASE UNCHANGED vars
  BY <1>2, <1>7 DEF vars
<1> QED
  BY <1>3, <1>4, <1>5, <1>6, <1>7 DEF Next

\* What is met stays met.
LEMMA MetStays ==
  ASSUME IInv, [Next]_vars, NEW req \in DOMAIN Minimum, Met(req)
  PROVE  Met(req)'
<1>1. TypeOK /\ TypeOK'
  BY TypesStay DEF IInv
<1>2. CASE req \in errors /\ Minimum[req] = << >>
  BY <1>2, Rises DEF Met
<1>3. CASE /\ Minimum[req] # << >> /\ selected[req.path] # << >>
           /\ Compare(Minimum[req][1], selected[req.path][1]) <= 0
  <2>1. req.path \in Paths /\ Minimum[req][1] \in Version
    BY <1>3, RequirementTyped
  <2>2. /\ selected'[req.path] # << >>
        /\ Compare(selected[req.path][1], selected'[req.path][1]) <= 0
    BY <1>3, <2>1, Rises
  <2>3. selected[req.path][1] \in Version
    BY <1>1, <1>3, <2>1, SelectionTyped
  <2>4. selected'[req.path][1] \in Version
    <3>1. PICK v \in Range(Available[req.path]) : selected'[req.path] = << v >>
      BY <1>1, <2>1, <2>2 DEF TypeOK
    <3> QED
      BY <2>1, <3>1, VersionsTyped
  <2>5. Compare(Minimum[req][1], selected'[req.path][1]) <= 0
    BY <1>3, <2>1, <2>2, <2>3, <2>4, ComparesInChains
  <2> QED
    BY <1>3, <2>2, <2>5 DEF Met
<1> QED
  BY <1>2, <1>3 DEF Met

\* A requirement that was taken from the list is met.
LEMMA HeadIsMet ==
  ASSUME IInv, Report \/ Select
  PROVE  /\ \A req \in Range(todo) : Met(req)' \/ req \in Range(todo')
         /\ Head(todo) \in DOMAIN Minimum
         /\ Range(todo) = {Head(todo)} \cup Range(todo')
         /\ initial' = initial
<1>1. TypeOK
  BY DEF IInv
<1>2. /\ todo # << >> /\ todo' = Tail(todo) /\ initial' = initial
      /\ Range(todo) = {Head(todo)} \cup Range(todo') /\ Head(todo) \in DOMAIN Minimum
  BY <1>1, Takes DEF Report, Select
<1>3. PICK req \in DOMAIN Minimum : req = Head(todo)
  BY <1>2
<1>4. Met(req)'
  <2>1. CASE Report
    <3>1. req \in errors' /\ Minimum[req] = << >>
      BY <1>3, <2>1 DEF Report
    <3> QED
      BY <3>1 DEF Met
  <2>2. CASE Select
    <3>1. PICK v : /\ Minimum[req] = << v >> /\ v \in Version /\ req.path \in Paths
                   /\ Raises(req.path, v) \/ Rests(req.path, v)
      BY <1>1, <1>3, <2>2, SelectStep
    <3>2. Minimum[req] # << >> /\ Minimum[req][1] = v
      BY <3>1
    <3>3. CASE Raises(req.path, v)
      <4>1. selected'[req.path] = << v >>
        BY <1>1, <3>1, <3>3 DEF Raises, TypeOK
      <4>2. Compare(v, v) = 0
        BY <3>1, EqualsItself
      <4>3. selected'[req.path] # << >> /\ selected'[req.path][1] = v
        BY <4>1
      <4> QED
        BY <3>2, <4>2, <4>3 DEF Met
    <3>4. CASE Rests(req.path, v)
      BY <3>2, <3>4 DEF Rests, Met
    <3> QED
      BY <3>1, <3>3, <3>4
  <2> QED
    BY <2>1, <2>2
<1> QED
  BY <1>2, <1>3, <1>4

\* Every direct requirement stays met or waiting.
LEMMA DirectStays ==
  ASSUME IInv, [Next]_vars
  PROVE  DirectOK'
<1>1. world' = world /\ TypeOK /\ world \in Worlds /\ DirectOK
  BY TypesStay DEF IInv
<1>2. SUFFICES ASSUME NEW req \in Range(world.direct)
               PROVE  Met(req)' \/ (initial' /\ req \in Range(todo'))
  BY <1>1 DEF DirectOK
<1>3. req \in DOMAIN Minimum
  BY <1>1, <1>2, WorldTyped, RangeTyped
<1>4. CASE Met(req)
  BY <1>3, <1>4, MetStays
<1>5. CASE initial /\ req \in Range(todo)
  <2>1. CASE Report \/ Select
    BY <1>5, <2>1, HeadIsMet
  <2>2. CASE Skip \/ Process
    <3>1. todo = << >>
      BY <2>2 DEF Skip, Process
    <3> QED
      BY <1>5, <3>1, EmptyRange
  <2>3. CASE UNCHANGED vars
    BY <1>5, <2>3 DEF vars
  <2> QED
    BY <2>1, <2>2, <2>3 DEF Next
<1> QED
  BY <1>1, <1>2, <1>4, <1>5 DEF DirectOK

\* So do the requirements of the paths that were looked at: a raised path is
\* forgotten, and the list is empty when the next path is looked at.
LEMMA ProcessedStays ==
  ASSUME IInv, [Next]_vars
  PROVE  ProcessedOK'
<1>1. world' = world /\ TypeOK /\ TypeOK' /\ world \in Worlds /\ ProcessedOK
  BY TypesStay DEF IInv
<1>2. /\ processed \subseteq Paths /\ (initial => processed = {}) /\ DOMAIN selected = Paths
  BY <1>1 DEF TypeOK, ProcessedOK
<1>3. ASSUME NEW p \in processed
      PROVE  /\ p \in Paths /\ selected[p] # << >> /\ selected'[p] # << >>
             /\ \A req \in Range(world.transitive[<<p, selected[p][1]>>]) :
                  req \in DOMAIN Minimum /\ (Met(req)' \/ req \in Range(todo))
  <2>1. p \in Paths /\ selected[p] # << >>
    BY <1>1, <1>2, <1>3 DEF ProcessedOK
  <2>2. selected[p][1] \in Range(Available[p])
    BY <1>1, <2>1, SelectionTyped
  <2>3. Range(world.transitive[<<p, selected[p][1]>>]) \subseteq DOMAIN Minimum
    BY <1>1, <2>1, <2>2, WorldTyped, RangeTyped
  <2>4. ASSUME NEW req \in Range(world.transitive[<<p, selected[p][1]>>])
        PROVE  Met(req)' \/ req \in Range(todo)
    <3>1. req \in DOMAIN Minimum
      BY <2>3, <2>4
    <3>2. Met(req) \/ req \in Range(todo)
      BY <1>1, <1>3, <2>4 DEF ProcessedOK
    <3> QED
      BY <3>1, <3>2, MetStays
  <2> QED
    BY <2>1, <2>3, <2>4, Rises
\* a step that only forgets paths, and keeps the others' versions
<1>4. ASSUME processed' \subseteq processed, initial' => initial,
             \A p \in processed' : selected'[p] = selected[p],
             \A req \in Range(todo) : Met(req)' \/ req \in Range(todo')
      PROVE  ProcessedOK'
  <2>1. initial' => processed' = {}
    BY <1>2, <1>4
  <2>2. ASSUME NEW p \in processed'
        PROVE  /\ selected'[p] # << >>
               /\ \A req \in Range(world'.transitive[<<p, selected'[p][1]>>]) :
                    Met(req)' \/ req \in Range(todo')
    <3>1. p \in processed /\ selected'[p] = selected[p]
      BY <1>4, <2>2
    <3>2. ASSUME NEW req \in Range(world.transitive[<<p, selected[p][1]>>])
          PROVE  Met(req)' \/ req \in Range(todo')
      BY <1>3, <1>4, <3>1, <3>2
    <3> QED
      BY <1>1, <1>3, <3>1, <3>2
  <2> QED
    BY <2>1, <2>2 DEF ProcessedOK
<1>5. CASE Report
  <2>1. processed' = processed /\ selected' = selected /\ initial' = initial
    BY <1>5 DEF Report
  <2>2. \A req \in Range(todo) : Met(req)' \/ req \in Range(todo')
    BY <1>5, HeadIsMet
  <2> QED
    BY <1>4, <2>1, <2>2
<1>6. CASE Select
  <2>1. \A req \in Range(todo) : Met(req)' \/ req \in Range(todo')
    BY <1>6, HeadIsMet
  <2>2. PICK v : /\ Head(todo).path \in Paths
                 /\ Raises(Head(todo).path, v) \/ Rests(Head(todo).path, v)
    BY <1>1, <1>6, SelectStep
  <2>3. PICK p \in Paths : p = Head(todo).path
    BY <2>2
  <2>4. initial' = initial
    BY <1>6 DEF Select
  <2>5. processed' \subseteq processed /\ \A q \in processed' : selected'[q] = selected[q]
    <3>1. CASE Raises(p, v)
      BY <1>2, <3>1 DEF Raises
    <3>2. CASE Rests(p, v)
      BY <3>2 DEF Rests
    <3> QED
      BY <2>2, <2>3, <3>1, <3>2
  <2> QED
    BY <1>4, <2>1, <2>4, <2>5
<1>7. CASE Skip
  <2>1. processed' = processed /\ selected' = selected /\ initial' = FALSE /\ todo' = todo
    BY <1>7 DEF Skip
  <2> QED
    BY <1>4, <2>1
<1>8. CASE Process
  <2>1. PICK p : p = Head(queue)
    OBVIOUS
  <2>2. p \in Paths /\ selected[p] # << >>
    BY <1>8, <2>1, ProcessStep
  <2>3. /\ processed' = processed \cup {p} /\ todo = << >> /\ todo' = world.transitive[<<p, selected[p][1]>>]
        /\ initial' = FALSE /\ selected' = selected
    BY <1>8, <2>1 DEF Process
  <2>4. ASSUME NEW q \in processed'
        PROVE  /\ selected'[q] # << >>
               /\ \A req \in Range(world'.transitive[<<q, selected'[q][1]>>]) :
                    Met(req)' \/ req \in Range(todo')
    <3>1. CASE q = p
      BY <1>1, <2>2, <2>3, <3>1
    <3>2. CASE q # p
      <4>1. q \in processed
        BY <2>3, <2>4, <3>2
      <4>2. Range(todo) = {}
        BY <2>3, EmptyRange
      <4> QED
        BY <1>1, <1>3, <2>3, <4>1, <4>2
    <3> QED
      BY <3>1, <3>2
  <2> QED
    BY <2>3, <2>4 DEF ProcessedOK
<1>9. CASE UNCHANGED vars
  <2>1. processed' = processed /\ selected' = selected /\ initial' = initial /\ todo' = todo
    BY <1>9 DEF vars
  <2> QED
    BY <1>4, <2>1
<1> QED
  BY <1>5, <1>6, <1>7, <1>8, <1>9 DEF Next

\* A selected path stays looked at or in the queue: a first selection and a
\* higher one in the second loop append it; a higher one in the first finds it.
LEMMA QueueStays ==
  ASSUME IInv, [Next]_vars
  PROVE  QueueOK'
<1>1. /\ TypeOK /\ QueueOK /\ queue \in Seq(Paths) /\ DOMAIN selected = Paths
      /\ processed \subseteq Paths /\ (initial => processed = {})
  BY DEF IInv, TypeOK, ProcessedOK
<1>2. /\ \A p \in Paths : selected[p] # << >> => p \in processed \/ p \in Range(queue)
      /\ \A p \in Range(queue) : selected[p] # << >>
  BY <1>1 DEF QueueOK
<1>3. CASE UNCHANGED <<selected, processed, queue>>
  BY <1>2, <1>3 DEF QueueOK
<1>4. CASE Report
  BY <1>3, <1>4 DEF Report
<1>5. CASE Select
  <2>1. PICK v : /\ Head(todo).path \in Paths
                 /\ Raises(Head(todo).path, v) \/ Rests(Head(todo).path, v)
    BY <1>1, <1>5, SelectStep
  <2>2. PICK p \in Paths : p = Head(todo).path
    BY <2>1
  <2>3. CASE Raises(p, v)
    <3>1. /\ selected'[p] = << v >> /\ \A q \in Paths : q # p => selected'[q] = selected[q]
          /\ processed' = processed \ {p}
      BY <1>1, <2>3 DEF Raises
    <3>2. selected'[p] # << >>
      BY <3>1
    <3>3. CASE initial /\ selected[p] # << >>
      <4>1. queue' = queue /\ p \in Range(queue)
        BY <1>1, <1>2, <2>3, <3>3 DEF Raises
      <4>2. \A q \in Range(queue) : q \in Paths
        BY <1>1, RangeTyped
      <4> QED
        BY <1>2, <3>1, <3>2, <4>1, <4>2 DEF QueueOK
    <3>4. CASE ~(initial /\ selected[p] # << >>)
      <4>1. queue' = Append(queue, p)
        BY <2>3, <3>4 DEF Raises
      <4>2. Range(queue') = Range(queue) \cup {p}
        BY <1>1, <4>1, AppendAdds
      <4>3. \A q \in Range(queue) : q \in Paths
        BY <1>1, RangeTyped
      <4> QED
        BY <1>2, <3>1, <3>2, <4>2, <4>3 DEF QueueOK
    <3> QED
      BY <3>3, <3>4
  <2>4. CASE Rests(p, v)
    BY <1>3, <2>4 DEF Rests
  <2> QED
    BY <2>1, <2>2, <2>3, <2>4
<1>6. CASE Skip
  <2>1. PICK p : p = Head(queue)
    OBVIOUS
  <2>2. Range(queue) = {p} \cup Range(queue') /\ p \in processed
    BY <1>1, <1>6, <2>1, HeadAndTail DEF Skip
  <2>3. processed' = processed /\ selected' = selected
    BY <1>6 DEF Skip
  <2> QED
    BY <1>2, <2>2, <2>3 DEF QueueOK
<1>7. CASE Process
  <2>1. PICK p : p = Head(queue)
    OBVIOUS
  <2>2. processed' = processed \cup {p} /\ queue' = Tail(queue) /\ selected' = selected
    BY <1>7, <2>1 DEF Process
  <2>3. Range(queue) = {p} \cup Range(queue')
    BY <1>7, <2>1, <2>2, ProcessStep
  <2> QED
    BY <1>2, <2>2, <2>3 DEF QueueOK
<1>8. CASE UNCHANGED vars
  BY <1>3, <1>8 DEF vars
<1> QED
  BY <1>4, <1>5, <1>6, <1>7, <1>8 DEF Next

\* Requirements come from the world, and selections from requirements.
LEMMA AskedStays ==
  ASSUME IInv, [Next]_vars
  PROVE  AskedOK'
<1>1. /\ TypeOK /\ AskedOK /\ world' = world /\ DOMAIN selected = Paths
  BY TypesStay DEF IInv, TypeOK
<1>2. AllRequirements' = AllRequirements
  BY <1>1 DEF AllRequirements
<1>3. /\ Range(todo) \subseteq AllRequirements
      /\ \A p \in Paths : selected[p] # << >> =>
           \E req \in AllRequirements : req.path = p /\ Minimum[req] = selected[p]
  BY <1>1 DEF AskedOK, EverySelectionIsAskedFor
<1>4. ASSUME Range(todo') \subseteq AllRequirements,
             \A p \in Paths : selected'[p] # << >> =>
               \E req \in AllRequirements : req.path = p /\ Minimum[req] = selected'[p]
      PROVE  AskedOK'
  BY <1>2, <1>4 DEF AskedOK, EverySelectionIsAskedFor
<1>5. CASE Report
  <2>1. Range(todo') \subseteq AllRequirements
    BY <1>3, <1>5, HeadIsMet
  <2>2. selected' = selected
    BY <1>5 DEF Report
  <2> QED
    BY <1>3, <1>4, <2>1, <2>2
<1>6. CASE Select
  <2>1. Range(todo') \subseteq AllRequirements /\ Head(todo) \in AllRequirements
    BY <1>3, <1>6, HeadIsMet
  <2>2. PICK v : /\ Minimum[Head(todo)] = << v >> /\ Head(todo).path \in Paths
                 /\ Raises(Head(todo).path, v) \/ Rests(Head(todo).path, v)
    BY <1>1, <1>6, SelectStep
  <2>3. PICK req \in AllRequirements : req = Head(todo)
    BY <2>1
  <2>4. CASE Raises(req.path, v)
    <3>1. selected' = [selected EXCEPT ![req.path] = << v >>]
      BY <2>4 DEF Raises
    <3>2. ASSUME NEW p \in Paths, selected'[p] # << >>
          PROVE  \E r \in AllRequirements : r.path = p /\ Minimum[r] = selected'[p]
      BY <1>1, <1>3, <2>2, <2>3, <3>1, <3>2
    <3> QED
      BY <1>4, <2>1, <3>2
  <2>5. CASE Rests(req.path, v)
    BY <1>3, <1>4, <2>1, <2>5 DEF Rests
  <2> QED
    BY <2>2, <2>3, <2>4, <2>5
<1>7. CASE Skip
  <2>1. selected' = selected /\ todo' = todo
    BY <1>7 DEF Skip
  <2> QED
    BY <1>3, <1>4, <2>1
<1>8. CASE Process
  <2>1. PICK p : p = Head(queue)
    OBVIOUS
  <2>2. /\ selected' = selected /\ todo' = world.transitive[<<p, selected[p][1]>>]
        /\ <<p, selected[p][1]>> \in DOMAIN world.transitive
    BY <1>8, <2>1, ProcessStep DEF Process
  <2>3. Range(todo') \subseteq AllRequirements
    BY <2>2 DEF AllRequirements
  <2> QED
    BY <1>3, <1>4, <2>2, <2>3
<1>9. CASE UNCHANGED vars
  <2>1. selected' = selected /\ todo' = todo
    BY <1>9 DEF vars
  <2> QED
    BY <1>3, <1>4, <2>1
<1> QED
  BY <1>5, <1>6, <1>7, <1>8, <1>9 DEF Next

\* Below a version there are no more of a path's versions than it has.
LEMMA Below ==
  ASSUME NEW p \in Paths, NEW v \in Version
  PROVE  /\ IsFiniteSet(UpTo(p, v)) /\ Cardinality(UpTo(p, v)) \in Nat
         /\ Cardinality(UpTo(p, v)) <= Len(Available[p])
<1>1. /\ Len(Available[p]) \in Nat /\ DOMAIN Available[p] = 1 .. Len(Available[p])
  BY ResolverAssumption
<1>2. /\ IsFiniteSet(1 .. Len(Available[p]))
      /\ Cardinality(1 .. Len(Available[p])) = Len(Available[p])
  BY <1>1, FS_Interval
<1>3. UpTo(p, v) \subseteq 1 .. Len(Available[p])
  BY <1>1 DEF UpTo
<1> QED
  BY <1>2, <1>3, FS_Subset, FS_CardinalityType

\* A version of a path has itself below it, and more than any lower one.
LEMMA MoreBelow ==
  ASSUME NEW p \in Paths, NEW v \in Version, NEW w \in Range(Available[p])
  PROVE  /\ Cardinality(UpTo(p, w)) > 0
         /\ Compare(w, v) > 0 => Cardinality(UpTo(p, v)) < Cardinality(UpTo(p, w))
<1>1. w \in Version
  BY VersionsTyped
<1>2. PICK i \in DOMAIN Available[p] : Available[p][i] = w
  BY DEF Range
<1>3. i \in UpTo(p, w)
  BY <1>1, <1>2, EqualsItself DEF UpTo
<1>4. IsFiniteSet(UpTo(p, w)) /\ Cardinality(UpTo(p, w)) \in Nat
  BY <1>1, Below
<1>5. /\ IsFiniteSet(UpTo(p, w) \ {i})
      /\ Cardinality(UpTo(p, w) \ {i}) = Cardinality(UpTo(p, w)) - 1
      /\ Cardinality(UpTo(p, w) \ {i}) \in Nat
  BY <1>3, <1>4, FS_RemoveElement, FS_CardinalityType
<1>6. ASSUME Compare(w, v) > 0 PROVE UpTo(p, v) \subseteq UpTo(p, w) \ {i}
  <2>1. SUFFICES ASSUME NEW j \in UpTo(p, v) PROVE j \in UpTo(p, w) /\ j # i
    OBVIOUS
  <2>2. j \in DOMAIN Available[p] /\ Compare(Available[p][j], v) <= 0
    BY <2>1 DEF UpTo
  <2>3. Available[p][j] \in Version
    BY <2>2, VersionsTyped DEF Range
  <2>4. Compare(v, w) <= 0
    <3>1. Compare(w, v) = -Compare(v, w) /\ Compare(v, w) \in {-1, 0, 1}
      BY <1>1, ComparesBySign
    <3> QED
      BY <1>6, <3>1
  <2>5. Compare(Available[p][j], w) <= 0
    BY <1>1, <2>2, <2>3, <2>4, ComparesInChains
  <2>6. j # i
    BY <1>2, <1>6, <2>2, <1>1, ComparesBySign
  <2> QED
    BY <2>2, <2>5, <2>6 DEF UpTo
<1>7. ASSUME Compare(w, v) > 0 PROVE Cardinality(UpTo(p, v)) < Cardinality(UpTo(p, w))
  <2>1. Cardinality(UpTo(p, v)) <= Cardinality(UpTo(p, w) \ {i})
    BY <1>5, <1>6, <1>7, FS_Subset
  <2>2. Cardinality(UpTo(p, v)) \in Nat
    BY Below
  <2> QED
    BY <1>4, <1>5, <2>1, <2>2
<1> QED
  BY <1>4, <1>5, <1>7

\* A path that is looked at again has risen, so it has more versions below it.
LEMMA RoundsStay ==
  ASSUME IInv, [Next]_vars
  PROVE  RoundsOK'
<1>1. /\ TypeOK /\ RoundsOK /\ DOMAIN selected = Paths /\ rounds \in [Paths -> Nat]
      /\ \A p \in processed : selected[p] # << >>
  BY DEF IInv, TypeOK, ProcessedOK
<1> DEFINE Count(p, v) == Cardinality(UpTo(p, v))
<1>2. \A p \in Paths :
        IF selected[p] = << >> THEN rounds[p] = 0
        ELSE IF p \in processed THEN rounds[p] <= Count(p, selected[p][1])
        ELSE rounds[p] < Count(p, selected[p][1])
  BY <1>1 DEF RoundsOK
<1>3. CASE UNCHANGED <<selected, processed, rounds>>
  BY <1>2, <1>3 DEF RoundsOK, UpTo
<1>4. CASE Select
  <2>1. PICK v : /\ v \in Range(Available[Head(todo).path]) /\ v \in Version
                 /\ Head(todo).path \in Paths
                 /\ Raises(Head(todo).path, v) \/ Rests(Head(todo).path, v)
    BY <1>1, <1>4, SelectStep
  <2>2. PICK p \in Paths : p = Head(todo).path
    BY <2>1
  <2>3. rounds' = rounds
    BY <1>4 DEF Select
  <2>4. CASE Raises(p, v)
    <3>1. /\ selected'[p] = << v >> /\ p \notin processed'
          /\ \A q \in Paths : q # p => selected'[q] = selected[q] /\ (q \in processed' <=> q \in processed)
      BY <1>1, <2>4 DEF Raises
    <3>2. rounds[p] < Count(p, v)
      <4>1. CASE selected[p] = << >>
        <5>1. rounds[p] = 0
          BY <1>2, <4>1
        <5> QED
          BY <2>1, <2>2, <5>1, MoreBelow
      <4>2. CASE selected[p] # << >>
        <5>1. Compare(v, selected[p][1]) > 0 /\ selected[p][1] \in Version
          BY <1>1, <2>4, <4>2, SelectionTyped DEF Raises
        <5>2. Count(p, selected[p][1]) < Count(p, v)
          BY <2>1, <2>2, <5>1, MoreBelow
        <5>3. rounds[p] <= Count(p, selected[p][1])
          <6>1. Count(p, selected[p][1]) \in Nat /\ rounds[p] \in Nat
            BY <1>1, <5>1, Below
          <6> QED
            BY <1>2, <4>2, <6>1
        <5>4. Count(p, selected[p][1]) \in Nat /\ Count(p, v) \in Nat /\ rounds[p] \in Nat
          BY <1>1, <2>1, <5>1, Below
        <5> QED
          BY <5>2, <5>3, <5>4
      <4> QED
        BY <4>1, <4>2
    <3>3. ASSUME NEW q \in Paths
          PROVE  IF selected'[q] = << >> THEN rounds'[q] = 0
                 ELSE IF q \in processed' THEN rounds'[q] <= Count(q, selected'[q][1])
                 ELSE rounds'[q] < Count(q, selected'[q][1])
      <4>1. CASE q = p
        BY <2>3, <3>1, <3>2, <4>1
      <4>2. CASE q # p
        BY <1>2, <2>3, <3>1, <4>2
      <4> QED
        BY <4>1, <4>2
    <3> QED
      BY <3>3 DEF RoundsOK, UpTo
  <2>5. CASE Rests(p, v)
    BY <1>3, <2>3, <2>5 DEF Rests
  <2> QED
    BY <2>1, <2>2, <2>4, <2>5
<1>5. CASE Process
  <2>1. PICK p : p = Head(queue)
    OBVIOUS
  <2>2. p \in Paths /\ p \notin processed /\ selected[p] # << >>
    BY <1>5, <2>1, ProcessStep
  <2>3. /\ processed' = processed \cup {p} /\ rounds' = [rounds EXCEPT ![p] = @ + 1]
        /\ selected' = selected
    BY <1>5, <2>1 DEF Process
  <2>4. rounds[p] \in Nat /\ Count(p, selected[p][1]) \in Nat
    BY <1>1, <2>2, SelectionTyped, Below
  <2>5. rounds[p] + 1 <= Count(p, selected[p][1])
    BY <1>2, <2>2, <2>4
  <2>6. ASSUME NEW q \in Paths
        PROVE  IF selected'[q] = << >> THEN rounds'[q] = 0
               ELSE IF q \in processed' THEN rounds'[q] <= Count(q, selected'[q][1])
               ELSE rounds'[q] < Count(q, selected'[q][1])
    <3>1. CASE q = p
      BY <1>1, <2>2, <2>3, <2>5, <3>1
    <3>2. CASE q # p
      BY <1>1, <1>2, <2>3, <3>2
    <3> QED
      BY <3>1, <3>2
  <2> QED
    BY <2>6 DEF RoundsOK, UpTo
<1>6. CASE Report \/ Skip \/ UNCHANGED vars
  BY <1>3, <1>6 DEF Report, Skip, vars
<1> QED
  BY <1>4, <1>5, <1>6 DEF Next

-----------------------------------------------------------------------------
(* The theorems. *)

\* The invariant holds of every resolution.
THEOREM InvariantHolds == Spec => []IInv
<1>1. Init => IInv
  <2>1. SUFFICES ASSUME Init PROVE IInv
    OBVIOUS
  <2>2. world \in Worlds /\ todo = world.direct /\ world.direct \in Seq(DOMAIN Minimum)
    BY <2>1, WorldTyped DEF Init
  <2>3. << >> \in Seq(Paths)
    OBVIOUS
  <2>4. TypeOK
    BY <2>1, <2>2, <2>3 DEF Init, TypeOK
  <2>5. DirectOK
    BY <2>1 DEF Init, DirectOK
  <2>6. ProcessedOK /\ QueueOK
    BY <2>1, EmptyRange DEF Init, ProcessedOK, QueueOK
  <2>7. AskedOK
    BY <2>1 DEF Init, AskedOK, AllRequirements, EverySelectionIsAskedFor
  <2>8. RoundsOK
    BY <2>1 DEF Init, RoundsOK
  <2> QED
    BY <2>2, <2>4, <2>5, <2>6, <2>7, <2>8 DEF IInv
<1>2. IInv /\ [Next]_vars => IInv'
  <2>1. SUFFICES ASSUME IInv, [Next]_vars PROVE IInv'
    OBVIOUS
  <2>2. TypeOK' /\ (world \in Worlds)'
    BY <2>1, TypesStay DEF IInv
  <2> QED
    BY <2>1, <2>2, DirectStays, ProcessedStays, QueueStays, AskedStays, RoundsStay DEF IInv
<1> QED
  BY <1>1, <1>2, PTL DEF Spec

\* When the resolver ends, whatever the project or a selected version requires
\* is selected high enough or was reported, nothing is selected that nobody
\* asks for, and no path comes back more often than it has versions, however
\* the requirements refer to each other (resolver.go: Resolver.Resolve).
THEOREM ResolutionIsRight == Spec => []SelectionIsRight
<1>1. IInv => SelectionIsRight
  <2>1. SUFFICES ASSUME IInv PROVE SelectionIsRight
    OBVIOUS
  <2>2. TypeOK /\ world \in Worlds /\ DirectOK /\ ProcessedOK /\ QueueOK /\ AskedOK /\ RoundsOK
    BY <2>1 DEF IInv
  <2>3. EveryRequirementIsMet
    <3>1. SUFFICES ASSUME Finished
                   PROVE  /\ \A req \in Range(world.direct) : Met(req)
                          /\ \A p \in Paths : selected[p] # << >> =>
                               \A req \in Range(world.transitive[<<p, selected[p][1]>>]) : Met(req)
      BY DEF EveryRequirementIsMet
    <3>2. Range(todo) = {} /\ Range(queue) = {}
      BY <3>1, EmptyRange DEF Finished
    <3>3. \A req \in Range(world.direct) : Met(req)
      BY <2>2, <3>2 DEF DirectOK
    <3>4. \A p \in Paths : selected[p] # << >> => p \in processed
      BY <2>2, <3>2 DEF QueueOK
    <3> QED
      BY <2>2, <3>2, <3>3, <3>4 DEF ProcessedOK
  <2>4. ComesBackOnlyHigher
    <3>1. SUFFICES ASSUME NEW p \in Paths PROVE rounds[p] <= Len(Available[p])
      BY DEF ComesBackOnlyHigher
    <3>2. rounds[p] \in Nat /\ Len(Available[p]) \in Nat
      BY <2>2, ResolverAssumption DEF TypeOK
    <3>3. CASE selected[p] = << >>
      BY <2>2, <3>2, <3>3 DEF RoundsOK
    <3>4. CASE selected[p] # << >>
      <4>1. selected[p][1] \in Version
        BY <2>2, <3>4, SelectionTyped
      <4>2. /\ Cardinality(UpTo(p, selected[p][1])) \in Nat
            /\ Cardinality(UpTo(p, selected[p][1])) <= Len(Available[p])
        BY <4>1, Below
      <4>3. rounds[p] <= Cardinality(UpTo(p, selected[p][1]))
        BY <2>2, <3>2, <3>4, <4>2 DEF RoundsOK
      <4> QED
        BY <3>2, <4>2, <4>3
    <3> QED
      BY <3>3, <3>4
  <2> QED
    BY <2>2, <2>3, <2>4 DEF AskedOK, SelectionIsRight
<1> QED
  BY <1>1, InvariantHolds, PTL

-----------------------------------------------------------------------------
(* ModuleGraph: the inductive invariant. *)

Known == visited \cup {RootKey}

\* Every call under way is for something known, with requirements of it to do.
FramesOK ==
  \A i \in 1 .. Len(stack) : \E k \in Known :
    k[1] = stack[i].path /\ Range(stack[i].todo) \subseteq Range(requires[k])
\* Every requirement of something known has its edge, or is still to do.
EdgesOK ==
  \A k \in Known : \A r \in Range(requires[k]) :
    \/ r \in visited /\ r[1] \in Range(children[k[1]])
    \/ \E i \in 1 .. Len(stack) : stack[i].path = k[1] /\ r \in Range(stack[i].todo)
\* A node has the greatest version visited.
VersionsOK ==
  \A p \in Modules :
    \/ version[p] = 0 /\ \A k \in visited : k[1] # p
    \/ <<p, version[p]>> \in visited /\ \A k \in visited : k[1] = p => k[2] <= version[p]
\* Every edge is a requirement of something known, and so is what is direct.
EdgesAskedOK ==
  /\ \A p \in Modules : \A q \in Range(children[p]) :
       \E k \in Known : k[1] = p /\ \E r \in Range(requires[k]) : r[1] = q
  /\ direct \subseteq Range(children[Root])
\* Only what is required is visited.
VisitedOK == \A keys \in SUBSET Keys : Closed(keys) => visited \subseteq keys
BuildOK == /\ FramesOK /\ EdgesOK /\ VersionsOK /\ EdgesAskedOK /\ VisitedOK
           /\ done = {} /\ order = << >>

\* The edges lead to nodes, and every node is reached from the root by edges.
Follows(ps) == \A p \in ps : Range(children[p]) \subseteq ps
ReachedOK ==
  /\ \A p \in Modules : Range(children[p]) \subseteq Nodes
  /\ \A ps \in SUBSET Modules : Root \in ps /\ Follows(ps) => Nodes \subseteq ps

\* A walk along the edges, which has left the paths in left: the calls are a
\* path without repetition, and what the edges of a call lead to is still to
\* do, was left, or is the next call.
WalkOK(calls, left) ==
  /\ \A i \in 1 .. Len(calls) : Range(calls[i].todo) \subseteq Range(children[calls[i].path])
  /\ \A i \in 2 .. Len(calls) : calls[i].path \in Range(children[calls[i - 1].path])
  /\ \A i \in 1 .. Len(calls) : \A q \in Range(children[calls[i].path]) :
       \/ q \in Range(calls[i].todo) \cup left
       \/ i < Len(calls) /\ q = calls[i + 1].path
  /\ \A i, j \in 1 .. Len(calls) : calls[i].path = calls[j].path => i = j
  /\ \A i \in 1 .. Len(calls) : calls[i].path \in Nodes \ left
  /\ left \subseteq Nodes
  /\ Root \in left \/ \E i \in 1 .. Len(calls) : calls[i].path = Root
  /\ Follows(left)
\* Every set of paths has one whose edges all leave the set.
Acyclic(left) ==
  \A ps \in SUBSET left : ps # {} => \E p \in ps : Range(children[p]) \cap ps = {}
OrderOK ==
  /\ \A i, j \in 1 .. Len(order) : order[i] = order[j] => i = j
  /\ \A i \in 1 .. Len(order) : \A q \in Range(children[order[i]]) :
       \E j \in 1 .. (i - 1) : order[j] = q

GraphIInv ==
  /\ GraphTypeOK /\ ReachedOK
  /\ phase = "build" => BuildOK
  /\ NodesHoldTheGreatest /\ EdgesAreTheRequirements
  /\ phase = "detect" => WalkOK(stack, done) /\ Acyclic(done) /\ order = << >>
  /\ phase = "cycle" => CycleVerdict
  /\ phase \in {"sort", "done"} => Acyclic(Nodes)
  /\ phase = "sort" => /\ WalkOK(stack, Range(order)) /\ OrderOK
                       /\ visited = OnStack \cup Range(order)
  /\ phase = "done" => Range(order) = Nodes /\ OrderOK

-----------------------------------------------------------------------------
(* The calls under way. *)

LEMMA Stacked ==
  ASSUME NEW T, stack \in Seq(Frames(T)), stack # << >>
  PROVE  /\ Len(stack) \in Nat /\ Len(stack) > 0 /\ DOMAIN stack = 1 .. Len(stack)
         /\ Top \in Frames(T) /\ Top.path \in Modules /\ Top.todo \in Seq(T)
         /\ \A i \in 1 .. Len(stack) :
              stack[i] \in Frames(T) /\ stack[i].path \in Modules /\ stack[i].todo \in Seq(T)
<1>1. Len(stack) \in Nat /\ Len(stack) > 0 /\ DOMAIN stack = 1 .. Len(stack)
  OBVIOUS
<1>2. \A i \in 1 .. Len(stack) : stack[i] \in Frames(T)
  OBVIOUS
<1>3. \A f \in Frames(T) : f.path \in Modules /\ f.todo \in Seq(T)
  BY DEF Frames
<1>4. Len(stack) \in 1 .. Len(stack)
  BY <1>1
<1> QED
  BY <1>1, <1>2, <1>3, <1>4 DEF Top

\* A call takes the next thing it has to do.
LEMMA Taking ==
  ASSUME NEW T, stack \in Seq(Frames(T)), stack # << >>, Top.todo # << >>
  PROVE  /\ Head(Top.todo) \in T
         /\ Took \in Seq(Frames(T)) /\ Len(Took) = Len(stack)
         /\ \A i \in 1 .. Len(stack) : Took[i].path = stack[i].path
         /\ \A i \in 1 .. (Len(stack) - 1) : Took[i].todo = stack[i].todo
         /\ Range(stack[Len(stack)].todo) = {Head(Top.todo)} \cup Range(Took[Len(stack)].todo)
<1>1. PICK n \in Nat : n = Len(stack) /\ n > 0 /\ DOMAIN stack = 1 .. n
  BY Stacked
<1>2. PICK top \in Frames(T) : top = Top /\ top.path \in Modules /\ top.todo \in Seq(T)
  BY Stacked
<1>3. /\ Head(top.todo) \in T /\ Tail(top.todo) \in Seq(T)
      /\ Range(top.todo) = {Head(top.todo)} \cup Range(Tail(top.todo))
  BY <1>2, HeadAndTail
<1>4. PICK after : after = [top EXCEPT !.todo = Tail(top.todo)]
  OBVIOUS
<1>5. after \in Frames(T) /\ after.path = top.path /\ after.todo = Tail(top.todo)
  BY <1>2, <1>3, <1>4 DEF Frames
<1>6. top = stack[n]
  BY <1>1, <1>2 DEF Top
<1>7. Took = [stack EXCEPT ![n] = after]
  BY <1>1, <1>4, <1>6 DEF Took
<1>8. /\ Took \in Seq(Frames(T)) /\ Len(Took) = n /\ Took[n] = after
      /\ \A i \in 1 .. (n - 1) : Took[i] = stack[i]
  BY <1>1, <1>5, <1>7
<1>9. \A i \in 1 .. n : i = n \/ i \in 1 .. (n - 1)
  BY <1>1
<1>10. \A i \in 1 .. n : Took[i].path = stack[i].path
  BY <1>5, <1>6, <1>8, <1>9
<1> QED
  BY <1>1, <1>2, <1>3, <1>5, <1>6, <1>8, <1>10

\* A call is made.
LEMMA Pushing ==
  ASSUME NEW T, NEW calls \in Seq(Frames(T)), NEW p \in Modules, NEW tasks \in Seq(T)
  PROVE  LET more == Append(calls, Frame(p, tasks))
         IN  /\ Len(calls) \in Nat
             /\ more \in Seq(Frames(T)) /\ Len(more) = Len(calls) + 1
             /\ \A i \in 1 .. Len(calls) : more[i] = calls[i]
             /\ more[Len(calls) + 1].path = p /\ more[Len(calls) + 1].todo = tasks
<1>1. Frame(p, tasks) \in Frames(T) /\ Frame(p, tasks).path = p /\ Frame(p, tasks).todo = tasks
  BY DEF Frame, Frames
<1> HIDE DEF Frame
<1> QED
  BY <1>1

\* A call returns.
LEMMA Popping ==
  ASSUME NEW T, stack \in Seq(Frames(T)), stack # << >>
  PROVE  /\ Pop \in Seq(Frames(T)) /\ Len(Pop) = Len(stack) - 1
         /\ \A i \in 1 .. (Len(stack) - 1) : Pop[i] = stack[i]
<1>1. Len(stack) \in Nat /\ Len(stack) > 0
  OBVIOUS
<1>2. Len(stack) - 1 \in Nat /\ 1 .. (Len(stack) - 1) \subseteq 1 .. Len(stack)
  BY <1>1
<1>3. PICK n \in Nat : n = Len(stack) - 1
  BY <1>2
<1>4. /\ SubSeq(stack, 1, n) \in Seq(Frames(T)) /\ Len(SubSeq(stack, 1, n)) = n
      /\ \A i \in 1 .. n : SubSeq(stack, 1, n)[i] = stack[i]
  BY <1>1, <1>2, <1>3
<1> QED
  BY <1>3, <1>4 DEF Pop

LEMMA OnStackIs ==
  ASSUME NEW T, stack \in Seq(Frames(T))
  PROVE  OnStack = {stack[i].path : i \in 1 .. Len(stack)} /\ OnStack \subseteq Modules
<1>1. DOMAIN stack = 1 .. Len(stack) /\ \A i \in 1 .. Len(stack) : stack[i] \in Frames(T)
  OBVIOUS
<1>2. \A f \in Frames(T) : f.path \in Modules
  BY DEF Frames
<1> QED
  BY <1>1, <1>2 DEF OnStack

\* An edge is added.
LEMMA AddsEdge ==
  ASSUME NEW p \in Modules, NEW q \in Modules, children \in [Modules -> Seq(Modules)],
         children' = [children EXCEPT ![p] = Append(@, q)]
  PROVE  /\ children' \in [Modules -> Seq(Modules)]
         /\ \A t \in Modules : t # p => children'[t] = children[t]
         /\ Range(children'[p]) = Range(children[p]) \cup {q}
<1>1. children[p] \in Seq(Modules)
  OBVIOUS
<1>2. PICK more : more = Append(children[p], q)
  OBVIOUS
<1>4. more \in Seq(Modules) /\ Range(more) = Range(children[p]) \cup {q}
  BY <1>1, <1>2, AppendAdds
<1>3. children' = [children EXCEPT ![p] = more]
  BY <1>2
<1> QED
  BY <1>3, <1>4

-----------------------------------------------------------------------------
(* Building the graph. *)

\* What is known, its requirements, and the requirement that is processed.
LEMMA RequiresTyped ==
  ASSUME GraphTypeOK, phase = "build"
  PROVE  /\ \A k \in Known : requires[k] \in Seq(Keys) /\ k[1] \in Modules
         /\ \A k \in Keys : k[1] \in Modules /\ k[2] \in Nat /\ k[2] > 0 /\ k = <<k[1], k[2]>>
                            /\ requires[k] \in Seq(Keys)
<1>1. \A k \in Keys : k[1] \in Modules /\ k[2] \in Nat /\ k[2] > 0 /\ k = <<k[1], k[2]>>
  BY GraphAssumption DEF Keys
<1>2. visited \subseteq Keys /\ RootKey[1] \in Modules
  BY GraphAssumption DEF GraphTypeOK, RootKey
<1>3. \A k \in Keys \cup {RootKey} : requires[k] \in Seq(Keys)
  BY DEF GraphTypeOK
<1> QED
  BY <1>1, <1>2, <1>3 DEF Known

\* What is known has a node.
LEMMA KnownAreNodes ==
  ASSUME GraphTypeOK, phase = "build", BuildOK
  PROVE  /\ \A k \in Known : k[1] \in Nodes
         /\ \A i \in 1 .. Len(stack) : stack[i].path \in Nodes
<1>1. ASSUME NEW k \in Known PROVE k[1] \in Nodes
  <2>1. CASE k = RootKey
    BY <2>1, GraphAssumption DEF RootKey, Nodes
  <2>2. CASE k \in visited
    <3>1. k[1] \in Modules /\ version[k[1]] \in Nat /\ <<k[1], version[k[1]]>> \in visited
      BY <2>2, RequiresTyped DEF Known, BuildOK, VersionsOK, GraphTypeOK
    <3>2. <<k[1], version[k[1]]>> \in Keys
      BY <3>1 DEF GraphTypeOK
    <3>3. version[k[1]] > 0
      BY <3>2, RequiresTyped
    <3> QED
      BY <3>1, <3>3 DEF Nodes
  <2> QED
    BY <2>1, <2>2 DEF Known
<1>2. ASSUME NEW i \in 1 .. Len(stack) PROVE stack[i].path \in Nodes
  BY <1>1 DEF BuildOK, FramesOK
<1> QED
  BY <1>1, <1>2

\* One requirement of the innermost call is processed.
ProcessesAt(req, n) ==
  /\ n \in Nat /\ n > 0 /\ n = Len(stack) /\ req \in Keys
  /\ \E k \in Known : k[1] = stack[n].path /\ req \in Range(requires[k])
  /\ stack[n].path \in Modules
  /\ Range(stack[n].todo) = {req} \cup Range(stack'[n].todo)
  /\ \A i \in 1 .. n : stack'[i].path = stack[i].path
  /\ \A i \in 1 .. n : Range(stack'[i].todo) \subseteq Range(stack[i].todo)
  /\ \A i \in 1 .. n : i # n => stack'[i].todo = stack[i].todo
  /\ children' \in [Modules -> Seq(Modules)]
  /\ \A t \in Modules : t # stack[n].path => children'[t] = children[t]
  /\ Range(children'[stack[n].path]) = Range(children[stack[n].path]) \cup {req[1]}
  /\ stack' \in Seq(Frames(Keys))
Revisits(req, n) ==
  req \in visited /\ Len(stack') = n /\ UNCHANGED <<visited, version, direct>>
Visits(req, n) ==
  /\ req \notin visited /\ visited' = visited \cup {req}
  /\ version' = [version EXCEPT ![req[1]] = IF req[2] > @ THEN req[2] ELSE @]
  /\ direct' = IF stack[n].path = Root THEN direct \cup {req[1]} ELSE direct
  /\ Len(stack') = n + 1
  /\ stack'[n + 1].path = req[1] /\ stack'[n + 1].todo = requires[req]

\* It was visited before, or it is visited now.
LEMMA RequireStep ==
  ASSUME GraphTypeOK, BuildOK, ProcessRequire
  PROVE  /\ UNCHANGED <<requires, phase, done, order, cycle>> /\ phase = "build"
         /\ \E n \in Nat, req \in Keys : ProcessesAt(req, n) /\ (Revisits(req, n) \/ Visits(req, n))
<1>0. phase = "build" /\ stack # << >> /\ Top.todo # << >>
  BY DEF ProcessRequire
<1>1. stack \in Seq(Frames(Keys))
  BY <1>0 DEF GraphTypeOK
<1>2. PICK n \in Nat : n = Len(stack) /\ n > 0 /\ Top = stack[n] /\ stack[n].path \in Modules
  BY <1>0, <1>1, Stacked DEF Top
<1>3. PICK req \in Keys : req = Head(Top.todo)
  BY <1>0, <1>1, Taking
<1>4. PICK took \in Seq(Frames(Keys)) :
        /\ took = Took /\ Len(took) = n
        /\ \A i \in 1 .. n : took[i].path = stack[i].path
        /\ \A i \in 1 .. (n - 1) : took[i].todo = stack[i].todo
        /\ Range(stack[n].todo) = {req} \cup Range(took[n].todo)
  BY <1>0, <1>1, <1>2, <1>3, Taking
<1>5. /\ children' = [children EXCEPT ![stack[n].path] = Append(@, req[1])]
      /\ UNCHANGED <<requires, phase, done, order, cycle>>
      /\ IF req \in visited
           THEN stack' = took /\ UNCHANGED <<visited, version, direct>>
           ELSE /\ visited' = visited \cup {req}
                /\ version' = [version EXCEPT ![req[1]] = IF req[2] > @ THEN req[2] ELSE @]
                /\ direct' = IF stack[n].path = Root THEN direct \cup {req[1]} ELSE direct
                /\ stack' = Append(took, Frame(req[1], requires[req]))
  BY <1>2, <1>3, <1>4 DEF ProcessRequire
<1>6. /\ req[1] \in Modules /\ requires[req] \in Seq(Keys)
      /\ children \in [Modules -> Seq(Modules)]
  BY <1>0, RequiresTyped DEF GraphTypeOK
<1>7. /\ children' \in [Modules -> Seq(Modules)]
      /\ \A t \in Modules : t # stack[n].path => children'[t] = children[t]
      /\ Range(children'[stack[n].path]) = Range(children[stack[n].path]) \cup {req[1]}
  BY <1>2, <1>5, <1>6, AddsEdge
<1>8. \E k \in Known : k[1] = stack[n].path /\ req \in Range(requires[k])
  <2>1. n \in 1 .. Len(stack) /\ req \in Range(stack[n].todo)
    BY <1>2, <1>4
  <2> QED
    BY <2>1 DEF BuildOK, FramesOK
<1>9. \A i \in 1 .. n : i = n \/ i \in 1 .. (n - 1)
  BY <1>2
<1>10. \A i \in 1 .. n : Range(took[i].todo) \subseteq Range(stack[i].todo)
  BY <1>4, <1>9
<1>11. CASE req \in visited
  <2>1. stack' = took /\ UNCHANGED <<visited, version, direct>>
    BY <1>5, <1>11
  <2>2. ProcessesAt(req, n)
    BY <1>2, <1>4, <1>7, <1>8, <1>9, <1>10, <2>1 DEF ProcessesAt
  <2>3. Revisits(req, n)
    BY <1>4, <1>11, <2>1 DEF Revisits
  <2> QED
    BY <1>0, <1>5, <2>2, <2>3
<1>12. CASE req \notin visited
  <2>1. PICK more \in Seq(Frames(Keys)) :
          /\ more = Append(took, Frame(req[1], requires[req])) /\ Len(more) = n + 1
          /\ \A i \in 1 .. n : more[i] = took[i]
          /\ more[n + 1].path = req[1] /\ more[n + 1].todo = requires[req]
    <3>1. PICK p \in Modules, tasks \in Seq(Keys) : p = req[1] /\ tasks = requires[req]
      BY <1>6
    <3>2. PICK more : more = Append(took, Frame(p, tasks))
      OBVIOUS
    <3>3. /\ more \in Seq(Frames(Keys)) /\ Len(more) = n + 1
          /\ \A i \in 1 .. n : more[i] = took[i]
          /\ more[n + 1].path = p /\ more[n + 1].todo = tasks
      BY <1>4, <3>2, Pushing
    <3> QED
      BY <3>1, <3>2, <3>3
  <2>2. stack' = more
    BY <1>5, <1>12, <2>1
  <2>3. n \in 1 .. n
    BY <1>2
  <2>4. ProcessesAt(req, n)
    BY <1>2, <1>4, <1>7, <1>8, <1>9, <1>10, <2>1, <2>2, <2>3 DEF ProcessesAt
  <2>5. Visits(req, n)
    BY <1>5, <1>12, <2>1, <2>2 DEF Visits
  <2> QED
    BY <1>0, <1>5, <2>4, <2>5
<1> QED
  BY <1>11, <1>12

\* The types stay.
LEMMA VisitTypes ==
  ASSUME GraphTypeOK, phase = "build", NEW n \in Nat, NEW req \in Keys, ProcessesAt(req, n),
         Revisits(req, n) \/ Visits(req, n), UNCHANGED <<requires, phase, done, order, cycle>>
  PROVE  GraphTypeOK'
<1>1. req[1] \in Modules /\ req[2] \in 0 .. MaxVersion
  BY GraphAssumption DEF Keys
<1>2. version' \in [Modules -> 0 .. MaxVersion] /\ direct' \subseteq Modules /\ visited' \subseteq Keys
  <2>1. /\ version \in [Modules -> 0 .. MaxVersion] /\ direct \subseteq Modules
        /\ visited \subseteq Keys
    BY DEF GraphTypeOK
  <2>2. CASE Revisits(req, n)
    BY <2>1, <2>2 DEF Revisits
  <2>3. CASE Visits(req, n)
    BY <1>1, <2>1, <2>3 DEF Visits
  <2> QED
    BY <2>2, <2>3
<1>3. children' \in [Modules -> Seq(Modules)] /\ stack' \in Seq(Frames(Keys))
  BY DEF ProcessesAt
<1>4. /\ requires' \in [Keys \cup {RootKey} -> Seq(Keys)] /\ phase' = "build"
      /\ done' \subseteq Modules /\ order' \in Seq(Modules) /\ cycle' \in Seq(Modules)
  BY DEF GraphTypeOK
<1> QED
  BY <1>2, <1>3, <1>4 DEF GraphTypeOK

\* The calls are for something known, with requirements of it to do.
LEMMA FramesStay ==
  ASSUME GraphTypeOK, phase = "build", BuildOK, NEW n \in Nat, NEW req \in Keys, ProcessesAt(req, n),
         Revisits(req, n) \/ Visits(req, n), UNCHANGED requires
  PROVE  FramesOK'
<1>1. Known \subseteq Known'
  BY DEF Known, Revisits, Visits
<1>2. ASSUME NEW i \in 1 .. n
      PROVE  \E k \in Known' : k[1] = stack'[i].path /\ Range(stack'[i].todo) \subseteq Range(requires'[k])
  <2>1. PICK k \in Known : k[1] = stack[i].path /\ Range(stack[i].todo) \subseteq Range(requires[k])
    BY <1>2 DEF BuildOK, FramesOK, ProcessesAt
  <2>2. stack'[i].path = stack[i].path /\ Range(stack'[i].todo) \subseteq Range(stack[i].todo)
    BY <1>2 DEF ProcessesAt
  <2> QED
    BY <1>1, <2>1, <2>2
<1>3. CASE Revisits(req, n)
  <2>1. Len(stack') = n
    BY <1>3 DEF Revisits
  <2> QED
    BY <1>2, <2>1 DEF FramesOK
<1>4. CASE Visits(req, n)
  <2>1. /\ Len(stack') = n + 1 /\ req \in Known'
        /\ stack'[n + 1].path = req[1] /\ stack'[n + 1].todo = requires[req]
    BY <1>4 DEF Visits, Known
  <2>2. \A i \in 1 .. (n + 1) : i \in 1 .. n \/ i = n + 1
    OBVIOUS
  <2> QED
    BY <1>2, <2>1, <2>2 DEF FramesOK
<1> QED
  BY <1>3, <1>4

\* The requirement that is processed gets its edge, the others stay to do.
LEMMA EdgesStay ==
  ASSUME GraphTypeOK, phase = "build", BuildOK, NEW n \in Nat, NEW req \in Keys, ProcessesAt(req, n),
         Revisits(req, n) \/ Visits(req, n), UNCHANGED requires
  PROVE  EdgesOK'
<1>1. visited \subseteq visited' /\ req \in visited' /\ n <= Len(stack') /\ Len(stack') \in Nat
  BY DEF Revisits, Visits
<1>2. ASSUME NEW t \in Modules PROVE Range(children[t]) \subseteq Range(children'[t])
  BY DEF ProcessesAt
<1>3. ASSUME NEW k \in Known, NEW r \in Range(requires[k])
      PROVE  \/ r \in visited' /\ r[1] \in Range(children'[k[1]])
             \/ \E i \in 1 .. Len(stack') : stack'[i].path = k[1] /\ r \in Range(stack'[i].todo)
  <2>1. CASE r \in visited /\ r[1] \in Range(children[k[1]])
    <3>1. k[1] \in Modules
      BY RequiresTyped
    <3> QED
      BY <1>1, <1>2, <2>1, <3>1
  <2>2. ASSUME NEW i \in 1 .. Len(stack), stack[i].path = k[1], r \in Range(stack[i].todo)
        PROVE  \/ r \in visited' /\ r[1] \in Range(children'[k[1]])
               \/ \E j \in 1 .. Len(stack') : stack'[j].path = k[1] /\ r \in Range(stack'[j].todo)
    <3>1. i \in 1 .. n /\ i \in 1 .. Len(stack') /\ stack'[i].path = k[1]
      BY <1>1, <2>2 DEF ProcessesAt
    <3>2. CASE r \in Range(stack'[i].todo)
      BY <3>1, <3>2
    <3>3. CASE r \notin Range(stack'[i].todo)
      <4>1. i = n
        BY <2>2, <3>1, <3>3 DEF ProcessesAt
      <4>2. r = req /\ k[1] = stack[n].path
        BY <2>2, <3>3, <4>1 DEF ProcessesAt
      <4>3. req[1] \in Range(children'[stack[n].path])
        BY DEF ProcessesAt
      <4> QED
        BY <1>1, <4>2, <4>3
    <3> QED
      BY <3>2, <3>3
  <2> QED
    BY <2>1, <2>2 DEF BuildOK, EdgesOK
<1>4. ASSUME NEW r \in Range(requires[req]), Visits(req, n)
      PROVE  \E i \in 1 .. Len(stack') : stack'[i].path = req[1] /\ r \in Range(stack'[i].todo)
  <2>1. n + 1 \in 1 .. Len(stack')
    BY <1>4 DEF Visits
  <2> QED
    BY <1>4, <2>1 DEF Visits
<1>5. \A k \in Known' : k \in Known \/ (k = req /\ Visits(req, n))
  BY DEF Known, Revisits, Visits
<1> QED
  BY <1>3, <1>4, <1>5 DEF EdgesOK

\* A node keeps the greatest version.
LEMMA VersionsStay ==
  ASSUME GraphTypeOK, phase = "build", BuildOK, NEW n \in Nat, NEW req \in Keys, ProcessesAt(req, n),
         Revisits(req, n) \/ Visits(req, n)
  PROVE  VersionsOK'
<1>1. VersionsOK
  BY DEF BuildOK
<1>2. CASE Revisits(req, n)
  BY <1>1, <1>2 DEF Revisits, VersionsOK
<1>3. CASE Visits(req, n)
  <2>1. PICK q \in Modules, v \in Nat : q = req[1] /\ v = req[2] /\ v > 0 /\ req = <<q, v>>
    BY RequiresTyped
  <2>2. visited' = visited \cup {req} /\ version' = [version EXCEPT ![q] = IF v > @ THEN v ELSE @]
    BY <1>3, <2>1 DEF Visits
  <2>3. /\ version \in [Modules -> 0 .. MaxVersion] /\ \A p \in Modules : version[p] \in Nat
        /\ visited \subseteq Keys
    BY GraphAssumption DEF GraphTypeOK
  <2>4. ASSUME NEW p \in Modules, p # q
        PROVE  \/ version'[p] = 0 /\ \A k \in visited' : k[1] # p
               \/ <<p, version'[p]>> \in visited' /\ \A k \in visited' : k[1] = p => k[2] <= version'[p]
    <3>1. version'[p] = version[p]
      BY <2>2, <2>3, <2>4
    <3> QED
      BY <1>1, <2>1, <2>2, <2>4, <3>1 DEF VersionsOK
  <2>5. \/ <<q, version'[q]>> \in visited' /\ \A k \in visited' : k[1] = q => k[2] <= version'[q]
    <3>1. version'[q] = IF v > version[q] THEN v ELSE version[q]
      BY <2>1, <2>2, <2>3
    <3>2. \A k \in visited : k[2] \in Nat
      BY <2>3, RequiresTyped
    <3>3. CASE version[q] = 0 /\ \A k \in visited : k[1] # q
      <4>1. version'[q] = v
        BY <2>1, <3>1, <3>3
      <4> QED
        BY <2>1, <2>2, <3>3, <4>1
    <3>4. CASE <<q, version[q]>> \in visited /\ \A k \in visited : k[1] = q => k[2] <= version[q]
      <4>1. CASE v > version[q]
        <5>1. version'[q] = v
          BY <3>1, <4>1
        <5>2. \A k \in visited : k[1] = q => k[2] <= v
          BY <2>3, <3>2, <3>4, <4>1
        <5> QED
          BY <2>1, <2>2, <5>1, <5>2
      <4>2. CASE ~(v > version[q])
        <5>1. version'[q] = version[q]
          BY <3>1, <4>2
        <5>2. v <= version[q]
          BY <2>1, <2>3, <4>2
        <5> QED
          BY <2>1, <2>2, <3>4, <5>1, <5>2
      <4> QED
        BY <4>1, <4>2
    <3> QED
      BY <1>1, <3>3, <3>4 DEF VersionsOK
  <2> QED
    BY <2>4, <2>5 DEF VersionsOK
<1> QED
  BY <1>2, <1>3

\* An edge is added for a requirement of something known.
LEMMA AskedEdgesStay ==
  ASSUME GraphTypeOK, phase = "build", BuildOK, NEW n \in Nat, NEW req \in Keys, ProcessesAt(req, n),
         Revisits(req, n) \/ Visits(req, n), UNCHANGED requires
  PROVE  EdgesAskedOK'
<1>1. Known \subseteq Known' /\ EdgesAskedOK
  BY DEF Known, Revisits, Visits, BuildOK
<1>2. PICK k0 \in Known : k0[1] = stack[n].path /\ req \in Range(requires[k0])
  BY DEF ProcessesAt
<1>3. ASSUME NEW p \in Modules, NEW q \in Range(children'[p])
      PROVE  \E k \in Known' : k[1] = p /\ \E r \in Range(requires'[k]) : r[1] = q
  <2>1. CASE q \in Range(children[p])
    BY <1>1, <2>1 DEF EdgesAskedOK
  <2>2. CASE q \notin Range(children[p])
    <3>1. p = stack[n].path
      BY <1>3, <2>2 DEF ProcessesAt
    <3>2. q = req[1]
      BY <1>3, <2>2, <3>1 DEF ProcessesAt
    <3> QED
      BY <1>1, <1>2, <3>1, <3>2
  <2> QED
    BY <2>1, <2>2
<1>4. direct' \subseteq Range(children'[Root])
  <2>1. direct \subseteq Range(children[Root])
    BY <1>1 DEF EdgesAskedOK
  <2>2. Range(children[Root]) \subseteq Range(children'[Root])
    BY GraphAssumption DEF ProcessesAt
  <2>3. stack[n].path = Root => req[1] \in Range(children'[Root])
    BY DEF ProcessesAt
  <2> QED
    BY <2>1, <2>2, <2>3 DEF Revisits, Visits
<1> QED
  BY <1>3, <1>4 DEF EdgesAskedOK

\* Only what is required is visited.
LEMMA VisitedStay ==
  ASSUME GraphTypeOK, phase = "build", BuildOK, NEW n \in Nat, NEW req \in Keys, ProcessesAt(req, n),
         Revisits(req, n) \/ Visits(req, n), UNCHANGED requires
  PROVE  VisitedOK'
<1>1. VisitedOK
  BY DEF BuildOK
<1>2. PICK k \in Known : req \in Range(requires[k])
  BY DEF ProcessesAt
<1>3. ASSUME NEW keys \in SUBSET Keys, Closed(keys)'
      PROVE  visited' \subseteq keys
  <2>1. Closed(keys)
    BY <1>3 DEF Closed
  <2>2. visited \subseteq keys
    BY <1>1, <2>1 DEF VisitedOK
  <2>3. Range(requires[k]) \subseteq keys
    BY <2>1, <2>2 DEF Closed, Known
  <2> QED
    BY <1>2, <2>2, <2>3 DEF Revisits, Visits
<1> QED
  BY <1>3 DEF VisitedOK

\* The new node is reached by the new edge.
LEMMA ReachedStays ==
  ASSUME GraphTypeOK, phase = "build", BuildOK, ReachedOK, NEW n \in Nat, NEW req \in Keys,
         ProcessesAt(req, n), Revisits(req, n) \/ Visits(req, n)
  PROVE  ReachedOK'
<1>1. PICK q \in Modules, v \in Nat : q = req[1] /\ v = req[2] /\ v > 0 /\ req = <<q, v>>
  BY RequiresTyped
<1>2. \A p \in Modules : version[p] \in Nat
  BY GraphAssumption DEF GraphTypeOK
<1>3. stack[n].path \in Nodes /\ stack[n].path \in Modules
  BY KnownAreNodes DEF ProcessesAt
<1>4. Nodes' = Nodes \cup {q}
  <2>1. CASE Revisits(req, n)
    <3>1. q \in Nodes
      BY <1>1, <2>1, KnownAreNodes DEF Revisits, Known
    <3> QED
      BY <2>1, <3>1 DEF Revisits, Nodes
  <2>2. CASE Visits(req, n)
    <3>1. version' = [version EXCEPT ![q] = IF v > @ THEN v ELSE @]
      BY <1>1, <2>2 DEF Visits
    <3>2. version \in [Modules -> 0 .. MaxVersion]
      BY DEF GraphTypeOK
    <3>3. version'[q] > 0
      BY <1>1, <1>2, <3>1, <3>2
    <3>4. \A p \in Modules : p # q => version'[p] = version[p]
      BY <3>1, <3>2
    <3> QED
      BY <1>1, <3>3, <3>4 DEF Nodes
  <2> QED
    BY <2>1, <2>2
<1>5. \A p \in Modules : Range(children'[p]) \subseteq Range(children[p]) \cup {q}
  BY <1>1 DEF ProcessesAt
<1>6. ASSUME NEW ps \in SUBSET Modules, Root \in ps, Follows(ps)' PROVE Nodes' \subseteq ps
  <2>1. \A p \in ps : Range(children[p]) \subseteq Range(children'[p])
    BY DEF ProcessesAt
  <2>2. Follows(ps)
    BY <1>6, <2>1 DEF Follows
  <2>3. Nodes \subseteq ps
    BY <1>6, <2>2 DEF ReachedOK
  <2>4. q \in Range(children'[stack[n].path])
    BY <1>1 DEF ProcessesAt
  <2>5. q \in ps
    BY <1>3, <1>6, <2>3, <2>4 DEF Follows
  <2> QED
    BY <1>4, <2>3, <2>5
<1> QED
  BY <1>4, <1>5, <1>6 DEF ReachedOK

LEMMA ProcessKeeps ==
  ASSUME GraphIInv, ProcessRequire
  PROVE  GraphIInv'
<1>0. GraphTypeOK /\ ReachedOK /\ phase = "build" /\ BuildOK
  BY DEF GraphIInv, ProcessRequire
<1>1. UNCHANGED <<requires, phase, done, order, cycle>>
  BY <1>0, RequireStep
<1>2. PICK n \in Nat, req \in Keys : ProcessesAt(req, n) /\ (Revisits(req, n) \/ Visits(req, n))
  BY <1>0, RequireStep
<1>3. GraphTypeOK'
  BY <1>0, <1>1, <1>2, VisitTypes
<1>4. FramesOK' /\ EdgesOK'
  BY <1>0, <1>1, <1>2, FramesStay, EdgesStay
<1>5. VersionsOK'
  BY <1>0, <1>2, VersionsStay
<1>6. EdgesAskedOK' /\ VisitedOK'
  BY <1>0, <1>1, <1>2, AskedEdgesStay, VisitedStay
<1>7. ReachedOK'
  BY <1>0, <1>2, ReachedStays
<1>8. phase' = "build" /\ done' = {} /\ order' = << >>
  BY <1>0, <1>1 DEF BuildOK
<1> QED
  BY <1>3, <1>4, <1>5, <1>6, <1>7, <1>8
     DEF GraphIInv, BuildOK, NodesHoldTheGreatest, EdgesAreTheRequirements, Built

\* A call that returns has processed its requirements.
LEMMA ReturnKeeps ==
  ASSUME GraphIInv, Return
  PROVE  GraphIInv'
<1>0. /\ GraphTypeOK /\ ReachedOK /\ phase = "build" /\ BuildOK
      /\ stack # << >> /\ Top.todo = << >> /\ stack' = Pop
      /\ UNCHANGED <<requires, phase, version, direct, children, visited, done, order, cycle>>
  BY DEF GraphIInv, Return
<1>1. stack \in Seq(Frames(Keys))
  BY <1>0 DEF GraphTypeOK
<1>2. PICK n \in Nat : n = Len(stack) /\ n > 0 /\ stack[n].todo = << >>
  BY <1>0, <1>1, Stacked DEF Top
<1>3. /\ stack' \in Seq(Frames(Keys)) /\ Len(stack') = n - 1
      /\ \A i \in 1 .. (n - 1) : stack'[i] = stack[i]
  BY <1>0, <1>1, <1>2, Popping
<1>4. GraphTypeOK'
  <2>1. phase' = "build"
    BY <1>0
  <2> QED
    BY <1>0, <1>3, <2>1 DEF GraphTypeOK
<1>5. FramesOK'
  <2>1. \A i \in 1 .. (n - 1) : i \in 1 .. n
    BY <1>2
  <2>2. \A i \in 1 .. n : \E k \in Known :
          k[1] = stack[i].path /\ Range(stack[i].todo) \subseteq Range(requires[k])
    BY <1>0, <1>2 DEF FramesOK, BuildOK
  <2>3. Known' = Known /\ requires' = requires
    BY <1>0 DEF Known
  <2>4. ASSUME NEW i \in 1 .. (n - 1)
        PROVE  \E k \in Known' : k[1] = stack'[i].path
                                  /\ Range(stack'[i].todo) \subseteq Range(requires'[k])
    <3>1. i \in 1 .. n /\ stack'[i] = stack[i]
      BY <1>3, <2>1
    <3> QED
      BY <2>2, <2>3, <3>1
  <2>5. Len(stack') = n - 1
    BY <1>3
  <2> QED
    BY <2>4, <2>5 DEF FramesOK
<1>6. EdgesOK'
  <2>1. ASSUME NEW k \in Known, NEW r \in Range(requires[k]),
               NEW i \in 1 .. n, stack[i].path = k[1], r \in Range(stack[i].todo)
        PROVE  \E j \in 1 .. (n - 1) : stack'[j].path = k[1] /\ r \in Range(stack'[j].todo)
    <3>1. i # n
      BY <1>2, <2>1, EmptyRange
    <3>2. i \in 1 .. (n - 1)
      BY <1>2, <3>1
    <3> QED
      BY <1>3, <2>1, <3>2
  <2>2. ASSUME NEW k \in Known, NEW r \in Range(requires[k])
        PROVE  \/ r \in visited /\ r[1] \in Range(children[k[1]])
               \/ \E j \in 1 .. (n - 1) : stack'[j].path = k[1] /\ r \in Range(stack'[j].todo)
    <3>1. \/ r \in visited /\ r[1] \in Range(children[k[1]])
          \/ \E i \in 1 .. n : stack[i].path = k[1] /\ r \in Range(stack[i].todo)
      BY <1>0, <1>2 DEF EdgesOK, BuildOK
    <3> QED
      BY <2>1, <3>1
  <2>3. Len(stack') = n - 1 /\ Known' = Known
    BY <1>0, <1>3 DEF Known
  <2> QED
    BY <1>0, <2>2, <2>3 DEF EdgesOK
<1>7. VersionsOK' /\ EdgesAskedOK'
  BY <1>0 DEF VersionsOK, EdgesAskedOK, BuildOK, Known
<1>8. VisitedOK'
  BY <1>0 DEF VisitedOK, BuildOK, Closed
<1>9. ReachedOK'
  BY <1>0 DEF ReachedOK, Nodes, Follows
<1>10. phase' = "build" /\ done' = {} /\ order' = << >>
  BY <1>0 DEF BuildOK
<1> QED
  BY <1>4, <1>5, <1>6, <1>7, <1>8, <1>9, <1>10
     DEF GraphIInv, BuildOK, NodesHoldTheGreatest, EdgesAreTheRequirements, Built

\* When nothing is left to do, what was visited is what is required.
LEMMA VisitedIsRequired ==
  ASSUME GraphTypeOK, phase = "build", BuildOK, stack = << >>
  PROVE  /\ RequiredKeys = visited
         /\ \A k \in Known : \A r \in Range(requires[k]) : r[1] \in Range(children[k[1]])
<1>1. \A k \in Known : \A r \in Range(requires[k]) :
        r \in visited /\ r[1] \in Range(children[k[1]])
  <2>1. Len(stack) = 0
    OBVIOUS
  <2>2. ~ \E i \in 1 .. Len(stack) : TRUE
    BY <2>1
  <2> QED
    BY <2>2 DEF BuildOK, EdgesOK
<1>2. visited \subseteq Keys
  BY DEF GraphTypeOK
<1>3. Closed(visited)
  BY <1>1 DEF Closed, Known
<1>4. RequiredKeys \subseteq visited
  BY <1>2, <1>3 DEF RequiredKeys
<1>5. visited \subseteq RequiredKeys
  BY <1>2 DEF RequiredKeys, BuildOK, VisitedOK
<1> QED
  BY <1>1, <1>4, <1>5

\* A walk begins at the root.
LEMMA WalkBegins ==
  ASSUME GraphTypeOK
  PROVE  /\ << Frame(Root, children[Root]) >> \in Seq(Frames(Modules))
         /\ WalkOK(<< Frame(Root, children[Root]) >>, {})
<1>0. PICK tasks \in Seq(Modules) : tasks = children[Root]
  BY GraphAssumption DEF GraphTypeOK
<1>1. PICK f : f = Frame(Root, tasks) /\ f.path = Root /\ f.todo = tasks /\ f \in Frames(Modules)
  <2>1. PICK f : f = Frame(Root, tasks)
    OBVIOUS
  <2>2. f.path = Root /\ f.todo = tasks /\ f \in Frames(Modules)
    BY <2>1, GraphAssumption DEF Frame, Frames
  <2> QED
    BY <2>1, <2>2
<1>2. PICK calls : calls = << f >> /\ Len(calls) = 1 /\ calls[1] = f
                   /\ calls \in Seq(Frames(Modules))
  <2>1. << f >> \in Seq(Frames(Modules)) /\ Len(<< f >>) = 1 /\ << f >>[1] = f
    BY <1>1
  <2> QED
    BY <2>1
<1>3. \A i \in 1 .. Len(calls) : i = 1
  BY <1>2
<1>4. 1 \in 1 .. Len(calls)
  BY <1>2
<1>5. Root \in Nodes
  BY DEF Nodes
<1>6. \A i \in 2 .. Len(calls) : FALSE
  BY <1>2
<1>7. WalkOK(calls, {})
  BY <1>0, <1>1, <1>2, <1>3, <1>4, <1>5, <1>6 DEF WalkOK, Follows
<1> QED
  BY <1>0, <1>1, <1>2, <1>7

\* The graph is built.
LEMMA BuildEndsKeeps ==
  ASSUME GraphIInv, BuildEnds
  PROVE  GraphIInv'
<1>0. /\ GraphTypeOK /\ ReachedOK /\ phase = "build" /\ BuildOK /\ stack = << >>
      /\ phase' = "detect" /\ stack' = << Frame(Root, children[Root]) >>
      /\ UNCHANGED <<requires, version, direct, children, visited, done, order, cycle>>
  BY DEF GraphIInv, BuildEnds
<1>1. /\ RequiredKeys = visited
      /\ \A k \in Known : \A r \in Range(requires[k]) : r[1] \in Range(children[k[1]])
  BY <1>0, VisitedIsRequired
<1>2. RequiredKeys' = visited
  BY <1>0, <1>1 DEF RequiredKeys, Closed
<1>3. NodesHoldTheGreatest'
  <2> SUFFICES ASSUME NEW p \in Modules
               PROVE  LET vs == {k[2] : k \in {l \in visited : l[1] = p}}
                      IN  IF vs = {} THEN version[p] = 0
                          ELSE version[p] \in vs /\ \A v \in vs : v <= version[p]
    BY <1>0, <1>2 DEF NodesHoldTheGreatest
  <2> DEFINE vs == {k[2] : k \in {l \in visited : l[1] = p}}
  <2>1. CASE version[p] = 0 /\ \A k \in visited : k[1] # p
    BY <2>1
  <2>2. CASE <<p, version[p]>> \in visited /\ \A k \in visited : k[1] = p => k[2] <= version[p]
    <3>1. version[p] \in vs
      BY <2>2
    <3>2. \A v \in vs : v <= version[p]
      BY <2>2
    <3> QED
      BY <3>1, <3>2
  <2> QED
    BY <1>0, <2>1, <2>2 DEF BuildOK, VersionsOK
<1>4. EdgesAreTheRequirements'
  <2>1. direct \subseteq Range(children[Root])
    BY <1>0 DEF BuildOK, EdgesAskedOK
  <2>2. ASSUME NEW p \in Modules, NEW q \in Modules
        PROVE  q \in Range(children[p]) <=>
                 \E k \in Known : k[1] = p /\ \E r \in Range(requires[k]) : r[1] = q
    <3>1. CASE q \in Range(children[p])
      BY <1>0, <3>1 DEF BuildOK, EdgesAskedOK
    <3>2. CASE \E k \in Known : k[1] = p /\ \E r \in Range(requires[k]) : r[1] = q
      BY <1>1, <3>2
    <3> QED
      BY <3>1, <3>2
  <2>3. Known = RequiredKeys' \cup {RootKey}
    BY <1>2 DEF Known
  <2>4. PICK known : known = Known
    OBVIOUS
  <2> QED
    BY <1>0, <2>1, <2>2, <2>3 DEF EdgesAreTheRequirements
<1>5. /\ stack' \in Seq(Frames(Modules)) /\ WalkOK(stack', {})
  BY <1>0, WalkBegins
<1>6. GraphTypeOK'
  BY <1>0, <1>5 DEF GraphTypeOK
<1>7. done' = {} /\ order' = << >>
  BY <1>0 DEF BuildOK
<1>8. WalkOK(stack, done)'
  BY <1>0, <1>5, <1>7 DEF WalkOK, Follows, Nodes
<1>9. Acyclic(done)'
  BY <1>7 DEF Acyclic
<1>10. ReachedOK'
  BY <1>0 DEF ReachedOK, Nodes, Follows
<1> QED
  BY <1>0, <1>3, <1>4, <1>6, <1>7, <1>8, <1>9, <1>10 DEF GraphIInv

-----------------------------------------------------------------------------
(* The walks. *)

LEMMA WalkIs ==
  ASSUME NEW calls, NEW left, NEW n, Len(calls) = n,
         \A i \in 1 .. n : Range(calls[i].todo) \subseteq Range(children[calls[i].path]),
         \A i \in 2 .. n : calls[i].path \in Range(children[calls[i - 1].path]),
         \A i \in 1 .. n : \A q \in Range(children[calls[i].path]) :
           q \in Range(calls[i].todo) \cup left \/ (i < n /\ q = calls[i + 1].path),
         \A i, j \in 1 .. n : calls[i].path = calls[j].path => i = j,
         \A i \in 1 .. n : calls[i].path \in Nodes \ left,
         Root \in left \/ \E i \in 1 .. n : calls[i].path = Root,
         left \subseteq Nodes, Follows(left)
  PROVE  WalkOK(calls, left)
BY DEF WalkOK

\* A child that was left is skipped.
LEMMA WalkTakes ==
  ASSUME stack \in Seq(Frames(Modules)), stack # << >>, Top.todo # << >>,
         NEW left, WalkOK(stack, left), Head(Top.todo) \in left
  PROVE  WalkOK(Took, left)
<1>1. PICK n \in Nat : n = Len(stack) /\ n > 0
  BY Stacked
<1>2. PICK child \in Modules : child = Head(Top.todo) /\ child \in left
  BY Taking
<1>3. PICK took : /\ took = Took /\ Len(took) = n
                  /\ \A i \in 1 .. n : took[i].path = stack[i].path
                  /\ \A i \in 1 .. (n - 1) : took[i].todo = stack[i].todo
                  /\ Range(stack[n].todo) = {child} \cup Range(took[n].todo)
  BY <1>1, <1>2, Taking
<1>4. \A i \in 1 .. n : i = n \/ i \in 1 .. (n - 1)
  BY <1>1
<1>5. \A i \in 1 .. n : /\ Range(took[i].todo) \subseteq Range(stack[i].todo)
                        /\ Range(stack[i].todo) \subseteq Range(took[i].todo) \cup left
  BY <1>2, <1>3, <1>4
<1>6. \A i \in 2 .. n : i \in 1 .. n /\ i - 1 \in 1 .. n
  BY <1>1
<1>7. \A i \in 1 .. n : i < n => i + 1 \in 1 .. n
  BY <1>1
<1>8. WalkOK(took, left)
  <2>1. \A i \in 1 .. n : Range(took[i].todo) \subseteq Range(children[took[i].path])
    BY <1>1, <1>3, <1>5 DEF WalkOK
  <2>2. \A i \in 2 .. n : took[i].path \in Range(children[took[i - 1].path])
    BY <1>1, <1>3, <1>6 DEF WalkOK
  <2>3. ASSUME NEW i \in 1 .. n, NEW q \in Range(children[took[i].path])
        PROVE  q \in Range(took[i].todo) \cup left \/ (i < n /\ q = took[i + 1].path)
    <3>1. q \in Range(stack[i].todo) \cup left \/ (i < n /\ q = stack[i + 1].path)
      BY <1>1, <1>3, <2>3, ZenonT(60) DEF WalkOK
    <3> QED
      BY <1>3, <1>5, <1>7, <3>1, SMTT(30)
  <2>4. /\ \A i, j \in 1 .. n : took[i].path = took[j].path => i = j
        /\ \A i \in 1 .. n : took[i].path \in Nodes \ left
        /\ Root \in left \/ \E i \in 1 .. n : took[i].path = Root
    BY <1>1, <1>3 DEF WalkOK
  <2>5. left \subseteq Nodes /\ Follows(left)
    BY DEF WalkOK
  <2>6. Len(took) = n
    BY <1>3
  <2> QED
    BY <2>1, <2>2, <2>3, <2>4, <2>5, <2>6, WalkIs
<1> QED
  BY <1>3, <1>8

\* What the calls are when the innermost one has made a call for child.
Pushes(calls, child, tasks, n) ==
  /\ calls \in Seq(Frames(Modules)) /\ Len(calls) = n + 1
  /\ \A i \in 1 .. n : /\ calls[i].path = stack[i].path
                       /\ Range(calls[i].todo) \subseteq Range(stack[i].todo)
                       /\ i # n => calls[i].todo = stack[i].todo
  /\ Range(stack[n].todo) \subseteq {child} \cup Range(calls[n].todo)
  /\ calls[n + 1].path = child /\ calls[n + 1].todo = tasks

LEMMA PushesOne ==
  ASSUME stack \in Seq(Frames(Modules)), stack # << >>, Top.todo # << >>,
         NEW child \in Modules, child = Head(Top.todo), NEW tasks \in Seq(Modules)
  PROVE  Pushes(Append(Took, Frame(child, tasks)), child, tasks, Len(stack))
<1>1. PICK n \in Nat : n = Len(stack) /\ n > 0
  BY Stacked
<1>2. PICK took \in Seq(Frames(Modules)) :
        /\ took = Took /\ Len(took) = n
        /\ \A i \in 1 .. n : took[i].path = stack[i].path
        /\ \A i \in 1 .. (n - 1) : took[i].todo = stack[i].todo
        /\ Range(stack[n].todo) = {child} \cup Range(took[n].todo)
  BY <1>1, Taking
<1>3. PICK more : more = Append(took, Frame(child, tasks))
  OBVIOUS
<1>4. /\ more \in Seq(Frames(Modules)) /\ Len(more) = n + 1
      /\ \A i \in 1 .. n : more[i] = took[i]
      /\ more[n + 1].path = child /\ more[n + 1].todo = tasks
  BY <1>2, <1>3, Pushing
<1>5. ASSUME NEW i \in 1 .. n
      PROVE  /\ more[i].path = stack[i].path
             /\ Range(more[i].todo) \subseteq Range(stack[i].todo)
             /\ i # n => more[i].todo = stack[i].todo
  <2>1. more[i] = took[i] /\ took[i].path = stack[i].path
    BY <1>2, <1>4
  <2>2. CASE i = n
    BY <1>2, <2>1, <2>2
  <2>3. CASE i # n
    <3>1. i \in 1 .. (n - 1)
      BY <1>1, <2>3
    <3> QED
      BY <1>2, <2>1, <3>1
  <2> QED
    BY <2>2, <2>3
<1>6. Range(stack[n].todo) \subseteq {child} \cup Range(more[n].todo)
  <2>1. n \in 1 .. n
    BY <1>1
  <2> QED
    BY <1>2, <1>4, <2>1
<1>7. Pushes(more, child, tasks, n)
  BY <1>4, <1>5, <1>6 DEF Pushes
<1> QED
  BY <1>1, <1>2, <1>3, <1>7

\* A child that is neither left nor under way is visited.
LEMMA WalkPushes ==
  ASSUME ReachedOK, NEW n \in Nat, n > 0, n = Len(stack),
         \A i \in 1 .. n : stack[i].path \in Modules,
         NEW left, WalkOK(stack, left), NEW child, child \notin left,
         child \in Range(stack[n].todo), \A i \in 1 .. n : stack[i].path # child,
         NEW calls, Pushes(calls, child, children[child], n)
  PROVE  WalkOK(calls, left)
<1>1. /\ Len(calls) = n + 1
      /\ \A i \in 1 .. n : /\ calls[i].path = stack[i].path
                           /\ Range(calls[i].todo) \subseteq Range(stack[i].todo)
                           /\ i # n => calls[i].todo = stack[i].todo
      /\ Range(stack[n].todo) \subseteq {child} \cup Range(calls[n].todo)
      /\ calls[n + 1].path = child /\ calls[n + 1].todo = children[child]
  BY DEF Pushes
<1>2. \A i \in 1 .. (n + 1) : i \in 1 .. n \/ i = n + 1
  OBVIOUS
<1>3. n \in 1 .. n /\ n + 1 \in 1 .. (n + 1) /\ \A i \in 1 .. n : i \in 1 .. (n + 1)
  OBVIOUS
<1>4. child \in Range(children[stack[n].path]) /\ child \in Nodes
  <2>1. child \in Range(children[stack[n].path])
    BY <1>3 DEF WalkOK
  <2> QED
    BY <1>3, <2>1 DEF ReachedOK
<1>5. ASSUME NEW i \in 1 .. (n + 1)
      PROVE  Range(calls[i].todo) \subseteq Range(children[calls[i].path])
  <2>1. CASE i \in 1 .. n
    <3>1. Range(stack[i].todo) \subseteq Range(children[stack[i].path])
      BY <2>1 DEF WalkOK
    <3> QED
      BY <1>1, <2>1, <3>1
  <2>2. CASE i = n + 1
    BY <1>1, <2>2
  <2> QED
    BY <1>2, <2>1, <2>2
<1>6. ASSUME NEW i \in 2 .. (n + 1)
      PROVE  calls[i].path \in Range(children[calls[i - 1].path])
  <2>1. CASE i = n + 1
    <3>1. i - 1 = n
      BY <2>1
    <3> QED
      BY <1>1, <1>3, <1>4, <2>1, <3>1
  <2>2. CASE i # n + 1
    <3>1. i \in 2 .. n /\ i \in 1 .. n /\ i - 1 \in 1 .. n
      BY <2>2
    <3>2. stack[i].path \in Range(children[stack[i - 1].path])
      BY <3>1 DEF WalkOK
    <3> QED
      BY <1>1, <3>1, <3>2
  <2> QED
    BY <2>1, <2>2
<1>7. ASSUME NEW i \in 1 .. (n + 1), NEW q \in Range(children[calls[i].path])
      PROVE  q \in Range(calls[i].todo) \cup left \/ (i < n + 1 /\ q = calls[i + 1].path)
  <2>1. CASE i = n + 1
    BY <1>1, <1>7, <2>1
  <2>2. CASE i \in 1 .. n
    <3>1. q \in Range(children[stack[i].path])
      BY <1>1, <1>7, <2>2
    <3>2. q \in Range(stack[i].todo) \cup left \/ (i < n /\ q = stack[i + 1].path)
      BY <2>2, <3>1 DEF WalkOK
    <3>3. CASE i = n
      <4>1. q \in {child} \cup Range(calls[n].todo) \cup left
        BY <1>1, <3>2, <3>3
      <4> QED
        BY <1>1, <3>3, <4>1
    <3>4. CASE i # n
      <4>1. i + 1 \in 1 .. n /\ i < n + 1
        BY <2>2, <3>4
      <4>2. calls[i].todo = stack[i].todo /\ calls[i + 1].path = stack[i + 1].path
        BY <1>1, <2>2, <3>4, <4>1
      <4> QED
        BY <3>2, <4>1, <4>2
    <3> QED
      BY <3>3, <3>4
  <2> QED
    BY <1>2, <2>1, <2>2
<1>8. ASSUME NEW i \in 1 .. (n + 1), NEW j \in 1 .. (n + 1), calls[i].path = calls[j].path
      PROVE  i = j
  <2>1. CASE i \in 1 .. n /\ j \in 1 .. n
    <3>1. stack[i].path = stack[j].path
      BY <1>1, <1>8, <2>1
    <3> QED
      BY <2>1, <3>1 DEF WalkOK
  <2>2. CASE ~(i \in 1 .. n /\ j \in 1 .. n)
    BY <1>1, <1>2, <1>8, <2>2
  <2> QED
    BY <2>1, <2>2
<1>9. ASSUME NEW i \in 1 .. (n + 1) PROVE calls[i].path \in Nodes \ left
  <2>1. CASE i \in 1 .. n
    <3>1. stack[i].path \in Nodes \ left
      BY <2>1 DEF WalkOK
    <3> QED
      BY <1>1, <2>1, <3>1
  <2>2. CASE i = n + 1
    BY <1>1, <1>4, <2>2
  <2> QED
    BY <1>2, <2>1, <2>2
<1>10. Root \in left \/ \E i \in 1 .. (n + 1) : calls[i].path = Root
  <2>1. Root \in left \/ \E i \in 1 .. n : stack[i].path = Root
    BY DEF WalkOK
  <2> QED
    BY <1>1, <1>3, <2>1
<1>11. left \subseteq Nodes /\ Follows(left)
  BY DEF WalkOK
<1>12. PICK m : m = n + 1
  OBVIOUS
<1>13. Len(calls) = m
  BY <1>1, <1>12
<1> QED
  BY <1>5, <1>6, <1>7, <1>8, <1>9, <1>10, <1>11, <1>12, <1>13, WalkIs

\* The same of the calls as they are afterwards.
LEMMA WalkVisits ==
  ASSUME GraphTypeOK, ReachedOK,
         stack \in Seq(Frames(Modules)), stack # << >>, Top.todo # << >>,
         NEW left, WalkOK(stack, left),
         NEW child, child = Head(Top.todo), child \notin left, child \notin OnStack,
         stack' = Append(Took, Frame(child, children[child]))
  PROVE  /\ stack' \in Seq(Frames(Modules)) /\ WalkOK(stack', left)
         /\ OnStack' = OnStack \cup {child}
<1>1. PICK n \in Nat : /\ n = Len(stack) /\ n > 0
                       /\ \A i \in 1 .. n : stack[i].path \in Modules
  BY Stacked
<1>2. child \in Modules /\ child \in Range(stack[n].todo)
  BY <1>1, Taking
<1>3. PICK tasks \in Seq(Modules) : tasks = children[child]
  BY <1>2 DEF GraphTypeOK
<1>4. PICK calls : calls = stack' /\ Pushes(calls, child, tasks, n)
  BY <1>1, <1>2, <1>3, PushesOne
<1>5. OnStack = {stack[i].path : i \in 1 .. n}
  BY <1>1, OnStackIs
<1>6. WalkOK(calls, left)
  <2>1. \A i \in 1 .. n : stack[i].path # child
    BY <1>5
  <2> QED
    BY <1>1, <1>2, <1>3, <1>4, <2>1, WalkPushes
<1>7. OnStack' = OnStack \cup {child}
  <2>1. /\ calls \in Seq(Frames(Modules)) /\ Len(calls) = n + 1
        /\ \A i \in 1 .. n : calls[i].path = stack[i].path
        /\ calls[n + 1].path = child
    BY <1>4 DEF Pushes
  <2>2. DOMAIN calls = 1 .. (n + 1)
    BY <2>1
  <2>3. OnStack' = {calls[i].path : i \in 1 .. (n + 1)}
    BY <1>4, <2>2 DEF OnStack
  <2>4. \A i \in 1 .. (n + 1) : i \in 1 .. n \/ i = n + 1
    OBVIOUS
  <2>5. n + 1 \in 1 .. (n + 1) /\ \A i \in 1 .. n : i \in 1 .. (n + 1)
    OBVIOUS
  <2>6. ASSUME NEW i \in 1 .. (n + 1) PROVE calls[i].path \in OnStack \cup {child}
    BY <1>5, <2>1, <2>4
  <2>7. ASSUME NEW i \in 1 .. n PROVE stack[i].path \in OnStack'
    BY <2>1, <2>3, <2>5
  <2>8. child \in OnStack'
    BY <2>1, <2>3, <2>5
  <2> QED
    BY <1>5, <2>3, <2>6, <2>7, <2>8
<1>8. calls \in Seq(Frames(Modules))
  BY <1>4 DEF Pushes
<1> QED
  BY <1>4, <1>6, <1>7, <1>8

\* A call that has nothing left to do is left.
LEMMA WalkPops ==
  ASSUME stack \in Seq(Frames(Modules)), stack # << >>, Top.todo = << >>,
         NEW left, WalkOK(stack, left)
  PROVE  /\ Pop \in Seq(Frames(Modules)) /\ WalkOK(Pop, left \cup {Top.path})
         /\ Range(children[Top.path]) \subseteq left /\ Top.path \in Nodes \ left
         /\ \A i \in 1 .. Len(Pop) : Pop[i].path \in OnStack \ {Top.path}
         /\ OnStack \ {Top.path} \subseteq {Pop[i].path : i \in 1 .. Len(Pop)}
<1>1. PICK n \in Nat : n = Len(stack) /\ n > 0
  BY Stacked
<1>2. PICK t \in Modules : t = Top.path /\ t = stack[n].path /\ stack[n].todo = << >>
  BY <1>1, Stacked DEF Top
<1>3. PICK pop \in Seq(Frames(Modules)) :
        pop = Pop /\ Len(pop) = n - 1 /\ \A i \in 1 .. (n - 1) : pop[i] = stack[i]
  BY <1>1, Popping
<1>4. /\ n \in 1 .. n /\ \A i \in 1 .. n : i = n \/ i \in 1 .. (n - 1)
      /\ \A i \in 1 .. (n - 1) : i \in 1 .. n /\ i # n /\ i < n /\ i + 1 \in 1 .. n
  BY <1>1
<1>5. Range(children[t]) \subseteq left
  <2>1. ASSUME NEW q \in Range(children[t])
        PROVE  q \in Range(stack[n].todo) \cup left \/ n < n
    BY <1>1, <1>2, <1>4, <2>1 DEF WalkOK
  <2>2. Range(stack[n].todo) = {} /\ ~(n < n)
    BY <1>1, <1>2, EmptyRange
  <2> QED
    BY <2>1, <2>2
<1>6. t \in Nodes \ left
  BY <1>1, <1>2, <1>4 DEF WalkOK
<1>7. \A i \in 1 .. (n - 1) : stack[i].path # t
  BY <1>1, <1>2, <1>4 DEF WalkOK
<1>8. WalkOK(pop, left \cup {t})
  <2>1. \A i \in 1 .. (n - 1) : Range(pop[i].todo) \subseteq Range(children[pop[i].path])
    BY <1>1, <1>3, <1>4 DEF WalkOK
  <2>2. \A i \in 2 .. (n - 1) : pop[i].path \in Range(children[pop[i - 1].path])
    <3>1. \A i \in 2 .. (n - 1) : i \in 1 .. (n - 1) /\ i - 1 \in 1 .. (n - 1) /\ i \in 2 .. n
      BY <1>1
    <3> QED
      BY <1>1, <1>3, <3>1 DEF WalkOK
  <2>3. ASSUME NEW i \in 1 .. (n - 1), NEW q \in Range(children[pop[i].path])
        PROVE  \/ q \in Range(pop[i].todo) \cup (left \cup {t})
               \/ i < n - 1 /\ q = pop[i + 1].path
    <3>1. q \in Range(stack[i].todo) \cup left \/ q = stack[i + 1].path
      BY <1>1, <1>3, <1>4, <2>3 DEF WalkOK
    <3>2. CASE i + 1 = n
      BY <1>2, <1>3, <3>1, <3>2
    <3>3. CASE i + 1 # n
      <4>1. i + 1 \in 1 .. (n - 1) /\ i < n - 1
        BY <1>1, <3>3
      <4> QED
        BY <1>3, <3>1, <4>1
    <3> QED
      BY <3>2, <3>3
  <2>4. ASSUME NEW i \in 1 .. (n - 1), NEW j \in 1 .. (n - 1), pop[i].path = pop[j].path
        PROVE  i = j
    <3>1. i \in 1 .. n /\ j \in 1 .. n /\ stack[i].path = stack[j].path
      BY <1>3, <1>4, <2>4
    <3> QED
      BY <1>1, <3>1 DEF WalkOK
  <2>5. \A i \in 1 .. (n - 1) : pop[i].path \in Nodes \ (left \cup {t})
    BY <1>1, <1>3, <1>4, <1>7 DEF WalkOK
  <2>6. Root \in left \cup {t} \/ \E i \in 1 .. (n - 1) : pop[i].path = Root
    BY <1>1, <1>2, <1>3, <1>4 DEF WalkOK
  <2>7. left \cup {t} \subseteq Nodes /\ Follows(left \cup {t})
    BY <1>5, <1>6 DEF WalkOK, Follows
  <2>8. Len(pop) = n - 1
    BY <1>3
  <2> QED
    BY <2>1, <2>2, <2>3, <2>4, <2>5, <2>6, <2>7, <2>8, WalkIs
<1>9. OnStack = {stack[i].path : i \in 1 .. n}
  BY <1>1, OnStackIs
<1>10. \A i \in 1 .. (n - 1) : pop[i].path \in OnStack \ {t}
  BY <1>3, <1>4, <1>7, <1>9
<1>11. OnStack \ {t} \subseteq {pop[i].path : i \in 1 .. (n - 1)}
  BY <1>2, <1>3, <1>4, <1>9
<1> QED
  BY <1>2, <1>3, <1>5, <1>6, <1>8, <1>10, <1>11

\* What is left stays without cycles when a path is left whose edges all lead
\* to what was left before.
LEMMA AcyclicGrows ==
  ASSUME NEW left, NEW t, Acyclic(left), Follows(left), t \notin left,
         Range(children[t]) \subseteq left
  PROVE  Acyclic(left \cup {t})
<1> SUFFICES ASSUME NEW ps \in SUBSET (left \cup {t}), ps # {}
             PROVE  \E p \in ps : Range(children[p]) \cap ps = {}
  BY DEF Acyclic
<1>1. CASE ps \ {t} = {}
  BY <1>1
<1>2. CASE ps \ {t} # {}
  <2>1. PICK p \in ps \ {t} : Range(children[p]) \cap (ps \ {t}) = {}
    <3>1. ps \ {t} \in SUBSET left
      OBVIOUS
    <3> QED
      BY <1>2, <3>1 DEF Acyclic
  <2>2. Range(children[p]) \subseteq left
    BY <2>1 DEF Follows
  <2> QED
    BY <2>1, <2>2
<1> QED
  BY <1>1, <1>2

\* A walk that is over has left every node.
LEMMA AllLeft ==
  ASSUME GraphTypeOK, ReachedOK, NEW left, WalkOK(stack, left), stack = << >>
  PROVE  left = Nodes
<1>1. Len(stack) = 0
  OBVIOUS
<1>2. Root \in left /\ left \subseteq Nodes /\ Follows(left)
  <2>1. ~ \E i \in 1 .. Len(stack) : TRUE
    BY <1>1
  <2> QED
    BY <2>1 DEF WalkOK
<1>3. left \in SUBSET Modules
  BY <1>2, GraphAssumption DEF Nodes
<1> QED
  BY <1>2, <1>3 DEF ReachedOK

\* The walks change nothing of the graph.
LEMMA GraphStays ==
  ASSUME GraphIInv, phase # "build", phase' # "build",
         UNCHANGED <<requires, version, direct, children>>
  PROVE  /\ NodesHoldTheGreatest' /\ EdgesAreTheRequirements' /\ ReachedOK'
         /\ Nodes' = Nodes /\ \A left : Acyclic(left) => Acyclic(left)'
<1>1. RequiredKeys' = RequiredKeys
  BY DEF RequiredKeys, Closed
<1>2. NodesHoldTheGreatest'
  BY <1>1 DEF GraphIInv, NodesHoldTheGreatest, Built
<1>3. EdgesAreTheRequirements'
  BY <1>1 DEF GraphIInv, EdgesAreTheRequirements, Built
<1>4. Nodes' = Nodes
  BY DEF Nodes
<1>5. ReachedOK'
  BY <1>4 DEF GraphIInv, ReachedOK, Follows
<1>6. \A left : Acyclic(left) => Acyclic(left)'
  BY DEF Acyclic
<1> QED
  BY <1>2, <1>3, <1>4, <1>5, <1>6

\* What is true of the calls and of what was left is true of them afterwards.
LEMMA WalkStays ==
  ASSUME UNCHANGED <<version, children>>, NEW left, WalkOK(stack', left)
  PROVE  /\ left = done' => WalkOK(stack, done)'
         /\ left = Range(order)' => WalkOK(stack, Range(order))'
<1>1. Nodes' = Nodes /\ (Follows(left) => Follows(left)')
  BY DEF Nodes, Follows
<1>2. /\ \A i \in 1 .. Len(stack') : Range(stack'[i].todo) \subseteq Range(children'[stack'[i].path])
      /\ \A i \in 2 .. Len(stack') : stack'[i].path \in Range(children'[stack'[i - 1].path])
      /\ \A i, j \in 1 .. Len(stack') : stack'[i].path = stack'[j].path => i = j
  BY DEF WalkOK
<1>3. \A i \in 1 .. Len(stack') : \A q \in Range(children'[stack'[i].path]) :
        \/ q \in Range(stack'[i].todo) \cup left
        \/ i < Len(stack') /\ q = stack'[i + 1].path
  BY DEF WalkOK
<1>4. /\ \A i \in 1 .. Len(stack') : stack'[i].path \in Nodes' \ left
      /\ left \subseteq Nodes'
      /\ Root \in left \/ \E i \in 1 .. Len(stack') : stack'[i].path = Root
      /\ Follows(left)'
  BY <1>1 DEF WalkOK
<1>5. ASSUME left = done' PROVE WalkOK(stack, done)'
  <2>1. Follows(done)'
    BY <1>4, <1>5 DEF Follows
  <2> QED
    BY <1>2, <1>3, <1>4, <1>5, <2>1, Zenon DEF WalkOK
<1>6. ASSUME left = Range(order)' PROVE WalkOK(stack, Range(order))'
  <2>1. Follows(Range(order))'
    BY <1>4, <1>6 DEF Follows
  <2> QED
    BY <1>2, <1>3, <1>4, <1>6, <2>1, Zenon DEF WalkOK
<1> QED
  BY <1>5, <1>6

\* The path from a call to the innermost one is a set in which every path has
\* an edge, if an edge closes it.
LEMMA ClosesCycle ==
  ASSUME stack \in Seq(Frames(Modules)), stack # << >>, Top.todo # << >>,
         NEW left, WalkOK(stack, left), Head(Top.todo) \in OnStack
  PROVE  ~Acyclic(Nodes)
<1>1. PICK n \in Nat : n = Len(stack) /\ n > 0
  BY Stacked
<1>2. PICK child : child = Head(Top.todo) /\ child \in Range(stack[n].todo)
  BY <1>1, Taking
<1>3. PICK s \in 1 .. n : stack[s].path = child
  BY <1>1, <1>2, OnStackIs
<1> DEFINE ps == {stack[i].path : i \in s .. n}
<1>4. \A i \in s .. n : i \in 1 .. n
  BY <1>1
<1>5. ps \in SUBSET Nodes
  BY <1>1, <1>4 DEF WalkOK
<1>6. ps # {}
  <2>1. s \in s .. n
    BY <1>1
  <2> QED
    BY <2>1
<1>7. ASSUME NEW i \in s .. n PROVE \E q \in ps : q \in Range(children[stack[i].path])
  <2>1. CASE i = n
    <3>1. child \in Range(children[stack[n].path])
      <4>1. n \in 1 .. n
        BY <1>1
      <4> QED
        BY <1>1, <1>2, <4>1 DEF WalkOK
    <3>2. child \in ps
      <4>1. s \in s .. n
        BY <1>1
      <4> QED
        BY <1>3, <4>1
    <3> QED
      BY <2>1, <3>1, <3>2
  <2>2. CASE i # n
    <3>1. i + 1 \in s .. n /\ i + 1 \in 2 .. n /\ (i + 1) - 1 = i
      BY <1>1, <2>2
    <3>2. stack[i + 1].path \in Range(children[stack[i].path])
      BY <1>1, <3>1 DEF WalkOK
    <3> QED
      BY <3>1, <3>2
  <2> QED
    BY <2>1, <2>2
<1>8. ~ \E p \in ps : Range(children[p]) \cap ps = {}
  BY <1>7
<1> QED
  BY <1>5, <1>6, <1>8 DEF Acyclic

\* DetectCycles goes on.
LEMMA DetectKeeps ==
  ASSUME GraphIInv, Detect, Head(Top.todo) \notin OnStack
  PROVE  GraphIInv'
<1>0. /\ GraphTypeOK /\ ReachedOK /\ phase = "detect" /\ stack # << >> /\ Top.todo # << >>
      /\ WalkOK(stack, done) /\ Acyclic(done) /\ order = << >>
      /\ UNCHANGED <<requires, phase, version, direct, children, visited, done, order, cycle>>
  BY DEF GraphIInv, Detect
<1>1. stack \in Seq(Frames(Modules))
  BY <1>0 DEF GraphTypeOK
<1>2. stack' \in Seq(Frames(Modules)) /\ WalkOK(stack', done)
  <2>1. CASE Head(Top.todo) \in done
    <3>1. stack' = Took
      BY <2>1 DEF Detect
    <3> QED
      BY <1>0, <1>1, <2>1, <3>1, WalkTakes, Taking
  <2>2. CASE Head(Top.todo) \notin done
    <3>1. PICK child : /\ child = Head(Top.todo)
                       /\ stack' = Append(Took, Frame(child, children[child]))
      BY <2>2 DEF Detect
    <3>2. PICK left : left = done /\ child \notin left /\ WalkOK(stack, left)
      BY <1>0, <2>2, <3>1
    <3> QED
      BY <1>0, <1>1, <3>1, <3>2, WalkVisits
  <2> QED
    BY <2>1, <2>2
<1>3. WalkOK(stack, done)'
  <2>1. PICK left : left = done' /\ WalkOK(stack', left)
    BY <1>0, <1>2
  <2> QED
    BY <1>0, <2>1, WalkStays
<1>4. Acyclic(done)'
  BY <1>0 DEF Acyclic
<1>5. GraphTypeOK'
  BY <1>0, <1>2 DEF GraphTypeOK
<1>6. NodesHoldTheGreatest' /\ EdgesAreTheRequirements' /\ ReachedOK'
  BY <1>0, GraphStays
<1> QED
  BY <1>0, <1>3, <1>4, <1>5, <1>6 DEF GraphIInv

\* DetectCycles reports the path from the child to itself.
LEMMA CycleKeeps ==
  ASSUME GraphIInv, Detect, Head(Top.todo) \in OnStack
  PROVE  GraphIInv'
<1>0. /\ GraphTypeOK /\ ReachedOK /\ phase = "detect" /\ stack # << >> /\ Top.todo # << >>
      /\ WalkOK(stack, done) /\ phase' = "cycle"
      /\ UNCHANGED <<stack, requires, version, direct, children, visited, done, order>>
  BY DEF GraphIInv, Detect
<1>1. stack \in Seq(Frames(Modules))
  BY <1>0 DEF GraphTypeOK
<1>2. PICK n \in Nat : n = Len(stack) /\ n > 0 /\ DOMAIN stack = 1 .. n
                       /\ \A i \in 1 .. n : stack[i].path \in Modules
  BY <1>0, <1>1, Stacked
<1>3. PICK child \in Modules : child = Head(Top.todo) /\ child \in Range(stack[n].todo)
  BY <1>0, <1>1, <1>2, Taking
<1>4. PICK s \in 1 .. n : /\ s = CHOOSE i \in DOMAIN stack : stack[i].path = child
                          /\ stack[s].path = child
  <2>1. \E i \in DOMAIN stack : stack[i].path = child
    BY <1>1, <1>2, <1>3, OnStackIs
  <2> QED
    BY <1>2, <2>1
<1>5. PICK walk : walk = [i \in 1 .. (n - s + 1) |-> stack[s + i - 1].path]
  OBVIOUS
<1>6. cycle' = walk \o << child >>
  BY <1>2, <1>3, <1>4, <1>5 DEF Detect
<1>7. n - s + 1 \in Nat /\ \A i \in 1 .. (n - s + 1) : s + i - 1 \in 1 .. n
  BY <1>2
<1>8. walk \in Seq(Modules) /\ Len(walk) = n - s + 1
  BY <1>2, <1>5, <1>7
<1>9. PICK m \in Nat : m = n - s + 1 /\ m > 0
  BY <1>2
<1>10. /\ cycle' \in Seq(Modules) /\ Len(cycle') = m + 1 /\ cycle'[m + 1] = child
       /\ \A i \in 1 .. m : cycle'[i] = stack[s + i - 1].path
  BY <1>5, <1>6, <1>8, <1>9
<1>11. \A i \in 1 .. n : Range(stack[i].todo) \subseteq Range(children[stack[i].path])
  BY <1>0, <1>2 DEF WalkOK
<1>12. \A i \in 2 .. n : stack[i].path \in Range(children[stack[i - 1].path])
  BY <1>0, <1>2 DEF WalkOK
<1>13. ASSUME NEW i \in 1 .. m PROVE cycle'[i + 1] \in Range(children[cycle'[i]])
  <2>1. cycle'[i] = stack[s + i - 1].path
    BY <1>10
  <2>2. CASE i = m
    <3>1. s + i - 1 = n /\ n \in 1 .. n
      BY <1>2, <1>9, <2>2
    <3> QED
      BY <1>3, <1>10, <1>11, <2>1, <2>2, <3>1
  <2>3. CASE i # m
    <3>1. i + 1 \in 1 .. m /\ s + i \in 2 .. n /\ s + (i + 1) - 1 = s + i
      BY <1>2, <1>9, <2>3
    <3>2. cycle'[i + 1] = stack[s + i].path
      BY <1>10, <3>1
    <3> QED
      BY <1>12, <2>1, <3>1, <3>2
  <2> QED
    BY <2>2, <2>3
<1>14. CycleVerdict'
  <2>1. Len(cycle') > 1 /\ cycle'[1] = cycle'[Len(cycle')]
    <3>1. 1 \in 1 .. m /\ s + 1 - 1 = s
      BY <1>9
    <3> QED
      BY <1>4, <1>9, <1>10, <3>1
  <2>2. \A i \in 1 .. (Len(cycle') - 1) : cycle'[i + 1] \in Range(children'[cycle'[i]])
    <3>1. Len(cycle') - 1 = m
      BY <1>9, <1>10
    <3> QED
      BY <1>0, <1>13, <3>1
  <2> QED
    BY <1>0, <2>1, <2>2 DEF CycleVerdict
<1>15. GraphTypeOK'
  BY <1>0, <1>1, <1>10 DEF GraphTypeOK
<1>16. NodesHoldTheGreatest' /\ EdgesAreTheRequirements' /\ ReachedOK'
  BY <1>0, GraphStays
<1> QED
  BY <1>0, <1>14, <1>15, <1>16 DEF GraphIInv

\* DetectCycles is done with a path.
LEMMA LeaveKeeps ==
  ASSUME GraphIInv, Leave
  PROVE  GraphIInv'
<1>0. /\ GraphTypeOK /\ ReachedOK /\ phase = "detect" /\ stack # << >> /\ Top.todo = << >>
      /\ WalkOK(stack, done) /\ Acyclic(done) /\ order = << >>
      /\ done' = done \cup {Top.path} /\ stack' = Pop
      /\ UNCHANGED <<requires, phase, version, direct, children, visited, order, cycle>>
  BY DEF GraphIInv, Leave
<1>1. stack \in Seq(Frames(Modules))
  BY <1>0 DEF GraphTypeOK
<1>2. PICK t \in Modules : t = Top.path
  BY <1>0, <1>1, Stacked
<1>3. /\ stack' \in Seq(Frames(Modules)) /\ WalkOK(stack', done \cup {t})
      /\ Range(children[t]) \subseteq done /\ t \notin done
  BY <1>0, <1>1, <1>2, WalkPops
<1>4. Acyclic(done \cup {t})
  <2>1. Follows(done)
    BY <1>0 DEF WalkOK
  <2> QED
    BY <1>0, <1>3, <2>1, AcyclicGrows
<1>5. WalkOK(stack, done)'
  <2>1. PICK left : left = done' /\ WalkOK(stack', left)
    BY <1>0, <1>2, <1>3
  <2> QED
    BY <1>0, <2>1, WalkStays
<1>6. Acyclic(done)'
  BY <1>0, <1>2, <1>4 DEF Acyclic
<1>7. GraphTypeOK'
  BY <1>0, <1>2, <1>3 DEF GraphTypeOK
<1>8. NodesHoldTheGreatest' /\ EdgesAreTheRequirements' /\ ReachedOK'
  BY <1>0, GraphStays
<1> QED
  BY <1>0, <1>5, <1>6, <1>7, <1>8 DEF GraphIInv

\* TopologicalSort begins when DetectCycles has left every node.
LEMMA SortBeginsKeeps ==
  ASSUME GraphIInv, SortBegins
  PROVE  GraphIInv'
<1>0. /\ GraphTypeOK /\ ReachedOK /\ phase = "detect" /\ stack = << >>
      /\ WalkOK(stack, done) /\ Acyclic(done) /\ order = << >>
      /\ phase' = "sort" /\ visited' = {Root} /\ stack' = << Frame(Root, children[Root]) >>
      /\ UNCHANGED <<requires, version, direct, children, done, order, cycle>>
  BY DEF GraphIInv, SortBegins
<1>1. Acyclic(Nodes)
  BY <1>0, AllLeft
<1>2. stack' \in Seq(Frames(Modules)) /\ WalkOK(stack', {})
  BY <1>0, WalkBegins
<1>3. Range(order') = {} /\ Len(order') = 0
  BY <1>0, EmptyRange
<1>4. WalkOK(stack, Range(order))'
  <2>1. PICK left : left = Range(order)' /\ WalkOK(stack', left)
    BY <1>2, <1>3
  <2> QED
    BY <1>0, <2>1, WalkStays
<1>5. OrderOK'
  <2>1. \A i \in 1 .. Len(order') : FALSE
    BY <1>3
  <2> QED
    BY <2>1 DEF OrderOK
<1>6. visited' = OnStack' \cup Range(order')
  <2>0. PICK f : f = Frame(Root, children[Root])
    OBVIOUS
  <2>1. f = Frame(Root, children[Root]) /\ f.path = Root
    BY <2>0 DEF Frame
  <2>2. stack' = << f >>
    BY <1>0, <2>1
  <2>3. DOMAIN stack' = {1} /\ stack'[1] = f
    BY <2>2
  <2>4. OnStack' = {Root}
    BY <2>1, <2>3 DEF OnStack
  <2> QED
    BY <1>0, <1>3, <2>4
<1>7. GraphTypeOK'
  BY <1>0, <1>2, GraphAssumption DEF GraphTypeOK
<1>8. /\ NodesHoldTheGreatest' /\ EdgesAreTheRequirements' /\ ReachedOK'
      /\ Nodes' = Nodes /\ Acyclic(Nodes)'
  <2>1. /\ NodesHoldTheGreatest' /\ EdgesAreTheRequirements' /\ ReachedOK' /\ Nodes' = Nodes
    BY <1>0, GraphStays
  <2>2. PICK nodes : nodes = Nodes /\ Acyclic(nodes)'
    BY <1>0, <1>1, GraphStays
  <2> QED
    BY <2>1, <2>2 DEF Acyclic
<1> QED
  BY <1>0, <1>4, <1>5, <1>6, <1>7, <1>8 DEF GraphIInv

\* TopologicalSort visits a child: one that was visited is in the order, since
\* one on the path would close a cycle.
LEMMA SortVisitsKeeps ==
  ASSUME GraphIInv, SortVisits
  PROVE  GraphIInv'
<1>0. /\ GraphTypeOK /\ ReachedOK /\ phase = "sort" /\ stack # << >> /\ Top.todo # << >>
      /\ WalkOK(stack, Range(order)) /\ OrderOK /\ Acyclic(Nodes)
      /\ visited = OnStack \cup Range(order)
      /\ UNCHANGED <<requires, phase, version, direct, children, done, order, cycle>>
  BY DEF GraphIInv, SortVisits
<1>1. stack \in Seq(Frames(Modules))
  BY <1>0 DEF GraphTypeOK
<1>2. PICK child \in Modules : child = Head(Top.todo)
  BY <1>0, <1>1, Taking
<1>3. child \notin OnStack
  BY <1>0, <1>1, <1>2, ClosesCycle
<1>4. /\ stack' \in Seq(Frames(Modules)) /\ WalkOK(stack', Range(order))
      /\ visited' = OnStack' \cup Range(order) /\ visited' \subseteq Modules
  <2>0. visited \subseteq Modules
    BY <1>0 DEF GraphTypeOK
  <2>1. CASE child \in visited
    <3>1. stack' = Took /\ visited' = visited
      BY <1>2, <2>1 DEF SortVisits
    <3>2. child \in Range(order)
      BY <1>0, <1>3, <2>1
    <3>3. stack' \in Seq(Frames(Modules)) /\ WalkOK(stack', Range(order))
      BY <1>0, <1>1, <1>2, <3>1, <3>2, WalkTakes, Taking
    <3>4. OnStack' = OnStack
      <4>1. /\ Len(stack') = Len(stack) /\ \A i \in 1 .. Len(stack) : stack'[i].path = stack[i].path
        BY <1>0, <1>1, <3>1, Taking
      <4>2. DOMAIN stack = 1 .. Len(stack) /\ DOMAIN stack' = 1 .. Len(stack')
        BY <1>1, <3>3
      <4> QED
        BY <4>1, <4>2 DEF OnStack
    <3> QED
      BY <1>0, <2>0, <3>1, <3>3, <3>4
  <2>2. CASE child \notin visited
    <3>1. stack' = Append(Took, Frame(child, children[child])) /\ visited' = visited \cup {child}
      BY <1>2, <2>2 DEF SortVisits
    <3>2. child \notin Range(order)
      BY <1>0, <2>2
    <3>3. PICK left : left = Range(order) /\ child \notin left /\ WalkOK(stack, left)
      BY <1>0, <3>2
    <3>4. /\ stack' \in Seq(Frames(Modules)) /\ WalkOK(stack', left)
          /\ OnStack' = OnStack \cup {child}
      BY <1>0, <1>1, <1>2, <1>3, <3>1, <3>3, WalkVisits
    <3> QED
      BY <1>0, <1>2, <2>0, <3>1, <3>3, <3>4
  <2> QED
    BY <2>1, <2>2
<1>5. WalkOK(stack, Range(order))'
  <2>1. PICK left : left = Range(order)' /\ WalkOK(stack', left)
    BY <1>0, <1>4
  <2> QED
    BY <1>0, <2>1, WalkStays
<1>6. OrderOK' /\ visited' = OnStack' \cup Range(order')
  BY <1>0, <1>4 DEF OrderOK
<1>7. GraphTypeOK'
  BY <1>0, <1>4 DEF GraphTypeOK
<1>8. NodesHoldTheGreatest' /\ EdgesAreTheRequirements' /\ ReachedOK' /\ Acyclic(Nodes)'
  <2>1. /\ NodesHoldTheGreatest' /\ EdgesAreTheRequirements' /\ ReachedOK' /\ Nodes' = Nodes
    BY <1>0, GraphStays
  <2>2. PICK nodes : nodes = Nodes /\ Acyclic(nodes)'
    BY <1>0, GraphStays
  <2> QED
    BY <2>1, <2>2 DEF Acyclic
<1> QED
  BY <1>0, <1>5, <1>6, <1>7, <1>8 DEF GraphIInv

\* TopologicalSort lists a path whose children are all listed.
LEMMA SortAppendsKeeps ==
  ASSUME GraphIInv, SortAppends
  PROVE  GraphIInv'
<1>0. /\ GraphTypeOK /\ ReachedOK /\ phase = "sort" /\ stack # << >> /\ Top.todo = << >>
      /\ WalkOK(stack, Range(order)) /\ OrderOK /\ Acyclic(Nodes)
      /\ visited = OnStack \cup Range(order)
      /\ order' = Append(order, Top.path) /\ stack' = Pop
      /\ UNCHANGED <<requires, phase, version, direct, children, visited, done, cycle>>
  BY DEF GraphIInv, SortAppends
<1>1. stack \in Seq(Frames(Modules)) /\ order \in Seq(Modules)
  BY <1>0 DEF GraphTypeOK
<1>2. PICK t \in Modules : t = Top.path /\ t \in OnStack
  <2>1. PICK n \in Nat : n = Len(stack) /\ n \in 1 .. n /\ Top = stack[n]
    BY <1>0, <1>1, Stacked DEF Top
  <2> QED
    BY <1>0, <1>1, <2>1, Stacked, OnStackIs
<1>3. order' \in Seq(Modules) /\ Range(order') = Range(order) \cup {t}
  BY <1>0, <1>1, <1>2, AppendAdds
<1>4. /\ stack' \in Seq(Frames(Modules)) /\ WalkOK(stack', Range(order) \cup {t})
      /\ Range(children[t]) \subseteq Range(order) /\ t \notin Range(order)
      /\ \A i \in 1 .. Len(stack') : stack'[i].path \in OnStack \ {t}
      /\ OnStack \ {t} \subseteq {stack'[i].path : i \in 1 .. Len(stack')}
  <2>1. /\ Pop \in Seq(Frames(Modules)) /\ WalkOK(Pop, Range(order) \cup {Top.path})
        /\ Range(children[Top.path]) \subseteq Range(order) /\ Top.path \in Nodes \ Range(order)
    BY <1>0, <1>1, WalkPops
  <2>2. /\ \A i \in 1 .. Len(Pop) : Pop[i].path \in OnStack \ {Top.path}
        /\ OnStack \ {Top.path} \subseteq {Pop[i].path : i \in 1 .. Len(Pop)}
    BY <1>0, <1>1, WalkPops
  <2> QED
    BY <1>0, <1>2, <2>1, <2>2
<1>5. WalkOK(stack, Range(order))'
  <2>1. PICK left : left = Range(order)' /\ WalkOK(stack', left)
    BY <1>3, <1>4
  <2> QED
    BY <1>0, <2>1, WalkStays
<1>6. OrderOK'
  <2>1. PICK m \in Nat : m = Len(order) /\ DOMAIN order = 1 .. m
    BY <1>1
  <2>2. /\ Len(order') = m + 1 /\ order'[m + 1] = t /\ \A i \in 1 .. m : order'[i] = order[i]
    BY <1>0, <1>1, <1>2, <2>1
  <2>3. Range(order) = {order[i] : i \in 1 .. m}
    BY <2>1 DEF Range
  <2>4. \A i \in 1 .. (m + 1) : i \in 1 .. m \/ i = m + 1
    BY <2>1
  <2>5. \A i \in 1 .. m : order[i] # t
    BY <1>4, <2>3
  <2>6. ASSUME NEW i \in 1 .. (m + 1), NEW j \in 1 .. (m + 1), order'[i] = order'[j]
        PROVE  i = j
    <3>1. CASE i \in 1 .. m /\ j \in 1 .. m
      BY <1>0, <2>1, <2>2, <2>6, <3>1 DEF OrderOK
    <3>2. CASE ~(i \in 1 .. m /\ j \in 1 .. m)
      BY <2>2, <2>4, <2>5, <2>6, <3>2
    <3> QED
      BY <3>1, <3>2
  <2>7. ASSUME NEW i \in 1 .. (m + 1), NEW q \in Range(children[order'[i]])
        PROVE  \E j \in 1 .. (i - 1) : order'[j] = q
    <3>1. CASE i = m + 1
      <4>1. q \in Range(order) /\ i - 1 = m
        BY <1>4, <2>1, <2>2, <2>7, <3>1
      <4> QED
        BY <2>2, <2>3, <4>1
    <3>2. CASE i # m + 1
      <4>1. i \in 1 .. m /\ q \in Range(children[order[i]])
        BY <2>2, <2>4, <2>7, <3>2
      <4>2. PICK j \in 1 .. (i - 1) : order[j] = q
        BY <1>0, <2>1, <4>1 DEF OrderOK
      <4>3. j \in 1 .. m
        BY <2>1, <4>1, <4>2
      <4> QED
        BY <2>2, <4>2, <4>3
    <3> QED
      BY <3>1, <3>2
  <2> QED
    BY <1>0, <2>2, <2>6, <2>7 DEF OrderOK
<1>7. visited' = OnStack' \cup Range(order')
  <2>1. DOMAIN stack' = 1 .. Len(stack')
    BY <1>4
  <2>2. OnStack' = {stack'[i].path : i \in 1 .. Len(stack')}
    BY <2>1 DEF OnStack
  <2>3. OnStack' = OnStack \ {t}
    BY <1>4, <2>2
  <2> QED
    BY <1>0, <1>2, <1>3, <2>3
<1>8. GraphTypeOK'
  BY <1>0, <1>3, <1>4 DEF GraphTypeOK
<1>9. NodesHoldTheGreatest' /\ EdgesAreTheRequirements' /\ ReachedOK' /\ Acyclic(Nodes)'
  <2>1. /\ NodesHoldTheGreatest' /\ EdgesAreTheRequirements' /\ ReachedOK' /\ Nodes' = Nodes
    BY <1>0, GraphStays
  <2>2. PICK nodes : nodes = Nodes /\ Acyclic(nodes)'
    BY <1>0, GraphStays
  <2> QED
    BY <2>1, <2>2 DEF Acyclic
<1> QED
  BY <1>0, <1>5, <1>6, <1>7, <1>8, <1>9 DEF GraphIInv

LEMMA SortEndsKeeps ==
  ASSUME GraphIInv, SortEnds
  PROVE  GraphIInv'
<1>0. /\ GraphTypeOK /\ ReachedOK /\ phase = "sort" /\ stack = << >> /\ phase' = "done"
      /\ WalkOK(stack, Range(order)) /\ OrderOK /\ Acyclic(Nodes)
      /\ UNCHANGED <<requires, version, direct, children, visited, stack, done, order, cycle>>
  BY DEF GraphIInv, SortEnds
<1>1. Range(order) = Nodes
  BY <1>0, AllLeft
<1>2. GraphTypeOK'
  BY <1>0 DEF GraphTypeOK
<1>3. /\ NodesHoldTheGreatest' /\ EdgesAreTheRequirements' /\ ReachedOK' /\ Nodes' = Nodes
      /\ Acyclic(Nodes)'
  <2>1. /\ NodesHoldTheGreatest' /\ EdgesAreTheRequirements' /\ ReachedOK' /\ Nodes' = Nodes
    BY <1>0, GraphStays
  <2>2. PICK nodes : nodes = Nodes /\ Acyclic(nodes)'
    BY <1>0, GraphStays
  <2> QED
    BY <2>1, <2>2 DEF Acyclic
<1>4. OrderOK'
  BY <1>0 DEF OrderOK
<1> QED
  BY <1>0, <1>1, <1>2, <1>3, <1>4 DEF GraphIInv

\* The builder starts with the requirements of the project to process.
LEMMA GraphStarts ==
  ASSUME GraphInit
  PROVE  GraphIInv
<1>0. /\ requires \in [Keys \cup {RootKey} -> Seq(Keys)] /\ phase = "build"
      /\ version = [p \in Modules |-> 0] /\ direct = {} /\ visited = {} /\ done = {}
      /\ children = [p \in Modules |-> << >>] /\ stack = << Frame(Root, requires[RootKey]) >>
      /\ order = << >> /\ cycle = << >>
  BY GraphAssumption DEF GraphInit
<1>1. PICK tasks \in Seq(Keys) : tasks = requires[RootKey]
  BY <1>0
<1>2. PICK f : f = Frame(Root, tasks) /\ f.path = Root /\ f.todo = tasks /\ f \in Frames(Keys)
  <2>1. PICK f : f = Frame(Root, tasks)
    OBVIOUS
  <2>2. f.path = Root /\ f.todo = tasks /\ f \in Frames(Keys)
    BY <2>1, GraphAssumption DEF Frame, Frames
  <2> QED
    BY <2>1, <2>2
<1>3. stack = << f >>
  BY <1>0, <1>1, <1>2
<1>4. stack \in Seq(Frames(Keys)) /\ Len(stack) = 1 /\ stack[1] = f
  BY <1>2, <1>3
<1>5. 1 \in 1 .. Len(stack) /\ \A i \in 1 .. Len(stack) : i = 1
  BY <1>4
<1>6. GraphTypeOK
  <2>1. version \in [Modules -> 0 .. MaxVersion] /\ children \in [Modules -> Seq(Modules)]
    BY <1>0, GraphAssumption
  <2>2. order \in Seq(Modules) /\ cycle \in Seq(Modules)
    BY <1>0
  <2> QED
    BY <1>0, <1>4, <2>1, <2>2 DEF GraphTypeOK
<1>7. Known = {RootKey} /\ RootKey[1] = Root /\ Root \in Modules
  BY <1>0, GraphAssumption DEF Known, RootKey
<1>8. \A p \in Modules : Range(children[p]) = {}
  BY <1>0, EmptyRange
<1>9. FramesOK
  BY <1>1, <1>2, <1>4, <1>5, <1>7 DEF FramesOK
<1>10. EdgesOK
  BY <1>1, <1>2, <1>4, <1>5, <1>7 DEF EdgesOK
<1>11. VersionsOK /\ EdgesAskedOK /\ VisitedOK
  BY <1>0, <1>8 DEF VersionsOK, EdgesAskedOK, VisitedOK
<1>12. ReachedOK
  <2>1. Nodes = {Root}
    BY <1>0 DEF Nodes
  <2> QED
    BY <1>8, <2>1 DEF ReachedOK
<1> QED
  BY <1>0, <1>6, <1>9, <1>10, <1>11, <1>12
     DEF GraphIInv, BuildOK, NodesHoldTheGreatest, EdgesAreTheRequirements, Built

LEMMA GraphStutters ==
  ASSUME GraphIInv, UNCHANGED graphVars
  PROVE  GraphIInv'
<1>1. UNCHANGED <<requires, phase, version, direct, children, visited, stack, done, order, cycle>>
  BY DEF graphVars
<1>2. Nodes' = Nodes /\ OnStack' = OnStack /\ Known' = Known
  BY <1>1 DEF Nodes, OnStack, Known
<1>3. GraphTypeOK'
  BY <1>1 DEF GraphIInv, GraphTypeOK
<1>4. ReachedOK'
  BY <1>1, <1>2 DEF GraphIInv, ReachedOK, Follows
<1>5. BuildOK => FramesOK' /\ EdgesOK'
  BY <1>1, <1>2 DEF BuildOK, FramesOK, EdgesOK
<1>6. BuildOK => VersionsOK' /\ EdgesAskedOK'
  BY <1>1, <1>2 DEF BuildOK, VersionsOK, EdgesAskedOK
<1>7. BuildOK => VisitedOK' /\ done' = {} /\ order' = << >>
  BY <1>1 DEF BuildOK, VisitedOK, Closed
<1>8. RequiredKeys' = RequiredKeys
  BY <1>1 DEF RequiredKeys, Closed
<1>9. NodesHoldTheGreatest'
  BY <1>1, <1>8 DEF GraphIInv, NodesHoldTheGreatest, Built
<1>10. EdgesAreTheRequirements'
  BY <1>1, <1>8 DEF GraphIInv, EdgesAreTheRequirements, Built
<1>11. phase' = "detect" => WalkOK(stack, done)' /\ Acyclic(done)' /\ order' = << >>
  <2>1. ASSUME phase' = "detect"
        PROVE  WalkOK(stack, done)' /\ Acyclic(done)' /\ order' = << >>
    <3>1. phase = "detect"
      BY <1>1, <2>1
    <3>2. WalkOK(stack, done) /\ Acyclic(done) /\ order = << >>
      BY <3>1 DEF GraphIInv
    <3>3. PICK left : left = done' /\ WalkOK(stack', left)
      BY <1>1, <3>2
    <3>4. WalkOK(stack, done)'
      BY <1>1, <3>3, WalkStays
    <3>5. Acyclic(done)'
      BY <1>1, <3>2 DEF Acyclic
    <3> QED
      BY <1>1, <3>2, <3>4, <3>5
  <2> QED
    BY <2>1
<1>12. phase' = "sort" => /\ WalkOK(stack, Range(order))' /\ OrderOK'
                          /\ visited' = OnStack' \cup Range(order')
  <2>1. ASSUME phase' = "sort"
        PROVE  /\ WalkOK(stack, Range(order))' /\ OrderOK'
               /\ visited' = OnStack' \cup Range(order')
    <3>1. phase = "sort"
      BY <1>1, <2>1
    <3>2. WalkOK(stack, Range(order)) /\ OrderOK /\ visited = OnStack \cup Range(order)
      BY <3>1 DEF GraphIInv
    <3>3. PICK left : left = Range(order)' /\ WalkOK(stack', left)
      BY <1>1, <3>2
    <3>4. WalkOK(stack, Range(order))'
      BY <1>1, <3>3, WalkStays
    <3>5. OrderOK'
      BY <1>1, <3>2 DEF OrderOK
    <3> QED
      BY <1>1, <1>2, <3>2, <3>4, <3>5
  <2> QED
    BY <2>1
<1>13. phase' = "cycle" => CycleVerdict'
  <2>1. ASSUME phase' = "cycle" PROVE CycleVerdict'
    <3>1. phase = "cycle" /\ CycleVerdict
      BY <1>1, <2>1 DEF GraphIInv
    <3> QED
      BY <1>1, <2>1, <3>1 DEF CycleVerdict
  <2> QED
    BY <2>1
<1>14. phase' \in {"sort", "done"} => Acyclic(Nodes)'
  BY <1>1, <1>2 DEF GraphIInv, Acyclic
<1>15. phase' = "done" => Range(order') = Nodes' /\ OrderOK'
  <2>1. ASSUME phase' = "done" PROVE Range(order') = Nodes' /\ OrderOK'
    <3>1. Range(order) = Nodes /\ OrderOK
      BY <1>1, <2>1 DEF GraphIInv
    <3> QED
      BY <1>1, <1>2, <3>1 DEF OrderOK
  <2> QED
    BY <2>1
<1> QED
  BY <1>1, <1>3, <1>4, <1>5, <1>6, <1>7, <1>9, <1>10, <1>11, <1>12, <1>13, <1>14, <1>15
     DEF GraphIInv, BuildOK

\* The invariant of the builder and the walks (builder.go:51, cycle.go:19): what
\* is known is processed or still to be processed, and a walk is a path without
\* repetition that has left only what leads to what it has left.
THEOREM GraphInvariantHolds == GraphSpec => []GraphIInv
<1>1. GraphInit => GraphIInv
  BY GraphStarts
<1>2. GraphIInv /\ [GraphNext]_graphVars => GraphIInv'
  <2> SUFFICES ASSUME GraphIInv, [GraphNext]_graphVars
               PROVE  GraphIInv'
    OBVIOUS
  <2>1. CASE ProcessRequire
    BY <2>1, ProcessKeeps
  <2>2. CASE Return
    BY <2>2, ReturnKeeps
  <2>3. CASE BuildEnds
    BY <2>3, BuildEndsKeeps
  <2>4. CASE Detect
    BY <2>4, DetectKeeps, CycleKeeps
  <2>5. CASE Leave
    BY <2>5, LeaveKeeps
  <2>6. CASE SortBegins
    BY <2>6, SortBeginsKeeps
  <2>7. CASE SortVisits
    BY <2>7, SortVisitsKeeps
  <2>8. CASE SortAppends
    BY <2>8, SortAppendsKeeps
  <2>9. CASE SortEnds
    BY <2>9, SortEndsKeeps
  <2>10. CASE UNCHANGED graphVars
    BY <2>10, GraphStutters
  <2> QED
    BY <2>1, <2>2, <2>3, <2>4, <2>5, <2>6, <2>7, <2>8, <2>9, <2>10 DEF GraphNext
<1> QED
  BY <1>1, <1>2, PTL DEF GraphSpec

\* The graph that is built has the greatest versions and exactly the edges that
\* are required, a cycle is reported only along edges and the sort goes on only
\* without one, and lists every node after all its dependencies.
THEOREM TheGraphIsRight == GraphSpec => []GraphIsRight
<1>1. GraphIInv => GraphIsRight
  <2> SUFFICES ASSUME GraphIInv PROVE GraphIsRight
    OBVIOUS
  <2>1. GraphTypeOK /\ NodesHoldTheGreatest /\ EdgesAreTheRequirements
    BY DEF GraphIInv
  <2>2. CycleVerdict
    <3>1. CASE phase = "cycle"
      BY <3>1 DEF GraphIInv
    <3>2. CASE phase \in {"sort", "done"}
      <4>1. Acyclic(Nodes)
        BY <3>2 DEF GraphIInv
      <4>2. ASSUME NEW ps \in (SUBSET Nodes) \ {{}}, \A p \in ps : \E q \in ps : q \in Range(children[p])
            PROVE  FALSE
        <5>1. ps \in SUBSET Nodes /\ ps # {}
          BY <4>2
        <5>2. PICK p \in ps : Range(children[p]) \cap ps = {}
          BY <4>1, <5>1 DEF Acyclic
        <5> QED
          BY <4>2, <5>2
      <4> QED
        BY <3>2, <4>2 DEF CycleVerdict
    <3>3. CASE phase \notin {"cycle", "sort", "done"}
      BY <3>3 DEF CycleVerdict
    <3> QED
      BY <3>1, <3>2, <3>3
  <2>3. DependenciesComeFirst
    <3>1. order \in Seq(Modules)
      BY DEF GraphIInv, GraphTypeOK
    <3>2. DOMAIN order = 1 .. Len(order)
      BY <3>1
    <3> QED
      BY <3>2 DEF GraphIInv, DependenciesComeFirst, OrderOK
  <2> QED
    BY <2>1, <2>2, <2>3 DEF GraphIsRight
<1> QED
  BY <1>1, GraphInvariantHolds, PTL

-----------------------------------------------------------------------------
(* The clause that a match runs. *)

\* A set of places of a sequence that is not empty has a least member.
LEMMA LeastIsIn ==
  ASSUME NEW is \in SUBSET Nat, is # {}
  PROVE  Matches!Least(is) \in is /\ \A j \in is : Matches!Least(is) <= j
<1>1. PICK i \in is : \A j \in is : i <= j
  BY LeastOf
<1> QED
  BY <1>1 DEF Matches!Least

\* Clauses as the grammar has them.
Clauses(cs) ==
  /\ \E S : cs \in Seq(S)
  /\ \A i \in DOMAIN cs : cs[i].pattern.kind \in {"wildcard", "binding", "variant"}

LEMMA Places ==
  ASSUME NEW cs, Clauses(cs)
  PROVE  DOMAIN cs \in SUBSET Nat /\ 0 \notin DOMAIN cs /\ \A i \in DOMAIN cs : i <= Len(cs)
<1>1. PICK S : cs \in Seq(S)
  BY DEF Clauses
<1>2. DOMAIN cs = 1 .. Len(cs) /\ Len(cs) \in Nat
  BY <1>1
<1> QED
  BY <1>2

\* A default fits every value.
LEMMA DefaultsFit ==
  ASSUME NEW cs, Clauses(cs), NEW v, NEW i \in Matches!Defaults(cs)
  PROVE  i \in DOMAIN cs /\ Matches!Fits(cs[i], v)
BY DEF Clauses, Matches!Defaults, Matches!treatAsDefault, Matches!Fits, Matches!Guarded, Matches!isWildcard, Matches!isBindingPattern

\* In an accepted match whose default is the last clause the first clause that
\* fits is the one that runs, whatever the patterns, the guards and the value are,
\* and however many clauses there are (match.go:902-917).
THEOREM TheFirstMatchWins ==
  ASSUME NEW form, NEW variants, NEW cs, Clauses(cs), NEW v
  PROVE  Matches!FirstMatchWins(form, variants, cs, v)
<1> SUFFICES ASSUME Matches!DefaultIsLast(cs)
             PROVE  Matches!Chosen(cs, v) = Matches!FirstFitting(cs, v)
  BY DEF Matches!FirstMatchWins
<1> DEFINE defaults == Matches!Defaults(cs)
           fitting == {i \in DOMAIN cs : Matches!Fits(cs[i], v)}
           chain == {i \in DOMAIN cs \ defaults : Matches!Fits(cs[i], v)}
<1>1. fitting = chain \cup defaults
  BY DefaultsFit
<1>2. \A i \in defaults : i = Len(cs) /\ i \in DOMAIN cs
  BY DefaultsFit DEF Matches!DefaultIsLast
<1>3. fitting \in SUBSET Nat /\ chain \in SUBSET Nat /\ \A i \in fitting : i <= Len(cs)
  BY Places
<1>4. Matches!Chosen(cs, v) = IF chain # {} THEN Matches!Least(chain)
                              ELSE IF defaults # {} THEN Matches!Least(defaults) ELSE 0
  BY DEF Matches!Chosen
<1>5. Matches!FirstFitting(cs, v) = IF fitting = {} THEN 0 ELSE Matches!Least(fitting)
  BY DEF Matches!FirstFitting
<1> HIDE DEF defaults, fitting, chain
<1>6. CASE chain = {}
  BY <1>1, <1>4, <1>5, <1>6
<1>7. CASE chain # {}
  <2>1. PICK c : c = Matches!Least(chain)
    OBVIOUS
  <2>2. PICK f : f = Matches!Least(fitting)
    OBVIOUS
  <2>3. c \in chain /\ \A j \in chain : c <= j
    BY <1>3, <1>7, <2>1, LeastIsIn
  <2>4. f \in fitting /\ \A j \in fitting : f <= j
    BY <1>1, <1>3, <1>7, <2>2, LeastIsIn
  <2>5. f <= c /\ c <= Len(cs) /\ c \in Nat /\ f \in Nat
    BY <1>1, <1>3, <2>3, <2>4
  <2>6. f = c
    <3>1. CASE f \in chain
      BY <2>3, <2>5, <3>1
    <3>2. CASE f \notin chain
      <4>1. f = Len(cs)
        BY <1>1, <1>2, <2>4, <3>2
      <4> QED
        BY <2>5, <4>1
    <3> QED
      BY <3>1, <3>2
  <2> QED
    BY <1>1, <1>4, <1>5, <1>7, <2>1, <2>2, <2>6
<1> QED
  BY <1>6, <1>7

\* Without a default no clause catches everything.
LEMMA CatchAllsAreDefaults ==
  ASSUME NEW cs, NEW i \in DOMAIN cs, Matches!isDefaultPattern(cs[i].pattern), ~Matches!Guarded(cs[i])
  PROVE  Matches!Defaults(cs) # {}
BY DEF Matches!Defaults, Matches!treatAsDefault, Matches!hasExplicitWildcard, Matches!isDefaultPattern

\* The panic that stands for the default of an exhaustive match is never reached,
\* for any type and any clauses without guards and compared arguments
\* (match.go:880-889).
THEOREM NothingIsUnreachable ==
  ASSUME NEW variants, NEW cs, Clauses(cs), NEW v
  PROVE  Matches!NeverUnreachable(variants, cs, v)
<1> SUFFICES ASSUME Matches!Accepted("expression", variants, cs), v.variant \in variants,
                    \A i \in DOMAIN cs : Matches!Plain(cs[i])
             PROVE  Matches!Chosen(cs, v) # 0
  BY DEF Matches!NeverUnreachable
<1>1. Matches!transformMatchClauses(variants, cs) \in {"accepted", "unreachable"}
  BY DEF Matches!Accepted, Matches!Verdict
<1>2. Matches!Defaults(cs) # {} \/ Matches!isExhaustiveMatch(variants, cs)
  <2>1. CASE Matches!hasDefault("expression", cs)
    BY <2>1, CatchAllsAreDefaults DEF Matches!hasDefault, Matches!isDefaultPattern
  <2>2. CASE ~Matches!hasDefault("expression", cs)
    BY <1>1, <2>2 DEF Matches!transformMatchClauses, Matches!WithoutDefault
  <2> QED
    BY <2>1, <2>2
<1>3. \E i \in DOMAIN cs : Matches!Fits(cs[i], v)
  <2>1. CASE Matches!Defaults(cs) # {}
    BY <2>1, DefaultsFit
  <2>2. CASE Matches!isExhaustiveMatch(variants, cs)
    <3>1. PICK i \in DOMAIN cs : /\ ~Matches!isDefaultPattern(cs[i].pattern)
                                 /\ cs[i].pattern.name = v.variant
      BY <2>2 DEF Matches!isExhaustiveMatch, Matches!extractVariantName
    <3>2. Matches!Fits(cs[i], v)
      BY <3>1 DEF Matches!Plain, Matches!Fits
    <3> QED
      BY <3>2
  <2> QED
    BY <1>2, <2>1, <2>2
<1>4. DOMAIN cs \in SUBSET Nat /\ 0 \notin DOMAIN cs
  BY Places
<1> DEFINE defaults == Matches!Defaults(cs)
           chain == {i \in DOMAIN cs \ defaults : Matches!Fits(cs[i], v)}
<1>5. /\ chain \in SUBSET Nat /\ 0 \notin chain
      /\ defaults \in SUBSET Nat /\ 0 \notin defaults
      /\ chain # {} \/ defaults # {}
  BY <1>3, <1>4, DefaultsFit
<1>6. Matches!Chosen(cs, v) = IF chain # {} THEN Matches!Least(chain)
                              ELSE IF defaults # {} THEN Matches!Least(defaults) ELSE 0
  BY DEF Matches!Chosen
<1> HIDE DEF defaults, chain
<1>7. CASE chain # {}
  BY <1>5, <1>6, <1>7, LeastIsIn
<1>8. CASE chain = {}
  BY <1>5, <1>6, <1>8, LeastIsIn
<1> QED
  BY <1>7, <1>8

\* Clauses without guards and compared arguments that cover every variant are
\* accepted by both lowerings, for any type (GALA.MD:863).
THEOREM WhatCoversIsAccepted ==
  ASSUME NEW form \in {"expression", "postfix"}, NEW variants, NEW cs, Clauses(cs)
  PROVE  Matches!CoveringIsAccepted(form, variants, cs)
<1> SUFFICES ASSUME \/ \E i \in DOMAIN cs : ~Matches!Guarded(cs[i]) /\ Matches!isDefaultPattern(cs[i].pattern)
                    \/ /\ variants # {}
                       /\ \A n \in variants : \E i \in DOMAIN cs :
                            /\ Matches!Plain(cs[i]) /\ cs[i].pattern.kind = "variant"
                            /\ cs[i].pattern.name = n,
                    \A i, j \in Matches!Defaults(cs) : i = j
             PROVE  Matches!Accepted(form, variants, cs)
  BY DEF Matches!CoveringIsAccepted
<1>1. ~Matches!foundTwice(cs)
  BY DEF Matches!foundTwice
<1>2. cs # << >>
  OBVIOUS
<1>3. Matches!Defaults(cs) # {} \/ (variants # {} /\ Matches!isExhaustiveMatch(variants, cs))
  <2>1. CASE \E i \in DOMAIN cs : ~Matches!Guarded(cs[i]) /\ Matches!isDefaultPattern(cs[i].pattern)
    BY <2>1, CatchAllsAreDefaults
  <2>2. CASE /\ variants # {}
             /\ \A n \in variants : \E i \in DOMAIN cs :
                  /\ Matches!Plain(cs[i]) /\ cs[i].pattern.kind = "variant" /\ cs[i].pattern.name = n
    BY <2>2 DEF Matches!isExhaustiveMatch, Matches!isDefaultPattern, Matches!isWildcard,
                Matches!isBindingPattern, Matches!extractVariantName
  <2> QED
    BY <2>1, <2>2
<1>4. Matches!hasDefault(form, cs) \/ (variants # {} /\ Matches!isExhaustiveMatch(variants, cs))
  BY <1>3 DEF Matches!hasDefault
<1>5. Matches!Verdict(form, variants, cs) \in {"accepted", "unreachable"}
  <2>1. CASE form = "expression"
    BY <1>1, <1>4, <2>1 DEF Matches!Verdict, Matches!transformMatchClauses, Matches!WithoutDefault
  <2>2. CASE form = "postfix"
    BY <1>1, <1>2, <1>4, <2>2 DEF Matches!Verdict, Matches!buildMatchExpressionFromClauses, Matches!WithoutDefault
  <2> QED
    BY <2>1, <2>2
<1> QED
  BY <1>5 DEF Matches!Accepted

-----------------------------------------------------------------------------
(* PackageLoading.  The invariant.                                          *)

AnyVersion == (UNION {Versions(p) : p \in Packages}) \cup {Missing}
Metadata == [version : AnyVersion, saw : [Packages -> AnyVersion], whole : BOOLEAN]
Asts == [Packages -> Metadata]
Callers == Packages \cup {File}
Call == [stage : {"idle", "look", "read", "load", "write", "done"}, found : BOOLEAN, hash : AnyVersion,
         own : Metadata, imports : Seq(Packages), next : Nat, ast : Asts, caller : Callers]

LoadTyped ==
    /\ source \in Sources
    /\ stamp \in [Packages -> Nat \ {0}]
    /\ disk \subseteq [package : Packages, hash : AnyVersion, holds : Metadata]
    /\ prints \in [Processes -> [Packages -> [stamp : Nat, hash : AnyVersion]]]
    /\ met \in [Processes -> SUBSET Packages]
    /\ analyzed \in [Processes -> Asts]
    /\ closure \in [Processes -> [Packages -> SUBSET Packages]]
    /\ unloaded \in [Processes -> SUBSET Packages]
    /\ call \in [Processes -> [Callers -> Call]]
    /\ inner \in [Processes -> Callers]
    /\ blurred \subseteq Packages /\ overtaken \subseteq Packages /\ disturbed \subseteq Processes

\* What is remembered of a directory as it is, is the hash of its source.
PrintsOK ==
    \A i \in Processes : \A p \in Packages :
      /\ prints[i][p].stamp <= stamp[p]
      /\ prints[i][p].stamp # 0 => prints[i][p].hash \in Versions(p)
      /\ Remembered(i, p) /\ p \notin blurred => prints[i][p].hash = source[p]

\* A call works with the hash of the source that it reads.
HashesOK(i) ==
    \A p \in Packages : LET c == call[i][p] IN
      /\ c.stage # "done"
      /\ c.stage # "idle" => c.hash \in Versions(p)
      /\ c.stage \in {"look", "read"} /\ p \notin blurred => c.hash = source[p]
      /\ c.stage # "idle" /\ p \notin blurred /\ (p \notin overtaken \/ i \notin disturbed) => c.hash = source[p]
ContentsOK(i) ==
    \A p \in Packages : LET c == call[i][p] IN c.stage \in {"load", "write"} =>
      /\ c.own.version \in Versions(p) \ {Missing}
      /\ p \notin blurred => c.own.version = c.hash
      /\ c.imports = Imports[p][IF c.found THEN c.hash ELSE c.own.version]
FilesOK ==
    /\ \A e \in disk : e.hash \in Versions(e.package) /\ e.holds.version \in Versions(e.package) \ {Missing}
    /\ \A e, f \in disk : e.package = f.package /\ e.hash = f.hash => e = f
    /\ FilesHoldTheirSource /\ OneFileEach
EvictedOK ==
    \A i \in Processes : \A p \in Packages \ (blurred \cup overtaken) :
      call[i][p].stage = "write" => \A e \in disk : e.package = p => e.hash = call[i][p].hash

\* The calls under way: each but the innermost has called the package that it
\* has to load next.
Active(i) == {p \in Packages : call[i][p].stage # "idle"}
Calls(i, c, p) == /\ call[i][c].stage = "load" /\ call[i][c].next <= Len(call[i][c].imports)
                  /\ call[i][c].imports[call[i][c].next] = p
ActiveOK(i) ==
    /\ Active(i) \subseteq met[i] \ There(analyzed[i]) /\ There(analyzed[i]) \subseteq met[i]
    /\ inner[i] # File => inner[i] \in Active(i) /\ call[i][File].stage = "load"
    /\ call[i][File].stage \in {"idle", "load", "done"} /\ ~Partial(call[i][File])
CallersOK(i) ==
    /\ \A p \in Active(i) : LET c == call[i][p].caller IN
         /\ c # p /\ c \in Active(i) \cup {File} /\ c # inner[i]
         /\ Calls(i, c, p)
    /\ \A p \in Active(i) \ {inner[i]} :
         \E r \in Active(i) : call[i][r].caller = p /\ Calls(i, p, r)

\* The metadata.
AstsOK(i) ==
    /\ \A p \in Packages : closure[i][p] \subseteq There(analyzed[i])
    /\ \A x \in Callers : There(call[i][x].ast) \subseteq There(analyzed[i])
LoopsOK(i) ==
    \A x \in Callers : /\ call[i][x].next \in Nat \ {0}
                       /\ call[i][x].stage \in {"write", "done"} => call[i][x].next > Len(call[i][x].imports)
                       /\ call[i][x].stage \in {"look", "read"} => call[i][x].next = 1 /\ call[i][x].found = FALSE
CurrentOK(i) ==
    i \notin disturbed =>
      \A p \in Packages \ blurred :
        /\ p \in There(analyzed[i]) => analyzed[i][p].version = source[p]
        /\ \A x \in Callers : p \in There(call[i][x].ast) => call[i][x].ast[p].version = source[p]
\* What is met and has no metadata is being loaded, or has failed and is noted.
Gone == {p \in Packages : source[p] = Missing}
Faulty(p) == source[p] = Missing \/ "package" \in Broken[p][source[p]]
MissedOK(i) ==
    /\ met[i] \ There(analyzed[i]) \subseteq Active(i) \cup unloaded[i]
    /\ unloaded[i] \subseteq met[i] \ (There(analyzed[i]) \cup Active(i))
    /\ i \notin disturbed => \A p \in unloaded[i] \ blurred : Faulty(p)

\* With a package of which all files count come its imports, but for lost ones.
Sound(i) == i \notin disturbed /\ blurred = {} /\ ImportsAreOrdered
Closes(ast, lost) == \A p \in There(ast) : ast[p].whole => ImportsNow(p) \subseteq There(ast) \cup lost
Knows(known, below, lost) ==
    \A p \in There(known) : known[p].whole => ImportsNow(p) \subseteq below[p] \cup lost
Passed(c, lost) ==
    ~Partial(c) => \A k \in 1 .. Len(c.imports) : k < c.next => c.imports[k] \in There(c.ast) \cup lost
KnownOK(i) == Sound(i) => Knows(analyzed[i], closure[i], unloaded[i])
ClosedOK(i) == Sound(i) => \A x \in Callers : Closes(call[i][x].ast, unloaded[i])
PassedOK(i) ==
    Sound(i) => \A x \in Callers : call[i][x].stage # "idle" => Passed(call[i][x], unloaded[i])

ProcessOK(i) ==
    /\ HashesOK(i) /\ ContentsOK(i) /\ ActiveOK(i) /\ CallersOK(i) /\ AstsOK(i) /\ LoopsOK(i)
    /\ CurrentOK(i) /\ MissedOK(i) /\ KnownOK(i) /\ ClosedOK(i) /\ PassedOK(i)
LoadIInv ==
    /\ LoadTyped /\ PrintsOK /\ FilesOK /\ EvictedOK
    /\ \A i \in Processes : ProcessOK(i)

-----------------------------------------------------------------------------
(* PackageLoading.  Facts about values.                                     *)

\* A fresh call has no metadata, and is typed.
LEMMA IdleTyped ==
    /\ NoMetadata \in Metadata /\ Nothing \in Asts /\ There(Nothing) = {}
    /\ Idle \in Call /\ Idle.stage = "idle" /\ Idle.next = 1 /\ Idle.caller = File
    /\ There(Idle.ast) = {} /\ ~Partial(Idle)
<1>0. Missing \in AnyVersion
  <2> DEFINE known == UNION {Versions(p) : p \in Packages}
  <2>1. AnyVersion = known \cup {Missing}
    BY DEF AnyVersion
  <2> HIDE DEF known
  <2> QED BY <2>1
<1>1. NoMetadata \in Metadata
  BY <1>0 DEF NoMetadata, Metadata
<1>2. Nothing \in Asts
  BY <1>1 DEF Nothing, Asts
<1>3. There(Nothing) = {}
  <2>1. \A p \in Packages : Nothing[p] = NoMetadata
    BY DEF Nothing
  <2>2. NoMetadata.version = Missing
    BY DEF NoMetadata
  <2> QED BY <2>1, <2>2 DEF There
<1>4. << >> \in Seq(Packages) /\ File \in Callers
  BY DEF Callers
<1>5. Idle \in Call
  BY <1>0, <1>1, <1>2, <1>4 DEF Idle, Call
<1>6. ~Partial(Idle)
  BY DEF Partial, Idle, NoMetadata
<1> QED
  BY <1>1, <1>2, <1>3, <1>5, <1>6 DEF Idle

\* A merge has what either side has, the first one's where both have it.
LEMMA Merges ==
    ASSUME NEW a \in Asts, NEW b \in Asts
    PROVE  /\ Merge(a, b) \in Asts
           /\ There(Merge(a, b)) = There(a) \cup There(b)
           /\ \A p \in There(a) : Merge(a, b)[p] = a[p]
           /\ \A p \in Packages \ There(a) : Merge(a, b)[p] = b[p]
<1>1. \A p \in Packages : Merge(a, b)[p] = IF p \in There(a) THEN a[p] ELSE b[p]
  BY DEF Merge
<1>2. Merge(a, b) \in Asts
  <2> HIDE DEF Metadata
  <2> QED BY DEF Merge, Asts
<1> QED
  BY <1>1, <1>2 DEF There

\* The packages that p reaches are p and, with an analysed one, those below it.
LEMMA Reaches ==
    ASSUME NEW known \in Asts, NEW below \in [Packages -> SUBSET Packages], NEW p \in Packages
    PROVE  /\ p \in Reached(known, below, p) /\ Reached(known, below, p) \subseteq Packages
           /\ \A r \in There(known) \cap Reached(known, below, p) :
                below[r] \subseteq Reached(known, below, p)
<1>1. p \in Reached(known, below, p) /\ Reached(known, below, p) \subseteq Packages
  BY DEF Reached
<1>2. ASSUME NEW r \in There(known) \cap Reached(known, below, p), NEW q \in below[r]
      PROVE  q \in Reached(known, below, p)
  <2>1. r \in Packages /\ q \in Packages
    BY <1>2 DEF There
  <2>2. ASSUME NEW S \in SUBSET Packages, p \in S,
               \A s \in There(known) \cap S : below[s] \subseteq S
        PROVE  q \in S
    <3>1. r \in S
      BY <2>2, <1>2 DEF Reached
    <3> QED BY <3>1, <2>2, <1>2
  <2> QED BY <2>1, <2>2 DEF Reached
<1> QED
  BY <1>1, <1>2

\* Merging the closure of p adds what is analysed of it, and all that it reaches.
Merged(new, ast, known, set) ==
    /\ new \in Asts
    /\ There(new) = There(ast) \cup (There(known) \cap set)
    /\ \A q \in There(new) : new[q] = ast[q] \/ (q \in There(known) /\ new[q] = known[q])
    /\ \A q \in There(ast) : new[q] = ast[q]
LEMMA MergesClosure ==
    ASSUME NEW ast \in Asts, NEW known \in Asts,
           NEW below \in [Packages -> SUBSET Packages], NEW p \in Packages
    PROVE  Merged(mergeAnalyzedClosureAt(ast, known, below, p), ast, known, Reached(known, below, p))
<1>0. PICK new : new = mergeAnalyzedClosureAt(ast, known, below, p)
  OBVIOUS
<1> DEFINE other == [q \in Packages |-> IF q \in Reached(known, below, p) THEN known[q] ELSE NoMetadata]
<1>1. other \in Asts
  <2> HIDE DEF Metadata
  <2> QED BY IdleTyped DEF Asts
<1>2. PICK o \in Asts : o = other
  BY <1>1
<1>3. \A q \in Packages : o[q] = IF q \in Reached(known, below, p) THEN known[q] ELSE NoMetadata
  BY <1>2
<1>4. new = Merge(ast, o)
  BY <1>0, <1>2 DEF mergeAnalyzedClosureAt
<1>5. There(o) = There(known) \cap Reached(known, below, p)
  BY <1>3 DEF There, NoMetadata, Reached
<1>6. \A q \in Packages \ There(ast) : q \in There(o) => o[q] = known[q]
  BY <1>3, <1>5
<1>7. There(new) \subseteq Packages
  BY DEF There
<1> HIDE DEF other
<1>8. Merged(new, ast, known, Reached(known, below, p))
  BY <1>4, <1>5, <1>6, <1>7, Merges DEF Merged
<1> QED
  BY <1>0, <1>8

\* The fields of a call.
LEMMA CallTyped ==
    ASSUME NEW c \in Call
    PROVE  /\ c.ast \in Asts /\ c.imports \in Seq(Packages) /\ c.next \in Nat /\ c.own \in Metadata
           /\ c.hash \in AnyVersion /\ c.caller \in Callers /\ c.found \in BOOLEAN
           /\ Len(c.imports) \in Nat
<1> HIDE DEF Metadata, Asts, AnyVersion, Callers
<1>1. c.imports \in Seq(Packages)
  BY DEF Call
<1> QED BY <1>1 DEF Call

\* One call of one process changes.
LEMMA OneCall ==
    ASSUME call \in [Processes -> [Callers -> Call]], NEW i \in Processes, NEW x \in Callers,
           NEW n \in Call, call' = [call EXCEPT ![i] = [@ EXCEPT ![x] = n]]
    PROVE  /\ call' \in [Processes -> [Callers -> Call]]
           /\ call'[i][x] = n
           /\ \A y \in Callers \ {x} : call'[i][y] = call[i][y]
           /\ \A j \in Processes \ {i} : call'[j] = call[j]
<1> HIDE DEF Call
<1>1. call[i] \in [Callers -> Call]
  OBVIOUS
<1>2. PICK f \in [Callers -> Call] : f = [call[i] EXCEPT ![x] = n]
  BY <1>1
<1>3. f[x] = n /\ \A y \in Callers \ {x} : f[y] = call[i][y]
  BY <1>1, <1>2
<1>4. call' = [call EXCEPT ![i] = f]
  BY <1>2
<1> QED
  BY <1>2, <1>3, <1>4

-----------------------------------------------------------------------------
(* PackageLoading.  What a step of one process leaves alone.                *)

\* The sources and what is known of their edits.
Quiet == UNCHANGED <<source, blurred, overtaken, disturbed>>
LEMMA SourcesStay ==
    ASSUME Quiet
    PROVE  /\ ImportsAreOrdered' = ImportsAreOrdered
           /\ \A p : ImportsNow(p)' = ImportsNow(p)
           /\ \A j : Sound(j)' = Sound(j)
           /\ \A ast, lost : Closes(ast, lost)' = Closes(ast, lost)
           /\ \A known, below, lost : Knows(known, below, lost)' = Knows(known, below, lost)
<1>2. \A p : ImportsNow(p)' = ImportsNow(p)
  BY DEF Quiet, ImportsNow, Elements
<1>3. ImportsAreOrdered' = ImportsAreOrdered
  BY <1>2 DEF ImportsAreOrdered
<1>4. \A j : Sound(j)' = Sound(j)
  BY <1>3 DEF Quiet, Sound
<1>5. \A ast, lost : Closes(ast, lost)' = Closes(ast, lost)
  BY <1>2 DEF Closes, There
<1>6. \A known, below, lost : Knows(known, below, lost)' = Knows(known, below, lost)
  BY <1>2 DEF Knows, There
<1> QED
  BY <1>2, <1>3, <1>4, <1>5, <1>6

\* What closes but for some lost packages, does so but for more.
LEMMA MoreLost ==
    ASSUME NEW lost, NEW more, lost \subseteq more
    PROVE  /\ \A ast : Closes(ast, lost) => Closes(ast, more)
           /\ \A known, below : Knows(known, below, lost) => Knows(known, below, more)
           /\ \A c : Passed(c, lost) => Passed(c, more)
<1>1. \A ast : Closes(ast, lost) => Closes(ast, more)
  BY DEF Closes
<1>2. \A known, below : Knows(known, below, lost) => Knows(known, below, more)
  BY DEF Knows
<1>3. \A c : Passed(c, lost) => Passed(c, more)
  BY DEF Passed
<1> QED BY <1>1, <1>2, <1>3

\* Another process is where it was.
LEMMA OthersStay ==
    ASSUME NEW j \in Processes, ProcessOK(j),
           UNCHANGED <<source, blurred, overtaken>>, (j \in disturbed') = (j \in disturbed),
           met'[j] = met[j], analyzed'[j] = analyzed[j], closure'[j] = closure[j], unloaded'[j] = unloaded[j],
           call'[j] = call[j], inner'[j] = inner[j]
    PROVE  ProcessOK(j)'
<1>0. /\ Active(j)' = Active(j)
      /\ \A c, p : Calls(j, c, p)' = Calls(j, c, p)
      /\ \A ast : There(ast)' = There(ast)
  BY DEF Active, Calls, There
<1>00. /\ Sound(j)' = Sound(j)
       /\ \A ast, lost : Closes(ast, lost)' = Closes(ast, lost)
       /\ \A known, below, lost : Knows(known, below, lost)' = Knows(known, below, lost)
       /\ \A d, lost : Passed(d, lost)' = Passed(d, lost)
  <2>2. \A p : ImportsNow(p)' = ImportsNow(p)
    BY DEF ImportsNow, Elements
  <2>3. ImportsAreOrdered' = ImportsAreOrdered
    BY <2>2 DEF ImportsAreOrdered
  <2>4. Sound(j)' = Sound(j)
    BY <2>3 DEF Sound
  <2>5. \A ast, lost : Closes(ast, lost)' = Closes(ast, lost)
    BY <2>2 DEF Closes, There
  <2>6. \A known, below, lost : Knows(known, below, lost)' = Knows(known, below, lost)
    BY <2>2 DEF Knows, There
  <2>7. \A d, lost : Passed(d, lost)' = Passed(d, lost)
    BY DEF Passed, Partial, There
  <2> QED BY <2>4, <2>5, <2>6, <2>7
<1>1. HashesOK(j)'
  BY DEF ProcessOK, HashesOK
<1>2. ContentsOK(j)'
  BY DEF ProcessOK, ContentsOK
<1>3. ActiveOK(j)'
  BY <1>0 DEF ProcessOK, ActiveOK, Partial
<1>4. CallersOK(j)'
  BY <1>0 DEF ProcessOK, CallersOK
<1>5. AstsOK(j)'
  BY DEF ProcessOK, AstsOK
<1>6. LoopsOK(j)'
  BY DEF ProcessOK, LoopsOK
<1>7. CurrentOK(j)'
  BY DEF ProcessOK, CurrentOK
<1>8. MissedOK(j)'
  BY <1>0 DEF ProcessOK, MissedOK, Faulty
<1>9. KnownOK(j)'
  BY <1>00 DEF ProcessOK, KnownOK
<1>10. ClosedOK(j)'
  BY <1>00 DEF ProcessOK, ClosedOK
<1>11. PassedOK(j)'
  BY <1>00 DEF ProcessOK, PassedOK
<1> QED
  BY <1>1, <1>2, <1>3, <1>4, <1>5, <1>6, <1>7, <1>8, <1>9, <1>10, <1>11 DEF ProcessOK

\* What a call has is right: what it loaded, and what it knows by now.
RightHash(i, p, c) ==
    /\ c.stage # "done"
    /\ c.stage # "idle" => c.hash \in Versions(p)
    /\ c.stage \in {"look", "read"} /\ p \notin blurred => c.hash = source[p]
    /\ c.stage # "idle" /\ p \notin blurred /\ (p \notin overtaken \/ i \notin disturbed) => c.hash = source[p]
RightContents(p, c) ==
    c.stage \in {"load", "write"} =>
      /\ c.own.version \in Versions(p) \ {Missing}
      /\ p \notin blurred => c.own.version = c.hash
      /\ c.imports = Imports[p][IF c.found THEN c.hash ELSE c.own.version]
RightAst(i, c, lost) ==
    /\ There(c.ast) \subseteq There(analyzed[i])
    /\ i \notin disturbed => \A p \in There(c.ast) \ blurred : c.ast[p].version = source[p]
    /\ Sound(i) => Closes(c.ast, lost)
    /\ Sound(i) /\ c.stage # "idle" => Passed(c, lost)
RightLoop(c) ==
    /\ c.next \in Nat \ {0}
    /\ c.stage \in {"write", "done"} => c.next > Len(c.imports)
    /\ c.stage \in {"look", "read"} => c.next = 1 /\ c.found = FALSE

\* The innermost call of a process goes on.
LEMMA TopStep ==
    ASSUME LoadTyped, NEW i \in Processes, ProcessOK(i), Quiet,
           analyzed' = analyzed, closure' = closure, inner' = inner,
           NEW t, t = inner[i], NEW c, c = call[i][t], NEW n \in Call,
           call' = [call EXCEPT ![i] = [@ EXCEPT ![t] = n]],
           NEW g \in SUBSET Gone, g \cap met[i] = {},
           met'[i] = met[i] \cup g, unloaded'[i] = unloaded[i] \cup g,
           c.stage # "idle", n.stage # "idle", n.caller = c.caller, n.hash = c.hash,
           t = File => c.stage = "load" /\ n.stage \in {"load", "done"} /\ ~Partial(n),
           t # File => n.stage # "done" /\ RightContents(t, n),
           n.stage \in {"look", "read"} => c.stage \in {"look", "read"},
           RightAst(i, n, unloaded'[i]), RightLoop(n)
    PROVE  ProcessOK(i)'
<1> HIDE DEF Call
<1>1. t \in Callers /\ \A p \in Packages : p # File
  BY LoadAssumption DEF LoadTyped
<1>2. /\ call'[i][t] = n
      /\ \A y \in Callers \ {t} : call'[i][y] = call[i][y]
  BY <1>1, OneCall DEF LoadTyped
<1>3. Callers = Packages \cup {File}
  BY DEF Callers
<1>4. /\ Active(i)' = Active(i)
      /\ \A x, p : x \in Callers \ {t} => Calls(i, x, p)' = Calls(i, x, p)
      /\ \A ast : There(ast)' = There(ast)
  <2>1. \A p \in Packages : (call'[i][p].stage # "idle") = (call[i][p].stage # "idle")
    BY <1>2, <1>3
  <2> QED BY <2>1, <1>2 DEF Active, Calls, There
<1>5. HashesOK(i)'
  <2> SUFFICES ASSUME NEW p \in Packages
               PROVE  LET d == call'[i][p] IN
                      /\ d.stage # "done"
                      /\ d.stage # "idle" => d.hash \in Versions(p)
                      /\ d.stage \in {"look", "read"} /\ p \notin blurred => d.hash = source[p]
                      /\ d.stage # "idle" /\ p \notin blurred /\ (p \notin overtaken \/ i \notin disturbed)
                           => d.hash = source[p]
    BY DEF HashesOK, Quiet
  <2> QED BY <1>1, <1>2, <1>3 DEF ProcessOK, HashesOK
<1>6. ContentsOK(i)'
  <2> SUFFICES ASSUME NEW p \in Packages PROVE RightContents(p, call'[i][p])
    BY DEF ContentsOK, RightContents, Quiet
  <2>1. CASE p = t
    BY <2>1, <1>1, <1>2
  <2>2. CASE p # t
    BY <2>2, <1>2, <1>3 DEF ProcessOK, ContentsOK, RightContents
  <2> QED BY <2>1, <2>2
<1>7. ActiveOK(i)'
  <2>1. Active(i)' \subseteq met'[i] \ There(analyzed[i]) /\ There(analyzed[i]) \subseteq met'[i]
    BY <1>4 DEF ProcessOK, ActiveOK
  <2>2. inner'[i] # File => inner'[i] \in Active(i)' /\ call'[i][File].stage = "load"
    BY <1>1, <1>2, <1>3, <1>4 DEF ProcessOK, ActiveOK
  <2>3. call'[i][File].stage \in {"idle", "load", "done"} /\ ~Partial(call'[i][File])
    BY <1>1, <1>2, <1>3 DEF ProcessOK, ActiveOK
  <2> QED BY <2>1, <2>2, <2>3, <1>4 DEF ActiveOK, Partial
<1>8. CallersOK(i)'
  <2>1. ASSUME NEW p \in Active(i), NEW x, x = call'[i][p].caller
        PROVE  /\ x # p /\ x \in Active(i) \cup {File} /\ x # inner[i]
               /\ Calls(i, x, p)'
    <3>1. p \in Packages /\ x = call[i][p].caller
      BY <2>1, <1>2, <1>3 DEF Active
    <3>2. x # p /\ x \in Active(i) \cup {File} /\ x # inner[i] /\ Calls(i, x, p)
      BY <3>1 DEF ProcessOK, CallersOK
    <3>3. x \in Callers \ {t}
      BY <3>2, <1>3 DEF Active
    <3> QED BY <3>2, <3>3, <1>4
  <2>2. ASSUME NEW p \in Active(i) \ {inner[i]}
        PROVE  \E r \in Active(i) : call'[i][r].caller = p /\ Calls(i, p, r)'
    <3>1. PICK r \in Active(i) : call[i][r].caller = p /\ Calls(i, p, r)
      BY DEF ProcessOK, CallersOK
    <3>2. call'[i][r].caller = p
      BY <3>1, <1>2, <1>3 DEF Active
    <3>3. p \in Callers \ {t}
      BY <1>3 DEF Active
    <3> QED BY <3>1, <3>2, <3>3, <1>4
  <2> QED BY <2>1, <2>2, <1>4 DEF CallersOK
<1>9. AstsOK(i)'
  <2>1. \A p \in Packages : closure'[i][p] \subseteq There(analyzed'[i])
    BY DEF ProcessOK, AstsOK
  <2>2. \A x \in Callers : There(call'[i][x].ast) \subseteq There(analyzed'[i])
    BY <1>2 DEF ProcessOK, AstsOK, RightAst
  <2> QED BY <2>1, <2>2, <1>4 DEF AstsOK
<1>10. LoopsOK(i)'
  BY <1>2 DEF ProcessOK, LoopsOK, RightLoop
<1>11. CurrentOK(i)'
  <2> SUFFICES ASSUME i \notin disturbed, NEW p \in Packages \ blurred
               PROVE  /\ p \in There(analyzed[i]) => analyzed[i][p].version = source[p]
                      /\ \A x \in Callers : p \in There(call'[i][x].ast) => call'[i][x].ast[p].version = source[p]
    BY <1>4 DEF CurrentOK, Quiet
  <2> QED BY <1>2 DEF ProcessOK, CurrentOK, RightAst
<1>12. MissedOK(i)'
  <2>1. \A q \in g : q \notin There(analyzed[i]) /\ q \notin Active(i) /\ Faulty(q)
    BY DEF ProcessOK, ActiveOK, Gone, Faulty
  <2> QED BY <2>1, <1>4 DEF ProcessOK, MissedOK, Quiet, Faulty
<1>13. KnownOK(i)'
  BY SourcesStay, MoreLost DEF ProcessOK, KnownOK
<1>14. ClosedOK(i)'
  <2> SUFFICES ASSUME Sound(i), NEW x \in Callers PROVE Closes(call'[i][x].ast, unloaded'[i])
    BY SourcesStay DEF ClosedOK
  <2> QED BY <1>2, MoreLost DEF ProcessOK, ClosedOK, RightAst
<1>15. PassedOK(i)'
  <2> SUFFICES ASSUME Sound(i), NEW x \in Callers, call'[i][x].stage # "idle"
               PROVE  Passed(call'[i][x], unloaded'[i])
    BY SourcesStay, <1>4 DEF PassedOK, Passed, Partial
  <2>1. CASE x = t
    BY <2>1, <1>2 DEF RightAst
  <2>2. CASE x # t
    BY <2>2, <1>2, MoreLost DEF ProcessOK, PassedOK
  <2> QED BY <2>1, <2>2
<1> QED
  BY <1>5, <1>6, <1>7, <1>8, <1>9, <1>10, <1>11, <1>12, <1>13, <1>14, <1>15 DEF ProcessOK

\* A call begins.
LEMMA CallBegins ==
    ASSUME LoadTyped, NEW i \in Processes, ProcessOK(i), Quiet,
           analyzed' = analyzed, closure' = closure, unloaded' = unloaded,
           HasNext(i), NEW p, p = NextImport(i), p \in Packages, p \notin met[i],
           NEW n \in Call, n.stage = "look", n.caller = inner[i], n.next = 1, n.found = FALSE, There(n.ast) = {},
           n.hash \in Versions(p), p \notin blurred => n.hash = source[p],
           call' = [call EXCEPT ![i] = [@ EXCEPT ![p] = n]],
           met'[i] = met[i] \cup {p}, inner'[i] = p
    PROVE  ProcessOK(i)'
<1> HIDE DEF Call
<1>1. PICK t \in Callers : t = inner[i]
  BY DEF LoadTyped
<1>2. /\ call'[i][p] = n
      /\ \A y \in Callers \ {p} : call'[i][y] = call[i][y]
  BY OneCall DEF LoadTyped, Callers
<1>3. Callers = Packages \cup {File} /\ \A q \in Packages : q # File
  BY LoadAssumption DEF Callers
<1>4. /\ p \notin Active(i) /\ p # t /\ Calls(i, t, p) /\ call[i][t].stage = "load"
      /\ t # File => t \in Active(i)
  <2>1. p \notin Active(i)
    BY DEF ProcessOK, ActiveOK
  <2>2. t # File => t \in Active(i)
    BY <1>1 DEF ProcessOK, ActiveOK
  <2>3. Calls(i, t, p) /\ call[i][t].stage = "load"
    BY <1>1 DEF HasNext, NextImport, Current, Calls
  <2> QED BY <2>1, <2>2, <2>3, <1>1, <1>3
<1>5. /\ Active(i)' = Active(i) \cup {p}
      /\ \A x, q : x \in Callers \ {p} => Calls(i, x, q)' = Calls(i, x, q)
      /\ \A ast : There(ast)' = There(ast)
  <2>1. \A q \in Packages \ {p} : call'[i][q] = call[i][q]
    BY <1>2, <1>3
  <2> QED BY <2>1, <1>2 DEF Active, Calls, There
<1>6. HashesOK(i)'
  <2> SUFFICES ASSUME NEW q \in Packages
               PROVE  LET d == call'[i][q] IN
                      /\ d.stage # "done"
                      /\ d.stage # "idle" => d.hash \in Versions(q)
                      /\ d.stage \in {"look", "read"} /\ q \notin blurred => d.hash = source[q]
                      /\ d.stage # "idle" /\ q \notin blurred /\ (q \notin overtaken \/ i \notin disturbed)
                           => d.hash = source[q]
    BY DEF HashesOK, Quiet
  <2> QED BY <1>2, <1>3 DEF ProcessOK, HashesOK
<1>7. ContentsOK(i)'
  <2> SUFFICES ASSUME NEW q \in Packages PROVE RightContents(q, call'[i][q])
    BY DEF ContentsOK, RightContents, Quiet
  <2> QED BY <1>2, <1>3 DEF ProcessOK, ContentsOK, RightContents
<1>8. ActiveOK(i)'
  <2>1. Active(i)' \subseteq met'[i] \ There(analyzed[i]) /\ There(analyzed[i]) \subseteq met'[i]
    BY <1>5 DEF ProcessOK, ActiveOK
  <2>2. call'[i][File] = call[i][File] /\ call[i][File].stage = "load"
    BY <1>1, <1>2, <1>3, <1>4 DEF ProcessOK, ActiveOK
  <2>3. ~Partial(call'[i][File])
    BY <2>2 DEF ProcessOK, ActiveOK
  <2> QED BY <2>1, <2>2, <2>3, <1>5 DEF ActiveOK, Partial
<1>9. CallersOK(i)'
  <2>1. ASSUME NEW q \in Active(i)', NEW x, x = call'[i][q].caller
        PROVE  /\ x # q /\ x \in Active(i)' \cup {File} /\ x # p
               /\ Calls(i, x, q)'
    <3>1. CASE q = p
      <4>1. x = t
        BY <3>1, <2>1, <1>1, <1>2
      <4> QED BY <4>1, <3>1, <1>4, <1>5, <1>3
    <3>2. CASE q # p
      <4>1. q \in Active(i) /\ x = call[i][q].caller
        BY <3>2, <2>1, <1>2, <1>3, <1>5 DEF Active
      <4>2. x # q /\ x \in Active(i) \cup {File} /\ Calls(i, x, q)
        BY <4>1 DEF ProcessOK, CallersOK
      <4>3. x \in Callers \ {p}
        BY <4>2, <1>3, <1>4 DEF Active
      <4> QED BY <4>2, <4>3, <1>5
    <3> QED BY <3>1, <3>2
  <2>2. ASSUME NEW q \in Active(i)' \ {p}
        PROVE  \E r \in Active(i)' : call'[i][r].caller = q /\ Calls(i, q, r)'
    <3>1. q \in Active(i) /\ q \in Callers \ {p}
      BY <1>5, <1>3 DEF Active
    <3>2. CASE q = t
      BY <3>1, <3>2, <1>1, <1>2, <1>4, <1>5
    <3>3. CASE q # t
      <4>1. PICK r \in Active(i) : call[i][r].caller = q /\ Calls(i, q, r)
        BY <3>1, <3>3, <1>1 DEF ProcessOK, CallersOK
      <4>2. call'[i][r].caller = q
        BY <4>1, <1>2, <1>3, <1>4 DEF Active
      <4> QED BY <4>1, <4>2, <3>1, <1>5
    <3> QED BY <3>2, <3>3
  <2> QED BY <2>1, <2>2 DEF CallersOK
<1>10. AstsOK(i)'
  <2>1. \A q \in Packages : closure'[i][q] \subseteq There(analyzed'[i])
    BY DEF ProcessOK, AstsOK
  <2>2. \A x \in Callers : There(call'[i][x].ast) \subseteq There(analyzed'[i])
    BY <1>2 DEF ProcessOK, AstsOK
  <2> QED BY <2>1, <2>2, <1>5 DEF AstsOK
<1>11. LoopsOK(i)'
  BY <1>2 DEF ProcessOK, LoopsOK
<1>12. CurrentOK(i)'
  <2> SUFFICES ASSUME i \notin disturbed, NEW q \in Packages \ blurred
               PROVE  /\ q \in There(analyzed[i]) => analyzed[i][q].version = source[q]
                      /\ \A x \in Callers : q \in There(call'[i][x].ast) => call'[i][x].ast[q].version = source[q]
    BY <1>5 DEF CurrentOK, Quiet
  <2> QED BY <1>2 DEF ProcessOK, CurrentOK
<1>13. MissedOK(i)'
  BY <1>5 DEF ProcessOK, MissedOK, Quiet, Faulty
<1>14. KnownOK(i)'
  BY SourcesStay DEF ProcessOK, KnownOK
<1>15. ClosedOK(i)'
  <2> SUFFICES ASSUME Sound(i), NEW x \in Callers PROVE Closes(call'[i][x].ast, unloaded[i])
    BY SourcesStay DEF ClosedOK
  <2>1. Closes(n.ast, unloaded[i])
    BY DEF Closes
  <2> QED BY <2>1, <1>2 DEF ProcessOK, ClosedOK
<1>16. PassedOK(i)'
  <2> SUFFICES ASSUME Sound(i), NEW x \in Callers, call'[i][x].stage # "idle"
               PROVE  Passed(call'[i][x], unloaded'[i])
    BY SourcesStay, <1>5 DEF PassedOK, Passed, Partial
  <2>1. CASE x = p
    BY <2>1, <1>2, CallTyped DEF Passed
  <2> QED BY <2>1, <1>2 DEF ProcessOK, PassedOK
<1> QED
  BY <1>6, <1>7, <1>8, <1>9, <1>10, <1>11, <1>12, <1>13, <1>14, <1>15, <1>16 DEF ProcessOK

\* A call ends, with or without a result; its caller goes on.
GoesOn(n, d) == /\ n.stage = d.stage /\ n.imports = d.imports /\ n.caller = d.caller
                /\ n.hash = d.hash /\ n.own = d.own /\ n.found = d.found /\ n.next = d.next + 1
Stores(i, t) ==
    /\ There(analyzed[i]) \subseteq There(analyzed'[i])
    /\ There(analyzed'[i]) \subseteq There(analyzed[i]) \cup {t}
    /\ \A p \in There(analyzed[i]) : analyzed'[i][p] = analyzed[i][p]
    /\ \A p \in Packages : closure'[i][p] \subseteq There(analyzed'[i])
    /\ i \notin disturbed /\ t \in There(analyzed'[i]) \ blurred => analyzed'[i][t].version = source[t]
    /\ Sound(i) => Knows(analyzed'[i], closure'[i], unloaded'[i])
Notes(i, t) ==
    /\ unloaded'[i] = unloaded[i] \cup ({t} \ There(analyzed'[i]))
    /\ i \notin disturbed /\ t \notin There(analyzed'[i]) \cup blurred => Faulty(t)
Learns(i, n) ==
    /\ There(n.ast) \subseteq There(analyzed'[i])
    /\ i \notin disturbed => \A p \in There(n.ast) \ blurred : n.ast[p].version = source[p]
    /\ Sound(i) => Closes(n.ast, unloaded'[i]) /\ Passed(n, unloaded'[i])
LEMMA CallEnds ==
    ASSUME LoadTyped, NEW i \in Processes, ProcessOK(i), Quiet,
           NEW t \in Packages, t = inner[i], NEW u, u = call[i][t].caller,
           NEW n \in Call, GoesOn(n, call[i][u]),
           call' = [call EXCEPT ![i] = [@ EXCEPT ![t] = Idle, ![u] = n]],
           met' = met, inner'[i] = u, Stores(i, t), Notes(i, t), Learns(i, n)
    PROVE  ProcessOK(i)'
<1> HIDE DEF Call
<1>0. Callers = Packages \cup {File} /\ \A q \in Packages : q # File
  BY LoadAssumption DEF Callers
<1>1. t \in Active(i) /\ u # t /\ u \in Active(i) \cup {File} /\ u \in Callers /\ Calls(i, u, t)
  <2>1. t \in Active(i)
    BY <1>0 DEF ProcessOK, ActiveOK
  <2>2. u # t /\ u \in Active(i) \cup {File} /\ Calls(i, u, t)
    BY <2>1 DEF ProcessOK, CallersOK
  <2> QED BY <2>1, <2>2, <1>0 DEF Active
<1>2. /\ call'[i][t] = Idle /\ call'[i][u] = n
      /\ \A y \in Callers \ {t, u} : call'[i][y] = call[i][y]
  <2>1. call[i] \in [Callers -> Call]
    BY DEF LoadTyped
  <2>2. PICK f : f = [call[i] EXCEPT ![t] = Idle, ![u] = n]
    OBVIOUS
  <2>3. f[t] = Idle /\ f[u] = n /\ \A y \in Callers \ {t, u} : f[y] = call[i][y]
    BY <2>1, <2>2, <1>0, <1>1
  <2>4. call' = [call EXCEPT ![i] = f]
    BY <2>2
  <2>5. call'[i] = f
    BY <2>4 DEF LoadTyped
  <2> QED BY <2>3, <2>5
<1>3. /\ Active(i)' = Active(i) \ {t}
      /\ \A x, q : x \in Callers \ {t, u} => Calls(i, x, q)' = Calls(i, x, q)
      /\ \A ast : There(ast)' = There(ast)
  <2>1. \A q \in Packages \ {t} : (call'[i][q].stage # "idle") = (call[i][q].stage # "idle")
    <3> SUFFICES ASSUME NEW q \in Packages \ {t}
                 PROVE  (call'[i][q].stage # "idle") = (call[i][q].stage # "idle")
      OBVIOUS
    <3> QED BY <1>2, <1>0 DEF GoesOn
  <2>2. call'[i][t].stage = "idle"
    BY <1>2, IdleTyped
  <2> QED BY <2>1, <2>2, <1>2 DEF Active, Calls, There
<1>4. PICK d : d = call[i][u]
  OBVIOUS
<1>42. \A q \in Packages \ {t} : call'[i][q].caller = call[i][q].caller
  <2> SUFFICES ASSUME NEW q \in Packages \ {t} PROVE call'[i][q].caller = call[i][q].caller
    OBVIOUS
  <2>1. CASE q = u
    BY <2>1, <1>2 DEF GoesOn
  <2>2. CASE q # u
    BY <2>2, <1>0, <1>2
  <2> QED BY <2>1, <2>2
<1>41. d.stage = "load" /\ n.stage = "load" /\ n.hash = d.hash /\ n.own = d.own /\ n.found = d.found
       /\ n.imports = d.imports /\ n.caller = d.caller /\ n.next = d.next + 1
  BY <1>1, <1>4 DEF Calls, GoesOn
<1>5. HashesOK(i)'
  <2> SUFFICES ASSUME NEW p \in Packages PROVE RightHash(i, p, call'[i][p])
    BY DEF HashesOK, RightHash, Quiet
  <2>1. CASE p = t
    BY <2>1, <1>2, IdleTyped DEF RightHash
  <2>2. CASE p = u
    <3>1. RightHash(i, p, d)
      BY <2>2, <1>4 DEF ProcessOK, HashesOK, RightHash
    <3>2. RightHash(i, p, n)
      BY <3>1, <1>41 DEF RightHash
    <3> QED BY <3>2, <2>2, <1>2
  <2>3. CASE p # t /\ p # u
    <3>1. RightHash(i, p, call[i][p])
      BY DEF ProcessOK, HashesOK, RightHash
    <3> QED BY <3>1, <2>3, <1>0, <1>2
  <2> QED BY <2>1, <2>2, <2>3
<1>6. ContentsOK(i)'
  <2> SUFFICES ASSUME NEW p \in Packages PROVE RightContents(p, call'[i][p])
    BY DEF ContentsOK, RightContents, Quiet
  <2>1. CASE p = t
    BY <2>1, <1>2, IdleTyped DEF RightContents
  <2>2. CASE p = u
    <3>1. RightContents(p, d)
      BY <2>2, <1>4 DEF ProcessOK, ContentsOK, RightContents
    <3>2. RightContents(p, n)
      BY <3>1, <1>41 DEF RightContents
    <3> QED BY <3>2, <2>2, <1>2
  <2>3. CASE p # t /\ p # u
    <3>1. RightContents(p, call[i][p])
      BY DEF ProcessOK, ContentsOK, RightContents
    <3> QED BY <3>1, <2>3, <1>0, <1>2
  <2> QED BY <2>1, <2>2, <2>3
<1>7. ActiveOK(i)'
  <2>1. Active(i)' \subseteq met'[i] \ There(analyzed'[i])
    BY <1>3 DEF ProcessOK, ActiveOK, Stores
  <2>2. There(analyzed'[i]) \subseteq met'[i]
    BY <1>1 DEF ProcessOK, ActiveOK, Stores
  <2>3. call'[i][File].stage = call[i][File].stage
    BY <1>0, <1>2, <1>4, <1>41
  <2>4. inner'[i] # File => inner'[i] \in Active(i)' /\ call'[i][File].stage = "load"
    BY <2>3, <1>0, <1>1, <1>3 DEF ProcessOK, ActiveOK
  <2>5. call'[i][File].stage \in {"idle", "load", "done"}
    BY <2>3 DEF ProcessOK, ActiveOK
  <2>6. ~Partial(call'[i][File])
    <3>1. call'[i][File].found = call[i][File].found /\ call'[i][File].own = call[i][File].own
      BY <1>0, <1>2, <1>4, <1>41
    <3> QED BY <3>1 DEF ProcessOK, ActiveOK, Partial
  <2> QED BY <2>1, <2>2, <2>4, <2>5, <2>6, <1>3 DEF ActiveOK, Partial
<1>8. CallersOK(i)'
  <2>1. ASSUME NEW q \in Active(i)', NEW x, x = call'[i][q].caller
        PROVE  /\ x # q /\ x \in Active(i)' \cup {File} /\ x # u
               /\ Calls(i, x, q)'
    <3>1. q \in Active(i) \ {t} /\ q \in Packages /\ x = call[i][q].caller
      BY <2>1, <1>3, <1>42 DEF Active
    <3>2. x # q /\ x \in Active(i) \cup {File} /\ x # t /\ Calls(i, x, q)
      BY <3>1 DEF ProcessOK, CallersOK
    <3>3. x # u
      BY <3>1, <3>2, <1>1 DEF Calls
    <3>4. x \in Callers \ {t, u}
      BY <3>2, <3>3, <1>0 DEF Active
    <3> QED BY <3>2, <3>3, <3>4, <1>3
  <2>2. ASSUME NEW q \in Active(i)' \ {u}
        PROVE  \E r \in Active(i)' : call'[i][r].caller = q /\ Calls(i, q, r)'
    <3>1. q \in Active(i) \ {t} /\ q \in Callers \ {t, u}
      BY <1>3, <1>0 DEF Active
    <3>2. PICK r \in Active(i) : call[i][r].caller = q /\ Calls(i, q, r)
      BY <3>1 DEF ProcessOK, CallersOK
    <3>3. r # t
      BY <3>1, <3>2
    <3>4. call'[i][r].caller = q
      BY <3>2, <3>3, <1>42 DEF Active
    <3> QED BY <3>1, <3>2, <3>3, <3>4, <1>3
  <2> QED BY <2>1, <2>2 DEF CallersOK
<1>9. AstsOK(i)'
  <2>1. \A x \in Callers : There(call'[i][x].ast) \subseteq There(analyzed'[i])
    BY <1>2, IdleTyped DEF ProcessOK, AstsOK, Stores, Learns
  <2> QED BY <2>1, <1>3 DEF AstsOK, Stores
<1>10. LoopsOK(i)'
  <2>1. RightLoop(Idle)
    BY IdleTyped DEF RightLoop
  <2>2. d.next \in Nat \ {0}
    BY <1>1, <1>4 DEF ProcessOK, LoopsOK
  <2>3. RightLoop(n)
    BY <2>2, <1>41 DEF RightLoop
  <2> SUFFICES ASSUME NEW x \in Callers PROVE RightLoop(call'[i][x])
    BY DEF LoopsOK, RightLoop
  <2>4. CASE x \notin {t, u}
    BY <2>4, <1>2 DEF ProcessOK, LoopsOK, RightLoop
  <2> QED BY <2>1, <2>3, <2>4, <1>2
<1>11. CurrentOK(i)'
  <2> SUFFICES ASSUME i \notin disturbed, NEW p \in Packages \ blurred
               PROVE  /\ p \in There(analyzed'[i]) => analyzed'[i][p].version = source[p]
                      /\ \A x \in Callers : p \in There(call'[i][x].ast) => call'[i][x].ast[p].version = source[p]
    BY <1>3 DEF CurrentOK, Quiet
  <2>1. p \in There(analyzed'[i]) => analyzed'[i][p].version = source[p]
    BY DEF ProcessOK, CurrentOK, Stores
  <2>2. ASSUME NEW x \in Callers, p \in There(call'[i][x].ast)
        PROVE  call'[i][x].ast[p].version = source[p]
    <3>1. x # t
      BY <2>2, <1>2, IdleTyped
    <3>2. CASE x = u
      BY <2>2, <3>2, <1>2 DEF Learns
    <3>3. CASE x # u
      <4>1. CurrentOK(i)
        BY DEF ProcessOK
      <4>2. p \in There(call[i][x].ast) => call[i][x].ast[p].version = source[p]
        BY <4>1 DEF CurrentOK
      <4>3. call'[i][x] = call[i][x]
        BY <3>1, <3>3, <1>2
      <4> QED BY <2>2, <4>2, <4>3
    <3> QED BY <3>2, <3>3
  <2> QED BY <2>1, <2>2
<1>12. MissedOK(i)'
  <2>1. t \in met[i] /\ t \notin There(analyzed[i])
    BY <1>1 DEF ProcessOK, ActiveOK
  <2>2. met'[i] \ There(analyzed'[i]) \subseteq (Active(i) \ {t}) \cup unloaded'[i]
    BY DEF ProcessOK, MissedOK, Stores, Notes
  <2>3. unloaded'[i] \subseteq met'[i] \ (There(analyzed'[i]) \cup (Active(i) \ {t}))
    BY <2>1, <1>1 DEF ProcessOK, MissedOK, Stores, Notes
  <2>4. i \notin disturbed => \A p \in unloaded'[i] \ blurred : Faulty(p)
    BY DEF ProcessOK, MissedOK, Notes
  <2> QED BY <2>2, <2>3, <2>4, <1>3 DEF MissedOK, Quiet, Faulty
<1>13. KnownOK(i)'
  BY SourcesStay DEF KnownOK, Stores
<1>14. ClosedOK(i)'
  <2> SUFFICES ASSUME Sound(i), NEW x \in Callers PROVE Closes(call'[i][x].ast, unloaded'[i])
    BY SourcesStay DEF ClosedOK
  <2>1. Closes(Idle.ast, unloaded'[i])
    BY IdleTyped DEF Closes
  <2>2. unloaded[i] \subseteq unloaded'[i]
    BY DEF Notes
  <2> QED BY <2>1, <2>2, <1>2, MoreLost DEF ProcessOK, ClosedOK, Learns
<1>15. PassedOK(i)'
  <2> SUFFICES ASSUME Sound(i), NEW x \in Callers, call'[i][x].stage # "idle"
               PROVE  Passed(call'[i][x], unloaded'[i])
    BY SourcesStay, <1>3 DEF PassedOK, Passed, Partial
  <2>1. x # t
    BY <1>2, IdleTyped
  <2>2. CASE x = u
    BY <2>2, <1>2 DEF Learns
  <2>3. CASE x # u
    <3>1. unloaded[i] \subseteq unloaded'[i]
      BY DEF Notes
    <3> QED BY <3>1, <2>1, <2>3, <1>2, MoreLost DEF ProcessOK, PassedOK
  <2> QED BY <2>2, <2>3
<1> QED
  BY <1>5, <1>6, <1>7, <1>8, <1>9, <1>10, <1>11, <1>12, <1>13, <1>14, <1>15 DEF ProcessOK

\* The analysis of a file begins, or fails.
LEMMA FileBegins ==
    ASSUME LoadTyped, NEW i \in Processes, ProcessOK(i), Quiet,
           UNCHANGED <<met, analyzed, closure, unloaded, inner>>, inner[i] = File,
           NEW n \in Call, n.stage \in {"idle", "load"}, n.next = 1, There(n.ast) = {}, ~Partial(n),
           call' = [call EXCEPT ![i] = [@ EXCEPT ![File] = n]]
    PROVE  ProcessOK(i)'
<1> HIDE DEF Call
<1>1. Callers = Packages \cup {File} /\ \A q \in Packages : q # File
  BY LoadAssumption DEF Callers
<1>2. call'[i][File] = n /\ \A q \in Packages : call'[i][q] = call[i][q]
  BY <1>1, OneCall DEF LoadTyped
<1>3. /\ Active(i)' = Active(i)
      /\ \A x, q : x \in Packages => Calls(i, x, q)' = Calls(i, x, q)
      /\ \A ast : There(ast)' = There(ast)
  BY <1>2 DEF Active, Calls, There
<1>4. HashesOK(i)'
  BY <1>2 DEF ProcessOK, HashesOK, Quiet
<1>5. ContentsOK(i)'
  BY <1>2 DEF ProcessOK, ContentsOK, Quiet
<1>6. ActiveOK(i)'
  BY <1>2, <1>3 DEF ProcessOK, ActiveOK, Partial
<1>7. CallersOK(i)'
  <2>1. ASSUME NEW q \in Active(i), NEW x, x = call'[i][q].caller
        PROVE  x # q /\ x \in Active(i) \cup {File} /\ x # inner[i] /\ Calls(i, x, q)'
    <3>1. x = call[i][q].caller
      BY <2>1, <1>2 DEF Active
    <3>2. x # q /\ x \in Active(i) \cup {File} /\ x # inner[i] /\ Calls(i, x, q)
      BY <3>1 DEF ProcessOK, CallersOK
    <3>3. x # File
      BY <3>2
    <3> QED BY <3>2, <3>3, <1>3 DEF Active
  <2>2. ASSUME NEW q \in Active(i) \ {inner[i]}
        PROVE  \E r \in Active(i) : call'[i][r].caller = q /\ Calls(i, q, r)'
    <3>1. PICK r \in Active(i) : call[i][r].caller = q /\ Calls(i, q, r)
      BY DEF ProcessOK, CallersOK
    <3> QED BY <3>1, <1>2, <1>3 DEF Active
  <2> QED BY <2>1, <2>2, <1>3 DEF CallersOK
<1>8. AstsOK(i)'
  <2>1. \A x \in Callers : There(call'[i][x].ast) \subseteq There(analyzed[i])
    BY <1>1, <1>2 DEF ProcessOK, AstsOK
  <2> QED BY <2>1, <1>3 DEF ProcessOK, AstsOK
<1>9. LoopsOK(i)'
  BY <1>1, <1>2 DEF ProcessOK, LoopsOK
<1>10. CurrentOK(i)'
  <2> SUFFICES ASSUME i \notin disturbed, NEW p \in Packages \ blurred
               PROVE  /\ p \in There(analyzed[i]) => analyzed[i][p].version = source[p]
                      /\ \A x \in Callers : p \in There(call'[i][x].ast) => call'[i][x].ast[p].version = source[p]
    BY <1>3 DEF CurrentOK, Quiet
  <2> QED BY <1>1, <1>2 DEF ProcessOK, CurrentOK
<1>11. MissedOK(i)'
  BY <1>3 DEF ProcessOK, MissedOK, Quiet, Faulty
<1>12. KnownOK(i)'
  BY SourcesStay DEF ProcessOK, KnownOK
<1>13. ClosedOK(i)'
  <2> SUFFICES ASSUME Sound(i), NEW x \in Callers PROVE Closes(call'[i][x].ast, unloaded[i])
    BY SourcesStay DEF ClosedOK
  <2>1. Closes(n.ast, unloaded[i])
    BY DEF Closes
  <2> QED BY <2>1, <1>1, <1>2 DEF ProcessOK, ClosedOK
<1>14. PassedOK(i)'
  <2> SUFFICES ASSUME Sound(i), NEW x \in Callers, call'[i][x].stage # "idle"
               PROVE  Passed(call'[i][x], unloaded'[i])
    BY SourcesStay, <1>3 DEF PassedOK, Passed, Partial
  <2>1. CASE x = File
    BY <2>1, <1>2, CallTyped DEF Passed
  <2> QED BY <2>1, <1>1, <1>2 DEF ProcessOK, PassedOK
<1> QED
  BY <1>4, <1>5, <1>6, <1>7, <1>8, <1>9, <1>10, <1>11, <1>12, <1>13, <1>14 DEF ProcessOK

-----------------------------------------------------------------------------
(* PackageLoading.  What the steps do.                                      *)

\* All but process i are where they were.
Others(i) == \A j \in Processes \ {i} :
    /\ met'[j] = met[j] /\ analyzed'[j] = analyzed[j] /\ closure'[j] = closure[j]
    /\ unloaded'[j] = unloaded[j] /\ call'[j] = call[j] /\ inner'[j] = inner[j]

\* A step of a process that leaves the disk and the fingerprints alone.
LEMMA StepOfOne ==
    ASSUME PrintsOK, FilesOK, EvictedOK, \A j \in Processes : ProcessOK(j),
           NEW i \in Processes, Quiet, UNCHANGED <<stamp, disk, prints>>, Others(i),
           LoadTyped', ProcessOK(i)',
           \A p \in Packages : call'[i][p].stage = "write" => call'[i][p] = call[i][p]
    PROVE  LoadIInv'
<1>1. PrintsOK'
  BY DEF PrintsOK, Quiet, Remembered
<1>2. FilesOK'
  BY DEF FilesOK, Quiet, FilesHoldTheirSource, OneFileEach
<1>3. EvictedOK'
  <2> SUFFICES ASSUME NEW j \in Processes, NEW p \in Packages \ (blurred \cup overtaken),
                      call'[j][p].stage = "write", NEW e \in disk, e.package = p
               PROVE  e.hash = call'[j][p].hash
    BY DEF EvictedOK, Quiet
  <2>1. call'[j][p] = call[j][p]
    BY DEF Others
  <2> QED BY <2>1 DEF EvictedOK
<1>4. ASSUME NEW j \in Processes \ {i} PROVE ProcessOK(j)'
  BY OthersStay DEF Others, Quiet
<1> QED
  BY <1>1, <1>2, <1>3, <1>4 DEF LoadIInv

\* What is imported by a package that is loaded is in Imports, and typed.
LEMMA ImportsTyped ==
    ASSUME NEW p \in Packages, NEW v \in Versions(p)
    PROVE  Imports[p][v] \in Seq(Packages) /\ v \in AnyVersion
<1>1. Imports[p][v] \in Seq(Packages)
  BY LoadAssumption
<1>2. v \in UNION {Versions(q) : q \in Packages}
  <2> HIDE DEF Versions
  <2> QED OBVIOUS
<1> QED
  BY <1>1, <1>2 DEF AnyVersion

\* The innermost call, and the file or package that it is of.
LEMMA TopOf ==
    ASSUME LoadTyped, NEW i \in Processes, ProcessOK(i)
    PROVE  /\ inner[i] \in Callers /\ Current(i) \in Call /\ Current(i) = call[i][inner[i]]
           /\ inner[i] = File \/ inner[i] \in Packages
           /\ inner[i] # File => inner[i] \in Active(i)
           /\ inner[i] = File => Current(i).stage \in {"idle", "load", "done"}
           /\ inner[i] = File => ~Partial(Current(i))
           /\ inner[i] # File => Current(i).stage \in {"look", "read", "load", "write"}
           /\ HasNext(i) => NextImport(i) \in Packages
<1> HIDE DEF Call
<1>1. inner[i] \in Callers /\ call[i][inner[i]] \in Call
  BY DEF LoadTyped
<1>2. inner[i] # File => inner[i] \in Active(i)
  BY DEF ProcessOK, ActiveOK
<1>3. inner[i] = File => call[i][inner[i]].stage \in {"idle", "load", "done"}
  BY DEF ProcessOK, ActiveOK
<1>3a. inner[i] = File => ~Partial(call[i][inner[i]])
  BY DEF ProcessOK, ActiveOK
<1>4. \A c \in Call : /\ c.stage \in {"idle", "look", "read", "load", "write", "done"}
                      /\ c.imports \in Seq(Packages) /\ c.next \in Nat
  BY DEF Call
<1>5. inner[i] # File => call[i][inner[i]].stage \in {"look", "read", "load", "write"}
  <2>1. inner[i] # File => call[i][inner[i]].stage \notin {"idle", "done"}
    BY <1>1, <1>2 DEF Active, Callers, ProcessOK, HashesOK
  <2> QED BY <1>1, <1>4, <2>1
<1>6. HasNext(i) => NextImport(i) \in Packages
  <2> SUFFICES ASSUME HasNext(i) PROVE NextImport(i) \in Packages
    OBVIOUS
  <2>1. PICK c \in Call : c = call[i][inner[i]]
    BY <1>1
  <2>2. c.next \in Nat \ {0}
    BY <1>1, <2>1 DEF ProcessOK, LoopsOK
  <2>3. c.next \in 1 .. Len(c.imports)
    BY <2>1, <2>2, <1>4 DEF HasNext, Current
  <2>4. c.imports[c.next] \in Packages
    BY <2>3, <1>4
  <2> QED BY <2>1, <2>4 DEF NextImport, Current
<1> QED
  BY <1>1, <1>2, <1>3, <1>3a, <1>5, <1>6 DEF Callers, Current

\* A call of an analyzer that saw no edit loads the imports as they are.
LEMMA ImportsAreThose ==
    ASSUME LoadTyped, NEW i \in Processes, ProcessOK(i), i \notin disturbed, blurred = {},
           NEW p \in Packages, call[i][p].stage \in {"load", "write"}
    PROVE  /\ call[i][p].imports = Imports[p][source[p]]
           /\ \A k \in 1 .. Len(call[i][p].imports) : call[i][p].imports[k] \in ImportsNow(p)
           /\ \A q \in ImportsNow(p) : \E k \in 1 .. Len(call[i][p].imports) : call[i][p].imports[k] = q
<1>1. call[i][p].hash = source[p]
  BY DEF ProcessOK, HashesOK
<1>2. PICK c : c = call[i][p]
  OBVIOUS
<1>3. c.own.version = c.hash /\ c.imports = Imports[p][IF c.found THEN c.hash ELSE c.own.version]
  BY <1>2 DEF ProcessOK, ContentsOK
<1>4. c.imports = Imports[p][source[p]]
  BY <1>1, <1>2, <1>3
<1>5. Imports[p][source[p]] \in Seq(Packages)
  BY ImportsTyped DEF LoadTyped, Sources
<1>6. DOMAIN Imports[p][source[p]] = 1 .. Len(Imports[p][source[p]])
  BY <1>5
<1> QED
  BY <1>2, <1>4, <1>6 DEF ImportsNow, Elements

\* Where imports are in no cycle, nobody imports a package that is being loaded.
LEMMA NotUnderWay ==
    ASSUME LoadTyped, NEW i \in Processes, ProcessOK(i), Sound(i), HasNext(i)
    PROVE  NextImport(i) \notin Active(i)
<1>0. Callers = Packages \cup {File} /\ \A q \in Packages : q # File
  BY LoadAssumption DEF Callers
<1>1. ASSUME NEW q \in Packages, NEW r, Calls(i, q, r)
      PROVE  r \in ImportsNow(q)
  <2>1. call[i][q].stage = "load" /\ call[i][q].imports[call[i][q].next] = r
    BY <1>1 DEF Calls
  <2>2. call[i][q] \in Call
    BY <1>0 DEF LoadTyped
  <2>3. call[i][q].imports \in Seq(Packages)
    BY <2>2 DEF Call
  <2>4. call[i][q].next \in Nat \ {0} /\ call[i][q].next <= Len(call[i][q].imports)
    BY <1>0, <1>1 DEF ProcessOK, LoopsOK, Calls
  <2>5. call[i][q].next \in 1 .. Len(call[i][q].imports)
    BY <2>3, <2>4
  <2> QED BY <2>1, <2>5, ImportsAreThose DEF Sound
<1>2. SUFFICES ASSUME NextImport(i) \in Active(i) PROVE FALSE
  OBVIOUS
<1>3. PICK q \in Active(i) : ImportsNow(q) \cap Active(i) = {}
  <2>1. Active(i) \subseteq Packages /\ Active(i) # {}
    BY <1>2 DEF Active
  <2> QED BY <2>1 DEF Sound, ImportsAreOrdered
<1>4. q \in Packages
  BY DEF Active
<1>5. CASE q = inner[i]
  <2>1. Calls(i, q, NextImport(i))
    BY <1>5 DEF Calls, HasNext, NextImport, Current
  <2> QED BY <2>1, <1>1, <1>2, <1>3, <1>4
<1>6. CASE q # inner[i]
  <2>1. PICK r \in Active(i) : Calls(i, q, r)
    BY <1>6 DEF ProcessOK, CallersOK
  <2> QED BY <2>1, <1>1, <1>3, <1>4
<1> QED
  BY <1>5, <1>6

\* What is merged is current where both sides are, and closed where both are.
MergedWell(new, ast, known, below, p, lost) ==
    /\ new \in Asts /\ There(new) \subseteq There(known) /\ There(ast) \subseteq There(new)
    /\ p \in There(known) => p \in There(new)
    /\ (/\ \A q \in There(ast) \ blurred : ast[q].version = source[q]
        /\ \A q \in There(known) \ blurred : known[q].version = source[q])
         => \A q \in There(new) \ blurred : new[q].version = source[q]
    /\ Closes(ast, lost) /\ Knows(known, below, lost) => Closes(new, lost)
LEMMA MergesWell ==
    ASSUME NEW ast \in Asts, NEW known \in Asts, NEW below \in [Packages -> SUBSET Packages],
           NEW p \in Packages, NEW lost,
           There(ast) \subseteq There(known), \A q \in Packages : below[q] \subseteq There(known)
    PROVE  MergedWell(mergeAnalyzedClosureAt(ast, known, below, p), ast, known, below, p, lost)
<1>0. PICK new : new = mergeAnalyzedClosureAt(ast, known, below, p)
  OBVIOUS
<1>1. Merged(new, ast, known, Reached(known, below, p))
  BY <1>0, MergesClosure
<1>1a. /\ new \in Asts
       /\ There(new) = There(ast) \cup (There(known) \cap Reached(known, below, p))
       /\ \A q \in There(new) : new[q] = ast[q] \/ (q \in There(known) /\ new[q] = known[q])
       /\ \A q \in There(ast) : new[q] = ast[q]
  BY <1>1 DEF Merged
<1>2. /\ p \in Reached(known, below, p)
      /\ \A r \in There(known) \cap Reached(known, below, p) : below[r] \subseteq Reached(known, below, p)
  BY Reaches
<1>3. ASSUME \A q \in There(ast) \ blurred : ast[q].version = source[q],
             \A q \in There(known) \ blurred : known[q].version = source[q],
             NEW q \in There(new) \ blurred
      PROVE  new[q].version = source[q]
  <2>1. CASE q \in There(ast)
    BY <2>1, <1>1a, <1>3
  <2>2. CASE q \notin There(ast)
    <3>1. q \in There(known)
      BY <2>2, <1>1a
    <3>2. new[q] = known[q] \/ new[q] = ast[q]
      BY <1>1a
    <3>3. q \in Packages /\ new[q].version # Missing /\ ast[q].version = Missing
      BY <2>2 DEF There
    <3> QED BY <3>1, <3>2, <3>3, <1>3
  <2> QED BY <2>1, <2>2
<1>4. ASSUME Closes(ast, lost), Knows(known, below, lost), NEW q \in There(new), new[q].whole
      PROVE  ImportsNow(q) \subseteq There(new) \cup lost
  <2>1. CASE q \in There(ast)
    BY <2>1, <1>1a, <1>4 DEF Closes
  <2>2. CASE q \notin There(ast)
    <3>1. q \in There(known) \cap Reached(known, below, p) /\ q \in Packages
      BY <2>2, <1>1a DEF There
    <3>2. below[q] \subseteq There(known) \cap Reached(known, below, p)
      BY <3>1, <1>2
    <3>3. new[q] = known[q]
      <4>1. new[q].version # Missing /\ ast[q].version = Missing
        BY <2>2, <3>1 DEF There
      <4> QED BY <4>1, <1>1a
    <3> QED BY <3>1, <3>2, <3>3, <1>1a, <1>4 DEF Knows
  <2> QED BY <2>1, <2>2
<1>5. (/\ \A q \in There(ast) \ blurred : ast[q].version = source[q]
       /\ \A q \in There(known) \ blurred : known[q].version = source[q])
        => \A q \in There(new) \ blurred : new[q].version = source[q]
  BY <1>3
<1>6. Closes(ast, lost) /\ Knows(known, below, lost) => Closes(new, lost)
  BY <1>4 DEF Closes
<1>7. p \in There(known) => p \in There(new)
  BY <1>1a, <1>2
<1>8. There(new) \subseteq There(known) /\ There(ast) \subseteq There(new)
  BY <1>1a
<1>9. MergedWell(new, ast, known, below, p, lost)
  BY <1>1a, <1>5, <1>6, <1>7, <1>8 DEF MergedWell
<1> QED
  BY <1>0, <1>9

\* Packages that cannot be resolved are met, and noted.
Meets(i, g) == met' = [met EXCEPT ![i] = @ \cup g] /\ unloaded' = [unloaded EXCEPT ![i] = @ \cup g]
LEMMA MeetsNothing ==
    ASSUME LoadTyped, NEW i \in Processes, UNCHANGED <<met, unloaded>> PROVE Meets(i, {})
<1> QED BY DEF LoadTyped, Meets

\* The innermost call goes on, and nothing but the packages met and that call
\* changes.
LEMMA StepOfTop ==
    ASSUME LoadIInv, NEW i \in Processes, Quiet, NEW t, t = inner[i], NEW c, c = call[i][t], NEW n \in Call,
           UNCHANGED <<stamp, disk, prints, analyzed, closure, inner>>,
           NEW g \in SUBSET Gone, g \cap met[i] = {}, Meets(i, g),
           call' = [call EXCEPT ![i] = [@ EXCEPT ![t] = n]],
           c.stage # "idle", n.stage \notin {"idle", "write"}, n.caller = c.caller, n.hash = c.hash,
           t = File => c.stage = "load" /\ n.stage \in {"load", "done"} /\ ~Partial(n),
           t # File => n.stage # "done" /\ RightContents(t, n),
           n.stage \in {"look", "read"} => c.stage \in {"look", "read"},
           RightAst(i, n, unloaded'[i]), RightLoop(n)
    PROVE  LoadIInv'
<1> HIDE DEF Call
<1>1. LoadTyped /\ PrintsOK /\ FilesOK /\ EvictedOK /\ (\A j \in Processes : ProcessOK(j))
  BY DEF LoadIInv
<1>2. t \in Callers
  BY <1>1 DEF LoadTyped
<1>3. /\ call' \in [Processes -> [Callers -> Call]]
      /\ call'[i][t] = n
      /\ \A y \in Callers \ {t} : call'[i][y] = call[i][y]
      /\ \A j \in Processes \ {i} : call'[j] = call[j]
  BY <1>1, <1>2, OneCall DEF LoadTyped
<1>4. /\ met' \in [Processes -> SUBSET Packages] /\ met'[i] = met[i] \cup g
      /\ unloaded' \in [Processes -> SUBSET Packages] /\ unloaded'[i] = unloaded[i] \cup g
      /\ \A j \in Processes \ {i} : met'[j] = met[j] /\ unloaded'[j] = unloaded[j]
  <2>1. g \subseteq Packages
    BY DEF Gone
  <2> QED BY <2>1, <1>1 DEF LoadTyped, Meets
<1>5. LoadTyped'
  BY <1>1, <1>3, <1>4 DEF LoadTyped, Quiet, Sources, Versions
<1>6. Others(i)
  BY <1>3, <1>4 DEF Others
<1>7. ProcessOK(i)'
  BY <1>1, <1>4, TopStep
<1>8. \A p \in Packages : call'[i][p].stage = "write" => call'[i][p] = call[i][p]
  <2> SUFFICES ASSUME NEW p \in Packages, call'[i][p].stage = "write" PROVE call'[i][p] = call[i][p]
    OBVIOUS
  <2>1. p # t
    BY <1>3
  <2> QED BY <2>1, <1>3 DEF Callers
<1> QED
  BY <1>1, <1>5, <1>6, <1>7, <1>8, StepOfOne

\* The fields of a call that changes.
SameButLoop(n, c) == n.found = c.found /\ n.hash = c.hash /\ n.own = c.own
                     /\ n.imports = c.imports /\ n.caller = c.caller
Advanced(n, c, ast) == n \in Call /\ SameButLoop(n, c) /\ n.stage = c.stage /\ n.next = c.next + 1 /\ n.ast = ast
Staged(n, c, s) == n \in Call /\ SameButLoop(n, c) /\ n.stage = s /\ n.next = c.next /\ n.ast = c.ast
LEMMA CallAdvances ==
    ASSUME NEW c \in Call, NEW ast \in Asts
    PROVE  Advanced(Advance(c, ast), c, ast)
<1> HIDE DEF Metadata, Asts, AnyVersion, Callers
<1>1. PICK n : n = Advance(c, ast)
  OBVIOUS
<1>2. c.next + 1 \in Nat
  BY DEF Call
<1>3. Advanced(n, c, ast)
  BY <1>1, <1>2 DEF Call, Advance, Advanced, SameButLoop
<1> QED BY <1>1, <1>3
LEMMA StageChanges ==
    ASSUME NEW c \in Call, NEW s \in {"idle", "look", "read", "load", "write", "done"}
    PROVE  Staged([c EXCEPT !.stage = s], c, s)
<1> HIDE DEF Metadata, Asts, AnyVersion, Callers
<1>1. PICK n : n = [c EXCEPT !.stage = s]
  OBVIOUS
<1>3. Staged(n, c, s)
  BY <1>1 DEF Call, Staged, SameButLoop
<1> QED BY <1>1, <1>3

\* What the innermost call knows is right before it goes on.
LEMMA TopIsRight ==
    ASSUME LoadTyped, NEW i \in Processes, ProcessOK(i), NEW t, t = inner[i], NEW c, c = call[i][t]
    PROVE  RightAst(i, c, unloaded[i]) /\ RightLoop(c) /\ (t # File => RightContents(t, c))
<1>1. t \in Callers /\ (t # File => t \in Packages)
  BY TopOf
<1>2. RightLoop(c)
  BY <1>1 DEF ProcessOK, LoopsOK, RightLoop
<1>3. t # File => RightContents(t, c)
  BY <1>1 DEF ProcessOK, ContentsOK, RightContents
<1>4. There(c.ast) \subseteq There(analyzed[i])
  BY <1>1 DEF ProcessOK, AstsOK
<1>5. i \notin disturbed => \A p \in There(c.ast) \ blurred : c.ast[p].version = source[p]
  <2> SUFFICES ASSUME i \notin disturbed, NEW p \in There(c.ast) \ blurred PROVE c.ast[p].version = source[p]
    OBVIOUS
  <2>1. CurrentOK(i) /\ p \in Packages
    BY DEF ProcessOK, There
  <2> QED BY <2>1, <1>1 DEF CurrentOK
<1>6. Sound(i) => Closes(c.ast, unloaded[i])
  BY <1>1 DEF ProcessOK, ClosedOK
<1>7. Sound(i) /\ c.stage # "idle" => Passed(c, unloaded[i])
  BY <1>1 DEF ProcessOK, PassedOK
<1> QED
  BY <1>2, <1>3, <1>4, <1>5, <1>6, <1>7 DEF RightAst

\* The loop passes an import that it has got or that is lost.
LEMMA PassesOne ==
    ASSUME NEW c \in Call, NEW n, NEW ast, NEW lost, Advanced(n, c, ast), Passed(c, lost),
           There(c.ast) \subseteq There(ast), c.next <= Len(c.imports),
           ~Partial(c) => c.imports[c.next] \in There(ast) \cup lost
    PROVE  Passed(n, lost) /\ Partial(n) = Partial(c)
<1> HIDE DEF Call
<1>1. n.found = c.found /\ n.own = c.own /\ n.imports = c.imports /\ n.next = c.next + 1 /\ n.ast = ast
  BY DEF Advanced, SameButLoop
<1>2. Partial(n) = Partial(c)
  BY <1>1 DEF Partial
<1>3. ASSUME ~Partial(c), NEW k \in 1 .. Len(c.imports), k < c.next + 1
      PROVE  c.imports[k] \in There(ast) \cup lost
  <2>1. k < c.next \/ k = c.next
    BY <1>3, CallTyped
  <2>2. CASE k < c.next
    BY <2>2, <1>3 DEF Passed
  <2> QED BY <2>1, <2>2, <1>3
<1> QED
  BY <1>1, <1>2, <1>3 DEF Passed

\* The steps of the loop over the imports.
LEMMA MergeKnownKeeps ==
    ASSUME LoadIInv, NEW i \in Processes, MergeKnown(i) PROVE LoadIInv'
<1> HIDE DEF Call
<1>1. LoadTyped /\ ProcessOK(i)
  BY DEF LoadIInv
<1>2. PICK t, c, p : t = inner[i] /\ c = call[i][t] /\ p = NextImport(i)
  OBVIOUS
<1>3. /\ c \in Call /\ p \in Packages /\ c.stage = "load" /\ c.next <= Len(c.imports)
      /\ c.imports[c.next] = p /\ p \in met[i]
  BY <1>1, <1>2, TopOf DEF MergeKnown, HasNext, NextImport, Current
<1>4. RightAst(i, c, unloaded[i]) /\ RightLoop(c) /\ (t # File => RightContents(t, c))
  BY <1>1, <1>2, TopIsRight
<1>5. PICK new : new = mergeAnalyzedClosureAt(c.ast, analyzed[i], closure[i], p)
  OBVIOUS
<1>7. analyzed[i] \in Asts /\ closure[i] \in [Packages -> SUBSET Packages] /\ met[i] \subseteq Packages /\ c.ast \in Asts
  BY <1>1, <1>3, CallTyped DEF LoadTyped
<1>8. There(c.ast) \subseteq There(analyzed[i]) /\ \A q \in Packages : closure[i][q] \subseteq There(analyzed[i])
  BY <1>1, <1>4 DEF RightAst, ProcessOK, AstsOK
<1>9. MergedWell(new, c.ast, analyzed[i], closure[i], p, unloaded[i])
  BY <1>3, <1>5, <1>7, <1>8, MergesWell
<1>6. PICK ast \in AstsAfter(c, new) : Becomes(i, t, Advance(c, ast))
  BY <1>2, <1>5 DEF MergeKnown, Current
<1>6a. ast = new \/ (Partial(c) /\ ast = c.ast)
  BY <1>6 DEF AstsAfter
<1>6b. ast \in Asts /\ There(ast) \subseteq There(analyzed[i]) /\ There(c.ast) \subseteq There(ast)
  BY <1>6a, <1>7, <1>8, <1>9 DEF MergedWell
<1>10. PICK n : n = Advance(c, ast) /\ Advanced(n, c, ast)
  BY <1>3, <1>6b, CallAdvances
<1>11. RightAst(i, n, unloaded[i]) /\ Partial(n) = Partial(c)
  <2>1. i \notin disturbed => \A q \in There(ast) \ blurred : ast[q].version = source[q]
    <3> SUFFICES ASSUME i \notin disturbed PROVE \A q \in There(ast) \ blurred : ast[q].version = source[q]
      OBVIOUS
    <3>1. \A q \in There(c.ast) \ blurred : c.ast[q].version = source[q]
      BY <1>4 DEF RightAst
    <3>2. \A q \in There(analyzed[i]) \ blurred : analyzed[i][q].version = source[q]
      BY <1>1 DEF ProcessOK, CurrentOK, There
    <3> QED BY <3>1, <3>2, <1>6a, <1>9 DEF MergedWell
  <2>2. Sound(i) => Closes(ast, unloaded[i])
    BY <1>1, <1>4, <1>6a, <1>9 DEF MergedWell, RightAst, ProcessOK, KnownOK
  <2>3. Sound(i) /\ ~Partial(c) => p \in There(ast) \cup unloaded[i]
    <3> SUFFICES ASSUME Sound(i), ~Partial(c) PROVE p \in There(new) \cup unloaded[i]
      BY <1>6a
    <3>1. p \notin Active(i)
      BY <1>1, <1>2, NotUnderWay DEF MergeKnown
    <3>2. p \in There(analyzed[i]) \cup unloaded[i]
      BY <3>1, <1>1, <1>3 DEF ProcessOK, MissedOK
    <3> QED BY <3>2, <1>9 DEF MergedWell
  <2>4. Sound(i) => Passed(n, unloaded[i])
    BY <2>3, <1>3, <1>4, <1>6b, <1>10, PassesOne DEF RightAst
  <2>5. Partial(n) = Partial(c)
    BY <1>10 DEF Partial, Advanced, SameButLoop
  <2> QED BY <2>1, <2>2, <2>4, <2>5, <1>6b, <1>10 DEF RightAst, Advanced
<1>12. RightLoop(n)
  BY <1>3, <1>4, <1>10 DEF RightLoop, Advanced, SameButLoop
<1>13. t # File => RightContents(t, n)
  BY <1>3, <1>4, <1>10 DEF RightContents, Advanced, SameButLoop
<1>14. call' = [call EXCEPT ![i] = [@ EXCEPT ![t] = n]]
  BY <1>6, <1>10 DEF Becomes
<1>16. Quiet /\ UNCHANGED <<stamp, disk, prints, analyzed, closure, inner>> /\ unloaded' = unloaded
  BY DEF MergeKnown, Quiet
<1>17. Meets(i, {})
  BY <1>1, <1>16, MeetsNothing DEF MergeKnown
<1>18. /\ n \in Call /\ n.stage \notin {"idle", "write"} /\ n.caller = c.caller /\ n.hash = c.hash
       /\ c.stage # "idle" /\ t = inner[i] /\ c = call[i][t]
       /\ t = File => c.stage = "load" /\ n.stage \in {"load", "done"} /\ ~Partial(n)
       /\ t # File => n.stage # "done" /\ RightContents(t, n)
       /\ n.stage \in {"look", "read"} => c.stage \in {"look", "read"}
       /\ RightAst(i, n, unloaded'[i]) /\ {} \in SUBSET Gone /\ {} \cap met[i] = {}
  BY <1>1, <1>2, <1>3, <1>10, <1>11, <1>13, <1>16, TopOf DEF Advanced, SameButLoop, Current
<1> HIDE DEF Quiet, RightAst, RightLoop, RightContents, LoadIInv
<1> QED
  BY <1>12, <1>14, <1>16, <1>17, <1>18, StepOfTop, ZenonT(60)
LEMMA FailToResolveKeeps ==
    ASSUME LoadIInv, NEW i \in Processes, FailToResolve(i) PROVE LoadIInv'
<1> HIDE DEF Call
<1>1. LoadTyped /\ ProcessOK(i)
  BY DEF LoadIInv
<1>2. PICK t, c, p : t = inner[i] /\ c = call[i][t] /\ p = NextImport(i)
  OBVIOUS
<1>3. /\ c \in Call /\ p \in Packages /\ c.stage = "load" /\ c.next <= Len(c.imports)
      /\ c.imports[c.next] = p /\ p \in Gone /\ p \notin met[i]
      /\ t = File => ~Partial(c)
  BY <1>1, <1>2, TopOf DEF FailToResolve, HasNext, NextImport, Current, Gone
<1>4. RightAst(i, c, unloaded[i]) /\ RightLoop(c) /\ (t # File => RightContents(t, c))
  BY <1>1, <1>2, TopIsRight
<1>5. PICK n : n = Advance(c, c.ast)
  OBVIOUS
<1>6. Advanced(n, c, c.ast)
  BY <1>3, <1>5, CallTyped, CallAdvances
<1>11. PICK g : g = {p}
  OBVIOUS
<1>12. g \in SUBSET Gone /\ g \cap met[i] = {} /\ Meets(i, g)
  BY <1>2, <1>3, <1>11 DEF Meets, FailToResolve, Note
<1>7. RightAst(i, n, unloaded'[i]) /\ Partial(n) = Partial(c)
  <2>1. unloaded'[i] = unloaded[i] \cup {p}
    BY <1>1, <1>11, <1>12 DEF Meets, LoadTyped
  <2>2. Sound(i) => Closes(c.ast, unloaded'[i]) /\ Passed(c, unloaded'[i])
    BY <2>1, <1>3, <1>4, MoreLost DEF RightAst
  <2>3. Sound(i) => Passed(n, unloaded'[i])
    BY <2>1, <2>2, <1>3, <1>6, PassesOne
  <2>4. Partial(n) = Partial(c)
    BY <1>6 DEF Partial, Advanced, SameButLoop
  <2> QED BY <2>2, <2>3, <2>4, <1>4, <1>6 DEF RightAst, Advanced
<1>8. RightLoop(n)
  BY <1>3, <1>4, <1>6 DEF RightLoop, Advanced, SameButLoop
<1>9. t # File => RightContents(t, n)
  BY <1>3, <1>4, <1>6 DEF RightContents, Advanced, SameButLoop
<1>10. call' = [call EXCEPT ![i] = [@ EXCEPT ![t] = n]]
  BY <1>2, <1>5 DEF FailToResolve, Becomes, Current
<1>13. Quiet /\ UNCHANGED <<stamp, disk, prints, analyzed, closure, inner>>
  BY DEF FailToResolve, Quiet
<1>14. /\ n \in Call /\ n.stage \notin {"idle", "write"} /\ n.caller = c.caller /\ n.hash = c.hash
       /\ c.stage # "idle" /\ t = inner[i] /\ c = call[i][t]
       /\ t = File => c.stage = "load" /\ n.stage \in {"load", "done"} /\ ~Partial(n)
       /\ t # File => n.stage # "done" /\ RightContents(t, n)
       /\ n.stage \in {"look", "read"} => c.stage \in {"look", "read"}
  BY <1>2, <1>3, <1>6, <1>7, <1>9 DEF Advanced, SameButLoop
<1> HIDE DEF Quiet, RightAst, RightLoop, RightContents, LoadIInv
<1> QED
  BY <1>7, <1>8, <1>10, <1>12, <1>13, <1>14, StepOfTop, ZenonT(60)
LEMMA PassOverKeeps ==
    ASSUME LoadIInv, NEW i \in Processes, PassOver(i) PROVE LoadIInv'
<1> HIDE DEF Call
<1>1. LoadTyped /\ ProcessOK(i)
  BY DEF LoadIInv
<1>2. PICK t, c, p : t = inner[i] /\ c = call[i][t] /\ p = NextImport(i)
  OBVIOUS
<1>3. /\ c \in Call /\ p \in Packages /\ c.stage = "load" /\ c.next <= Len(c.imports)
      /\ c.imports[c.next] = p /\ Partial(c)
      /\ t = File => ~Partial(c)
  BY <1>1, <1>2, TopOf DEF PassOver, HasNext, NextImport, Current, Gone
<1>4. RightAst(i, c, unloaded[i]) /\ RightLoop(c) /\ (t # File => RightContents(t, c))
  BY <1>1, <1>2, TopIsRight
<1>5. PICK n : n = Advance(c, c.ast)
  OBVIOUS
<1>6. Advanced(n, c, c.ast)
  BY <1>3, <1>5, CallTyped, CallAdvances
<1>11. PICK g : g = {}
  OBVIOUS
<1>12. g \in SUBSET Gone /\ g \cap met[i] = {} /\ Meets(i, g)
  BY <1>1, <1>11, MeetsNothing DEF PassOver
<1>7. RightAst(i, n, unloaded'[i]) /\ Partial(n) = Partial(c)
  <2>1. unloaded' = unloaded
    BY DEF PassOver
  <2>4. Partial(n)
    BY <1>3, <1>6 DEF Partial, Advanced, SameButLoop
  <2> QED BY <2>1, <2>4, <1>3, <1>4, <1>6 DEF RightAst, Advanced, Passed
<1>8. RightLoop(n)
  BY <1>3, <1>4, <1>6 DEF RightLoop, Advanced, SameButLoop
<1>9. t # File => RightContents(t, n)
  BY <1>3, <1>4, <1>6 DEF RightContents, Advanced, SameButLoop
<1>10. call' = [call EXCEPT ![i] = [@ EXCEPT ![t] = n]]
  BY <1>2, <1>5 DEF PassOver, Becomes, Current
<1>13. Quiet /\ UNCHANGED <<stamp, disk, prints, analyzed, closure, inner>>
  BY DEF PassOver, Quiet
<1>14. /\ n \in Call /\ n.stage \notin {"idle", "write"} /\ n.caller = c.caller /\ n.hash = c.hash
       /\ c.stage # "idle" /\ t = inner[i] /\ c = call[i][t]
       /\ t = File => c.stage = "load" /\ n.stage \in {"load", "done"} /\ ~Partial(n)
       /\ t # File => n.stage # "done" /\ RightContents(t, n)
       /\ n.stage \in {"look", "read"} => c.stage \in {"look", "read"}
  BY <1>2, <1>3, <1>6, <1>7, <1>9 DEF Advanced, SameButLoop
<1> HIDE DEF Quiet, RightAst, RightLoop, RightContents, LoadIInv
<1> QED
  BY <1>7, <1>8, <1>10, <1>12, <1>13, <1>14, StepOfTop, ZenonT(60)
LEMMA FinishFileKeeps ==
    ASSUME LoadIInv, NEW i \in Processes, FinishFile(i) PROVE LoadIInv'
<1> HIDE DEF Call
<1>1. LoadTyped /\ ProcessOK(i)
  BY DEF LoadIInv
<1>2. PICK t, c : t = inner[i] /\ c = call[i][t]
  OBVIOUS
<1>3. c \in Call /\ t = File /\ c.stage = "load" /\ c.next > Len(c.imports)
  BY <1>1, <1>2, TopOf DEF FinishFile, AllLoaded, Current
<1>4. RightAst(i, c, unloaded[i]) /\ RightLoop(c)
  BY <1>1, <1>2, TopIsRight
<1>5. PICK n : n = [c EXCEPT !.stage = "done"]
  OBVIOUS
<1>6. Staged(n, c, "done")
  BY <1>3, <1>5, StageChanges
<1>7. RightAst(i, n, unloaded[i]) /\ ~Partial(n)
  <2>1. ~Partial(c)
    BY <1>1, <1>2, <1>3, TopOf DEF Current
  <2> QED BY <2>1, <1>3, <1>4, <1>6 DEF RightAst, Staged, SameButLoop, Passed, Partial
<1>8. RightLoop(n)
  BY <1>3, <1>4, <1>6 DEF RightLoop, Staged, SameButLoop
<1>9. call' = [call EXCEPT ![i] = [@ EXCEPT ![t] = n]]
  BY <1>2, <1>3, <1>5 DEF FinishFile, Becomes, Current
<1>10. Meets(i, {}) /\ {} \in SUBSET Gone /\ {} \cap met[i] = {}
  BY <1>1, MeetsNothing DEF FinishFile
<1>11. Quiet /\ UNCHANGED <<stamp, disk, prints, analyzed, closure, unloaded, inner>>
  BY DEF FinishFile, Quiet
<1> QED
  BY <1>2, <1>3, <1>6, <1>7, <1>8, <1>9, <1>10, <1>11, StepOfTop DEF Staged, SameButLoop

\* The steps that get a package from the disk or from its sources.
LEMMA LookOnDiskKeeps ==
    ASSUME LoadIInv, NEW i \in Processes, LookOnDisk(i) PROVE LoadIInv'
<1> HIDE DEF Call
<1>1. LoadTyped /\ ProcessOK(i) /\ FilesOK
  BY DEF LoadIInv
<1>2. PICK t, c : t = inner[i] /\ c = call[i][t]
  OBVIOUS
<1>3. c \in Call /\ t # File /\ t \in Packages /\ c.stage = "look"
  BY <1>1, <1>2, TopOf DEF LookOnDisk, Current
<1>4. RightAst(i, c, unloaded[i]) /\ RightLoop(c) /\ c.next = 1 /\ c.found = FALSE
  <2>1. RightAst(i, c, unloaded[i]) /\ RightLoop(c)
    BY <1>1, <1>2, TopIsRight
  <2> QED BY <2>1, <1>3 DEF RightLoop
<1>6. Meets(i, {}) /\ {} \in SUBSET Gone /\ {} \cap met[i] = {}
  BY <1>1, MeetsNothing DEF LookOnDisk
<1>7. Quiet /\ UNCHANGED <<stamp, disk, prints, analyzed, closure, unloaded, inner>>
  BY DEF LookOnDisk, Quiet
<1>8. ASSUME NEW n, n = [c EXCEPT !.stage = "read"], call' = [call EXCEPT ![i] = [@ EXCEPT ![t] = n]]
      PROVE  LoadIInv'
  <2>1. Staged(n, c, "read")
    BY <1>3, <1>8, StageChanges
  <2>2. RightAst(i, n, unloaded[i])
    BY <1>3, <1>4, <2>1 DEF RightAst, Staged, SameButLoop, Passed, Partial
  <2>3. RightLoop(n)
    BY <1>4, <2>1 DEF RightLoop, Staged, SameButLoop
  <2>4. RightContents(t, n)
    BY <2>1 DEF RightContents, Staged
  <2> QED
    BY <1>2, <1>3, <1>6, <1>7, <1>8, <2>1, <2>2, <2>3, <2>4, StepOfTop DEF Staged, SameButLoop
<1>9. ASSUME NEW e \in disk, e.package = t, e.hash = c.hash, NEW n,
             n = [c EXCEPT !.stage = "load", !.found = TRUE, !.own = e.holds, !.imports = Imports[t][c.hash]],
             call' = [call EXCEPT ![i] = [@ EXCEPT ![t] = n]]
      PROVE  LoadIInv'
  <2>1. e.holds \in Metadata /\ e.hash \in Versions(t) /\ e.holds.version \in Versions(t) \ {Missing}
        /\ (t \notin blurred => e.holds.version = e.hash)
    <3>1. e.holds \in Metadata
      BY <1>1 DEF LoadTyped
    <3> QED BY <3>1, <1>1, <1>9 DEF FilesOK, FilesHoldTheirSource
  <2>2. Imports[t][c.hash] \in Seq(Packages)
    BY <1>3, <1>9, <2>1, ImportsTyped
  <2>3. /\ n \in Call /\ n.stage = "load" /\ n.found = TRUE /\ n.own = e.holds /\ n.imports = Imports[t][c.hash]
        /\ n.hash = c.hash /\ n.caller = c.caller /\ n.next = c.next /\ n.ast = c.ast
    <3> HIDE DEF Metadata, AnyVersion, Callers, Asts
    <3> QED BY <1>3, <1>9, <2>1, <2>2 DEF Call
  <2>4. RightContents(t, n)
    BY <1>9, <2>1, <2>3 DEF RightContents
  <2>5. RightLoop(n)
    BY <1>4, <2>3 DEF RightLoop
  <2>6. Len(n.imports) \in Nat
    BY <2>2, <2>3
  <2>7. \A k \in 1 .. Len(n.imports) : ~(k < n.next)
    BY <1>4, <2>3, <2>6
  <2>8. RightAst(i, n, unloaded[i])
    BY <1>4, <2>3, <2>7 DEF RightAst, Passed
  <2>9. call' = [call EXCEPT ![i] = [@ EXCEPT ![t] = n]]
    BY <1>9
  <2> QED
    BY <1>2, <1>3, <1>6, <1>7, <2>3, <2>4, <2>5, <2>8, <2>9, StepOfTop
<1>10. CASE Hits(t, c.hash) = {} /\ Becomes(i, t, [c EXCEPT !.stage = "read"])
  BY <1>8, <1>10 DEF Becomes
<1>11. CASE \E e \in Hits(t, c.hash) :
              Becomes(i, t, [c EXCEPT !.stage = "load", !.found = TRUE, !.own = e.holds, !.imports = Imports[t][c.hash]])
  <2>1. PICK e \in Hits(t, c.hash) :
              Becomes(i, t, [c EXCEPT !.stage = "load", !.found = TRUE, !.own = e.holds, !.imports = Imports[t][c.hash]])
    BY <1>11
  <2>2. e \in disk /\ e.package = t /\ e.hash = c.hash
    BY <2>1 DEF Hits
  <2> QED BY <1>9, <2>1, <2>2 DEF Becomes
<1> QED
  BY <1>2, <1>10, <1>11 DEF LookOnDisk, Current
LEMMA ReadSourcesKeeps ==
    ASSUME LoadIInv, NEW i \in Processes, ReadSources(i) PROVE LoadIInv'
<1> HIDE DEF Call
<1>1. LoadTyped /\ ProcessOK(i)
  BY DEF LoadIInv
<1>2. PICK t, c : t = inner[i] /\ c = call[i][t]
  OBVIOUS
<1>3. c \in Call /\ t # File /\ t \in Packages /\ c.stage = "read"
  BY <1>1, <1>2, TopOf DEF ReadSources, Current
<1>4. RightAst(i, c, unloaded[i]) /\ RightLoop(c) /\ c.next = 1 /\ c.found = FALSE
  <2>1. RightAst(i, c, unloaded[i]) /\ RightLoop(c)
    BY <1>1, <1>2, TopIsRight
  <2> QED BY <2>1, <1>3 DEF RightLoop
<1>6. Meets(i, {}) /\ {} \in SUBSET Gone /\ {} \cap met[i] = {}
  BY <1>1, MeetsNothing DEF ReadSources
<1>7. Quiet /\ UNCHANGED <<stamp, disk, prints, analyzed, closure, unloaded, inner>>
  BY DEF ReadSources, Quiet
<1>8. PICK v : v = source[t]
  OBVIOUS
<1>9. v \in Versions(t) \ {Missing} /\ v \in AnyVersion /\ Imports[t][v] \in Seq(Packages)
  <2>1. v \in Versions(t) \ {Missing}
    BY <1>1, <1>2, <1>3, <1>8 DEF ReadSources, LoadTyped, Sources
  <2> QED BY <2>1, <1>3, ImportsTyped
<1>9a. PICK whole \in BOOLEAN :
         Becomes(i, t, [c EXCEPT !.stage = "load", !.imports = Imports[t][v],
                                 !.own = [NoMetadata EXCEPT !.version = v, !.whole = whole]])
  BY <1>2, <1>8 DEF ReadSources, Current
<1>10. PICK own : /\ own = [NoMetadata EXCEPT !.version = v, !.whole = whole]
         /\ Becomes(i, t, [c EXCEPT !.stage = "load", !.imports = Imports[t][v], !.own = own])
  BY <1>9a
<1>11. own \in Metadata /\ own.version = v
  <2> HIDE DEF AnyVersion
  <2> QED BY <1>9, <1>10, IdleTyped DEF Metadata
<1>12. PICK n : n = [c EXCEPT !.stage = "load", !.imports = Imports[t][v], !.own = own]
  OBVIOUS
<1>13. /\ n \in Call /\ n.stage = "load" /\ n.found = FALSE /\ n.own = own /\ n.imports = Imports[t][v]
       /\ n.hash = c.hash /\ n.caller = c.caller /\ n.next = 1 /\ n.ast = c.ast
  <2> HIDE DEF Metadata, AnyVersion, Callers, Asts
  <2> QED BY <1>3, <1>4, <1>9, <1>11, <1>12 DEF Call
<1>14. t \notin blurred => v = c.hash
  BY <1>1, <1>2, <1>3, <1>8 DEF ProcessOK, HashesOK
<1>15. RightContents(t, n)
  BY <1>9, <1>11, <1>13, <1>14 DEF RightContents
<1>16. RightLoop(n)
  BY <1>13 DEF RightLoop
<1>17. RightAst(i, n, unloaded[i])
  <2>1. Len(n.imports) \in Nat
    BY <1>9, <1>13
  <2>2. \A k \in 1 .. Len(n.imports) : ~(k < n.next)
    BY <2>1, <1>13
  <2> QED BY <1>4, <1>13, <2>2 DEF RightAst, Passed
<1>18. call' = [call EXCEPT ![i] = [@ EXCEPT ![t] = n]]
  BY <1>10, <1>12 DEF Becomes
<1> QED
  BY <1>2, <1>3, <1>6, <1>7, <1>13, <1>15, <1>16, <1>17, <1>18, StepOfTop

\* A file begins, a package begins.
LEMMA AnalyzeKeeps ==
    ASSUME LoadIInv, NEW i \in Processes, Analyze(i) PROVE LoadIInv'
<1> HIDE DEF Call
<1>1. LoadTyped /\ PrintsOK /\ FilesOK /\ EvictedOK /\ (\A j \in Processes : ProcessOK(j))
  BY DEF LoadIInv
<1>2. PICK imports \in Roots : Becomes(i, File, [Idle EXCEPT !.stage = "load", !.imports = imports])
  BY DEF Analyze
<1>3. PICK n : n = [Idle EXCEPT !.stage = "load", !.imports = imports]
  OBVIOUS
<1>4. n \in Call /\ n.stage = "load" /\ n.next = 1 /\ There(n.ast) = {} /\ ~Partial(n)
  <2>1. imports \in Seq(Packages)
    BY LoadAssumption
  <2>2. n.ast = Idle.ast /\ n.next = Idle.next /\ n.stage = "load"
    BY <1>3 DEF Idle
  <2>3. n \in Call
    <3> HIDE DEF Metadata, AnyVersion, Callers, Asts, Idle
    <3> QED BY <2>1, <1>3, IdleTyped DEF Call
  <2>4. ~Partial(n)
    BY <1>3 DEF Partial, Idle, NoMetadata
  <2> QED BY <2>2, <2>3, <2>4, IdleTyped
<1>5. call' = [call EXCEPT ![i] = [@ EXCEPT ![File] = n]]
  BY <1>2, <1>3 DEF Becomes
<1>6. /\ Quiet /\ UNCHANGED <<stamp, disk, prints, met, analyzed, closure, unloaded, inner>>
      /\ inner[i] = File
  <2>1. call[i][File].stage \in {"idle", "done"}
    BY DEF Analyze
  <2> QED BY <2>1, <1>1 DEF Analyze, Quiet, ProcessOK, ActiveOK
<1>7. /\ call' \in [Processes -> [Callers -> Call]]
      /\ call'[i][File] = n
      /\ \A y \in Callers \ {File} : call'[i][y] = call[i][y]
      /\ \A j \in Processes \ {i} : call'[j] = call[j]
  BY <1>1, <1>4, <1>5, OneCall DEF LoadTyped, Callers
<1>8. ProcessOK(i)'
  BY <1>1, <1>4, <1>5, <1>6, FileBegins
<1>9. LoadTyped'
  BY <1>1, <1>6, <1>7 DEF LoadTyped, Quiet, Sources, Versions
<1>10. Others(i)
  BY <1>6, <1>7 DEF Others
<1>11. \A p \in Packages : call'[i][p].stage = "write" => call'[i][p] = call[i][p]
  BY <1>7, LoadAssumption DEF Callers
<1> QED
  BY <1>1, <1>6, <1>8, <1>9, <1>10, <1>11, StepOfOne
LEMMA FileFailsKeeps ==
    ASSUME LoadIInv, NEW i \in Processes, FileFails(i) PROVE LoadIInv'
<1> HIDE DEF Call, Idle
<1>1. LoadTyped /\ PrintsOK /\ FilesOK /\ EvictedOK /\ (\A j \in Processes : ProcessOK(j))
  BY DEF LoadIInv
<1>2. call' = [call EXCEPT ![i] = [@ EXCEPT ![File] = Idle]] /\ inner[i] = File
  BY DEF FileFails, Becomes
<1>3. Quiet /\ UNCHANGED <<stamp, disk, prints, met, analyzed, closure, unloaded, inner>>
  BY DEF FileFails, Quiet
<1>4. /\ call' \in [Processes -> [Callers -> Call]]
      /\ call'[i][File] = Idle
      /\ \A y \in Callers \ {File} : call'[i][y] = call[i][y]
      /\ \A j \in Processes \ {i} : call'[j] = call[j]
  BY <1>1, <1>2, IdleTyped, OneCall DEF LoadTyped, Callers
<1>5. ProcessOK(i)'
  BY <1>1, <1>2, <1>3, IdleTyped, FileBegins
<1>6. LoadTyped'
  BY <1>1, <1>3, <1>4 DEF LoadTyped, Quiet, Sources, Versions
<1>7. Others(i)
  BY <1>3, <1>4 DEF Others
<1>8. \A p \in Packages : call'[i][p].stage = "write" => call'[i][p] = call[i][p]
  BY <1>4, LoadAssumption DEF Callers
<1> QED
  BY <1>1, <1>3, <1>5, <1>6, <1>7, <1>8, StepOfOne
LEMMA analyzePackageKeeps ==
    ASSUME LoadIInv, NEW i \in Processes, analyzePackage(i) PROVE LoadIInv'
<1> HIDE DEF Call
<1>1. LoadTyped /\ PrintsOK /\ FilesOK /\ EvictedOK /\ (\A j \in Processes : ProcessOK(j))
  BY DEF LoadIInv
<1>2. PICK p, t, print : p = NextImport(i) /\ t = inner[i] /\ print = pkgFingerprint(i, p)
  OBVIOUS
<1>3. HasNext(i) /\ p \in Packages /\ p \notin met[i] /\ t \in Callers /\ source[p] # Missing
  BY <1>1, <1>2, TopOf DEF analyzePackage
<1>4. /\ print.hash \in Versions(p) /\ print \in [stamp : Nat, hash : AnyVersion]
      /\ p \notin blurred => print.hash = source[p]
      /\ print.stamp = stamp[p]
  <2>0. /\ source[p] \in Versions(p) /\ stamp[p] \in Nat \ {0} /\ source[p] \in AnyVersion
        /\ prints[i][p] \in [stamp : Nat, hash : AnyVersion]
    <3>1. source[p] \in Versions(p) /\ stamp[p] \in Nat \ {0} /\ prints[i][p] \in [stamp : Nat, hash : AnyVersion]
      BY <1>1, <1>3 DEF LoadTyped, Sources
    <3> QED BY <3>1, <1>3, ImportsTyped
  <2>1. CASE Remembered(i, p)
    <3>1. print = prints[i][p]
      BY <2>1, <1>2 DEF pkgFingerprint
    <3>2. prints[i][p].stamp = stamp[p]
      BY <2>1 DEF Remembered
    <3> QED BY <3>1, <3>2, <2>0, <2>1, <1>1, <1>3 DEF PrintsOK
  <2>2. CASE ~Remembered(i, p)
    <3>1. print = [stamp |-> stamp[p], hash |-> source[p]]
      BY <2>2, <1>2 DEF pkgFingerprint
    <3> QED BY <3>1, <2>0
  <2> QED BY <2>1, <2>2
<1>5. PICK n : n = [Idle EXCEPT !.stage = "look", !.hash = print.hash, !.caller = t]
  OBVIOUS
<1>6. /\ n \in Call /\ n.stage = "look" /\ n.caller = t /\ n.next = 1 /\ n.found = FALSE /\ There(n.ast) = {}
      /\ n.hash = print.hash
  <2>1. /\ n.ast = Idle.ast /\ n.next = Idle.next /\ n.stage = "look" /\ n.caller = t /\ n.found = FALSE
        /\ n.hash = print.hash
    BY <1>5 DEF Idle
  <2>2. n \in Call
    <3> HIDE DEF Metadata, AnyVersion, Callers, Asts, Idle
    <3>1. print.hash \in AnyVersion
      BY <1>4
    <3> QED BY <3>1, <1>3, <1>5, IdleTyped DEF Call
  <2> QED BY <2>1, <2>2, IdleTyped
<1>7. call' = [call EXCEPT ![i] = [@ EXCEPT ![p] = n]]
  BY <1>2, <1>5 DEF analyzePackage, Becomes
<1>8. /\ met' = [met EXCEPT ![i] = @ \cup {p}] /\ inner' = [inner EXCEPT ![i] = p]
      /\ prints' = [prints EXCEPT ![i] = [@ EXCEPT ![p] = print]]
      /\ UNCHANGED <<source, stamp, disk, analyzed, closure, unloaded, blurred, overtaken, disturbed>>
  BY <1>2 DEF analyzePackage
<1>9. /\ call' \in [Processes -> [Callers -> Call]]
      /\ call'[i][p] = n
      /\ \A y \in Callers \ {p} : call'[i][y] = call[i][y]
      /\ \A j \in Processes \ {i} : call'[j] = call[j]
  BY <1>1, <1>3, <1>6, <1>7, OneCall DEF LoadTyped, Callers
<1>10. /\ met' \in [Processes -> SUBSET Packages] /\ met'[i] = met[i] \cup {p}
       /\ inner' \in [Processes -> Callers] /\ inner'[i] = p
       /\ \A j \in Processes \ {i} : met'[j] = met[j] /\ inner'[j] = inner[j]
  <2>1. p \in Callers
    BY <1>3 DEF Callers
  <2> QED BY <2>1, <1>1, <1>3, <1>8 DEF LoadTyped
<1>11. /\ prints' \in [Processes -> [Packages -> [stamp : Nat, hash : AnyVersion]]]
       /\ prints'[i][p] = print /\ \A q \in Packages \ {p} : prints'[i][q] = prints[i][q]
       /\ \A j \in Processes \ {i} : prints'[j] = prints[j]
  <2> DEFINE Prints == [stamp : Nat, hash : AnyVersion]
  <2>1. prints \in [Processes -> [Packages -> Prints]] /\ print \in Prints
    BY <1>1, <1>4 DEF LoadTyped
  <2> HIDE DEF Prints
  <2>2. PICK f : f = [prints[i] EXCEPT ![p] = print]
    OBVIOUS
  <2>3. f \in [Packages -> Prints] /\ f[p] = print /\ \A q \in Packages \ {p} : f[q] = prints[i][q]
    BY <2>1, <2>2, <1>3
  <2>4. prints' = [prints EXCEPT ![i] = f]
    BY <2>2, <1>8
  <2>5. prints' \in [Processes -> [Packages -> Prints]] /\ prints'[i] = f /\ \A j \in Processes \ {i} : prints'[j] = prints[j]
    BY <2>1, <2>3, <2>4
  <2> QED BY <2>3, <2>5 DEF Prints
<1>12. Quiet
  BY <1>8 DEF Quiet
<1>13. LoadTyped'
  BY <1>1, <1>8, <1>9, <1>10, <1>11 DEF LoadTyped, Sources, Versions
<1>14. PrintsOK'
  <2> SUFFICES ASSUME NEW j \in Processes, NEW q \in Packages
               PROVE  /\ prints'[j][q].stamp <= stamp[q]
                      /\ prints'[j][q].stamp # 0 => prints'[j][q].hash \in Versions(q)
                      /\ prints'[j][q].stamp = stamp[q] /\ q \notin blurred => prints'[j][q].hash = source[q]
    BY <1>8 DEF PrintsOK, Remembered
  <2>1. CASE j = i /\ q = p
    BY <2>1, <1>1, <1>4, <1>11 DEF LoadTyped
  <2>2. CASE ~(j = i /\ q = p)
    <3>1. prints'[j][q] = prints[j][q]
      BY <2>2, <1>11
    <3> QED BY <3>1, <1>1 DEF PrintsOK, Remembered
  <2> QED BY <2>1, <2>2
<1>15. FilesOK'
  BY <1>1, <1>8 DEF FilesOK, FilesHoldTheirSource, OneFileEach
<1>16. EvictedOK'
  <2> SUFFICES ASSUME NEW j \in Processes, NEW q \in Packages \ (blurred \cup overtaken),
                      call'[j][q].stage = "write", NEW e \in disk, e.package = q
               PROVE  e.hash = call'[j][q].hash
    BY <1>8 DEF EvictedOK
  <2>1. call'[j][q] = call[j][q]
    BY <1>6, <1>9 DEF Callers
  <2> QED BY <2>1, <1>1 DEF EvictedOK
<1>17. ProcessOK(i)'
  <2>1. analyzed' = analyzed /\ closure' = closure /\ unloaded' = unloaded
    BY <1>8
  <2> QED BY <2>1, <1>1, <1>2, <1>3, <1>4, <1>6, <1>7, <1>10, <1>12, CallBegins
<1>18. ASSUME NEW j \in Processes \ {i} PROVE ProcessOK(j)'
  BY <1>1, <1>8, <1>9, <1>10, OthersStay
<1> QED
  BY <1>13, <1>14, <1>15, <1>16, <1>17, <1>18 DEF LoadIInv

\* The end of a call.
CallsAfter(i, t, u, n) ==
    /\ call' \in [Processes -> [Callers -> Call]]
    /\ call'[i][t] = Idle /\ call'[i][u] = n
    /\ \A y \in Callers \ {t, u} : call'[i][y] = call[i][y]
    /\ \A j \in Processes \ {i} : call'[j] = call[j]
LEMMA TwoCalls ==
    ASSUME call \in [Processes -> [Callers -> Call]], NEW i \in Processes,
           NEW t \in Callers, NEW u \in Callers, u # t, NEW n \in Call,
           call' = [call EXCEPT ![i] = [@ EXCEPT ![t] = Idle, ![u] = n]]
    PROVE  CallsAfter(i, t, u, n)
<1> HIDE DEF Call
<1>1. call[i] \in [Callers -> Call] /\ Idle \in Call
  BY IdleTyped
<1>2. PICK f : f = [call[i] EXCEPT ![t] = Idle, ![u] = n]
  OBVIOUS
<1>3. f \in [Callers -> Call] /\ f[t] = Idle /\ f[u] = n /\ \A y \in Callers \ {t, u} : f[y] = call[i][y]
  BY <1>1, <1>2
<1>4. call' = [call EXCEPT ![i] = f]
  BY <1>2
<1> QED
  BY <1>3, <1>4 DEF CallsAfter

\* The call that a call returns to.
LEMMA CallerOf ==
    ASSUME LoadTyped, NEW i \in Processes, ProcessOK(i), NEW t \in Packages, t = inner[i],
           NEW u, u = call[i][t].caller, NEW d, d = call[i][u]
    PROVE  /\ u \in Callers \ {t} /\ d \in Call /\ d.stage = "load"
           /\ d.next \in 1 .. Len(d.imports) /\ d.imports[d.next] = t
           /\ RightAst(i, d, unloaded[i]) /\ t \notin There(analyzed[i]) /\ t \in met[i]
<1> HIDE DEF Call
<1>1. t \in Active(i)
  BY LoadAssumption DEF ProcessOK, ActiveOK
<1>2. u # t /\ u \in Active(i) \cup {File} /\ Calls(i, u, t)
  BY <1>1 DEF ProcessOK, CallersOK
<1>3. u \in Callers \ {t} /\ d \in Call
  BY <1>2 DEF Active, Callers, LoadTyped
<1>4. d.stage = "load" /\ d.next <= Len(d.imports) /\ d.imports[d.next] = t /\ d.next \in Nat \ {0}
  BY <1>2, <1>3 DEF Calls, ProcessOK, LoopsOK
<1>5. d.next \in 1 .. Len(d.imports)
  <2>1. Len(d.imports) \in Nat
    BY <1>3, CallTyped
  <2> QED BY <2>1, <1>4
<1>6. There(d.ast) \subseteq There(analyzed[i])
  BY <1>3 DEF ProcessOK, AstsOK
<1>7. i \notin disturbed => \A p \in There(d.ast) \ blurred : d.ast[p].version = source[p]
  <2> SUFFICES ASSUME i \notin disturbed, NEW p \in There(d.ast) \ blurred PROVE d.ast[p].version = source[p]
    OBVIOUS
  <2>1. CurrentOK(i) /\ p \in Packages
    BY DEF ProcessOK, There
  <2> QED BY <2>1, <1>3 DEF CurrentOK
<1>8. Sound(i) => Closes(d.ast, unloaded[i])
  BY <1>3 DEF ProcessOK, ClosedOK
<1>9. Sound(i) /\ d.stage # "idle" => Passed(d, unloaded[i])
  BY <1>3 DEF ProcessOK, PassedOK
<1>10. t \notin There(analyzed[i]) /\ t \in met[i]
  BY <1>1 DEF ProcessOK, ActiveOK
<1> QED
  BY <1>3, <1>4, <1>5, <1>6, <1>7, <1>8, <1>9, <1>10 DEF RightAst
LEMMA FailsKeeps ==
    ASSUME LoadIInv, NEW i \in Processes, Fails(i), inner[i] # File,
           i \notin disturbed /\ inner[i] \notin blurred => Faulty(inner[i])
    PROVE  LoadIInv'
<1> HIDE DEF Call
<1>1. LoadTyped /\ PrintsOK /\ FilesOK /\ EvictedOK /\ (\A j \in Processes : ProcessOK(j))
  BY DEF LoadIInv
<1>2. PICK t, u, d : t = inner[i] /\ u = call[i][t].caller /\ d = call[i][u]
  OBVIOUS
<1>3. t \in Packages /\ t # File
  BY <1>1, <1>2, TopOf
<1>4. /\ u \in Callers \ {t} /\ d \in Call /\ d.stage = "load"
      /\ d.next \in 1 .. Len(d.imports) /\ d.imports[d.next] = t
      /\ RightAst(i, d, unloaded[i]) /\ t \notin There(analyzed[i]) /\ t \in met[i]
  BY <1>1, <1>2, <1>3, CallerOf, SMTT(30)
<1>5. PICK n : n = Advance(d, d.ast)
  OBVIOUS
<1>6. Advanced(n, d, d.ast)
  BY <1>4, <1>5, CallTyped, CallAdvances
<1>7. call' = [call EXCEPT ![i] = [@ EXCEPT ![t] = Idle, ![u] = n]] /\ inner' = [inner EXCEPT ![i] = u]
  BY <1>2, <1>5 DEF Fails, Current
<1>8. Quiet /\ UNCHANGED <<stamp, disk, prints, met, analyzed, closure>>
  BY DEF Fails, Quiet
<1>8a. unloaded' \in [Processes -> SUBSET Packages] /\ unloaded'[i] = unloaded[i] \cup {t}
      /\ \A j \in Processes \ {i} : unloaded'[j] = unloaded[j]
  BY <1>1, <1>2, <1>3 DEF LoadTyped, Fails, Note
<1>9. /\ call' \in [Processes -> [Callers -> Call]]
      /\ call'[i][t] = Idle /\ call'[i][u] = n
      /\ \A y \in Callers \ {t, u} : call'[i][y] = call[i][y]
      /\ \A j \in Processes \ {i} : call'[j] = call[j]
  <2>1. t \in Callers /\ n \in Call /\ call \in [Processes -> [Callers -> Call]]
    BY <1>1, <1>3, <1>6 DEF LoadTyped, Advanced, Callers
  <2>2. CallsAfter(i, t, u, n)
    BY <2>1, <1>4, <1>7, TwoCalls
  <2> QED BY <2>2 DEF CallsAfter
<1>10. inner' \in [Processes -> Callers] /\ inner'[i] = u /\ \A j \in Processes \ {i} : inner'[j] = inner[j]
  BY <1>1, <1>4, <1>7 DEF LoadTyped
<1>11. LoadTyped'
  BY <1>1, <1>8, <1>8a, <1>9, <1>10 DEF LoadTyped, Quiet, Sources, Versions
<1>12. Others(i)
  BY <1>8, <1>8a, <1>9, <1>10 DEF Others
<1>12a. unloaded[i] \subseteq unloaded'[i]
  BY <1>8a
<1>13. Stores(i, t) /\ Notes(i, t)
  <2>1. \A p \in Packages : closure[i][p] \subseteq There(analyzed[i])
    BY <1>1 DEF ProcessOK, AstsOK
  <2>2. Sound(i) => Knows(analyzed[i], closure[i], unloaded'[i])
    BY <1>1, <1>12a, MoreLost DEF ProcessOK, KnownOK
  <2>3. Notes(i, t)
    BY <1>2, <1>4, <1>8, <1>8a DEF Notes
  <2> QED BY <2>1, <2>2, <2>3, <1>3, <1>4, <1>8 DEF Stores
<1>14. Learns(i, n)
  <2>1. Sound(i) => Closes(d.ast, unloaded'[i]) /\ Passed(d, unloaded'[i])
    BY <1>4, <1>12a, MoreLost DEF RightAst
  <2>2. d.next <= Len(d.imports) /\ t \in unloaded'[i]
    BY <1>4, <1>8a, CallTyped
  <2>3. Sound(i) => Passed(n, unloaded'[i])
    BY <2>1, <2>2, <1>4, <1>6, PassesOne
  <2> QED BY <2>1, <2>3, <1>4, <1>6, <1>8 DEF Learns, RightAst, Advanced
<1>15. GoesOn(n, d) /\ n \in Call
  BY <1>6 DEF Advanced, SameButLoop, GoesOn
<1>16. ProcessOK(i)'
  BY <1>1, <1>2, <1>3, <1>7, <1>8, <1>10, <1>13, <1>14, <1>15, CallEnds
<1>17. \A p \in Packages : call'[i][p].stage = "write" => call'[i][p] = call[i][p]
  <2> SUFFICES ASSUME NEW p \in Packages, call'[i][p].stage = "write" PROVE call'[i][p] = call[i][p]
    OBVIOUS
  <2>1. p # t
    BY <1>9, IdleTyped
  <2>2. p # u
    BY <1>4, <1>9, <1>15 DEF GoesOn
  <2> QED BY <2>1, <2>2, <1>9 DEF Callers
<1> QED
  BY <1>1, <1>8, <1>11, <1>12, <1>16, <1>17, StepOfOne
LEMMA FailToReadKeeps ==
    ASSUME LoadIInv, NEW i \in Processes, FailToRead(i) PROVE LoadIInv'
<1>1. LoadTyped /\ ProcessOK(i)
  BY DEF LoadIInv
<1>2. inner[i] # File
  BY <1>1, TopOf DEF FailToRead
<1> QED BY <1>2, FailsKeeps DEF FailToRead, Faulty
LEMMA FailToAnalyzeKeeps ==
    ASSUME LoadIInv, NEW i \in Processes, FailToAnalyze(i) PROVE LoadIInv'
<1>1. LoadTyped /\ ProcessOK(i)
  BY DEF LoadIInv
<1>2. PICK t, c : t = inner[i] /\ c = call[i][t]
  OBVIOUS
<1>3. t # File /\ t \in Packages /\ c.stage = "load" /\ "package" \in Broken[t][c.own.version]
  BY <1>1, <1>2, TopOf DEF FailToAnalyze, Current
<1>4. i \notin disturbed /\ t \notin blurred => c.own.version = source[t]
  BY <1>1, <1>2, <1>3 DEF ProcessOK, HashesOK, ContentsOK
<1> QED BY <1>2, <1>3, <1>4, FailsKeeps DEF FailToAnalyze, Faulty
LEMMA EvictKeeps ==
    ASSUME LoadIInv, NEW i \in Processes, Evict(i) PROVE LoadIInv'
<1> HIDE DEF Call
<1>1. LoadTyped /\ PrintsOK /\ FilesOK /\ EvictedOK /\ (\A j \in Processes : ProcessOK(j))
  BY DEF LoadIInv
<1>2. PICK t, c : t = inner[i] /\ c = call[i][t]
  OBVIOUS
<1>3. c \in Call /\ t # File /\ t \in Packages /\ c.stage = "load" /\ c.next > Len(c.imports)
  BY <1>1, <1>2, TopOf DEF Evict, AllLoaded, Current
<1>4. RightAst(i, c, unloaded[i]) /\ RightLoop(c) /\ RightContents(t, c)
  BY <1>1, <1>2, <1>3, TopIsRight
<1>5. PICK n : n = [c EXCEPT !.stage = "write"]
  OBVIOUS
<1>6. Staged(n, c, "write")
  BY <1>3, <1>5, StageChanges
<1>7. /\ call' = [call EXCEPT ![i] = [@ EXCEPT ![t] = n]]
      /\ disk' = evictStale(t, c.hash)
  BY <1>2, <1>5 DEF Evict, Becomes, Current
<1>8. Quiet /\ UNCHANGED <<stamp, prints, met, analyzed, closure, unloaded, inner>>
  BY DEF Evict, Quiet
<1>9. /\ call' \in [Processes -> [Callers -> Call]]
      /\ call'[i][t] = n
      /\ \A y \in Callers \ {t} : call'[i][y] = call[i][y]
      /\ \A j \in Processes \ {i} : call'[j] = call[j]
  BY <1>1, <1>3, <1>6, <1>7, OneCall DEF LoadTyped, Callers, Staged
<1>10. disk' \subseteq disk /\ \A e \in disk' : e.package = t => e.hash = c.hash
  BY <1>7 DEF evictStale
<1>11. LoadTyped'
  BY <1>1, <1>8, <1>9, <1>10 DEF LoadTyped, Quiet, Sources, Versions
<1>12. PrintsOK'
  BY <1>1, <1>8 DEF PrintsOK, Quiet, Remembered
<1>13. FilesOK'
  BY <1>1, <1>8, <1>10 DEF FilesOK, Quiet, FilesHoldTheirSource, OneFileEach
<1>14. EvictedOK'
  <2> SUFFICES ASSUME NEW j \in Processes, NEW p \in Packages \ (blurred \cup overtaken),
                      call'[j][p].stage = "write", NEW e \in disk', e.package = p
               PROVE  e.hash = call'[j][p].hash
    BY <1>8 DEF EvictedOK, Quiet
  <2>1. CASE j = i /\ p = t
    BY <2>1, <1>6, <1>9, <1>10 DEF Staged, SameButLoop
  <2>2. CASE ~(j = i /\ p = t)
    <3>1. call'[j][p] = call[j][p]
      BY <2>2, <1>9 DEF Callers
    <3> QED BY <3>1, <1>1, <1>10 DEF EvictedOK
  <2> QED BY <2>1, <2>2
<1>15. ProcessOK(i)'
  <2>1. RightAst(i, n, unloaded'[i])
    BY <1>3, <1>4, <1>6, <1>8 DEF RightAst, Staged, SameButLoop, Passed, Partial
  <2>2. RightLoop(n)
    BY <1>3, <1>4, <1>6 DEF RightLoop, Staged, SameButLoop
  <2>3. RightContents(t, n)
    BY <1>3, <1>4, <1>6 DEF RightContents, Staged, SameButLoop
  <2>4. n \in Call /\ n.stage = "write" /\ n.caller = c.caller /\ n.hash = c.hash
    BY <1>6 DEF Staged, SameButLoop
  <2>5. /\ {} \in SUBSET Gone /\ {} \cap met[i] = {}
        /\ met'[i] = met[i] \cup {} /\ unloaded'[i] = unloaded[i] \cup {}
    BY <1>8
  <2> QED BY <2>1, <2>2, <2>3, <2>4, <2>5, <1>1, <1>2, <1>3, <1>7, <1>8, TopStep
<1>16. ASSUME NEW j \in Processes \ {i} PROVE ProcessOK(j)'
  BY <1>1, <1>8, <1>9, OthersStay DEF Quiet
<1> QED
  BY <1>11, <1>12, <1>13, <1>14, <1>15, <1>16 DEF LoadIInv
LEMMA OwnTyped ==
    ASSUME NEW c \in Call, NEW p \in Packages
    PROVE  OwnMetadata(p, c) \in Metadata /\ OwnMetadata(p, c).version = c.own.version
           /\ (~c.found => OwnMetadata(p, c).whole = c.own.whole)
<1>1. c.own \in Metadata /\ c.ast \in Asts
  BY CallTyped
<1>1a. c.own.whole \in BOOLEAN
  <2> HIDE DEF AnyVersion
  <2> QED BY <1>1 DEF Metadata
<1>2. c.own.version \in AnyVersion /\ \A q \in Packages : c.ast[q].version \in AnyVersion
  <2> HIDE DEF AnyVersion
  <2> QED BY <1>1 DEF Metadata, Asts
<1>3. Missing \in AnyVersion
  <2> HIDE DEF AnyVersion
  <2> QED BY IdleTyped DEF NoMetadata, Metadata
<1>4. CASE c.found
  BY <1>1, <1>4 DEF OwnMetadata
<1>5. CASE ~c.found
  <2> DEFINE saw == [q \in Packages |-> IF \E k \in DOMAIN c.imports : c.imports[k] = q
                                          THEN c.ast[q].version ELSE Missing]
  <2> HIDE DEF AnyVersion
  <2>1. saw \in [Packages -> AnyVersion]
    BY <1>2, <1>3
  <2>2. OwnMetadata(p, c) = [version |-> c.own.version, whole |-> c.own.whole, saw |-> saw]
    BY <1>5 DEF OwnMetadata
  <2> HIDE DEF saw
  <2> QED BY <1>1a, <1>2, <2>1, <2>2 DEF Metadata
<1> QED
  BY <1>4, <1>5
LEMMA FinishPackageKeeps ==
    ASSUME LoadIInv, NEW i \in Processes, FinishPackage(i) PROVE LoadIInv'
<1> HIDE DEF Call
<1>1. LoadTyped /\ PrintsOK /\ FilesOK /\ EvictedOK /\ (\A j \in Processes : ProcessOK(j))
  BY DEF LoadIInv
<1>2. PICK t, c, u, d : t = inner[i] /\ c = call[i][t] /\ u = c.caller /\ d = call[i][u]
  OBVIOUS
<1>3. /\ t \in Packages /\ t # File /\ c \in Call /\ c.stage \in {"load", "write"}
      /\ c.next > Len(c.imports)
  <2>1. t \in Packages /\ t # File /\ c \in Call
    BY <1>1, <1>2, TopOf DEF FinishPackage, Current
  <2>2. c.stage = "write" \/ (c.stage = "load" /\ c.next > Len(c.imports))
    BY <1>2 DEF FinishPackage, AllLoaded, Current
  <2>3. c.stage = "write" => c.next > Len(c.imports)
    BY <2>1, <1>1, <1>2 DEF ProcessOK, LoopsOK, Callers
  <2> QED BY <2>1, <2>2, <2>3
<1>4. /\ u \in Callers \ {t} /\ d \in Call /\ d.stage = "load"
      /\ d.next \in 1 .. Len(d.imports) /\ d.imports[d.next] = t
      /\ RightAst(i, d, unloaded[i]) /\ t \notin There(analyzed[i]) /\ t \in met[i]
  BY <1>1, <1>2, <1>3, CallerOf, SMTT(30)
<1>5. RightAst(i, c, unloaded[i]) /\ RightContents(t, c)
  BY <1>1, <1>2, <1>3, TopIsRight
<1>6. PICK own : own = OwnMetadata(t, c)
  OBVIOUS
<1>7. own \in Metadata /\ own.version \in Versions(t) \ {Missing} /\ (t \notin blurred => own.version = c.hash)
      /\ (own.whole /\ Partial(c) => FALSE)
  BY <1>3, <1>5, <1>6, OwnTyped DEF RightContents, Partial
<1>8. PICK new : new = mergeAnalyzedClosureAt(d.ast, analyzed'[i], closure'[i], t)
  OBVIOUS
<1>8a. PICK ast \in AstsAfter(d, new) :
         call' = [call EXCEPT ![i] = [@ EXCEPT ![t] = Idle, ![u] = Advance(d, ast)]]
  BY <1>2, <1>8 DEF FinishPackage, Current
<1>9. PICK n : n = Advance(d, ast) /\ call' = [call EXCEPT ![i] = [@ EXCEPT ![t] = Idle, ![u] = n]]
  BY <1>8a
<1>9a. ast = new \/ (Partial(d) /\ ast = d.ast)
  BY <1>8a DEF AstsAfter
<1>10. /\ call' = [call EXCEPT ![i] = [@ EXCEPT ![t] = Idle, ![u] = n]] /\ inner' = [inner EXCEPT ![i] = u]
       /\ disk' = (IF c.stage = "write" THEN Put(t, c.hash, own) ELSE disk)
       /\ storeAnalyzedPkg(i, t, own, [c.ast EXCEPT ![t] = own])
  BY <1>2, <1>6, <1>9 DEF FinishPackage, Current
<1>11. Quiet /\ UNCHANGED <<stamp, prints, met, unloaded>>
  BY DEF FinishPackage, Quiet
<1>12. /\ analyzed' \in [Processes -> Asts] /\ analyzed'[i][t] = own
       /\ \A p \in Packages \ {t} : analyzed'[i][p] = analyzed[i][p]
       /\ \A j \in Processes \ {i} : analyzed'[j] = analyzed[j]
  <2>1. analyzed \in [Processes -> [Packages -> Metadata]]
    BY <1>1 DEF LoadTyped, Asts
  <2>2. PICK f : f = [analyzed[i] EXCEPT ![t] = own]
    OBVIOUS
  <2> HIDE DEF Metadata
  <2>3. f \in [Packages -> Metadata] /\ f[t] = own /\ \A p \in Packages \ {t} : f[p] = analyzed[i][p]
    BY <2>1, <2>2, <1>3, <1>7
  <2>4. analyzed' = [analyzed EXCEPT ![i] = f]
    BY <2>2, <1>10 DEF storeAnalyzedPkg
  <2> QED BY <2>1, <2>3, <2>4 DEF Asts
<1>13. There(analyzed'[i]) = There(analyzed[i]) \cup {t}
  BY <1>3, <1>7, <1>12 DEF There
<1>14. PICK below : below = There([c.ast EXCEPT ![t] = own]) \ {t}
  OBVIOUS
<1>15. below = There(c.ast) \ {t} /\ below \subseteq Packages
  <2>1. c.ast \in [Packages -> Metadata]
    BY <1>3, CallTyped DEF Asts
  <2>2. \A p \in Packages \ {t} : [c.ast EXCEPT ![t] = own][p] = c.ast[p]
    <3> HIDE DEF Metadata
    <3> QED BY <2>1
  <2> QED BY <2>2, <1>14 DEF There
<1>16. /\ closure' \in [Processes -> [Packages -> SUBSET Packages]] /\ closure'[i][t] = below
       /\ \A p \in Packages \ {t} : closure'[i][p] = closure[i][p]
       /\ \A j \in Processes \ {i} : closure'[j] = closure[j]
  <2>1. closure \in [Processes -> [Packages -> SUBSET Packages]]
    BY <1>1 DEF LoadTyped
  <2>2. PICK f : f = [closure[i] EXCEPT ![t] = below]
    OBVIOUS
  <2>3. f \in [Packages -> SUBSET Packages] /\ f[t] = below /\ \A p \in Packages \ {t} : f[p] = closure[i][p]
    BY <2>1, <2>2, <1>3, <1>15
  <2>4. closure' = [closure EXCEPT ![i] = f]
    BY <2>2, <1>10, <1>14 DEF storeAnalyzedPkg
  <2> QED BY <2>1, <2>3, <2>4
<1>17. There(c.ast) \subseteq There(analyzed[i]) /\ \A p \in Packages : closure'[i][p] \subseteq There(analyzed'[i])
  <2>1. There(c.ast) \subseteq There(analyzed[i])
    BY <1>5 DEF RightAst
  <2>2. \A p \in Packages : closure[i][p] \subseteq There(analyzed[i])
    BY <1>1 DEF ProcessOK, AstsOK
  <2> QED BY <2>1, <2>2, <1>13, <1>15, <1>16
<1>18. i \notin disturbed /\ t \notin blurred => own.version = source[t]
  <2>1. i \notin disturbed /\ t \notin blurred => c.hash = source[t]
    BY <1>1, <1>2, <1>3 DEF ProcessOK, HashesOK
  <2> QED BY <2>1, <1>7
<1>19. ASSUME Sound(i), NEW p \in There(analyzed'[i]), analyzed'[i][p].whole
       PROVE  ImportsNow(p) \subseteq closure'[i][p] \cup unloaded[i]
  <2>1. CASE p # t
    <3>1. p \in There(analyzed[i]) /\ p \in Packages
      BY <2>1, <1>13, <1>19 DEF There
    <3> QED BY <3>1, <2>1, <1>1, <1>12, <1>16, <1>19 DEF ProcessOK, KnownOK, Knows
  <2>2. CASE p = t
    <3> SUFFICES ASSUME NEW q \in ImportsNow(t) PROVE q \in below \cup unloaded[i]
      BY <2>2, <1>16
    <3>1. PICK k \in 1 .. Len(c.imports) : c.imports[k] = q
      BY <1>1, <1>2, <1>3, <1>19, ImportsAreThose DEF Sound
    <3>2. k < c.next
      BY <1>3, CallTyped
    <3>3. q \in There(c.ast) \cup unloaded[i]
      <4>1. Passed(c, unloaded[i]) /\ ~Partial(c)
        BY <2>2, <1>3, <1>5, <1>7, <1>12, <1>19 DEF RightAst
      <4> QED BY <4>1, <3>1, <3>2 DEF Passed
    <3>4. q # t
      <4>1. PICK r \in {t} : ImportsNow(r) \cap {t} = {}
        BY <1>3, <1>19 DEF Sound, ImportsAreOrdered
      <4> QED BY <4>1
    <3> QED BY <3>3, <3>4, <1>15
  <2> QED BY <2>1, <2>2
<1>20. Stores(i, t) /\ Notes(i, t)
  <2>1. /\ There(analyzed[i]) \subseteq There(analyzed'[i])
        /\ There(analyzed'[i]) \subseteq There(analyzed[i]) \cup {t}
        /\ t \in There(analyzed'[i])
    BY <1>13
  <2>2. \A p \in There(analyzed[i]) : analyzed'[i][p] = analyzed[i][p]
    BY <1>4, <1>12 DEF There
  <2>3. Sound(i) => Knows(analyzed'[i], closure'[i], unloaded'[i])
    BY <1>11, <1>19 DEF Knows
  <2>4. Notes(i, t)
    BY <2>1, <1>11 DEF Notes
  <2> QED BY <2>1, <2>2, <2>3, <2>4, <1>12, <1>17, <1>18 DEF Stores
<1>21. MergedWell(new, d.ast, analyzed'[i], closure'[i], t, unloaded'[i])
  <2>1. /\ d.ast \in Asts /\ analyzed'[i] \in Asts /\ closure'[i] \in [Packages -> SUBSET Packages]
        /\ There(d.ast) \subseteq There(analyzed'[i])
    BY <1>4, <1>12, <1>13, <1>16, CallTyped DEF RightAst
  <2>2. PICK known, low : known = analyzed'[i] /\ low = closure'[i]
    OBVIOUS
  <2>3. MergedWell(new, d.ast, known, low, t, unloaded'[i])
    BY <2>1, <2>2, <1>3, <1>8, <1>17, MergesWell
  <2> QED BY <2>2, <2>3
<1>22. Advanced(n, d, ast)
  <2>1. ast \in Asts
    BY <1>4, <1>9a, <1>21, CallTyped DEF MergedWell
  <2> QED BY <2>1, <1>4, <1>9, CallAdvances
<1>23. Learns(i, n)
  <2>1. There(ast) \subseteq There(analyzed'[i]) /\ There(d.ast) \subseteq There(ast) /\ (~Partial(d) => t \in There(ast))
    BY <1>4, <1>9a, <1>13, <1>21 DEF MergedWell, RightAst
  <2>2. i \notin disturbed => \A p \in There(ast) \ blurred : ast[p].version = source[p]
    <3> SUFFICES ASSUME i \notin disturbed PROVE \A p \in There(ast) \ blurred : ast[p].version = source[p]
      OBVIOUS
    <3>1. \A q \in There(d.ast) \ blurred : d.ast[q].version = source[q]
      BY <1>4 DEF RightAst
    <3>2. \A q \in There(analyzed'[i]) \ blurred : analyzed'[i][q].version = source[q]
      <4> SUFFICES ASSUME NEW q \in There(analyzed'[i]) \ blurred PROVE analyzed'[i][q].version = source[q]
        OBVIOUS
      <4>1. CASE q = t
        BY <4>1, <1>12, <1>18
      <4>2. CASE q # t
        <5>1. q \in There(analyzed[i]) /\ q \in Packages /\ analyzed'[i][q] = analyzed[i][q]
          BY <4>2, <1>12, <1>13 DEF There
        <5> QED BY <5>1, <1>1 DEF ProcessOK, CurrentOK
      <4> QED BY <4>1, <4>2
    <3> QED BY <3>1, <3>2, <1>9a, <1>21 DEF MergedWell
  <2>3. Sound(i) => Closes(ast, unloaded'[i])
    <3>1. Sound(i) => Closes(d.ast, unloaded'[i]) /\ Knows(analyzed'[i], closure'[i], unloaded'[i])
      BY <1>4, <1>11, <1>20 DEF RightAst, Stores
    <3> QED BY <3>1, <1>9a, <1>21 DEF MergedWell
  <2>4. Sound(i) => Passed(n, unloaded'[i])
    <3>1. Sound(i) => Passed(d, unloaded'[i])
      BY <1>4, <1>11 DEF RightAst
    <3>2. d.next <= Len(d.imports)
      BY <1>4, CallTyped
    <3> QED BY <2>1, <3>1, <3>2, <1>4, <1>22, PassesOne
  <2> QED BY <2>1, <2>2, <2>3, <2>4, <1>22 DEF Learns, Advanced
<1>24. /\ call' \in [Processes -> [Callers -> Call]]
       /\ call'[i][t] = Idle /\ call'[i][u] = n
       /\ \A y \in Callers \ {t, u} : call'[i][y] = call[i][y]
       /\ \A j \in Processes \ {i} : call'[j] = call[j]
  <2>1. t \in Callers /\ n \in Call /\ call \in [Processes -> [Callers -> Call]]
    BY <1>1, <1>3, <1>22 DEF LoadTyped, Advanced, Callers
  <2>2. CallsAfter(i, t, u, n)
    BY <2>1, <1>4, <1>10, TwoCalls
  <2> QED BY <2>2 DEF CallsAfter
<1>25. inner' \in [Processes -> Callers] /\ inner'[i] = u /\ \A j \in Processes \ {i} : inner'[j] = inner[j]
  BY <1>1, <1>4, <1>10 DEF LoadTyped
<1>26. GoesOn(n, d) /\ n \in Call
  BY <1>22 DEF Advanced, SameButLoop, GoesOn
<1>27. ProcessOK(i)'
  BY <1>1, <1>2, <1>3, <1>10, <1>11, <1>20, <1>23, <1>25, <1>26, CallEnds
<1>28. ASSUME NEW j \in Processes \ {i} PROVE ProcessOK(j)'
  BY <1>1, <1>11, <1>12, <1>16, <1>24, <1>25, OthersStay DEF Quiet
<1>29. PICK file : file = [package |-> t, hash |-> c.hash, holds |-> own]
  OBVIOUS
<1>30. /\ c.stage = "write" => disk' = {e \in disk : ~(e.package = t /\ e.hash = c.hash)} \cup {file}
       /\ c.stage # "write" => disk' = disk
  BY <1>10, <1>29 DEF Put, Hits
<1>31. /\ file \in [package : Packages, hash : AnyVersion, holds : Metadata]
       /\ file.package = t /\ file.hash = c.hash /\ file.holds = own /\ c.hash \in Versions(t)
  <2>1. c.hash \in Versions(t)
    BY <1>1, <1>2, <1>3 DEF ProcessOK, HashesOK
  <2> HIDE DEF Metadata, AnyVersion
  <2> QED BY <2>1, <1>3, <1>7, <1>29, ImportsTyped
<1>32. LoadTyped'
  <2>1. disk' \subseteq [package : Packages, hash : AnyVersion, holds : Metadata]
    <3> HIDE DEF Metadata, AnyVersion
    <3> QED BY <1>1, <1>30, <1>31 DEF LoadTyped
  <2> QED BY <2>1, <1>1, <1>11, <1>12, <1>16, <1>24, <1>25 DEF LoadTyped, Quiet, Sources, Versions
<1>33. PrintsOK'
  BY <1>1, <1>11 DEF PrintsOK, Quiet, Remembered
<1>34. FilesOK'
  <2>1. CASE c.stage # "write"
    BY <2>1, <1>1, <1>11, <1>30 DEF FilesOK, Quiet, FilesHoldTheirSource, OneFileEach
  <2>2. CASE c.stage = "write"
    <3>1. \A e \in disk' : e = file \/ (e \in disk /\ ~(e.package = t /\ e.hash = c.hash))
      BY <2>2, <1>30
    <3>2. \A e \in disk' : e.hash \in Versions(e.package) /\ e.holds.version \in Versions(e.package) \ {Missing}
      BY <3>1, <1>1, <1>7, <1>31 DEF FilesOK
    <3>3. \A e \in disk' : e.package \in blurred \/ e.holds.version = e.hash
      BY <3>1, <1>1, <1>7, <1>31 DEF FilesOK, FilesHoldTheirSource
    <3>4. \A e, f \in disk' : e.package = f.package /\ e.hash = f.hash => e = f
      BY <3>1, <1>1, <1>31 DEF FilesOK
    <3>5. t \notin blurred \cup overtaken => \A e \in disk : e.package = t => e.hash = c.hash
      BY <2>2, <1>1, <1>2, <1>3 DEF EvictedOK
    <3>6. \A e, f \in disk' : e.package = f.package /\ e.package \notin blurred \cup overtaken => e = f
      <4> SUFFICES ASSUME NEW e \in disk', NEW f \in disk', e.package = f.package, e.package \notin blurred \cup overtaken
                   PROVE  e = f
        OBVIOUS
      <4>1. CASE e.package = t
        BY <4>1, <3>1, <3>5, <1>31
      <4>2. CASE e.package # t
        BY <4>2, <3>1, <1>1, <1>31 DEF FilesOK, OneFileEach
      <4> QED BY <4>1, <4>2
    <3> QED BY <3>2, <3>3, <3>4, <3>6, <1>11 DEF FilesOK, FilesHoldTheirSource, OneFileEach, Quiet
  <2> QED BY <2>1, <2>2
<1>35. EvictedOK'
  <2> SUFFICES ASSUME NEW j \in Processes, NEW p \in Packages \ (blurred \cup overtaken),
                      call'[j][p].stage = "write", NEW e \in disk', e.package = p
               PROVE  e.hash = call'[j][p].hash
    BY <1>11 DEF EvictedOK, Quiet
  <2>1. call'[j][p] = call[j][p]
    <3>1. CASE j # i
      BY <3>1, <1>24
    <3>2. CASE j = i
      <4>1. p # t
        BY <3>2, <1>24, IdleTyped
      <4>2. p # u
        BY <3>2, <1>4, <1>24, <1>26 DEF GoesOn
      <4> QED BY <3>2, <4>1, <4>2, <1>24 DEF Callers
    <3> QED BY <3>1, <3>2
  <2>2. CASE e \in disk
    BY <2>1, <2>2, <1>1 DEF EvictedOK
  <2>3. CASE e \notin disk
    <3>1. e = file /\ p = t
      BY <2>3, <1>30, <1>31
    <3>2. c.hash = source[t]
      BY <3>1, <1>1, <1>2, <1>3 DEF ProcessOK, HashesOK
    <3>3. call[j][t].hash = source[t]
      BY <2>1, <3>1, <1>1, <1>3 DEF ProcessOK, HashesOK
    <3> QED BY <2>1, <3>1, <3>2, <3>3, <1>31
  <2> QED BY <2>2, <2>3
<1> QED
  BY <1>27, <1>28, <1>32, <1>33, <1>34, <1>35 DEF LoadIInv

\* A process that has begun nothing, with an analyzer that knows nothing.
FreshState(i) ==
    /\ met[i] = {} /\ There(analyzed[i]) = {} /\ (\A p \in Packages : closure[i][p] = {})
    /\ unloaded[i] = {} /\ call[i] = NoCalls /\ inner[i] = File
LEMMA FreshIsOK == \A i \in Processes : FreshState(i) => ProcessOK(i)
<1> SUFFICES ASSUME NEW i \in Processes, FreshState(i) PROVE ProcessOK(i)
  OBVIOUS
<1>0. /\ met[i] = {} /\ There(analyzed[i]) = {} /\ (\A p \in Packages : closure[i][p] = {})
      /\ unloaded[i] = {} /\ call[i] = NoCalls /\ inner[i] = File
  BY DEF FreshState
<1>1. \A x \in Callers : call[i][x] = Idle
  BY <1>0 DEF NoCalls, Callers
<1>2. Idle.stage = "idle" /\ Idle.next = 1 /\ There(Idle.ast) = {} /\ ~Partial(Idle)
  BY IdleTyped
<1> HIDE DEF Idle
<1>3. Active(i) = {} /\ \A p \in Packages : p \in Callers
  BY <1>1, <1>2 DEF Active, Callers
<1>4. HashesOK(i) /\ ContentsOK(i)
  BY <1>1, <1>2, <1>3 DEF HashesOK, ContentsOK
<1>5. ActiveOK(i)
  BY <1>0, <1>1, <1>2, <1>3 DEF ActiveOK, Callers
<1>6. CallersOK(i)
  BY <1>3 DEF CallersOK
<1>7. AstsOK(i) /\ LoopsOK(i)
  BY <1>0, <1>1, <1>2 DEF AstsOK, LoopsOK
<1>8. CurrentOK(i) /\ MissedOK(i) /\ KnownOK(i) /\ ClosedOK(i) /\ PassedOK(i)
  BY <1>0, <1>1, <1>2 DEF CurrentOK, MissedOK, KnownOK, Knows, ClosedOK, PassedOK, Closes
<1> QED
  BY <1>4, <1>5, <1>6, <1>7, <1>8 DEF ProcessOK
LEMMA FreshIsOKLater == (\A i \in Processes : FreshState(i) => ProcessOK(i))'
<1> QED BY FreshIsOK, PTL
LEMMA NoCallsTyped == NoCalls \in [Callers -> Call]
<1> HIDE DEF Call, Idle
<1> QED BY IdleTyped DEF NoCalls, Callers

\* A process gets a new analyzer, or is replaced.
LEMMA ForgetKeeps ==
    ASSUME LoadIInv, NEW i \in Processes, Forget(i), UNCHANGED <<source, stamp, disk, blurred, overtaken>>,
           prints' = prints \/ prints' = [prints EXCEPT ![i] = [p \in Packages |-> NoPrint]]
    PROVE  LoadIInv'
<1> HIDE DEF Call
<1>1. LoadTyped /\ PrintsOK /\ FilesOK /\ EvictedOK /\ (\A j \in Processes : ProcessOK(j))
  BY DEF LoadIInv
<1>2. /\ met' = [met EXCEPT ![i] = {}] /\ analyzed' = [analyzed EXCEPT ![i] = Nothing]
      /\ closure' = [closure EXCEPT ![i] = [p \in Packages |-> {}]]
      /\ unloaded' = [unloaded EXCEPT ![i] = {}]
      /\ call' = [call EXCEPT ![i] = NoCalls] /\ inner' = [inner EXCEPT ![i] = File]
      /\ disturbed' = disturbed \ {i}
  BY DEF Forget
<1>3. /\ met'[i] = {} /\ analyzed'[i] = Nothing /\ (\A p \in Packages : closure'[i][p] = {})
      /\ unloaded'[i] = {} /\ call'[i] = NoCalls /\ inner'[i] = File
  BY <1>1, <1>2 DEF LoadTyped
<1>4. Others(i)
  BY <1>1, <1>2 DEF LoadTyped, Others
<1>5. /\ prints' \in [Processes -> [Packages -> [stamp : Nat, hash : AnyVersion]]]
      /\ \A j \in Processes, q \in Packages : prints'[j][q] = prints[j][q] \/ prints'[j][q] = NoPrint
  <2> DEFINE Prints == [stamp : Nat, hash : AnyVersion]
  <2>1. NoPrint \in Prints
    <3>1. Missing \in AnyVersion
      <4> HIDE DEF AnyVersion
      <4> QED BY IdleTyped DEF NoMetadata, Metadata
    <3> QED BY <3>1 DEF NoPrint
  <2>2. prints \in [Processes -> [Packages -> Prints]]
    BY <1>1 DEF LoadTyped
  <2> HIDE DEF Prints
  <2>3. [p \in Packages |-> NoPrint] \in [Packages -> Prints]
    BY <2>1
  <2>4. prints' \in [Processes -> [Packages -> Prints]]
    BY <2>2, <2>3
  <2>5. \A j \in Processes, q \in Packages : prints'[j][q] = prints[j][q] \/ prints'[j][q] = NoPrint
    BY <2>2
  <2> QED BY <2>4, <2>5 DEF Prints
<1>6. LoadTyped'
  <2>1. /\ met' \in [Processes -> SUBSET Packages] /\ inner' \in [Processes -> Callers]
        /\ unloaded' \in [Processes -> SUBSET Packages]
    BY <1>1, <1>2 DEF LoadTyped, Callers
  <2>2. analyzed' \in [Processes -> Asts]
    BY <1>1, <1>2, IdleTyped DEF LoadTyped
  <2>3. closure' \in [Processes -> [Packages -> SUBSET Packages]]
    <3>1. [p \in Packages |-> {}] \in [Packages -> SUBSET Packages]
      OBVIOUS
    <3> QED BY <3>1, <1>1, <1>2 DEF LoadTyped
  <2>4. call' \in [Processes -> [Callers -> Call]]
    BY <1>1, <1>2, NoCallsTyped DEF LoadTyped
  <2> QED BY <2>1, <2>2, <2>3, <2>4, <1>1, <1>2, <1>5 DEF LoadTyped, Sources, Versions
<1>7. PrintsOK'
  <2> SUFFICES ASSUME NEW j \in Processes, NEW q \in Packages
               PROVE  /\ prints'[j][q].stamp <= stamp[q]
                      /\ prints'[j][q].stamp # 0 => prints'[j][q].hash \in Versions(q)
                      /\ prints'[j][q].stamp = stamp[q] /\ q \notin blurred => prints'[j][q].hash = source[q]
    BY DEF PrintsOK, Remembered
  <2>1. CASE prints'[j][q] = prints[j][q]
    BY <2>1, <1>1 DEF PrintsOK, Remembered
  <2>2. CASE prints'[j][q] = NoPrint
    <3>1. stamp[q] \in Nat \ {0}
      BY <1>1 DEF LoadTyped
    <3> QED BY <3>1, <2>2 DEF NoPrint
  <2> QED BY <2>1, <2>2, <1>5
<1>8. FilesOK'
  BY <1>1 DEF FilesOK, FilesHoldTheirSource, OneFileEach
<1>9. EvictedOK'
  <2> SUFFICES ASSUME NEW j \in Processes, NEW p \in Packages \ (blurred \cup overtaken),
                      call'[j][p].stage = "write", NEW e \in disk, e.package = p
               PROVE  e.hash = call'[j][p].hash
    BY DEF EvictedOK
  <2>1. j # i
    <3>1. p \in Callers /\ NoCalls[p] = Idle
      BY DEF NoCalls, Callers
    <3> QED BY <3>1, <1>3, IdleTyped
  <2> QED BY <2>1, <1>1, <1>4 DEF EvictedOK, Others
<1>10. ProcessOK(i)'
  <2>1. There(analyzed'[i]) = {}
    BY <1>3, IdleTyped
  <2>2. FreshState(i)'
    BY <2>1, <1>3 DEF FreshState, There
  <2> QED BY <2>2, FreshIsOKLater
<1>11. ASSUME NEW j \in Processes \ {i} PROVE ProcessOK(j)'
  <2>1. (j \in disturbed') = (j \in disturbed)
    BY <1>2
  <2> QED BY <2>1, <1>1, <1>4, OthersStay DEF Others
<1> QED
  BY <1>6, <1>7, <1>8, <1>9, <1>10, <1>11 DEF LoadIInv

\* A source is edited.
LEMMA EditKeeps ==
    ASSUME LoadIInv, NEW p \in Packages, Edit(p) PROVE LoadIInv'
<1> HIDE DEF Call
<1>1. LoadTyped /\ PrintsOK /\ FilesOK /\ EvictedOK /\ (\A j \in Processes : ProcessOK(j))
  BY DEF LoadIInv
<1>2. PICK v \in Versions(p) \ {source[p]}, inPlace \in BOOLEAN :
         /\ source' = [source EXCEPT ![p] = v]
         /\ stamp' = [stamp EXCEPT ![p] = IF inPlace THEN @ ELSE @ + 1]
         /\ blurred' = IF \E i \in Processes : \/ inPlace /\ Remembered(i, p)
                                               \/ call[i][p].stage \in {"look", "read"}
                         THEN blurred \cup {p} ELSE blurred
  BY DEF Edit
<1>3. /\ overtaken' = IF \E i \in Processes : call[i][p].stage # "idle"
                        THEN overtaken \cup {p} ELSE overtaken
      /\ disturbed' = disturbed \cup {i \in Processes : ~Fresh(i)}
      /\ UNCHANGED <<disk, prints, met, analyzed, closure, unloaded, call, inner>>
  BY DEF Edit
<1>4. /\ source' \in Sources /\ source'[p] = v /\ \A q \in Packages \ {p} : source'[q] = source[q]
  <2>1. v \in UNION {Versions(q) : q \in Packages}
    <3> HIDE DEF Versions
    <3> QED BY <1>2
  <2> HIDE DEF Versions
  <2> QED BY <2>1, <1>1, <1>2 DEF LoadTyped, Sources
<1>5. /\ stamp' \in [Packages -> Nat \ {0}] /\ stamp'[p] = (IF inPlace THEN stamp[p] ELSE stamp[p] + 1)
      /\ \A q \in Packages \ {p} : stamp'[q] = stamp[q]
  BY <1>1, <1>2 DEF LoadTyped
<1>6. blurred \subseteq blurred' /\ blurred' \subseteq blurred \cup {p}
      /\ overtaken \subseteq overtaken' /\ overtaken' \subseteq overtaken \cup {p}
      /\ disturbed \subseteq disturbed'
  BY <1>2, <1>3
<1>7. \A ast : There(ast)' = There(ast)
  BY DEF There
<1>8. LoadTyped'
  <2>1. blurred' \subseteq Packages /\ overtaken' \subseteq Packages /\ disturbed' \subseteq Processes
    BY <1>1, <1>3, <1>6 DEF LoadTyped
  <2> QED BY <2>1, <1>1, <1>3, <1>4, <1>5 DEF LoadTyped, Sources, Versions
<1>9. PrintsOK'
  <2> SUFFICES ASSUME NEW j \in Processes, NEW q \in Packages
               PROVE  /\ prints[j][q].stamp <= stamp'[q]
                      /\ prints[j][q].stamp # 0 => prints[j][q].hash \in Versions(q)
                      /\ prints[j][q].stamp = stamp'[q] /\ q \notin blurred' => prints[j][q].hash = source'[q]
    BY <1>3 DEF PrintsOK, Remembered, Versions
  <2>1. stamp[q] \in Nat /\ prints[j][q].stamp \in Nat /\ prints[j][q].stamp <= stamp[q]
        /\ (prints[j][q].stamp # 0 => prints[j][q].hash \in Versions(q))
        /\ (prints[j][q].stamp = stamp[q] /\ q \notin blurred => prints[j][q].hash = source[q])
    <3>1. prints[j][q] \in [stamp : Nat, hash : AnyVersion]
      BY <1>1 DEF LoadTyped
    <3>2. prints[j][q].stamp \in Nat
      BY <3>1
    <3> QED BY <3>2, <1>1 DEF LoadTyped, PrintsOK, Remembered
  <2>2. CASE q # p
    BY <2>1, <2>2, <1>4, <1>5, <1>6
  <2>3. CASE q = p /\ ~inPlace
    BY <2>1, <2>3, <1>5
  <2>4. CASE q = p /\ inPlace
    <3>1. prints[j][q].stamp = stamp[q] => q \in blurred'
      BY <2>4, <1>2 DEF Remembered
    <3> QED BY <3>1, <2>1, <2>4, <1>5
  <2> QED BY <2>2, <2>3, <2>4
<1>10. FilesOK'
  BY <1>1, <1>3, <1>6 DEF FilesOK, FilesHoldTheirSource, OneFileEach, Versions
<1>11. EvictedOK'
  BY <1>1, <1>3, <1>6 DEF EvictedOK
<1>12. ASSUME NEW i \in Processes PROVE ProcessOK(i)'
  <2>1. CASE Fresh(i)
    <3>1. /\ There(analyzed[i]) = {} /\ inner[i] = File /\ unloaded[i] = {}
          /\ \A q \in Packages : closure[i][q] = {}
      <4>1. There(analyzed[i]) = {} /\ \A q \in Packages : closure[i][q] \subseteq There(analyzed[i])
        BY <2>1, <1>1 DEF Fresh, ProcessOK, ActiveOK, AstsOK
      <4>2. inner[i] = File
        BY <2>1, <1>1 DEF Fresh, ProcessOK, ActiveOK
      <4>3. unloaded[i] = {}
        BY <2>1, <1>1 DEF Fresh, ProcessOK, MissedOK
      <4> QED BY <4>1, <4>2, <4>3
    <3>2. FreshState(i)'
      BY <3>1, <2>1, <1>3, <1>7 DEF Fresh, FreshState
    <3> QED BY <3>2, FreshIsOKLater
  <2>2. CASE ~Fresh(i)
    <3>1. i \in disturbed'
      BY <2>2, <1>3
    <3>2. /\ Active(i)' = Active(i)
          /\ \A x, q : Calls(i, x, q)' = Calls(i, x, q)
      BY <1>3 DEF Active, Calls
    <3>3. HashesOK(i)'
      <4> SUFFICES ASSUME NEW q \in Packages
                   PROVE  LET d == call[i][q] IN
                          /\ d.stage # "done"
                          /\ d.stage # "idle" => d.hash \in Versions(q)
                          /\ d.stage \in {"look", "read"} /\ q \notin blurred' => d.hash = source'[q]
                          /\ d.stage # "idle" /\ q \notin blurred' /\ q \notin overtaken' => d.hash = source'[q]
        BY <3>1, <1>3 DEF HashesOK, Versions
      <4>1. CASE q = p
        <5>1. call[i][q].stage \in {"look", "read"} => q \in blurred'
          BY <4>1, <1>2
        <5>2. call[i][q].stage # "idle" => q \in overtaken'
          BY <4>1, <1>3
        <5> QED BY <5>1, <5>2, <1>1 DEF ProcessOK, HashesOK
      <4>2. CASE q # p
        BY <4>2, <1>1, <1>4, <1>6 DEF ProcessOK, HashesOK
      <4> QED BY <4>1, <4>2
    <3>4. ContentsOK(i)'
      BY <1>1, <1>3, <1>6 DEF ProcessOK, ContentsOK, Versions
    <3>5. ActiveOK(i)'
      BY <3>2, <1>1, <1>3, <1>7 DEF ProcessOK, ActiveOK, Partial
    <3>6. CallersOK(i)'
      BY <3>2, <1>1, <1>3 DEF ProcessOK, CallersOK
    <3>7. AstsOK(i)' /\ LoopsOK(i)'
      BY <1>1, <1>3, <1>7 DEF ProcessOK, AstsOK, LoopsOK
    <3>8. CurrentOK(i)' /\ KnownOK(i)' /\ ClosedOK(i)' /\ PassedOK(i)'
      BY <3>1 DEF CurrentOK, KnownOK, ClosedOK, PassedOK, Sound
    <3>9. MissedOK(i)'
      BY <3>1, <3>2, <1>1, <1>3, <1>7 DEF ProcessOK, MissedOK
    <3> QED BY <3>3, <3>4, <3>5, <3>6, <3>7, <3>8, <3>9 DEF ProcessOK
  <2> QED BY <2>1, <2>2
<1> QED
  BY <1>8, <1>9, <1>10, <1>11, <1>12 DEF LoadIInv

-----------------------------------------------------------------------------
(* PackageLoading.  The theorems.                                           *)

LEMMA LoadInitOK == LoadInit => LoadIInv
<1> SUFFICES ASSUME LoadInit PROVE LoadIInv
  OBVIOUS
<1> HIDE DEF Call
<1>1. LoadTyped
  <2>1. \A p \in Packages : stamp[p] = 1
    BY DEF LoadInit
  <2>2. prints \in [Processes -> [Packages -> [stamp : Nat, hash : AnyVersion]]]
    <3>1. Missing \in AnyVersion
      <4> HIDE DEF AnyVersion
      <4> QED BY IdleTyped DEF NoMetadata, Metadata
    <3> HIDE DEF AnyVersion
    <3>2. NoPrint \in [stamp : Nat, hash : AnyVersion]
      BY <3>1 DEF NoPrint
    <3> QED BY <3>2 DEF LoadInit
  <2>3. analyzed \in [Processes -> Asts] /\ call \in [Processes -> [Callers -> Call]]
    BY IdleTyped, NoCallsTyped DEF LoadInit
  <2>4. /\ closure \in [Processes -> [Packages -> SUBSET Packages]]
        /\ met \in [Processes -> SUBSET Packages] /\ unloaded \in [Processes -> SUBSET Packages]
    BY DEF LoadInit
  <2>5. stamp \in [Packages -> Nat \ {0}]
    BY DEF LoadInit
  <2>6. inner \in [Processes -> Callers]
    BY DEF LoadInit, Callers
  <2> QED BY <2>2, <2>3, <2>4, <2>5, <2>6 DEF LoadInit, LoadTyped
<1>2. PrintsOK
  BY DEF LoadInit, PrintsOK, Remembered, NoPrint
<1>3. FilesOK
  BY DEF LoadInit, FilesOK, FilesHoldTheirSource, OneFileEach
<1>4. EvictedOK
  BY DEF LoadInit, EvictedOK
<1>5. ASSUME NEW i \in Processes PROVE ProcessOK(i)
  <2>1. met[i] = {} /\ analyzed[i] = Nothing /\ call[i] = NoCalls /\ inner[i] = File
        /\ unloaded[i] = {} /\ \A p \in Packages : closure[i][p] = {}
    BY DEF LoadInit
  <2> QED BY <2>1, IdleTyped, FreshIsOK DEF FreshState
<1> QED
  BY <1>1, <1>2, <1>3, <1>4, <1>5 DEF LoadIInv
LEMMA LoadStutters ==
    ASSUME LoadIInv, UNCHANGED loadVars PROVE LoadIInv'
<1>1. LoadTyped /\ PrintsOK /\ FilesOK /\ EvictedOK /\ (\A j \in Processes : ProcessOK(j))
  BY DEF LoadIInv
<1>2. UNCHANGED <<source, stamp, disk, prints, met, analyzed, closure, unloaded, call, inner,
                  blurred, overtaken, disturbed>>
  BY DEF loadVars
<1>3. LoadTyped'
  BY <1>1, <1>2 DEF LoadTyped, Sources, Versions
<1>4. PrintsOK' /\ FilesOK' /\ EvictedOK'
  BY <1>1, <1>2 DEF PrintsOK, Remembered, FilesOK, FilesHoldTheirSource, OneFileEach, EvictedOK, Versions
<1>5. ASSUME NEW j \in Processes PROVE ProcessOK(j)'
  BY <1>1, <1>2, OthersStay
<1> QED
  BY <1>3, <1>4, <1>5 DEF LoadIInv
LEMMA LoadStepOK == LoadIInv /\ [LoadNext]_loadVars => LoadIInv'
<1> SUFFICES ASSUME LoadIInv, [LoadNext]_loadVars PROVE LoadIInv'
  OBVIOUS
<1>1. ASSUME NEW i \in Processes, Step(i) PROVE LoadIInv'
  BY <1>1, AnalyzeKeeps, MergeKnownKeeps, PassOverKeeps, FailToResolveKeeps, analyzePackageKeeps,
     LookOnDiskKeeps, ReadSourcesKeeps, FailToReadKeeps, FailToAnalyzeKeeps, EvictKeeps,
     FinishPackageKeeps, FinishFileKeeps, FileFailsKeeps DEF Step
<1>2. ASSUME NEW i \in Processes, NewAnalyzer(i) \/ Restart(i) PROVE LoadIInv'
  <2>1. Forget(i) /\ UNCHANGED <<source, stamp, disk, blurred, overtaken>>
    BY <1>2 DEF NewAnalyzer, Restart
  <2>2. prints' = prints \/ prints' = [prints EXCEPT ![i] = [p \in Packages |-> NoPrint]]
    BY <1>2 DEF NewAnalyzer, Restart
  <2> QED BY <2>1, <2>2, ForgetKeeps
<1>3. ASSUME NEW p \in Packages, Edit(p) PROVE LoadIInv'
  BY <1>3, EditKeeps
<1>4. ASSUME UNCHANGED loadVars PROVE LoadIInv'
  BY <1>4, LoadStutters
<1> QED
  BY <1>1, <1>2, <1>3, <1>4 DEF LoadNext
\* Whatever the processes, the packages and their imports are, and however often
\* the sources are edited, the invariant holds in every state.
THEOREM LoadInvariantHolds == LoadSpec => []LoadIInv
<1> QED BY LoadInitOK, LoadStepOK, PTL DEF LoadSpec

LEMMA LoadIsRight == LoadIInv => CachedResultsAreCurrent
<1> SUFFICES ASSUME LoadIInv PROVE CachedResultsAreCurrent
  OBVIOUS
<1> HIDE DEF Call
<1>1. LoadTyped /\ FilesOK /\ (\A j \in Processes : ProcessOK(j)) /\ File \in Callers
  BY DEF LoadIInv, Callers
<1>2. LoadTypeOK
  <2>1. \A e \in disk : /\ e.package \in Packages
                        /\ {e.hash, e.holds.version} \subseteq Versions(e.package)
    BY <1>1 DEF LoadTyped, FilesOK
  <2> QED BY <2>1, <1>1 DEF LoadTyped, LoadTypeOK, Callers
<1>3. FilesHoldTheirSource /\ OneFileEach
  BY <1>1 DEF FilesOK
<1>4. ResultsAreCurrent
  <2> SUFFICES ASSUME NEW i \in Processes \ disturbed, NEW p \in Result(i) \ blurred
               PROVE  call[i][File].ast[p].version = source[p]
    BY DEF ResultsAreCurrent
  <2>1. p \in Packages /\ p \in There(call[i][File].ast) /\ CurrentOK(i)
    BY <1>1 DEF Result, There, ProcessOK
  <2> QED BY <2>1, <1>1 DEF CurrentOK
<1>5. ResultsAreComplete
  <2> SUFFICES ASSUME blurred = {}, ImportsAreOrdered, NEW i \in Processes \ disturbed, call[i][File].stage = "done"
               PROVE  /\ Elements(call[i][File].imports) \subseteq Result(i) \cup unloaded[i]
                      /\ \A p \in Result(i) : call[i][File].ast[p].whole =>
                           ImportsNow(p) \subseteq Result(i) \cup unloaded[i]
    BY DEF ResultsAreComplete
  <2>1. PICK c \in Call : c = call[i][File]
    BY <1>1 DEF LoadTyped
  <2>2. Sound(i) /\ PassedOK(i) /\ ClosedOK(i) /\ LoopsOK(i) /\ ~Partial(c)
    BY <1>1, <2>1 DEF Sound, ProcessOK, ActiveOK
  <2>3. \A k \in 1 .. Len(c.imports) : k < c.next
    BY <2>1, <2>2, <1>1, CallTyped DEF LoopsOK
  <2>4. \A k \in 1 .. Len(c.imports) : c.imports[k] \in Result(i) \cup unloaded[i]
    <3>1. Passed(c, unloaded[i])
      BY <2>1, <2>2, <1>1 DEF PassedOK
    <3> QED BY <3>1, <2>1, <2>2, <2>3 DEF Passed, Result
  <2>5. DOMAIN c.imports = 1 .. Len(c.imports)
    <3>1. c.imports \in Seq(Packages)
      BY CallTyped
    <3> QED BY <3>1
  <2>6. Closes(c.ast, unloaded[i])
    BY <2>1, <2>2, <1>1 DEF ClosedOK
  <2> QED BY <2>1, <2>4, <2>5, <2>6 DEF Elements, Closes, Result
<1>6. LeftOutIsNoted
  <2>1. \A i \in Processes : \A p \in met[i] : p \in Packages
    BY <1>1 DEF LoadTyped
  <2> QED BY <2>1, <1>1 DEF LeftOutIsNoted, ProcessOK, MissedOK, Active, Faulty
<1> QED
  BY <1>2, <1>3, <1>4, <1>5, <1>6 DEF CachedResultsAreCurrent
\* The result of an analysis is of the sources as they are, through whatever caches
\* it came, and complete but for the imports that failed, each of which is noted.
THEOREM CachesAreCurrent == LoadSpec => []CachedResultsAreCurrent
<1> QED BY LoadInvariantHolds, LoadIsRight, PTL
=============================================================================
