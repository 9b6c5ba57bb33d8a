--------------------------- MODULE PackageLoading ---------------------------
(***************************************************************************)
(* How the analyzer loads the packages that a file imports, and the caches *)
(* between it and the sources (internal/transpiler/analyzer): analyzedPkgs *)
(* of an analyzer, the fingerprints that a process remembers, and the disk *)
(* cache that all processes of a project share.  Processes take turns, and *)
(* sources are edited, between any two accesses to what they share.        *)
(*                                                                         *)
(* A package is at a version of its source, or missing.  Its own metadata  *)
(* is [version |-> ..., saw |-> ..., whole |-> ...]: the source it was     *)
(* made from, the version of each import whose metadata was at hand, for a *)
(* name that is not the package's own is looked up there, and whether it   *)
(* is of all files, for one whose analysis fails is passed over in         *)
(* silence.  A package whose analysis fails, at whatever depth, is noted   *)
(* (packageLoadFailures), and no name is reported as undefined by an       *)
(* analyzer that noted one.  What a load returns maps                      *)
(* every package of the closure to its own metadata.  A package loads once *)
(* in an analyzer, so pkgResultCache, which is asked after analyzedPkgs,   *)
(* has no answer of its own.                                               *)
(***************************************************************************)
EXTENDS Naturals, Sequences, FiniteSets

CONSTANTS Packages, Processes,
          Imports,     \* Imports[p][v]: what version v of p imports, in order; Missing
                       \* is among the versions of a package that may be missing
          Broken,      \* Broken[p][v]: what may fail in it when it is analysed, of
                       \* "file" (one of its files) and "package" (the whole)
          Roots,       \* the imports of a file that is analysed, in order
          Missing,     \* the version of a package that is not there
          File,        \* the call that analyses the file itself
          MaxEdits     \* bound

Versions(p) == DOMAIN Imports[p]
Sources == {f \in [Packages -> UNION {Versions(p) : p \in Packages}] :
              \A p \in Packages : f[p] \in Versions(p)}

ASSUME LoadAssumption ==
    /\ File \notin Packages
    /\ Roots \subseteq Seq(Packages)
    /\ \A p \in Packages : \A v \in Versions(p) : Imports[p][v] \in Seq(Packages)
    /\ \A p \in Packages : \A v \in Versions(p) : Broken[p][v] \subseteq {"file", "package"}
    /\ MaxEdits \in Nat

VARIABLES
    source,    \* the version of each package
    stamp,     \* of its directory: modification time, size, number of files
    disk,      \* the cache files: [package, hash, holds]
    prints,    \* prints[i][p]: the fingerprint that process i remembers
    met,       \* met[i]: the keys of analyzedPkgs
    analyzed,  \* analyzed[i][p]: its values, NoMetadata for nil
    closure,   \* closure[i][p]: analyzedPkgImports
    unloaded,  \* unloaded[i]: packageLoadFailures
    call,      \* call[i][p]: the call of analyzePackage under way for p
    inner,     \* inner[i]: the innermost call
    edits,
    blurred,   \* history: packages edited between their fingerprint and its use
    overtaken, \* history: packages edited while they were loaded
    disturbed  \* history: processes whose analyzer has lived through an edit

loadVars == <<source, stamp, disk, prints, met, analyzed, closure, unloaded, call,
              inner, edits, blurred, overtaken, disturbed>>

NoMetadata == [version |-> Missing, saw |-> [q \in Packages |-> Missing], whole |-> TRUE]
Nothing == [p \in Packages |-> NoMetadata]
NoPrint == [stamp |-> 0, hash |-> Missing]

\* A call looks on the disk, reads the sources, loads the imports and writes the
\* cache file.
Idle == [stage |-> "idle", found |-> FALSE, hash |-> Missing, own |-> NoMetadata,
         imports |-> << >>, next |-> 1, ast |-> Nothing, caller |-> File]
NoCalls == [p \in Packages \cup {File} |-> Idle]

LoadInit ==
    /\ source \in Sources
    /\ stamp = [p \in Packages |-> 1]
    /\ disk = {}
    /\ prints = [i \in Processes |-> [p \in Packages |-> NoPrint]]
    /\ met = [i \in Processes |-> {}]
    /\ analyzed = [i \in Processes |-> Nothing]
    /\ closure = [i \in Processes |-> [p \in Packages |-> {}]]
    /\ unloaded = [i \in Processes |-> {}]
    /\ call = [i \in Processes |-> NoCalls]
    /\ inner = [i \in Processes |-> File]
    /\ edits = 0 /\ blurred = {} /\ overtaken = {} /\ disturbed = {}

-----------------------------------------------------------------------------
(* The caches.                                                              *)

\* RichAST.Merge keeps what is there.
There(ast) == {p \in Packages : ast[p].version # Missing}
Merge(ast, other) == [p \in Packages |-> IF p \in There(ast) THEN ast[p] ELSE other[p]]

\* pkgFingerprintForDir: read again only when the directory has changed.
\* Mutant: never read again.
RememberedForEver(i, p) == prints[i][p] # NoPrint
Remembered(i, p) == prints[i][p].stamp = stamp[p]
\* Mutant: the state of the directory serves as the hash.
PrintOfDirectory(i, p) ==
    IF Remembered(i, p) THEN prints[i][p] ELSE [stamp |-> stamp[p], hash |-> 1]
pkgFingerprint(i, p) ==
    IF Remembered(i, p) THEN prints[i][p] ELSE [stamp |-> stamp[p], hash |-> source[p]]

\* Get and Put of the disk cache.  Put drops the other files of the package.
\* Mutants: any file of the package will do; the other files stay.
HitsAny(p, hash) == {e \in disk : e.package = p}
evictNothing(p, hash) == disk
Hits(p, hash) == {e \in disk : e.package = p /\ e.hash = hash}
evictStale(p, hash) == {e \in disk : e.package = p => e.hash = hash}
Put(p, hash, own) == (disk \ Hits(p, hash)) \cup {[package |-> p, hash |-> hash, holds |-> own]}

\* mergeAnalyzedClosureAt: the own metadata of p and of all that it reaches.
Reached(known, below, p) ==
    {q \in Packages :
       \A S \in SUBSET Packages :
          p \in S /\ (\A r \in There(known) \cap S : below[r] \subseteq S) => q \in S}
mergeAnalyzedClosureAt(ast, known, below, p) ==
    Merge(ast, [q \in Packages |-> IF q \in Reached(known, below, p) THEN known[q] ELSE NoMetadata])

\* Mutant: what was put in the place of the package stays there.
storeClosureOnly(i, p, own, ast) ==
    /\ closure' = [closure EXCEPT ![i] = [@ EXCEPT ![p] = There(ast) \ {p}]]
    /\ UNCHANGED analyzed
storeAnalyzedPkg(i, p, own, ast) ==
    /\ closure' = [closure EXCEPT ![i] = [@ EXCEPT ![p] = There(ast) \ {p}]]
    /\ analyzed' = [analyzed EXCEPT ![i] = [@ EXCEPT ![p] = own]]

-----------------------------------------------------------------------------
(* The loop over the imports of a file (Analyze, scanImports and            *)
(* rehydrateImports have the same): each is merged when it is analysed,     *)
(* loaded when it was never met, and passed over while it is being analysed *)
(* and for good when it could not be.                                       *)

Current(i) == call[i][inner[i]]
HasNext(i) == Current(i).stage = "load" /\ Current(i).next <= Len(Current(i).imports)
NextImport(i) == Current(i).imports[Current(i).next]
Advance(c, ast) == [c EXCEPT !.next = @ + 1, !.ast = ast]
\* What a file had loaded that is passed over is dropped with it.
Partial(c) == ~c.found /\ ~c.own.whole
AstsAfter(c, ast) == IF Partial(c) THEN {ast, c.ast} ELSE {ast}
Becomes(i, p, c) == call' = [call EXCEPT ![i] = [@ EXCEPT ![p] = c]]

Analyze(i) ==
    /\ call[i][File].stage \in {"idle", "done"}
    /\ \E imports \in Roots :
         Becomes(i, File, [Idle EXCEPT !.stage = "load", !.imports = imports])
    /\ UNCHANGED <<source, stamp, disk, prints, met, analyzed, closure, unloaded, inner,
                   edits, blurred, overtaken, disturbed>>

MergeKnown(i) ==
    /\ HasNext(i) /\ NextImport(i) \in met[i]
    /\ LET ast == mergeAnalyzedClosureAt(Current(i).ast, analyzed[i], closure[i], NextImport(i))
       IN  \E result \in AstsAfter(Current(i), ast) : Becomes(i, inner[i], Advance(Current(i), result))
    /\ UNCHANGED <<source, stamp, disk, prints, met, analyzed, closure, unloaded, inner,
                   edits, blurred, overtaken, disturbed>>

\* A file that fails does not come to its other imports.
PassOver(i) ==
    /\ HasNext(i) /\ Partial(Current(i))
    /\ Becomes(i, inner[i], Advance(Current(i), Current(i).ast))
    /\ UNCHANGED <<source, stamp, disk, prints, met, analyzed, closure, unloaded, inner,
                   edits, blurred, overtaken, disturbed>>

\* notePackageLoadFailure, which every error of analyzePackage comes to.
\* Mutant: only a package that is not found is noted.
NoteMissing(i, p) ==
    unloaded' = IF source[p] = Missing THEN [unloaded EXCEPT ![i] = @ \cup {p}] ELSE unloaded
Note(i, p) == unloaded' = [unloaded EXCEPT ![i] = @ \cup {p}]

\* The place of the package is taken (analyzer.go:742); it cannot be resolved.
FailToResolve(i) ==
    /\ HasNext(i) /\ NextImport(i) \notin met[i] /\ source[NextImport(i)] = Missing
    /\ met' = [met EXCEPT ![i] = @ \cup {NextImport(i)}]
    /\ Note(i, NextImport(i))
    /\ Becomes(i, inner[i], Advance(Current(i), Current(i).ast))
    /\ UNCHANGED <<source, stamp, disk, prints, analyzed, closure, inner,
                   edits, blurred, overtaken, disturbed>>

\* It is resolved, and its fingerprint taken.
analyzePackage(i) ==
    /\ HasNext(i) /\ NextImport(i) \notin met[i] /\ source[NextImport(i)] # Missing
    /\ LET p == NextImport(i)
           print == pkgFingerprint(i, p)
       IN  /\ met' = [met EXCEPT ![i] = @ \cup {p}]
           /\ prints' = [prints EXCEPT ![i] = [@ EXCEPT ![p] = print]]
           /\ Becomes(i, p, [Idle EXCEPT !.stage = "look", !.hash = print.hash, !.caller = inner[i]])
           /\ inner' = [inner EXCEPT ![i] = p]
    /\ UNCHANGED <<source, stamp, disk, analyzed, closure, unloaded,
                   edits, blurred, overtaken, disturbed>>

\* A cache file is of the package's own metadata: its imports are loaded again.
LookOnDisk(i) ==
    /\ Current(i).stage = "look"
    /\ LET c == Current(i)
           hits == Hits(inner[i], c.hash)
       IN  \/ /\ hits = {}
              /\ Becomes(i, inner[i], [c EXCEPT !.stage = "read"])
           \/ \E e \in hits :
                Becomes(i, inner[i], [c EXCEPT !.stage = "load", !.found = TRUE, !.own = e.holds,
                                               !.imports = Imports[inner[i]][c.hash]])
    /\ UNCHANGED <<source, stamp, disk, prints, met, analyzed, closure, unloaded, inner,
                   edits, blurred, overtaken, disturbed>>

\* A file whose analysis fails is passed over (analyzer.go:2791-2803).
ReadSources(i) ==
    /\ Current(i).stage = "read" /\ source[inner[i]] # Missing
    /\ LET p == inner[i]
           v == source[p]
       IN  \E whole \in BOOLEAN :
             /\ whole \/ "file" \in Broken[p][v]
             /\ Becomes(i, p, [Current(i) EXCEPT
                  !.stage = "load", !.imports = Imports[p][v],
                  !.own = [NoMetadata EXCEPT !.version = v, !.whole = whole]])
    /\ UNCHANGED <<source, stamp, disk, prints, met, analyzed, closure, unloaded, inner,
                   edits, blurred, overtaken, disturbed>>

\* The call fails: it is noted, stores nothing, and leaves the place taken.
Fails(i) ==
    /\ LET x == Current(i).caller
       IN  /\ call' = [call EXCEPT ![i] = [@ EXCEPT ![inner[i]] = Idle,
                                                   ![x] = Advance(call[i][x], call[i][x].ast)]]
           /\ inner' = [inner EXCEPT ![i] = x]
    /\ Note(i, inner[i])
    /\ UNCHANGED <<source, stamp, disk, prints, met, analyzed, closure,
                   edits, blurred, overtaken, disturbed>>

\* The directory has gone meanwhile.
FailToRead(i) == Current(i).stage = "read" /\ source[inner[i]] = Missing /\ Fails(i)

\* The files do not make a package, their names or their types clash: some of the
\* imports are loaded by then (analyzer.go:2812-2816, 2862).
FailToAnalyze(i) ==
    /\ inner[i] # File /\ Current(i).stage = "load" /\ ~Current(i).found
    /\ "package" \in Broken[inner[i]][Current(i).own.version]
    /\ Fails(i)

-----------------------------------------------------------------------------
(* The end of a call.  What came from the sources is put on the disk under  *)
(* the fingerprint taken at the start: the other files of the package go,   *)
(* then the new one is renamed into place.                                  *)

AllLoaded(i) == Current(i).stage = "load" /\ Current(i).next > Len(Current(i).imports)

Evict(i) ==
    /\ AllLoaded(i) /\ inner[i] # File /\ ~Current(i).found
    /\ disk' = evictStale(inner[i], Current(i).hash)
    /\ Becomes(i, inner[i], [Current(i) EXCEPT !.stage = "write"])
    /\ UNCHANGED <<source, stamp, prints, met, analyzed, closure, unloaded, inner,
                   edits, blurred, overtaken, disturbed>>

\* The metadata of the package itself, given that of its imports.
OwnMetadata(p, c) ==
    IF c.found THEN c.own
    ELSE [version |-> c.own.version, whole |-> c.own.whole,
          saw |-> [q \in Packages |-> IF \E k \in DOMAIN c.imports : c.imports[k] = q
                                        THEN c.ast[q].version ELSE Missing]]

\* The caller stores what it gets and merges it with what it has.
FinishPackage(i) ==
    /\ inner[i] # File
    /\ Current(i).stage = "write" \/ (AllLoaded(i) /\ Current(i).found)
    /\ LET p == inner[i]
           c == Current(i)
           x == c.caller
           d == call[i][x]
           own == OwnMetadata(p, c)
       IN  /\ disk' = IF c.stage = "write" THEN Put(p, c.hash, own) ELSE disk
           /\ storeAnalyzedPkg(i, p, own, [c.ast EXCEPT ![p] = own])
           /\ LET ast == mergeAnalyzedClosureAt(d.ast, analyzed'[i], closure'[i], p)
              IN  \E result \in AstsAfter(d, ast) :
                    call' = [call EXCEPT ![i] = [@ EXCEPT ![p] = Idle, ![x] = Advance(d, result)]]
           /\ inner' = [inner EXCEPT ![i] = x]
    /\ UNCHANGED <<source, stamp, prints, met, unloaded, edits, blurred, overtaken, disturbed>>

FinishFile(i) ==
    /\ AllLoaded(i) /\ inner[i] = File
    /\ Becomes(i, File, [Current(i) EXCEPT !.stage = "done"])
    /\ UNCHANGED <<source, stamp, disk, prints, met, analyzed, closure, unloaded, inner,
                   edits, blurred, overtaken, disturbed>>

\* Analyze returns an error of the file's own, before, between or after its imports.
FileFails(i) ==
    /\ Current(i).stage = "load" /\ inner[i] = File
    /\ Becomes(i, File, Idle)
    /\ UNCHANGED <<source, stamp, disk, prints, met, analyzed, closure, unloaded, inner,
                   edits, blurred, overtaken, disturbed>>

-----------------------------------------------------------------------------
(* What happens to a process and to the sources.                            *)

Forget(i) ==
    /\ met' = [met EXCEPT ![i] = {}]
    /\ analyzed' = [analyzed EXCEPT ![i] = Nothing]
    /\ closure' = [closure EXCEPT ![i] = [p \in Packages |-> {}]]
    /\ unloaded' = [unloaded EXCEPT ![i] = {}]
    /\ call' = [call EXCEPT ![i] = NoCalls]
    /\ inner' = [inner EXCEPT ![i] = File]
    /\ disturbed' = disturbed \ {i}

\* The language server makes an analyzer for every analysis of its process.
NewAnalyzer(i) ==
    /\ call[i][File].stage \in {"idle", "done"}
    /\ Forget(i)
    /\ UNCHANGED <<source, stamp, disk, prints, edits, blurred, overtaken>>

\* Another process takes the place of this one, wherever this one was.
Restart(i) ==
    /\ Forget(i)
    /\ prints' = [prints EXCEPT ![i] = [p \in Packages |-> NoPrint]]
    /\ UNCHANGED <<source, stamp, disk, edits, blurred, overtaken>>

\* A source is written in place, which leaves the directory as it is, or
\* replaced, created or removed, which does not.
Fresh(i) == met[i] = {} /\ call[i] = NoCalls
Edit(p) ==
    /\ edits < MaxEdits /\ edits' = edits + 1
    /\ \E v \in Versions(p) \ {source[p]}, inPlace \in BOOLEAN :
         /\ inPlace => Missing \notin {v, source[p]}
         /\ source' = [source EXCEPT ![p] = v]
         /\ stamp' = [stamp EXCEPT ![p] = IF inPlace THEN @ ELSE @ + 1]
         /\ blurred' = IF \E i \in Processes : \/ inPlace /\ Remembered(i, p)
                                               \/ call[i][p].stage \in {"look", "read"}
                         THEN blurred \cup {p} ELSE blurred
    /\ overtaken' = IF \E i \in Processes : call[i][p].stage # "idle"
                      THEN overtaken \cup {p} ELSE overtaken
    /\ disturbed' = disturbed \cup {i \in Processes : ~Fresh(i)}
    /\ UNCHANGED <<disk, prints, met, analyzed, closure, unloaded, call, inner>>

Step(i) == \/ Analyze(i) \/ MergeKnown(i) \/ PassOver(i) \/ FailToResolve(i) \/ analyzePackage(i)
           \/ LookOnDisk(i) \/ ReadSources(i) \/ FailToRead(i) \/ FailToAnalyze(i)
           \/ Evict(i) \/ FinishPackage(i) \/ FinishFile(i) \/ FileFails(i)
LoadNext == \/ \E i \in Processes : Step(i) \/ NewAnalyzer(i) \/ Restart(i)
            \/ \E p \in Packages : Edit(p)

LoadSpec == LoadInit /\ [][LoadNext]_loadVars

-----------------------------------------------------------------------------
(* Properties.                                                              *)

LoadTypeOK ==
    /\ source \in Sources
    /\ \A e \in disk : /\ e.package \in Packages
                       /\ {e.hash, e.holds.version} \subseteq Versions(e.package)
    /\ \A i \in Processes : met[i] \cup unloaded[i] \subseteq Packages /\ inner[i] \in Packages \cup {File}
    /\ blurred \cup overtaken \subseteq Packages /\ disturbed \subseteq Processes

\* A cache file holds the metadata of the source that its name has the hash of,
\* unless the package was edited between the fingerprint and the reading, or in
\* place while its fingerprint was remembered (cache.go:720-730).
FilesHoldTheirSource ==
    \A e \in disk : e.package \in blurred \/ e.holds.version = e.hash

\* One file for each package, unless it was edited while it was loaded
\* (cache.go:608).
OneFileEach ==
    \A e, f \in disk : e.package = f.package /\ e.package \notin blurred \cup overtaken => e = f

\* Through whatever caches it came, in whatever order the processes ran, what an
\* analyzer that saw no edit has of a package is of the sources as they are
\* (analyzer.go:2971).
Result(i) == There(call[i][File].ast)
ResultsAreCurrent ==
    \A i \in Processes \ disturbed : \A p \in Result(i) \ blurred :
        call[i][File].ast[p].version = source[p]

\* And the result is complete: with the packages that the file imports come all
\* that they import, but for those that are noted and for what a file that was
\* passed over imports (analyzer.go:3021).  Go rejects imports in a cycle.
Elements(s) == {s[k] : k \in DOMAIN s}
ImportsNow(p) == Elements(Imports[p][source[p]])
ImportsAreOrdered ==
    \A S \in SUBSET Packages : S # {} => \E p \in S : ImportsNow(p) \cap S = {}
ResultsAreComplete ==
    blurred = {} /\ ImportsAreOrdered =>
      \A i \in Processes \ disturbed : call[i][File].stage = "done" =>
        /\ Elements(call[i][File].imports) \subseteq Result(i) \cup unloaded[i]
        /\ \A p \in Result(i) : call[i][File].ast[p].whole =>
             ImportsNow(p) \subseteq Result(i) \cup unloaded[i]

\* An import is left out for good only if it failed: one without metadata that is
\* not being analysed is noted, so that no name of it is reported as undefined
\* (analyzer.go:742, undefined_symbol.go:391).  What is noted has no metadata, and
\* an analyzer that saw no edit notes what is missing or does not make a package.
LeftOutIsNoted ==
    \A i \in Processes :
      /\ \A p \in met[i] \ There(analyzed[i]) : call[i][p].stage = "idle" => p \in unloaded[i]
      /\ unloaded[i] \cap There(analyzed[i]) = {}
      /\ i \notin disturbed =>
           \A p \in unloaded[i] \ blurred : source[p] = Missing \/ "package" \in Broken[p][source[p]]

\* PackageLoading: a cache file holds the source it is named after, one file for
\* each package, and results are of the sources as they are, with all that they
\* import but what is noted as failed (cache.go:608, analyzer.go:742).
CachedResultsAreCurrent ==
    /\ LoadTypeOK /\ FilesHoldTheirSource /\ OneFileEach
    /\ ResultsAreCurrent /\ ResultsAreComplete /\ LeftOutIsNoted

\* What the comment on the cache key says: the cache invalidates when any
\* imported package's content changes (analyzer.go:2738).  Then the metadata an
\* undisturbed analyzer works with were made from the imports as they are.
ImportsInvalidate ==
    blurred = {} =>
      \A i \in Processes \ disturbed : \A p \in Result(i) : \A q \in ImportsNow(p) :
        call[i][File].ast[p].saw[q] = source[q]
=============================================================================
