# TLA+ specifications of GALA

GALA is a functional language that is transpiled to Go. This directory holds
TLA+ models of the parts of the repository that carry its own logic: the
concurrency runtime (`concurrent/`, `go_interop/`), the build workspace and the
caches that several processes share (`internal/build/`, `internal/depman/`), the
tools that live long (the language server and the Bazel worker), the dependency
manager's algorithms, and the passes of the transpiler. Each module is translated
from the source; `PROJECT.json` maps every definition to the lines it stands for,
and lists the runs, the mutants, the findings, the hazards and the theorems.

Contents: [the system](#the-system), [the modules](#the-modules),
[the runs](#the-runs), [bounds and fairness](#bounds-and-fairness),
[the proofs](#the-proofs), [what the models found](#what-the-models-found),
[what is not modelled](#what-is-not-modelled-and-why), [the plan](#the-plan).

## The system

### Components

| component | source | state | operations | hard behaviour |
|---|---|---|---|---|
| Promise and Future cell | `concurrent/future.gala`, `go_interop/types.go` | result, complete flag, `RWMutex`, `Once`, done signal | Complete, Value, IsCompleted, Await, AwaitFor | rival completers, readers between the two writes, timers |
| Combinators, cancellation, timeouts | `concurrent/future.gala` | the promise of each stage, the token its scope shares | Map ... TransformWith, FutureOn, Cancel, WithTimeout | cancellation against completion, a deadline against a result, tasks that wait inside a pool |
| Futures of arrays | `concurrent/future.gala` | Sequence: a mutex, a counter, a map; Race: a token per member | Sequence, FirstCompletedOf, Race | callbacks against each other and against the loop that registers them |
| Execution contexts | `go_interop/types.go` | tasks channel, shutdown channel, closed flag, worker goroutines | Execute, ExecuteWithRecover, Shutdown | a full channel, shutdown against submission |
| Build workspace | `internal/build/lock.go`, `workspace.go`, `builder.go` | a directory: lock file, `gen/`, the key of what it holds | Build, Test, Clean | several processes, kills, stale locks, partial trees |
| Standard library cache | `internal/build/stdlibver.go` | a directory per version with a marker | ensureStdlibExtracted | binaries of one version with different libraries, readers without the lock, kills, calls that fail half-way |
| Dependency manager | `internal/depman/*`, `cmd/gala/commands/mod_*.go` | module cache, `gala.mod`, `gala.sum`, graph, versions | add, update, remove, tidy; Fetch, Store; Resolve; DetectCycles, TopologicalSort | partial copies, files written in two steps, selection that goes round |
| Bazel worker | `cmd/gala/commands/worker.go` | open requests, analyzers kept per key | handle, cancel, watch the parent | state left by an earlier request, panics |
| Language server | `internal/lsp/server.go`, `completion.go`, `signature_help.go` | open documents, versions, analyses under way, caches | open, change, save, close, complete, signature help | late results, results of a patched text |
| Analyzer and its caches | `internal/transpiler/analyzer` | maps of one analyzer, memo of fingerprints, cache files | load, collect, encode, merge | stale entries, results made from a part |
| Transpiler | `internal/transpiler/transformer`, `infer`, `concurrency`, `scopewalk`, `module` | scopes and tables that do not outlive a file | lowering, inference, checks, lookup | meaning kept by each rewrite |
| YAML codec | `yaml/`, the code generated for structs | none | encode, decode | what is written must be read back |
| Event bus, retry, lazy, parser, standard types, collections, wrappers, command line | `concurrent/event_bus.gala`, `lazy/`, `internal/parser`, `std`, ... | little or none | - | not modelled, see below |

### How they interact

A future is a promise cell plus the token of its cancellation scope and the
execution context it was made on. Every combinator calls `derive`: it makes a
new cell that shares the parent's token and context and registers a callback
with `OnComplete`; the callback is a task handed to `Execute` that parks on the
parent's done signal, reads the result, checks the token and completes the new
cell. So everything that happens to futures happens in tasks, tasks wait for
each other through signals, and on a bounded pool a task that waits keeps its
worker. `Sequence` and `Race` are such callbacks with shared variables.

A build calls `Ensure`, takes the workspace lock, checks the versions and keys
it finds, transpiles the standard library, the dependencies and the project if
they changed, runs `go build` and releases the lock. `gala clean` takes the
same lock and removes the directory the lock file is in. Processes communicate
through that directory only; the standard library cache uses the same lock
routine on its own root, and the module cache, which `gala mod` commands of all
projects share, uses none.

To transpile a file the analyzer loads the packages it imports, each found by
the module lookup and each from memory, from a cache file or from its sources;
it collects what they declare, checks names and hands the tree to the
transformer, which lowers it to Go pass by pass and settles the imports last.
The Bazel worker and the language server run the same analyzer in a process that
goes on, so what an earlier request or an earlier text left behind matters there.

### What makes them correct

- *Cell*: one `Complete` wins; nobody is handed the zero `Try` of a pending
  promise; a result never changes; everybody who waits is released.
- *Combinators*: a failure goes down a chain unchanged; a cancellation reaches
  every later stage of its scope and no other scope; a stage that hands over
  answers what the inner future answers; a deadline fails the bounded future
  and not with the cancellation it causes; every future completes.
- *Arrays*: the values come in the order of the array; no success after a
  failure; only a decided race cancels; every loser is cancelled.
- *Contexts*: an accepted job runs once; nothing runs after `Shutdown`;
  `Shutdown` and `Execute` return.
- *Workspace*: builds exclude each other; no lock file outlives its process
  unless it was killed; what is compiled is the project's sources; a kill
  wedges nobody.
- *Dependencies*: `gala.sum` covers `gala.mod` and holds the hashes of whole
  modules; tidy is idempotent and drops nothing that is used; every requirement
  is met by what is selected; the graph's nodes are the greatest versions.
- *Long-lived tools*: the editor ends up with the diagnostics of the last text,
  and is answered from that text or from what a request made of it; a request that
  the worker survives is answered once, from the files it named; the extracted
  library is whole or absent.
- *Compiler*: what is lowered means what was written; what is accepted compiles;
  what is cached is what the sources say; what is encoded comes back.

The hazards behind these properties are listed with their lines in
`PROJECT.json`.

## The modules

| module | models | source |
|---|---|---|
| `SingleAssignment` | what a promise is for: a cell assigned once (abstract) | `concurrent/future.gala` |
| `Promise` | `FutureState` field by field, which implements it | `go_interop/types.go` |
| `Future` | combinators, scopes, timeouts on an execution context | `concurrent/future.gala` |
| `FutureGroup` | `Sequence`, `FirstCompletedOf`, `Race` | `concurrent/future.gala` |
| `WorkerPool` | the fixed pool and the single thread | `go_interop/types.go` |
| `Workspace` | lock, clean and build in one workspace | `internal/build` |
| `StdlibCache` | extraction of the standard library | `internal/build/stdlibver.go` |
| `ModCommands` | `gala mod` commands, module cache, `gala.mod`, `gala.sum` | `internal/depman`, `cmd/gala/commands` |
| `Versions`, `VersionCalls` | semantic versions and constraints; one call of them | `internal/depman/version` |
| `Resolver` | the rounds of `version.Resolver` | `internal/depman/version/resolver.go` |
| `ModuleGraph` | building the graph, cycles, topological order | `internal/depman/graph` |
| `PersistentWorker` | the Bazel worker | `cmd/gala/commands/worker.go` |
| `LspServer` | the language server | `internal/lsp/server.go` |
| `PackageLoading` | several processes that load packages through their own and a common cache | `analyzer.go`, `cache.go` |
| `Collection`, `PackageMetadata` | what a package declares; how that is encoded, cut and merged | `analyzer.go`, `cache_codec.go` |
| `ModuleLookup`, `FileImports` | where a package is found; the imports of the Go file | `module/resolver.go`, `imports.go` |
| `Infer` | unification, schemes, inference | `infer/` |
| `ScopeWalk`, `TreeSemantics` | the walk for free names; what the trees do when they run | `scopewalk/` |
| `UndefinedNames`, `Shareable`, `Captures` | checks built on the walk | `undefined_symbol.go`, `concurrency/` |
| `TailCalls`, `Matching`, `Patterns`, `CallArguments`, `BindChain`, `ValLowering` | the lowerings | `transformer/` |
| `YamlCodec` | the codec generated for structs, with emitter and parser | `yaml/`, `codec*.go` |
| `MCFutureLive`, `MCModCommands`, `MCTools`, `MCAlgorithms`, `MCCompiler` | the instances that are checked, where a `.cfg` alone does not give them | - |
| `PromiseProofs`, `FutureProofs`, `FutureGroupProofs`, `WorkerPoolProofs`, `WorkspaceProofs`, `ModCommandsProofs`, `ToolsProofs`, `AlgorithmProofs` | theorems | - |

**SingleAssignment.** A cell, a verdict for each completer, a view for each
reader. `Assign` by one completer, an `Answer` for the others, `Observe` by
readers, who may be told to wait no longer (`GiveUp`).

**Promise.** The state is that of `FutureState`: `result`, `complete`, the
mutex as Go implements it (`writer`, `holders`: a writer first shuts new
readers out and then waits for those inside), the once, the done signal. Every
access of a field is a step of its own: a completer goes through `EnterOnce` or
`SkipOnce`, `ShutReadersOut`, `Lock`, `AssignResult`, `SetComplete`, `Unlock`,
`CloseSignal`, `LeaveOnce`; a reader through `Call`, `Signalled` or
`TimerFires`, `RLock`, `ReadFlag`, `ReadResult`, `RUnlock`. The last part of
the module is the refinement mapping to `SingleAssignment`: the cell counts as
assigned when `complete` is set.

**Future.** Futures are the numbers 1 to `N` in the order they are made. For
each: how it was made, its parent, the future its function returned, its token
(named by the future that opened it), its result and whether its signal is
closed. A task is a future and a role (its body, the user's own `Complete`, the
callback on its parent, the callback on the inner future, the two tasks of
`WithTimeout`), and its program counter is where that task is. Values and
errors are named by the future whose code produced them, so that a property can
say *whose* failure arrives. `Pool = 0` is the unbounded context, otherwise the
tasks channel is a queue and `Pool` tasks run at a time. Completing is two
steps here, the result and the signal; that no more can be seen of it is what
`Promise` shows. A panic of a function given to a combinator ends the process:
only root bodies are run with a recover. `Zip`, `Fallback`, `Traverse`, `Fold`
and `ReduceLeft` are compositions of what the module has.

**FutureGroup.** One call of one of the three functions on an array of members
that may occur twice and share tokens. `Register` is the loop; each position
has a callback, and `Sequence`'s callback reads and writes the shared counter
and map in separate steps under the mutex. `Race`'s winner cancels the members
one after the other.

**WorkerPool.** The workers' select loop, the callers of `Execute` between the
check of `closed` and the select that sends, and `Shutdown` in its four steps
with the once around them. A closed channel makes a send panic, as in Go.
Capacity, workers, clients and jobs are constants; whether jobs submit jobs and
whether jobs shut their own pool down are too.

**Workspace.** The directory as a handful of entries: the lock file with the
process that made it and its age, `gen/` as the set of its files, the key, the
version. `lockDir` is a loop of system calls (`MakeDir`, `CreateLock` or
`LockExists`, `Stat`, `Break`, `Retry`), each a step, for what counts is what
other processes do between them. The heartbeat and the minute are one action,
`Age`: a lock file grows stale when no process that holds a lock is alive to
touch it. A build checks the key, clears `gen/`, writes two files, saves the
key, compiles and unlinks the lock file by path; a clean lists the entries,
unlinks them in any order and removes the directory if it is empty by then.
Any process may be killed anywhere. `disturbed` records that a build or a clean
was stopped halfway.

**ModCommands.** One command per project at a time: it reads `gala.mod`, picks
a version, clones and copies module by module and file by file into the shared
cache, hashes the directory, and writes `gala.mod` and then `gala.sum`. A hash
is the set of files it covers. Tidy is the whole of `mod_tidy.go`: the imports
it finds, the fetches, the graph of what the fetched modules require, the
greatest version of each path. Commands of other projects interleave with every
step. A fetch fails at the remote, at any file it copies, or at the hash
(`FetchFails`); that, or a kill in the middle of `Store`, leaves a partial
directory, which `IsCached` counts as cached ever after. A cached module whose
`gala.mod` cannot be read is a leaf of the graph, and tidy leaves a directory that
it cannot hash out of `gala.sum` without a word. `raced`, `torn`, `owed` and
`settled` are history: hashes taken while somebody was storing, directories left
partial, entries a kill or a failed hash has kept from `gala.sum`, projects that
were just tidied with every module whole.

**StdlibCache.** Find, lock, look again, stage, list the old directory, remove it
entry by entry, rename, release, by binaries that may carry another library under
the same version. The lock is a file as in `lock.go`: `Locks` creates it,
`SeesStale` looks at one that nobody renews and `Breaks` removes, a step later,
whatever is there by then; so after a kill two builds may both get in, each removing
and installing, and `crowded` records who was not alone. Every call that may fail
does so with the error return of the code (`LockFails`, `StagingFails`,
`RemoveFails`, `RenameFails`): the build reports it and still releases the lock. A
rename onto a directory that is not empty fails. `torn` records that a removal failed
or was killed half-way.

**PersistentWorker.** The request loop, cancellations, garbled messages, the
analyzers kept per key with what the last request set on them, panics, and the
parent watcher. A panic in a request leaves it without an answer and ends the
process.

**LspServer.** An analysis is a job with its text and version that goes through
parsing, typing, choosing what to show, comparing versions and publishing; a
notification cancels the document's last job and starts another. A completion or a
signature help (`Looks`) analyses too when there is no analysis with a resolved type
in it: it takes the text of the moment, patches it at the caret so that it parses
(`Patches`), and stores the result in the same two critical sections without any
look at versions (`QueryKeepsTree`, `QueryKeepsTypes`). `overtaken`, `overlapped`,
`early` and `outlived` record that a notification met a job in one of the windows in
which it can no longer be stopped, and that a request came before the text had been
analysed.

These three and `Workspace` have nothing in common but that they live long;
`MCTools` puts them beside each other, one subject a behaviour.

**Versions, VersionCalls, Resolver, ModuleGraph.** Versions are records; comparison,
constraints and selection are operators, and the loops of `Max`, `Sort` and
`SelectBest` recursive functions of the number of their round. A behaviour of
`VersionCalls` is one call with its arguments. `Resolver` is `Resolve` with one step
for each requirement taken from the list, over worlds that say what each version
requires. `ModuleGraph` has the recursive builder and the two walks with an
explicit stack.

**PackageLoading.** Each process has an analyzer (`met`, `analyzed`, `closure`: the
keys and values of `analyzedPkgs` and `analyzedPkgImports`), the fingerprints it
remembers (`prints`) and the calls of `analyzePackage` under way: `call[i][p]` is
the frame of package `p`, with its stage, its place in the list of imports, what it
has merged so far and its caller; `inner[i]` is the innermost. A call takes the
fingerprint (`analyzePackage`), looks for a cache file (`LookOnDisk`), reads the
sources when there is none (`ReadSources`, or `FailToRead` when they have gone),
goes through the imports one by one (`MergeKnown`, `FailToResolve`, or a call of
its own), drops the other files of the package (`Evict`) and renames the new one
into place (`FinishPackage`). The analysis of a package fails at any point between
its sources and its cache file (`FailToAnalyze`: two package names in one directory,
a type defined twice): it is noted, stores nothing, and its place in `analyzedPkgs`
stays taken by nil. A file of it that fails is passed over: the rest is stored as the
package, and what only that file imports is missing (`Partial`, `AstsAfter`,
`PassOver`). The file that is analysed may fail too (`FileFails`). The disk is common to the processes, which take turns
between any two of these steps; sources are edited, and processes restarted, there
too. An edit in place does not change the state of the directory, an edit that
replaces a file does. `blurred`, `overtaken` and `disturbed` are history: packages
whose sources changed where no fingerprint can tell, packages edited while they were
loaded, analyzers that lived through an edit. `pkgResultCache` is left out: a
package is loaded once in an analyzer, so it has no answer of its own.

**The compiler's modules** are operators over small trees, each beside a
reference definition written from the language's documents and not from the
algorithm: environments for names, ground instances for types, the recursion for
the loop, the clauses for a bind block, first match for a `match`.

## The runs

Every property has a mutant, a plausible bug of the code written down as an
operator next to the definition it would change; under it the property fails.

| run | properties | what it shows |
|---|---|---|
| `promise` | OneWinner, ImplementsCell, CallsReturn | three completers and two readers: one winner, the abstract cell is implemented, every call returns although readers come back for ever |
| `future` | CancellationSpreads, CancellationStays, AnswersItsSource, DeadlineIsNotACancellation | all programs of three futures of all eleven kinds on the unbounded context, with panics |
| `future_live` | FuturesComplete, DeadlineIsKept | promises, FlatMaps and timeouts on goroutines: every future completes unless a promise is left open, a timeout completes even then; bodies and Maps on one worker: all complete, because the channel is first in first out |
| `group` | AnswerIsRight, GroupEnds | the three functions on every array of at most three of two members that share tokens in every way |
| `group_winner` | WinnerGoesOn (violated) | Race cancels the winner's own token |
| `pool` | RunsOnce, ShutdownIsFinal, CallsReturn | two workers, two clients, five jobs that may submit others |
| `pool_graceful` | ShutdownIsGraceful (violated) | Execute sends on a closed channel |
| `workspace_key` | CompilesItsSources (violated) | the old key over a partial tree |
| `mod_commands` | SumsAreRight, TidyIsRight | commands of two projects on two modules, with a kill, fetches, copies and hashes that fail anywhere, edited imports and new versions |
| `tools` | OneBuild, SkippingIsSound, EveryoneEnds, WorkerIsRight, ServerIsRight, LibraryIsRight, EverythingEnds | a workspace with two builds and a clean, a kill, two edits and open files: exclusion, the key can be trusted, everyone ends; and the three long-lived tools, each by itself |
| `algorithms` | VersionsAreOrdered, SelectionIsRight, GraphIsRight, CachedResultsAreCurrent | versions in small ranges; the resolver and the graph in every small world; two processes that load a package that may fail to be analysed, in whole or in one file, and what it imports, which may be missing or fail too, with an edit or a restart anywhere |
| `compiler` | InfersThePrincipalType, LoopsMeanTheirCalls, FirstMatchWins, CallsAreBound, BlockMeansItsClauses, SharingIsSafe, UndefinedIsReported, CodecsRoundTrip, MergesLoseNothing, PackageIsCollected, CompilesIfMeant, ImportsAreFound, UsesReachTheirPackages | every pass over all programs of a small shape, each against its reference meaning |

`algorithms`, `compiler` and `tools` choose a subject at the start of a behaviour
and leave the variables of the others alone; a property speaks of one subject.
`future_live` leaves binding stages out on the pool for a reason: two chained
FlatMaps on one worker starve, the second waiting on the only worker for a result
whose relay is queued behind it. No document promises otherwise, so this is
stated here and not as a finding.

Deadlock is checked in `promise`; that nobody is stuck in a workspace is part of
`EveryoneEnds`. The other systems may stop: a program makes its
futures and they complete, a pool is shut down, a command ends, an operator has
been evaluated.

## Bounds and fairness

*Bounds.* `N` futures: three make every chain of two stages, a shared source, a
bound future with its inner future and a timeout between two stages; the
invariants relate a future to its parent, its inner future or its scope, so a
violation shows within three, and the proofs lift the bound. `Size` 3 with two
members: a member that occurs twice beside another one; a lost update needs two
callbacks, an order three positions. The pool has capacity 1 where the code has
ten slots a worker: a full channel is the case that matters. Two builds and one
kill give a waiter, a dead holder and a survivor, and a clean that meets both.
In `mod_commands` two projects race for one cache directory of two files, one
module requires a later version of the other than a project starts with, and a
command that fails in a copy or is killed leaves a partial directory that somebody
else finds; both projects start with one requirement, that of the module which the
other one requires later. The server has one document, since documents share nothing
but the mutex, and five notifications and requests: open, change, complete, change,
close. Of its two texts one has a type to resolve and one does not parse until a
request patches it. The library has one file beside its marker, and three builds, two
of them of the same binary: a dead holder and two that break its lock. In the loading
of packages there are two: one version of the first imports the second and may fail, in
a file or as a whole, and the second may be missing or fail itself; that is where failures, caches and
edits meet, and the proof lifts the bound. The two processes are interchangeable, and
the run uses that (`SYMMETRY`, sound because no property of
`algorithms` is temporal). The worker has two requests: what
one leaves behind the other finds. The resolver's worlds have four paths, of which
one has no version, with cyclic requirements; the graph's two modules have two
versions each, which may require each other, themselves and the project.
`compiler` bounds the depth of trees, two or three levels, which is where each
lowering looks.

`N`, `Size`, `MaxCrashes`, `MaxEdits`, `MaxCommands`, `MaxKills`, `MaxRequests`, `MaxMessages`
and the fuel of `TailCalls` are bounds of the models; the other constants are
parameters of the code. In `Future` the channel of a pool is never full, which is
so in the code as long as fewer than `10 * n` tasks wait; the full channel is the
business of `WorkerPool`.

*Fairness.* Weak fairness for each goroutine, task, worker and process: the Go
scheduler and the operating system run what can run. It is stated per actor, on
the disjunction of its steps, so a timer that *may* fire in `AwaitFor` need not,
and in `Promise` the wait for the write lock is not helped along: that readers
cannot hold a writer off for ever follows from how Go's `RWMutex` shuts new
readers out. Bodies, jobs and functions given to combinators return. Clients,
users, killers and editors have no fairness: nobody has to make, complete,
cancel, submit, shut down, give up, kill or edit. In `Workspace` time passes
(`Age`), and a process that lives touches its lock within the minute, for which
the code leaves twelve heartbeats. A builder with a timeout may give up, one
with `GALA_BUILD_LOCK_TIMEOUT=0` (`Patient`) may not. In `MCTools` the steps of
the server and of a request it analyses for, of the worker's loop, of the parent
watcher's tick and of each build are fair, and neither Bazel nor the editor is.

## The proofs

The proof modules state for all values of the constants what the runs show on
instances. Each rests on an inductive invariant, which TLC checked as an
invariant of a run before it was proved; then come its preservation by each
action, and the properties as consequences. The assumptions are those named in
the modules (`PromiseAssumption`, `FutureAssumption`, `FutureGroupAssumption`,
`WorkerPoolAssumption`, `WorkspaceAssumption`, `ConstantsAssumption` of
`ModCommands`, `ToolsAssumption`, `ResolverAssumption`, `CallsAssumption` of `VersionCalls`, `LoadAssumption` of
`PackageLoading`): kinds of things are
disjoint, bounds are numbers, and functions given as constants have their types.

- **PromiseProofs**: `OneWinner`, `NoZeroResult`, `ResultIsFinal` and the
  refinement `ImplementsCell`, for any sets of completers and readers. The
  invariant says who is inside the once (one completer, the only one to touch
  the mutex as a writer), that result and flag are written in the steps between
  `Lock` and `Unlock` only, when no reader is inside, and what a reader knows at
  each point of its way.
- **FutureProofs**: `CancellationSpreads`, `CancellationStays`,
  `AnswersItsSource`, `FailurePropagates`, `DeadlineIsNotACancellation`, for any
  number of futures and either context. The parts of the invariant: the shape of
  the derivation (`ShapeInv`: a stage comes after its parent and shares its
  token unless it is a timeout), which roles a kind of future has (`PcInv`),
  what a task has read and from whom (`LocalInv`), where a result comes from
  (`ResultInv`), and for the three properties that need more, what a task that
  is about to complete carries (`CancelInv`, `FailureInv`, `ScopeInv`). They are
  needed because a property speaks of results, and a result is one task's local
  value a step earlier.
- **FutureGroupProofs**: `AnswerIsRight` for arrays of any length over any
  futures and tokens, and `GroupAnswersOnce`, an action property: answers,
  results and cancellations are never taken back. The heart of the invariant is
  `SharedInv`: the counter is the number of positions without a value, each of
  which only its own callback fills, and what the holder of the mutex has read is
  what the shared variables still are; `PlaceInv` says where a callback can be and
  what it knows there. `CancelInv` says that until a race is decided only the user
  has cancelled: without it the claim that a race never answers the cancellation it
  caused is not inductive. Lemma `Grows` says what no step takes back and is used
  in every other one.
- **WorkerPoolProofs**: `RunsOnce` and `ShutdownIsFinal` for any number of
  workers, clients and jobs and any capacity. A job is carried by one
  goroutine, in one slot or in one worker (`CarriedInv`, `PlaceInv`), and the
  steps of `Shutdown` imply what has been closed and who has left
  (`ShutdownInv`).
- **WorkspaceProofs**: `OneBuild` and `NoLockIsLeft` for any number of builders,
  cleaners and kills. Without a kill the lock file exists exactly while somebody
  holds it and names the holder, a cleaner's until it unlinks it; so it never
  grows stale and nobody breaks it (`LockInv`). That `Discard` does not unlink
  is what makes the cleaner's last step harmless: with an unlink there the
  invariant, and the property, fail. `SkippingIsSound` follows from a second
  invariant on top of the first, `KeyInv`: as long as nothing was stopped
  halfway, `gen/` is at each step of a build what that step has made of it, and
  between builds the key describes a tree that is there. It uses the exclusion
  (lemma `Alone`): while one build writes, no other moves.
- **ModCommandsProofs**: `SumsAreRight` and `TidyIsRight` for any projects,
  modules, versions, files and requirements, any number of commands at once and
  any number of kills, with every fetch, copy and hash free to fail. A directory of
  the cache is whole, or somebody copies into it, or a failure or a kill left it
  (`SharedOK`); a hash that was not taken in a race is that
  of a directory nobody stores into any more (`HashesOK`), which is what makes
  `verify` right later; what will be in `gala.mod` has its entry in what will be
  `gala.sum` (`CoverOK`); the draft of tidy keeps the imports (`DraftOK`); what its
  graph has visited is whole and what it requires is known (`GraphOK`). That a
  second tidy changes nothing is the hardest: a settled project has a closed set
  of whole modules of which its versions are the greatest (`SettledOK`), the
  second tidy's graph stays inside that set, and so it selects the same versions.
  The proof has one lemma per action for the project that acts and one frame
  argument for all others: a project that `Rests` keeps its part of the invariant
  whenever the cache only `Grows`. Some conjuncts
  say little by themselves and are there because the rest is not inductive without
  them: that a settled project runs no command but tidy, that a hash nobody raced is
  of a directory nobody stores into, that the draft of a remove lacks what it drops.
- **ToolsProofs**: `ServerIsRight`, `WorkerIsRight`, `LibraryIsRight`, each for the
  specification of its tool. *Server*: of a document's jobs all but the last are
  cancelled (`CancelAt`); unless a notification met a job in the window between
  the comparison of versions and the publication, every job is either of the
  current text or will not publish, and what is not shown is on its way
  (`ShowAt`); the same for the caches, where what a request made of the present text
  counts as being of it (`CacheAt`), until that text has been analysed with a type in
  it, when no request analyses any more. The theorem keeps the windows as hypotheses
  in the property, which name exactly the states the code does not guard. *Worker*: requests have numbers of their own,
  those that wait have no answer (`NumbersOK`), the analyzer of the request at
  hand is set up for it (`RequestOK`), and what was transpiled belongs to an
  answered request or to that one (`TranspiledOK`); the Go source directories are not
  among what is claimed, and a request that panics is neither answered nor at hand,
  for the worker has ended. *Library*: without a kill whoever is between lock and
  release is alone there and its lock file exists (`LockIsExclusive`); with kills a
  build that is not alone is `crowded`, and a build that is not finds what it has
  installed. `MCTools` interleaves nothing: a behaviour of it
  is a behaviour of one subject, so these theorems are about the same actions.
- **AlgorithmProofs**, on the modules that `MCAlgorithms` runs and on `Matching`.
  *Versions and their selection*: first the order. Two lists of identifiers compare as their
  first differing identifiers do, or as their lengths (`Alike`, `LengthsDecide`),
  so comparison is antisymmetric and transitive on versions with pre-releases of
  any length (`VersionsAreTotallyOrdered`), and a caret keeps to its series
  (`CaretsKeepTheSeries`). Then the loops, of which `LoopExists` and `Steps` say that
  there is a function with the values they go through, and that what each round keeps
  holds at the end: after round `i` the versions up to `i` are where they belong
  (`Placed`) and the list is a permutation of the first (`Rearranges`), within it the
  one at `i` is the least of those looked at (`RoundIs`), so `Sort` sorts (`SortIsRight`);
  `Max` and `SelectBest` hold the greatest so far, so selections are extreme
  (`SelectionsAreExtreme`). Together they are `VersionsAreOrdered`, for any versions,
  constraints and lists (`CallsAreRight`). From the order `SelectionIsRight`: every requirement of the
  project and of a path that was looked at is met, reported, or still on the list
  (`DirectOK`, `ProcessedOK`, `QueueOK`). The one fact this needs is that a
  requirement that is met stays met, because a selection is only ever replaced by
  a greater one: this is where the order is used. `RoundsOK` bounds how often a
  path comes back by the number of its versions up to the selected one, a number
  that a greater selection raises; so resolution ends even when requirements go
  round, without any assumption that they do not. Note what the invariant does
  *not* say: an upper bound such as `<` may be broken by a later selection, and
  the property speaks of lower bounds only, as the code does.

  *Graph.* `GraphIsRight`, for any modules, versions and requirements, those in a
  circle included: the nodes hold the greatest version that is required, the edges
  are exactly the requirements, what is reported as a cycle is one and none is
  missed, and in the order of a graph without a cycle dependencies come first. What
  must be visited is the least closed set of requirements (`RequiredKeys`), of which
  the proof uses two facts only: it is closed, and contained in every closed set. So
  what the walk has visited lies in it, and once the stack is empty the visited are
  closed and contain it. In between, every requirement of a visited version is
  visited or on the stack of its frame. The two walks over the finished graph share
  an invariant: the stack is a path along edges (so an edge back into it closes a
  cycle), and what is left behind has all its successors left behind before it, which
  is both the absence of cycles there and the order.

  *Matches.* `TheFirstMatchWins` when the default comes last, `NothingIsUnreachable`
  when no guard is among the clauses that make a match exhaustive, and
  `WhatCoversIsAccepted`, for any number of clauses, patterns and variants. The
  property `FirstMatchWins` of the run says this of both lowerings and of what is
  inside patterns, which is recursive and stays with TLC.

  *Loading.* `CachedResultsAreCurrent`, for any packages and import lists, any number
  of processes and of edits. The parts of the invariant (`LoadIInv`): the calls under
  way form a chain, each but the innermost has called the package that is next in its
  list, and a package without metadata is under way or noted as failed (`CallersOK`,
  `ActiveOK`, `MissedOK`). A fingerprint whose directory is
  unchanged names the present source, a call holds what its hash names, and so does a
  cache file, each unless the package is blurred (`PrintsOK`, `HashesOK`, `ContentsOK`,
  `FilesOK`). Metadata of an analyzer that saw no edit is current (`CurrentOK`), and
  closed: with a package come its imports, but for those noted and those of a file that
  was passed over, in what is remembered, in what is merged, and in what a loop has
  passed (`KnownOK`, `ClosedOK`,
  `PassedOK`). Closedness needs one more fact, `NotUnderWay`: where imports go in no
  circle, the next import of the innermost call is not itself under way, for then every
  call under way would import another of them. This is why completeness is stated for
  sources whose imports are ordered, which is what Go accepts. An analyzer that lived
  through an edit keeps only the parts that speak of files and of the chain, so an edit
  blurs, overtakes and disturbs what it could break, and nothing else changes.

*Only model-checked, and why*

- Everything with "eventually" (`CallsReturn`, `FuturesComplete`, `DeadlineIsKept`,
  `GroupEnds`, `EveryoneEnds`, `EverythingEnds`): liveness under fairness needs
  ENABLED, which is outside what TLAPS proves here.
- The thirteen properties of `compiler`, but for the theorems on matches above: the
  modules are recursive (trees, types, patterns in patterns), the backends do not take
  modules that declare recursive operators, and each property is an induction over
  trees.

## What the models found

Three runs end in a violation, each of a sentence of the source:

- **An undone edit compiles what the failed build left** (`workspace_key`).
  `transpile` rewrites `gen/` while the key of the previous tree stays; when it
  fails halfway, the previous sources match the old key again.
- **Execute can send on a closed channel** (`pool_graceful`): the flag is read
  under the mutex, the channel is used after it.
- **Race cancels its winner** (`group_winner`): every *other* future's token is to be
  cancelled (`future.gala:608-610`), but the loop goes over all of them
  (`future.gala:623`), so what is derived from the winner's own future later fails with
  a cancellation. `GroupEnds` claims the cancellation of the losers only.

Others are stated as definitions beside the properties they sharpen, and TLC
refutes each; they are not in a run of their own:

| definition | what the source says | what happens |
|---|---|---|
| `WorkerPool!ShutdownWaitsForPending` | "waits for all pending tasks" (`types.go:685`) | a worker may choose the shutdown channel (`types.go:637`) and leaves accepted jobs |
| `Captures!RacesAreRejected` without its exception | a plain parameter is immutable (`scope.go:169-173`, `declarations.go:853`) | an assignment to one is accepted (`statements.go:227` refuses only vals), and so is a closure that reads it on another goroutine |
| `UndefinedNames!NoFalseAlarm` without its exception | a name the analyzer never saw is not reported (`undefined_symbol.go:348-353`) | a file that is passed over is not noted; what only it imports is missing and its names are reported |
| `Workspace!TreeIsSafe` | a clean "cannot delete a running build's tree" (`workspace.go:361`) | `os.RemoveAll` unlinks the lock file among the others, and a waiting build gets in before the rest is gone (`workspace.go:174`) |
| `PersistentWorker!PanicsAreContained` | a panic cannot kill the worker (`worker.go:187`) | a panic leaves a nil response, whose use ends the process |
| `StdlibCache!MarkerMeansComplete` | a matching marker means a complete extraction (`stdlibver.go:111`) | `RemoveAll` is not atomic: a kill or an error may leave the marker without other files |
| `PackageLoading!ImportsInvalidate` | the cache invalidates when an imported package's content changes (`analyzer.go:2738`) | the key covers a package's own directory |
| `TailCalls!LoopAlwaysAgrees` | the rewrite keeps the meaning | a closure in a condition captures the loop's parameter |
| `Matching!ScalaSemantics` | first match wins, as in Scala (`GALA.MD:863`) | a default in the middle moves to the end; exhaustiveness ignores guards |
| `Patterns!GuardedByIsDefined` | the Get is guarded | the statements of a nested pattern run on the zero value when the outer one failed |
| `YamlCodec!RoundTripIsUnambiguous` | "the round-trip is fully unambiguous" (`yaml/codec.go:43`) | an array element that starts with a container does not come back |

Observations that need no state space, met while translating:

- *Workspace.* After a kill, two waiters may both find the lock stale; the second
  one's `Remove` then unlinks the lock the first one has just created, and both
  build: `OneBuild` is therefore stated for states without a kill. The standard library
  cache uses the same routine: `InstallerHasItsOwn` speaks of builds that were alone
  behind the lock, which without a kill all are.
- *Standard types.* `Try.Map` (`std/try.gala:89`) promises that a panic becomes a
  failure, but nothing in it recovers.
- *Dependencies.* A kill in `Store`, or a file it cannot copy, leaves a partial
  directory that counts as cached; nothing removes it. `version.Resolver` is used by no command, and the sentence at
  `resolver.go:44` on bounds does not hold for upper ones. `DirectDependencies`
  and `FindAllCycles` of the graph miss some. A caret admits pre-releases of the
  release it excludes. Tidy drops the requirement of a module of which only a
  sub-package is imported (`mod_tidy.go:65-70`).
- *Language server.* A completion or a signature help replaces the cached tree and
  types by those of the text it patched, and hover is answered from them until the
  next analysis (`server.go:621-638`). Between comparing versions and publishing, a newer analysis
  may publish first (`server.go:273-280`); versions start anew after a close.
- *Analyzer.* A load that fails leaves an empty placeholder; files that fail are
  dropped and the partial package is cached, though most of what they declare comes
  back through their siblings, which collect it; aliases are recorded by the sibling
  pass only (`analyzer.go:3826`).
- *Lowering.* The `init` of an if-statement is lowered after its condition
  (`statements.go:822`); zero-argument method calls get no defaults
  (`calls.go:322`); some imports that only the lowering needs are missed or pruned
  (`FileImports` lists its exceptions beside the property); `infer.go:199` composes
  two substitutions the other way round.

## What is not modelled, and why

- The event bus (one critical section per method), `Retry` (a loop), lazy values
  (three lines around a `sync.Once`), collections, streams, standard types and
  wrappers of Go packages: sequential contents, which unit tests reach.
- The parser, interpolation and diagnostics: a front end to a generated grammar.
- `deptranspiler.go` and `gomod.go`: a directory written in sequence, of the shape
  of what `Workspace` has for the project's own sources.
- In `Future`: the tuple versions of `Zip`, compositions of FlatMap and Map.
- In `Workspace`: the deps tree and its key, the multi-package build, edits while a
  build reads the sources, a lock file that cannot be written or unlinked.
- In `LspServer`: what hover, completion and definition answer from the caches. At most
  one request analyses at a time.
- In `ModCommands`: a `gala.mod` or `gala.sum` written in part.
- In the compiler's modules: documentation, positions, wording, typed patterns and
  hand-written extractors, variadic calls, imported Go packages' types, JSON.
- A job that calls `Shutdown` of its own pool waits for itself; `WorkerPool` can
  express it (`JobsShutDown`), the runs leave it out.
- Command line, IDE plugins, website, examples: no protocol of their own.

## The plan

Done, in this order: the concurrency runtime and the workspace; the dependency
manager, the caches and the long-lived tools; the compiler's passes; the proofs of
every safety property of `Promise`, `Future`, `FutureGroup`, `WorkerPool`,
`Workspace`, `ModCommands`, `MCTools`, `VersionCalls`, `Resolver`, `ModuleGraph`
and `PackageLoading` that a run checks. What would come next:

1. An abstract lock that the lock files of `Workspace` and `StdlibCache` implement as
   long as nobody is killed; `WorkerPool` as the context of `Future`.
2. Action properties from the invariants there are: the cache of modules only
   grows, a settled project stays settled until it is edited.
3. A part of `FirstMatchWins` and of `ImportsAreFound` as properties of modules of
   their own, without recursion, so that the theorems are about what a run checks.
4. Small modules for the event bus and the deps tree, once their properties earn it.
