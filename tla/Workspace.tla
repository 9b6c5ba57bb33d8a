----------------------------- MODULE Workspace -----------------------------
(***************************************************************************)
(* The build workspace: its lock (internal/build/lock.go), the removal of  *)
(* a workspace (internal/build/workspace.go) and the build that works in   *)
(* it (internal/build/builder.go).                                         *)
(*                                                                         *)
(* Builders are runs of `gala build`, `gala run` or `gala test`, cleaners  *)
(* runs of `gala clean`, all on one workspace and each a process that may  *)
(* be killed.  The lock is a file: it is created exclusively, touched by   *)
(* its holder every five seconds, and broken by a waiter that finds it a   *)
(* minute old.  A step here is one call of the operating system where the  *)
(* order of those calls matters.                                           *)
(*                                                                         *)
(* The generated tree is the set of its files, each written from one       *)
(* version of the project's sources.                                       *)
(***************************************************************************)
EXTENDS Naturals, FiniteSets

CONSTANTS Builders, Cleaners,  \* processes
          Patient,     \* those with GALA_BUILD_LOCK_TIMEOUT=0
          Versions,    \* versions of the project's sources
          Broken,      \* those whose second file does not transpile
          OpenFiles,   \* other programs may hold files of gen/ open
          MaxCrashes,  \* bound: processes that are killed
          MaxEdits,    \* bound: edits of the sources
          None         \* no lock, no tree, no key

Processes == Builders \cup Cleaners
Files == {1, 2}
Tree == SUBSET (Versions \X Files)

ASSUME WorkspaceAssumption ==
    /\ Builders \cap Cleaners = {}
    /\ Patient \subseteq Builders
    /\ Broken \subseteq Versions
    /\ OpenFiles \in BOOLEAN
    /\ MaxCrashes \in Nat /\ MaxEdits \in Nat
    /\ None \notin Processes \cup Versions \cup [by : Processes, stale : BOOLEAN]
    /\ \A tree \in Tree : None # tree

Whole(v) == {v} \X Files
Names == {"lock", "gen", "key", "version"}

VARIABLES
    dir,        \* the workspace directory exists
    lock,       \* .gala-lock: the process that created it, and its age
    gen,        \* gen/: None when it does not exist
    key,        \* .gala-source-hash: the version whose tree gen/ should be
    version,    \* .gala-version exists
    source,     \* the project's sources
    pc,         \* where each process is
    listing,    \* the entries a cleaner has yet to remove
    crashes, edits,
    disturbed   \* history: a build or a clean was stopped halfway

files == <<dir, gen, key, version>>
counters == <<crashes, edits>>
vars == <<files, lock, source, pc, listing, counters, disturbed>>

Acquiring == {"lock", "try", "stat", "break", "wait"}
Building == {"held", "wipe", "write1", "write2", "save", "compile", "release"}
Removing == {"held", "remove"}
Ended == {"done", "busy", "failed", "crashed"}

\* lockHandle: the processes that hold the lock and touch its file.
Holds(p) == pc[p] \in Building \cup Removing

Init ==
    /\ dir = FALSE /\ lock = None /\ gen = None /\ key = None /\ version = FALSE
    /\ source \in Versions
    /\ pc = [p \in Processes |-> "start"]
    /\ listing = [c \in Cleaners |-> {}]
    /\ crashes = 0 /\ edits = 0 /\ disturbed = FALSE

Go(p, from, to) == pc[p] = from /\ pc' = [pc EXCEPT ![p] = to]

-----------------------------------------------------------------------------
(***************************************************************************)
(* lockDir, tryLock, breakIfStale                                          *)
(***************************************************************************)

\* Build and Test call Ensure before they take the lock; a cleaner calls
\* lockDir at once.
Ensure(b) ==
    /\ Go(b, "start", "lock")
    /\ dir' = TRUE
    /\ gen' = IF gen = None THEN {} ELSE gen
    /\ UNCHANGED <<lock, key, version, source, listing, counters, disturbed>>

CallClean(c) ==
    /\ dir  \* cleaners work on workspaces they find on disk
    /\ Go(c, "start", "lock")
    /\ UNCHANGED <<files, lock, source, listing, counters, disturbed>>

MakeDir(p) ==
    /\ Go(p, "lock", "try")
    /\ dir' = TRUE
    /\ UNCHANGED <<lock, gen, key, version, source, listing, counters, disturbed>>

CreateLock(p) ==
    /\ dir /\ lock = None
    /\ Go(p, "try", "held")
    /\ lock' = [by |-> p, stale |-> FALSE]
    /\ UNCHANGED <<files, source, listing, counters, disturbed>>

LockExists(p) ==
    /\ lock # None
    /\ Go(p, "try", "stat")
    /\ UNCHANGED <<files, lock, source, listing, counters, disturbed>>

\* A clean has removed the directory: the create fails, but not with ErrExist.
LockFails(p) ==
    /\ ~dir
    /\ Go(p, "try", "failed")
    /\ UNCHANGED <<files, lock, source, listing, counters, disturbed>>

Stat(p) ==
    /\ Go(p, "stat", CASE lock = None -> "try"
                       [] lock # None /\ lock.stale -> "break"
                       [] OTHER -> "wait")
    /\ UNCHANGED <<files, lock, source, listing, counters, disturbed>>

\* Mutant: a stale lock is reported broken and left where it is.
BreakNothing(p) ==
    /\ Go(p, "break", "try")
    /\ UNCHANGED <<files, lock, source, listing, counters, disturbed>>

\* Whatever file has the name by now.
Break(p) ==
    /\ Go(p, "break", IF lock = None THEN "wait" ELSE "try")
    /\ lock' = None
    /\ UNCHANGED <<files, source, listing, counters, disturbed>>

Retry(p) ==
    /\ Go(p, "wait", "try")
    /\ UNCHANGED <<files, lock, source, listing, counters, disturbed>>

GiveUp(p) ==
    /\ p \notin Patient
    /\ Go(p, "wait", "busy")
    /\ UNCHANGED <<files, lock, source, listing, counters, disturbed>>

Lock(p) ==
    \/ MakeDir(p) \/ CreateLock(p) \/ LockExists(p) \/ LockFails(p)
    \/ Stat(p) \/ Break(p) \/ Retry(p)

-----------------------------------------------------------------------------
(***************************************************************************)
(* Build                                                                   *)
(***************************************************************************)

\* The workspace is new, or was emptied: invalidateWorkspace.
Invalidate(b) ==
    /\ pc[b] = "held" /\ ~version
    /\ dir' = TRUE /\ gen' = {} /\ key' = None /\ version' = TRUE
    /\ UNCHANGED <<lock, source, pc, listing, counters, disturbed>>

\* Mutant: any key will do.
UnchangedTree == key # None /\ gen \notin {None, {}}

\* transpile: the key matches and gen/ is not empty.
Unchanged == key = source /\ gen \notin {None, {}}

CheckKey(b) ==
    /\ version
    /\ Go(b, "held", IF Unchanged THEN "compile" ELSE "wipe")
    /\ UNCHANGED <<files, lock, source, listing, counters, disturbed>>

CleanGen(b) ==
    /\ Go(b, "wipe", "write1")
    /\ dir' = TRUE /\ gen' = {}
    /\ UNCHANGED <<lock, key, version, source, listing, counters, disturbed>>

\* A file another process holds open outlasts removeWithRetry.
CleanGenFails(b) ==
    /\ OpenFiles /\ gen # None
    /\ Go(b, "wipe", "release")
    /\ gen' \in SUBSET gen
    /\ disturbed' = TRUE
    /\ UNCHANGED <<dir, lock, key, version, source, listing, counters>>

WriteFile(b, from, file, to) ==
    /\ Go(b, from, to)
    /\ dir' = TRUE
    /\ gen' = (IF gen = None THEN {} ELSE gen) \cup {<<source, file>>}
    /\ UNCHANGED <<lock, key, version, source, listing, counters, disturbed>>

TranspileFails(b) ==
    /\ source \in Broken
    /\ Go(b, "write2", "release")
    /\ disturbed' = TRUE
    /\ UNCHANGED <<files, lock, source, listing, counters>>

Transpile(b) ==
    \/ WriteFile(b, "write1", 1, "write2")
    \/ source \notin Broken /\ WriteFile(b, "write2", 2, "save")
    \/ TranspileFails(b)

\* The error of this write is ignored.
SaveKey(b) ==
    /\ Go(b, "save", "compile")
    /\ key' = IF dir THEN source ELSE key
    /\ UNCHANGED <<dir, lock, gen, version, source, listing, counters, disturbed>>

GoBuild(b) ==
    /\ Go(b, "compile", "release")
    /\ UNCHANGED <<files, lock, source, listing, counters, disturbed>>

\* finish: by path, whoever created the file.
Release(p) ==
    /\ Go(p, "release", "done")
    /\ lock' = None
    /\ UNCHANGED <<files, source, listing, counters, disturbed>>

Build(b) ==
    \/ Ensure(b) \/ Lock(b)
    \/ Invalidate(b) \/ CheckKey(b) \/ CleanGen(b) \/ CleanGenFails(b)
    \/ Transpile(b) \/ SaveKey(b) \/ GoBuild(b) \/ Release(b)

-----------------------------------------------------------------------------
(***************************************************************************)
(* removeWorkspaceDir: os.RemoveAll, then Discard.                         *)
(***************************************************************************)

Present == {"lock"} \cup (IF gen = None THEN {} ELSE {"gen"})
    \cup (IF key = None THEN {} ELSE {"key"}) \cup (IF version THEN {"version"} ELSE {})

List(c) ==
    /\ Go(c, "held", "remove")
    /\ listing' = [listing EXCEPT ![c] = Present]
    /\ UNCHANGED <<files, lock, source, counters, disturbed>>

\* A build runs although the cleaner still removes.
UnderABuild == \E b \in Builders : Holds(b)

Unlink(c) == \E name \in listing[c] :
    /\ pc[c] = "remove"
    /\ listing' = [listing EXCEPT ![c] = @ \ {name}]
    /\ lock' = IF name = "lock" THEN None ELSE lock
    /\ gen' = IF name = "gen" THEN None ELSE gen
    /\ key' = IF name = "key" THEN None ELSE key
    /\ version' = IF name = "version" THEN FALSE ELSE version
    /\ disturbed' = (disturbed \/ UnderABuild)
    /\ UNCHANGED <<dir, source, pc, counters>>

\* A file of gen/ is held open; RemoveAll goes on with the other entries.
UnlinkFails(c) ==
    /\ pc[c] = "remove" /\ OpenFiles /\ "gen" \in listing[c]
    /\ listing' = [listing EXCEPT ![c] = @ \ {"gen"}]
    /\ gen' \in (IF gen = None THEN {gen} ELSE SUBSET gen)
    /\ disturbed' = TRUE
    /\ UNCHANGED <<dir, lock, key, version, source, pc, counters>>

Empty == lock = None /\ gen = None /\ key = None /\ ~version

\* Mutant: the cleaner releases the lock instead of discarding it.
RemoveDirReleasing(c) ==
    /\ pc[c] = "remove" /\ listing[c] = {}
    /\ pc' = [pc EXCEPT ![c] = IF Empty \/ ~dir THEN "done" ELSE "failed"]
    /\ dir' = (dir /\ ~Empty)
    /\ lock' = None
    /\ UNCHANGED <<gen, key, version, source, listing, counters, disturbed>>

RemoveDir(c) ==
    /\ pc[c] = "remove" /\ listing[c] = {}
    /\ pc' = [pc EXCEPT ![c] = IF Empty \/ ~dir THEN "done" ELSE "failed"]
    /\ dir' = (dir /\ ~Empty)
    /\ UNCHANGED <<lock, gen, key, version, source, listing, counters, disturbed>>

Clean(c) == CallClean(c) \/ Lock(c) \/ List(c) \/ Unlink(c) \/ UnlinkFails(c) \/ RemoveDir(c)

-----------------------------------------------------------------------------
\* Ctrl-C, or a kill.
Crash(p) ==
    /\ crashes < MaxCrashes
    /\ pc[p] \notin Ended \cup {"start"}
    /\ pc' = [pc EXCEPT ![p] = "crashed"]
    /\ crashes' = crashes + 1 /\ disturbed' = TRUE
    /\ UNCHANGED <<files, lock, source, listing, edits>>

\* A minute passes: nobody touches the file, for a process that holds a lock
\* touches it every five seconds.
Age ==
    /\ lock # None /\ ~lock.stale
    /\ \A p \in Processes : ~Holds(p)
    /\ lock' = [lock EXCEPT !.stale = TRUE]
    /\ UNCHANGED <<files, source, pc, listing, counters, disturbed>>

\* The project is edited between two builds.
Edit ==
    /\ edits < MaxEdits
    /\ \A b \in Builders : ~Holds(b)
    /\ source' \in Versions \ {source}
    /\ edits' = edits + 1
    /\ UNCHANGED <<files, lock, pc, listing, crashes, disturbed>>

AllEnded == \A p \in Processes : pc[p] \in Ended \cup {"start"}

Done ==
    /\ AllEnded
    /\ UNCHANGED vars

Next ==
    \/ \E b \in Builders : Build(b)
    \/ \E c \in Cleaners : Clean(c)
    \/ \E p \in Processes : GiveUp(p) \/ Crash(p)
    \/ Age \/ Edit \/ Done

Spec == Init /\ [][Next]_vars

\* Processes that are not killed go on, and time passes.  Nobody has to give
\* up, to kill a process or to edit the sources.
Fairness ==
    /\ \A b \in Builders : WF_vars(Build(b))
    /\ \A c \in Cleaners : WF_vars(Clean(c))
    /\ WF_vars(Age)

FairSpec == Spec /\ Fairness

-----------------------------------------------------------------------------
TypeOK ==
    /\ dir \in BOOLEAN /\ version \in BOOLEAN /\ disturbed \in BOOLEAN
    /\ lock \in {None} \cup [by : Processes, stale : BOOLEAN]
    /\ gen \in {None} \cup Tree
    /\ key \in {None} \cup Versions
    /\ source \in Versions
    /\ pc \in [Processes -> {"start", "remove"} \cup Acquiring \cup Building \cup Ended]
    /\ listing \in [Cleaners -> SUBSET Names]
    /\ crashes \in 0..MaxCrashes /\ edits \in 0..MaxEdits

\* Unless a process was killed, two builds never work in the workspace at the
\* same time, whatever cleaners do meanwhile, and the lock file that a build
\* created is there until it releases it (lock.go: Lock, Discard).
OneBuild ==
    crashes = 0 =>
        \A b \in Builders : Holds(b) => lock # None /\ lock.by = b

\* A lock file outlives the process that created it only if that was killed: a
\* clean that fails does not leave one behind (lock.go: finish;
\* workspace.go: removeWorkspaceDir).
NoLockIsLeft ==
    lock # None => Holds(lock.by) \/ crashes > 0

\* Unless a build or a clean was stopped halfway, what `go build` compiles is
\* the whole of the project's current sources, and nothing else, whether the
\* build transpiled them or found their key in the workspace (builder.go:
\* transpile, invalidateWorkspace).
SkippingIsSound ==
    ~disturbed => \A b \in Builders : pc[b] = "compile" => gen = Whole(source)

\* A process that was killed does not wedge the workspace: every other one
\* ends, and a build that waits without a timeout is not turned away
\* (lock.go: breakIfStale).
EveryoneEnds ==
    \A p \in Processes : <>[](pc[p] \in {"start"} \cup
        (Ended \ (IF p \in Patient THEN {"busy"} ELSE {})))

\* What workspace.go says of `gala clean --all`: it "cannot delete a running
\* build's tree".
TreeIsSafe == [][\A b \in Builders :
    pc[b] \in {"write2", "save", "compile"} /\ pc'[b] = pc[b]
        => gen' # None /\ gen \subseteq gen']_vars

\* What builder.go says a build must not do: to match a key over a tree that
\* the key does not describe and to compile that.
CompilesItsSources ==
    \A b \in Builders : pc[b] = "compile" => gen = Whole(source)
=============================================================================
