----------------------------- MODULE StdlibCache -----------------------------
(***************************************************************************)
(* The extraction of the embedded standard library into the directory that *)
(* every build of the machine reads (internal/build/stdlibver.go).  The    *)
(* processes may run different binaries that have the same version and not *)
(* the same library, so that each replaces what the other has installed.   *)
(***************************************************************************)
EXTENDS Naturals

CONSTANTS Builds,        \* processes, one after the other under the same name
          Fingerprint,   \* of the library embedded in the binary of each
          Files,         \* of the library
          Marker,        \* the file that holds the fingerprint
          None,
          MaxKills       \* bound: kills

VARIABLES
    tree,     \* whose library the version directory holds
    present,  \* its files that are there; {} is an empty directory or none
    lock,     \* is the lock file of the cache root there
    at,       \* where each build is
    names,    \* the listing that its RemoveAll works through
    kills,
    crowded,  \* history: builds that have not been alone behind the lock
    torn      \* history: a removal failed or was killed half-way

cacheVars == <<tree, present, lock, at, names, kills, crowded, torn>>

CacheInit ==
    /\ tree = None /\ present = {} /\ lock = FALSE
    /\ at = [b \in Builds |-> "start"] /\ names = [b \in Builds |-> {}]
    /\ kills = 0 /\ crowded = {} /\ torn = FALSE

Whole == Files \cup {Marker}
markerMatches(b) == Marker \in present /\ tree = Fingerprint[b]
Steps(b, from, to) == at[b] = from /\ at' = [at EXCEPT ![b] = to]
SameTree == UNCHANGED <<tree, present, names>>
SameHistory == UNCHANGED <<kills, crowded, torn>>

\* The builds between their lockDir and their Release.
Behind == {"locked", "stage", "remove", "rename", "installed", "leave", "abort"}
Inside == {b \in Builds : at[b] \in Behind}

\* The look before the lock: a matching marker is enough.
FastPath(b) ==
    /\ Steps(b, "start", IF markerMatches(b) THEN "ready" ELSE "lock")
    /\ SameTree /\ SameHistory /\ UNCHANGED lock

-----------------------------------------------------------------------------
(* lockDir (lock.go): the lock is a file that O_EXCL creates, whose time its  *)
(* holder renews and which everybody names by its path.                      *)

Enters(b) ==
    /\ Steps(b, "lock", "locked") /\ lock' = TRUE
    /\ crowded' = IF Inside = {} THEN crowded ELSE crowded \cup Inside \cup {b}
    /\ SameTree /\ UNCHANGED <<kills, torn>>

\* Mutant: an existing lock file is taken for one's own.
LocksAnyway(b) == Enters(b)

Locks(b) == ~lock /\ Enters(b)

\* Nobody has renewed the file for a minute, and this build is about to remove
\* it: the look and the removal are two calls.
SeesStale(b) ==
    /\ Steps(b, "lock", "breaking") /\ lock /\ Inside = {}
    /\ SameTree /\ SameHistory /\ UNCHANGED lock

\* What it removes is the file that is there by now.
Breaks(b) ==
    /\ Steps(b, "breaking", "lock") /\ lock' = FALSE
    /\ SameTree /\ SameHistory

\* Mutant: there is no deadline.
LockNeverFails(b) == Steps(b, "lock", "lock") /\ UNCHANGED cacheVars

\* After two minutes it gives up, and at once when the file cannot be created.
LockFails(b) ==
    /\ Steps(b, "lock", "failed")
    /\ SameTree /\ SameHistory /\ UNCHANGED lock

\* The look under the lock.
LooksAgain(b) ==
    /\ Steps(b, "locked", IF markerMatches(b) THEN "leave" ELSE "stage")
    /\ SameTree /\ SameHistory /\ UNCHANGED lock

-----------------------------------------------------------------------------
(* extractStdlibVersion.  Every step may fail; the call then ends with its     *)
(* error, and the deferred Release still runs.                               *)

\* What an earlier run has left is cleared, the library and its marker are
\* written to the private directory, and the old directory is listed.
Stages(b) ==
    /\ Steps(b, "stage", "remove")
    /\ names' = [names EXCEPT ![b] = present]
    /\ SameHistory /\ UNCHANGED <<tree, present, lock>>

StagingFails(b) ==
    /\ Steps(b, "stage", "abort")
    /\ SameTree /\ SameHistory /\ UNCHANGED lock

\* RemoveAll: one file after the other, in any order, and then the directory;
\* a file that somebody else has removed is no error.
RemovesOne(b) ==
    /\ at[b] = "remove"
    /\ \E f \in names[b] :
          /\ names' = [names EXCEPT ![b] = @ \ {f}]
          /\ present' = present \ {f}
    /\ SameHistory /\ UNCHANGED <<tree, lock, at>>

\* It fails on any file, or on the directory when that is not empty.
RemoveFails(b) ==
    /\ Steps(b, "remove", "abort") /\ torn' = TRUE
    /\ names' = [names EXCEPT ![b] = {}]
    /\ UNCHANGED <<tree, present, lock, kills, crowded>>

RemoveEnds(b) ==
    /\ Steps(b, "remove", "rename") /\ names[b] = {} /\ present = {}
    /\ SameTree /\ SameHistory /\ UNCHANGED lock

\* Mutant: the library is written in place.
InstallsInPlace(b) ==
    /\ at[b] = "rename"
    /\ \E f \in Whole \ present : present' = present \cup {f}
    /\ tree' = Fingerprint[b] /\ torn' = FALSE
    /\ at' = IF present' = Whole THEN [at EXCEPT ![b] = "installed"] ELSE at
    /\ UNCHANGED <<names, lock, kills, crowded>>

\* The staged tree comes with one rename, which needs the place to be free: over
\* a directory with files in it the call fails, as it may for other reasons.
Installs(b) ==
    /\ Steps(b, "rename", "installed") /\ present = {}
    /\ tree' = Fingerprint[b] /\ present' = Whole /\ torn' = FALSE
    /\ UNCHANGED <<names, lock, kills, crowded>>

RenameFails(b) ==
    /\ Steps(b, "rename", "abort")
    /\ SameTree /\ SameHistory /\ UNCHANGED lock

\* Release removes the file by its path, whoever has made it.
Outcome == [installed |-> "ready", leave |-> "ready", abort |-> "failed"]
Releases(b) ==
    /\ at[b] \in DOMAIN Outcome /\ at' = [at EXCEPT ![b] = Outcome[at[b]]]
    /\ lock' = FALSE /\ crowded' = crowded \ {b}
    /\ SameTree /\ UNCHANGED <<kills, torn>>

-----------------------------------------------------------------------------
\* The next command of the same binary.
Again(b) ==
    /\ at[b] \in {"ready", "failed"} /\ at' = [at EXCEPT ![b] = "start"]
    /\ SameTree /\ SameHistory /\ UNCHANGED lock

\* A kill: the lock file stays, and so does what is left of the directory.
Kill(b) ==
    /\ kills < MaxKills /\ kills' = kills + 1
    /\ at[b] # "start" /\ at' = [at EXCEPT ![b] = "start"]
    /\ crowded' = crowded \ {b}
    /\ torn' = (torn \/ at[b] = "remove")
    /\ names' = [names EXCEPT ![b] = {}]
    /\ UNCHANGED <<tree, present, lock>>

Build(b) == FastPath(b) \/ Locks(b) \/ SeesStale(b) \/ Breaks(b) \/ LockFails(b) \/ LooksAgain(b)
              \/ Stages(b) \/ StagingFails(b) \/ RemovesOne(b) \/ RemoveFails(b) \/ RemoveEnds(b)
              \/ Installs(b) \/ RenameFails(b) \/ Releases(b)

CacheNext == \E b \in Builds : Build(b) \/ Again(b) \/ Kill(b)
\* The operating system runs every process; nobody has to build again.
CacheSpec == CacheInit /\ [][CacheNext]_cacheVars /\ \A b \in Builds : WF_cacheVars(Build(b))

-----------------------------------------------------------------------------
CacheTypeOK ==
    /\ tree \in {None} \cup {Fingerprint[b] : b \in Builds} /\ present \subseteq Whole
    /\ names \in [Builds -> SUBSET Whole] /\ lock \in BOOLEAN /\ kills \in 0 .. MaxKills /\ crowded \subseteq Inside
    /\ at \in [Builds -> Behind \cup {"start", "lock", "breaking", "ready", "failed"}]

\* What is there of the library without being all of it is the work of a removal:
\* of one that is going on, or of one that failed or was killed, and never of an
\* extraction (stdlibver.go:147-155).
WholeOrAbsent ==
    torn \/ (\E b \in Builds : at[b] = "remove") \/ present \in {{}, Whole}

\* A build that has just replaced the library has its own, and nobody takes it
\* away before the lock is free (stdlibver.go:115-131) -- as long as it has the
\* lock to itself, which builds that break the lock of a killed one need not.
InstallerHasItsOwn ==
    \A b \in Builds :
        at[b] = "installed" /\ b \notin crowded => tree = Fingerprint[b] /\ present = Whole

\* Only the lock of a killed build is ever broken: without a kill nobody shares
\* the time behind the lock, and the file is there as long as somebody is.
LockIsExclusive ==
    kills = 0 => /\ \A b, c \in Inside : b = c
                 /\ lock <=> Inside # {}

\* Whatever the order, the failures and the kills, every build that has begun gets
\* a library or reports an error: nobody waits for ever for a lock
\* (stdlibver.go:144).
EveryBuildGoesOn == \A b \in Builds : []<>(at[b] \in {"start", "ready", "failed"})

\* What the comment on the fast path says: a matching marker means a complete
\* extraction (stdlibver.go:111).
MarkerMeansComplete == Marker \in present => present = Whole
=============================================================================
