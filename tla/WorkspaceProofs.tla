-------------------------- MODULE WorkspaceProofs --------------------------
(***************************************************************************)
(* Proofs about module Workspace, for any number of builders, cleaners,    *)
(* versions, kills and edits.                                              *)
(***************************************************************************)
EXTENDS Workspace, TLAPS

\* Unless a process was killed, the lock file is there exactly as long as a
\* process holds it; a cleaner gives it up when it unlinks it.  No lock grows
\* stale then, and no waiter ever breaks one.
LockInv == crashes = 0 =>
    /\ \A p \in Processes : pc[p] # "break"
    /\ \A b \in Builders : Holds(b) => lock # None /\ lock.by = b
    /\ \A c \in Cleaners :
          /\ pc[c] = "held" => lock # None /\ lock.by = c
          /\ "lock" \in listing[c] => pc[c] = "remove" /\ lock # None /\ lock.by = c
    /\ lock # None =>
          /\ ~lock.stale /\ Holds(lock.by)
          /\ pc[lock.by] = "remove" => "lock" \in listing[lock.by]

\* Builders and cleaners have places of their own.
PlaceInv ==
    /\ \A b \in Builders : pc[b] # "remove"
    /\ \A c \in Cleaners : pc[c] \notin Building \ Removing

IInv == TypeOK /\ PlaceInv /\ LockInv

-----------------------------------------------------------------------------
\* The first process finds no workspace (Init).
LEMMA InitIInv == Init => IInv
<1> SUFFICES ASSUME Init PROVE IInv
  OBVIOUS
<1>1. TypeOK
  <2>1. crashes \in 0..MaxCrashes /\ edits \in 0..MaxEdits
    BY WorkspaceAssumption DEF Init
  <2>2. pc \in [Processes -> {"start", "remove"} \cup Acquiring \cup Building \cup Ended]
    BY DEF Init
  <2>3. listing \in [Cleaners -> SUBSET Names]
    BY DEF Init
  <2> QED
    BY <2>1, <2>2, <2>3 DEF Init, TypeOK
<1>2. PlaceInv /\ LockInv
  BY WorkspaceAssumption DEF
       Init, PlaceInv, LockInv, Processes, Holds, Building, Removing
<1> QED
  BY <1>1, <1>2 DEF IInv

\* Every step of a build preserves the inductive invariant.
LEMMA BuildIInv ==
    ASSUME IInv, NEW b \in Builders,
           Ensure(b) \/ Invalidate(b) \/ CheckKey(b) \/ CleanGen(b) \/
           CleanGenFails(b) \/ Transpile(b) \/ SaveKey(b) \/ GoBuild(b) \/
           Release(b)
    PROVE  IInv'
<1> USE WorkspaceAssumption DEF IInv, files, counters, Processes, Go
<1>1. CASE Ensure(b)
  <2>1. TypeOK'
    BY <1>1 DEF
         Ensure, TypeOK, Acquiring, Building, Ended, Names, Tree, Files,
         Holds
  <2>2. PlaceInv'
    BY <1>1 DEF Ensure, TypeOK, PlaceInv, Building, Removing, Ended
  <2>3. LockInv'
    BY <1>1 DEF
         Ensure, TypeOK, PlaceInv, LockInv, Holds, Building, Removing,
         Ended
  <2> QED
    BY <2>1, <2>2, <2>3
<1>2. CASE Invalidate(b)
  <2>1. TypeOK'
    BY <1>2 DEF Invalidate, TypeOK, Ended, Tree, Holds
  <2>2. PlaceInv'
    BY <1>2 DEF Invalidate, TypeOK, PlaceInv, Removing, Ended
  <2>3. LockInv'
    BY <1>2 DEF Invalidate, TypeOK, PlaceInv, LockInv, Holds, Removing
  <2> QED
    BY <2>1, <2>2, <2>3
<1>3. CASE CheckKey(b)
  <2>1. TypeOK'
    BY <1>3 DEF CheckKey, Unchanged, TypeOK, Building, Holds
  <2>2. PlaceInv'
    BY <1>3 DEF CheckKey, Unchanged, TypeOK, PlaceInv, Removing, Ended
  <2>3. LockInv'
    BY <1>3 DEF CheckKey, Unchanged, TypeOK, LockInv, Holds, Building
  <2> QED
    BY <2>1, <2>2, <2>3
<1>4. CASE CleanGen(b)
  <2>1. TypeOK'
    BY <1>4 DEF CleanGen, TypeOK, Building, Tree, Holds
  <2>2. PlaceInv'
    BY <1>4 DEF CleanGen, TypeOK, PlaceInv, Building, Removing, Ended
  <2>3. LockInv'
    BY <1>4 DEF CleanGen, TypeOK, PlaceInv, LockInv, Holds, Building
  <2> QED
    BY <2>1, <2>2, <2>3
<1>5. CASE CleanGenFails(b)
  <2>1. TypeOK'
    BY <1>5 DEF CleanGenFails, TypeOK, Building, Tree, Holds
  <2>2. PlaceInv'
    BY <1>5 DEF CleanGenFails, TypeOK, PlaceInv, Removing, Ended
  <2>3. LockInv'
    BY <1>5 DEF CleanGenFails, TypeOK, LockInv, Holds, Building
  <2> QED
    BY <2>1, <2>2, <2>3
<1>6. CASE Transpile(b)
  <2>1. TypeOK'
    <3>1. CASE TranspileFails(b)
      BY <3>1 DEF TranspileFails, TypeOK, Building
    <3>2. CASE \E file \in Files, from, to \in Building : WriteFile(b, from, file, to)
      <4>1. PICK file \in Files, from \in Building, to \in Building :
              WriteFile(b, from, file, to)
        BY <3>2
      <4>2. gen' \in Tree
        BY <4>1 DEF WriteFile, TypeOK, Tree
      <4> QED
        BY <4>1, <4>2 DEF WriteFile, TypeOK
    <3> QED
      BY <1>6, <3>1, <3>2 DEF Transpile, Building, Files
  <2>2. PlaceInv'
    BY <1>6 DEF Transpile, TranspileFails, WriteFile, TypeOK, PlaceInv
  <2>3. LockInv'
    BY <1>6 DEF
         Transpile, TranspileFails, WriteFile, TypeOK, LockInv, Holds,
         Building
  <2> QED
    BY <2>1, <2>2, <2>3
<1>7. CASE SaveKey(b)
  <2>1. TypeOK'
    BY <1>7 DEF SaveKey, TypeOK, Building, Holds
  <2>2. PlaceInv'
    BY <1>7 DEF SaveKey, TypeOK, PlaceInv, Building, Removing, Ended
  <2>3. LockInv'
    BY <1>7 DEF SaveKey, TypeOK, PlaceInv, LockInv, Holds, Building
  <2> QED
    BY <2>1, <2>2, <2>3
<1>8. CASE GoBuild(b)
  <2>1. TypeOK'
    BY <1>8 DEF GoBuild, TypeOK, Building, Holds
  <2>2. PlaceInv'
    BY <1>8 DEF GoBuild, TypeOK, PlaceInv, Building, Removing, Ended
  <2>3. LockInv'
    BY <1>8 DEF GoBuild, TypeOK, PlaceInv, LockInv, Holds, Building
  <2> QED
    BY <2>1, <2>2, <2>3
<1>9. CASE Release(b)
  <2>1. TypeOK'
    BY <1>9 DEF Release, TypeOK, Ended, Holds
  <2>2. PlaceInv'
    BY <1>9 DEF Release, TypeOK, PlaceInv, Building, Removing, Ended
  <2>3. LockInv'
    BY <1>9 DEF Release, TypeOK, LockInv, Holds, Building, Removing
  <2> QED
    BY <2>1, <2>2, <2>3
<1> QED
  BY <1>1, <1>2, <1>3, <1>4, <1>5, <1>6, <1>7, <1>8, <1>9

\* Every step of taking the lock, of giving up, and a kill, preserves the
\* inductive invariant.
LEMMA LockIInv ==
    ASSUME IInv, NEW p \in Processes,
           MakeDir(p) \/ CreateLock(p) \/ LockExists(p) \/ LockFails(p) \/
           Stat(p) \/ Break(p) \/ Retry(p) \/ GiveUp(p) \/ Crash(p)
    PROVE  IInv'
<1> USE WorkspaceAssumption DEF IInv, files, counters, Processes, Go
<1>1. CASE MakeDir(p)
  <2>1. TypeOK'
    BY <1>1 DEF MakeDir, TypeOK, Acquiring, Holds
  <2>2. PlaceInv'
    BY <1>1 DEF MakeDir, TypeOK, PlaceInv, Building, Removing, Ended
  <2>3. LockInv'
    BY <1>1 DEF MakeDir, TypeOK, LockInv, Holds, Building, Removing
  <2> QED
    BY <2>1, <2>2, <2>3
<1>2. CASE CreateLock(p)
  <2>1. TypeOK'
    BY <1>2 DEF CreateLock, TypeOK, Building, Holds
  <2>2. PlaceInv'
    BY <1>2 DEF CreateLock, TypeOK, PlaceInv, Removing, Ended
  <2>3. LockInv'
    <3> SUFFICES ASSUME crashes = 0 PROVE LockInv'
      BY <1>2 DEF CreateLock, LockInv
    <3>1. lock' \in [by : Processes, stale : BOOLEAN]
      BY <1>2 DEF CreateLock
    <3>2. lock' # None /\ lock'.by = p /\ ~lock'.stale
      BY <1>2, <3>1 DEF CreateLock
    <3>3. pc' = [pc EXCEPT ![p] = "held"] /\ lock = None /\ listing' = listing
      BY <1>2 DEF CreateLock
    <3>4. /\ \A q \in Processes : pc[q] # "break"
          /\ \A b \in Builders : ~Holds(b)
          /\ \A c \in Cleaners : pc[c] # "held" /\ "lock" \notin listing[c]
      BY <3>3 DEF LockInv
    <3>5. p \in DOMAIN pc /\ pc'[p] = "held"
      BY <3>3 DEF TypeOK
    <3>6. \A q \in Processes : q # p => pc'[q] = pc[q]
      BY <3>3 DEF TypeOK
    <3> QED
      BY <3>2, <3>3, <3>4, <3>5, <3>6 DEF LockInv, Holds, Removing
  <2> QED
    BY <2>1, <2>2, <2>3
<1>3. CASE LockExists(p)
  <2>1. TypeOK'
    BY <1>3 DEF LockExists, TypeOK, Acquiring, Holds
  <2>2. PlaceInv'
    BY <1>3 DEF LockExists, TypeOK, PlaceInv, Building, Removing
  <2>3. LockInv'
    BY <1>3 DEF LockExists, TypeOK, LockInv, Holds, Building, Removing
  <2> QED
    BY <2>1, <2>2, <2>3
<1>4. CASE LockFails(p)
  <2>1. TypeOK'
    BY <1>4 DEF LockFails, TypeOK, Ended, Holds
  <2>2. PlaceInv'
    BY <1>4 DEF LockFails, TypeOK, PlaceInv, Building, Removing, Ended
  <2>3. LockInv'
    BY <1>4 DEF LockFails, TypeOK, LockInv, Holds, Building, Removing
  <2> QED
    BY <2>1, <2>2, <2>3
<1>5. CASE Stat(p)
  <2>1. TypeOK'
    BY <1>5 DEF Stat, TypeOK, Acquiring, Holds
  <2>2. PlaceInv'
    BY <1>5 DEF Stat, TypeOK, PlaceInv, Building, Removing, Ended
  <2>3. LockInv'
    BY <1>5 DEF Stat, TypeOK, LockInv, Holds, Building, Removing
  <2> QED
    BY <2>1, <2>2, <2>3
<1>6. CASE Break(p)
  <2>1. TypeOK'
    BY <1>6 DEF Break, TypeOK, Acquiring, Holds
  <2>2. PlaceInv'
    BY <1>6 DEF Break, TypeOK, PlaceInv, Building, Removing, Ended
  <2>3. LockInv'
    BY <1>6 DEF Break, TypeOK, PlaceInv, LockInv, Holds, Removing
  <2> QED
    BY <2>1, <2>2, <2>3
<1>7. CASE Retry(p)
  <2>1. TypeOK'
    BY <1>7 DEF Retry, TypeOK, Acquiring, Holds
  <2>2. PlaceInv'
    BY <1>7 DEF Retry, TypeOK, PlaceInv, Building, Removing, Ended
  <2>3. LockInv'
    BY <1>7 DEF Retry, TypeOK, LockInv, Holds, Building, Removing
  <2> QED
    BY <2>1, <2>2, <2>3
<1>8. CASE GiveUp(p)
  <2>1. TypeOK'
    BY <1>8 DEF GiveUp, TypeOK, Ended, Holds
  <2>2. PlaceInv'
    BY <1>8 DEF GiveUp, TypeOK, PlaceInv, Building, Removing, Ended
  <2>3. LockInv'
    BY <1>8 DEF GiveUp, TypeOK, LockInv, Holds, Building, Removing
  <2> QED
    BY <2>1, <2>2, <2>3
<1>9. CASE Crash(p)
  <2>1. TypeOK'
    BY <1>9 DEF Crash, TypeOK, Ended, Holds
  <2>2. PlaceInv'
    BY <1>9 DEF Crash, TypeOK, PlaceInv, Building, Removing, Ended
  <2>3. LockInv'
    BY <1>9 DEF Crash, TypeOK, PlaceInv, LockInv, Holds, Removing
  <2> QED
    BY <2>1, <2>2, <2>3
<1> QED
  BY <1>1, <1>2, <1>3, <1>4, <1>5, <1>6, <1>7, <1>8, <1>9

\* Every step of a clean preserves the inductive invariant.
LEMMA CleanIInv ==
    ASSUME IInv, NEW c \in Cleaners,
           CallClean(c) \/ List(c) \/ Unlink(c) \/ UnlinkFails(c) \/
           RemoveDir(c)
    PROVE  IInv'
<1> USE WorkspaceAssumption DEF IInv, files, counters, Processes, Go
<1>1. CASE CallClean(c)
  <2>1. TypeOK'
    BY <1>1 DEF CallClean, TypeOK, Acquiring, Holds
  <2>2. PlaceInv'
    BY <1>1 DEF CallClean, TypeOK, PlaceInv, Building, Removing, Ended
  <2>3. LockInv'
    BY <1>1 DEF CallClean, TypeOK, PlaceInv, LockInv, Holds, Removing
  <2> QED
    BY <2>1, <2>2, <2>3
<1>2. CASE List(c)
  <2>1. TypeOK'
    BY <1>2 DEF List, Present, TypeOK, Names, Holds
  <2>2. PlaceInv'
    BY <1>2 DEF List, Present, TypeOK, PlaceInv, Removing, Ended
  <2>3. LockInv'
    BY <1>2 DEF List, Present, TypeOK, LockInv, Holds, Removing
  <2> QED
    BY <2>1, <2>2, <2>3
<1>3. CASE Unlink(c)
  <2>1. TypeOK'
    <3>1. disturbed' \in BOOLEAN /\ version' \in BOOLEAN
      BY <1>3 DEF Unlink, TypeOK
    <3>2. listing' \in [Cleaners -> SUBSET Names]
      BY <1>3 DEF Unlink, TypeOK
    <3> QED
      BY <1>3, <3>1, <3>2 DEF Unlink, TypeOK
  <2>2. PlaceInv'
    BY <1>3 DEF Unlink, UnderABuild, TypeOK, PlaceInv, Removing, Ended
  <2>3. LockInv'
    BY <1>3 DEF Unlink, UnderABuild, TypeOK, PlaceInv, LockInv, Holds
  <2> QED
    BY <2>1, <2>2, <2>3
<1>4. CASE UnlinkFails(c)
  <2>1. TypeOK'
    BY <1>4 DEF UnlinkFails, TypeOK, Ended, Tree, Holds
  <2>2. PlaceInv'
    BY <1>4 DEF UnlinkFails, TypeOK, PlaceInv, Removing, Ended
  <2>3. LockInv'
    BY <1>4 DEF UnlinkFails, TypeOK, PlaceInv, LockInv, Holds
  <2> QED
    BY <2>1, <2>2, <2>3
<1>5. CASE RemoveDir(c)
  <2>1. TypeOK'
    BY <1>5 DEF RemoveDir, Empty, TypeOK, Ended, Holds
  <2>2. PlaceInv'
    BY <1>5 DEF RemoveDir, Empty, TypeOK, PlaceInv, Building, Removing
  <2>3. LockInv'
    BY <1>5 DEF RemoveDir, Empty, TypeOK, PlaceInv, LockInv, Holds
  <2> QED
    BY <2>1, <2>2, <2>3
<1> QED
  BY <1>1, <1>2, <1>3, <1>4, <1>5

\* Ageing, edits and the end preserve the inductive invariant.
LEMMA OtherIInv ==
    ASSUME IInv, Age \/ Edit \/ UNCHANGED vars
    PROVE  IInv'
<1> USE WorkspaceAssumption DEF IInv, files, counters, Processes
<1>1. CASE Age
  <2>1. TypeOK'
    BY <1>1 DEF Age, TypeOK
  <2>2. PlaceInv'
    BY <1>1 DEF Age, PlaceInv
  <2>3. LockInv'
    BY <1>1 DEF Age, TypeOK, LockInv, Holds
  <2> QED
    BY <2>1, <2>2, <2>3
<1>2. CASE Edit
  BY <1>2 DEF Edit, TypeOK, PlaceInv, LockInv, Holds
<1>3. CASE UNCHANGED vars
  BY <1>3 DEF vars, TypeOK, PlaceInv, LockInv, Holds
<1> QED
  BY <1>1, <1>2, <1>3

\* The strengthening of the three invariants below holds in every state.
THEOREM InvariantHolds == Spec => []IInv
<1>1. Init => IInv
  BY InitIInv
<1>2. IInv /\ [Next]_vars => IInv'
  <2> SUFFICES ASSUME IInv, [Next]_vars PROVE IInv'
    OBVIOUS
  <2>1. CASE \E b \in Builders : Build(b)
    <3>1. PICK b \in Builders : Build(b)
      BY <2>1
    <3>2. CASE Lock(b)
      BY <3>2, LockIInv DEF Lock, Processes
    <3>3. CASE ~Lock(b)
      BY <3>1, <3>3, BuildIInv DEF Build
    <3> QED
      BY <3>2, <3>3
  <2>2. CASE \E c \in Cleaners : Clean(c)
    <3>1. PICK c \in Cleaners : Clean(c)
      BY <2>2
    <3>2. CASE Lock(c)
      BY <3>2, LockIInv DEF Lock, Processes
    <3>3. CASE ~Lock(c)
      BY <3>1, <3>3, CleanIInv DEF Clean
    <3> QED
      BY <3>2, <3>3
  <2>3. CASE \E p \in Processes : GiveUp(p) \/ Crash(p)
    BY <2>3, LockIInv
  <2>4. CASE Age \/ Edit \/ Done \/ UNCHANGED vars
    BY <2>4, OtherIInv DEF Done
  <2> QED
    BY <2>1, <2>2, <2>3, <2>4 DEF Next
<1> QED
  BY <1>1, <1>2, PTL DEF Spec

\* Every variable keeps its type.
THEOREM WorkspaceTypeOK == Spec => []TypeOK
<1>1. IInv => TypeOK
  BY DEF IInv
<1> QED
  BY <1>1, InvariantHolds, PTL

\* Without a kill two builds never hold the workspace together, and a build
\* keeps the lock file it created (lock.go: Lock, Discard).
THEOREM WorkspaceOneBuild == Spec => []OneBuild
<1>1. IInv => OneBuild
  BY DEF IInv, LockInv, OneBuild
<1> QED
  BY <1>1, InvariantHolds, PTL

\* Without a kill no lock file outlives its process (lock.go: finish).
THEOREM WorkspaceNoLockIsLeft == Spec => []NoLockIsLeft
<1>1. IInv => NoLockIsLeft
  BY DEF IInv, TypeOK, LockInv, NoLockIsLeft
<1> QED
  BY <1>1, InvariantHolds, PTL
-----------------------------------------------------------------------------
\* Unless something was stopped halfway, the tree of a build holds what the
\* build has written so far, from sources that nobody edits meanwhile, and
\* outside of that a tree that is not empty is the one its key names.  The
\* directory is there as long as a build works in it, so that the key is saved.
KeyInv == ~disturbed =>
    /\ crashes = 0
    /\ \A b \in Builders :
          /\ Holds(b) => dir
          /\ pc[b] = "write1" => gen = {}
          /\ pc[b] = "write2" => gen = {<<source, 1>>}
          /\ pc[b] \in {"save", "compile"} => gen = Whole(source)
    /\ key # None /\ gen \notin {None, {}} /\ (\A b \in Builders : pc[b] \notin {"write2", "save"})
          => gen = Whole(key)

\* Without a kill a build that holds the lock is the only one.
LEMMA Alone ==
    ASSUME IInv, crashes = 0, NEW a \in Builders, NEW b \in Builders,
           Holds(a), Holds(b)
    PROVE  a = b
  BY DEF IInv, LockInv

\* At the start there is no tree and no key.
LEMMA InitKeyInv == Init => KeyInv
  BY DEF Init, KeyInv, Processes, Holds, Building, Removing

\* What a build does to the tree, its key and the directory keeps them together.
LEMMA BuildKeyInv ==
    ASSUME IInv, KeyInv, NEW b \in Builders,
           Ensure(b) \/ Invalidate(b) \/ CheckKey(b) \/ CleanGen(b) \/
           CleanGenFails(b) \/ Transpile(b) \/ SaveKey(b) \/ GoBuild(b) \/
           Release(b)
    PROVE  KeyInv'
<1> USE WorkspaceAssumption DEF files, counters, Processes, Go
<1> SUFFICES ASSUME ~disturbed' PROVE KeyInv'
  BY DEF KeyInv
<1>1. ~disturbed /\ crashes = 0 /\ crashes' = crashes /\ source' = source
  BY DEF KeyInv, Ensure, Invalidate, CheckKey, CleanGen, CleanGenFails,
         Transpile, TranspileFails, WriteFile, SaveKey, GoBuild, Release
<1>2. TypeOK /\ TypeOK'
  BY BuildIInv DEF IInv
<1>3. \A a \in Builders : a # b => pc'[a] = pc[a]
  BY <1>2 DEF TypeOK, Ensure, Invalidate, CheckKey, CleanGen, CleanGenFails,
         Transpile, TranspileFails, WriteFile, SaveKey, GoBuild, Release
<1>4. Holds(b) => \A a \in Builders : a # b => ~Holds(a) /\ ~Holds(a)'
  BY <1>1, <1>3, Alone DEF Holds
<1> USE <1>1, <1>2, <1>3, <1>4 DEF KeyInv, Holds, Building, Removing
<1>5. CASE Ensure(b)
  <2>1. {<<source, 1>>} # None /\ Whole(source) # None
    BY DEF TypeOK, Tree, Files, Whole
  <2> QED
    BY <1>5, <2>1 DEF Ensure, TypeOK
<1>6. CASE Invalidate(b)
  BY <1>6 DEF Invalidate, TypeOK
<1>7. CASE CheckKey(b)
  BY <1>7 DEF CheckKey, Unchanged, TypeOK
<1>8. CASE CleanGen(b)
  BY <1>8 DEF CleanGen, TypeOK
<1>9. CASE CleanGenFails(b)
  BY <1>9 DEF CleanGenFails, TypeOK
<1>10. CASE Transpile(b)
  <2>1. CASE WriteFile(b, "write1", 1, "write2")
    BY <2>1 DEF WriteFile, TypeOK
  <2>2. CASE WriteFile(b, "write2", 2, "save")
    BY <2>2 DEF WriteFile, TypeOK, Whole, Files, Tree
  <2>3. CASE TranspileFails(b)
    BY <2>3 DEF TranspileFails, TypeOK
  <2> QED
    BY <1>10, <2>1, <2>2, <2>3 DEF Transpile
<1>11. CASE SaveKey(b)
  BY <1>11 DEF SaveKey, TypeOK
<1>12. CASE GoBuild(b)
  BY <1>12 DEF GoBuild, TypeOK
<1>13. CASE Release(b)
  BY <1>13 DEF Release, TypeOK
<1> QED
  BY <1>5, <1>6, <1>7, <1>8, <1>9, <1>10, <1>11, <1>12, <1>13

\* Taking the lock and giving up leave the tree alone; a build gets the lock
\* only in a directory that is there.
LEMMA LockKeyInv ==
    ASSUME IInv, KeyInv, NEW p \in Processes,
           MakeDir(p) \/ CreateLock(p) \/ LockExists(p) \/ LockFails(p) \/
           Stat(p) \/ Break(p) \/ Retry(p) \/ GiveUp(p) \/ Crash(p)
    PROVE  KeyInv'
<1> USE WorkspaceAssumption DEF files, counters, Processes, Go
<1> SUFFICES ASSUME ~disturbed' PROVE KeyInv'
  BY DEF KeyInv
<1>1. /\ ~disturbed /\ crashes = 0 /\ crashes' = crashes /\ source' = source
      /\ gen' = gen /\ key' = key
      /\ dir => dir'
  BY DEF KeyInv, MakeDir, CreateLock, LockExists, LockFails, Stat, Break,
         Retry, GiveUp, Crash
<1>2. TypeOK
  BY DEF IInv
<1>3. \A a \in Builders : a # p => pc'[a] = pc[a]
  BY <1>2 DEF TypeOK, MakeDir, CreateLock, LockExists, LockFails, Stat,
         Break, Retry, GiveUp, Crash
<1>4. pc[p] \in Acquiring /\ pc'[p] \notin Building \ {"held"}
  BY <1>1, <1>2 DEF TypeOK, MakeDir, CreateLock, LockExists, LockFails, Stat,
         Break, Retry, GiveUp, Crash, KeyInv, Acquiring, Building, Ended
<1>5. p \in Builders /\ pc'[p] = "held" => dir'
  BY <1>2 DEF TypeOK, MakeDir, CreateLock, LockExists, LockFails, Stat, Break,
         Retry, GiveUp, Crash, Ended
<1>6. \A b \in Builders :
         pc'[b] # pc[b] => /\ pc[b] \in Acquiring
                           /\ pc'[b] \notin Building \ {"held"}
                           /\ pc'[b] = "held" => dir'
  BY <1>3, <1>4, <1>5
<1>7. \A b \in Builders : pc'[b] # "remove"
  BY LockIInv DEF IInv, PlaceInv
<1>8. \A b \in Builders : Holds(b)' => dir'
  BY <1>1, <1>6, <1>7 DEF KeyInv, Holds, Building, Removing
<1>9. \A b \in Builders : \A at \in {"write1", "write2", "save", "compile"} :
         pc'[b] = at <=> pc[b] = at
  BY <1>6 DEF Building, Acquiring
<1> QED
  BY <1>1, <1>8, <1>9 DEF KeyInv, Whole

\* A clean unlinks the tree together with its key, or under a build, which
\* then counts as disturbed; it removes the directory only when nothing is in it.
LEMMA CleanKeyInv ==
    ASSUME IInv, KeyInv, NEW c \in Cleaners,
           CallClean(c) \/ List(c) \/ Unlink(c) \/ UnlinkFails(c) \/
           RemoveDir(c)
    PROVE  KeyInv'
<1> USE WorkspaceAssumption DEF files, counters, Processes, Go
<1> SUFFICES ASSUME ~disturbed' PROVE KeyInv'
  BY DEF KeyInv
<1>1. ~disturbed /\ crashes = 0 /\ crashes' = crashes /\ source' = source
  BY DEF KeyInv, CallClean, List, Unlink, UnlinkFails, RemoveDir, IInv, TypeOK
<1>2. TypeOK
  BY DEF IInv
<1>3. \A b \in Builders : pc'[b] = pc[b]
  BY <1>2 DEF TypeOK, CallClean, List, Unlink, UnlinkFails, RemoveDir
<1> USE <1>1, <1>2, <1>3 DEF KeyInv, Holds
<1>4. CASE CallClean(c)
  BY <1>4 DEF CallClean
<1>5. CASE List(c)
  BY <1>5 DEF List
<1>6. CASE Unlink(c)
  <2>1. ~UnderABuild
    BY <1>6 DEF Unlink, TypeOK
  <2>2. gen' \in {gen, None} /\ key' \in {key, None} /\ dir' = dir
    BY <1>6 DEF Unlink
  <2> QED
    BY <2>1, <2>2 DEF UnderABuild, Building
<1>7. CASE UnlinkFails(c)
  BY <1>7 DEF UnlinkFails
<1>8. CASE RemoveDir(c)
  BY <1>8 DEF RemoveDir, Empty, IInv, LockInv
<1> QED
  BY <1>4, <1>5, <1>6, <1>7, <1>8

\* Nobody edits the sources while a build works.
LEMMA OtherKeyInv ==
    ASSUME IInv, KeyInv, Age \/ Edit \/ UNCHANGED vars
    PROVE  KeyInv'
<1> USE DEF files, counters, KeyInv, Holds, Building
<1>1. CASE Age
  BY <1>1 DEF Age
<1>2. CASE Edit
  BY <1>2 DEF Edit
<1>3. CASE UNCHANGED vars
  BY <1>3 DEF vars
<1> QED
  BY <1>1, <1>2, <1>3

\* Unless something was stopped halfway, the key that is there describes the
\* tree that is there, between a build's first file and its saving excepted
\* (builder.go: transpile).
THEOREM KeyInvHolds == Spec => []KeyInv
<1>1. Init => KeyInv
  BY InitKeyInv
<1>2. IInv /\ KeyInv /\ [Next]_vars => KeyInv'
  <2> SUFFICES ASSUME IInv, KeyInv, [Next]_vars PROVE KeyInv'
    OBVIOUS
  <2>1. CASE \E b \in Builders : Build(b)
    <3>1. PICK b \in Builders : Build(b)
      BY <2>1
    <3>2. CASE Lock(b)
      BY <3>2, LockKeyInv DEF Lock, Processes
    <3>3. CASE ~Lock(b)
      BY <3>1, <3>3, BuildKeyInv DEF Build
    <3> QED
      BY <3>2, <3>3
  <2>2. CASE \E c \in Cleaners : Clean(c)
    <3>1. PICK c \in Cleaners : Clean(c)
      BY <2>2
    <3>2. CASE Lock(c)
      BY <3>2, LockKeyInv DEF Lock, Processes
    <3>3. CASE ~Lock(c)
      BY <3>1, <3>3, CleanKeyInv DEF Clean
    <3> QED
      BY <3>2, <3>3
  <2>3. CASE \E p \in Processes : GiveUp(p) \/ Crash(p)
    BY <2>3, LockKeyInv
  <2>4. CASE Age \/ Edit \/ Done \/ UNCHANGED vars
    BY <2>4, OtherKeyInv DEF Done
  <2> QED
    BY <2>1, <2>2, <2>3, <2>4 DEF Next
<1> QED
  BY <1>1, <1>2, InvariantHolds, PTL DEF Spec

\* Unless something was stopped halfway, what is compiled is the whole of the
\* current sources, whether it was transpiled or its key was found (builder.go:
\* transpile, invalidateWorkspace).
THEOREM WorkspaceSkippingIsSound == Spec => []SkippingIsSound
<1>1. KeyInv => SkippingIsSound
  BY DEF KeyInv, SkippingIsSound
<1> QED
  BY <1>1, KeyInvHolds, PTL
=============================================================================
