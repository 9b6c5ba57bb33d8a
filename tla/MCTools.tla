------------------------------ MODULE MCTools ------------------------------
(***************************************************************************)
(* One instance of each of the tools that live long or share a directory:  *)
(* the build workspace, the language server, the Bazel worker and the      *)
(* cache of the standard library.  They have nothing in common, so that a  *)
(* behaviour is of one of them, its subject, and the others stay as they   *)
(* start.                                                                  *)
(***************************************************************************)
EXTENDS Workspace, LspServer

CONSTANTS Inputs, Keys, Sources, MaxRequests, Parts, Builds, Fingerprint, Marker, MaxKills

ASSUME ToolsAssumption ==
  /\ Nil \notin Uris \cup Analysed /\ None \notin Builds
  /\ MaxMessages \in Nat /\ MaxRequests \in Nat /\ MaxKills \in Nat

VARIABLES subject,
  inbox, sent, stdin, parent, loop, request, left, exitCode, analyzers, response, replies,
  ended, transpiled,
  tree, present, cacheLock, at, names, kills, crowded, torn

W == INSTANCE PersistentWorker WITH Files <- Inputs, pc <- loop
\* The first two builds have the same library and the third has another one.
Library == [b \in Builds |-> IF b = "other" THEN "y" ELSE "x"]
\* Dropping a dot or closing a call makes one other text of each, with types.
Patched == [t \in Texts |-> {"patched"}]
C == INSTANCE StdlibCache WITH Files <- Parts, lock <- cacheLock

loopVars == <<inbox, sent, stdin, parent, loop, request, left, exitCode, analyzers, response,
              replies, ended, transpiled>>
extractionVars == <<tree, present, cacheLock, at, names, kills, crowded, torn>>
toolVars == <<subject, vars, lspVars, loopVars, extractionVars>>
MCInit == /\ subject \in {"workspace", "server", "worker", "cache"}
          /\ Init /\ LspInit /\ W!WorkerInit /\ C!CacheInit
          /\ subject = "workspace" \/ source = CHOOSE v \in Versions : TRUE

Only(what) == subject = what /\ UNCHANGED subject
OthersThanWorkspace == UNCHANGED <<lspVars, loopVars, extractionVars>>
OthersThanServer == UNCHANGED <<vars, loopVars, extractionVars>>
OthersThanWorker == UNCHANGED <<vars, lspVars, extractionVars>>
OthersThanCache == UNCHANGED <<vars, lspVars, loopVars>>

MCNext == \/ Only("workspace") /\ Next /\ OthersThanWorkspace
          \/ Only("server") /\ LspNext /\ OthersThanServer
          \/ Only("worker") /\ W!WorkerNext /\ OthersThanWorker
          \/ Only("cache") /\ C!CacheNext /\ OthersThanCache

\* The fairness of each, which asks for nothing in a behaviour of another one.
MCFairness ==
  /\ \A b \in Builders : WF_toolVars(Only("workspace") /\ Build(b) /\ OthersThanWorkspace)
  /\ \A c \in Cleaners : WF_toolVars(Only("workspace") /\ Clean(c) /\ OthersThanWorkspace)
  /\ WF_toolVars(Only("workspace") /\ Age /\ OthersThanWorkspace)
  /\ WF_toolVars(Only("server") /\ ServerStep /\ OthersThanServer)
  /\ WF_toolVars(Only("server") /\ QueryStep /\ OthersThanServer)
  /\ WF_toolVars(Only("worker") /\ W!LoopStep /\ OthersThanWorker)
  /\ WF_toolVars(Only("worker") /\ W!WatcherEnds /\ OthersThanWorker)
  /\ \A b \in Builds : WF_toolVars(Only("cache") /\ C!Build(b) /\ OthersThanCache)

MCSpec == MCInit /\ [][MCNext]_toolVars /\ MCFairness

-----------------------------------------------------------------------------
(* Properties: those of the parts.                                          *)

\* At rest the server shows and keeps the text it has read last, as it is or as a
\* request has patched it, where the histories make no exception (server.go:243).
ServerIsRight == LspTypeOK /\ ShowsTheLastText /\ CachesAreOfTheLastText
\* No request has two answers, and one that the loop has left has its own: a
\* request that panics is never left, for the process ends with it.  A file is
\* transpiled with the siblings that its own request names and, if that names Go
\* source directories, with those; if not, those of an earlier request may stay
\* (worker.go:152, 187-198, 117-128).
WorkerIsRight == W!WorkerTypeOK /\ W!AnsweredOnce /\ W!OwnSettings
\* No extraction of the library is seen half done unless its removal failed or was
\* killed, who has been alone behind the lock has its own when it leaves, and unless
\* a build was killed it is alone (stdlibver.go:147, 115, lock.go:285-299).
LibraryIsRight ==
  C!CacheTypeOK /\ C!WholeOrAbsent /\ C!InstallerHasItsOwn /\ C!LockIsExclusive
\* Every document is shown, the worker ends with Bazel, and every build goes on
\* (server.go:265, parent_watcher.go:38, stdlibver.go:144).
EverythingEnds == EveryDocumentIsShown /\ W!EndsWithBazel /\ C!EveryBuildGoesOn

\* A panic is answered (worker.go:187); it is not.
PanicsAreContained == W!PanicsAreContained
=============================================================================
