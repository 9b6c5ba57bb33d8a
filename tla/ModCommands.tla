---------------------------- MODULE ModCommands ----------------------------
(***************************************************************************)
(* The commands gala mod add, update, remove, tidy and verify              *)
(* (cmd/gala/commands) over the gala.mod and gala.sum of several projects  *)
(* and the module cache they share (internal/depman/fetch, mod and sum).   *)
(*                                                                         *)
(* A command is one process: it reads gala.mod, fetches modules into the   *)
(* cache file by file, then writes gala.mod and gala.sum one after the     *)
(* other.  It may be killed between any two of these steps, a fetch may    *)
(* fail at the remote, at any file it copies and at the hash, and commands *)
(* of other projects interleave with it.  A project runs one command at a  *)
(* time.  A hash is modelled by the set of files it covers, because a      *)
(* published version never changes; a file that was written in part counts *)
(* as absent.  The entry of a module's gala.mod in gala.sum exists exactly *)
(* when that set holds the file, so it is not modelled apart.  A write of  *)
(* gala.mod or of gala.sum is one step.                                    *)
(***************************************************************************)
EXTENDS Naturals, FiniteSets

CONSTANTS Projects,      \* the projects of this machine
          Modules,       \* the paths that can be required and imported
          Provider,      \* Provider[m]: the module a path belongs to; a package
                         \* below a module's root has another path than it
          MaxVersion,    \* versions are 1 .. MaxVersion
          Contents,      \* Contents[m]: the files Store copies of module m
          GalaFiles,     \* gala.mod and the .gala files of a module's root
          GalaMod,       \* the file gala.mod
          Requires,      \* Requires[m, v]: what the gala.mod of m@v requires
          FirstTags,     \* FirstTags[m]: the versions published at the start
          Starting,      \* the requirements a project may start with, as keys
          MaxCommands,   \* bound: commands started
          MaxKills       \* bound: processes killed, or ended by a failing write

Versions == 1 .. MaxVersion
Keys == Modules \X Versions

ASSUME ConstantsAssumption ==
  /\ MaxVersion \in Nat /\ Modules # {}
  /\ GalaMod \in GalaFiles
  /\ DOMAIN Contents = Modules /\ Provider \in [Modules -> Modules]
  /\ FirstTags \in [Modules -> (SUBSET Versions) \ {{}}]
  /\ \A k \in Keys : Requires[k] \subseteq Keys
  /\ \A start \in Starting : /\ start \subseteq Keys
                             /\ \A k, l \in start : k[1] = l[1] => k = l

VARIABLES
  tags,      \* tags[m]: the versions of m its repository has published
  imports,   \* imports[p]: the paths the sources of p import
  manifest,  \* manifest[p]: the requirements of p's gala.mod
  sum,       \* sum[p]: the entries of p's gala.sum, pairs of a key and a hash
  dirs,      \* the module versions whose cache directory exists
  files,     \* files[k]: the files in it
  job,       \* job[p]: the command running in p
  torn,      \* history: versions whose Store was killed, or failed, in the middle
  raced,     \* history: <<p, k>> hashed while another process stored k
  owed,      \* history: <<p, k>> required by p without an entry in gala.sum
  settled,   \* history: the projects a tidy has just completed for
  commands, kills

world == <<tags, imports>>
cache == <<dirs, files>>
history == <<torn, raced, owed, settled>>
vars == <<world, manifest, sum, cache, job, history, commands, kills>>

Require == [path : Modules, version : Versions, go : BOOLEAN]
KeyOf(r) == <<r.path, r.version>>
Hash(k) == files[k]
Latest(vs) == CHOOSE v \in vs : \A w \in vs : w <= v

Nothing == CHOOSE k \in Keys : TRUE
Idle == [cmd |-> "none", at |-> "idle", want |-> Nothing, left |-> {}, got |-> {},
         draft |-> {}, ledger |-> {}, todo |-> {}, frontier |-> {}, visited |-> {}, edges |-> {},
         whole |-> TRUE]

\* Each project starts with requirements that were added earlier.
Init ==
  /\ tags = FirstTags
  /\ imports = [p \in Projects |-> {}]
  /\ \E start \in [Projects -> Starting] :
       /\ manifest = [p \in Projects |->
                        {[path |-> k[1], version |-> k[2], go |-> FALSE] : k \in start[p]}]
       /\ sum = [p \in Projects |-> {<<k, Contents[k[1]]>> : k \in start[p]}]
       /\ dirs = UNION {start[p] : p \in Projects}
       /\ files = [k \in Keys |-> IF k \in dirs THEN Contents[k[1]] ELSE {}]
  /\ job = [p \in Projects |-> Idle]
  /\ torn = {} /\ raced = {} /\ owed = {} /\ settled = {}
  /\ commands = 0 /\ kills = 0

-----------------------------------------------------------------------------
(* Helpers: File.AddRequire, RemoveRequire, GetRequire of gala.mod, File.Add *)
(* and Remove of gala.sum, over sets with one element per key.              *)

Required(reqs, m) == {r \in reqs : r.path = m}
\* Mutant: the old requirement of the path stays.
AddRequireBeside(reqs, m, v, go) == reqs \cup {[path |-> m, version |-> v, go |-> go]}
AddRequire(reqs, m, v, go) ==
  LET old == Required(reqs, m)
  IN  (reqs \ old) \cup
        {[path |-> m, version |-> v, go |-> go \/ \E r \in old : r.go]}
RemoveRequire(reqs, m) == reqs \ Required(reqs, m)

SumAdd(entries, k, hash) == {e \in entries : e[1] # k} \cup {<<k, hash>>}
SumRemove(entries, k) == {e \in entries : e[1] # k}

\* hasGalaFiles looks at the cached directory: without any gala file it is
\* taken for a Go package.
LooksLikeGo(k) == files[k] \cap GalaFiles = {}

Runs(p, cmd, at) == job[p].cmd = cmd /\ job[p].at = at
Finish(p) == job' = [job EXCEPT ![p] = Idle]

-----------------------------------------------------------------------------
(* A command starts: it parses gala.mod.                                    *)

Start(p) ==
  /\ job[p].at = "idle" /\ commands < MaxCommands
  /\ commands' = commands + 1

\* gala mod add m@v; v is the version of a tag, the latest one included.
AddBegins(p, m, v) ==
  /\ Start(p)
  /\ v \in tags[m]
  /\ job' = [job EXCEPT ![p] = [Idle EXCEPT !.cmd = "add", !.at = "fetch",
                                           !.want = <<m, v>>, !.draft = manifest[p]]]
  /\ settled' = settled \ {p}
  /\ UNCHANGED <<world, manifest, sum, cache, torn, raced, owed, kills>>

\* gala mod update m ... or --all; gala.sum is read at the start too.
UpdateBegins(p, ms) ==
  /\ Start(p)
  /\ ms # {}
  /\ job' = [job EXCEPT ![p] =
               [Idle EXCEPT !.cmd = "update", !.at = "pick", !.draft = manifest[p],
                            !.ledger = sum[p],
                            !.todo = {m \in ms : Required(manifest[p], m) # {}}]]
  /\ settled' = settled \ {p}
  /\ UNCHANGED <<world, manifest, sum, cache, torn, raced, owed, kills>>

RemoveBegins(p, m) ==
  /\ Start(p)
  /\ Required(manifest[p], m) # {}
  /\ job' = [job EXCEPT ![p] =
               [Idle EXCEPT !.cmd = "remove", !.at = "writeMod",
                            !.want = KeyOf(CHOOSE r \in Required(manifest[p], m) : TRUE),
                            !.draft = RemoveRequire(manifest[p], m)]]
  /\ settled' = settled \ {p}
  /\ UNCHANGED <<world, manifest, sum, cache, torn, raced, owed, kills>>

\* Mutant: every import is looked up again, not only the missing ones.
TidyBeginsUpdating(p) ==
  /\ Start(p)
  /\ job' = [job EXCEPT ![p] =
               [Idle EXCEPT !.cmd = "tidy", !.at = "pick",
                            !.draft = {r \in manifest[p] : r.path \in imports[p] \/ r.go},
                            !.todo = imports[p]]]
  /\ UNCHANGED <<world, manifest, sum, cache, history, kills>>

\* gala mod tidy scans the imports, and drops the requirements nobody imports
\* unless they are marked as Go ones; the missing ones are fetched first.
TidyBegins(p) ==
  /\ Start(p)
  /\ job' = [job EXCEPT ![p] =
               [Idle EXCEPT !.cmd = "tidy", !.at = "pick",
                            !.draft = {r \in manifest[p] : r.path \in imports[p] \/ r.go},
                            !.todo = {m \in imports[p] : Required(manifest[p], m) = {}}]]
  /\ UNCHANGED <<world, manifest, sum, cache, history, kills>>

-----------------------------------------------------------------------------
(* GitFetcher.Fetch: a directory that exists counts as cached, whatever it  *)
(* holds; otherwise clone, create the directory and copy file by file.      *)

OthersStoring(p, k) ==
  \E q \in Projects \ {p} : job[q].at \in {"clone", "copy"} /\ job[q].want = k

\* The hash is taken of what the directory holds now.
Fetched(p) ==
  LET k == job[p].want
  IN  /\ job' = [job EXCEPT ![p].at = "fetched", ![p].got = Hash(k), ![p].left = {},
                            ![p].whole = @ /\ files[k] = Contents[k[1]]]
      /\ raced' = IF OthersStoring(p, k) THEN raced \cup {<<p, k>>} ELSE raced

FetchHit(p) ==
  /\ job[p].at = "fetch" /\ job[p].want \in dirs
  /\ Fetched(p)
  /\ UNCHANGED <<world, manifest, sum, cache, torn, owed, settled, commands, kills>>

FetchMiss(p) ==
  /\ job[p].at = "fetch" /\ job[p].want \notin dirs
  /\ job' = [job EXCEPT ![p].at = "clone"]
  /\ UNCHANGED <<world, manifest, sum, cache, history, commands, kills>>

\* Mutant: only gala files are copied.
StoreBeginsFiltered(p) ==
  /\ job[p].at = "clone"
  /\ dirs' = dirs \cup {job[p].want}
  /\ job' = [job EXCEPT ![p].at = "copy", ![p].left = Contents[job[p].want[1]] \cap GalaFiles]
  /\ UNCHANGED <<world, manifest, sum, files, history, commands, kills>>

\* Store creates the directory before it copies the first file.
StoreBegins(p) ==
  /\ job[p].at = "clone"
  /\ dirs' = dirs \cup {job[p].want}
  /\ job' = [job EXCEPT ![p].at = "copy", ![p].left = Contents[job[p].want[1]]]
  /\ UNCHANGED <<world, manifest, sum, files, history, commands, kills>>

StoreCopies(p) ==
  /\ job[p].at = "copy"
  /\ \E f \in job[p].left :
       /\ files' = [files EXCEPT ![job[p].want] = @ \cup {f}]
       /\ job' = [job EXCEPT ![p].left = @ \ {f}]
  /\ UNCHANGED <<world, manifest, sum, dirs, history, commands, kills>>

\* Mutant: the hash was taken before the files were there.
StoreEndsUnhashed(p) ==
  /\ job[p].at = "copy" /\ job[p].left = {}
  /\ job' = [job EXCEPT ![p].at = "fetched", ![p].got = {}]
  /\ UNCHANGED <<world, manifest, sum, cache, torn, raced, owed, settled, commands, kills>>

StoreEnds(p) ==
  /\ job[p].at = "copy" /\ job[p].left = {}
  /\ Fetched(p)
  /\ UNCHANGED <<world, manifest, sum, cache, torn, owed, settled, commands, kills>>

\* The directory that p gives up in the middle of Store stays as it is.
LeftTorn(p) ==
  IF job[p].at = "copy" /\ job[p].left # {} THEN torn \cup {job[p].want} ELSE torn

\* The remote does not answer, a file cannot be copied, or the directory, a
\* cached one too, cannot be hashed: add exits, update and tidy go on without.
FetchFails(p) ==
  /\ job[p].at \in {"fetch", "clone", "copy"}
  /\ torn' = LeftTorn(p)
  /\ job' = [job EXCEPT ![p] =
               CASE @.cmd = "add" -> Idle
                 [] @.cmd = "update" -> [@ EXCEPT !.at = "pick", !.left = {}]
                 [] @.cmd = "tidy" /\ @.frontier = {} ->
                      [@ EXCEPT !.at = "pick", !.left = {}, !.whole = FALSE]
                 [] @.cmd = "tidy" /\ @.frontier # {} ->
                      [@ EXCEPT !.at = "graph", !.left = {}, !.whole = FALSE]]
  /\ UNCHANGED <<world, manifest, sum, cache, raced, owed, settled, commands, kills>>

-----------------------------------------------------------------------------
(* What a command does with what it fetched.                                *)

AddEdits(p) ==
  /\ Runs(p, "add", "fetched")
  /\ LET k == job[p].want
     IN  job' = [job EXCEPT ![p].at = "writeMod",
                            ![p].draft = AddRequire(@, k[1], k[2], LooksLikeGo(k))]
  /\ UNCHANGED <<world, manifest, sum, cache, history, commands, kills>>

\* update and the first part of tidy take their modules one by one.
PickNext(p) ==
  /\ job[p].at = "pick"
  /\ \E m \in job[p].todo :
       job' = [job EXCEPT ![p].at = "fetch", ![p].want = <<m, Latest(tags[m])>>,
                          ![p].todo = @ \ {m}]
  /\ UNCHANGED <<world, manifest, sum, cache, history, commands, kills>>

\* Mutant: the entry of the old version goes, that of the new one does not come.
UpdateEditsDropping(p) ==
  /\ Runs(p, "update", "fetched")
  /\ LET j == job[p]
         k == j.want
         old == CHOOSE r \in Required(j.draft, k[1]) : TRUE
     IN  job' = [job EXCEPT ![p] =
                  IF old.version = k[2] THEN [j EXCEPT !.at = "pick"]
                  ELSE [j EXCEPT !.at = "pick",
                          !.draft = AddRequire(j.draft, k[1], k[2], FALSE),
                          !.ledger = SumRemove(j.ledger, KeyOf(old))]]
  /\ UNCHANGED <<world, manifest, sum, cache, history, commands, kills>>

UpdateEdits(p) ==
  /\ Runs(p, "update", "fetched")
  /\ LET j == job[p]
         k == j.want
         old == CHOOSE r \in Required(j.draft, k[1]) : TRUE
     IN  job' = [job EXCEPT ![p] =
                  IF old.version = k[2] THEN [j EXCEPT !.at = "pick"]
                  ELSE [j EXCEPT !.at = "pick",
                          !.draft = AddRequire(j.draft, k[1], k[2], FALSE),
                          !.ledger = SumAdd(SumRemove(j.ledger, KeyOf(old)), k, j.got)]]
  /\ UNCHANGED <<world, manifest, sum, cache, history, commands, kills>>

\* Both files are written only when something was updated.
UpdateWrites(p) ==
  /\ Runs(p, "update", "pick") /\ job[p].todo = {}
  /\ IF job[p].draft = manifest[p]
       THEN Finish(p)
       ELSE job' = [job EXCEPT ![p].at = "writeMod"]
  /\ UNCHANGED <<world, manifest, sum, cache, history, commands, kills>>

TidyAdds(p) ==
  /\ Runs(p, "tidy", "fetched") /\ job[p].frontier = {}
  /\ LET k == job[p].want
     IN  job' = [job EXCEPT ![p].at = "pick",
                            ![p].draft = AddRequire(@, k[1], k[2], FALSE)]
  /\ UNCHANGED <<world, manifest, sum, cache, history, commands, kills>>

\* The graph is built from the requirements that are left.
GraphBegins(p) ==
  /\ Runs(p, "tidy", "pick") /\ job[p].todo = {}
  /\ job' = [job EXCEPT ![p].frontier = {KeyOf(r) : r \in job[p].draft},
                        ![p].at = IF job[p].draft = {} THEN "writeMod" ELSE "graph"]
  /\ UNCHANGED <<world, manifest, sum, cache, history, commands, kills>>

\* Builder.processRequire visits a version once.  The gala.mod of a cached
\* module is read; a directory without one, or with one that cannot be read, is
\* a leaf; what is not cached is fetched.  Edges go from path to path.
Expand(j, k) ==
  LET reqs == IF GalaMod \in files[k] THEN Requires[k] ELSE {}
  IN  [j EXCEPT !.frontier = j.frontier \cup reqs,
                !.edges = j.edges \cup {<<k[1], r[1]>> : r \in reqs}]

GraphVisits(p) ==
  /\ Runs(p, "tidy", "graph")
  /\ \E k \in job[p].frontier \ job[p].visited :
       LET j == job[p]
           seen == j.visited \cup {k}
       IN  \/ /\ k \in dirs
              /\ job' = [job EXCEPT ![p] =
                           [Expand(j, k) EXCEPT !.visited = seen,
                              !.whole = j.whole /\ files[k] = Contents[k[1]]]]
           \/ /\ k \in dirs
              /\ job' = [job EXCEPT ![p] = [j EXCEPT !.visited = seen, !.whole = FALSE]]
           \/ /\ k \notin dirs
              /\ job' = [job EXCEPT ![p] =
                           [j EXCEPT !.visited = seen, !.want = k, !.at = "fetch"]]
  /\ UNCHANGED <<world, manifest, sum, cache, history, commands, kills>>

GraphExpands(p) ==
  /\ Runs(p, "tidy", "fetched") /\ job[p].frontier # {}
  /\ job' = [job EXCEPT ![p] = [Expand(job[p], job[p].want) EXCEPT !.at = "graph"]]
  /\ UNCHANGED <<world, manifest, sum, cache, history, commands, kills>>

\* A set of modules each of which requires another one of the set.
Cyclic(edges) ==
  \E ms \in (SUBSET Modules) \ {{}} : \A m \in ms : \E n \in ms : <<m, n>> \in edges

\* Mutant: any version that is required, not the greatest.
SelectedSome(keys, m) == CHOOSE v \in {k[2] : k \in {l \in keys : l[1] = m}} : TRUE
Selected(keys, m) == Latest({k[2] : k \in {l \in keys : l[1] = m}})

\* A cycle ends the command; otherwise every requirement takes the greatest
\* version anything in the graph requires.
TidyResolves(p) ==
  /\ Runs(p, "tidy", "graph") /\ job[p].frontier \subseteq job[p].visited
  /\ IF Cyclic(job[p].edges)
       THEN Finish(p)
       ELSE job' = [job EXCEPT ![p].at = "writeMod",
                      ![p].draft = {[r EXCEPT !.version = Selected(job[p].frontier, r.path)]
                                      : r \in job[p].draft}]
  /\ UNCHANGED <<world, manifest, sum, cache, history, commands, kills>>

-----------------------------------------------------------------------------
(* gala.mod is written first, gala.sum after it.                            *)

WriteMod(p) ==
  /\ job[p].at = "writeMod"
  /\ manifest' = [manifest EXCEPT ![p] = job[p].draft]
  /\ job' = [job EXCEPT ![p].at = "writeSum"]
  /\ UNCHANGED <<world, sum, cache, history, commands, kills>>

\* add and remove edit gala.sum as they find it, update writes what it read
\* and edited, and tidy writes it anew from the directories it can hash.
NewSum(p, hashed) ==
  LET j == job[p]
  IN  CASE j.cmd = "add" -> SumAdd(sum[p], j.want, j.got)
        [] j.cmd = "remove" -> SumRemove(sum[p], j.want)
        [] j.cmd = "update" -> j.ledger
        [] j.cmd = "tidy" -> {<<k, Hash(k)>> : k \in hashed}

WriteSum(p) ==
  /\ job[p].at = "writeSum"
  /\ \E hashed \in SUBSET ({KeyOf(r) : r \in job[p].draft} \cap dirs) :
       /\ sum' = [sum EXCEPT ![p] = NewSum(p, hashed)]
       /\ owed' = IF job[p].cmd = "tidy"
                    THEN {o \in owed : o[1] # p} \cup
                           {<<p, k>> : k \in {KeyOf(r) : r \in job[p].draft} \ hashed}
                    ELSE owed
  /\ raced' = IF job[p].cmd = "tidy"
                THEN raced \cup {<<p, KeyOf(r)>> :
                                   r \in {s \in job[p].draft : OthersStoring(p, KeyOf(s))}}
                ELSE raced
  /\ settled' = IF job[p].cmd = "tidy" /\ job[p].whole THEN settled \cup {p} ELSE settled
  /\ Finish(p)
  /\ UNCHANGED <<world, manifest, cache, torn, commands, kills>>

-----------------------------------------------------------------------------
(* The process is killed, the sources change, a version is published.       *)

\* Killed; or gala.mod or gala.sum cannot be written and the command exits.
Kill(p) ==
  /\ job[p].at # "idle"
  /\ kills < MaxKills
  /\ kills' = kills + 1
  /\ torn' = LeftTorn(p)
  /\ owed' = IF job[p].at = "writeSum"
               THEN owed \cup {<<p, KeyOf(r)>> : r \in job[p].draft}
               ELSE owed
  /\ settled' = settled \ {p}
  /\ Finish(p)
  /\ UNCHANGED <<world, manifest, sum, cache, raced, commands>>

EditImports(p) ==
  /\ job[p].at = "idle" /\ commands < MaxCommands
  /\ \E ms \in (SUBSET Modules) \ {imports[p]} : imports' = [imports EXCEPT ![p] = ms]
  /\ settled' = settled \ {p}
  /\ UNCHANGED <<tags, manifest, sum, cache, job, torn, raced, owed, commands, kills>>

Publish(m) ==
  /\ tags' = [tags EXCEPT ![m] = Versions]
  /\ tags' # tags
  /\ UNCHANGED <<imports, manifest, sum, cache, job, history, commands, kills>>

Step(p) ==
  \/ FetchHit(p) \/ FetchMiss(p) \/ StoreBegins(p) \/ StoreCopies(p) \/ StoreEnds(p)
  \/ FetchFails(p) \/ AddEdits(p) \/ PickNext(p) \/ UpdateEdits(p) \/ UpdateWrites(p)
  \/ TidyAdds(p) \/ GraphBegins(p) \/ GraphVisits(p) \/ GraphExpands(p) \/ TidyResolves(p)
  \/ WriteMod(p) \/ WriteSum(p)

Next ==
  \/ \E p \in Projects :
       \/ \E m \in Modules, v \in Versions : AddBegins(p, m, v)
       \/ \E ms \in SUBSET Modules : UpdateBegins(p, ms)
       \/ \E m \in Modules : RemoveBegins(p, m)
       \/ TidyBegins(p)
       \/ Step(p)
       \/ Kill(p)
       \/ EditImports(p)
  \/ \E m \in Modules : Publish(m)

Spec == Init /\ [][Next]_vars

-----------------------------------------------------------------------------
(* Properties *)

Stages == {"idle", "fetch", "clone", "copy", "fetched", "pick", "graph", "writeMod", "writeSum"}

\* Every variable has its type, and the two files have one entry per key.
TypeOK ==
  /\ \A p \in Projects :
       /\ manifest[p] \subseteq Require /\ job[p].draft \subseteq Require
       /\ \A r, s \in manifest[p] : r.path = s.path => r = s
       /\ \A e, f \in sum[p] : e[1] = f[1] => e = f
       /\ \A e \in sum[p] : e[1] \in Keys /\ e[2] \subseteq Contents[e[1][1]]
       /\ job[p].at \in Stages /\ job[p].want \in Keys
  /\ \A k \in Keys : files[k] \subseteq Contents[k[1]] /\ (k \notin dirs => files[k] = {})

\* What gala mod verify compares (mod_verify.go:66): it reports a cached module
\* as changed only if the hash was taken while another process stored it.
VerifyBlamesOnlyRaces ==
  \A p \in Projects : \A e \in sum[p] :
    (e[1] \in dirs /\ e[2] # Hash(e[1])) => <<p, e[1]>> \in raced

\* A hash in gala.sum covers the whole module, unless a process that stored it
\* was killed or failed between two files, or another one was still storing it:
\* the directory it leaves counts as cached (cache.go:91, git.go:32).
SumCoversTheModule ==
  \A p \in Projects : \A e \in sum[p] :
    e[2] = Contents[e[1][1]] \/ e[1] \in torn \/ <<p, e[1]>> \in raced

\* Between commands, every requirement has its entry in gala.sum, except where
\* a command ended between the two writes or tidy could not fetch or hash it.
SumCoversTheManifest ==
  \A p \in Projects : \A r \in manifest[p] :
    \/ \E e \in sum[p] : e[1] = KeyOf(r)
    \/ job[p].at = "writeSum" \/ <<p, KeyOf(r)>> \in owed

\* tidy leaves a project alone that it has just tidied: the versions it chose
\* choose themselves again (mod_tidy.go:139).
TidySettles ==
  [][\A p \in Projects :
       p \in settled /\ job[p].whole /\ ~(kills' > kills) => manifest'[p] = manifest[p]]_vars

\* tidy never drops what the sources import, and every version it writes is at
\* least what the project and everything it fetched whole require.
TidyKeepsWhatIsUsed ==
  [][\A p \in Projects :
       Runs(p, "tidy", "writeMod") /\ job'[p].at = "writeSum" =>
         /\ \A r \in manifest[p] :
              r.path \in imports[p] => \E s \in manifest'[p] :
                s.path = r.path /\ s.version >= r.version
         /\ \A s \in manifest'[p] : \A t \in manifest'[p] : \A k \in Requires[KeyOf(t)] :
              GalaMod \in files[KeyOf(t)] /\ job[p].whole /\ k[1] = s.path
                => s.version >= k[2]]_vars

\* What gala mod tidy promises (mod_tidy.go:24): it removes only requirements
\* whose module no import belongs to.
TidyRemovesOnlyUnused ==
  [][\A p \in Projects :
       Runs(p, "tidy", "writeMod") /\ job'[p].at = "writeSum" =>
         \A r \in manifest[p] :
           (\E m \in imports[p] : Provider[m] = r.path) =>
             \E s \in manifest'[p] : s.path = r.path]_vars

\* Every variable has its type, and gala.mod, gala.sum and the cache agree:
\* verify blames nothing but a race, and what is required has its sums
\* (mod_add.go:45, fetch/cache.go:91).
SumsAreRight == TypeOK /\ VerifyBlamesOnlyRaces /\ SumCoversTheModule /\ SumCoversTheManifest

\* Tidy keeps what is used, and a second tidy changes nothing (mod_tidy.go:34).
TidyIsRight == TidySettles /\ TidyKeepsWhatIsUsed
=============================================================================
