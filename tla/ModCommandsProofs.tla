-------------------------- MODULE ModCommandsProofs --------------------------
(***************************************************************************)
(* Proofs about module ModCommands, for any projects, modules, versions and *)
(* requirements, any number of commands at once and any number of kills:   *)
(* what gala.mod, gala.sum and the cache owe each other, and what tidy does *)
(* to the versions.                                                        *)
(***************************************************************************)
EXTENDS ModCommands, WellFoundedInduction, TLAPS

-----------------------------------------------------------------------------
(* The inductive invariant.                                                 *)

\* The values that the variables have.
AllFiles == UNION {Contents[m] : m \in Modules}
Commands == {"none", "add", "update", "remove", "tidy"}
Fetching == {"fetch", "clone", "copy", "fetched"}
Writing == {"writeMod", "writeSum"}
Job == [cmd : Commands, at : Stages, want : Keys, left : SUBSET AllFiles, got : SUBSET AllFiles,
        draft : SUBSET Require, ledger : SUBSET (Keys \X SUBSET AllFiles), todo : SUBSET Modules,
        frontier : SUBSET Keys, visited : SUBSET Keys, edges : SUBSET (Modules \X Modules),
        whole : BOOLEAN]

Whole(k) == files[k] = Contents[k[1]]
OnePerPath(reqs) == \A r, s \in reqs : r.path = s.path => r = s
OnePerKey(entries) == \A e, f \in entries : e[1] = f[1] => e = f

\* What all projects share: a directory is whole, or somebody copies into it, or
\* was killed doing so.
Storing(k) == \E q \in Projects : job[q].at \in {"clone", "copy"} /\ job[q].want = k
SharedOK ==
  /\ tags \in [Modules -> SUBSET Versions] /\ \A m \in Modules : tags[m] # {}
  /\ imports \in [Projects -> SUBSET Modules] /\ manifest \in [Projects -> SUBSET Require]
  /\ sum \in [Projects -> SUBSET (Keys \X SUBSET AllFiles)] /\ job \in [Projects -> Job]
  /\ dirs \subseteq Keys /\ files \in [Keys -> SUBSET AllFiles]
  /\ \A k \in Keys : files[k] \subseteq Contents[k[1]] /\ (k \notin dirs => files[k] = {})
  /\ \A k \in dirs :
       Whole(k) \/ k \in torn \/ \E q \in Projects : job[q].at = "copy" /\ job[q].want = k

\* Which commands have which steps, and what is left to copy.
StepsOK(p) ==
  /\ OnePerPath(manifest[p]) /\ OnePerPath(job[p].draft)
  /\ job[p].at \in Fetching => job[p].cmd \in {"add", "update", "tidy"}
  /\ job[p].at = "idle" => job[p].cmd = "none"
  /\ job[p].at = "pick" => job[p].cmd \in {"update", "tidy"}
  /\ job[p].at = "graph" => job[p].cmd = "tidy"
  /\ job[p].at \in Writing => job[p].cmd # "none"
  /\ job[p].at = "copy" => /\ job[p].want \in dirs
                           /\ job[p].left \cup files[job[p].want] = Contents[job[p].want[1]]

\* A hash that p has of k: unless it was taken in a race it is still that of the
\* directory, into which nobody copies any more.
HashOK(p, k, hash) ==
  /\ k \in dirs /\ hash \subseteq Contents[k[1]]
  /\ \/ <<p, k>> \in raced
     \/ hash = files[k] /\ ~Storing(k) /\ (Whole(k) \/ k \in torn)
HashesOK(p) ==
  /\ OnePerKey(sum[p]) /\ \A e \in sum[p] : HashOK(p, e[1], e[2])
  /\ OnePerKey(job[p].ledger) /\ \A e \in job[p].ledger : HashOK(p, e[1], e[2])
  /\ job[p].at = "fetched" \/ (job[p].cmd = "add" /\ job[p].at \in Writing) =>
       HashOK(p, job[p].want, job[p].got)

\* What will be in gala.mod has its entry in what will be gala.sum.
Has(p, entries, r) == (\E e \in entries : e[1] = KeyOf(r)) \/ <<p, KeyOf(r)>> \in owed
CoverOK(p) ==
  /\ job[p].at # "writeSum" => \A r \in manifest[p] : Has(p, sum[p], r)
  /\ job[p].at = "writeSum" => manifest[p] = job[p].draft
  /\ job[p].cmd = "add" =>
       \A r \in job[p].draft : \/ Has(p, sum[p], r)
                               \/ job[p].at \in Writing /\ KeyOf(r) = job[p].want
  /\ job[p].cmd = "remove" =>
       \A r \in job[p].draft : Has(p, sum[p], r) /\ r.path # job[p].want[1]
  /\ job[p].cmd = "update" =>
       /\ \A r \in job[p].draft : Has(p, job[p].ledger, r)
       /\ \A m \in job[p].todo : Required(job[p].draft, m) # {}
       /\ job[p].at \in Fetching => Required(job[p].draft, job[p].want[1]) # {}

\* The draft of tidy: the imports and the requirements that are kept.
DraftOK(p) ==
  job[p].cmd = "tidy" =>
    /\ \A m \in job[p].todo : m \in imports[p] /\ Required(manifest[p], m) = {}
    /\ job[p].at \in Fetching /\ job[p].frontier = {} =>
         job[p].want[1] \in imports[p] /\ Required(manifest[p], job[p].want[1]) = {}
    /\ \A r \in job[p].draft : r.path \in imports[p] \/ r.go
    /\ \A r \in manifest[p] : r.path \in imports[p] =>
         \E s \in job[p].draft : s.path = r.path /\ s.version >= r.version
    /\ job[p].whole => \A m \in imports[p] :
         \/ m \in job[p].todo \/ Required(job[p].draft, m) # {}
         \/ job[p].at \in Fetching /\ job[p].frontier = {} /\ m = job[p].want[1]

\* The graph of tidy: what was visited is whole and its requirements are there,
\* unless it is being fetched; what is written is the greatest of each path.
AtMost(keys, r) == \A k \in keys : k[1] = r.path => k[2] <= r.version
GraphOK(p) ==
  job[p].cmd = "tidy" =>
    /\ job[p].frontier = {} => job[p].visited = {}
    /\ job[p].frontier # {} => job[p].todo = {} /\ \A r \in job[p].draft : KeyOf(r) \in job[p].frontier
    /\ job[p].at \in Fetching /\ job[p].frontier # {} => job[p].want \in job[p].frontier
    /\ job[p].at = "pick" => job[p].frontier = {}
    /\ job[p].at = "graph" => job[p].frontier # {}
    /\ job[p].at = "fetched" /\ job[p].whole => Whole(job[p].want)
    /\ job[p].whole => \A k \in job[p].visited :
         \/ job[p].at \in Fetching /\ k = job[p].want
         \/ Whole(k) /\ (GalaMod \in files[k] => Requires[k] \subseteq job[p].frontier)
    /\ job[p].at \in Writing =>
         /\ job[p].todo = {} /\ job[p].frontier \subseteq job[p].visited
         /\ \A r \in job[p].draft : KeyOf(r) \in job[p].frontier /\ AtMost(job[p].frontier, r)

\* A project that has just been tidied: its versions are the greatest of a set of
\* whole modules that has what each of them requires, and a tidy under way has
\* found nothing else.
Closed(keys) ==
  \A k \in keys : Whole(k) /\ (GalaMod \in files[k] => Requires[k] \subseteq keys)
SettledOK(p) ==
  p \in settled =>
    /\ job[p].cmd \in {"none", "tidy"}
    /\ \A r \in manifest[p] : r.path \in imports[p] \/ r.go
    /\ \A m \in imports[p] : Required(manifest[p], m) # {}
    /\ job[p].cmd = "tidy" => /\ job[p].draft = manifest[p] /\ job[p].todo = {}
                              /\ job[p].at \in Fetching => job[p].frontier # {}
    /\ \E keys \in SUBSET Keys :
         /\ Closed(keys) /\ job[p].frontier \subseteq keys
         /\ \A r \in manifest[p] : KeyOf(r) \in keys /\ AtMost(keys, r)

ProjectOK(p) ==
  StepsOK(p) /\ HashesOK(p) /\ CoverOK(p) /\ DraftOK(p) /\ GraphOK(p) /\ SettledOK(p)
IInv == SharedOK /\ \A p \in Projects : ProjectOK(p)

-----------------------------------------------------------------------------
(* What the steps of one project leave of the others.                       *)

\* The cache only grows, and where nobody is storing nothing changes any more.
Grows ==
  /\ dirs \subseteq dirs' /\ torn \subseteq torn' /\ raced \subseteq raced'
  /\ \A k \in Keys : files[k] \subseteq files'[k] /\ files'[k] \subseteq Contents[k[1]]
  /\ \A k \in dirs : ~Storing(k) => ~Storing(k)' /\ files'[k] = files[k]

\* The project takes no step of its own.
Rests(q) ==
  /\ job'[q] = job[q] /\ manifest'[q] = manifest[q] /\ sum'[q] = sum[q]
  /\ imports'[q] = imports[q] /\ (q \in settled' => q \in settled)
  /\ \A k \in Keys : <<q, k>> \in owed => <<q, k>> \in owed'

\* The key of a requirement is a key.
LEMMA KeyOfRequire == \A r \in Require : KeyOf(r) \in Keys
  BY DEF Require, KeyOf, Keys

\* The greatest of some versions is one of them.
LEMMA LatestIs ==
  ASSUME NEW vs \in SUBSET Versions, vs # {}
  PROVE  Latest(vs) \in vs /\ \A w \in vs : w <= Latest(vs)
<1> DEFINE gaps == {MaxVersion - v : v \in vs}
<1>1. MaxVersion \in Nat
  BY ConstantsAssumption
<1>2. gaps \in SUBSET Nat /\ gaps # {}
  <2>1. \A v \in vs : v \in Nat /\ v <= MaxVersion
    BY <1>1 DEF Versions
  <2>2. gaps \subseteq Nat
    BY <1>1, <2>1
  <2> QED
    BY <2>2
<1>3. PICK n \in gaps : \A m \in gaps : n <= m
  <2>1. PICK n \in gaps : \A m \in gaps : <<m, n>> \notin OpToRel(<, Nat)
    BY <1>2, NatLessThanWellFounded, WFMin
  <2>2. \A m \in gaps : ~(m < n)
    <3>1. ASSUME NEW m \in gaps, m < n PROVE <<m, n>> \in OpToRel(<, Nat)
      <4>1. <<m, n>> \in Nat \X Nat /\ <<m, n>>[1] < <<m, n>>[2]
        BY <1>2, <3>1
      <4> QED
        BY <4>1, Zenon DEF OpToRel
    <3> QED
      BY <2>1, <3>1
  <2>3. \A m \in gaps : m \in Nat
    BY <1>2
  <2>4. n \in Nat
    BY <2>3
  <2>5. ASSUME NEW m \in gaps PROVE n <= m
    <3>1. m \in Nat /\ ~(m < n)
      BY <2>2, <2>3
    <3> HIDE DEF gaps
    <3> QED
      BY <2>4, <3>1
  <2> QED
    BY <2>5
<1>4. PICK v \in vs : n = MaxVersion - v
  OBVIOUS
<1>5. ASSUME NEW w \in vs PROVE w <= v
  <2>1. n <= MaxVersion - w
    BY <1>3
  <2> QED
    BY <1>1, <1>4, <2>1 DEF Versions
<1> QED
  BY <1>5 DEF Latest

\* Growing files keep a hash right: what is whole stays, what is torn or raced
\* stays so.
LEMMA HashGrows ==
  ASSUME Grows, NEW p, NEW k \in Keys, NEW hash, HashOK(p, k, hash)
  PROVE  HashOK(p, k, hash)'
  BY DEF Grows, HashOK, Whole

\* A whole module stays as it is.
LEMMA WholeGrows ==
  ASSUME Grows, NEW k \in Keys, Whole(k)
  PROVE  Whole(k)' /\ files'[k] = files[k]
  BY DEF Grows, Whole

\* A step of p that writes nothing but its own job, and leaves no directory
\* half stored without saying so.
Quiet(p) ==
  /\ UNCHANGED <<tags, imports, manifest, sum, dirs, files, raced, owed>>
  /\ torn \subseteq torn'
  /\ settled' = settled \/ settled' = settled \ {p}
  /\ job' = [job EXCEPT ![p] = job'[p]] /\ job'[p] \in Job
  /\ job[p].at = "copy" => Whole(job[p].want) \/ job[p].want \in torn'
  /\ job'[p].at # "copy"
  /\ job'[p].at = "clone" => job'[p].want \notin dirs

\* The frame: what is known of a project survives any step that leaves its own
\* variables alone and only adds files.
LEMMA OthersKeep ==
  ASSUME SharedOK, Grows, NEW q \in Projects, Rests(q), ProjectOK(q)
  PROVE  ProjectOK(q)'
<1>1. job[q] \in Job /\ job[q].want \in Keys
  BY DEF SharedOK, Job
<1>2. sum[q] \subseteq Keys \X SUBSET AllFiles /\ job[q].ledger \subseteq Keys \X SUBSET AllFiles
  BY <1>1 DEF SharedOK, Job
<1>3. StepsOK(q)'
  <2>1. job[q].at = "copy" => /\ job[q].want \in dirs'
                              /\ job[q].left \cup files'[job[q].want] = Contents[job[q].want[1]]
    BY <1>1 DEF ProjectOK, StepsOK, Grows
  <2> QED
    BY <2>1 DEF ProjectOK, StepsOK, Rests, OnePerPath
<1>4. HashesOK(q)'
  <2>1. ASSUME NEW e \in sum[q] PROVE HashOK(q, e[1], e[2])'
    <3>1. e[1] \in Keys /\ HashOK(q, e[1], e[2])
      BY <1>2 DEF ProjectOK, HashesOK
    <3> QED
      BY <3>1, HashGrows
  <2>2. ASSUME NEW e \in job[q].ledger PROVE HashOK(q, e[1], e[2])'
    <3>1. e[1] \in Keys /\ HashOK(q, e[1], e[2])
      BY <1>2 DEF ProjectOK, HashesOK
    <3> QED
      BY <3>1, HashGrows
  <2>3. ASSUME HashOK(q, job[q].want, job[q].got) PROVE HashOK(q, job[q].want, job[q].got)'
    <3>1. PICK k \in Keys, h \in {job[q].got} : k = job[q].want /\ h = job[q].got
      BY <1>1
    <3>2. HashOK(q, k, h)'
      BY <2>3, <3>1, HashGrows
    <3>3. job'[q].want = k /\ job'[q].got = h
      BY <3>1 DEF Rests
    <3>4. HashOK(q, job[q].want, job[q].got)' <=> HashOK(q, k, h)'
      BY <3>3 DEF HashOK, Whole, Storing
    <3> QED
      BY <3>2, <3>4
  <2> QED
    BY <2>1, <2>2, <2>3 DEF ProjectOK, HashesOK, Rests, OnePerKey
<1>5. CoverOK(q)'
  <2>1. ASSUME NEW r \in Require, NEW entries, Has(q, entries, r) PROVE Has(q, entries, r)'
    BY <2>1, KeyOfRequire DEF Rests, Has
  <2>2. manifest[q] \subseteq Require /\ job[q].draft \subseteq Require
    BY <1>1 DEF SharedOK, Job
  <2> QED
    BY <2>1, <2>2 DEF ProjectOK, CoverOK, Rests, Has
<1>6. DraftOK(q)'
  BY DEF ProjectOK, DraftOK, Rests
<1>7. GraphOK(q)'
  <2>1. \A k \in job[q].visited : k \in Keys
    BY <1>1 DEF Job
  <2>2. \A k \in Keys : Whole(k) => Whole(k)' /\ files'[k] = files[k]
    BY WholeGrows
  <2> QED
    BY <1>1, <2>1, <2>2 DEF ProjectOK, GraphOK, Rests, Whole, AtMost
<1>8. SettledOK(q)'
  <2>1. \A keys \in SUBSET Keys : Closed(keys) => Closed(keys)'
    BY WholeGrows DEF Closed
  <2> QED
    BY <2>1 DEF ProjectOK, SettledOK, Rests, AtMost
<1> QED
  BY <1>3, <1>4, <1>5, <1>6, <1>7, <1>8 DEF ProjectOK

\* A step that only changes one project's job, storing nothing, keeps what is
\* known of the others.
LEMMA QuietStep ==
  ASSUME IInv, NEW p \in Projects, Quiet(p)
  PROVE  /\ SharedOK' /\ Grows
         /\ \A q \in Projects : q # p => ProjectOK(q)'
<1>1. job \in [Projects -> Job]
  BY DEF IInv, SharedOK
<1>2. \A q \in Projects : q # p => job'[q] = job[q]
  BY <1>1 DEF Quiet
<1>3. SharedOK'
  <2>1. ASSUME NEW k \in dirs', ~Whole(k)', k \notin torn'
        PROVE  \E q \in Projects : job'[q].at = "copy" /\ job'[q].want = k
    <3>1. k \in dirs /\ ~Whole(k) /\ k \notin torn
      BY <2>1 DEF Quiet, Whole
    <3>2. PICK q \in Projects : job[q].at = "copy" /\ job[q].want = k
      BY <3>1 DEF IInv, SharedOK
    <3>3. q # p
      BY <2>1, <3>1, <3>2 DEF Quiet
    <3> QED
      BY <1>2, <3>2, <3>3
  <2>2. job' \in [Projects -> Job]
    BY <1>1 DEF Quiet
  <2> QED
    BY <2>1, <2>2 DEF IInv, SharedOK, Quiet, Whole
<1>4. Grows
  <2>1. ASSUME NEW k \in dirs, ~Storing(k) PROVE ~Storing(k)'
    BY <1>2, <2>1 DEF Quiet, Storing
  <2>2. \A k \in Keys : files[k] \subseteq Contents[k[1]]
    BY DEF IInv, SharedOK
  <2> QED
    BY <2>1, <2>2 DEF Grows, Quiet
<1>5. ASSUME NEW q \in Projects, q # p PROVE ProjectOK(q)'
  <2>1. Rests(q)
    BY <1>2, <1>5 DEF Rests, Quiet
  <2> QED
    BY <1>4, <2>1, OthersKeep DEF IInv
<1> QED
  BY <1>3, <1>4, <1>5

\* The types of a project's variables, for citing.
LEMMA Types ==
  ASSUME IInv, NEW p \in Projects
  PROVE  /\ job[p] \in Job /\ manifest[p] \in SUBSET Require /\ imports[p] \in SUBSET Modules
         /\ sum[p] \in SUBSET (Keys \X SUBSET AllFiles)
         /\ DOMAIN job = Projects /\ job \in [Projects -> Job]
         /\ StepsOK(p) /\ HashesOK(p) /\ CoverOK(p) /\ DraftOK(p) /\ GraphOK(p) /\ SettledOK(p)
  BY DEF IInv, SharedOK, ProjectOK

\* What is left to show of a quiet step is what the new job has to be.
LEMMA QuietEnough ==
  ASSUME IInv, NEW p \in Projects, Quiet(p),
         StepsOK(p)', CoverOK(p)', DraftOK(p)', GraphOK(p)', SettledOK(p)',
         OnePerKey(job'[p].ledger), \A e \in job'[p].ledger : HashOK(p, e[1], e[2]),
         job'[p].at # "fetched",
         job'[p].cmd = "add" /\ job'[p].at \in Writing => HashOK(p, job'[p].want, job'[p].got)
  PROVE  IInv'
<1>1. SharedOK' /\ Grows /\ \A q \in Projects : q # p => ProjectOK(q)'
  BY QuietStep
<1>2. /\ sum[p] \subseteq Keys \X SUBSET AllFiles /\ HashesOK(p) /\ sum'[p] = sum[p]
      /\ job'[p] \in Job
  BY Types DEF Quiet
<1>3. HashesOK(p)'
  <2>1. ASSUME NEW e \in sum[p] PROVE HashOK(p, e[1], e[2])'
    BY <1>1, <1>2, HashGrows DEF HashesOK
  <2>2. ASSUME NEW e \in job'[p].ledger PROVE HashOK(p, e[1], e[2])'
    <3>1. e[1] \in Keys
      BY <1>2 DEF Job
    <3> QED
      BY <1>1, <3>1, HashGrows
  <2>3. ASSUME job'[p].cmd = "add", job'[p].at \in Writing
        PROVE  HashOK(p, job[p].want, job[p].got)'
    <3>1. PICK k \in Keys, h \in {job'[p].got} : k = job'[p].want /\ h = job'[p].got
      BY <1>2 DEF Job
    <3>2. HashOK(p, k, h)'
      BY <1>1, <2>3, <3>1, HashGrows
    <3> QED
      BY <3>1, <3>2 DEF HashOK, Whole, Storing
  <2> QED
    BY <1>2, <2>1, <2>2, <2>3 DEF HashesOK
<1>4. ProjectOK(p)'
  BY <1>3 DEF ProjectOK
<1> QED
  BY <1>1, <1>4 DEF IInv

-----------------------------------------------------------------------------
(* A command starts.                                                        *)

\* An idle command is a job.
LEMMA IdleJob == Idle \in Job /\ Nothing \in Keys
<1>1. Nothing \in Keys
  <2>1. PICK m \in Modules : TRUE
    BY ConstantsAssumption
  <2>2. FirstTags[m] \in SUBSET Versions /\ FirstTags[m] # {}
    BY <2>1, ConstantsAssumption
  <2>3. PICK v \in Versions : TRUE
    BY <2>2
  <2>4. <<m, v>> \in Keys
    BY <2>1, <2>3 DEF Keys
  <2> QED
    BY <2>4 DEF Nothing
<1> QED
  BY <1>1 DEF Idle, Job, Commands, Stages

\* add wants one published version and starts from the manifest as it is.
LEMMA AddBeginsKeeps ==
  ASSUME IInv, NEW p \in Projects, NEW m \in Modules, NEW v \in Versions, AddBegins(p, m, v)
  PROVE  IInv'
<1> USE DEF KeyOf
<1>1. job[p].at = "idle" /\ job[p].cmd = "none"
  BY Types DEF AddBegins, Start, StepsOK
<1>2. job'[p] = [Idle EXCEPT !.cmd = "add", !.at = "fetch", !.want = <<m, v>>, !.draft = manifest[p]]
  BY Types DEF AddBegins
<1>3. job'[p] \in Job /\ job'[p].cmd = "add" /\ job'[p].at = "fetch" /\ job'[p].want = <<m, v>>
      /\ job'[p].draft = manifest[p] /\ job'[p].ledger = {} /\ job'[p].frontier = {}
  <2>1. PICK draft \in SUBSET Require, k \in Keys : draft = manifest[p] /\ k = <<m, v>>
    BY Types DEF Keys
  <2>2. PICK j \in Job : j = Idle /\ j.ledger = {} /\ j.frontier = {}
    BY IdleJob DEF Idle
  <2> DEFINE i == [j EXCEPT !.cmd = "add", !.at = "fetch", !.want = k, !.draft = draft]
  <2>3. i \in Job /\ i.cmd = "add" /\ i.at = "fetch" /\ i.want = k /\ i.draft = draft
        /\ i.ledger = j.ledger /\ i.frontier = j.frontier
    BY DEF Job, Commands, Stages
  <2>4. job'[p] = i
    BY <1>2, <2>1, <2>2
  <2> QED
    BY <2>1, <2>2, <2>3, <2>4
<1>4. Quiet(p)
  BY <1>1, <1>3, Types DEF Quiet, AddBegins, world, cache
<1>5. p \notin settled'
  BY DEF AddBegins
<1>6. StepsOK(p)' /\ DraftOK(p)' /\ GraphOK(p)' /\ SettledOK(p)'
  BY <1>3, <1>4, <1>5, Types DEF Quiet, StepsOK, DraftOK, GraphOK, SettledOK, Writing, Fetching, OnePerPath
<1>7. CoverOK(p)'
  BY <1>1, <1>3, <1>4, Types DEF Quiet, CoverOK, Has, Writing
<1> QED
  BY <1>3, <1>4, <1>6, <1>7, QuietEnough DEF Writing, OnePerKey

\* update starts from the manifest and the sums as they are, with required
\* modules to do.
LEMMA UpdateBeginsKeeps ==
  ASSUME IInv, NEW p \in Projects, NEW ms \in SUBSET Modules, UpdateBegins(p, ms)
  PROVE  IInv'
<1> DEFINE wanted == {m \in ms : Required(manifest[p], m) # {}}
<1>1. job[p].at = "idle" /\ job[p].cmd = "none"
  BY Types DEF UpdateBegins, Start, StepsOK
<1>2. job'[p] = [Idle EXCEPT !.cmd = "update", !.at = "pick", !.draft = manifest[p],
                              !.ledger = sum[p], !.todo = wanted]
  BY Types DEF UpdateBegins
<1>3. job'[p] \in Job /\ job'[p].cmd = "update" /\ job'[p].at = "pick"
      /\ job'[p].draft = manifest[p] /\ job'[p].ledger = sum[p] /\ job'[p].todo = wanted
  <2>1. PICK draft \in SUBSET Require, ledger \in SUBSET (Keys \X SUBSET AllFiles),
             todo \in SUBSET Modules : draft = manifest[p] /\ ledger = sum[p] /\ todo = wanted
    BY Types
  <2>2. PICK j \in Job : j = Idle
    BY IdleJob
  <2> HIDE DEF wanted
  <2> DEFINE i == [j EXCEPT !.cmd = "update", !.at = "pick", !.draft = draft,
                            !.ledger = ledger, !.todo = todo]
  <2>3. i \in Job /\ i.cmd = "update" /\ i.at = "pick" /\ i.draft = draft
        /\ i.ledger = ledger /\ i.todo = todo
    BY DEF Job, Commands, Stages
  <2>4. job'[p] = i
    BY <1>2, <2>1, <2>2
  <2> QED
    BY <2>1, <2>3, <2>4
<1>4. Quiet(p)
  BY <1>1, <1>3, Types DEF Quiet, UpdateBegins, world, cache
<1>5. p \notin settled'
  BY DEF UpdateBegins
<1>6. StepsOK(p)' /\ DraftOK(p)' /\ GraphOK(p)' /\ SettledOK(p)'
  BY <1>3, <1>4, <1>5, Types DEF Quiet, StepsOK, DraftOK, GraphOK, SettledOK, Writing, Fetching, OnePerPath
<1>7. CoverOK(p)'
  BY <1>1, <1>3, <1>4, Types DEF Quiet, CoverOK, Has, Writing, Fetching, Required
<1>8. OnePerKey(sum[p]) /\ \A e \in sum[p] : HashOK(p, e[1], e[2])
  BY Types DEF HashesOK
<1> QED
  BY <1>3, <1>4, <1>6, <1>7, <1>8, QuietEnough DEF Writing

\* remove drops the path from the draft, and wants its key to drop the sums.
LEMMA RemoveBeginsKeeps ==
  ASSUME IInv, NEW p \in Projects, NEW m \in Modules, RemoveBegins(p, m)
  PROVE  IInv'
<1>1. job[p].at = "idle" /\ job[p].cmd = "none"
  BY Types DEF RemoveBegins, Start, StepsOK
<1>2. PICK k \in Keys : /\ k = KeyOf(CHOOSE r \in Required(manifest[p], m) : TRUE)
                        /\ k[1] = m
  <2>1. PICK r \in Required(manifest[p], m) : r = CHOOSE s \in Required(manifest[p], m) : TRUE
    BY DEF RemoveBegins
  <2>2. r \in Require /\ r.path = m
    BY <2>1, Types DEF Required
  <2> QED
    BY <2>1, <2>2, KeyOfRequire DEF KeyOf
<1>3. job'[p] = [Idle EXCEPT !.cmd = "remove", !.at = "writeMod", !.want = k,
                              !.draft = RemoveRequire(manifest[p], m)]
  BY <1>2, Types DEF RemoveBegins
<1>4. job'[p] \in Job /\ job'[p].cmd = "remove" /\ job'[p].at = "writeMod"
      /\ job'[p].want = k /\ job'[p].draft = RemoveRequire(manifest[p], m) /\ job'[p].ledger = {}
  <2>1. PICK draft \in SUBSET Require : draft = RemoveRequire(manifest[p], m)
    BY Types DEF RemoveRequire
  <2>2. PICK j \in Job : j = Idle /\ j.ledger = {}
    BY IdleJob DEF Idle
  <2> DEFINE i == [j EXCEPT !.cmd = "remove", !.at = "writeMod", !.want = k, !.draft = draft]
  <2>3. i \in Job /\ i.cmd = "remove" /\ i.at = "writeMod" /\ i.want = k
        /\ i.draft = draft /\ i.ledger = j.ledger
    BY DEF Job, Commands, Stages
  <2>4. job'[p] = i
    BY <1>3, <2>1, <2>2
  <2> QED
    BY <2>1, <2>2, <2>3, <2>4
<1>5. Quiet(p)
  BY <1>1, <1>4, Types DEF Quiet, RemoveBegins, world, cache
<1>6. p \notin settled'
  BY DEF RemoveBegins
<1>7. StepsOK(p)' /\ DraftOK(p)' /\ GraphOK(p)' /\ SettledOK(p)'
  BY <1>4, <1>5, <1>6, Types
  DEF Quiet, StepsOK, DraftOK, GraphOK, SettledOK, Writing, Fetching, OnePerPath, RemoveRequire
<1>8. CoverOK(p)'
  BY <1>1, <1>2, <1>4, <1>5, Types DEF Quiet, CoverOK, Has, Writing, Fetching, Required, RemoveRequire
<1> QED
  BY <1>4, <1>5, <1>7, <1>8, QuietEnough DEF OnePerKey

\* tidy keeps what is imported and what is Go; of a settled project, all.
LEMMA TidyBeginsKeeps ==
  ASSUME IInv, NEW p \in Projects, TidyBegins(p)
  PROVE  IInv'
<1> DEFINE kept == {r \in manifest[p] : r.path \in imports[p] \/ r.go}
           missing == {m \in imports[p] : Required(manifest[p], m) = {}}
<1>1. job[p].at = "idle" /\ job[p].cmd = "none"
  BY Types DEF TidyBegins, Start, StepsOK
<1>2. job'[p] = [Idle EXCEPT !.cmd = "tidy", !.at = "pick", !.draft = kept, !.todo = missing]
  BY Types DEF TidyBegins
<1>3. job'[p] \in Job /\ job'[p].cmd = "tidy" /\ job'[p].at = "pick" /\ job'[p].draft = kept
      /\ job'[p].todo = missing /\ job'[p].ledger = {} /\ job'[p].whole
      /\ job'[p].frontier = {} /\ job'[p].visited = {}
  <2>1. PICK draft \in SUBSET Require, todo \in SUBSET Modules : draft = kept /\ todo = missing
    BY Types
  <2>2. PICK j \in Job : j = Idle /\ j.ledger = {} /\ j.whole /\ j.frontier = {} /\ j.visited = {}
    BY IdleJob DEF Idle
  <2> HIDE DEF kept, missing
  <2> DEFINE i == [j EXCEPT !.cmd = "tidy", !.at = "pick", !.draft = draft, !.todo = todo]
  <2>3. i \in Job /\ i.cmd = "tidy" /\ i.at = "pick" /\ i.draft = draft /\ i.todo = todo
        /\ i.ledger = j.ledger /\ i.whole = j.whole /\ i.frontier = j.frontier
        /\ i.visited = j.visited
    BY DEF Job, Commands, Stages
  <2>4. job'[p] = i
    BY <1>2, <2>1, <2>2
  <2> QED
    BY <2>1, <2>2, <2>3, <2>4
<1>4. Quiet(p) /\ settled' = settled
  BY <1>1, <1>3, Types DEF Quiet, TidyBegins, world, cache, history
<1>5. StepsOK(p)'
  BY <1>3, <1>4, Types DEF Quiet, StepsOK, Writing, Fetching, OnePerPath
<1>6. CoverOK(p)'
  BY <1>1, <1>3, <1>4, Types DEF Quiet, CoverOK, Has
<1>7. DraftOK(p)'
  <2>1. \A r \in manifest[p] : r.version \in Nat
    BY Types DEF Require, Versions
  <2> QED
    BY <1>3, <1>4, <2>1, Types DEF Quiet, DraftOK, Required, Fetching
<1>8. GraphOK(p)'
  BY <1>3, <1>4 DEF GraphOK, Writing, Fetching
<1>9. ASSUME p \in settled' PROVE SettledOK(p)'
  <2>1. /\ \A r \in manifest[p] : r.path \in imports[p] \/ r.go
        /\ \A m \in imports[p] : Required(manifest[p], m) # {}
    BY <1>4, <1>9, Types DEF SettledOK
  <2>2. PICK keys \in SUBSET Keys :
          Closed(keys) /\ \A r \in manifest[p] : KeyOf(r) \in keys /\ AtMost(keys, r)
    BY <1>4, <1>9, Types DEF SettledOK
  <2>3. Closed(keys)'
    BY <1>4, <2>2 DEF Quiet, Closed, Whole
  <2>4. kept = manifest[p] /\ missing = {}
    BY <2>1
  <2> QED
    BY <1>3, <1>4, <2>1, <2>2, <2>3, <2>4 DEF Quiet, SettledOK, AtMost, Fetching
<1>10. SettledOK(p)'
  BY <1>9 DEF SettledOK
<1> QED
  BY <1>3, <1>4, <1>5, <1>6, <1>7, <1>8, <1>10, QuietEnough DEF OnePerKey

-----------------------------------------------------------------------------
(* A command takes a step that writes nothing but its own state.            *)

\* What a command has hashed so far is right.
LEMMA LedgerIs ==
  ASSUME IInv, NEW p \in Projects
  PROVE  OnePerKey(job[p].ledger) /\ \A e \in job[p].ledger : HashOK(p, e[1], e[2])
  BY Types DEF HashesOK

\* A project stays settled when its tidy finds nothing that was not there.
LEMMA QuietSettled ==
  ASSUME IInv, NEW p \in Projects, Quiet(p),
         p \in settled' =>
           /\ job'[p].cmd \in {"none", "tidy"}
           /\ job'[p].cmd = "tidy" => /\ job'[p].draft = manifest[p] /\ job'[p].todo = {}
                                      /\ job'[p].at \in Fetching => job'[p].frontier # {}
           /\ \A keys \in SUBSET Keys :
                Closed(keys) /\ job[p].frontier \subseteq keys
                  /\ (\A r \in manifest[p] : KeyOf(r) \in keys /\ AtMost(keys, r))
                  => job'[p].frontier \subseteq keys
  PROVE  SettledOK(p)'
<1> SUFFICES ASSUME p \in settled' PROVE SettledOK(p)'
  BY DEF SettledOK
<1>1. /\ \A r \in manifest[p] : r.path \in imports[p] \/ r.go
      /\ \A m \in imports[p] : Required(manifest[p], m) # {}
  BY Types DEF SettledOK, Quiet
<1>2. PICK keys \in SUBSET Keys :
        /\ Closed(keys) /\ job[p].frontier \subseteq keys
        /\ \A r \in manifest[p] : KeyOf(r) \in keys /\ AtMost(keys, r)
  BY Types DEF SettledOK, Quiet
<1>3. Closed(keys)'
  BY <1>2 DEF Quiet, Closed, Whole
<1>4. job'[p].frontier \subseteq keys
  BY <1>2
<1>5. manifest'[p] = manifest[p] /\ imports'[p] = imports[p]
  BY DEF Quiet
<1> QED
  BY <1>1, <1>2, <1>3, <1>4, <1>5 DEF SettledOK, AtMost

\* A module that is not cached is cloned.
LEMMA FetchMissKeeps ==
  ASSUME IInv, NEW p \in Projects, FetchMiss(p)
  PROVE  IInv'
<1>1. job[p].at = "fetch" /\ job[p].want \notin dirs
      /\ job' = [job EXCEPT ![p] = [job[p] EXCEPT !.at = "clone"]]
  BY DEF FetchMiss
<1>2. job'[p] = [job[p] EXCEPT !.at = "clone"]
  BY <1>1, Types
<1>3. job'[p] \in Job /\ job'[p].at = "clone"
  <2>1. PICK j \in Job : j = job[p]
    BY Types
  <2>2. /\ [j EXCEPT !.at = "clone"] \in Job
        /\ [j EXCEPT !.at = "clone"].at = "clone"
    BY DEF Job, Stages
  <2> QED
    BY <1>2, <2>1, <2>2
<1>4. Quiet(p) /\ settled' = settled
  BY <1>1, <1>2, <1>3, Types DEF Quiet, FetchMiss, world, cache, history, Job
<1>5. /\ job'[p].cmd = job[p].cmd /\ job'[p].want = job[p].want /\ job'[p].draft = job[p].draft
      /\ job'[p].ledger = job[p].ledger /\ job'[p].todo = job[p].todo
      /\ job'[p].frontier = job[p].frontier /\ job'[p].visited = job[p].visited
      /\ job'[p].whole = job[p].whole
  BY <1>2, Types DEF Job
<1>6. StepsOK(p)' /\ CoverOK(p)' /\ DraftOK(p)'
  <2>1. StepsOK(p) /\ CoverOK(p) /\ DraftOK(p) /\ manifest'[p] = manifest[p]
        /\ sum'[p] = sum[p] /\ imports'[p] = imports[p] /\ owed' = owed
    BY <1>4, Types DEF Quiet
  <2>2. StepsOK(p)'
    BY <1>1, <1>3, <1>5, <2>1 DEF StepsOK, Writing, Fetching
  <2>3. CoverOK(p)'
    BY <1>1, <1>3, <1>5, <2>1 DEF CoverOK, Has, Writing, Fetching
  <2>4. DraftOK(p)'
    BY <1>1, <1>3, <1>5, <2>1 DEF DraftOK, Fetching
  <2> QED
    BY <2>2, <2>3, <2>4
<1>7. GraphOK(p)'
  BY <1>1, <1>3, <1>4, <1>5, Types DEF Quiet, GraphOK, Whole, AtMost, Writing, Fetching
<1>8. SettledOK(p)'
  BY <1>1, <1>4, <1>5, Types, QuietSettled DEF SettledOK, Fetching
<1> QED
  BY <1>3, <1>4, <1>5, <1>6, <1>7, <1>8, LedgerIs, QuietEnough DEF Writing

\* A store that is given up leaves a whole directory or a torn one.
LEMMA LeftTornIs ==
  ASSUME IInv, NEW p \in Projects, torn' = LeftTorn(p)
  PROVE  /\ torn \subseteq torn'
         /\ job[p].at = "copy" => Whole(job[p].want) \/ job[p].want \in torn'
<1>1. job[p].at = "copy" => job[p].left \cup files[job[p].want] = Contents[job[p].want[1]]
  BY Types DEF StepsOK
<1> QED
  BY <1>1 DEF LeftTorn, Whole

\* A failed fetch ends add, and is passed over by update and tidy, which then
\* owe a sum or are no longer whole.
LEMMA FetchFailsKeeps ==
  ASSUME IInv, NEW p \in Projects, FetchFails(p)
  PROVE  IInv'
<1>1. /\ job[p].at \in {"fetch", "clone", "copy"} /\ job[p].cmd \in {"add", "update", "tidy"}
      /\ torn' = LeftTorn(p)
  BY Types DEF FetchFails, StepsOK, Fetching
<1>2. CASE job[p].cmd = "add"
  <2>1. job' = [job EXCEPT ![p] = Idle]
    BY <1>2 DEF FetchFails
  <2>2. job'[p] = Idle /\ job'[p] \in Job
    BY <2>1, Types, IdleJob
  <2>3. Quiet(p) /\ settled' = settled
    <3>1. Idle.at = "idle"
      BY DEF Idle
    <3> QED
      BY <1>1, <2>1, <2>2, <3>1, LeftTornIs DEF Quiet, FetchFails, world, cache
  <2>4. StepsOK(p)' /\ CoverOK(p)' /\ DraftOK(p)' /\ GraphOK(p)'
    BY <1>1, <2>2, <2>3, Types
    DEF Quiet, StepsOK, CoverOK, DraftOK, GraphOK, Has, Writing, Fetching, OnePerPath, Idle
  <2>5. SettledOK(p)'
    BY <1>2, <2>3, Types DEF SettledOK
  <2> QED
    BY <2>2, <2>3, <2>4, <2>5, QuietEnough DEF Idle, OnePerKey
<1>3. CASE job[p].cmd = "update"
  <2>1. job' = [job EXCEPT ![p] = [job[p] EXCEPT !.at = "pick", !.left = {}]]
    BY <1>3 DEF FetchFails
  <2>2. job'[p] = [job[p] EXCEPT !.at = "pick", !.left = {}]
    BY <2>1, Types
  <2>3. job'[p] \in Job /\ job'[p].at = "pick"
    <3>1. PICK j \in Job : j = job[p]
      BY Types
    <3>2. /\ [j EXCEPT !.at = "pick", !.left = {}] \in Job
          /\ [j EXCEPT !.at = "pick", !.left = {}].at = "pick"
      BY DEF Job, Stages
    <3> QED
      BY <2>2, <3>1, <3>2
  <2>4. Quiet(p) /\ settled' = settled
    BY <1>1, <2>1, <2>2, <2>3, Types, LeftTornIs DEF Quiet, FetchFails, world, cache
  <2>5. /\ job'[p].cmd = "update" /\ job'[p].draft = job[p].draft
        /\ job'[p].ledger = job[p].ledger /\ job'[p].todo = job[p].todo
    BY <1>3, <2>2, Types DEF Job
  <2>6. StepsOK(p)' /\ CoverOK(p)' /\ DraftOK(p)' /\ GraphOK(p)'
    BY <1>1, <1>3, <2>3, <2>4, <2>5, Types
    DEF Quiet, StepsOK, CoverOK, DraftOK, GraphOK, Has, Writing, Fetching
  <2>7. SettledOK(p)'
    BY <1>3, <2>4, Types DEF SettledOK
  <2> QED
    BY <2>3, <2>4, <2>5, <2>6, <2>7, LedgerIs, QuietEnough
<1>4. CASE job[p].cmd = "tidy"
  <2> DEFINE next == IF job[p].frontier = {} THEN "pick" ELSE "graph"
  <2>1. job' = [job EXCEPT ![p] = [job[p] EXCEPT !.at = next, !.left = {}, !.whole = FALSE]]
    BY <1>4 DEF FetchFails
  <2>2. job'[p] = [job[p] EXCEPT !.at = next, !.left = {}, !.whole = FALSE]
    BY <2>1, Types
  <2>3. job'[p] \in Job /\ job'[p].at = next /\ job'[p].whole = FALSE
    <3>1. next \in Stages
      BY DEF Stages
    <3> HIDE DEF next
    <3>2. PICK j \in Job : j = job[p]
      BY Types
    <3>3. /\ [j EXCEPT !.at = next, !.left = {}, !.whole = FALSE] \in Job
          /\ [j EXCEPT !.at = next, !.left = {}, !.whole = FALSE].at = next
          /\ [j EXCEPT !.at = next, !.left = {}, !.whole = FALSE].whole = FALSE
      BY <3>1 DEF Job
    <3> QED
      BY <2>2, <3>2, <3>3
  <2>4. Quiet(p) /\ settled' = settled
    BY <1>1, <2>1, <2>2, <2>3, Types, LeftTornIs DEF Quiet, FetchFails, world, cache
  <2>5. /\ job'[p].cmd = "tidy" /\ job'[p].want = job[p].want /\ job'[p].draft = job[p].draft
        /\ job'[p].ledger = job[p].ledger /\ job'[p].todo = job[p].todo
        /\ job'[p].frontier = job[p].frontier /\ job'[p].visited = job[p].visited
    BY <1>4, <2>2, Types DEF Job
  <2>6. StepsOK(p)' /\ CoverOK(p)' /\ DraftOK(p)' /\ GraphOK(p)'
    <3> HIDE DEF next
    <3>1. next \in {"pick", "graph"} /\ (next = "pick" <=> job[p].frontier = {})
      BY DEF next
    <3>2. /\ StepsOK(p) /\ CoverOK(p) /\ DraftOK(p) /\ GraphOK(p)
          /\ manifest'[p] = manifest[p] /\ sum'[p] = sum[p] /\ imports'[p] = imports[p]
          /\ owed' = owed
      BY <2>4, Types DEF Quiet
    <3>3. StepsOK(p)'
      BY <1>4, <2>3, <2>5, <3>1, <3>2 DEF StepsOK, Writing, Fetching
    <3>4. CoverOK(p)'
      BY <1>1, <1>4, <2>3, <2>5, <3>1, <3>2 DEF CoverOK, Has
    <3>5. DraftOK(p)'
      BY <1>1, <1>4, <2>3, <2>5, <3>1, <3>2 DEF DraftOK, Fetching
    <3>6. GraphOK(p)'
      BY <1>1, <1>4, <2>3, <2>5, <3>1, <3>2 DEF GraphOK, Writing, Fetching
    <3> QED
      BY <3>3, <3>4, <3>5, <3>6
  <2>7. SettledOK(p)'
    BY <1>1, <1>4, <2>3, <2>4, <2>5, Types, QuietSettled DEF SettledOK, Fetching
  <2> QED
    BY <2>3, <2>4, <2>5, <2>6, <2>7, LedgerIs, QuietEnough
<1> QED
  BY <1>1, <1>2, <1>3, <1>4

\* Adding a requirement replaces the one of its path.
LEMMA AddRequireIs ==
  ASSUME NEW reqs \in SUBSET Require, NEW k \in Keys, NEW go \in BOOLEAN
  PROVE  /\ AddRequire(reqs, k[1], k[2], go) \in SUBSET Require
         /\ \A r \in reqs : r.path # k[1] => r \in AddRequire(reqs, k[1], k[2], go)
         /\ \A r \in AddRequire(reqs, k[1], k[2], go) :
              (r \in reqs /\ r.path # k[1]) \/ KeyOf(r) = k
         /\ \E r \in AddRequire(reqs, k[1], k[2], go) : KeyOf(r) = k
         /\ OnePerPath(reqs) => OnePerPath(AddRequire(reqs, k[1], k[2], go))
<1> DEFINE old == Required(reqs, k[1])
           new == [path |-> k[1], version |-> k[2], go |-> go \/ \E r \in old : r.go]
<1>1. AddRequire(reqs, k[1], k[2], go) = (reqs \ old) \cup {new}
  BY DEF AddRequire
<1>2. old = {r \in reqs : r.path = k[1]}
  BY DEF Required
<1>3. k[1] \in Modules /\ k[2] \in Versions /\ k = <<k[1], k[2]>>
  BY DEF Keys
<1>4. (go \/ \E r \in old : r.go) \in BOOLEAN
  OBVIOUS
<1>5. new \in Require /\ KeyOf(new) = k /\ new.path = k[1]
  BY <1>3, <1>4, Zenon DEF Require, KeyOf
<1> HIDE DEF old, new
<1> QED
  BY <1>1, <1>2, <1>5 DEF OnePerPath

\* add puts the requirement into the draft and its hash into the ledger.
LEMMA AddEditsKeeps ==
  ASSUME IInv, NEW p \in Projects, AddEdits(p)
  PROVE  IInv'
<1>1. job[p].cmd = "add" /\ job[p].at = "fetched"
  BY DEF AddEdits, Runs
<1>2. PICK d \in SUBSET Require :
        d = AddRequire(job[p].draft, job[p].want[1], job[p].want[2], LooksLikeGo(job[p].want))
  <2>1. PICK reqs \in SUBSET Require, k \in Keys, go \in BOOLEAN :
          reqs = job[p].draft /\ k = job[p].want /\ go = LooksLikeGo(job[p].want)
    BY Types DEF Job, LooksLikeGo
  <2>2. AddRequire(reqs, k[1], k[2], go) \in SUBSET Require
    BY AddRequireIs
  <2> QED
    BY <2>1, <2>2
<1>3. job' = [job EXCEPT ![p] = [job[p] EXCEPT !.at = "writeMod", !.draft = d]]
  BY <1>2 DEF AddEdits
<1>4. job'[p] = [job[p] EXCEPT !.at = "writeMod", !.draft = d]
  BY <1>3, Types
<1>5. job'[p] \in Job /\ job'[p].at = "writeMod" /\ job'[p].draft = d
  <2>1. PICK j \in Job : j = job[p]
    BY Types
  <2>2. /\ [j EXCEPT !.at = "writeMod", !.draft = d] \in Job
        /\ [j EXCEPT !.at = "writeMod", !.draft = d].at = "writeMod"
        /\ [j EXCEPT !.at = "writeMod", !.draft = d].draft = d
    BY DEF Job, Stages
  <2> QED
    BY <1>4, <2>1, <2>2
<1>6. Quiet(p) /\ settled' = settled
  BY <1>1, <1>3, <1>4, <1>5, Types DEF Quiet, AddEdits, world, cache, history
<1>7. /\ job'[p].cmd = "add" /\ job'[p].want = job[p].want /\ job'[p].got = job[p].got
      /\ job'[p].ledger = job[p].ledger
  BY <1>1, <1>4, Types DEF Job
<1>8. /\ \A r \in d : (r \in job[p].draft /\ r.path # job[p].want[1]) \/ KeyOf(r) = job[p].want
      /\ OnePerPath(d)
  <2>1. job[p].draft \in SUBSET Require /\ job[p].want \in Keys /\ OnePerPath(job[p].draft)
        /\ LooksLikeGo(job[p].want) \in BOOLEAN
    BY Types DEF Job, StepsOK, LooksLikeGo
  <2> QED
    BY <1>2, <2>1, AddRequireIs
<1>9. StepsOK(p)' /\ DraftOK(p)' /\ GraphOK(p)'
  BY <1>1, <1>5, <1>6, <1>7, <1>8, Types
  DEF Quiet, StepsOK, DraftOK, GraphOK, OnePerPath, Writing, Fetching
<1>10. CoverOK(p)'
  BY <1>1, <1>5, <1>6, <1>7, <1>8, Types DEF Quiet, CoverOK, Has, Writing, Fetching
<1>11. SettledOK(p)'
  BY <1>1, <1>6, Types DEF SettledOK
<1>12. HashOK(p, job'[p].want, job'[p].got)
  BY <1>1, <1>7, Types DEF HashesOK
<1> QED
  BY <1>5, <1>6, <1>7, <1>9, <1>10, <1>11, <1>12, LedgerIs, QuietEnough

\* The next module to fetch is one of those still to do.
LEMMA PickNextKeeps ==
  ASSUME IInv, NEW p \in Projects, PickNext(p)
  PROVE  IInv'
<1>1. job[p].at = "pick"
  BY DEF PickNext
<1>2. PICK m \in job[p].todo :
        job' = [job EXCEPT ![p].at = "fetch", ![p].want = <<m, Latest(tags[m])>>,
                           ![p].todo = @ \ {m}]
  BY DEF PickNext
<1>3. PICK k \in Keys : k = <<m, Latest(tags[m])>>
  <2>1. m \in Modules
    BY Types DEF Job
  <2>2. tags[m] \in SUBSET Versions /\ tags[m] # {}
    BY <2>1 DEF IInv, SharedOK
  <2>3. Latest(tags[m]) \in Versions
    BY <2>2, LatestIs
  <2> QED
    BY <2>1, <2>3 DEF Keys
<1> DEFINE others == job[p].todo \ {m}
<1>4. job' = [job EXCEPT ![p] = [job[p] EXCEPT !.at = "fetch", !.want = k, !.todo = others]]
  BY <1>2, <1>3
<1>5. job'[p] = [job[p] EXCEPT !.at = "fetch", !.want = k, !.todo = others]
  BY <1>4, Types
<1>6. job'[p] \in Job /\ job'[p].at = "fetch" /\ job'[p].want = k /\ job'[p].todo = others
  <2>1. others \in SUBSET Modules
    BY Types DEF Job
  <2> HIDE DEF others
  <2>2. PICK j \in Job : j = job[p]
    BY Types
  <2>3. /\ [j EXCEPT !.at = "fetch", !.want = k, !.todo = others] \in Job
        /\ [j EXCEPT !.at = "fetch", !.want = k, !.todo = others].at = "fetch"
        /\ [j EXCEPT !.at = "fetch", !.want = k, !.todo = others].want = k
        /\ [j EXCEPT !.at = "fetch", !.want = k, !.todo = others].todo = others
    BY <2>1 DEF Job, Stages
  <2> QED
    BY <1>5, <2>2, <2>3
<1>7. Quiet(p) /\ settled' = settled
  BY <1>1, <1>4, <1>5, <1>6, Types DEF Quiet, PickNext, world, cache, history
<1>8. /\ job'[p].cmd = job[p].cmd /\ job'[p].draft = job[p].draft
      /\ job'[p].ledger = job[p].ledger /\ job'[p].whole = job[p].whole
      /\ job'[p].frontier = job[p].frontier /\ job'[p].visited = job[p].visited
  BY <1>5, Types DEF Job
<1>9. StepsOK(p) /\ CoverOK(p) /\ DraftOK(p) /\ GraphOK(p) /\ SettledOK(p)
      /\ manifest'[p] = manifest[p] /\ sum'[p] = sum[p] /\ imports'[p] = imports[p] /\ owed' = owed
      /\ k[1] = m /\ m \in job[p].todo
  BY <1>2, <1>3, <1>7, Types DEF Quiet
<1>10. StepsOK(p)'
  BY <1>1, <1>6, <1>8, <1>9 DEF StepsOK, Writing, Fetching
<1>11. CoverOK(p)'
  BY <1>1, <1>6, <1>8, <1>9 DEF StepsOK, CoverOK, Has, Writing, Fetching
<1>12. DraftOK(p)'
  <2>1. job[p].cmd = "tidy" => job[p].frontier = {}
    BY <1>1, <1>9 DEF GraphOK
  <2> QED
    BY <1>1, <1>6, <1>8, <1>9, <2>1 DEF DraftOK, Fetching
<1>13. GraphOK(p)'
  BY <1>1, <1>6, <1>8, <1>9 DEF GraphOK, Fetching, Writing
<1>14. SettledOK(p)'
  BY <1>1, <1>7, <1>9, QuietSettled DEF SettledOK, StepsOK
<1> QED
  BY <1>6, <1>7, <1>8, <1>10, <1>11, <1>12, <1>13, <1>14, LedgerIs, QuietEnough DEF Writing

\* The requirement that a fetched module has in the draft of update.
LEMMA OldIs ==
  ASSUME IInv, NEW p \in Projects, job[p].cmd = "update", job[p].at \in Fetching,
         NEW old, old = CHOOSE r \in Required(job[p].draft, job[p].want[1]) : TRUE
  PROVE  old \in job[p].draft /\ old.path = job[p].want[1]
<1>1. Required(job[p].draft, job[p].want[1]) # {}
  BY Types DEF CoverOK
<1>2. old \in Required(job[p].draft, job[p].want[1])
  BY <1>1
<1> QED
  BY <1>2 DEF Required

\* update replaces the requirement of one path in the draft, with its sum.
LEMMA UpdateEditsKeeps ==
  ASSUME IInv, NEW p \in Projects, UpdateEdits(p)
  PROVE  IInv'
<1>1. job[p].cmd = "update" /\ job[p].at = "fetched"
  BY DEF UpdateEdits, Runs
<1>2. PICK k \in Keys, d \in SUBSET Require, l \in SUBSET (Keys \X SUBSET AllFiles),
           hash \in SUBSET AllFiles :
        k = job[p].want /\ d = job[p].draft /\ l = job[p].ledger /\ hash = job[p].got
  BY Types DEF Job
<1>3. PICK old : old = CHOOSE r \in Required(d, k[1]) : TRUE
  OBVIOUS
<1>4. old \in d /\ old.path = k[1] /\ KeyOf(old) \in Keys
  BY <1>1, <1>2, <1>3, OldIs, KeyOfRequire DEF Fetching
<1>5. PICK dd \in SUBSET Require, ll \in SUBSET (Keys \X SUBSET AllFiles) :
        /\ dd = IF old.version = k[2] THEN d ELSE AddRequire(d, k[1], k[2], FALSE)
        /\ ll = IF old.version = k[2] THEN l ELSE SumAdd(SumRemove(l, KeyOf(old)), k, hash)
  <2>1. AddRequire(d, k[1], k[2], FALSE) \in SUBSET Require
    BY AddRequireIs
  <2>2. SumAdd(SumRemove(l, KeyOf(old)), k, hash) \in SUBSET (Keys \X SUBSET AllFiles)
    BY DEF SumAdd, SumRemove
  <2> QED
    BY <2>1, <2>2
<1>6. job' = [job EXCEPT ![p] = [job[p] EXCEPT !.at = "pick", !.draft = dd, !.ledger = ll]]
  <2>1. [job[p] EXCEPT !.at = "pick", !.draft = d, !.ledger = l] = [job[p] EXCEPT !.at = "pick"]
    BY <1>2, Types DEF Job
  <2> DEFINE added == AddRequire(d, k[1], k[2], FALSE)
             summed == SumAdd(SumRemove(l, KeyOf(old)), k, hash)
             edited == IF old.version = k[2] THEN [job[p] EXCEPT !.at = "pick"]
                       ELSE [job[p] EXCEPT !.at = "pick", !.draft = added, !.ledger = summed]
  <2>a. job' = [job EXCEPT ![p] = edited]
    <3> DEFINE o == CHOOSE r \in Required(job[p].draft, job[p].want[1]) : TRUE
    <3>1. job' = [job EXCEPT ![p] =
            IF o.version = job[p].want[2] THEN [job[p] EXCEPT !.at = "pick"]
            ELSE [job[p] EXCEPT !.at = "pick",
                    !.draft = AddRequire(job[p].draft, job[p].want[1], job[p].want[2], FALSE),
                    !.ledger = SumAdd(SumRemove(job[p].ledger, KeyOf(o)), job[p].want, job[p].got)]]
      BY DEF UpdateEdits
    <3>2. o = old
      BY <1>2, <1>3
    <3> HIDE DEF o
    <3> QED
      BY <1>2, <3>1, <3>2
  <2>b. dd = (IF old.version = k[2] THEN d ELSE added) /\ ll = IF old.version = k[2] THEN l ELSE summed
    BY <1>5
  <2> HIDE DEF added, summed
  <2>2. CASE old.version = k[2]
    BY <2>a, <2>b, <2>1, <2>2
  <2>3. CASE old.version # k[2]
    BY <2>a, <2>b, <2>3
  <2> QED
    BY <2>2, <2>3
<1>7. job'[p] = [job[p] EXCEPT !.at = "pick", !.draft = dd, !.ledger = ll]
  BY <1>6, Types
<1>8. job'[p] \in Job /\ job'[p].at = "pick" /\ job'[p].draft = dd /\ job'[p].ledger = ll
  <2>1. PICK j \in Job : j = job[p]
    BY Types
  <2>2. /\ [j EXCEPT !.at = "pick", !.draft = dd, !.ledger = ll] \in Job
        /\ [j EXCEPT !.at = "pick", !.draft = dd, !.ledger = ll].at = "pick"
        /\ [j EXCEPT !.at = "pick", !.draft = dd, !.ledger = ll].draft = dd
        /\ [j EXCEPT !.at = "pick", !.draft = dd, !.ledger = ll].ledger = ll
    BY DEF Job, Stages
  <2> QED
    BY <1>7, <2>1, <2>2
<1>9. Quiet(p) /\ settled' = settled
  BY <1>1, <1>6, <1>7, <1>8, Types DEF Quiet, UpdateEdits, world, cache, history
<1>10. job'[p].cmd = "update" /\ job'[p].todo = job[p].todo
  BY <1>1, <1>7, Types DEF Job
<1>11. /\ OnePerPath(dd) /\ \A m \in Modules : Required(d, m) # {} => Required(dd, m) # {}
       /\ \A r \in dd : \/ r \in d /\ (old.version # k[2] => r.path # k[1])
                        \/ old.version # k[2] /\ KeyOf(r) = k
  <2>1. OnePerPath(d)
    BY <1>2, Types DEF StepsOK
  <2>2. CASE old.version = k[2]
    BY <1>5, <2>1, <2>2
  <2>3. CASE old.version # k[2]
    <3>1. \A r \in d : r.path # k[1] => r \in dd
      BY <1>5, <2>3, AddRequireIs
    <3>2. \E r \in dd : KeyOf(r) = k
      BY <1>5, <2>3, AddRequireIs
    <3>3. \E r \in dd : r.path = k[1]
      BY <3>2 DEF KeyOf
    <3>4. OnePerPath(dd) /\ \A r \in dd : (r \in d /\ r.path # k[1]) \/ KeyOf(r) = k
      BY <1>5, <2>1, <2>3, AddRequireIs
    <3> QED
      BY <2>3, <3>1, <3>3, <3>4 DEF Required
  <2> QED
    BY <2>2, <2>3
<1>12. StepsOK(p)' /\ DraftOK(p)' /\ GraphOK(p)'
  <2>1. StepsOK(p) /\ manifest'[p] = manifest[p]
    BY <1>9, Types DEF Quiet
  <2> QED
    BY <1>8, <1>10, <1>11, <2>1 DEF StepsOK, DraftOK, GraphOK, Writing, Fetching, OnePerPath
<1>13. CoverOK(p)'
  <2>1. /\ CoverOK(p) /\ manifest'[p] = manifest[p] /\ sum'[p] = sum[p] /\ owed' = owed
        /\ job[p].todo \subseteq Modules
    BY <1>9, Types DEF Quiet, Job
  <2>2. ASSUME NEW r \in dd PROVE Has(p, ll, r)
    <3>1. CASE old.version = k[2]
      BY <1>1, <1>2, <1>5, <1>11, <2>1, <3>1 DEF CoverOK
    <3>2. CASE old.version # k[2]
      <4>1. CASE KeyOf(r) = k
        <5>1. <<k, hash>> \in ll /\ <<k, hash>>[1] = k
          BY <1>5, <3>2 DEF SumAdd
        <5> QED
          BY <4>1, <5>1 DEF Has
      <4>2. CASE r \in d /\ r.path # k[1] /\ KeyOf(r) # k
        <5>1. Has(p, l, r)
          BY <1>1, <1>2, <2>1, <4>2 DEF CoverOK
        <5>2. KeyOf(r) # KeyOf(old)
          BY <1>4, <4>2 DEF KeyOf
        <5>3. \A e \in l : e[1] = KeyOf(r) => e \in ll
          BY <1>5, <3>2, <4>2, <5>2 DEF SumAdd, SumRemove
        <5> QED
          BY <5>1, <5>3 DEF Has
      <4> QED
        BY <1>11, <3>2, <4>1, <4>2
    <3> QED
      BY <3>1, <3>2
  <2> QED
    BY <1>1, <1>2, <1>8, <1>10, <1>11, <2>1, <2>2 DEF CoverOK, Has, Fetching
<1>14. SettledOK(p)'
  BY <1>1, <1>9, Types DEF SettledOK
<1>15. OnePerKey(ll) /\ \A e \in ll : HashOK(p, e[1], e[2])
  <2>1. OnePerKey(l) /\ \A e \in l : HashOK(p, e[1], e[2])
    BY <1>2, LedgerIs
  <2>2. HashOK(p, k, hash)
    BY <1>1, <1>2, Types DEF HashesOK
  <2>3. \A e \in ll : \/ e \in l /\ (old.version # k[2] => e[1] # k)
                      \/ e = <<k, hash>>
    BY <1>5 DEF SumAdd, SumRemove
  <2>4. \A e \in ll : HashOK(p, e[1], e[2])
    BY <2>1, <2>2, <2>3
  <2>5. OnePerKey(ll)
    <3>1. CASE old.version = k[2]
      BY <1>5, <2>1, <3>1
    <3>2. CASE old.version # k[2]
      BY <2>1, <2>3, <3>2 DEF OnePerKey
    <3> QED
      BY <3>1, <3>2
  <2> QED
    BY <2>4, <2>5
<1> QED
  BY <1>8, <1>9, <1>10, <1>12, <1>13, <1>14, <1>15, QuietEnough DEF Writing

\* update writes when nothing is left to do: the draft is covered.
LEMMA UpdateWritesKeeps ==
  ASSUME IInv, NEW p \in Projects, UpdateWrites(p)
  PROVE  IInv'
<1>1. job[p].cmd = "update" /\ job[p].at = "pick" /\ job[p].todo = {}
  BY DEF UpdateWrites, Runs
<1>2. StepsOK(p) /\ CoverOK(p)
  BY Types
<1>3. CASE job[p].draft = manifest[p]
  <2>1. job' = [job EXCEPT ![p] = Idle]
    BY <1>3 DEF UpdateWrites, Finish
  <2>2. job'[p] = Idle /\ job'[p] \in Job
    BY <2>1, Types, IdleJob
  <2>3. Quiet(p) /\ settled' = settled
    <3>1. Idle.at = "idle"
      BY DEF Idle
    <3> QED
      BY <1>1, <2>1, <2>2, <3>1 DEF Quiet, UpdateWrites, world, cache, history
  <2>4. StepsOK(p)' /\ CoverOK(p)' /\ DraftOK(p)' /\ GraphOK(p)'
    BY <1>1, <1>2, <2>2, <2>3
    DEF Quiet, StepsOK, CoverOK, DraftOK, GraphOK, Has, Writing, Fetching, OnePerPath, Idle
  <2>5. SettledOK(p)'
    BY <1>1, <2>3, Types DEF SettledOK
  <2> QED
    BY <2>2, <2>3, <2>4, <2>5, QuietEnough DEF Idle, OnePerKey
<1>4. CASE job[p].draft # manifest[p]
  <2>1. job' = [job EXCEPT ![p] = [job[p] EXCEPT !.at = "writeMod"]]
    BY <1>4 DEF UpdateWrites
  <2>2. job'[p] = [job[p] EXCEPT !.at = "writeMod"]
    BY <2>1, Types
  <2>3. job'[p] \in Job /\ job'[p].at = "writeMod"
    <3>1. PICK j \in Job : j = job[p]
      BY Types
    <3>2. /\ [j EXCEPT !.at = "writeMod"] \in Job
          /\ [j EXCEPT !.at = "writeMod"].at = "writeMod"
      BY DEF Job, Stages
    <3> QED
      BY <2>2, <3>1, <3>2
  <2>4. Quiet(p) /\ settled' = settled
    BY <1>1, <2>1, <2>2, <2>3, Types DEF Quiet, UpdateWrites, world, cache, history
  <2>5. /\ job'[p].cmd = "update" /\ job'[p].draft = job[p].draft
        /\ job'[p].ledger = job[p].ledger /\ job'[p].todo = job[p].todo
    BY <1>1, <2>2, Types DEF Job
  <2>6. StepsOK(p)' /\ CoverOK(p)' /\ DraftOK(p)' /\ GraphOK(p)'
    BY <1>1, <1>2, <2>3, <2>4, <2>5
    DEF Quiet, StepsOK, CoverOK, DraftOK, GraphOK, Has, Writing, Fetching
  <2>7. SettledOK(p)'
    BY <1>1, <2>4, Types DEF SettledOK
  <2> QED
    BY <2>3, <2>4, <2>5, <2>6, <2>7, LedgerIs, QuietEnough
<1> QED
  BY <1>3, <1>4

\* tidy adds the module of an import that had none.
LEMMA TidyAddsKeeps ==
  ASSUME IInv, NEW p \in Projects, TidyAdds(p)
  PROVE  IInv'
<1>1. job[p].cmd = "tidy" /\ job[p].at = "fetched" /\ job[p].frontier = {}
  BY DEF TidyAdds, Runs
<1>2. PICK k \in Keys, d \in SUBSET Require : k = job[p].want /\ d = job[p].draft
  BY Types DEF Job
<1>3. PICK dd \in SUBSET Require : dd = AddRequire(d, k[1], k[2], FALSE)
  BY AddRequireIs
<1>4. job' = [job EXCEPT ![p] = [job[p] EXCEPT !.at = "pick", !.draft = dd]]
  BY <1>2, <1>3 DEF TidyAdds
<1>5. job'[p] = [job[p] EXCEPT !.at = "pick", !.draft = dd]
  BY <1>4, Types
<1>6. job'[p] \in Job /\ job'[p].at = "pick" /\ job'[p].draft = dd
  <2>1. PICK j \in Job : j = job[p]
    BY Types
  <2>2. /\ [j EXCEPT !.at = "pick", !.draft = dd] \in Job
        /\ [j EXCEPT !.at = "pick", !.draft = dd].at = "pick"
        /\ [j EXCEPT !.at = "pick", !.draft = dd].draft = dd
    BY DEF Job, Stages
  <2> QED
    BY <1>5, <2>1, <2>2
<1>7. Quiet(p) /\ settled' = settled
  BY <1>1, <1>4, <1>5, <1>6, Types DEF Quiet, TidyAdds, world, cache, history
<1>8. /\ job'[p].cmd = "tidy" /\ job'[p].todo = job[p].todo /\ job'[p].ledger = job[p].ledger
      /\ job'[p].whole = job[p].whole /\ job'[p].frontier = {} /\ job'[p].visited = job[p].visited
  BY <1>1, <1>5, Types DEF Job
<1>9. /\ StepsOK(p) /\ CoverOK(p) /\ DraftOK(p) /\ GraphOK(p) /\ SettledOK(p)
      /\ manifest'[p] = manifest[p] /\ sum'[p] = sum[p] /\ imports'[p] = imports[p] /\ owed' = owed
  BY <1>7, Types DEF Quiet
<1>10. /\ OnePerPath(dd)
       /\ \A r \in d : r.path # k[1] => r \in dd
       /\ \A r \in dd : \/ r \in d /\ r.path # k[1]
                        \/ r.path = k[1]
       /\ \E r \in dd : r.path = k[1]
  <2>1. OnePerPath(d)
    BY <1>2, <1>9 DEF StepsOK
  <2>2. \A r \in dd : KeyOf(r) = k => r.path = k[1]
    BY DEF KeyOf
  <2>3. \A r \in dd : (r \in d /\ r.path # k[1]) \/ KeyOf(r) = k
    BY <1>3, AddRequireIs
  <2>4. \A r \in d : r.path # k[1] => r \in dd
    BY <1>3, AddRequireIs
  <2>5. \E r \in dd : KeyOf(r) = k
    BY <1>3, AddRequireIs
  <2>6. OnePerPath(dd)
    BY <1>3, <2>1, AddRequireIs
  <2> QED
    BY <2>2, <2>3, <2>4, <2>5, <2>6
<1>11. StepsOK(p)'
  BY <1>6, <1>8, <1>9, <1>10 DEF StepsOK, OnePerPath, Writing, Fetching
<1>12. CoverOK(p)'
  BY <1>1, <1>6, <1>8, <1>9 DEF CoverOK, Has
<1>13. DraftOK(p)'
  <2>1. k[1] \in imports[p] /\ Required(manifest[p], k[1]) = {}
    BY <1>1, <1>2, <1>9 DEF DraftOK, Fetching
  <2>2. \A r \in dd : r.path \in imports[p] \/ r.go
    BY <1>1, <1>2, <1>9, <1>10, <2>1 DEF DraftOK
  <2>3. ASSUME NEW r \in manifest[p], r.path \in imports[p]
        PROVE  \E s \in dd : s.path = r.path /\ s.version >= r.version
    <3>1. PICK s \in d : s.path = r.path /\ s.version >= r.version
      BY <1>1, <1>2, <1>9, <2>3 DEF DraftOK
    <3>2. s.path # k[1]
      BY <2>1, <3>1 DEF Required
    <3> QED
      BY <1>10, <3>1, <3>2
  <2>4. ASSUME job[p].whole, NEW m \in imports[p], m \notin job[p].todo
        PROVE  Required(dd, m) # {}
    <3>1. Required(d, m) # {} \/ m = k[1]
      BY <1>1, <1>2, <1>9, <2>4 DEF DraftOK
    <3> QED
      BY <1>10, <3>1 DEF Required
  <2>5. \A m \in job[p].todo : m \in imports[p] /\ Required(manifest[p], m) = {}
    BY <1>1, <1>9 DEF DraftOK
  <2> QED
    BY <1>6, <1>8, <1>9, <2>2, <2>3, <2>4, <2>5 DEF DraftOK, Fetching
<1>14. GraphOK(p)'
  BY <1>1, <1>6, <1>8, <1>9 DEF GraphOK, Fetching, Writing
<1>15. SettledOK(p)'
  BY <1>1, <1>7, <1>9 DEF SettledOK, Fetching
<1> QED
  BY <1>6, <1>7, <1>8, <1>11, <1>12, <1>13, <1>14, <1>15, LedgerIs, QuietEnough

\* The frontier of the walk starts as the draft.
LEMMA GraphBeginsKeeps ==
  ASSUME IInv, NEW p \in Projects, GraphBegins(p)
  PROVE  IInv'
<1>1. job[p].cmd = "tidy" /\ job[p].at = "pick" /\ job[p].todo = {}
  BY DEF GraphBegins, Runs
<1>2. PICK ks \in SUBSET Keys : ks = {KeyOf(r) : r \in job[p].draft}
  BY Types, KeyOfRequire DEF Job
<1>3. PICK at \in Stages : at = IF job[p].draft = {} THEN "writeMod" ELSE "graph"
  BY DEF Stages
<1>4. job' = [job EXCEPT ![p] = [job[p] EXCEPT !.frontier = ks, !.at = at]]
  BY <1>2, <1>3 DEF GraphBegins
<1>5. job'[p] = [job[p] EXCEPT !.frontier = ks, !.at = at]
  BY <1>4, Types
<1>6. job'[p] \in Job /\ job'[p].at = at /\ job'[p].frontier = ks
  <2>1. PICK j \in Job : j = job[p]
    BY Types
  <2>2. /\ [j EXCEPT !.frontier = ks, !.at = at] \in Job
        /\ [j EXCEPT !.frontier = ks, !.at = at].frontier = ks
        /\ [j EXCEPT !.frontier = ks, !.at = at].at = at
    BY DEF Job
  <2> QED
    BY <1>5, <2>1, <2>2
<1>7. Quiet(p) /\ settled' = settled
  BY <1>1, <1>3, <1>4, <1>5, <1>6, Types DEF Quiet, GraphBegins, world, cache, history
<1>8. /\ job'[p].cmd = "tidy" /\ job'[p].todo = {} /\ job'[p].ledger = job[p].ledger
      /\ job'[p].whole = job[p].whole /\ job'[p].visited = job[p].visited
      /\ job'[p].draft = job[p].draft
  BY <1>1, <1>5, Types DEF Job
<1>9. /\ StepsOK(p) /\ CoverOK(p) /\ DraftOK(p) /\ GraphOK(p) /\ SettledOK(p)
      /\ manifest'[p] = manifest[p] /\ sum'[p] = sum[p] /\ imports'[p] = imports[p] /\ owed' = owed
  BY <1>7, Types DEF Quiet
<1>10. StepsOK(p)'
  BY <1>3, <1>6, <1>8, <1>9 DEF StepsOK, Writing, Fetching
<1>11. CoverOK(p)'
  BY <1>1, <1>3, <1>6, <1>8, <1>9 DEF CoverOK, Has
<1>12. DraftOK(p)'
  BY <1>1, <1>3, <1>6, <1>8, <1>9 DEF DraftOK, Fetching
<1>13. GraphOK(p)'
  <2>1. job[p].frontier = {} /\ job[p].visited = {}
    BY <1>1, <1>9 DEF GraphOK
  <2>2. \A r \in job[p].draft : KeyOf(r) \in ks
    BY <1>2
  <2>3. job[p].draft = {} <=> ks = {}
    BY <1>2
  <2> QED
    BY <1>3, <1>6, <1>8, <2>1, <2>2, <2>3 DEF GraphOK, Fetching, Writing
<1>14. SettledOK(p)'
  BY <1>1, <1>2, <1>3, <1>6, <1>7, <1>8, <1>9, QuietSettled DEF SettledOK, Fetching
<1> QED
  BY <1>3, <1>6, <1>7, <1>8, <1>10, <1>11, <1>12, <1>13, <1>14, LedgerIs, QuietEnough

\* What a visited version adds to the graph.
LEMMA ExpandIs ==
  ASSUME NEW j \in Job, NEW k \in Keys,
         NEW reqs, reqs = IF GalaMod \in files[k] THEN Requires[k] ELSE {}
  PROVE  /\ Expand(j, k) \in Job /\ Expand(j, k).frontier = j.frontier \cup reqs
         /\ Expand(j, k).cmd = j.cmd /\ Expand(j, k).at = j.at /\ Expand(j, k).draft = j.draft
         /\ Expand(j, k).ledger = j.ledger /\ Expand(j, k).todo = j.todo
         /\ Expand(j, k).visited = j.visited /\ Expand(j, k).whole = j.whole
<1>1. reqs \in SUBSET Keys
  BY ConstantsAssumption
<1>2. PICK f \in SUBSET Keys : f = j.frontier \cup reqs
  BY <1>1 DEF Job
<1>3. PICK es \in SUBSET (Modules \X Modules) : es = j.edges \cup {<<k[1], r[1]>> : r \in reqs}
  <2>1. k[1] \in Modules /\ \A r \in reqs : r[1] \in Modules
    BY <1>1 DEF Keys
  <2>2. {<<k[1], r[1]>> : r \in reqs} \in SUBSET (Modules \X Modules)
    BY <2>1
  <2>3. j.edges \in SUBSET (Modules \X Modules)
    BY DEF Job
  <2> QED
    BY <2>2, <2>3
<1>4. Expand(j, k) = [j EXCEPT !.frontier = f, !.edges = es]
  BY <1>2, <1>3 DEF Expand
<1> QED
  BY <1>2, <1>4 DEF Job

\* A step of tidy inside the graph: what it visits and what it finds.
LEMMA GraphStep ==
  ASSUME IInv, NEW p \in Projects, job[p].cmd = "tidy", job[p].at \in {"graph", "fetched"},
         job[p].frontier # {}, Quiet(p), settled' = settled,
         NEW k \in job[p].frontier,
         NEW reqs, reqs = IF GalaMod \in files[k] THEN Requires[k] ELSE {},
         /\ job'[p].cmd = job[p].cmd /\ job'[p].draft = job[p].draft
         /\ job'[p].ledger = job[p].ledger /\ job'[p].todo = job[p].todo,
         \/ /\ job'[p].at = "graph" /\ job'[p].frontier = job[p].frontier \cup reqs
            /\ job'[p].whole => job[p].whole /\ Whole(k)
         \/ /\ job'[p].at = "fetch" /\ job'[p].want = k /\ job'[p].frontier = job[p].frontier
            /\ job'[p].whole => job[p].whole
         \/ job'[p].at = "graph" /\ job'[p].frontier = job[p].frontier /\ ~job'[p].whole,
         job'[p].visited \in {job[p].visited, job[p].visited \cup {k}},
         job[p].at = "fetched" => job[p].want = k
  PROVE  IInv'
<1>1. /\ StepsOK(p) /\ CoverOK(p) /\ DraftOK(p) /\ GraphOK(p) /\ SettledOK(p)
      /\ manifest'[p] = manifest[p] /\ sum'[p] = sum[p] /\ imports'[p] = imports[p]
      /\ owed' = owed /\ files' = files
  BY Types DEF Quiet
<1>2. StepsOK(p)'
  BY <1>1 DEF StepsOK, Writing, Fetching
<1>3. CoverOK(p)'
  BY <1>1 DEF CoverOK, Has
<1>4. DraftOK(p)'
  <2>1. /\ \A m \in job[p].todo : m \in imports[p] /\ Required(manifest[p], m) = {}
        /\ \A r \in job[p].draft : r.path \in imports[p] \/ r.go
        /\ \A r \in manifest[p] : r.path \in imports[p] =>
             \E s \in job[p].draft : s.path = r.path /\ s.version >= r.version
        /\ job[p].whole => \A m \in imports[p] : m \in job[p].todo \/ Required(job[p].draft, m) # {}
    BY <1>1 DEF DraftOK
  <2>2. job'[p].frontier # {}
    OBVIOUS
  <2> QED
    BY <1>1, <2>1, <2>2 DEF DraftOK
<1>5. GraphOK(p)'
  <2>1. /\ job[p].todo = {} /\ \A r \in job[p].draft : KeyOf(r) \in job[p].frontier
        /\ job[p].whole => \A l \in job[p].visited \ {k} :
              Whole(l) /\ (GalaMod \in files[l] => Requires[l] \subseteq job[p].frontier)
    BY <1>1 DEF GraphOK, Fetching
  <2>2. job[p].frontier \subseteq job'[p].frontier
    OBVIOUS
  <2>3. ASSUME job'[p].whole, NEW l \in job'[p].visited, ~(job'[p].at = "fetch" /\ l = k)
        PROVE  Whole(l) /\ (GalaMod \in files[l] => Requires[l] \subseteq job'[p].frontier)
    <3>1. CASE l = k
      BY <2>3, <3>1
    <3>2. CASE l # k
      BY <2>1, <2>2, <2>3, <3>2
    <3> QED
      BY <3>1, <3>2
  <2>4. \A l : Whole(l) <=> Whole(l)'
    BY <1>1 DEF Whole
  <2>5. ASSUME job'[p].whole
        PROVE  \A l \in job'[p].visited :
                 \/ job'[p].at \in Fetching /\ l = job'[p].want
                 \/ Whole(l)' /\ (GalaMod \in files'[l] => Requires[l] \subseteq job'[p].frontier)
    BY <1>1, <2>3, <2>4, <2>5 DEF Fetching
  <2>6. job'[p].at \in {"graph", "fetch"} /\ job'[p].frontier # {}
        /\ (job'[p].at \in Fetching => job'[p].want \in job'[p].frontier)
    BY DEF Fetching
  <2>7. job'[p].todo = {} /\ \A r \in job'[p].draft : KeyOf(r) \in job'[p].frontier
    BY <2>1, <2>2
  <2> QED
    BY <2>5, <2>6, <2>7 DEF GraphOK, Writing
<1>6. SettledOK(p)'
  <2>1. ASSUME NEW keys \in SUBSET Keys, Closed(keys), job[p].frontier \subseteq keys
        PROVE  job'[p].frontier \subseteq keys
    BY <2>1 DEF Closed
  <2> QED
    BY <1>1, <2>1, QuietSettled DEF SettledOK
<1>7. job'[p].at # "fetched" /\ job'[p].cmd # "add"
  OBVIOUS
<1> QED
  BY <1>2, <1>3, <1>4, <1>5, <1>6, <1>7, LedgerIs, QuietEnough

\* A key of the frontier that was not visited is fetched next.
LEMMA GraphVisitsKeeps ==
  ASSUME IInv, NEW p \in Projects, GraphVisits(p)
  PROVE  IInv'
<1>1. job[p].cmd = "tidy" /\ job[p].at = "graph"
  BY DEF GraphVisits, Runs
<1> DEFINE seen(k) == job[p].visited \cup {k}
<1>2. PICK k \in job[p].frontier :
        \/ job' = [job EXCEPT ![p] =
                     [Expand(job[p], k) EXCEPT !.visited = seen(k),
                        !.whole = job[p].whole /\ files[k] = Contents[k[1]]]]
        \/ job' = [job EXCEPT ![p] = [job[p] EXCEPT !.visited = seen(k), !.whole = FALSE]]
        \/ /\ k \notin dirs
           /\ job' = [job EXCEPT ![p] =
                        [job[p] EXCEPT !.visited = seen(k), !.want = k, !.at = "fetch"]]
  BY DEF GraphVisits
<1>3. k \in Keys
  BY Types DEF Job
<1>4. PICK seenNow \in SUBSET Keys : seenNow = seen(k)
  BY <1>3, Types DEF Job
<1> DEFINE Reads == job' = [job EXCEPT ![p] =
                              [Expand(job[p], k) EXCEPT !.visited = seenNow,
                                 !.whole = job[p].whole /\ files[k] = Contents[k[1]]]]
           Passes == job' = [job EXCEPT ![p] = [job[p] EXCEPT !.visited = seenNow, !.whole = FALSE]]
           Fetches == /\ k \notin dirs
                      /\ job' = [job EXCEPT ![p] = [job[p] EXCEPT !.visited = seenNow,
                                                       !.want = k, !.at = "fetch"]]
<1>10. Reads \/ Passes \/ Fetches
  BY <1>2, <1>4
<1> HIDE DEF seen
<1>5. PICK reqs : reqs = IF GalaMod \in files[k] THEN Requires[k] ELSE {}
  OBVIOUS
<1>6. UNCHANGED <<tags, imports, manifest, sum, dirs, files, torn, raced, owed, settled>>
  BY DEF GraphVisits, world, cache, history
<1>7. CASE Reads
  <2>1. PICK j \in Job, w \in BOOLEAN :
          j = Expand(job[p], k) /\ w = (job[p].whole /\ files[k] = Contents[k[1]])
    <3>1. Expand(job[p], k) \in Job
      BY <1>3, <1>5, Types, ExpandIs
    <3>2. (job[p].whole /\ files[k] = Contents[k[1]]) \in BOOLEAN
      OBVIOUS
    <3> QED
      BY <3>1, <3>2
  <2>2. job' = [job EXCEPT ![p] = [j EXCEPT !.visited = seenNow, !.whole = w]]
    BY <1>7, <2>1
  <2>3. job'[p] = [j EXCEPT !.visited = seenNow, !.whole = w]
    BY <2>2, Types
  <2>5. /\ j.cmd = job[p].cmd /\ j.at = job[p].at /\ j.draft = job[p].draft
        /\ j.ledger = job[p].ledger /\ j.todo = job[p].todo
        /\ j.frontier = job[p].frontier \cup reqs
    <3>1. PICK i \in Job : i = job[p]
      BY Types
    <3>2. /\ Expand(i, k).cmd = i.cmd /\ Expand(i, k).at = i.at /\ Expand(i, k).draft = i.draft
          /\ Expand(i, k).ledger = i.ledger /\ Expand(i, k).todo = i.todo
          /\ Expand(i, k).frontier = i.frontier \cup reqs
      BY <1>3, <1>5, ExpandIs, ZenonT(30)
    <3> QED
      BY <2>1, <3>1, <3>2
  <2>6. /\ job'[p] \in Job /\ job'[p].cmd = j.cmd /\ job'[p].at = j.at /\ job'[p].draft = j.draft
        /\ job'[p].ledger = j.ledger /\ job'[p].todo = j.todo /\ job'[p].frontier = j.frontier
        /\ job'[p].visited = seenNow /\ job'[p].whole = w
    BY <2>3 DEF Job
  <2>7. Quiet(p)
    BY <1>1, <1>6, <2>2, <2>3, <2>5, <2>6 DEF Quiet
  <2>8. job'[p].whole => job[p].whole /\ Whole(k)
    BY <2>1, <2>6 DEF Whole
  <2>9. job'[p].visited = job[p].visited \cup {k}
    BY <1>4, <2>6 DEF seen
  <2> QED
    BY <1>1, <1>5, <1>6, <2>5, <2>6, <2>7, <2>8, <2>9, GraphStep
<1>8. CASE Fetches
  <2>1. job' = [job EXCEPT ![p] = [job[p] EXCEPT !.visited = seenNow, !.want = k, !.at = "fetch"]]
    BY <1>8
  <2>2. job'[p] = [job[p] EXCEPT !.visited = seenNow, !.want = k, !.at = "fetch"]
    BY <2>1, Types
  <2>3. job'[p] \in Job
    <3>1. PICK j \in Job : j = job[p]
      BY Types
    <3>2. [j EXCEPT !.visited = seenNow, !.want = k, !.at = "fetch"] \in Job
      BY <1>3, <1>4 DEF Job, Stages
    <3> QED
      BY <2>2, <3>1, <3>2
  <2>6. /\ job'[p].cmd = job[p].cmd /\ job'[p].at = "fetch" /\ job'[p].want = k
        /\ job'[p].draft = job[p].draft /\ job'[p].ledger = job[p].ledger
        /\ job'[p].todo = job[p].todo /\ job'[p].frontier = job[p].frontier
        /\ job'[p].visited = seenNow /\ job'[p].whole = job[p].whole
    BY <2>2, Types DEF Job
  <2>4. Quiet(p)
    BY <1>1, <1>6, <1>8, <2>1, <2>2, <2>3, <2>6 DEF Quiet
  <2>5. job'[p].visited = job[p].visited \cup {k}
    BY <1>4, <2>6 DEF seen
  <2> QED
    BY <1>1, <1>5, <1>6, <2>4, <2>5, <2>6, GraphStep
<1>9. CASE Passes
  <2>1. job'[p] = [job[p] EXCEPT !.visited = seenNow, !.whole = FALSE]
    BY <1>9, Types
  <2>2. job'[p] \in Job
    <3>1. PICK j \in Job : j = job[p]
      BY Types
    <3>2. [j EXCEPT !.visited = seenNow, !.whole = FALSE] \in Job
      BY <1>4 DEF Job
    <3> QED
      BY <2>1, <3>1, <3>2
  <2>3. /\ job'[p].cmd = job[p].cmd /\ job'[p].at = job[p].at
        /\ job'[p].draft = job[p].draft /\ job'[p].ledger = job[p].ledger
        /\ job'[p].todo = job[p].todo /\ job'[p].frontier = job[p].frontier
        /\ job'[p].visited = seenNow /\ job'[p].whole = FALSE
    BY <2>1, Types DEF Job
  <2>4. Quiet(p)
    BY <1>1, <1>6, <1>9, <2>1, <2>2, <2>3 DEF Quiet
  <2>5. job'[p].visited = job[p].visited \cup {k}
    BY <1>4, <2>3 DEF seen
  <2> QED
    BY <1>1, <1>5, <1>6, <2>3, <2>4, <2>5, GraphStep
<1> QED
  BY <1>7, <1>8, <1>9, <1>10

\* A fetched key adds what it requires to the frontier; of a settled project
\* that was required already.
LEMMA GraphExpandsKeeps ==
  ASSUME IInv, NEW p \in Projects, GraphExpands(p)
  PROVE  IInv'
<1>1. job[p].cmd = "tidy" /\ job[p].at = "fetched" /\ job[p].frontier # {}
  BY DEF GraphExpands, Runs
<1>2. PICK k \in Keys : k = job[p].want
  BY Types DEF Job
<1>3. k \in job[p].frontier /\ (job[p].whole => Whole(k))
  <2>1. Whole(k) <=> Whole(job[p].want)
    BY <1>2 DEF Whole
  <2> QED
    BY <1>1, <1>2, <2>1, Types DEF GraphOK, Fetching
<1>4. PICK reqs : reqs = IF GalaMod \in files[k] THEN Requires[k] ELSE {}
  OBVIOUS
<1>5. UNCHANGED <<tags, imports, manifest, sum, dirs, files, torn, raced, owed, settled>>
  BY DEF GraphExpands, world, cache, history
<1>6. PICK j \in Job : j = Expand(job[p], k)
  BY <1>4, Types, ExpandIs
<1>7. job' = [job EXCEPT ![p] = [j EXCEPT !.at = "graph"]]
  BY <1>2, <1>6 DEF GraphExpands
<1>8. job'[p] = [j EXCEPT !.at = "graph"]
  BY <1>7, Types
<1>10. /\ j.cmd = job[p].cmd /\ j.draft = job[p].draft /\ j.ledger = job[p].ledger
       /\ j.todo = job[p].todo /\ j.frontier = job[p].frontier \cup reqs
       /\ j.visited = job[p].visited /\ j.whole = job[p].whole
  <2>1. PICK i \in Job : i = job[p]
    BY Types
  <2>2. /\ Expand(i, k).cmd = i.cmd /\ Expand(i, k).draft = i.draft
        /\ Expand(i, k).ledger = i.ledger /\ Expand(i, k).todo = i.todo
        /\ Expand(i, k).frontier = i.frontier \cup reqs
        /\ Expand(i, k).visited = i.visited /\ Expand(i, k).whole = i.whole
    BY <1>4, ExpandIs, Zenon
  <2> QED
    BY <1>6, <2>1, <2>2
<1>11. /\ job'[p] \in Job /\ job'[p].cmd = j.cmd /\ job'[p].at = "graph" /\ job'[p].draft = j.draft
       /\ job'[p].ledger = j.ledger /\ job'[p].todo = j.todo /\ job'[p].frontier = j.frontier
       /\ job'[p].visited = j.visited /\ job'[p].whole = j.whole
  BY <1>8 DEF Job, Stages
<1>12. Quiet(p)
  BY <1>1, <1>5, <1>7, <1>8, <1>11 DEF Quiet
<1>13. job'[p].whole => job[p].whole /\ Whole(k)
  BY <1>3, <1>10, <1>11
<1> QED
  BY <1>1, <1>2, <1>3, <1>4, <1>5, <1>10, <1>11, <1>12, <1>13, GraphStep

\* The version tidy selects is required by something, and by nothing a greater one.
LEMMA SelectedIs ==
  ASSUME NEW keys \in SUBSET Keys, NEW k \in keys
  PROVE  /\ <<k[1], Selected(keys, k[1])>> \in keys /\ Selected(keys, k[1]) \in Versions
         /\ \A l \in keys : l[1] = k[1] => l[2] <= Selected(keys, k[1])
<1> DEFINE vs == {l[2] : l \in {n \in keys : n[1] = k[1]}}
<1>1. \A l \in keys : l = <<l[1], l[2]>> /\ l[2] \in Versions
  BY DEF Keys
<1>2. vs \in SUBSET Versions /\ k[2] \in vs
  BY <1>1
<1>3. Selected(keys, k[1]) = Latest(vs)
  BY DEF Selected
<1>4. \A l \in keys : l[1] = k[1] => l[2] \in vs
  OBVIOUS
<1>5. \A v \in vs : <<k[1], v>> \in keys
  BY <1>1
<1> HIDE DEF vs
<1>6. Latest(vs) \in vs /\ \A v \in vs : v <= Latest(vs)
  BY <1>2, LatestIs
<1> QED
  BY <1>2, <1>3, <1>4, <1>5, <1>6

\* When the frontier is closed, each path gets its greatest version: for a
\* settled project, the version it has.
LEMMA TidyResolvesKeeps ==
  ASSUME IInv, NEW p \in Projects, TidyResolves(p)
  PROVE  IInv'
<1>1. job[p].cmd = "tidy" /\ job[p].at = "graph" /\ job[p].frontier \subseteq job[p].visited
  BY DEF TidyResolves, Runs
<1>2. /\ StepsOK(p) /\ CoverOK(p) /\ DraftOK(p) /\ GraphOK(p) /\ SettledOK(p)
      /\ UNCHANGED <<tags, imports, manifest, sum, dirs, files, torn, raced, owed, settled>>
  BY Types DEF TidyResolves, world, cache, history
<1>3. CASE Cyclic(job[p].edges)
  <2>1. job' = [job EXCEPT ![p] = Idle]
    BY <1>3 DEF TidyResolves, Finish
  <2>2. job'[p] = Idle /\ job'[p] \in Job
    BY <2>1, Types, IdleJob
  <2>3. Quiet(p)
    <3>1. Idle.at = "idle"
      BY DEF Idle
    <3> QED
      BY <1>1, <1>2, <2>1, <2>2, <3>1 DEF Quiet
  <2>4. StepsOK(p)' /\ CoverOK(p)' /\ DraftOK(p)' /\ GraphOK(p)'
    BY <1>1, <1>2, <2>2, <2>3
    DEF Quiet, StepsOK, CoverOK, DraftOK, GraphOK, Has, Writing, Fetching, OnePerPath, Idle
  <2>5. SettledOK(p)'
    BY <1>2, <2>2, <2>3, QuietSettled DEF SettledOK, Idle
  <2> QED
    BY <2>2, <2>3, <2>4, <2>5, QuietEnough DEF Idle, OnePerKey
<1>4. CASE ~Cyclic(job[p].edges)
  <2>1. PICK f \in SUBSET Keys, d \in SUBSET Require : f = job[p].frontier /\ d = job[p].draft
    BY Types DEF Job
  <2> DEFINE raise(r) == [r EXCEPT !.version = Selected(f, r.path)]
  <2>2. ASSUME NEW r \in d
        PROVE  /\ KeyOf(r) \in f /\ r.version \in Nat
               /\ raise(r) \in Require /\ KeyOf(raise(r)) \in f /\ AtMost(f, raise(r))
               /\ raise(r).path = r.path /\ raise(r).go = r.go /\ raise(r).version >= r.version
               /\ AtMost(f, r) => raise(r) = r
    <3>1. KeyOf(r) \in f
      BY <1>1, <1>2, <2>1 DEF GraphOK
    <3>2. r \in Require /\ KeyOf(r)[1] = r.path /\ KeyOf(r)[2] = r.version /\ r.version \in Nat
      BY DEF KeyOf, Require, Versions
    <3>3. PICK v \in Versions : v = Selected(f, r.path)
      BY <3>1, <3>2, SelectedIs
    <3>4. <<r.path, v>> \in f /\ (\A l \in f : l[1] = r.path => l[2] <= v) /\ v \in Nat
      BY <3>1, <3>2, <3>3, SelectedIs DEF Versions
    <3>5. raise(r) = [r EXCEPT !.version = v]
      BY <3>3
    <3>6. /\ raise(r) \in Require /\ raise(r).path = r.path /\ raise(r).version = v
          /\ raise(r).go = r.go
      BY <3>2, <3>5 DEF Require
    <3>7. v >= r.version
      BY <3>1, <3>2, <3>4
    <3>8. ASSUME AtMost(f, r) PROVE raise(r) = r
      <4>1. v <= r.version
        BY <3>4, <3>8 DEF AtMost
      <4>2. v = r.version
        BY <3>2, <3>4, <3>7, <4>1
      <4> QED
        BY <3>2, <3>5, <4>2 DEF Require
    <3> HIDE DEF raise
    <3> QED
      BY <3>1, <3>2, <3>4, <3>6, <3>7, <3>8 DEF KeyOf, AtMost
  <2>3. PICK dd \in SUBSET Require : dd = {raise(r) : r \in d}
    <3> HIDE DEF raise
    <3>1. \A r \in d : raise(r) \in Require
      BY <2>2
    <3>2. {raise(r) : r \in d} \in SUBSET Require
      BY <3>1
    <3> QED
      BY <3>2
  <2>4. job' = [job EXCEPT ![p] = [job[p] EXCEPT !.at = "writeMod", !.draft = dd]]
    <3>1. dd = {[r EXCEPT !.version = Selected(job[p].frontier, r.path)] : r \in job[p].draft}
      BY <2>1, <2>3
    <3>2. job' = [job EXCEPT ![p].at = "writeMod",
                    ![p].draft = {[r EXCEPT !.version = Selected(job[p].frontier, r.path)]
                                    : r \in job[p].draft}]
      BY <1>4, Zenon DEF TidyResolves
    <3> QED
      BY <3>1, <3>2
  <2>5. job'[p] = [job[p] EXCEPT !.at = "writeMod", !.draft = dd]
    BY <2>4, Types
  <2>6. job'[p] \in Job /\ job'[p].at = "writeMod" /\ job'[p].draft = dd
    <3>1. PICK j \in Job : j = job[p]
      BY Types
    <3>2. /\ [j EXCEPT !.at = "writeMod", !.draft = dd] \in Job
          /\ [j EXCEPT !.at = "writeMod", !.draft = dd].at = "writeMod"
          /\ [j EXCEPT !.at = "writeMod", !.draft = dd].draft = dd
      BY DEF Job, Stages
    <3> QED
      BY <2>5, <3>1, <3>2
  <2>7. Quiet(p)
    BY <1>1, <1>2, <2>4, <2>5, <2>6 DEF Quiet
  <2>8. /\ job'[p].cmd = "tidy" /\ job'[p].todo = job[p].todo /\ job'[p].ledger = job[p].ledger
        /\ job'[p].whole = job[p].whole /\ job'[p].frontier = f
        /\ job'[p].visited = job[p].visited
    BY <1>1, <2>1, <2>5, Types DEF Job
  <2> HIDE DEF raise
  <2>9. StepsOK(p)'
    <3>1. OnePerPath(dd)
      BY <1>2, <2>1, <2>2, <2>3 DEF StepsOK, OnePerPath
    <3> QED
      BY <1>2, <2>6, <2>8, <3>1 DEF StepsOK, Writing, Fetching
  <2>10. CoverOK(p)'
    BY <1>1, <1>2, <2>6, <2>8 DEF CoverOK, Has
  <2>11. DraftOK(p)'
    <3>1. \A r \in dd : r.path \in imports[p] \/ r.go
      BY <1>1, <1>2, <2>1, <2>2, <2>3 DEF DraftOK
    <3>2. ASSUME NEW r \in manifest[p], r.path \in imports[p]
          PROVE  \E s \in dd : s.path = r.path /\ s.version >= r.version
      <4>1. PICK s \in d : s.path = r.path /\ s.version >= r.version
        BY <1>1, <1>2, <2>1, <3>2 DEF DraftOK
      <4>2. raise(s) \in dd /\ raise(s).path = r.path /\ raise(s).version >= s.version
        BY <2>2, <2>3, <4>1
      <4>3. raise(s).version \in Nat /\ s.version \in Nat /\ r.version \in Nat
        BY <2>2, Types DEF Require, Versions
      <4> QED
        BY <4>1, <4>2, <4>3
    <3>3. \A m : Required(d, m) # {} => Required(dd, m) # {}
      BY <2>2, <2>3 DEF Required
    <3> QED
      BY <1>1, <1>2, <2>1, <2>6, <2>8, <3>1, <3>2, <3>3 DEF DraftOK, Fetching
  <2>12. GraphOK(p)'
    <3>1. \A r \in dd : KeyOf(r) \in f /\ AtMost(f, r)
      BY <2>2, <2>3
    <3>2. job[p].todo = {} /\ f # {} /\ f \subseteq job[p].visited
      BY <1>1, <1>2, <2>1 DEF GraphOK
    <3>3. \A k \in job[p].visited : job[p].whole =>
            Whole(k) /\ (GalaMod \in files[k] => Requires[k] \subseteq f)
      BY <1>1, <1>2, <2>1 DEF GraphOK, Fetching
    <3> QED
      BY <1>2, <2>6, <2>8, <3>1, <3>2, <3>3 DEF GraphOK, Whole, Writing, Fetching, AtMost
  <2>13. SettledOK(p)'
    <3>1. ASSUME p \in settled PROVE dd = manifest[p] /\ job[p].todo = {}
      <4>1. d = manifest[p] /\ job[p].todo = {}
        BY <1>1, <1>2, <2>1, <3>1 DEF SettledOK
      <4>2. \A r \in d : AtMost(f, r)
        <5>1. PICK keys \in SUBSET Keys : f \subseteq keys /\ \A r \in d : AtMost(keys, r)
          BY <1>2, <2>1, <3>1, <4>1 DEF SettledOK
        <5> QED
          BY <5>1 DEF AtMost
      <4> QED
        BY <2>2, <2>3, <4>1, <4>2
    <3> QED
      BY <1>1, <1>2, <2>1, <2>6, <2>7, <2>8, <3>1, QuietSettled DEF SettledOK, Fetching
  <2> QED
    BY <2>6, <2>7, <2>8, <2>9, <2>10, <2>11, <2>12, <2>13, LedgerIs, QuietEnough
<1> QED
  BY <1>3, <1>4

-----------------------------------------------------------------------------
(* The steps that write the cache, the two files or the world.              *)

\* Enough for a step: its own project's part, growth, and the others at rest.
LEMMA OneStep ==
  ASSUME IInv, NEW p \in Projects, SharedOK', Grows, ProjectOK(p)',
         \A q \in Projects : q # p => Rests(q)
  PROVE  IInv'
<1>1. \A q \in Projects : q # p => ProjectOK(q)'
  BY OthersKeep DEF IInv
<1> QED
  BY <1>1 DEF IInv

\* What p has hashed before it keeps: its sums and its ledger.
LEMMA HashesStay ==
  ASSUME IInv, NEW p \in Projects, Grows
  PROVE  /\ \A e \in sum[p] : HashOK(p, e[1], e[2])'
         /\ \A e \in job[p].ledger : HashOK(p, e[1], e[2])'
<1>1. /\ \A e \in sum[p] : e[1] \in Keys /\ HashOK(p, e[1], e[2])
      /\ \A e \in job[p].ledger : e[1] \in Keys /\ HashOK(p, e[1], e[2])
  BY Types DEF HashesOK, Job
<1> QED
  BY <1>1, HashGrows

\* Nobody else storing k means its directory is whole or torn.
LEMMA RacedOrWhole ==
  ASSUME IInv, NEW p \in Projects, NEW k \in dirs, ~OthersStoring(p, k),
         job[p].at = "copy" /\ job[p].want = k => Whole(k)
  PROVE  Whole(k) \/ k \in torn
<1>1. Whole(k) \/ k \in torn \/ \E q \in Projects : job[q].at = "copy" /\ job[q].want = k
  BY DEF IInv, SharedOK
<1> QED
  BY <1>1 DEF OthersStoring

\* What was fetched has its hash: of a whole module, or of one that another
\* command was storing meanwhile.
LEMMA FetchedKeeps ==
  ASSUME IInv, NEW p \in Projects, Fetched(p), job[p].at \in {"fetch", "copy"},
         NEW k \in dirs, k = job[p].want, job[p].at = "copy" => Whole(k),
         UNCHANGED <<tags, imports, manifest, sum, dirs, files, torn, owed, settled>>
  PROVE  IInv'
<1>1. k \in Keys /\ files[k] \in SUBSET AllFiles
  BY DEF IInv, SharedOK
<1>2. PICK w \in BOOLEAN : w = (job[p].whole /\ Whole(k))
  OBVIOUS
<1>3. job' = [job EXCEPT ![p] =
                [job[p] EXCEPT !.at = "fetched", !.got = files[k], !.left = {}, !.whole = w]]
  BY <1>2 DEF Fetched, Hash, Whole
<1>4. job'[p] = [job[p] EXCEPT !.at = "fetched", !.got = files[k], !.left = {}, !.whole = w]
  BY <1>3, Types
<1>5. /\ job'[p] \in Job /\ job'[p].at = "fetched" /\ job'[p].got = files[k] /\ job'[p].whole = w
  <2>1. PICK j \in Job : j = job[p]
    BY Types
  <2>2. /\ [j EXCEPT !.at = "fetched", !.got = files[k], !.left = {}, !.whole = w] \in Job
        /\ [j EXCEPT !.at = "fetched", !.got = files[k], !.left = {}, !.whole = w].at = "fetched"
        /\ [j EXCEPT !.at = "fetched", !.got = files[k], !.left = {}, !.whole = w].got = files[k]
        /\ [j EXCEPT !.at = "fetched", !.got = files[k], !.left = {}, !.whole = w].left = {}
        /\ [j EXCEPT !.at = "fetched", !.got = files[k], !.left = {}, !.whole = w].whole = w
    BY <1>1 DEF Job, Stages
  <2> QED
    BY <1>4, <2>1, <2>2
<1>6. /\ job'[p].cmd = job[p].cmd /\ job'[p].want = k /\ job'[p].draft = job[p].draft
      /\ job'[p].ledger = job[p].ledger /\ job'[p].todo = job[p].todo
      /\ job'[p].frontier = job[p].frontier /\ job'[p].visited = job[p].visited
  BY <1>4, Types DEF Job
<1>7. \A q \in Projects : q # p => job'[q] = job[q]
  BY <1>3, Types
<1>8. raced \subseteq raced' /\ (OthersStoring(p, k) => <<p, k>> \in raced')
  BY DEF Fetched
<1>9. SharedOK'
  <2>1. ASSUME NEW l \in dirs', ~Whole(l)', l \notin torn'
        PROVE  \E q \in Projects : job'[q].at = "copy" /\ job'[q].want = l
    <3>1. l \in dirs /\ ~Whole(l) /\ l \notin torn
      BY <2>1 DEF Whole
    <3>2. PICK q \in Projects : job[q].at = "copy" /\ job[q].want = l
      BY <3>1 DEF IInv, SharedOK
    <3>3. q # p
      BY <3>1, <3>2
    <3> QED
      BY <1>7, <3>2, <3>3
  <2>2. job' \in [Projects -> Job]
    BY <1>3, <1>4, <1>5, Types
  <2> QED
    BY <2>1, <2>2 DEF IInv, SharedOK, Whole
<1>10. Grows
  <2>1. ASSUME NEW l \in dirs, ~Storing(l) PROVE ~Storing(l)'
    BY <1>5, <1>7, <2>1 DEF Storing
  <2>2. \A l \in Keys : files[l] \subseteq Contents[l[1]]
    BY DEF IInv, SharedOK
  <2> QED
    BY <1>8, <2>1, <2>2 DEF Grows
<1>11. \A q \in Projects : q # p => Rests(q)
  BY <1>7 DEF Rests
<1>12. /\ StepsOK(p) /\ HashesOK(p) /\ CoverOK(p) /\ DraftOK(p) /\ GraphOK(p) /\ SettledOK(p)
  BY Types
<1>13. StepsOK(p)'
  BY <1>5, <1>6, <1>12 DEF StepsOK, Fetching, Writing
<1>14. HashesOK(p)'
  <2>1. HashOK(p, k, files[k])'
    <3>1. PICK hash : hash = files[k]
      OBVIOUS
    <3>2. HashOK(p, k, hash)'
      <4>1. k \in dirs' /\ hash = files'[k] /\ hash \subseteq Contents[k[1]]
        BY <1>1, <3>1 DEF IInv, SharedOK
      <4>2. CASE OthersStoring(p, k)
        BY <1>8, <4>1, <4>2 DEF HashOK
      <4>3. CASE ~OthersStoring(p, k)
        <5>1. ~Storing(k)'
          BY <1>5, <1>7, <4>3 DEF OthersStoring, Storing
        <5>2. Whole(k) \/ k \in torn
          BY <4>3, RacedOrWhole
        <5>3. Whole(k)' \/ k \in torn'
          BY <5>2 DEF Whole
        <5> QED
          BY <4>1, <5>1, <5>3 DEF HashOK
      <4> QED
        BY <4>2, <4>3
    <3> QED
      BY <3>1, <3>2 DEF HashOK, Whole, Storing
  <2>2. HashOK(p, job[p].want, job[p].got)'
    BY <1>5, <1>6, <2>1 DEF HashOK, Whole, Storing
  <2>3. /\ \A e \in sum[p] : HashOK(p, e[1], e[2])'
        /\ \A e \in job[p].ledger : HashOK(p, e[1], e[2])'
    BY <1>10, HashesStay
  <2> QED
    BY <1>6, <1>12, <2>2, <2>3 DEF HashesOK
<1>15. CoverOK(p)'
  BY <1>5, <1>6, <1>12 DEF CoverOK, Has, Fetching, Writing
<1>16. DraftOK(p)'
  <2>1. DraftOK(p) /\ job[p].at \in Fetching
    BY <1>12 DEF Fetching
  <2>2. /\ job'[p].at \in Fetching /\ imports'[p] = imports[p] /\ manifest'[p] = manifest[p]
        /\ job'[p].whole => job[p].whole
    BY <1>2, <1>5 DEF Fetching
  <2> QED
    BY <1>6, <2>1, <2>2 DEF DraftOK
<1>17. GraphOK(p)'
  <2>1. w => job[p].whole /\ Whole(job[p].want)'
    BY <1>2, <1>6 DEF Whole
  <2>2. job[p].cmd = "tidy" /\ job[p].frontier # {} =>
          /\ job[p].todo = {} /\ \A r \in job[p].draft : KeyOf(r) \in job[p].frontier
          /\ k \in job[p].frontier
    BY <1>6, <1>12 DEF GraphOK, Fetching
  <2>3. job[p].cmd = "tidy" /\ w => \A l \in job[p].visited :
          \/ l = k
          \/ Whole(l)' /\ (GalaMod \in files'[l] => Requires[l] \subseteq job[p].frontier)
    BY <1>2, <1>12 DEF GraphOK, Whole, Fetching
  <2>4. job[p].cmd = "tidy" /\ job[p].frontier = {} => job[p].visited = {}
    BY <1>12 DEF GraphOK
  <2> QED
    BY <1>5, <1>6, <2>1, <2>2, <2>3, <2>4 DEF GraphOK, Fetching, Writing
<1>18. SettledOK(p)'
  BY <1>5, <1>6, <1>12 DEF SettledOK, Closed, Whole, AtMost, Fetching
<1> QED
  BY <1>9, <1>10, <1>11, <1>13, <1>14, <1>15, <1>16, <1>17, <1>18, OneStep DEF ProjectOK

\* A cached module is hashed as it is.
LEMMA FetchHitKeeps ==
  ASSUME IInv, NEW p \in Projects, FetchHit(p)
  PROVE  IInv'
<1>1. /\ job[p].at = "fetch" /\ job[p].want \in dirs /\ Fetched(p)
      /\ UNCHANGED <<tags, imports, manifest, sum, dirs, files, torn, owed, settled>>
  BY DEF FetchHit, world, cache
<1> QED
  BY <1>1, FetchedKeeps

\* A stored module is hashed when its last file was copied.
LEMMA StoreEndsKeeps ==
  ASSUME IInv, NEW p \in Projects, StoreEnds(p)
  PROVE  IInv'
<1>1. /\ job[p].at = "copy" /\ job[p].left = {} /\ Fetched(p)
      /\ UNCHANGED <<tags, imports, manifest, sum, dirs, files, torn, owed, settled>>
  BY DEF StoreEnds, world, cache
<1>2. PICK k \in dirs : k = job[p].want
  BY <1>1, Types DEF StepsOK
<1>3. Whole(k)
  BY <1>1, <1>2, Types DEF StepsOK, Whole
<1> QED
  BY <1>1, <1>2, <1>3, FetchedKeeps

\* A step of the copying of a module: its directory and its files only grow.
LEMMA StoreStep ==
  ASSUME IInv, NEW p \in Projects, job[p].at \in {"clone", "copy"},
         UNCHANGED <<tags, imports, manifest, sum, torn, raced, owed, settled>>,
         NEW k \in Keys, k = job[p].want,
         NEW left \in SUBSET AllFiles, NEW added \in SUBSET Contents[k[1]],
         job' = [job EXCEPT ![p] = [job[p] EXCEPT !.at = "copy", !.left = left]],
         dirs' = dirs \cup {k}, files' = [files EXCEPT ![k] = files[k] \cup added],
         left \cup files'[k] = Contents[k[1]]
  PROVE  IInv'
<1>1. job'[p] = [job[p] EXCEPT !.at = "copy", !.left = left]
  BY Types
<1>2. job'[p] \in Job /\ job'[p].at = "copy" /\ job'[p].left = left
  <2>1. PICK j \in Job : j = job[p]
    BY Types
  <2>2. [j EXCEPT !.at = "copy", !.left = left] \in Job
    BY DEF Job, Stages
  <2>3. [j EXCEPT !.at = "copy", !.left = left].at = "copy"
        /\ [j EXCEPT !.at = "copy", !.left = left].left = left
    BY DEF Job
  <2> QED
    BY <1>1, <2>1, <2>2, <2>3
<1>3. /\ job'[p].cmd = job[p].cmd /\ job'[p].want = k /\ job'[p].draft = job[p].draft
      /\ job'[p].ledger = job[p].ledger /\ job'[p].todo = job[p].todo /\ job'[p].got = job[p].got
      /\ job'[p].frontier = job[p].frontier /\ job'[p].visited = job[p].visited
      /\ job'[p].whole = job[p].whole
  BY <1>1, Types DEF Job
<1>4. \A q \in Projects : q # p => job'[q] = job[q]
  BY Types
<1>5. files \in [Keys -> SUBSET AllFiles] /\ \A l \in Keys : files[l] \subseteq Contents[l[1]]
  BY DEF IInv, SharedOK
<1>6. /\ \A l \in Keys : l # k => files'[l] = files[l]
      /\ files'[k] = files[k] \cup added
  BY <1>5
<1>7. Contents[k[1]] \subseteq AllFiles
  BY DEF AllFiles, Keys
<1>8. \A l \in Keys : Whole(l) => Whole(l)'
  <2>1. SUFFICES ASSUME NEW l \in Keys, Whole(l) PROVE Whole(l)'
    OBVIOUS
  <2>2. CASE l # k
    BY <1>6, <2>1, <2>2 DEF Whole
  <2>3. CASE l = k
    <3>1. files[k] = Contents[k[1]] /\ added \subseteq Contents[k[1]]
      BY <2>1, <2>3 DEF Whole
    <3> QED
      BY <1>6, <2>3, <3>1 DEF Whole
  <2> QED
    BY <2>2, <2>3
<1>9. SharedOK'
  <2>1. ASSUME NEW l \in dirs', ~Whole(l)', l \notin torn'
        PROVE  \E q \in Projects : job'[q].at = "copy" /\ job'[q].want = l
    <3>1. CASE l = k
      BY <1>2, <1>3, <3>1
    <3>2. CASE l # k
      <4>1. l \in dirs /\ l \in Keys
        BY <2>1, <3>2 DEF IInv, SharedOK
      <4>2. PICK q \in Projects : job[q].at = "copy" /\ job[q].want = l
        BY <1>8, <2>1, <4>1 DEF IInv, SharedOK
      <4> QED
        BY <1>4, <3>2, <4>2
    <3> QED
      BY <3>1, <3>2
  <2>2. job' \in [Projects -> Job]
    BY <1>1, <1>2, Types
  <2>3. files' \in [Keys -> SUBSET AllFiles]
    BY <1>5, <1>7
  <2>4. \A l \in Keys : files'[l] \subseteq Contents[l[1]] /\ (l \notin dirs' => files'[l] = {})
    BY <1>5, <1>6 DEF IInv, SharedOK
  <2> QED
    BY <2>1, <2>2, <2>3, <2>4 DEF IInv, SharedOK
<1>10. Grows
  <2>1. ASSUME NEW l \in dirs, ~Storing(l) PROVE ~Storing(l)' /\ files'[l] = files[l]
    <3>1. l # k /\ l \in Keys
      BY <2>1 DEF Storing, IInv, SharedOK
    <3>2. ~Storing(l)'
      BY <1>3, <1>4, <2>1, <3>1 DEF Storing
    <3> QED
      BY <1>6, <3>1, <3>2
  <2>2. \A l \in Keys : files[l] \subseteq files'[l] /\ files'[l] \subseteq Contents[l[1]]
    BY <1>5, <1>6
  <2> QED
    BY <2>1, <2>2 DEF Grows
<1>11. \A q \in Projects : q # p => Rests(q)
  BY <1>4 DEF Rests
<1>12. /\ StepsOK(p) /\ HashesOK(p) /\ CoverOK(p) /\ DraftOK(p) /\ GraphOK(p) /\ SettledOK(p)
  BY Types
<1>13. StepsOK(p)'
  BY <1>2, <1>3, <1>12 DEF StepsOK, Fetching, Writing
<1>14. HashesOK(p)'
  <2>1. /\ \A e \in sum[p] : HashOK(p, e[1], e[2])'
        /\ \A e \in job[p].ledger : HashOK(p, e[1], e[2])'
    BY <1>10, HashesStay
  <2> QED
    BY <1>2, <1>3, <1>12, <2>1 DEF HashesOK, Writing
<1>15. CoverOK(p)'
  BY <1>2, <1>3, <1>12 DEF CoverOK, Has, Fetching, Writing
<1>16. DraftOK(p)'
  BY <1>2, <1>3, <1>12 DEF DraftOK, Fetching
<1>17. GraphOK(p)'
  <2>1. \A l \in job[p].visited : Whole(l) => Whole(l)' /\ files'[l] = files[l]
    <3>1. \A l \in job[p].visited : l \in Keys
      BY Types DEF Job
    <3> QED
      BY <1>10, <3>1, WholeGrows
  <2> QED
    BY <1>2, <1>3, <1>12, <2>1 DEF GraphOK, AtMost, Fetching, Writing
<1>18. SettledOK(p)'
  <2>1. \A keys \in SUBSET Keys : Closed(keys) => Closed(keys)'
    BY <1>10, WholeGrows DEF Closed
  <2> QED
    BY <1>2, <1>3, <1>12, <2>1 DEF SettledOK, AtMost, Fetching
<1> QED
  BY <1>9, <1>10, <1>11, <1>13, <1>14, <1>15, <1>16, <1>17, <1>18, OneStep DEF ProjectOK

\* Storing makes the directory, which from then on counts as cached.
LEMMA StoreBeginsKeeps ==
  ASSUME IInv, NEW p \in Projects, StoreBegins(p)
  PROVE  IInv'
<1>1. PICK k \in Keys : k = job[p].want
  BY Types DEF Job
<1>2. Contents[k[1]] \in SUBSET AllFiles
  BY DEF AllFiles, Keys
<1>3. PICK none \in SUBSET Contents[k[1]] : none = {}
  OBVIOUS
<1>5. files[k] \subseteq Contents[k[1]] /\ files = [files EXCEPT ![k] = files[k] \cup none]
  BY <1>3 DEF IInv, SharedOK
<1>4. /\ job[p].at = "clone" /\ dirs' = dirs \cup {k} /\ files' = files
      /\ job' = [job EXCEPT ![p] = [job[p] EXCEPT !.at = "copy", !.left = Contents[k[1]]]]
      /\ UNCHANGED <<tags, imports, manifest, sum, torn, raced, owed, settled>>
  BY <1>1 DEF StoreBegins, world, history
<1>6. files' = [files EXCEPT ![k] = files[k] \cup none] /\ Contents[k[1]] \cup files'[k] = Contents[k[1]]
  BY <1>4, <1>5
<1> QED
  BY <1>1, <1>2, <1>4, <1>6, StoreStep

\* Storing adds one file, to the directory it has made.
LEMMA StoreCopiesKeeps ==
  ASSUME IInv, NEW p \in Projects, StoreCopies(p)
  PROVE  IInv'
<1>1. PICK k \in Keys, left \in SUBSET AllFiles : k = job[p].want /\ left = job[p].left
  BY Types DEF Job
<1>2. PICK f \in left : /\ files' = [files EXCEPT ![k] = @ \cup {f}]
                        /\ job' = [job EXCEPT ![p].left = @ \ {f}]
  BY <1>1 DEF StoreCopies
<1>3. job[p].at = "copy"
  BY DEF StoreCopies
<1>4. k \in dirs /\ left \cup files[k] = Contents[k[1]]
  BY <1>1, <1>3, Types DEF StepsOK
<1>5. {f} \in SUBSET Contents[k[1]] /\ left \ {f} \in SUBSET AllFiles /\ dirs = dirs \cup {k}
  BY <1>4
<1>6. job' = [job EXCEPT ![p] = [job[p] EXCEPT !.at = "copy", !.left = left \ {f}]]
  BY <1>1, <1>2, <1>3, Types DEF Job
<1>7. files' = [files EXCEPT ![k] = files[k] \cup {f}]
  BY <1>2
<1>8. (left \ {f}) \cup files'[k] = Contents[k[1]]
  BY <1>4, <1>7 DEF IInv, SharedOK
<1>9. dirs' = dirs /\ UNCHANGED <<tags, imports, manifest, sum, torn, raced, owed, settled>>
  BY DEF StoreCopies, world, history
<1> QED
  BY <1>1, <1>3, <1>5, <1>6, <1>7, <1>8, <1>9, StoreStep

\* A step that leaves the cache, and in which p neither copies nor begins to.
LEMMA CacheStays ==
  ASSUME IInv, NEW p \in Projects,
         UNCHANGED <<dirs, files>>, torn \subseteq torn', raced \subseteq raced',
         job[p].at = "copy" => Whole(job[p].want) \/ job[p].want \in torn',
         job' = [job EXCEPT ![p] = job'[p]], job'[p] \in Job, job'[p].at \notin {"clone", "copy"},
         /\ tags' \in [Modules -> SUBSET Versions] /\ \A m \in Modules : tags'[m] # {}
         /\ imports' \in [Projects -> SUBSET Modules] /\ manifest' \in [Projects -> SUBSET Require]
         /\ sum' \in [Projects -> SUBSET (Keys \X SUBSET AllFiles)]
  PROVE  SharedOK' /\ Grows /\ \A q \in Projects : q # p => job'[q] = job[q]
<1>1. \A q \in Projects : q # p => job'[q] = job[q]
  BY Types
<1>2. SharedOK'
  <2>1. ASSUME NEW k \in dirs', ~Whole(k)', k \notin torn'
        PROVE  \E q \in Projects : job'[q].at = "copy" /\ job'[q].want = k
    <3>1. k \in dirs /\ ~Whole(k) /\ k \notin torn
      BY <2>1 DEF Whole
    <3>2. PICK q \in Projects : job[q].at = "copy" /\ job[q].want = k
      BY <3>1 DEF IInv, SharedOK
    <3>3. q # p
      BY <2>1, <3>1, <3>2
    <3> QED
      BY <1>1, <3>2, <3>3
  <2>2. job' \in [Projects -> Job]
    BY Types
  <2>3. /\ dirs' \subseteq Keys /\ files' \in [Keys -> SUBSET AllFiles]
        /\ \A k \in Keys : files'[k] \subseteq Contents[k[1]] /\ (k \notin dirs' => files'[k] = {})
    BY DEF IInv, SharedOK
  <2> QED
    BY <2>1, <2>2, <2>3 DEF SharedOK
<1>3. Grows
  <2>1. ASSUME NEW k \in dirs, ~Storing(k) PROVE ~Storing(k)'
    BY <1>1, <2>1 DEF Storing
  <2>2. \A k \in Keys : files[k] \subseteq Contents[k[1]]
    BY DEF IInv, SharedOK
  <2> QED
    BY <2>1, <2>2 DEF Grows
<1> QED
  BY <1>1, <1>2, <1>3

\* gala.mod gets the draft; the sums are the next step.
LEMMA WriteModKeeps ==
  ASSUME IInv, NEW p \in Projects, WriteMod(p)
  PROVE  IInv'
<1>1. job[p].at = "writeMod"
  BY DEF WriteMod
<1>2. /\ UNCHANGED <<tags, imports, sum, dirs, files, torn, raced, owed, settled>>
      /\ manifest' = [manifest EXCEPT ![p] = job[p].draft]
      /\ job' = [job EXCEPT ![p] = [job[p] EXCEPT !.at = "writeSum"]]
  BY DEF WriteMod, world, cache, history
<1>3. job'[p] = [job[p] EXCEPT !.at = "writeSum"]
  BY <1>2, Types
<1>4. /\ job'[p] \in Job /\ job'[p].at = "writeSum"
  <2>1. PICK j \in Job : j = job[p]
    BY Types
  <2>2. /\ [j EXCEPT !.at = "writeSum"] \in Job
        /\ [j EXCEPT !.at = "writeSum"].at = "writeSum"
    BY DEF Job, Stages
  <2> QED
    BY <1>3, <2>1, <2>2
<1>5. /\ job'[p].cmd = job[p].cmd /\ job'[p].want = job[p].want /\ job'[p].draft = job[p].draft
      /\ job'[p].ledger = job[p].ledger /\ job'[p].todo = job[p].todo /\ job'[p].got = job[p].got
      /\ job'[p].frontier = job[p].frontier /\ job'[p].visited = job[p].visited
      /\ job'[p].whole = job[p].whole
  BY <1>3, Types DEF Job
<1>6. /\ manifest' \in [Projects -> SUBSET Require] /\ manifest'[p] = job[p].draft
      /\ \A q \in Projects : q # p => manifest'[q] = manifest[q]
      /\ job[p].draft \in SUBSET Require
  <2>1. job[p].draft \in SUBSET Require
    BY Types DEF Job
  <2>2. manifest \in [Projects -> SUBSET Require]
    BY DEF IInv, SharedOK
  <2> QED
    BY <1>2, <2>1, <2>2
<1>7. SharedOK' /\ Grows /\ \A q \in Projects : q # p => job'[q] = job[q]
  <2>1. job' = [job EXCEPT ![p] = job'[p]]
    BY <1>2, <1>3
  <2>2. /\ tags' \in [Modules -> SUBSET Versions] /\ \A m \in Modules : tags'[m] # {}
        /\ imports' \in [Projects -> SUBSET Modules]
        /\ sum' \in [Projects -> SUBSET (Keys \X SUBSET AllFiles)]
    BY <1>2 DEF IInv, SharedOK
  <2> QED
    BY <1>1, <1>2, <1>4, <1>6, <2>1, <2>2, CacheStays
<1>8. \A q \in Projects : q # p => Rests(q)
  BY <1>2, <1>6, <1>7 DEF Rests
<1>9. /\ StepsOK(p) /\ HashesOK(p) /\ CoverOK(p) /\ DraftOK(p) /\ GraphOK(p) /\ SettledOK(p)
  BY Types
<1>10. StepsOK(p)'
  BY <1>1, <1>4, <1>5, <1>6, <1>9 DEF StepsOK, Fetching, Writing
<1>11. HashesOK(p)'
  <2>1. /\ \A e \in sum[p] : HashOK(p, e[1], e[2])'
        /\ \A e \in job[p].ledger : HashOK(p, e[1], e[2])'
    BY <1>7, HashesStay
  <2>2. job[p].cmd = "add" => HashOK(p, job[p].want, job[p].got)'
    <3>1. PICK k, hash : k \in Keys /\ k = job[p].want /\ hash = job[p].got
      BY Types DEF Job
    <3>2. ASSUME job[p].cmd = "add" PROVE HashOK(p, k, hash)'
      BY <1>1, <1>7, <1>9, <3>1, <3>2, HashGrows DEF HashesOK, Writing
    <3> QED
      BY <1>5, <3>1, <3>2 DEF HashOK, Whole, Storing
  <2> QED
    BY <1>2, <1>4, <1>5, <1>9, <2>1, <2>2 DEF HashesOK, Writing
<1>12. CoverOK(p)'
  BY <1>1, <1>2, <1>4, <1>5, <1>6, <1>9 DEF CoverOK, Has, Fetching, Writing
<1>13. DraftOK(p)'
  <2>1. \A r \in job[p].draft : r.version \in Nat
    BY <1>6 DEF Require, Versions
  <2>2. job[p].cmd = "tidy" => job[p].todo = {}
    BY <1>1, <1>9 DEF GraphOK, Writing
  <2> QED
    BY <1>1, <1>2, <1>4, <1>5, <1>6, <1>9, <2>1, <2>2 DEF DraftOK, Fetching
<1>14. GraphOK(p)'
  BY <1>1, <1>2, <1>4, <1>5, <1>9 DEF GraphOK, Whole, AtMost, Fetching, Writing
<1>15. SettledOK(p)'
  <2>1. p \in settled => manifest'[p] = manifest[p]
    BY <1>1, <1>6, <1>9 DEF SettledOK, StepsOK, Writing
  <2>2. \A keys : Closed(keys) => Closed(keys)'
    BY <1>2 DEF Closed, Whole
  <2> QED
    BY <1>1, <1>2, <1>4, <1>5, <1>9, <2>1, <2>2 DEF SettledOK, AtMost, Fetching
<1> QED
  BY <1>7, <1>8, <1>10, <1>11, <1>12, <1>13, <1>14, <1>15, OneStep DEF ProjectOK

\* The job of a project whose command has ended.
LEMMA IdleOK ==
  ASSUME NEW p \in Projects, job'[p] = Idle, OnePerPath(manifest'[p]), SettledOK(p)',
         OnePerKey(sum'[p]), \A e \in sum'[p] : HashOK(p, e[1], e[2])',
         \A r \in manifest'[p] : Has(p, sum[p], r)'
  PROVE  ProjectOK(p)'
<1>1. StepsOK(p)'
  BY DEF StepsOK, Idle, Fetching, Writing, OnePerPath
<1>2. HashesOK(p)'
  BY DEF HashesOK, Idle, OnePerKey, Writing
<1>3. CoverOK(p)'
  BY DEF CoverOK, Idle
<1>4. DraftOK(p)' /\ GraphOK(p)'
  BY DEF DraftOK, GraphOK, Idle
<1> QED
  BY <1>1, <1>2, <1>3, <1>4 DEF ProjectOK

\* A kill forgets the job: a directory it was storing is torn, and sums it had
\* not written are owed.
LEMMA KillKeeps ==
  ASSUME IInv, NEW p \in Projects, Kill(p)
  PROVE  IInv'
<1>1. /\ UNCHANGED <<tags, imports, manifest, sum, dirs, files, raced>>
      /\ torn' = LeftTorn(p)
      /\ owed' = IF job[p].at = "writeSum" THEN owed \cup {<<p, KeyOf(r)>> : r \in job[p].draft}
                                          ELSE owed
      /\ settled' = settled \ {p} /\ job' = [job EXCEPT ![p] = Idle]
  BY DEF Kill, world, cache, Finish
<1>2. job'[p] = Idle /\ job'[p] \in Job /\ job'[p].at = "idle"
  <2>1. Idle.at = "idle"
    BY DEF Idle
  <2> QED
    BY <1>1, <2>1, Types, IdleJob
<1>3. SharedOK' /\ Grows /\ \A q \in Projects : q # p => job'[q] = job[q]
  <2>1. /\ job' = [job EXCEPT ![p] = job'[p]] /\ torn \subseteq torn'
        /\ job[p].at = "copy" => Whole(job[p].want) \/ job[p].want \in torn'
    BY <1>1, <1>2, LeftTornIs
  <2>2. /\ tags' \in [Modules -> SUBSET Versions] /\ \A m \in Modules : tags'[m] # {}
        /\ imports' \in [Projects -> SUBSET Modules] /\ manifest' \in [Projects -> SUBSET Require]
        /\ sum' \in [Projects -> SUBSET (Keys \X SUBSET AllFiles)]
    BY <1>1 DEF IInv, SharedOK
  <2> QED
    BY <1>1, <1>2, <2>1, <2>2, CacheStays
<1>4. \A q \in Projects : q # p => Rests(q)
  BY <1>1, <1>3 DEF Rests
<1>5. \A e \in sum'[p] : HashOK(p, e[1], e[2])'
  BY <1>1, <1>3, HashesStay
<1>6. ASSUME NEW r \in manifest'[p] PROVE Has(p, sum[p], r)'
  <2>1. CASE job[p].at = "writeSum"
    <3>1. r \in job[p].draft
      BY <1>1, <1>6, <2>1, Types DEF CoverOK
    <3> QED
      BY <1>1, <2>1, <3>1 DEF Has
  <2>2. CASE job[p].at # "writeSum"
    BY <1>1, <2>2, Types DEF CoverOK, Has
  <2> QED
    BY <2>1, <2>2
<1>7. SettledOK(p)' /\ OnePerPath(manifest'[p]) /\ OnePerKey(sum'[p])
  BY <1>1, Types DEF SettledOK, StepsOK, HashesOK
<1> QED
  BY <1>2, <1>3, <1>4, <1>5, <1>6, <1>7, IdleOK, OneStep

\* An edit of the imports unsettles its project.
LEMMA EditImportsKeeps ==
  ASSUME IInv, NEW p \in Projects, EditImports(p)
  PROVE  IInv'
<1>1. PICK ms \in SUBSET Modules : imports' = [imports EXCEPT ![p] = ms]
  BY DEF EditImports
<1>2. /\ job[p].at = "idle" /\ settled' = settled \ {p}
      /\ UNCHANGED <<tags, manifest, sum, dirs, files, job, torn, raced, owed>>
  BY DEF EditImports, cache
<1>3. imports' \in [Projects -> SUBSET Modules] /\ \A q \in Projects : q # p => imports'[q] = imports[q]
  BY <1>1 DEF IInv, SharedOK
<1>4. SharedOK' /\ Grows
  <2>1. /\ job' = [job EXCEPT ![p] = job'[p]] /\ job'[p] \in Job
    BY <1>2, Types
  <2>2. /\ tags' \in [Modules -> SUBSET Versions] /\ \A m \in Modules : tags'[m] # {}
        /\ manifest' \in [Projects -> SUBSET Require]
        /\ sum' \in [Projects -> SUBSET (Keys \X SUBSET AllFiles)]
    BY <1>2 DEF IInv, SharedOK
  <2> QED
    BY <1>2, <1>3, <2>1, <2>2, CacheStays
<1>5. \A q \in Projects : q # p => Rests(q)
  BY <1>2, <1>3 DEF Rests
<1>6. /\ StepsOK(p) /\ HashesOK(p) /\ CoverOK(p) /\ job[p].cmd = "none"
  BY <1>2, Types DEF StepsOK
<1>7. StepsOK(p)' /\ CoverOK(p)' /\ DraftOK(p)' /\ GraphOK(p)' /\ SettledOK(p)'
  BY <1>2, <1>6 DEF StepsOK, CoverOK, DraftOK, GraphOK, SettledOK, Has, Fetching, Writing
<1>8. HashesOK(p)'
  <2>1. /\ \A e \in sum[p] : HashOK(p, e[1], e[2])'
        /\ \A e \in job[p].ledger : HashOK(p, e[1], e[2])'
    BY <1>4, HashesStay
  <2> QED
    BY <1>2, <1>6, <2>1 DEF HashesOK, Writing
<1> QED
  BY <1>4, <1>5, <1>7, <1>8, OneStep DEF ProjectOK

\* A new version changes no project.
LEMMA PublishKeeps ==
  ASSUME IInv, NEW m \in Modules, Publish(m)
  PROVE  IInv'
<1>1. /\ tags' = [tags EXCEPT ![m] = Versions]
      /\ UNCHANGED <<imports, manifest, sum, dirs, files, job, torn, raced, owed, settled>>
  BY DEF Publish, cache, history
<1>2. SharedOK'
  <2>1. tags' \in [Modules -> SUBSET Versions] /\ \A n \in Modules : tags'[n] # {}
    BY <1>1 DEF IInv, SharedOK
  <2> QED
    BY <1>1, <2>1 DEF IInv, SharedOK, Whole
<1>3. Grows
  BY <1>1 DEF IInv, SharedOK, Grows, Storing
<1>4. \A q \in Projects : Rests(q)
  BY <1>1 DEF Rests
<1> QED
  BY <1>2, <1>3, <1>4, OthersKeep DEF IInv

\* gala.sum gets the ledger: it covers the manifest again.
LEMMA WriteSumKeeps ==
  ASSUME IInv, NEW p \in Projects, WriteSum(p)
  PROVE  IInv'
<1> DEFINE required == {KeyOf(r) : r \in job[p].draft}
<1>0. PICK hashed \in SUBSET (required \cap dirs) :
        /\ sum' = [sum EXCEPT ![p] = NewSum(p, hashed)]
        /\ owed' = IF job[p].cmd = "tidy"
                     THEN {o \in owed : o[1] # p} \cup {<<p, k>> : k \in required \ hashed}
                     ELSE owed
  BY DEF WriteSum
<1>1. /\ job[p].at = "writeSum"
      /\ UNCHANGED <<tags, imports, manifest, dirs, files, torn>>
      /\ sum' = [sum EXCEPT ![p] = NewSum(p, hashed)]
      /\ job' = [job EXCEPT ![p] = Idle]
      /\ job[p].cmd # "tidy" => owed' = owed /\ raced' = raced /\ settled' = settled
  BY <1>0 DEF WriteSum, world, cache, Finish
<1>2. job[p].cmd = "tidy" =>
        /\ owed' = {o \in owed : o[1] # p} \cup {<<p, k>> : k \in required \ hashed}
        /\ raced' = raced \cup {<<p, KeyOf(r)>> : r \in {s \in job[p].draft : OthersStoring(p, KeyOf(s))}}
        /\ settled' = IF job[p].whole THEN settled \cup {p} ELSE settled
  BY <1>0 DEF WriteSum
<1>3. /\ StepsOK(p) /\ HashesOK(p) /\ CoverOK(p) /\ DraftOK(p) /\ GraphOK(p) /\ SettledOK(p)
      /\ job[p] \in Job /\ job[p].cmd \in {"add", "update", "remove", "tidy"}
      /\ manifest[p] = job[p].draft
  BY <1>1, Types DEF StepsOK, CoverOK, Writing, Job, Commands
<1>4. NewSum(p, hashed) \in SUBSET (Keys \X SUBSET AllFiles)
  <2>1. /\ sum[p] \in SUBSET (Keys \X SUBSET AllFiles) /\ job[p].want \in Keys
        /\ job[p].ledger \in SUBSET (Keys \X SUBSET AllFiles) /\ job[p].got \in SUBSET AllFiles
    BY Types DEF Job
  <2>2. CASE job[p].cmd = "add"
    BY <2>1, <2>2 DEF NewSum, SumAdd
  <2>3. CASE job[p].cmd = "remove"
    BY <2>1, <2>3 DEF NewSum, SumRemove
  <2>4. CASE job[p].cmd = "update"
    BY <2>1, <2>4 DEF NewSum
  <2>5. CASE job[p].cmd = "tidy"
    <3>1. \A k \in hashed : k \in Keys /\ files[k] \in SUBSET AllFiles
      BY DEF IInv, SharedOK
    <3>2. NewSum(p, hashed) = {<<k, files[k]>> : k \in hashed}
      BY <2>5 DEF NewSum, Hash
    <3> QED
      BY <3>1, <3>2
  <2> QED
    BY <1>3, <2>2, <2>3, <2>4, <2>5
<1>5. /\ sum' \in [Projects -> SUBSET (Keys \X SUBSET AllFiles)] /\ sum'[p] = NewSum(p, hashed)
      /\ \A q \in Projects : q # p => sum'[q] = sum[q]
  <2>1. sum \in [Projects -> SUBSET (Keys \X SUBSET AllFiles)]
    BY DEF IInv, SharedOK
  <2> QED
    BY <1>1, <1>4, <2>1
<1>6. job'[p] = Idle /\ job'[p] \in Job /\ job'[p].at = "idle"
  <2>1. Idle.at = "idle"
    BY DEF Idle
  <2> QED
    BY <1>1, <2>1, Types, IdleJob
<1>7. SharedOK' /\ Grows /\ \A q \in Projects : q # p => job'[q] = job[q]
  <2>1. /\ job' = [job EXCEPT ![p] = job'[p]] /\ torn \subseteq torn' /\ raced \subseteq raced'
    BY <1>1, <1>2, <1>6
  <2>2. /\ tags' \in [Modules -> SUBSET Versions] /\ \A m \in Modules : tags'[m] # {}
        /\ imports' \in [Projects -> SUBSET Modules] /\ manifest' \in [Projects -> SUBSET Require]
    BY <1>1 DEF IInv, SharedOK
  <2> QED
    BY <1>1, <1>5, <1>6, <2>1, <2>2, CacheStays
<1>8. \A q \in Projects : q # p => Rests(q)
  <2>1. \A q \in Projects : q # p => (q \in settled' => q \in settled)
    BY <1>1, <1>2
  <2>2. \A q \in Projects, k \in Keys : q # p /\ <<q, k>> \in owed => <<q, k>> \in owed'
    BY <1>1, <1>2
  <2> QED
    BY <1>1, <1>5, <1>7, <2>1, <2>2 DEF Rests
<1>9. OnePerPath(manifest'[p])
  BY <1>1, <1>3 DEF StepsOK
<1>10. /\ \A e \in sum[p] : HashOK(p, e[1], e[2])'
       /\ \A e \in job[p].ledger : HashOK(p, e[1], e[2])'
  BY <1>7, HashesStay
<1>11. OnePerKey(sum'[p]) /\ \A e \in sum'[p] : HashOK(p, e[1], e[2])'
  <2>1. CASE job[p].cmd = "add"
    <3>1. PICK k, hash : k \in Keys /\ k = job[p].want /\ hash = job[p].got
      BY <1>3 DEF Job
    <3>2. HashOK(p, k, hash)'
      BY <1>1, <1>3, <1>7, <2>1, <3>1, HashGrows DEF HashesOK, Writing
    <3>3. sum'[p] = {e \in sum[p] : e[1] # k} \cup {<<k, hash>>}
      BY <1>5, <2>1, <3>1 DEF NewSum, SumAdd
    <3> QED
      BY <1>3, <1>10, <3>2, <3>3 DEF HashesOK, OnePerKey
  <2>2. CASE job[p].cmd = "remove"
    <3>1. sum'[p] \subseteq sum[p]
      BY <1>5, <2>2 DEF NewSum, SumRemove
    <3> QED
      BY <1>3, <1>10, <3>1 DEF HashesOK, OnePerKey
  <2>3. CASE job[p].cmd = "update"
    BY <1>3, <1>5, <1>10, <2>3 DEF HashesOK, NewSum
  <2>4. CASE job[p].cmd = "tidy"
    <3>1. sum'[p] = {<<k, files[k]>> : k \in hashed}
      BY <1>5, <2>4 DEF NewSum, Hash
    <3>2. ASSUME NEW k \in hashed, NEW hash, hash = files[k]
          PROVE  HashOK(p, k, hash)'
      <4>1. k \in dirs' /\ hash = files'[k] /\ hash \subseteq Contents[k[1]]
        BY <1>1, <3>2 DEF IInv, SharedOK
      <4>2. CASE OthersStoring(p, k)
        <5>1. <<p, k>> \in raced'
          BY <1>2, <2>4, <4>2
        <5> QED
          BY <4>1, <5>1 DEF HashOK
      <4>3. CASE ~OthersStoring(p, k)
        <5>1. ~Storing(k)'
          BY <1>6, <1>7, <4>3 DEF OthersStoring, Storing
        <5>2. Whole(k) \/ k \in torn
          BY <1>1, <4>3, RacedOrWhole
        <5>3. Whole(k)' \/ k \in torn'
          BY <1>1, <5>2 DEF Whole
        <5> QED
          BY <4>1, <5>1, <5>3 DEF HashOK
      <4> QED
        BY <4>2, <4>3
    <3>3. ASSUME NEW e \in sum'[p] PROVE HashOK(p, e[1], e[2])'
      <4>1. PICK k \in hashed : e = <<k, files[k]>>
        BY <3>1
      <4>2. e[1] = k /\ e[2] = files[k]
        BY <4>1
      <4> QED
        BY <3>2, <4>2
    <3> QED
      BY <3>1, <3>3 DEF OnePerKey
  <2> QED
    BY <1>3, <2>1, <2>2, <2>3, <2>4
<1>12. ASSUME NEW r \in manifest'[p] PROVE Has(p, sum[p], r)'
  <2>1. r \in job[p].draft
    BY <1>1, <1>3, <1>12
  <2>2. CASE job[p].cmd = "add"
    <3>1. sum'[p] = {e \in sum[p] : e[1] # job[p].want} \cup {<<job[p].want, job[p].got>>}
      BY <1>5, <2>2 DEF NewSum, SumAdd
    <3>2. CASE KeyOf(r) = job[p].want
      <4>1. <<job[p].want, job[p].got>>[1] = KeyOf(r) /\ <<job[p].want, job[p].got>> \in sum'[p]
        BY <3>1, <3>2
      <4> QED
        BY <4>1 DEF Has
    <3>3. CASE KeyOf(r) # job[p].want
      BY <1>1, <1>3, <2>1, <2>2, <3>1, <3>3 DEF CoverOK, Has
    <3> QED
      BY <3>2, <3>3
  <2>3. CASE job[p].cmd = "remove"
    <3>1. Has(p, sum[p], r) /\ r.path # job[p].want[1]
      BY <1>3, <2>1, <2>3 DEF CoverOK
    <3>2. KeyOf(r) # job[p].want
      BY <3>1 DEF KeyOf
    <3>3. sum'[p] = {e \in sum[p] : e[1] # job[p].want}
      BY <1>5, <2>3 DEF NewSum, SumRemove
    <3> QED
      BY <1>1, <2>3, <3>1, <3>2, <3>3 DEF Has
  <2>4. CASE job[p].cmd = "update"
    BY <1>1, <1>3, <1>5, <2>1, <2>4 DEF CoverOK, Has, NewSum
  <2>5. CASE job[p].cmd = "tidy"
    <3>1. CASE KeyOf(r) \in hashed
      <4>1. <<KeyOf(r), files[KeyOf(r)]>> \in sum'[p]
        BY <1>5, <2>1, <2>5, <3>1 DEF NewSum, Hash
      <4>2. <<KeyOf(r), files[KeyOf(r)]>>[1] = KeyOf(r)
        OBVIOUS
      <4> QED
        BY <4>1, <4>2 DEF Has
    <3>2. CASE KeyOf(r) \notin hashed
      <4>1. <<p, KeyOf(r)>> \in owed'
        BY <1>2, <2>1, <2>5, <3>2
      <4> QED
        BY <4>1 DEF Has
    <3> QED
      BY <3>1, <3>2
  <2> QED
    BY <1>3, <2>2, <2>3, <2>4, <2>5
<1>13. SettledOK(p)'
  <2> SUFFICES ASSUME p \in settled' PROVE SettledOK(p)'
    BY DEF SettledOK
  <2>1. job[p].cmd = "tidy"
    BY <1>1, <1>3 DEF SettledOK
  <2>2. /\ \A r \in manifest[p] : r.path \in imports[p] \/ r.go
        /\ \A m \in imports[p] : Required(manifest[p], m) # {}
    <3>1. CASE p \in settled
      BY <1>3, <3>1 DEF SettledOK
    <3>2. CASE job[p].whole
      BY <1>1, <1>3, <2>1, <3>2 DEF DraftOK, GraphOK, Fetching, Writing
    <3> QED
      BY <1>2, <2>1, <3>1, <3>2
  <2>3. PICK keys \in SUBSET Keys :
          Closed(keys) /\ \A r \in manifest[p] : KeyOf(r) \in keys /\ AtMost(keys, r)
    <3>1. CASE p \in settled
      BY <1>3, <3>1 DEF SettledOK
    <3>2. CASE job[p].whole
      <4>1. job[p].frontier \in SUBSET Keys
        BY <1>3 DEF Job
      <4>2. /\ job[p].frontier \subseteq job[p].visited
            /\ \A r \in job[p].draft : KeyOf(r) \in job[p].frontier /\ AtMost(job[p].frontier, r)
        BY <1>1, <1>3, <2>1 DEF GraphOK, Writing
      <4>3. Closed(job[p].frontier)
        BY <1>1, <1>3, <2>1, <3>2, <4>2 DEF GraphOK, Fetching, Closed
      <4> QED
        BY <1>3, <4>1, <4>2, <4>3
    <3> QED
      BY <1>2, <2>1, <3>1, <3>2
  <2>4. Closed(keys)'
    BY <1>1, <2>3 DEF Closed, Whole
  <2>5. job'[p].frontier = {} /\ job'[p].cmd = "none"
    BY <1>6 DEF Idle
  <2> QED
    BY <1>1, <2>2, <2>3, <2>4, <2>5 DEF SettledOK, AtMost
<1> QED
  BY <1>6, <1>7, <1>8, <1>9, <1>11, <1>12, <1>13, IdleOK, OneStep

-----------------------------------------------------------------------------
(* The theorems.                                                            *)

\* At the start what is required is cached whole and has its sums, and no
\* command runs.
LEMMA InitIsRight == Init => IInv
<1> SUFFICES ASSUME Init PROVE IInv
  OBVIOUS
<1>1. PICK start \in [Projects -> Starting] :
        /\ manifest = [p \in Projects |->
                         {[path |-> k[1], version |-> k[2], go |-> FALSE] : k \in start[p]}]
        /\ sum = [p \in Projects |-> {<<k, Contents[k[1]]>> : k \in start[p]}]
        /\ dirs = UNION {start[p] : p \in Projects}
        /\ files = [k \in Keys |-> IF k \in dirs THEN Contents[k[1]] ELSE {}]
  BY DEF Init
<1>2. \A p \in Projects : /\ start[p] \subseteq Keys
                          /\ \A k, l \in start[p] : k[1] = l[1] => k = l
  BY ConstantsAssumption
<1>3. \A k \in Keys : Contents[k[1]] \in SUBSET AllFiles /\ k = <<k[1], k[2]>>
                      /\ k[1] \in Modules /\ k[2] \in Versions
  BY DEF AllFiles, Keys
<1>4. job = [p \in Projects |-> Idle]
  BY DEF Init
<1>5. \A p \in Projects : job[p] = Idle /\ Idle.at = "idle"
  BY <1>4 DEF Idle
<1>6. dirs \subseteq Keys /\ \A k \in dirs : Whole(k)
  <2>1. dirs \subseteq Keys
    BY <1>1, <1>2
  <2> QED
    BY <1>1, <2>1 DEF Whole
<1>7. SharedOK
  <2>1. tags \in [Modules -> SUBSET Versions] /\ \A m \in Modules : tags[m] # {}
    BY ConstantsAssumption DEF Init
  <2>2. imports \in [Projects -> SUBSET Modules]
    BY DEF Init
  <2>3. manifest \in [Projects -> SUBSET Require]
    <3>1. ASSUME NEW p \in Projects
          PROVE  manifest[p] \in SUBSET Require
      <4>1. manifest[p] = {[path |-> k[1], version |-> k[2], go |-> FALSE] : k \in start[p]}
        BY <1>1
      <4>2. ASSUME NEW k \in start[p]
            PROVE  [path |-> k[1], version |-> k[2], go |-> FALSE] \in Require
        BY <1>2, <1>3 DEF Require
      <4> QED
        BY <4>1, <4>2
    <3> QED
      BY <1>1, <3>1
  <2>4. sum \in [Projects -> SUBSET (Keys \X SUBSET AllFiles)]
    <3>1. ASSUME NEW p \in Projects
          PROVE  {<<k, Contents[k[1]]>> : k \in start[p]} \in SUBSET (Keys \X SUBSET AllFiles)
      BY <1>2, <1>3
    <3> QED
      BY <1>1, <3>1
  <2>5. job \in [Projects -> Job]
    BY <1>4, IdleJob
  <2>6. files \in [Keys -> SUBSET AllFiles]
    BY <1>1, <1>3
  <2>7. \A k \in Keys : files[k] \subseteq Contents[k[1]] /\ (k \notin dirs => files[k] = {})
    BY <1>1
  <2> QED
    BY <1>6, <2>1, <2>2, <2>3, <2>4, <2>5, <2>6, <2>7 DEF SharedOK
<1>8. ASSUME NEW p \in Projects PROVE ProjectOK(p)
  <2>1. /\ manifest[p] = {[path |-> k[1], version |-> k[2], go |-> FALSE] : k \in start[p]}
        /\ sum[p] = {<<k, Contents[k[1]]>> : k \in start[p]}
    BY <1>1
  <2>2. OnePerPath(manifest[p])
    <3>1. ASSUME NEW r \in manifest[p], NEW s \in manifest[p], r.path = s.path PROVE r = s
      <4>1. PICK k \in start[p] : r = [path |-> k[1], version |-> k[2], go |-> FALSE]
        BY <2>1
      <4>2. PICK l \in start[p] : s = [path |-> l[1], version |-> l[2], go |-> FALSE]
        BY <2>1
      <4>3. k = l
        BY <1>2, <3>1, <4>1, <4>2
      <4> QED
        BY <4>1, <4>2, <4>3
    <3> QED
      BY <3>1 DEF OnePerPath
  <2>3. OnePerKey(sum[p])
    BY <2>1 DEF OnePerKey
  <2>4. ASSUME NEW e \in sum[p] PROVE HashOK(p, e[1], e[2])
    <3>1. PICK k \in start[p] : e = <<k, Contents[k[1]]>>
      BY <2>1
    <3>2. k \in dirs /\ k \in Keys
      BY <1>1, <1>2
    <3>3. files[k] = Contents[k[1]] /\ Whole(k) /\ ~Storing(k)
      BY <1>5, <1>6, <3>2 DEF Whole, Storing
    <3>4. HashOK(p, k, Contents[k[1]])
      BY <3>2, <3>3 DEF HashOK
    <3> QED
      BY <3>1, <3>4
  <2>5. ASSUME NEW r \in manifest[p] PROVE Has(p, sum[p], r)
    <3>1. PICK k \in start[p] : r = [path |-> k[1], version |-> k[2], go |-> FALSE]
      BY <2>1
    <3>2. KeyOf(r) = k
      BY <1>2, <1>3, <3>1 DEF KeyOf
    <3>3. <<k, Contents[k[1]]>> \in sum[p] /\ <<k, Contents[k[1]]>>[1] = k
      BY <2>1
    <3> QED
      BY <3>2, <3>3 DEF Has
  <2>6. p \notin settled
    BY DEF Init
  <2>7. StepsOK(p)
    BY <1>5, <2>2 DEF StepsOK, Idle, Fetching, Writing, OnePerPath
  <2>8. HashesOK(p)
    BY <1>5, <2>3, <2>4 DEF HashesOK, Idle, OnePerKey, Writing
  <2>9. CoverOK(p)
    BY <1>5, <2>5 DEF CoverOK, Idle
  <2>10. DraftOK(p) /\ GraphOK(p) /\ SettledOK(p)
    BY <1>5, <2>6 DEF DraftOK, GraphOK, SettledOK, Idle
  <2> QED
    BY <2>7, <2>8, <2>9, <2>10 DEF ProjectOK
<1> QED
  BY <1>7, <1>8 DEF IInv

\* Every step keeps the invariant.
LEMMA NextKeeps == IInv /\ [Next]_vars => IInv'
<1> SUFFICES ASSUME IInv, [Next]_vars PROVE IInv'
  OBVIOUS
<1>1. CASE UNCHANGED vars
  <2>1. UNCHANGED <<tags, imports, manifest, sum, dirs, files, job, torn, raced, owed, settled>>
    BY <1>1 DEF vars, world, cache, history
  <2>2. SharedOK'
    BY <2>1 DEF IInv, SharedOK, Whole
  <2>3. Grows
    BY <2>1 DEF IInv, SharedOK, Grows, Storing
  <2>4. \A q \in Projects : Rests(q)
    BY <2>1 DEF Rests
  <2> QED
    BY <2>2, <2>3, <2>4, OthersKeep DEF IInv
<1>2. CASE \E q \in Projects, m \in Modules, v \in Versions : AddBegins(q, m, v)
  BY <1>2, AddBeginsKeeps
<1>3. CASE \E q \in Projects, ms \in SUBSET Modules : UpdateBegins(q, ms)
  BY <1>3, UpdateBeginsKeeps
<1>4. CASE \E q \in Projects, m \in Modules : RemoveBegins(q, m)
  BY <1>4, RemoveBeginsKeeps
<1>5. CASE \E q \in Projects : TidyBegins(q)
  BY <1>5, TidyBeginsKeeps
<1>6. CASE \E q \in Projects : FetchHit(q)
  BY <1>6, FetchHitKeeps
<1>7. CASE \E q \in Projects : FetchMiss(q)
  BY <1>7, FetchMissKeeps
<1>8. CASE \E q \in Projects : StoreBegins(q)
  BY <1>8, StoreBeginsKeeps
<1>9. CASE \E q \in Projects : StoreCopies(q)
  BY <1>9, StoreCopiesKeeps
<1>10. CASE \E q \in Projects : StoreEnds(q)
  BY <1>10, StoreEndsKeeps
<1>11. CASE \E q \in Projects : FetchFails(q)
  BY <1>11, FetchFailsKeeps
<1>12. CASE \E q \in Projects : AddEdits(q)
  BY <1>12, AddEditsKeeps
<1>13. CASE \E q \in Projects : PickNext(q)
  BY <1>13, PickNextKeeps
<1>14. CASE \E q \in Projects : UpdateEdits(q)
  BY <1>14, UpdateEditsKeeps
<1>15. CASE \E q \in Projects : UpdateWrites(q)
  BY <1>15, UpdateWritesKeeps
<1>16. CASE \E q \in Projects : TidyAdds(q)
  BY <1>16, TidyAddsKeeps
<1>17. CASE \E q \in Projects : GraphBegins(q)
  BY <1>17, GraphBeginsKeeps
<1>18. CASE \E q \in Projects : GraphVisits(q)
  BY <1>18, GraphVisitsKeeps
<1>19. CASE \E q \in Projects : GraphExpands(q)
  BY <1>19, GraphExpandsKeeps
<1>20. CASE \E q \in Projects : TidyResolves(q)
  BY <1>20, TidyResolvesKeeps
<1>21. CASE \E q \in Projects : WriteSum(q)
  BY <1>21, WriteSumKeeps
<1>22. CASE \E q \in Projects : WriteMod(q)
  BY <1>22, WriteModKeeps
<1>23. CASE \E q \in Projects : Kill(q)
  BY <1>23, KillKeeps
<1>24. CASE \E q \in Projects : EditImports(q)
  BY <1>24, EditImportsKeeps
<1>25. CASE \E m \in Modules : Publish(m)
  BY <1>25, PublishKeeps
<1> QED
  BY <1>1, <1>2, <1>3, <1>4, <1>5, <1>6, <1>7, <1>8, <1>9, <1>10, <1>11, <1>12, <1>13, <1>14, <1>15, <1>16, <1>17, <1>18, <1>19, <1>20, <1>21, <1>22, <1>23, <1>24, <1>25 DEF Next, Step

\* What the cache, gala.mod and gala.sum owe each other holds throughout.
THEOREM InvariantHolds == Spec => []IInv
  BY InitIsRight, NextKeeps, PTL DEF Spec

\* Every variable has its type, gala.mod has one requirement per path, gala.sum has
\* one entry per key, and it is there for every requirement; a hash is that of the
\* whole module and of what is cached, except after a race or a kill (mod_add.go:45).
THEOREM SumsStayRight == Spec => []SumsAreRight
<1>1. IInv => SumsAreRight
  <2> SUFFICES ASSUME IInv PROVE SumsAreRight
    OBVIOUS
  <2>1. TypeOK
    <3>1. ASSUME NEW p \in Projects
          PROVE  /\ manifest[p] \subseteq Require /\ job[p].draft \subseteq Require
                 /\ \A r, s \in manifest[p] : r.path = s.path => r = s
                 /\ \A e, f \in sum[p] : e[1] = f[1] => e = f
                 /\ \A e \in sum[p] : e[1] \in Keys /\ e[2] \subseteq Contents[e[1][1]]
                 /\ job[p].at \in Stages /\ job[p].want \in Keys
      <4>1. /\ manifest[p] \subseteq Require /\ job[p] \in Job /\ sum[p] \subseteq Keys \X SUBSET AllFiles
            /\ StepsOK(p) /\ HashesOK(p)
        BY Types
      <4>2. \A e \in sum[p] : e[1] \in Keys /\ e[2] \subseteq Contents[e[1][1]]
        BY <4>1 DEF HashesOK, HashOK
      <4> QED
        BY <4>1, <4>2 DEF Job, StepsOK, HashesOK, OnePerPath, OnePerKey
    <3>2. \A k \in Keys : files[k] \subseteq Contents[k[1]] /\ (k \notin dirs => files[k] = {})
      BY DEF IInv, SharedOK
    <3> QED
      BY <3>1, <3>2 DEF TypeOK
  <2>2. VerifyBlamesOnlyRaces
    BY Types DEF VerifyBlamesOnlyRaces, HashesOK, HashOK, Hash
  <2>3. SumCoversTheModule
    BY Types DEF SumCoversTheModule, HashesOK, HashOK, Whole
  <2>4. SumCoversTheManifest
    BY Types DEF SumCoversTheManifest, CoverOK, Has
  <2> QED
    BY <2>1, <2>2, <2>3, <2>4 DEF SumsAreRight
<1> QED
  BY <1>1, InvariantHolds, PTL

\* gala.mod is written in one place only.
LEMMA OnlyWriteMod ==
  ASSUME IInv, [Next]_vars, NEW p \in Projects
  PROVE  WriteMod(p) \/ /\ manifest'[p] = manifest[p]
                        /\ ~(job[p].at = "writeMod" /\ job'[p].at = "writeSum")
<1> DEFINE P == /\ manifest'[p] = manifest[p]
                /\ ~(job[p].at = "writeMod" /\ job'[p].at = "writeSum")
<1>0. job \in [Projects -> Job] /\ manifest \in [Projects -> SUBSET Require]
  BY DEF IInv, SharedOK
<1>1. CASE UNCHANGED vars
  BY <1>1 DEF vars
<1>2. CASE \E q \in Projects, m \in Modules, v \in Versions : AddBegins(q, m, v)
  BY <1>0, <1>2 DEF AddBegins, Start
<1>3. CASE \E q \in Projects, ms \in SUBSET Modules : UpdateBegins(q, ms)
  BY <1>0, <1>3 DEF UpdateBegins, Start
<1>4. CASE \E q \in Projects, m \in Modules : RemoveBegins(q, m)
  BY <1>0, <1>4 DEF RemoveBegins, Start
<1>5. CASE \E q \in Projects : TidyBegins(q)
  BY <1>0, <1>5 DEF TidyBegins, Start
<1>6. CASE \E q \in Projects : FetchHit(q)
  BY <1>0, <1>6 DEF FetchHit, Fetched
<1>7. CASE \E q \in Projects : FetchMiss(q)
  BY <1>0, <1>7 DEF FetchMiss
<1>8. CASE \E q \in Projects : StoreBegins(q)
  BY <1>0, <1>8 DEF StoreBegins
<1>9. CASE \E q \in Projects : StoreCopies(q)
  BY <1>0, <1>9 DEF StoreCopies
<1>10. CASE \E q \in Projects : StoreEnds(q)
  BY <1>0, <1>10 DEF StoreEnds, Fetched
<1>11. CASE \E q \in Projects : FetchFails(q)
  BY <1>0, <1>11 DEF FetchFails
<1>12. CASE \E q \in Projects : AddEdits(q)
  BY <1>0, <1>12 DEF AddEdits, Runs
<1>13. CASE \E q \in Projects : PickNext(q)
  BY <1>0, <1>13 DEF PickNext
<1>14. CASE \E q \in Projects : UpdateEdits(q)
  BY <1>0, <1>14 DEF UpdateEdits, Runs
<1>15. CASE \E q \in Projects : UpdateWrites(q)
  BY <1>0, <1>15 DEF UpdateWrites, Finish, Runs
<1>16. CASE \E q \in Projects : TidyAdds(q)
  BY <1>0, <1>16 DEF TidyAdds, Runs
<1>17. CASE \E q \in Projects : GraphBegins(q)
  BY <1>0, <1>17 DEF GraphBegins, Runs
<1>18. CASE \E q \in Projects : GraphVisits(q)
  BY <1>0, <1>18 DEF GraphVisits, Runs
<1>19. CASE \E q \in Projects : GraphExpands(q)
  BY <1>0, <1>19 DEF GraphExpands, Runs
<1>20. CASE \E q \in Projects : TidyResolves(q)
  BY <1>0, <1>20 DEF TidyResolves, Finish, Runs
<1>21. CASE \E q \in Projects : WriteSum(q)
  BY <1>0, <1>21 DEF WriteSum, Finish
<1>22. CASE \E q \in Projects : Kill(q)
  BY <1>0, <1>22 DEF Kill, Finish, Idle
<1>23. CASE \E q \in Projects : EditImports(q)
  BY <1>0, <1>23 DEF EditImports
<1>24. CASE \E m \in Modules : Publish(m)
  BY <1>24 DEF Publish
<1>25. CASE \E q \in Projects : WriteMod(q)
  BY <1>0, <1>25 DEF WriteMod
<1> QED
  BY <1>1, <1>2, <1>3, <1>4, <1>5, <1>6, <1>7, <1>8, <1>9, <1>10, <1>11, <1>12, <1>13, <1>14, <1>15, <1>16, <1>17, <1>18, <1>19, <1>20, <1>21, <1>22, <1>23, <1>24, <1>25 DEF Next, Step

\* A second tidy changes nothing, and tidy keeps what the sources import, at versions
\* no smaller than anything it fetched whole requires (mod_tidy.go:139).
THEOREM TidyStaysRight == Spec => TidyIsRight
<1> DEFINE Stays(p) ==
             p \in settled /\ job[p].whole /\ ~(kills' > kills) => manifest'[p] = manifest[p]
           Keeps(p) ==
             Runs(p, "tidy", "writeMod") /\ job'[p].at = "writeSum" =>
               /\ \A r \in manifest[p] :
                    r.path \in imports[p] => \E s \in manifest'[p] :
                      s.path = r.path /\ s.version >= r.version
               /\ \A s \in manifest'[p] : \A t \in manifest'[p] : \A k \in Requires[KeyOf(t)] :
                    GalaMod \in files[KeyOf(t)] /\ job[p].whole /\ k[1] = s.path
                      => s.version >= k[2]
<1>1. ASSUME IInv, [Next]_vars, NEW p \in Projects PROVE Stays(p) /\ Keeps(p)
  <2>1. CASE ~WriteMod(p)
    BY <1>1, <2>1, OnlyWriteMod DEF Runs
  <2>2. CASE WriteMod(p)
    <3>1. job[p].at = "writeMod" /\ manifest'[p] = job[p].draft
      BY <1>1, <2>2 DEF WriteMod, IInv, SharedOK
    <3>2. /\ StepsOK(p) /\ DraftOK(p) /\ GraphOK(p) /\ SettledOK(p) /\ job[p] \in Job
      BY <1>1, Types
    <3>3. Stays(p)
      BY <3>1, <3>2 DEF SettledOK, StepsOK, Writing
    <3>4. ASSUME job[p].cmd = "tidy", NEW r \in manifest[p], r.path \in imports[p]
          PROVE  \E s \in job[p].draft : s.path = r.path /\ s.version >= r.version
      BY <3>2, <3>4 DEF DraftOK
    <3>5. ASSUME job[p].cmd = "tidy", NEW s \in job[p].draft, NEW t \in job[p].draft,
                 NEW k \in Requires[KeyOf(t)],
                 GalaMod \in files[KeyOf(t)], job[p].whole, k[1] = s.path
          PROVE  s.version >= k[2]
      <4>1. KeyOf(t) \in job[p].visited /\ AtMost(job[p].frontier, s)
        BY <3>1, <3>2, <3>5 DEF GraphOK, Writing
      <4>2. Requires[KeyOf(t)] \subseteq job[p].frontier
        BY <3>1, <3>2, <3>5, <4>1 DEF GraphOK, Fetching
      <4>3. k[2] <= s.version
        BY <3>5, <4>1, <4>2 DEF AtMost
      <4>4. k \in Keys /\ s \in Require
        BY <3>2, <3>5, <4>2 DEF Job
      <4>5. k[2] \in Nat /\ s.version \in Nat
        BY <4>4 DEF Keys, Require, Versions
      <4> QED
        BY <4>3, <4>5
    <3> QED
      BY <3>1, <3>3, <3>4, <3>5 DEF Runs
  <2> QED
    BY <2>1, <2>2
<1>2. IInv /\ [Next]_vars => [\A p \in Projects : Stays(p)]_vars /\ [\A p \in Projects : Keeps(p)]_vars
  BY <1>1
<1>3. Spec => [][\A p \in Projects : Stays(p)]_vars /\ [][\A p \in Projects : Keeps(p)]_vars
  BY <1>2, InvariantHolds, PTL DEF Spec
<1> QED
  BY <1>3 DEF TidyIsRight, TidySettles, TidyKeepsWhatIsUsed

=============================================================================
