---------------------------- MODULE ToolsProofs ----------------------------
(***************************************************************************)
(* Proofs about the tools of module MCTools: the language server with any  *)
(* documents, texts and messages, the Bazel worker with any requests, and the *)
(* cache of the standard library with any builds, libraries and kills.     *)
(***************************************************************************)
EXTENDS MCTools, Sequences, FiniteSetTheorems, TLAPS

-----------------------------------------------------------------------------
(* The language server.                                                     *)

Job == [uri : Uris, text : Texts \cup {Nil}, version : Nat, cancelled : BOOLEAN,
        outlived : BOOLEAN,
        pc : {"parse", "types", "select", "version", "publish", "done"}]

\* The jobs are numbered, and the handler has the text of its document.
JobsOK ==
    /\ DOMAIN jobs = 1 .. Cardinality(DOMAIN jobs)
    /\ Cardinality(DOMAIN jobs) \in Nat
    /\ \A j \in DOMAIN jobs : jobs[j] \in Job /\ (jobs[j].pc # "done" => jobs[j].text \in Texts)

HandlerOK ==
    \/ handler = Idle
    \/ /\ handler \in [uri : Uris, text : Texts \cup {Nil}, pc : {"parse", "types", "publish"}]
       /\ handler.text = documents[handler.uri]
       /\ handler.pc # "publish" => handler.text \in Texts

\* A request analyses what can be made of some text.
QueryOK ==
    \/ query = Idle
    \/ query \in [uri : Uris, text : Analysed, pc : {"parse", "types"}]

StateOK ==
    /\ documents \in [Uris -> Texts \cup {Nil}] /\ docVersions \in [Uris -> Nat]
    /\ cancels \in [Uris -> Nat] /\ messages \in Nat /\ messages <= MaxMessages
    /\ richASTs \in [Uris -> Analysed \cup {Nil}] /\ parseTrees \in [Uris -> Analysed \cup {Nil}]
    /\ varTypes \in [Uris -> Analysed \cup {Nil}] /\ shown \in [Uris -> Texts \cup {Nil}]
    /\ overtaken \in [Uris -> BOOLEAN] /\ overlapped \in [Uris -> BOOLEAN]
    /\ early \in [Uris -> BOOLEAN]
    /\ \A u \in Uris : docVersions[u] <= messages /\ cancels[u] \in {0} \cup DOMAIN jobs

\* Of the jobs of a document only the last one may not be cancelled, and a job
\* that no close has outlived is not ahead of its document.
CancelAt(u) ==
    \A j \in Running(u) :
        /\ j # cancels[u] => jobs[j].cancelled
        /\ jobs[j].version >= 1
        /\ ~jobs[j].outlived => jobs[j].version <= docVersions[u]

\* A job of the text that the client has, and one that will not publish.
Current(u, j) ==
    ~jobs[j].cancelled /\ jobs[j].text = documents[u] /\ jobs[j].version = docVersions[u]
Stale(u, j) ==
    /\ jobs[j].pc # "publish"
    /\ jobs[j].pc = "version" => jobs[j].version # docVersions[u]
    /\ jobs[j].pc \in {"parse", "types", "select"} => jobs[j].cancelled

\* Unless a notification met a job that it could not stop, every job is of one
\* of the two kinds, and what is not shown yet is about to be.
Handling(u) == handler.pc # "idle" /\ handler.uri = u
ShowAt(u) ==
    ~overtaken[u] =>
        /\ \A j \in Running(u) : Current(u, j) \/ Stale(u, j)
        /\ \/ shown[u] = documents[u]
           \/ Handling(u)
           \/ \E j \in Running(u) : Current(u, j)

\* Unless a notification met a job or a request still analysing, whoever analyses
\* a document has its last text, a request what it makes of that, and what the
\* caches do not have yet is on its way.  If the text has a type in it, a request
\* finds that and leaves it, or comes while it is being found.
Works(u, places) ==
    \/ Handling(u) /\ handler.pc \in places
    \/ \E j \in Running(u) : jobs[j].pc \in places
Fresh(u) == {documents[u]} \cup Patches[documents[u]]
QueryAt(u) ==
    ~overlapped[u] /\ query.uri = u =>
        documents[u] # Nil /\ query.text \in Patches[documents[u]]
FreshAt(u) ==
    documents[u] \in Good =>
        /\ Works(u, {"parse"}) \/ (richASTs[u] \in Fresh(u) /\ parseTrees[u] \in Fresh(u))
        /\ Works(u, Analysing) \/ varTypes[u] \in Fresh(u)
ExactAt(u) ==
    documents[u] \in Good \cap Typed /\ ~early[u] =>
        /\ Works(u, {"parse"}) \/ (richASTs[u] = documents[u] /\ parseTrees[u] = documents[u])
        /\ Works(u, Analysing) \/ varTypes[u] = documents[u]
        /\ query.uri # u
CacheAt(u) ==
    ~overlapped[u] =>
        /\ \A j \in Running(u) : jobs[j].pc \in Analysing => jobs[j].text = documents[u]
        /\ FreshAt(u) /\ ExactAt(u)
        /\ documents[u] = Nil => richASTs[u] = Nil /\ varTypes[u] = Nil

LInv ==
    /\ JobsOK /\ HandlerOK /\ QueryOK /\ StateOK
    /\ \A u \in Uris : CancelAt(u) /\ ShowAt(u) /\ QueryAt(u) /\ CacheAt(u)

\* At the start no document is open and no job runs.
LEMMA LspInitInv == LspInit => LInv
<1> SUFFICES ASSUME LspInit PROVE LInv
  OBVIOUS
<1> USE ToolsAssumption DEF LspInit
<1>1. DOMAIN jobs = {} /\ Cardinality(DOMAIN jobs) = 0
  <2>1. DOMAIN jobs = {}
    OBVIOUS
  <2> QED
    BY <2>1, FS_EmptySet
<1>2. JobsOK /\ HandlerOK /\ QueryOK
  BY <1>1 DEF JobsOK, HandlerOK, QueryOK
<1>3. StateOK
  BY DEF StateOK
<1>4. \A u \in Uris : CancelAt(u) /\ ShowAt(u)
  BY <1>1 DEF CancelAt, ShowAt, Running
<1>5. \A u \in Uris : documents[u] \notin Good /\ query.uri # u
  BY DEF Good, Idle, Analysed
<1>6. \A u \in Uris : QueryAt(u) /\ CacheAt(u)
  BY <1>1, <1>5 DEF QueryAt, CacheAt, FreshAt, ExactAt, Running
<1> QED
  BY <1>2, <1>3, <1>4, <1>6 DEF LInv

\* Cancelling changes the flag of one job, and that is then set.
LEMMA CancelledJobs ==
    ASSUME LInv, NEW u \in Uris
    PROVE  /\ DOMAIN Cancelled(u) = DOMAIN jobs
           /\ \A j \in DOMAIN jobs :
                /\ Cancelled(u)[j] \in Job
                /\ Cancelled(u)[j].uri = jobs[j].uri /\ Cancelled(u)[j].text = jobs[j].text
                /\ Cancelled(u)[j].version = jobs[j].version /\ Cancelled(u)[j].pc = jobs[j].pc
                /\ Cancelled(u)[j].outlived = jobs[j].outlived
                /\ j \in Running(u) => Cancelled(u)[j].cancelled
                /\ j \notin Running(u) => Cancelled(u)[j] = jobs[j]
<1>1. \A j \in DOMAIN jobs : jobs[j] \in Job
  BY DEF LInv, JobsOK
<1>2. \A j \in Running(u) : j # cancels[u] => jobs[j].cancelled
  BY DEF LInv, CancelAt
<1>3. CASE cancels[u] \in Running(u)
  <2>1. Cancelled(u) = [jobs EXCEPT ![cancels[u]].cancelled = TRUE]
    BY <1>3 DEF Cancelled
  <2>2. cancels[u] \in DOMAIN jobs
    BY <1>3 DEF Running
  <2>3. ASSUME NEW j \in DOMAIN jobs
        PROVE  Cancelled(u)[j] = IF j = cancels[u] THEN [jobs[j] EXCEPT !.cancelled = TRUE]
                                 ELSE jobs[j]
    BY <2>1, <2>2
  <2>4. DOMAIN Cancelled(u) = DOMAIN jobs
    BY <2>1
  <2>5. cancels[u] \in Running(u) /\ jobs[cancels[u]] \in Job
    BY <1>1, <1>3, <2>2
  <2>6. ASSUME NEW j \in DOMAIN jobs, j = cancels[u]
        PROVE  /\ Cancelled(u)[j] \in Job /\ Cancelled(u)[j].cancelled
               /\ Cancelled(u)[j].uri = jobs[j].uri /\ Cancelled(u)[j].text = jobs[j].text
               /\ Cancelled(u)[j].version = jobs[j].version /\ Cancelled(u)[j].pc = jobs[j].pc
               /\ Cancelled(u)[j].outlived = jobs[j].outlived
    BY <2>3, <2>5, <2>6 DEF Job
  <2>7. ASSUME NEW j \in DOMAIN jobs, j # cancels[u]
        PROVE  Cancelled(u)[j] = jobs[j]
    BY <2>3, <2>7
  <2> QED
    BY <1>1, <1>2, <2>4, <2>5, <2>6, <2>7
<1>4. CASE cancels[u] \notin Running(u)
  BY <1>1, <1>2, <1>4 DEF Cancelled
<1> QED
  BY <1>3, <1>4

\* The handler analyses and publishes the text of its document.
LEMMA HandlerInvStep == LInv /\ HandlerStep => LInv'
<1> SUFFICES ASSUME LInv, HandlerStep PROVE LInv'
  OBVIOUS
<1> USE ToolsAssumption
<1>1. /\ JobsOK /\ HandlerOK /\ QueryOK /\ StateOK
      /\ \A u \in Uris : CancelAt(u) /\ ShowAt(u) /\ QueryAt(u) /\ CacheAt(u)
  BY DEF LInv
<1>2. /\ UNCHANGED <<documents, docVersions, cancels, jobs, query, messages, histories>>
      /\ handler.pc \in {"parse", "types", "publish"}
  BY DEF HandlerStep, HandlerKeepsTree, HandlerKeepsTypes, HandlerPublishes
<1>3. /\ handler \in [uri : Uris, text : Texts \cup {Nil}, pc : {"parse", "types", "publish"}]
      /\ handler.text = documents[handler.uri] /\ handler.uri \in Uris
      /\ handler.pc # "publish" => handler.text \in Texts
  BY <1>1, <1>2 DEF HandlerOK, Idle
<1>4. \A u \in Uris : Running(u)' = Running(u)
  BY <1>2 DEF Running
<1>5. JobsOK' /\ QueryOK' /\ \A u \in Uris : CancelAt(u)' /\ QueryAt(u)'
  BY <1>1, <1>2, <1>4 DEF JobsOK, QueryOK, CancelAt, QueryAt, histories
<1>6. \A u \in Uris : \A j \in Running(u) :
        /\ Current(u, j)' = Current(u, j) /\ Stale(u, j)' = Stale(u, j)
        /\ jobs'[j] = jobs[j]
  BY <1>2 DEF Current, Stale
<1>7. /\ richASTs \in [Uris -> Analysed \cup {Nil}] /\ parseTrees \in [Uris -> Analysed \cup {Nil}]
      /\ varTypes \in [Uris -> Analysed \cup {Nil}] /\ Texts \subseteq Analysed /\ shown \in [Uris -> Texts \cup {Nil}]
  BY <1>1 DEF StateOK, Analysed
<1>8. CASE HandlerKeepsTree
  <2>1. /\ handler.pc = "parse" /\ handler.text \in Texts /\ UNCHANGED <<shown, varTypes>>
        /\ handler' = [handler EXCEPT !.pc = "types"]
    BY <1>3, <1>8 DEF HandlerKeepsTree, KeepTree
  <2>2. handler' \in [uri : Uris, text : Texts \cup {Nil}, pc : {"parse", "types", "publish"}]
        /\ handler'.uri = handler.uri /\ handler'.text = handler.text /\ handler'.pc = "types"
    BY <1>3, <2>1
  <2>3. HandlerOK'
    BY <1>2, <1>3, <2>1, <2>2 DEF HandlerOK
  <2>4. /\ parseTrees' = IF handler.text \in Unanalysable THEN parseTrees
                         ELSE [parseTrees EXCEPT ![handler.uri] = handler.text]
        /\ richASTs' = IF handler.text \in Good THEN [richASTs EXCEPT ![handler.uri] = handler.text]
                       ELSE richASTs
    BY <1>8 DEF HandlerKeepsTree, KeepTree
  <2>5. StateOK'
    BY <1>1, <1>2, <1>3, <1>7, <2>1, <2>4 DEF StateOK, histories
  <2>6. ASSUME NEW u \in Uris PROVE ShowAt(u)'
    BY <1>1, <1>2, <1>3, <1>4, <1>6, <2>1, <2>2 DEF ShowAt, Handling, histories
  <2>7. ASSUME NEW u \in Uris PROVE CacheAt(u)'
    <3>1. CASE u = handler.uri
      BY <1>1, <1>2, <1>3, <1>4, <1>6, <1>7, <2>1, <2>2, <2>4, <3>1
         DEF CacheAt, FreshAt, ExactAt, Fresh, Works, Handling, Good, Analysing, histories
    <3>2. CASE u # handler.uri
      BY <1>1, <1>2, <1>3, <1>4, <1>6, <1>7, <2>1, <2>2, <2>4, <3>2
         DEF CacheAt, FreshAt, ExactAt, Fresh, Works, Handling, histories
    <3> QED
      BY <3>1, <3>2
  <2> QED
    BY <1>5, <2>3, <2>5, <2>6, <2>7 DEF LInv
<1>9. CASE HandlerKeepsTypes
  <2>1. /\ handler.pc = "types" /\ handler.text \in Texts /\ UNCHANGED <<shown, parseTrees>>
        /\ handler' = [handler EXCEPT !.pc = "publish"]
    BY <1>3, <1>9 DEF HandlerKeepsTypes, KeepTypes
  <2>2. handler' \in [uri : Uris, text : Texts \cup {Nil}, pc : {"parse", "types", "publish"}]
        /\ handler'.uri = handler.uri /\ handler'.text = handler.text /\ handler'.pc = "publish"
    BY <1>3, <2>1
  <2>3. HandlerOK'
    BY <1>2, <1>3, <2>1, <2>2 DEF HandlerOK
  <2>4. /\ varTypes' = IF handler.text \in Good THEN [varTypes EXCEPT ![handler.uri] = handler.text]
                       ELSE varTypes
        /\ richASTs' = IF handler.text \in Unparsable
                         THEN [richASTs EXCEPT ![handler.uri] = handler.text] ELSE richASTs
    BY <1>9 DEF HandlerKeepsTypes, KeepTypes
  <2>5. StateOK'
    BY <1>1, <1>2, <1>3, <1>7, <2>1, <2>4 DEF StateOK, histories
  <2>6. ASSUME NEW u \in Uris PROVE ShowAt(u)'
    BY <1>1, <1>2, <1>3, <1>4, <1>6, <2>1, <2>2 DEF ShowAt, Handling, histories
  <2>7. ASSUME NEW u \in Uris PROVE CacheAt(u)'
    <3>1. CASE u = handler.uri
      BY <1>1, <1>2, <1>3, <1>4, <1>6, <1>7, <2>1, <2>2, <2>4, <3>1
         DEF CacheAt, FreshAt, ExactAt, Fresh, Works, Handling, Good, Analysing, histories
    <3>2. CASE u # handler.uri
      BY <1>1, <1>2, <1>3, <1>4, <1>6, <1>7, <2>1, <2>2, <2>4, <3>2
         DEF CacheAt, FreshAt, ExactAt, Fresh, Works, Handling, histories
    <3> QED
      BY <3>1, <3>2
  <2> QED
    BY <1>5, <2>3, <2>5, <2>6, <2>7 DEF LInv
<1>10. CASE HandlerPublishes
  <2>1. /\ handler.pc = "publish" /\ UNCHANGED <<richASTs, parseTrees, varTypes>>
        /\ handler' = Idle /\ shown' = [shown EXCEPT ![handler.uri] = handler.text]
    BY <1>10 DEF HandlerPublishes, caches
  <2>2. HandlerOK' /\ handler'.pc = "idle"
    BY <2>1 DEF HandlerOK, Idle
  <2>3. StateOK'
    BY <1>1, <1>2, <1>3, <1>7, <2>1 DEF StateOK, histories
  <2>4. ASSUME NEW u \in Uris PROVE ShowAt(u)'
    <3>1. shown'[handler.uri] = documents[handler.uri]
          /\ (u # handler.uri => shown'[u] = shown[u])
      BY <1>3, <1>7, <2>1
    <3> QED
      BY <1>1, <1>2, <1>3, <1>4, <1>6, <3>1 DEF ShowAt, Handling, histories
  <2>5. ASSUME NEW u \in Uris PROVE CacheAt(u)'
    BY <1>1, <1>2, <1>4, <1>6, <2>1, <2>2
       DEF CacheAt, FreshAt, ExactAt, Fresh, Works, Handling, Analysing, histories
  <2> QED
    BY <1>5, <2>2, <2>3, <2>4, <2>5 DEF LInv
<1> QED
  BY <1>8, <1>9, <1>10 DEF HandlerStep

\* A goroutine takes its next step: it stays a current one or a stale one, and
\* only a current one publishes.
LEMMA JobMoves ==
    ASSUME LInv, NEW j \in DOMAIN jobs, NEW from \in {"parse", "types", "select", "version", "publish"},
           NEW to \in {"types", "select", "version", "publish", "done"},
           JobGoes(j, from, to), JobKeeps
    PROVE  /\ jobs[j].uri \in Uris /\ j \in Running(jobs[j].uri)
           /\ jobs[j] \in Job /\ jobs[j].text \in Texts /\ jobs[j].pc = from
           /\ DOMAIN jobs' = DOMAIN jobs /\ \A i \in DOMAIN jobs : i # j => jobs'[i] = jobs[i]
           /\ to # "done" => /\ jobs'[j] \in Job /\ jobs'[j].pc = to /\ jobs'[j].uri = jobs[j].uri
                             /\ jobs'[j].text = jobs[j].text /\ jobs'[j].version = jobs[j].version
                             /\ jobs'[j].cancelled = jobs[j].cancelled
                             /\ jobs'[j].outlived = jobs[j].outlived
           /\ \A u \in Uris : Running(u)' = IF to = "done" THEN Running(u) \ {j} ELSE Running(u)
           /\ JobsOK' /\ HandlerOK' /\ QueryOK' /\ \A u \in Uris : CancelAt(u)' /\ QueryAt(u)'
<1>1. /\ JobsOK /\ HandlerOK /\ QueryOK /\ StateOK
      /\ \A u \in Uris : CancelAt(u) /\ ShowAt(u) /\ QueryAt(u) /\ CacheAt(u)
  BY DEF LInv
<1>2. jobs[j] \in Job /\ jobs[j].pc = from /\ jobs[j].text \in Texts /\ jobs[j].uri \in Uris
  BY <1>1 DEF JobsOK, Job, JobGoes
<1>3. j \in Running(jobs[j].uri)
  BY <1>2 DEF Running
<1>4. /\ DOMAIN jobs' = DOMAIN jobs /\ \A i \in DOMAIN jobs : i # j => jobs'[i] = jobs[i]
      /\ jobs'[j] = IF to = "done" THEN Finished(jobs[j].uri) ELSE [jobs[j] EXCEPT !.pc = to]
  BY DEF JobGoes
<1>5. ASSUME to # "done"
      PROVE  /\ jobs'[j] \in Job /\ jobs'[j].pc = to /\ jobs'[j].uri = jobs[j].uri
             /\ jobs'[j].text = jobs[j].text /\ jobs'[j].version = jobs[j].version
             /\ jobs'[j].cancelled = jobs[j].cancelled /\ jobs'[j].outlived = jobs[j].outlived
  BY <1>2, <1>4, <1>5 DEF Job
<1>6. ASSUME to = "done" PROVE jobs'[j] \in Job /\ jobs'[j].pc = "done"
  <2>1. jobs'[j] = [uri |-> jobs[j].uri, text |-> Nil, version |-> 0, cancelled |-> FALSE,
                    outlived |-> FALSE, pc |-> "done"]
    BY <1>4, <1>6 DEF Finished, NewJob
  <2> QED
    BY <1>2, <2>1 DEF Job
<1>7. ASSUME NEW u \in Uris
      PROVE  Running(u)' = IF to = "done" THEN Running(u) \ {j} ELSE Running(u)
  BY ZenonT(60), <1>2, <1>4, <1>5, <1>6 DEF Running
<1>8. JobsOK'
  <2>1. \A i \in DOMAIN jobs : jobs[i] \in Job /\ (jobs[i].pc # "done" => jobs[i].text \in Texts)
    BY <1>1 DEF JobsOK
  <2>2. \A i \in DOMAIN jobs' : jobs'[i] \in Job /\ (jobs'[i].pc # "done" => jobs'[i].text \in Texts)
    <3>1. jobs'[j] \in Job /\ (jobs'[j].pc # "done" => jobs'[j].text \in Texts)
      BY <1>2, <1>5, <1>6
    <3> QED
      BY <1>4, <2>1, <3>1
  <2> QED
    BY <1>1, <1>4, <2>2 DEF JobsOK
<1>9. HandlerOK' /\ QueryOK' /\ \A u \in Uris : QueryAt(u)'
  BY <1>1 DEF HandlerOK, QueryOK, QueryAt, JobKeeps, histories
<1>10. ASSUME NEW u \in Uris PROVE CancelAt(u)'
  <2>1. UNCHANGED <<cancels, docVersions>> /\ CancelAt(u)
    BY <1>1 DEF JobKeeps
  <2>2. \A i \in Running(u)' :
            /\ i \in Running(u) /\ jobs'[i].version = jobs[i].version
            /\ jobs'[i].cancelled = jobs[i].cancelled /\ jobs'[i].outlived = jobs[i].outlived
    BY <1>4, <1>5, <1>7 DEF Running
  <2> QED
    BY <2>1, <2>2 DEF CancelAt
<1> QED
  BY <1>2, <1>3, <1>4, <1>5, <1>7, <1>8, <1>9, <1>10

\* What a step of job j leaves of the other documents, and of the other jobs.
LEMMA JobInvStep == ASSUME LInv, NEW j \in DOMAIN jobs, JobStep(j) PROVE LInv'
<1> USE ToolsAssumption
<1>1. /\ JobsOK /\ HandlerOK /\ QueryOK /\ StateOK
      /\ \A u \in Uris : CancelAt(u) /\ ShowAt(u) /\ QueryAt(u) /\ CacheAt(u)
  BY DEF LInv
<1>2. /\ richASTs \in [Uris -> Analysed \cup {Nil}] /\ parseTrees \in [Uris -> Analysed \cup {Nil}]
      /\ varTypes \in [Uris -> Analysed \cup {Nil}] /\ shown \in [Uris -> Texts \cup {Nil}]
      /\ Texts \subseteq Analysed
  BY <1>1 DEF StateOK, Analysed
<1>3. UNCHANGED <<documents, docVersions, cancels, handler, query, messages, overtaken,
                  overlapped, early>>
  BY DEF JobStep, JobKeepsTree, JobKeepsTypes, JobSelects, JobComparesVersions, JobPublishes,
         JobKeeps, histories
<1>d. PICK d \in Uris : d = jobs[j].uri
  <2>1. jobs[j] \in Job
    BY <1>1 DEF JobsOK
  <2> QED
    BY <2>1 DEF Job
<1>4. ASSUME NEW to \in {"types", "select", "version", "publish"}, JobGoes(j, jobs[j].pc, to),
             jobs[j].pc \in {"parse", "types", "select", "version", "publish"},
             UNCHANGED shown,
             Current(d, j) \/ Stale(d, j) => Current(d, j)' \/ Stale(d, j)'
      PROVE  \A u \in Uris : ShowAt(u)'
  <2>1. JobKeeps
    BY <1>3 DEF JobKeeps, histories
  <2>2. /\ \A i \in DOMAIN jobs : i # j => jobs'[i] = jobs[i]
        /\ \A u \in Uris : Running(u)' = Running(u)
        /\ jobs'[j].text = jobs[j].text /\ jobs'[j].version = jobs[j].version
        /\ jobs'[j].cancelled = jobs[j].cancelled
    BY <1>4, <2>1, JobMoves
  <2>3. \A u \in Uris : \A i \in Running(u) :
          /\ Current(u, i)' = Current(u, i)
          /\ i # j => Stale(u, i)' = Stale(u, i)
          /\ i = j => u = d
    BY <1>3, <1>d, <2>2 DEF Current, Stale, Running
  <2> QED
    BY <1>1, <1>3, <1>4, <2>2, <2>3 DEF ShowAt, Handling
<1>5. ASSUME JobGoes(j, jobs[j].pc, "done"),
             jobs[j].pc \in {"parse", "types", "select", "version", "publish"},
             \A u \in Uris : u # d => shown'[u] = shown[u],
             \/ shown'[d] = shown[d] /\ ~Current(d, j)
             \/ ~overtaken[d] => shown'[d] = documents[d]
      PROVE  \A u \in Uris : ShowAt(u)'
  <2>1. JobKeeps
    BY <1>3 DEF JobKeeps, histories
  <2>2. /\ \A i \in DOMAIN jobs : i # j => jobs'[i] = jobs[i]
        /\ \A u \in Uris : Running(u)' = Running(u) \ {j}
    BY <1>5, <2>1, JobMoves
  <2>3. \A u \in Uris : \A i \in Running(u) :
          /\ i # j => /\ Current(u, i)' = Current(u, i) /\ Stale(u, i)' = Stale(u, i)
          /\ i = j => u = d
    BY <1>3, <1>d, <2>2 DEF Current, Stale, Running
  <2>4. ASSUME NEW u \in Uris PROVE ShowAt(u)'
    BY <1>1, <1>3, <1>5, <2>2, <2>3 DEF ShowAt, Handling
  <2> QED
    BY <2>4
<1>6. ASSUME NEW to \in {"version", "publish", "done"}, JobGoes(j, jobs[j].pc, to),
             jobs[j].pc \in {"select", "version", "publish"},
             UNCHANGED <<richASTs, parseTrees, varTypes>>
      PROVE  \A u \in Uris : CacheAt(u)'
  <2>1. JobKeeps
    BY <1>3 DEF JobKeeps, histories
  <2>2. /\ \A i \in DOMAIN jobs : i # j => jobs'[i] = jobs[i]
        /\ to # "done" => jobs'[j].pc = to
        /\ \A u \in Uris : Running(u)' = IF to = "done" THEN Running(u) \ {j} ELSE Running(u)
    BY <1>6, <2>1, JobMoves
  <2>3. ASSUME NEW u \in Uris, NEW places, places \in {{"parse"}, Analysing}
        PROVE  Works(u, places) => Works(u, places)'
    BY <1>3, <1>6, <2>2, <2>3 DEF Works, Handling, Analysing, Running
  <2>4. ASSUME NEW u \in Uris
        PROVE  \A i \in Running(u)' : jobs'[i].pc \in Analysing =>
                  i \in Running(u) /\ jobs'[i] = jobs[i]
    BY <1>6, <2>2 DEF Analysing, Running
  <2>5. ASSUME NEW u \in Uris PROVE CacheAt(u)'
    <3>1. CacheAt(u) /\ (Works(u, {"parse"}) => Works(u, {"parse"})')
          /\ (Works(u, Analysing) => Works(u, Analysing)')
      BY <1>1, <2>3
    <3>2. \A i \in Running(u)' : jobs'[i].pc \in Analysing =>
                  i \in Running(u) /\ jobs'[i] = jobs[i]
      BY <2>4
    <3> QED
      BY <1>3, <1>6, <3>1, <3>2 DEF CacheAt, FreshAt, ExactAt, Fresh
  <2> QED
    BY <2>5
<1>7. CASE JobKeepsTree(j)
  <2>1. /\ JobGoes(j, "parse", "types") /\ JobKeeps /\ UNCHANGED <<shown, varTypes>>
        /\ parseTrees' = IF jobs[j].text \in Unanalysable THEN parseTrees
                         ELSE [parseTrees EXCEPT ![d] = jobs[j].text]
        /\ richASTs' = IF jobs[j].text \in Good THEN [richASTs EXCEPT ![d] = jobs[j].text]
                       ELSE richASTs
    BY <1>d, <1>7 DEF JobKeepsTree, KeepTree
  <2>2. /\ d \in Uris /\ j \in Running(d) /\ jobs[j] \in Job /\ jobs[j].text \in Texts
        /\ jobs[j].pc = "parse" /\ DOMAIN jobs' = DOMAIN jobs
        /\ \A i \in DOMAIN jobs : i # j => jobs'[i] = jobs[i]
        /\ jobs'[j].pc = "types" /\ jobs'[j].text = jobs[j].text
        /\ jobs'[j].version = jobs[j].version /\ jobs'[j].cancelled = jobs[j].cancelled
        /\ \A u \in Uris : Running(u)' = Running(u)
        /\ JobsOK' /\ HandlerOK' /\ QueryOK' /\ \A u \in Uris : CancelAt(u)' /\ QueryAt(u)'
    BY <1>d, <2>1, JobMoves
  <2>3. StateOK'
    BY <1>1, <1>2, <1>3, <2>1, <2>2 DEF StateOK
  <2>4. \A u \in Uris : ShowAt(u)'
    BY <1>3, <1>4, <2>1, <2>2 DEF Current, Stale
  <2>5. ASSUME NEW u \in Uris PROVE CacheAt(u)'
    <3>1. CASE u = d
      <4>1. Works(d, Analysing)'
        BY <1>d, <2>2 DEF Works, Analysing
      <4>2. ~overlapped[d] => jobs[j].text = documents[d]
        BY <1>1, <1>d, <2>2 DEF CacheAt, Analysing
      <4>3. \A i \in Running(d) : jobs'[i].pc \in Analysing =>
              jobs[i].pc \in Analysing /\ jobs'[i].text = jobs[i].text
        BY <1>d, <2>2 DEF Analysing, Running
      <4>4. jobs[j].text \in Good =>
              richASTs'[d] = jobs[j].text /\ parseTrees'[d] = jobs[j].text
        BY <1>2, <1>d, <2>1, <2>2 DEF Good
      <4> QED
        BY <1>1, <1>3, <2>1, <2>2, <3>1, <4>1, <4>2, <4>3, <4>4
           DEF CacheAt, FreshAt, ExactAt, Fresh
    <3>2. CASE u # d
      <4>1. richASTs'[u] = richASTs[u] /\ parseTrees'[u] = parseTrees[u]
        BY <1>2, <2>1, <2>2, <3>2
      <4>2. \A i \in Running(u) : jobs'[i] = jobs[i]
        BY <2>2, <3>2 DEF Running
      <4>3. CacheAt(u) /\ Running(u)' = Running(u)
        BY <1>1, <2>2
      <4> QED
        BY <1>3, <2>1, <4>1, <4>2, <4>3
           DEF CacheAt, FreshAt, ExactAt, Fresh, Works, Handling
    <3> QED
      BY <3>1, <3>2
  <2> QED
    BY <2>2, <2>3, <2>4, <2>5 DEF LInv
<1>8. CASE JobKeepsTypes(j)
  <2>1. /\ JobGoes(j, "types", "select") /\ JobKeeps /\ UNCHANGED <<shown, parseTrees>>
        /\ varTypes' = IF jobs[j].text \in Good THEN [varTypes EXCEPT ![d] = jobs[j].text]
                       ELSE varTypes
        /\ richASTs' = IF jobs[j].text \in Unparsable THEN [richASTs EXCEPT ![d] = jobs[j].text]
                       ELSE richASTs
    BY <1>d, <1>8 DEF JobKeepsTypes, KeepTypes
  <2>2. /\ d \in Uris /\ j \in Running(d) /\ jobs[j] \in Job /\ jobs[j].text \in Texts
        /\ jobs[j].pc = "types" /\ DOMAIN jobs' = DOMAIN jobs
        /\ \A i \in DOMAIN jobs : i # j => jobs'[i] = jobs[i]
        /\ jobs'[j].pc = "select" /\ jobs'[j].text = jobs[j].text
        /\ jobs'[j].version = jobs[j].version /\ jobs'[j].cancelled = jobs[j].cancelled
        /\ \A u \in Uris : Running(u)' = Running(u)
        /\ JobsOK' /\ HandlerOK' /\ QueryOK' /\ \A u \in Uris : CancelAt(u)' /\ QueryAt(u)'
    BY <1>d, <2>1, JobMoves
  <2>3. StateOK'
    BY <1>1, <1>2, <1>3, <2>1, <2>2 DEF StateOK
  <2>4. \A u \in Uris : ShowAt(u)'
    BY <1>3, <1>4, <2>1, <2>2 DEF Current, Stale
  <2>5. ASSUME NEW u \in Uris PROVE CacheAt(u)'
    <3>1. CASE u = d
      <4>1. Works(d, {"parse"}) => Works(d, {"parse"})'
        BY <1>3, <1>d, <2>2 DEF Works, Handling, Running
      <4>2. ~overlapped[d] => jobs[j].text = documents[d]
        BY <1>1, <1>d, <2>2 DEF CacheAt, Analysing
      <4>3. \A i \in Running(d) : jobs'[i].pc \in Analysing =>
              jobs[i].pc \in Analysing /\ jobs'[i].text = jobs[i].text
        BY <1>d, <2>2 DEF Analysing, Running
      <4>4. jobs[j].text \in Good =>
              varTypes'[d] = jobs[j].text /\ richASTs' = richASTs
        BY <1>2, <1>d, <2>1, <2>2 DEF Good
      <4> QED
        BY <1>1, <1>3, <2>1, <2>2, <3>1, <4>1, <4>2, <4>3, <4>4
           DEF CacheAt, FreshAt, ExactAt, Fresh
    <3>2. CASE u # d
      <4>1. richASTs'[u] = richASTs[u] /\ varTypes'[u] = varTypes[u]
        BY <1>2, <2>1, <2>2, <3>2
      <4>2. \A i \in Running(u) : jobs'[i] = jobs[i]
        BY <2>2, <3>2 DEF Running
      <4>3. CacheAt(u) /\ Running(u)' = Running(u)
        BY <1>1, <2>2
      <4> QED
        BY <1>3, <2>1, <4>1, <4>2, <4>3
           DEF CacheAt, FreshAt, ExactAt, Fresh, Works, Handling
    <3> QED
      BY <3>1, <3>2
  <2> QED
    BY <2>2, <2>3, <2>4, <2>5 DEF LInv
<1>9. CASE JobSelects(j) \/ JobComparesVersions(j) \/ JobPublishes(j)
  <2>1. JobKeeps /\ UNCHANGED <<richASTs, parseTrees, varTypes>>
        /\ jobs[j].pc \in {"select", "version", "publish"}
    BY <1>9 DEF JobSelects, JobComparesVersions, JobPublishes, JobGoes, caches
  <2>2. PICK to \in {"version", "publish", "done"} : JobGoes(j, jobs[j].pc, to)
    BY <1>9 DEF JobSelects, JobComparesVersions, JobPublishes, JobGoes
  <2>3. /\ d \in Uris /\ j \in Running(d) /\ jobs[j] \in Job
        /\ JobsOK' /\ HandlerOK' /\ QueryOK' /\ DOMAIN jobs' = DOMAIN jobs
        /\ \A u \in Uris : CancelAt(u)' /\ QueryAt(u)'
    BY <1>d, <2>1, <2>2, JobMoves
  <2>4. \A u \in Uris : CacheAt(u)'
    BY <1>6, <2>1, <2>2
  <2>5. StateOK'
    <3>1. shown' \in [Uris -> Texts \cup {Nil}]
      BY <1>2, <1>9, <2>3 DEF JobSelects, JobComparesVersions, JobPublishes, Job
    <3> QED
      BY <1>1, <1>3, <2>1, <2>3, <3>1 DEF StateOK
  <2>6. \A u \in Uris : ShowAt(u)'
    <3>1. CASE JobSelects(j)
      <4>1. CASE jobs[j].cancelled
        <5>1. JobGoes(j, jobs[j].pc, "done") /\ ~Current(d, j) /\ UNCHANGED shown
          BY <1>d, <3>1, <4>1 DEF JobSelects, JobGoes, Current
        <5> QED
          BY <1>5, <2>1, <5>1
      <4>2. CASE ~jobs[j].cancelled
        <5>1. JobGoes(j, jobs[j].pc, "version") /\ ~Stale(d, j) /\ UNCHANGED shown
          BY <1>d, <3>1, <4>2 DEF JobSelects, JobGoes, Stale
        <5>2. Current(d, j) => Current(d, j)'
          BY <1>3, <1>d, <2>1, <5>1, JobMoves DEF Current
        <5> QED
          BY <1>4, <2>1, <5>1, <5>2
      <4> QED
        BY <4>1, <4>2
    <3>2. CASE JobComparesVersions(j)
      <4>1. CASE docVersions[d] = jobs[j].version
        <5>1. JobGoes(j, jobs[j].pc, "publish") /\ ~Stale(d, j) /\ UNCHANGED shown
          BY <1>d, <3>2, <4>1 DEF JobComparesVersions, JobGoes, Stale
        <5>2. Current(d, j) => Current(d, j)'
          BY <1>3, <1>d, <2>1, <5>1, JobMoves DEF Current
        <5> QED
          BY <1>4, <2>1, <5>1, <5>2
      <4>2. CASE docVersions[d] # jobs[j].version
        <5>1. JobGoes(j, jobs[j].pc, "done") /\ ~Current(d, j) /\ UNCHANGED shown
          BY <1>d, <3>2, <4>2 DEF JobComparesVersions, JobGoes, Current
        <5> QED
          BY <1>5, <2>1, <5>1
      <4> QED
        BY <4>1, <4>2
    <3>3. CASE JobPublishes(j)
      <4>1. JobGoes(j, jobs[j].pc, "done") /\ ~Stale(d, j)
            /\ shown' = [shown EXCEPT ![d] = jobs[j].text]
        BY <1>d, <3>3 DEF JobPublishes, JobGoes, Stale
      <4>2. ~overtaken[d] => jobs[j].text = documents[d]
        BY <1>1, <1>d, <2>3, <4>1 DEF ShowAt, Current
      <4>3. /\ shown'[d] = jobs[j].text /\ \A u \in Uris : u # d => shown'[u] = shown[u]
        BY <1>2, <1>d, <2>3, <4>1
      <4> QED
        BY <1>5, <2>1, <4>1, <4>2, <4>3
    <3> QED
      BY <1>9, <3>1, <3>2, <3>3
  <2> QED
    BY <2>3, <2>4, <2>5, <2>6 DEF LInv
<1> QED
  BY <1>7, <1>8, <1>9 DEF JobStep

\* What a notification for document u leaves of the jobs: those of other documents
\* as they were, its own with the cancellation, and at most a new one of its own.
Kept(u) ==
    /\ DOMAIN jobs \subseteq DOMAIN jobs'
    /\ \A j \in DOMAIN jobs' \ DOMAIN jobs : jobs'[j].uri = u
    /\ \A j \in DOMAIN jobs :
         /\ j \notin Running(u) => jobs'[j] = jobs[j]
         /\ jobs'[j].uri = jobs[j].uri /\ jobs'[j].text = jobs[j].text
         /\ jobs'[j].version = jobs[j].version /\ jobs'[j].pc = jobs[j].pc
         /\ j \in Running(u) => jobs'[j].cancelled

\* Other documents do not notice a notification, and no old job of its document
\* can publish after it -- unless the histories say so.
LEMMA Notified ==
    ASSUME LInv, NEW u \in Uris, Arrives(u), Kept(u),
           \A v \in Uris \ {u} :
               /\ documents'[v] = documents[v] /\ docVersions'[v] = docVersions[v]
               /\ cancels'[v] = cancels[v] /\ shown'[v] = shown[v]
               /\ richASTs'[v] = richASTs[v] /\ parseTrees'[v] = parseTrees[v]
               /\ varTypes'[v] = varTypes[v],
           handler' = Idle \/ handler'.uri = u,
           docVersions'[u] \in {0, docVersions[u] + 1}
    PROVE  /\ \A v \in Uris \ {u} : CancelAt(v)' /\ ShowAt(v)' /\ QueryAt(v)' /\ CacheAt(v)'
           /\ \A j \in Running(u) : ~overtaken'[u] => Stale(u, j)'
           /\ \A j \in Running(u) : ~overlapped'[u] => jobs'[j].pc \notin Analysing
           /\ ~overlapped'[u] => query'.uri # u
           /\ QueryOK' /\ early' \in [Uris -> BOOLEAN]
           /\ \A j \in Running(u)' : j \in Running(u) \/ j \in DOMAIN jobs' \ DOMAIN jobs
           /\ overtaken' \in [Uris -> BOOLEAN] /\ overlapped' \in [Uris -> BOOLEAN]
           /\ messages' = messages + 1 /\ messages \in Nat /\ messages' <= MaxMessages
<1>1. /\ JobsOK /\ HandlerOK /\ QueryOK /\ StateOK
      /\ \A v \in Uris : CancelAt(v) /\ ShowAt(v) /\ QueryAt(v) /\ CacheAt(v)
  BY DEF LInv
<1>2. /\ messages' = messages + 1 /\ messages \in Nat /\ messages' <= MaxMessages
  BY <1>1, ToolsAssumption DEF StateOK, Arrives
<1>3. /\ overtaken \in [Uris -> BOOLEAN] /\ overlapped \in [Uris -> BOOLEAN]
      /\ early \in [Uris -> BOOLEAN] /\ early' = [early EXCEPT ![u] = FALSE]
      /\ overtaken' = [overtaken EXCEPT ![u] = \E j \in Running(u) :
           jobs[j].pc = "publish" \/ (jobs[j].pc = "version" /\ jobs[j].outlived)]
      /\ overlapped' = [overlapped EXCEPT ![u] =
           query.uri = u \/ \E j \in Running(u) : jobs[j].pc \in Analysing]
      /\ query' = query
  BY <1>1 DEF StateOK, Arrives
<1>4. /\ overtaken' \in [Uris -> BOOLEAN] /\ overlapped' \in [Uris -> BOOLEAN]
      /\ early' \in [Uris -> BOOLEAN] /\ QueryOK'
  BY <1>1, <1>3 DEF QueryOK
<1>5. \A v \in Uris \ {u} : /\ overtaken'[v] = overtaken[v] /\ overlapped'[v] = overlapped[v]
                             /\ early'[v] = early[v]
  BY <1>3
<1>6. /\ ~overtaken'[u] => \A j \in Running(u) :
            jobs[j].pc # "publish" /\ (jobs[j].pc = "version" => ~jobs[j].outlived)
      /\ ~overlapped'[u] => /\ \A j \in Running(u) : jobs[j].pc \notin Analysing
                            /\ query'.uri # u
  BY <1>3
<1>7. \A j \in Running(u)' : j \in Running(u) \/ j \in DOMAIN jobs' \ DOMAIN jobs
  BY DEF Kept, Running
<1>8. ASSUME NEW j \in Running(u)
      PROVE  /\ ~overtaken'[u] => Stale(u, j)'
             /\ ~overlapped'[u] => jobs'[j].pc \notin Analysing
  <2>1. /\ j \in DOMAIN jobs /\ jobs'[j].cancelled /\ jobs'[j].pc = jobs[j].pc
        /\ jobs'[j].version = jobs[j].version
    BY <1>8 DEF Kept, Running
  <2>2. /\ jobs[j].version >= 1 /\ jobs[j].version \in Nat
        /\ ~jobs[j].outlived => jobs[j].version <= docVersions[u]
    BY <1>1, <1>8, <2>1 DEF CancelAt, JobsOK, Job
  <2>3. docVersions[u] \in Nat
    BY <1>1 DEF StateOK
  <2>4. ~jobs[j].outlived => jobs[j].version # docVersions'[u]
    BY <2>2, <2>3
  <2>5. ~overtaken'[u] => jobs[j].pc # "publish" /\ (jobs[j].pc = "version" => ~jobs[j].outlived)
    BY <1>6, <1>8
  <2>6. ~overlapped'[u] => jobs[j].pc \notin Analysing
    BY <1>6, <1>8
  <2> QED
    BY <2>1, <2>4, <2>5, <2>6 DEF Stale
<1>9. ASSUME NEW v \in Uris \ {u} PROVE CancelAt(v)' /\ ShowAt(v)' /\ QueryAt(v)' /\ CacheAt(v)'
  <2>1. /\ Running(v)' = Running(v) /\ \A j \in Running(v) : jobs'[j] = jobs[j]
    BY <1>9 DEF Kept, Running
  <2>2. ~Handling(v) /\ ~Handling(v)'
    BY <1>9 DEF Handling, Arrives, Idle
  <2>3. CancelAt(v) /\ ShowAt(v) /\ QueryAt(v) /\ CacheAt(v)
    BY <1>1
  <2>4. UNCHANGED <<documents[v], docVersions[v], cancels[v], shown[v], richASTs[v],
                    parseTrees[v], varTypes[v], overtaken[v], overlapped[v], early[v], query>>
    BY <1>3, <1>5, <1>9
  <2>5. CancelAt(v)'
    BY <2>1, <2>3, <2>4 DEF CancelAt
  <2>6. ShowAt(v)'
    BY <2>1, <2>2, <2>3, <2>4 DEF ShowAt, Current, Stale
  <2>7. CacheAt(v)'
    BY <2>1, <2>2, <2>3, <2>4 DEF CacheAt, FreshAt, ExactAt, Fresh, Works
  <2>8. QueryAt(v)'
    BY <2>3, <2>4 DEF QueryAt
  <2> QED
    BY <2>5, <2>6, <2>7, <2>8
<1> QED
  BY <1>2, <1>4, <1>6, <1>7, <1>8, <1>9

\* DidOpen and DidSave.
LEMMA AnalysesInvStep ==
    ASSUME LInv, NEW u \in Uris, Arrives(u), NEW t \in Texts, Analyses(u, t)
    PROVE  LInv'
<1> USE ToolsAssumption
<1>1. JobsOK /\ StateOK
  BY DEF LInv
<1>2. /\ documents' = [documents EXCEPT ![u] = t]
      /\ docVersions' = [docVersions EXCEPT ![u] = docVersions[u] + 1]
      /\ jobs' = Cancelled(u) /\ handler' = [uri |-> u, text |-> t, pc |-> "parse"]
      /\ UNCHANGED <<cancels, richASTs, parseTrees, varTypes, shown>>
  BY DEF Analyses, Store, caches
<1>3. /\ DOMAIN jobs' = DOMAIN jobs
      /\ \A j \in DOMAIN jobs :
           /\ jobs'[j] \in Job
           /\ jobs'[j].uri = jobs[j].uri /\ jobs'[j].text = jobs[j].text
           /\ jobs'[j].version = jobs[j].version /\ jobs'[j].pc = jobs[j].pc
           /\ jobs'[j].outlived = jobs[j].outlived
           /\ j \in Running(u) => jobs'[j].cancelled
           /\ j \notin Running(u) => jobs'[j] = jobs[j]
  BY <1>2, CancelledJobs
<1>4. Kept(u)
  BY <1>3 DEF Kept
<1>5. /\ documents \in [Uris -> Texts \cup {Nil}] /\ docVersions \in [Uris -> Nat]
      /\ \A v \in Uris : docVersions[v] <= messages
  BY <1>1 DEF StateOK
<1>6. /\ documents'[u] = t /\ docVersions'[u] = docVersions[u] + 1 /\ docVersions[u] \in Nat
      /\ handler'.uri = u /\ handler'.pc = "parse" /\ handler'.text = t
      /\ \A v \in Uris \ {u} : documents'[v] = documents[v] /\ docVersions'[v] = docVersions[v]
  BY <1>2, <1>5
<1>7. /\ \A v \in Uris \ {u} : CancelAt(v)' /\ ShowAt(v)' /\ QueryAt(v)' /\ CacheAt(v)'
      /\ ~overlapped'[u] => query'.uri # u
      /\ QueryOK' /\ early' \in [Uris -> BOOLEAN]
      /\ \A j \in Running(u) : ~overtaken'[u] => Stale(u, j)'
      /\ \A j \in Running(u) : ~overlapped'[u] => jobs'[j].pc \notin Analysing
      /\ \A j \in Running(u)' : j \in Running(u)
      /\ overtaken' \in [Uris -> BOOLEAN] /\ overlapped' \in [Uris -> BOOLEAN]
      /\ messages' = messages + 1 /\ messages \in Nat /\ messages' <= MaxMessages
  BY <1>2, <1>3, <1>4, <1>6, Notified
<1>8. JobsOK'
  <2>1. \A j \in DOMAIN jobs : jobs[j].pc # "done" => jobs[j].text \in Texts
    BY <1>1 DEF JobsOK
  <2> QED
    BY <1>1, <1>3, <2>1 DEF JobsOK
<1>9. HandlerOK'
  BY <1>2, <1>6 DEF HandlerOK
<1>10. StateOK'
  <2>1. \A v \in Uris : docVersions'[v] <= messages' /\ docVersions'[v] \in Nat
    BY <1>5, <1>6, <1>7
  <2>2. documents' \in [Uris -> Texts \cup {Nil}] /\ docVersions' \in [Uris -> Nat]
    BY <1>2, <1>5, <1>6
  <2> QED
    BY <1>1, <1>2, <1>3, <1>7, <2>1, <2>2 DEF StateOK
<1>11. CancelAt(u)'
  <2>1. \A j \in Running(u) : /\ j \in DOMAIN jobs /\ jobs[j].version \in Nat
                              /\ jobs[j].version >= 1
                              /\ ~jobs[j].outlived => jobs[j].version <= docVersions[u]
    BY <1>1 DEF LInv, CancelAt, Running, JobsOK, Job
  <2> QED
    BY <1>3, <1>6, <1>7, <2>1 DEF CancelAt
<1>12. ShowAt(u)' /\ QueryAt(u)'
  BY <1>2, <1>6, <1>7 DEF ShowAt, QueryAt, Works, Handling
<1>13. CacheAt(u)'
  <2>1. Works(u, {"parse"})' /\ Works(u, Analysing)' /\ documents'[u] # Nil
    BY <1>6 DEF Works, Handling, Analysing, Analysed
  <2> QED
    BY <1>6, <1>7, <2>1 DEF CacheAt, FreshAt, ExactAt
<1> QED
  BY <1>7, <1>8, <1>9, <1>10, <1>11, <1>12, <1>13 DEF LInv

\* A change stores the text, stops the older jobs and starts its own.
LEMMA ChangeInvStep == ASSUME LInv, NEW u \in Uris, DidChange(u) PROVE LInv'
<1> USE ToolsAssumption
<1>1. JobsOK /\ HandlerOK /\ StateOK
  BY DEF LInv
<1> DEFINE old == Cancelled(u)
<1>2. PICK next \in Nat : /\ next = Cardinality(DOMAIN jobs) + 1 /\ next \notin DOMAIN jobs
                          /\ \A j \in DOMAIN jobs : j \in 1 .. next
  BY <1>1 DEF JobsOK
<1>3. PICK t \in Texts \ {documents[u]} :
        /\ Store(u, t)
        /\ jobs' = [j \in 1 .. next |->
                      IF j = next THEN NewJob(u, t, docVersions[u] + 1) ELSE old[j]]
        /\ cancels' = [cancels EXCEPT ![u] = next]
  BY <1>2 DEF DidChange
<1>4. /\ Arrives(u) /\ handler = Idle
      /\ UNCHANGED <<handler, richASTs, parseTrees, varTypes, shown>>
      /\ documents' = [documents EXCEPT ![u] = t]
      /\ docVersions' = [docVersions EXCEPT ![u] = docVersions[u] + 1]
  BY <1>3 DEF DidChange, Arrives, Store, caches
<1>5. /\ documents \in [Uris -> Texts \cup {Nil}] /\ docVersions \in [Uris -> Nat]
      /\ cancels \in [Uris -> Nat] /\ \A v \in Uris : docVersions[v] <= messages
  BY <1>1 DEF StateOK
<1>6. /\ documents'[u] = t /\ docVersions'[u] = docVersions[u] + 1 /\ docVersions[u] \in Nat
      /\ cancels'[u] = next
      /\ \A v \in Uris \ {u} : /\ documents'[v] = documents[v] /\ cancels'[v] = cancels[v]
                               /\ docVersions'[v] = docVersions[v]
  BY <1>2, <1>3, <1>4, <1>5
<1>7. \A j \in DOMAIN jobs :
        /\ old[j] \in Job
        /\ old[j].uri = jobs[j].uri /\ old[j].text = jobs[j].text
        /\ old[j].version = jobs[j].version /\ old[j].pc = jobs[j].pc
        /\ old[j].outlived = jobs[j].outlived
        /\ j \in Running(u) => old[j].cancelled
        /\ j \notin Running(u) => old[j] = jobs[j]
  BY CancelledJobs
<1>8. /\ DOMAIN jobs' = 1 .. next /\ next \in DOMAIN jobs'
      /\ \A j \in DOMAIN jobs : jobs'[j] = old[j]
      /\ jobs'[next] = [uri |-> u, text |-> t, version |-> docVersions[u] + 1, cancelled |-> FALSE,
                        outlived |-> FALSE, pc |-> "parse"]
      /\ \A j \in DOMAIN jobs' : j \in DOMAIN jobs \/ j = next
  <2>1. \A j \in 1 .. next : j \in DOMAIN jobs \/ j = next
    BY <1>1, <1>2 DEF JobsOK
  <2>2. next \in 1 .. next
    BY <1>1, <1>2 DEF JobsOK
  <2> QED
    BY <1>2, <1>3, <2>1, <2>2 DEF NewJob
<1>9. /\ jobs'[next] \in Job /\ jobs'[next].uri = u /\ jobs'[next].text = t
      /\ jobs'[next].version = docVersions[u] + 1 /\ ~jobs'[next].cancelled
      /\ jobs'[next].pc = "parse"
  <2>1. docVersions[u] + 1 \in Nat
    BY <1>6
  <2> QED
    BY <1>8, <2>1 DEF Job
<1> HIDE DEF old
<1>10. Kept(u)
  <2>1. DOMAIN jobs \subseteq DOMAIN jobs'
    BY <1>2, <1>8
  <2> QED
    BY <1>7, <1>8, <1>9, <2>1 DEF Kept
<1>11. /\ \A v \in Uris \ {u} : CancelAt(v)' /\ ShowAt(v)' /\ QueryAt(v)' /\ CacheAt(v)'
       /\ ~overlapped'[u] => query'.uri # u
       /\ QueryOK' /\ early' \in [Uris -> BOOLEAN]
       /\ \A j \in Running(u) : ~overtaken'[u] => Stale(u, j)'
       /\ \A j \in Running(u) : ~overlapped'[u] => jobs'[j].pc \notin Analysing
       /\ \A j \in Running(u)' : j \in Running(u) \/ j \in DOMAIN jobs' \ DOMAIN jobs
       /\ overtaken' \in [Uris -> BOOLEAN] /\ overlapped' \in [Uris -> BOOLEAN]
       /\ messages' = messages + 1 /\ messages \in Nat /\ messages' <= MaxMessages
  BY <1>4, <1>6, <1>10, Notified
<1>12. next \in Running(u)' /\ \A j \in Running(u)' : j \in Running(u) \/ j = next
  BY <1>8, <1>9, <1>11 DEF Running
<1>13. JobsOK'
  <2>1. Cardinality(DOMAIN jobs') = next
    <3>1. Cardinality(1 .. next) = next
      BY <1>2, FS_Interval
    <3> QED
      BY <1>8, <3>1
  <2>2. \A j \in DOMAIN jobs : jobs[j].pc # "done" => jobs[j].text \in Texts
    BY <1>1 DEF JobsOK
  <2>3. \A j \in DOMAIN jobs' : jobs'[j] \in Job /\ (jobs'[j].pc # "done" => jobs'[j].text \in Texts)
    <3>1. \A j \in DOMAIN jobs : jobs'[j] \in Job /\ (jobs'[j].pc # "done" => jobs'[j].text \in Texts)
      BY <1>7, <1>8, <2>2
    <3>2. jobs'[next] \in Job /\ jobs'[next].text \in Texts
      BY <1>9
    <3> QED
      BY <1>8, <3>1, <3>2
  <2> QED
    BY <1>2, <1>8, <2>1, <2>3 DEF JobsOK
<1>14. HandlerOK'
  BY <1>4 DEF HandlerOK
<1>15. StateOK'
  <2>1. \A v \in Uris : docVersions'[v] <= messages' /\ docVersions'[v] \in Nat
    BY <1>5, <1>6, <1>11
  <2>2. documents' \in [Uris -> Texts \cup {Nil}] /\ docVersions' \in [Uris -> Nat]
    BY <1>4, <1>5, <1>6
  <2>3. cancels' \in [Uris -> Nat]
    BY <1>2, <1>3, <1>5
  <2>4. \A v \in Uris : cancels'[v] \in {0} \cup DOMAIN jobs'
    <3>1. \A v \in Uris : cancels[v] \in {0} \cup DOMAIN jobs
      BY <1>1 DEF StateOK
    <3>2. DOMAIN jobs \subseteq DOMAIN jobs'
      BY <1>10 DEF Kept
    <3> QED
      BY <1>6, <1>8, <3>1, <3>2
  <2> QED
    BY <1>1, <1>4, <1>11, <2>1, <2>2, <2>3, <2>4 DEF StateOK
<1>16. CancelAt(u)'
  <2>1. ASSUME NEW j \in Running(u)
        PROVE  /\ jobs'[j].cancelled /\ jobs'[j].version >= 1
               /\ ~jobs'[j].outlived => jobs'[j].version <= docVersions'[u]
    <3>1. /\ j \in DOMAIN jobs /\ jobs[j].version \in Nat /\ jobs[j].version >= 1
          /\ ~jobs[j].outlived => jobs[j].version <= docVersions[u]
      BY <1>1 DEF LInv, CancelAt, Running, JobsOK, Job
    <3> QED
      BY <1>6, <1>7, <1>8, <2>1, <3>1
  <2>2. jobs'[next].version >= 1 /\ jobs'[next].version <= docVersions'[u]
    BY <1>6, <1>9
  <2> QED
    BY <1>6, <1>12, <2>1, <2>2 DEF CancelAt
<1>17. ShowAt(u)'
  <2>1. Current(u, next)'
    BY <1>6, <1>9 DEF Current
  <2> QED
    BY <1>11, <1>12, <2>1 DEF ShowAt
<1>18. CacheAt(u)'
  <2>1. Works(u, {"parse"})' /\ Works(u, Analysing)'
    BY <1>9, <1>12 DEF Works, Analysing
  <2>2. documents'[u] # Nil
    BY <1>6 DEF Analysed
  <2> QED
    BY <1>6, <1>9, <1>11, <1>12, <2>1, <2>2 DEF CacheAt, FreshAt, ExactAt
<1>19. QueryAt(u)'
  BY <1>11 DEF QueryAt
<1> QED
  BY <1>11, <1>13, <1>14, <1>15, <1>16, <1>17, <1>18, <1>19 DEF LInv

\* Closing removes the document; the jobs that outlive it are told to stop.
LEMMA CloseInvStep == ASSUME LInv, NEW u \in Uris, DidClose(u) PROVE LInv'
<1> USE ToolsAssumption
<1>1. JobsOK /\ HandlerOK /\ StateOK
  BY DEF LInv
<1>2. /\ Arrives(u) /\ jobs' = Outlived(u, Cancelled(u))
      /\ cancels' = [cancels EXCEPT ![u] = 0]
      /\ documents' = [documents EXCEPT ![u] = Nil]
      /\ docVersions' = [docVersions EXCEPT ![u] = 0]
      /\ richASTs' = [richASTs EXCEPT ![u] = Nil]
      /\ varTypes' = [varTypes EXCEPT ![u] = Nil]
      /\ handler' = [uri |-> u, text |-> Nil, pc |-> "publish"]
      /\ UNCHANGED <<parseTrees, shown>>
  BY DEF DidClose
<1>3. /\ documents \in [Uris -> Texts \cup {Nil}] /\ docVersions \in [Uris -> Nat]
      /\ cancels \in [Uris -> Nat] /\ \A v \in Uris : docVersions[v] <= messages
      /\ richASTs \in [Uris -> Analysed \cup {Nil}] /\ varTypes \in [Uris -> Analysed \cup {Nil}]
  BY <1>1 DEF StateOK
<1>4. /\ documents'[u] = Nil /\ docVersions'[u] = 0 /\ cancels'[u] = 0
      /\ richASTs'[u] = Nil /\ varTypes'[u] = Nil
      /\ handler'.uri = u /\ handler'.pc = "publish" /\ handler'.text = Nil
      /\ \A v \in Uris \ {u} : /\ documents'[v] = documents[v] /\ cancels'[v] = cancels[v]
                               /\ docVersions'[v] = docVersions[v]
                               /\ richASTs'[v] = richASTs[v] /\ varTypes'[v] = varTypes[v]
  BY <1>2, <1>3
<1>5. /\ DOMAIN Cancelled(u) = DOMAIN jobs
      /\ \A j \in DOMAIN jobs :
           /\ Cancelled(u)[j] \in Job
           /\ Cancelled(u)[j].uri = jobs[j].uri /\ Cancelled(u)[j].text = jobs[j].text
           /\ Cancelled(u)[j].version = jobs[j].version /\ Cancelled(u)[j].pc = jobs[j].pc
           /\ j \in Running(u) => Cancelled(u)[j].cancelled
           /\ j \notin Running(u) => Cancelled(u)[j] = jobs[j]
  BY CancelledJobs
<1>6. /\ DOMAIN jobs' = DOMAIN jobs
      /\ \A j \in DOMAIN jobs :
           jobs'[j] = IF j \in Running(u) THEN [Cancelled(u)[j] EXCEPT !.outlived = TRUE]
                      ELSE Cancelled(u)[j]
  BY <1>2, <1>5 DEF Outlived
<1>7. \A j \in DOMAIN jobs :
        /\ jobs'[j] \in Job
        /\ jobs'[j].uri = jobs[j].uri /\ jobs'[j].text = jobs[j].text
        /\ jobs'[j].version = jobs[j].version /\ jobs'[j].pc = jobs[j].pc
        /\ j \in Running(u) => jobs'[j].cancelled /\ jobs'[j].outlived
        /\ j \notin Running(u) => jobs'[j] = jobs[j]
  <2> SUFFICES ASSUME NEW j \in DOMAIN jobs
               PROVE  /\ jobs'[j] \in Job
                      /\ jobs'[j].uri = jobs[j].uri /\ jobs'[j].text = jobs[j].text
                      /\ jobs'[j].version = jobs[j].version /\ jobs'[j].pc = jobs[j].pc
                      /\ j \in Running(u) => jobs'[j].cancelled /\ jobs'[j].outlived
                      /\ j \notin Running(u) => jobs'[j] = jobs[j]
    OBVIOUS
  <2>1. CASE j \in Running(u)
    <3>1. PICK c \in Job : c = Cancelled(u)[j]
      BY <1>5
    <3>2. jobs'[j] = [c EXCEPT !.outlived = TRUE]
      BY <1>6, <2>1, <3>1
    <3>3. /\ jobs'[j] \in Job /\ jobs'[j].uri = c.uri /\ jobs'[j].text = c.text
          /\ jobs'[j].version = c.version /\ jobs'[j].pc = c.pc
          /\ jobs'[j].cancelled = c.cancelled /\ jobs'[j].outlived
      BY <3>2 DEF Job
    <3> QED
      BY <1>5, <2>1, <3>1, <3>3
  <2>2. CASE j \notin Running(u)
    BY <1>5, <1>6, <2>2
  <2> QED
    BY <2>1, <2>2
<1>8. Kept(u)
  BY <1>6, <1>7 DEF Kept
<1>9. /\ \A v \in Uris \ {u} : CancelAt(v)' /\ ShowAt(v)' /\ QueryAt(v)' /\ CacheAt(v)'
      /\ ~overlapped'[u] => query'.uri # u
      /\ QueryOK' /\ early' \in [Uris -> BOOLEAN]
      /\ \A j \in Running(u) : ~overtaken'[u] => Stale(u, j)'
      /\ \A j \in Running(u) : ~overlapped'[u] => jobs'[j].pc \notin Analysing
      /\ \A j \in Running(u)' : j \in Running(u)
      /\ overtaken' \in [Uris -> BOOLEAN] /\ overlapped' \in [Uris -> BOOLEAN]
      /\ messages' = messages + 1 /\ messages \in Nat /\ messages' <= MaxMessages
  BY <1>2, <1>4, <1>6, <1>8, Notified
<1>10. JobsOK'
  <2>1. \A j \in DOMAIN jobs : jobs[j].pc # "done" => jobs[j].text \in Texts
    BY <1>1 DEF JobsOK
  <2> QED
    BY <1>1, <1>6, <1>7, <2>1 DEF JobsOK
<1>11. HandlerOK'
  BY <1>2, <1>4 DEF HandlerOK
<1>12. StateOK'
  <2>1. \A v \in Uris : docVersions'[v] <= messages'
    BY <1>3, <1>4, <1>9
  <2>2. /\ documents' \in [Uris -> Texts \cup {Nil}] /\ docVersions' \in [Uris -> Nat]
        /\ cancels' \in [Uris -> Nat] /\ richASTs' \in [Uris -> Analysed \cup {Nil}]
        /\ varTypes' \in [Uris -> Analysed \cup {Nil}]
    BY <1>2, <1>3
  <2>3. \A v \in Uris : cancels'[v] \in {0} \cup DOMAIN jobs'
    BY <1>1, <1>4, <1>6 DEF StateOK
  <2> QED
    BY <1>1, <1>2, <1>9, <2>1, <2>2, <2>3 DEF StateOK
<1>13. CancelAt(u)'
  <2>1. \A j \in Running(u) : j \in DOMAIN jobs /\ jobs[j].version >= 1
    BY DEF LInv, CancelAt, Running
  <2> QED
    BY <1>7, <1>9, <2>1 DEF CancelAt
<1>14. ShowAt(u)'
  BY <1>4, <1>9 DEF ShowAt, Handling
<1>15. CacheAt(u)' /\ QueryAt(u)'
  <2>1. documents'[u] \notin Good
    BY <1>4 DEF Good, Analysed
  <2> QED
    BY <1>4, <1>9, <2>1 DEF CacheAt, FreshAt, ExactAt, QueryAt
<1> QED
  BY <1>9, <1>10, <1>11, <1>12, <1>13, <1>14, <1>15 DEF LInv

\* A request that goes on to analyse either finds no type in the caches, or comes
\* while the last text is being analysed.
LEMMA LooksInvStep == ASSUME LInv, NEW u \in Uris, Looks(u) PROVE LInv'
<1> USE ToolsAssumption
<1>1. /\ JobsOK /\ HandlerOK /\ QueryOK /\ StateOK
      /\ \A v \in Uris : CancelAt(v) /\ ShowAt(v) /\ QueryAt(v) /\ CacheAt(v)
  BY DEF LInv
<1>2. /\ UNCHANGED <<documents, docVersions, cancels, jobs, handler, shown, overtaken, overlapped,
                     richASTs, parseTrees, varTypes>>
      /\ documents[u] # Nil /\ (richASTs[u] = Nil \/ varTypes[u] \notin Typed)
      /\ early' = [early EXCEPT ![u] = early[u] \/ AnalysisRuns(u)]
      /\ messages < MaxMessages /\ messages' = messages + 1
  BY DEF Looks, Asks, QueryKeeps, caches
<1>3. PICK p \in Patches[documents[u]] : query' = [uri |-> u, text |-> p, pc |-> "parse"]
  BY DEF Looks, Asks
<1>4. documents[u] \in Texts /\ p \in Analysed
  BY <1>1, <1>2, <1>3 DEF StateOK, Analysed
<1>5. QueryOK' /\ query'.uri = u /\ query'.text = p
  BY <1>3, <1>4 DEF QueryOK
<1>6. /\ early \in [Uris -> BOOLEAN] /\ AnalysisRuns(u) \in BOOLEAN
      /\ early' \in [Uris -> BOOLEAN] /\ early'[u] = (early[u] \/ AnalysisRuns(u))
      /\ \A v \in Uris : v # u => early'[v] = early[v]
  <2>1. AnalysisRuns(u) \in BOOLEAN
    BY DEF AnalysisRuns
  <2>2. early \in [Uris -> BOOLEAN]
    BY <1>1 DEF StateOK
  <2> QED
    BY <1>2, <2>1, <2>2
<1>7. StateOK'
  <2>1. messages' \in Nat /\ messages' <= MaxMessages
    BY <1>1, <1>2 DEF StateOK
  <2>2. \A v \in Uris : docVersions'[v] <= messages'
    BY <1>1, <1>2 DEF StateOK
  <2> QED
    BY <1>1, <1>2, <1>6, <2>1, <2>2 DEF StateOK
<1>8. JobsOK' /\ HandlerOK'
  BY <1>1, <1>2 DEF JobsOK, HandlerOK
<1>9. ASSUME NEW v \in Uris PROVE CancelAt(v)' /\ ShowAt(v)' /\ QueryAt(v)' /\ CacheAt(v)'
  <2>1. /\ CancelAt(v) /\ ShowAt(v) /\ QueryAt(v) /\ CacheAt(v)
        /\ Running(v)' = Running(v) /\ Handling(v)' = Handling(v)
    BY <1>1, <1>2 DEF Running, Handling
  <2>2. CancelAt(v)'
    BY <1>2, <2>1 DEF CancelAt
  <2>3. ShowAt(v)'
    BY <1>2, <2>1 DEF ShowAt, Current, Stale
  <2>4. QueryAt(v)'
    BY <1>2, <1>3, <1>5 DEF QueryAt
  <2>5. /\ Works(v, {"parse"})' = Works(v, {"parse"})
        /\ Works(v, Analysing)' = Works(v, Analysing)
    BY <1>2, <2>1 DEF Works
  <2>6. FreshAt(v) => FreshAt(v)'
    BY <1>2, <2>5 DEF FreshAt, Fresh
  <2>7. ExactAt(v) => ExactAt(v)'
    <3>1. CASE v # u
      BY <1>2, <1>5, <1>6, <2>5, <3>1 DEF ExactAt
    <3>2. CASE v = u
      <4>1. Works(u, {"parse"}) \/ Works(u, Analysing) => AnalysisRuns(u)
        BY DEF Works, Analysing, Handling, AnalysisRuns
      <4>2. ExactAt(u) /\ documents[u] \in Good \cap Typed => early'[u]
        BY <1>2, <1>6, <4>1 DEF ExactAt
      <4> QED
        BY <1>2, <3>2, <4>2 DEF ExactAt
    <3> QED
      BY <3>1, <3>2
  <2>8. CacheAt(v)'
    BY <1>2, <2>1, <2>6, <2>7 DEF CacheAt
  <2> QED
    BY <2>2, <2>3, <2>4, <2>8
<1> QED
  BY <1>5, <1>7, <1>8, <1>9 DEF LInv

\* A request keeps what it makes of the last text, unless the histories say so, and
\* it runs only if the caches may have that.
LEMMA QueryInvStep == ASSUME LInv, QueryStep PROVE LInv'
<1> USE ToolsAssumption
<1>1. /\ JobsOK /\ HandlerOK /\ QueryOK /\ StateOK
      /\ \A v \in Uris : CancelAt(v) /\ ShowAt(v) /\ QueryAt(v) /\ CacheAt(v)
  BY DEF LInv
<1>2. /\ UNCHANGED <<documents, docVersions, cancels, jobs, handler, shown, messages, histories>>
      /\ query.pc \in {"parse", "types"}
  BY DEF QueryStep, QueryKeepsTree, QueryKeepsTypes, QueryKeeps, histories
<1>3. query \in [uri : Uris, text : Analysed, pc : {"parse", "types"}]
  BY <1>1, <1>2 DEF QueryOK, Idle
<1>4. PICK d \in Uris : d = query.uri
  BY <1>3
<1>5. PICK t \in Analysed : t = query.text
  BY <1>3
<1>6. /\ richASTs \in [Uris -> Analysed \cup {Nil}] /\ parseTrees \in [Uris -> Analysed \cup {Nil}]
      /\ varTypes \in [Uris -> Analysed \cup {Nil}]
  BY <1>1 DEF StateOK
<1>7. /\ query' = Idle \/ (query'.uri = d /\ query'.text = t)
      /\ QueryOK'
      /\ \/ /\ richASTs' = [richASTs EXCEPT ![d] = t] /\ parseTrees' = [parseTrees EXCEPT ![d] = t]
            /\ varTypes' = varTypes
         \/ /\ varTypes' = [varTypes EXCEPT ![d] = t]
            /\ UNCHANGED <<richASTs, parseTrees>>
  <2>1. CASE QueryKeepsTree
    <3>1. query' = [query EXCEPT !.pc = "types"]
      BY <2>1 DEF QueryKeepsTree
    <3>2. query' \in [uri : Uris, text : Analysed, pc : {"parse", "types"}]
          /\ query'.uri = d /\ query'.text = t
      BY <1>3, <1>4, <1>5, <3>1
    <3> QED
      BY <1>4, <1>5, <2>1, <3>2 DEF QueryKeepsTree, QueryOK
  <2>2. CASE QueryKeepsTypes
    BY <1>4, <1>5, <2>2 DEF QueryKeepsTypes, QueryOK
  <2> QED
    BY <2>1, <2>2 DEF QueryStep
<1>8. /\ StateOK'
      /\ \A v \in Uris : v # d => /\ richASTs'[v] = richASTs[v] /\ parseTrees'[v] = parseTrees[v]
                                  /\ varTypes'[v] = varTypes[v]
      /\ richASTs'[d] \in {t, richASTs[d]} /\ parseTrees'[d] \in {t, parseTrees[d]}
      /\ varTypes'[d] \in {t, varTypes[d]}
  <2>1. /\ richASTs' \in [Uris -> Analysed \cup {Nil}]
        /\ parseTrees' \in [Uris -> Analysed \cup {Nil}]
        /\ varTypes' \in [Uris -> Analysed \cup {Nil}]
    BY <1>6, <1>7
  <2>2. StateOK'
    BY <1>1, <1>2, <2>1 DEF StateOK, histories
  <2> QED
    BY <1>6, <1>7, <2>2
<1>9. JobsOK' /\ HandlerOK'
  BY <1>1, <1>2 DEF JobsOK, HandlerOK
<1>10. ~overlapped[d] => documents[d] # Nil /\ t \in Fresh(d)
  BY <1>1, <1>4, <1>5 DEF QueryAt, Fresh
<1>11. ASSUME NEW v \in Uris PROVE CancelAt(v)' /\ ShowAt(v)' /\ QueryAt(v)' /\ CacheAt(v)'
  <2>1. /\ CancelAt(v) /\ ShowAt(v) /\ QueryAt(v) /\ CacheAt(v)
        /\ Running(v)' = Running(v) /\ Handling(v)' = Handling(v)
    BY <1>1, <1>2 DEF Running, Handling
  <2>2. CancelAt(v)'
    BY <1>2, <2>1 DEF CancelAt
  <2>3. ShowAt(v)'
    BY <1>2, <2>1 DEF ShowAt, Current, Stale, histories
  <2>4. QueryAt(v)'
    BY <1>2, <1>4, <1>5, <1>7, <2>1 DEF QueryAt, Idle, histories
  <2>5. /\ Works(v, {"parse"})' = Works(v, {"parse"}) /\ Fresh(v)' = Fresh(v)
        /\ Works(v, Analysing)' = Works(v, Analysing)
    BY <1>2, <2>1 DEF Works, Fresh
  <2>6. ~overlapped[v] /\ FreshAt(v) => FreshAt(v)'
    BY <1>2, <1>8, <1>10, <2>5 DEF FreshAt
  <2>7. ExactAt(v) => ExactAt(v)'
    BY <1>2, <1>4, <1>7, <1>8, <2>5 DEF ExactAt, Idle, histories
  <2>8. ~overlapped[v] /\ documents[v] = Nil /\ richASTs[v] = Nil /\ varTypes[v] = Nil =>
            richASTs'[v] = Nil /\ varTypes'[v] = Nil
    BY <1>8, <1>10
  <2>9. CacheAt(v)'
    BY <1>2, <2>1, <2>6, <2>7, <2>8 DEF CacheAt, histories
  <2> QED
    BY <2>2, <2>3, <2>4, <2>9
<1> QED
  BY <1>7, <1>8, <1>9, <1>11 DEF LInv

\* Every step of the server keeps its invariant.
LEMMA LspInvStep == LInv /\ [LspNext]_lspVars => LInv'
<1> SUFFICES ASSUME LInv, [LspNext]_lspVars PROVE LInv'
  OBVIOUS
<1>1. ASSUME NEW u \in Uris, DidOpen(u) \/ DidSave(u) PROVE LInv'
  <2>1. Arrives(u)
    BY <1>1 DEF DidOpen, DidSave
  <2>2. PICK t \in Texts : Analyses(u, t)
    <3>1. documents[u] \in Texts \cup {Nil}
      BY DEF LInv, StateOK
    <3> QED
      BY <1>1, <3>1 DEF DidOpen, DidSave
  <2> QED
    BY <2>1, <2>2, AnalysesInvStep
<1>2. ASSUME NEW u \in Uris, DidChange(u) PROVE LInv'
  BY <1>2, ChangeInvStep
<1>3. ASSUME NEW u \in Uris, DidClose(u) PROVE LInv'
  BY <1>3, CloseInvStep
<1>4. CASE HandlerStep
  BY <1>4, HandlerInvStep
<1>5. ASSUME NEW j \in DOMAIN jobs, JobStep(j) PROVE LInv'
  BY <1>5, JobInvStep
<1>6. ASSUME NEW u \in Uris, Looks(u) PROVE LInv'
  BY <1>6, LooksInvStep
<1>7. CASE QueryStep
  BY <1>7, QueryInvStep
<1>8. CASE UNCHANGED lspVars
  <2>1. JobsOK' /\ HandlerOK' /\ QueryOK' /\ StateOK'
    BY <1>8 DEF lspVars, caches, histories, LInv, JobsOK, HandlerOK, QueryOK, StateOK
  <2>2. ASSUME NEW u \in Uris PROVE CancelAt(u)' /\ ShowAt(u)'
    BY <1>8 DEF lspVars, histories, LInv, CancelAt, ShowAt, Running, Current, Stale, Handling
  <2>3. ASSUME NEW u \in Uris PROVE QueryAt(u)' /\ CacheAt(u)'
    BY <1>8 DEF lspVars, caches, histories, LInv, QueryAt, CacheAt, FreshAt, ExactAt, Fresh,
                Running, Works, Handling
  <2> QED
    BY <2>1, <2>2, <2>3 DEF LInv
<1> QED
  BY <1>1, <1>2, <1>3, <1>4, <1>5, <1>6, <1>7, <1>8 DEF LspNext

\* Whatever is edited, and whatever analyses are overtaken: at rest the client is
\* shown its own text, and what is kept of a document is of that text, as it is or
\* patched by a completion, unless the last notification met a job or a request in
\* one of the windows that the histories name (server.go:270-286, 370, 521-639).
THEOREM ServerStaysRight == LspSpec => []ServerIsRight
<1>1. LInv => ServerIsRight
  <2> SUFFICES ASSUME LInv PROVE ServerIsRight
    OBVIOUS
  <2>1. /\ JobsOK /\ HandlerOK /\ QueryOK /\ StateOK
        /\ \A u \in Uris : ShowAt(u) /\ CacheAt(u)
    BY DEF LInv
  <2>2. docVersions \in [Uris -> 0 .. MaxMessages]
    <3>1. \A u \in Uris : docVersions[u] \in 0 .. MaxMessages
      BY <2>1, ToolsAssumption DEF StateOK
    <3> QED
      BY <2>1, <3>1 DEF StateOK
  <2>3. LspTypeOK
    BY <2>1, <2>2 DEF LspTypeOK, StateOK, HandlerOK, QueryOK, Idle
  <2>4. \A u \in Uris : Quiet(u) => ~Handling(u) /\ Running(u) = {}
    BY DEF Quiet, Handling, Idle
  <2>5. ShowsTheLastText
    BY <2>1, <2>4 DEF ShowsTheLastText, ShowAt
  <2>6. CachesAreOfTheLastText
    BY <2>1, <2>4 
       DEF CachesAreOfTheLastText, CacheAt, FreshAt, ExactAt, Fresh, Works
  <2> QED
    BY <2>3, <2>5, <2>6 DEF ServerIsRight
<1> QED
  BY <1>1, LspInitInv, LspInvStep, PTL DEF LspSpec

-----------------------------------------------------------------------------
(* The cache of the standard library.                                       *)

\* Builds that are behind the lock together are crowded, and as long as nobody
\* was killed no lock is being broken.
Crowd == \A b, c \in C!Inside : b # c => b \in crowded
NothingToBreak == kills = 0 => \A b \in Builds : at[b] # "breaking"
Places == C!Behind \cup {"start", "lock", "breaking", "ready", "failed"}
CInv ==
    /\ C!CacheTypeOK /\ Crowd /\ NothingToBreak
    /\ C!WholeOrAbsent /\ C!InstallerHasItsOwn /\ C!LockIsExclusive

\* Where the other builds are does not change, and where this one is does.
LEMMA BuildMoves ==
    ASSUME at \in [Builds -> Places], NEW b \in Builds, NEW to \in Places,
           at' = [at EXCEPT ![b] = to]
    PROVE  /\ at'[b] = to /\ \A c \in Builds \ {b} : at'[c] = at[c]
           /\ C!Inside' = IF to \in C!Behind THEN C!Inside \cup {b} ELSE C!Inside \ {b}
           /\ at' \in [Builds -> Places]
BY DEF C!Inside

\* A step that changes neither the library nor the lock, and takes a build neither
\* in nor out.
LEMMA StaysInPlace ==
    ASSUME CInv, NEW b \in Builds, NEW to \in Places,
           at' = [at EXCEPT ![b] = to], at[b] \in C!Behind <=> to \in C!Behind,
           at[b] # "remove" \/ torn' = TRUE \/ present = {} \/ to = "remove",
           to # "breaking" \/ kills # 0, to # "installed",
           torn' \in {TRUE, torn}, names' \in [Builds -> SUBSET C!Whole],
           UNCHANGED <<tree, present, cacheLock, kills, crowded>>
    PROVE  CInv'
<1>1. /\ C!CacheTypeOK /\ Crowd /\ NothingToBreak
      /\ C!WholeOrAbsent /\ C!InstallerHasItsOwn /\ C!LockIsExclusive
      /\ at \in [Builds -> Places]
  BY DEF CInv, C!CacheTypeOK, Places
<1>3. /\ at'[b] = to /\ \A c \in Builds \ {b} : at'[c] = at[c]
      /\ C!Inside' = C!Inside
  BY <1>1, BuildMoves DEF C!Inside
<1>4. C!CacheTypeOK'
  <2>1. at' \in [Builds -> Places]
    BY <1>1
  <2> QED
    BY <1>1, <1>3, <2>1 DEF C!CacheTypeOK, Places, C!Behind, C!Whole
<1>5. Crowd' /\ NothingToBreak'
  BY <1>1, <1>3 DEF Crowd, NothingToBreak
<1>6. C!LockIsExclusive'
  BY <1>1, <1>3 DEF C!LockIsExclusive
<1>7. C!InstallerHasItsOwn'
  BY <1>1, <1>3 DEF C!InstallerHasItsOwn, C!Whole
<1>8. C!WholeOrAbsent'
  BY <1>1, <1>3 DEF C!WholeOrAbsent, C!Whole
<1> QED
  BY <1>4, <1>5, <1>6, <1>7, <1>8 DEF CInv

\* A build comes behind the lock: those it meets there are then crowded.
LEMMA LocksInvStep == ASSUME CInv, NEW b \in Builds, C!Locks(b) PROVE CInv'
<1>1. /\ C!CacheTypeOK /\ Crowd /\ NothingToBreak
      /\ C!WholeOrAbsent /\ C!InstallerHasItsOwn /\ C!LockIsExclusive
      /\ at \in [Builds -> Places]
  BY DEF CInv, C!CacheTypeOK, Places
<1>2. /\ ~cacheLock /\ cacheLock' = TRUE /\ at[b] = "lock" /\ at' = [at EXCEPT ![b] = "locked"]
      /\ crowded' = IF C!Inside = {} THEN crowded ELSE crowded \cup C!Inside \cup {b}
      /\ UNCHANGED <<tree, present, names, kills, torn>>
  BY DEF C!Locks, C!Enters, C!Steps, C!SameTree
<1>3. /\ at'[b] = "locked" /\ \A c \in Builds \ {b} : at'[c] = at[c]
      /\ C!Inside' = C!Inside \cup {b}
  BY <1>1, <1>2, BuildMoves DEF Places, C!Behind
<1>4. C!CacheTypeOK'
  <2>1. at' \in [Builds -> Places]
    BY <1>1, <1>2 DEF Places, C!Behind
  <2>2. crowded' \subseteq C!Inside'
    BY <1>1, <1>2, <1>3 DEF C!CacheTypeOK
  <2> QED
    BY <1>1, <1>2, <2>1, <2>2 DEF C!CacheTypeOK, Places, C!Behind, C!Whole
<1>5. Crowd'
  BY <1>1, <1>2, <1>3 DEF Crowd
<1>6. NothingToBreak'
  BY <1>1, <1>2, <1>3 DEF NothingToBreak
<1>7. C!LockIsExclusive'
  BY <1>1, <1>2, <1>3 DEF C!LockIsExclusive
<1>8. C!InstallerHasItsOwn'
  BY <1>1, <1>2, <1>3 DEF C!InstallerHasItsOwn, C!Whole
<1>9. C!WholeOrAbsent'
  BY <1>1, <1>2, <1>3 DEF C!WholeOrAbsent, C!Whole
<1> QED
  BY <1>4, <1>5, <1>6, <1>7, <1>8, <1>9 DEF CInv

\* A build removes a file: a build that has installed the library meanwhile is
\* crowded, since this one is behind the lock with it.
LEMMA RemovesInvStep == ASSUME CInv, NEW b \in Builds, C!RemovesOne(b) PROVE CInv'
<1>1. /\ C!CacheTypeOK /\ Crowd /\ NothingToBreak
      /\ C!WholeOrAbsent /\ C!InstallerHasItsOwn /\ C!LockIsExclusive
  BY DEF CInv
<1>2. /\ at[b] = "remove" /\ UNCHANGED <<tree, cacheLock, at, kills, crowded, torn>>
      /\ C!Inside' = C!Inside /\ b \in C!Inside
  BY DEF C!RemovesOne, C!SameHistory, C!Inside, C!Behind
<1>3. PICK f \in names[b] : names' = [names EXCEPT ![b] = @ \ {f}] /\ present' = present \ {f}
  BY DEF C!RemovesOne
<1>4. C!CacheTypeOK'
  BY <1>1, <1>2, <1>3 DEF C!CacheTypeOK, C!Whole
<1>5. Crowd' /\ NothingToBreak' /\ C!LockIsExclusive'
  BY <1>1, <1>2 DEF Crowd, NothingToBreak, C!LockIsExclusive
<1>6. C!WholeOrAbsent'
  BY <1>2 DEF C!WholeOrAbsent
<1>7. C!InstallerHasItsOwn'
  <2> SUFFICES ASSUME NEW c \in Builds, at[c] = "installed", c \notin crowded PROVE FALSE
    BY <1>2 DEF C!InstallerHasItsOwn
  <2> QED
    BY <1>1, <1>2 DEF Crowd, C!Inside, C!Behind
<1> QED
  BY <1>4, <1>5, <1>6, <1>7 DEF CInv

\* A build installs the library: it is whole.
LEMMA InstallsInvStep == ASSUME CInv, NEW b \in Builds, C!Installs(b) PROVE CInv'
<1>1. /\ C!CacheTypeOK /\ Crowd /\ NothingToBreak
      /\ C!WholeOrAbsent /\ C!InstallerHasItsOwn /\ C!LockIsExclusive
      /\ at \in [Builds -> Places]
  BY DEF CInv, C!CacheTypeOK, Places
<1>2. /\ at[b] = "rename" /\ at' = [at EXCEPT ![b] = "installed"]
      /\ tree' = Fingerprint[b] /\ present' = C!Whole /\ torn' = FALSE
      /\ UNCHANGED <<names, cacheLock, kills, crowded>>
  BY DEF C!Installs, C!Steps
<1>3. /\ at'[b] = "installed" /\ \A c \in Builds \ {b} : at'[c] = at[c]
      /\ C!Inside' = C!Inside /\ b \in C!Inside
  BY <1>1, <1>2, BuildMoves DEF Places, C!Inside, C!Behind
<1>4. C!CacheTypeOK'
  <2>1. at' \in [Builds -> Places]
    BY <1>1, <1>2 DEF Places, C!Behind
  <2> QED
    BY <1>1, <1>2, <1>3, <2>1 DEF C!CacheTypeOK, Places, C!Behind, C!Whole
<1>5. Crowd' /\ NothingToBreak' /\ C!LockIsExclusive'
  BY <1>1, <1>2, <1>3 DEF Crowd, NothingToBreak, C!LockIsExclusive
<1>6. C!WholeOrAbsent'
  BY <1>2 DEF C!WholeOrAbsent, C!Whole
<1>7. C!InstallerHasItsOwn'
  <2> SUFFICES ASSUME NEW c \in Builds, at'[c] = "installed", c \notin crowded
               PROVE  tree' = Fingerprint[c] /\ present' = C!Whole
    BY <1>2 DEF C!InstallerHasItsOwn, C!Whole
  <2>1. c = b
    BY <1>1, <1>3 DEF Crowd, C!Inside, C!Behind
  <2> QED
    BY <1>2, <2>1
<1> QED
  BY <1>4, <1>5, <1>6, <1>7 DEF CInv

\* A build leaves, and the file goes with it whoever has made it.
LEMMA ReleasesInvStep == ASSUME CInv, NEW b \in Builds, C!Releases(b) PROVE CInv'
<1>1. /\ C!CacheTypeOK /\ Crowd /\ NothingToBreak
      /\ C!WholeOrAbsent /\ C!InstallerHasItsOwn /\ C!LockIsExclusive
      /\ at \in [Builds -> Places]
  BY DEF CInv, C!CacheTypeOK, Places
<1>2. PICK to \in {"ready", "failed"} :
        /\ at[b] \in C!Behind /\ at[b] # "remove" /\ at' = [at EXCEPT ![b] = to]
        /\ cacheLock' = FALSE /\ crowded' = crowded \ {b}
        /\ UNCHANGED <<tree, present, names, kills, torn>>
  <2>1. DOMAIN C!Outcome = {"installed", "leave", "abort"}
    BY DEF C!Outcome
  <2>2. \A o \in DOMAIN C!Outcome : C!Outcome[o] \in {"ready", "failed"}
    BY DEF C!Outcome
  <2>3. C!Outcome[at[b]] \in {"ready", "failed"}
    BY <2>2 DEF C!Releases
  <2> QED
    BY <2>1, <2>3 DEF C!Releases, C!SameTree, C!Behind
<1>3. /\ at'[b] = to /\ \A c \in Builds \ {b} : at'[c] = at[c]
      /\ C!Inside' = C!Inside \ {b} /\ b \in C!Inside
  BY <1>1, <1>2, BuildMoves DEF Places, C!Inside, C!Behind
<1>4. C!CacheTypeOK'
  <2>1. at' \in [Builds -> Places]
    BY <1>1, <1>2 DEF Places
  <2>2. crowded' \subseteq C!Inside'
    BY <1>1, <1>2, <1>3 DEF C!CacheTypeOK
  <2> QED
    BY <1>1, <1>2, <2>1, <2>2 DEF C!CacheTypeOK, Places, C!Behind, C!Whole
<1>5. Crowd' /\ NothingToBreak'
  BY <1>1, <1>2, <1>3 DEF Crowd, NothingToBreak
<1>6. C!LockIsExclusive'
  BY <1>1, <1>2, <1>3 DEF C!LockIsExclusive
<1>7. C!InstallerHasItsOwn' /\ C!WholeOrAbsent'
  BY <1>1, <1>2, <1>3 DEF C!InstallerHasItsOwn, C!WholeOrAbsent, C!Whole
<1> QED
  BY <1>4, <1>5, <1>6, <1>7 DEF CInv

\* A kill: from now on locks may be broken, and nobody need be alone.
LEMMA KillInvStep == ASSUME CInv, NEW b \in Builds, C!Kill(b) PROVE CInv'
<1> USE ToolsAssumption
<1>1. /\ C!CacheTypeOK /\ Crowd /\ NothingToBreak
      /\ C!WholeOrAbsent /\ C!InstallerHasItsOwn /\ C!LockIsExclusive
      /\ at \in [Builds -> Places]
  BY DEF CInv, C!CacheTypeOK, Places
<1>2. /\ kills < MaxKills /\ kills' = kills + 1 /\ at' = [at EXCEPT ![b] = "start"]
      /\ crowded' = crowded \ {b} /\ torn' = (torn \/ at[b] = "remove")
      /\ names' = [names EXCEPT ![b] = {}]
      /\ UNCHANGED <<tree, present, cacheLock>>
  BY DEF C!Kill
<1>3. /\ at'[b] = "start" /\ \A c \in Builds \ {b} : at'[c] = at[c]
      /\ C!Inside' = C!Inside \ {b}
  BY <1>1, <1>2, BuildMoves DEF Places, C!Behind
<1>4. C!CacheTypeOK'
  <2>1. at' \in [Builds -> Places]
    BY <1>1, <1>2 DEF Places
  <2>2. crowded' \subseteq C!Inside' /\ kills' \in 0 .. MaxKills
    BY <1>1, <1>2, <1>3 DEF C!CacheTypeOK
  <2>3. names' \in [Builds -> SUBSET C!Whole]
    BY <1>1, <1>2 DEF C!CacheTypeOK
  <2> QED
    BY <1>1, <1>2, <2>1, <2>2, <2>3 DEF C!CacheTypeOK, Places, C!Behind, C!Whole
<1>5. kills' # 0
  BY <1>1, <1>2 DEF C!CacheTypeOK
<1>6. Crowd' /\ NothingToBreak' /\ C!LockIsExclusive'
  BY <1>1, <1>2, <1>3, <1>5 DEF Crowd, NothingToBreak, C!LockIsExclusive
<1>7. C!InstallerHasItsOwn' /\ C!WholeOrAbsent'
  BY <1>1, <1>2, <1>3 DEF C!InstallerHasItsOwn, C!WholeOrAbsent, C!Whole
<1> QED
  BY <1>4, <1>6, <1>7 DEF CInv

\* What any step of a build or a kill preserves.
LEMMA CacheInvStep == CInv /\ [C!CacheNext]_C!cacheVars => CInv'
<1> SUFFICES ASSUME CInv, [C!CacheNext]_C!cacheVars PROVE CInv'
  OBVIOUS
<1>1. /\ C!CacheTypeOK /\ Crowd /\ NothingToBreak
      /\ C!WholeOrAbsent /\ C!InstallerHasItsOwn /\ C!LockIsExclusive
  BY DEF CInv
<1>2. names \in [Builds -> SUBSET C!Whole] /\ present \subseteq C!Whole
  BY <1>1 DEF C!CacheTypeOK
<1>3. ASSUME NEW b \in Builds, C!FastPath(b) PROVE CInv'
  BY <1>2, <1>3, StaysInPlace DEF C!FastPath, C!Steps, C!SameTree, C!SameHistory, Places, C!Behind
<1>4. ASSUME NEW b \in Builds, C!SeesStale(b) PROVE CInv'
  <2>1. kills # 0
    BY <1>1, <1>4 DEF C!SeesStale, C!LockIsExclusive
  <2> QED
    BY <1>2, <1>4, <2>1, StaysInPlace DEF C!SeesStale, C!Steps, C!SameTree, C!SameHistory, Places, C!Behind
<1>5. ASSUME NEW b \in Builds, C!Breaks(b) PROVE CInv'
  <2>1. kills # 0 /\ at[b] = "breaking"
    BY <1>1, <1>5 DEF C!Breaks, C!Steps, NothingToBreak
  <2>2. /\ at' = [at EXCEPT ![b] = "lock"] /\ cacheLock' = FALSE
        /\ UNCHANGED <<tree, present, names, kills, crowded, torn>>
    BY <1>5 DEF C!Breaks, C!Steps, C!SameTree, C!SameHistory
  <2>3. at \in [Builds -> Places]
      BY <1>1 DEF C!CacheTypeOK, Places
  <2>4. at'[b] = "lock" /\ (\A c \in Builds \ {b} : at'[c] = at[c]) /\ C!Inside' = C!Inside
    BY <2>1, <2>2, <2>3, BuildMoves DEF Places, C!Inside, C!Behind
  <2>5. C!CacheTypeOK'
    <3>1. at' \in [Builds -> Places]
      BY <2>2, <2>3 DEF Places
    <3> QED
      BY <1>1, <2>2, <2>4, <3>1 DEF C!CacheTypeOK, Places, C!Behind, C!Whole
  <2> QED
    BY <1>1, <2>1, <2>2, <2>4, <2>5 DEF CInv, Crowd, NothingToBreak, C!LockIsExclusive,
                                        C!InstallerHasItsOwn, C!WholeOrAbsent, C!Whole
<1>6. ASSUME NEW b \in Builds, C!LockFails(b) PROVE CInv'
  BY <1>2, <1>6, StaysInPlace DEF C!LockFails, C!Steps, C!SameTree, C!SameHistory, Places, C!Behind
<1>7. ASSUME NEW b \in Builds, C!LooksAgain(b) PROVE CInv'
  BY <1>2, <1>7, StaysInPlace DEF C!LooksAgain, C!Steps, C!SameTree, C!SameHistory, Places, C!Behind
<1>8. ASSUME NEW b \in Builds, C!Stages(b) PROVE CInv'
  <2>1. names' \in [Builds -> SUBSET C!Whole]
    BY <1>2, <1>8 DEF C!Stages
  <2> QED
    BY <1>8, <2>1, StaysInPlace DEF C!Stages, C!Steps, C!SameHistory, Places, C!Behind
<1>9. ASSUME NEW b \in Builds, C!StagingFails(b) PROVE CInv'
  BY <1>2, <1>9, StaysInPlace DEF C!StagingFails, C!Steps, C!SameTree, C!SameHistory, Places, C!Behind
<1>10. ASSUME NEW b \in Builds, C!RemoveFails(b) PROVE CInv'
  <2>1. names' \in [Builds -> SUBSET C!Whole]
    BY <1>2, <1>10 DEF C!RemoveFails
  <2> QED
    BY <1>10, <2>1, StaysInPlace DEF C!RemoveFails, C!Steps, Places, C!Behind
<1>11. ASSUME NEW b \in Builds, C!RemoveEnds(b) PROVE CInv'
  BY <1>2, <1>11, StaysInPlace DEF C!RemoveEnds, C!Steps, C!SameTree, C!SameHistory, Places, C!Behind
<1>12. ASSUME NEW b \in Builds, C!RenameFails(b) PROVE CInv'
  BY <1>2, <1>12, StaysInPlace DEF C!RenameFails, C!Steps, C!SameTree, C!SameHistory, Places, C!Behind
<1>13. ASSUME NEW b \in Builds, C!Again(b) PROVE CInv'
  BY <1>2, <1>13, StaysInPlace DEF C!Again, C!SameTree, C!SameHistory, Places, C!Behind
<1>14. CASE UNCHANGED C!cacheVars
  BY <1>1, <1>14 DEF CInv, C!CacheTypeOK, Crowd, NothingToBreak, C!WholeOrAbsent,
                     C!InstallerHasItsOwn, C!LockIsExclusive, C!Inside, C!cacheVars
<1> QED
  BY <1>3, <1>4, <1>5, <1>6, <1>7, <1>8, <1>9, <1>10, <1>11, <1>12, <1>13, <1>14,
     LocksInvStep, RemovesInvStep, InstallsInvStep, ReleasesInvStep, KillInvStep
     DEF C!CacheNext, C!Build

\* For any builds and libraries, whatever fails, whatever is killed and when: no
\* extraction is ever seen half done, a build that has replaced the library has
\* its own as long as it is alone, and without a kill it is (stdlibver.go:115-182,
\* lock.go:285-299).
THEOREM LibraryStaysRight == C!CacheSpec => []LibraryIsRight
<1>1. C!CacheInit => CInv
  <2> SUFFICES ASSUME C!CacheInit PROVE CInv
    OBVIOUS
  <2> USE DEF C!CacheInit
  <2>1. C!Inside = {}
    BY DEF C!Inside, C!Behind
  <2>2. C!CacheTypeOK
    <3>1. kills \in 0 .. MaxKills
      BY ToolsAssumption
    <3>2. at \in [Builds -> Places] /\ names \in [Builds -> SUBSET C!Whole]
      BY DEF Places
    <3> QED
      BY <2>1, <3>1, <3>2 DEF C!CacheTypeOK, Places
  <2> QED
    BY <2>1, <2>2 DEF CInv, Crowd, NothingToBreak, C!WholeOrAbsent, C!InstallerHasItsOwn,
                      C!LockIsExclusive
<1>2. CInv => LibraryIsRight
  BY DEF CInv, LibraryIsRight
<1> QED
  BY <1>1, <1>2, CacheInvStep, PTL DEF C!CacheSpec

-----------------------------------------------------------------------------
(* The Bazel worker.                                                        *)

Letter == [id : Nat \ {0}, cancel : BOOLEAN, inputs : SUBSET Inputs, key : Keys \cup {None},
           goSrc : Sources \cup {None}]
Answer == [id : Nat \ {0}, exitCode : {0, 1}, cancelled : BOOLEAN]
Setting == [files : SUBSET Inputs, goSrc : Sources \cup {None}]
\* A message that asks for something to be transpiled.
Request(m) == m \in Letter /\ ~m.cancel /\ m.key \in Keys

LoopOK ==
    /\ sent \in 0 .. MaxRequests /\ parent \in BOOLEAN
    /\ loop \in {"read", "files", "reply"} /\ ended \in {"no", "clean", "error", "crashed"}
    /\ inbox \in Seq(Letter \cup {W!Garbled})
    /\ \A i \in 1 .. Len(inbox) : inbox[i] = W!Garbled \/ inbox[i].cancel \/ Request(inbox[i])
    /\ request = W!Garbled \/ Request(request)
    /\ left \subseteq request.inputs /\ exitCode \in {0, 1}
    /\ DOMAIN analyzers \subseteq Keys /\ analyzers \in [DOMAIN analyzers -> Setting]
    /\ response = None \/ response \in Answer
    /\ replies \in Seq(Answer)

\* Every request has a number of its own, none is of a later one, and those that
\* wait have no answer.
NumbersOK ==
    /\ \A i \in 1 .. Len(inbox) : inbox[i].id <= sent
    /\ \A i \in 1 .. Len(replies) : replies[i].id <= sent
    /\ request.id <= sent
    /\ \A i, j \in 1 .. Len(inbox) :
         Request(inbox[i]) /\ Request(inbox[j]) /\ inbox[i].id = inbox[j].id => i = j
    /\ \A i \in 1 .. Len(inbox) :
         Request(inbox[i]) => inbox[i].id \notin W!Answered /\ inbox[i].id # request.id

\* The request at hand has no answer yet, its analyzer is set up, and the
\* answer that is ready is its own.
RequestOK ==
    /\ loop # "read" => Request(request) /\ request.id \notin W!Answered
    /\ loop = "read" => left = {}
    /\ loop = "files" => /\ request.key \in DOMAIN analyzers
                         /\ \/ request.goSrc = None
                            \/ analyzers[request.key].goSrc = request.goSrc
    /\ loop = "reply" => \/ response = None
                         \/ response.id = request.id /\ ~response.cancelled /\ left = {}

\* What was transpiled belongs to an answered request or to the one at hand.
TranspiledOK ==
    \A t \in transpiled :
        \/ t.request.id \in W!Answered
        \/ loop # "read" /\ t.request = request

WInv == LoopOK /\ NumbersOK /\ RequestOK /\ TranspiledOK /\ W!AnsweredOnce /\ W!OwnSettings

\* One more answer, and the numbers that it adds.
LEMMA OneMoreAnswer ==
    ASSUME LoopOK, NEW r, replies' = Append(replies, r)
    PROVE  /\ Len(replies') = Len(replies) + 1
           /\ \A i \in 1 .. Len(replies) : replies'[i] = replies[i]
           /\ replies'[Len(replies) + 1] = r
           /\ W!Answered' = W!Answered \cup (IF r.cancelled THEN {} ELSE {r.id})
<1>1. replies \in Seq(Answer) /\ Len(replies) \in Nat
  BY DEF LoopOK
<1>2. /\ Len(replies') = Len(replies) + 1 /\ replies'[Len(replies) + 1] = r
      /\ \A i \in 1 .. Len(replies) : replies'[i] = replies[i]
  BY <1>1
<1>3. \A i \in 1 .. Len(replies') : i \in 1 .. Len(replies) \/ i = Len(replies) + 1
  BY <1>1, <1>2
<1>4. \A i \in 1 .. Len(replies) : i \in 1 .. Len(replies')
  BY <1>1, <1>2
<1>5. Len(replies) + 1 \in 1 .. Len(replies')
  BY <1>1, <1>2
<1>6. W!Answered' = {replies'[i].id : i \in {j \in 1 .. Len(replies') : ~replies'[j].cancelled}}
  BY DEF W!Answered
<1>7. W!Answered = {replies[i].id : i \in {j \in 1 .. Len(replies) : ~replies[j].cancelled}}
  BY DEF W!Answered
<1>8. ASSUME NEW x PROVE x \in W!Answered' <=> x \in W!Answered \/ (~r.cancelled /\ x = r.id)
  <2>1. ASSUME x \in W!Answered' PROVE x \in W!Answered \/ (~r.cancelled /\ x = r.id)
    BY <1>2, <1>3, <1>6, <1>7, <2>1
  <2>2. ASSUME x \in W!Answered \/ (~r.cancelled /\ x = r.id) PROVE x \in W!Answered'
    BY <1>2, <1>4, <1>5, <1>6, <1>7, <2>2
  <2> QED
    BY <2>1, <2>2
<1> QED
  BY <1>2, <1>8

\* At the start nothing was sent and nothing answered.
LEMMA WorkerInitInv == W!WorkerInit => WInv
<1> SUFFICES ASSUME W!WorkerInit PROVE WInv
  OBVIOUS
<1>1. inbox = << >> /\ replies = << >> /\ Len(inbox) = 0 /\ Len(replies) = 0
  BY DEF W!WorkerInit
<1>2. LoopOK
  BY <1>1, ToolsAssumption DEF LoopOK, W!WorkerInit, W!Garbled, W!Message
<1>3. NumbersOK
  BY <1>1 DEF NumbersOK, W!WorkerInit, W!Garbled, W!Message
<1> QED
  BY <1>1, <1>2, <1>3 DEF WInv, RequestOK, TranspiledOK, W!AnsweredOnce, W!OwnSettings,
                    W!WorkerInit

\* Bazel only adds a letter, and a request that it adds has a new number.
BazelStep == W!Sends \/ W!SendsCancel \/ W!SendsGarbled \/ W!ClosesStdin \/ W!Dies

\* Bazel sends requests with new numbers and cancels what it sent.
LEMMA BazelInvStep == WInv /\ BazelStep => WInv'
<1> SUFFICES ASSUME WInv, BazelStep PROVE WInv'
  OBVIOUS
<1>1. /\ LoopOK /\ NumbersOK /\ RequestOK /\ TranspiledOK /\ W!AnsweredOnce /\ W!OwnSettings
      /\ UNCHANGED <<loop, request, left, exitCode, analyzers, response, replies, ended, transpiled>>
  BY DEF WInv, BazelStep, W!Sends, W!SendsCancel, W!SendsGarbled, W!ClosesStdin, W!Dies, W!Bazel
<1>2. sent \in Nat /\ MaxRequests \in Nat /\ sent <= MaxRequests
  BY <1>1, ToolsAssumption DEF LoopOK
<1>3. W!Answered' = W!Answered
  BY <1>1 DEF W!Answered
<1>4. W!AnsweredOnce' /\ W!OwnSettings' /\ TranspiledOK' /\ RequestOK'
  BY <1>1, <1>3 DEF W!AnsweredOnce, W!OwnSettings, TranspiledOK, RequestOK
<1>5. parent' \in BOOLEAN
  <2>1. parent \in BOOLEAN
    BY <1>1 DEF LoopOK
  <2>2. parent' = parent \/ parent' = FALSE
    BY DEF BazelStep, W!Sends, W!SendsCancel, W!SendsGarbled, W!ClosesStdin, W!Dies
  <2> QED
    BY <2>1, <2>2
<1>6. /\ inbox \in Seq(Letter \cup {W!Garbled}) /\ Len(inbox) \in Nat
      /\ \A i \in 1 .. Len(inbox) : inbox[i] = W!Garbled \/ inbox[i].cancel \/ Request(inbox[i])
      /\ \A i \in 1 .. Len(inbox) : inbox[i].id <= sent
  BY <1>1 DEF LoopOK, NumbersOK
<1>7. \A n \in 0 .. MaxRequests : n = sent' => (inbox' \in Seq(Letter \cup {W!Garbled}) =>
          ((\A i \in 1 .. Len(inbox') : inbox'[i] = W!Garbled \/ inbox'[i].cancel \/ Request(inbox'[i]))
             => LoopOK'))
  BY <1>1, <1>5 DEF LoopOK
<1>8. ASSUME UNCHANGED <<inbox, sent>> PROVE WInv'
  <2>1. LoopOK'
    BY <1>1, <1>6, <1>7, <1>8 DEF LoopOK
  <2>2. NumbersOK'
    BY <1>1, <1>3, <1>8 DEF NumbersOK
  <2> QED
    BY <1>4, <2>1, <2>2 DEF WInv
<1>9. ASSUME NEW m \in Letter \cup {W!Garbled}, sent < MaxRequests, sent' = sent + 1,
             inbox' = Append(inbox, m),
             m = W!Garbled \/ m.cancel \/ Request(m), m.id <= sent + 1,
             Request(m) => m.id = sent + 1
       PROVE  WInv'
  <2>1. /\ Len(inbox') = Len(inbox) + 1 /\ inbox'[Len(inbox) + 1] = m
        /\ \A i \in 1 .. Len(inbox) : inbox'[i] = inbox[i]
        /\ inbox' \in Seq(Letter \cup {W!Garbled})
    BY <1>6, <1>9
  <2>2. \A i \in 1 .. Len(inbox') : i \in 1 .. Len(inbox) \/ i = Len(inbox) + 1
    BY <1>6, <2>1
  <2>3. \A i \in 1 .. Len(inbox') : inbox'[i] = W!Garbled \/ inbox'[i].cancel \/ Request(inbox'[i])
    BY <1>6, <1>9, <2>1, <2>2
  <2>4. LoopOK'
    BY <1>2, <1>7, <1>9, <2>1, <2>3
  <2>5. \A i \in 1 .. Len(inbox') : inbox'[i].id <= sent'
    <3>1. ASSUME NEW i \in 1 .. Len(inbox') PROVE inbox'[i].id <= sent'
      <4>1. CASE i \in 1 .. Len(inbox)
        <5>1. inbox[i].id <= sent /\ inbox[i].id \in Nat /\ inbox'[i] = inbox[i]
          BY <1>6, <2>1, <4>1 DEF Letter, W!Garbled, W!Message
        <5> QED
          BY <1>2, <1>9, <5>1
      <4>2. CASE i = Len(inbox) + 1
        BY <1>9, <2>1, <4>2
      <4> QED
        BY <2>2, <4>1, <4>2
    <3> QED
      BY <3>1
  <2>6. /\ \A i \in 1 .. Len(replies) : replies[i].id \in Nat /\ replies[i].id <= sent
        /\ request.id \in Nat /\ request.id <= sent
    <3>1. \A i \in 1 .. Len(replies) : replies[i] \in Answer
      BY <1>1 DEF LoopOK
    <3>2. request.id \in Nat
      <4>1. request = W!Garbled \/ request \in Letter
        BY <1>1 DEF LoopOK, Request
      <4> QED
        BY <4>1 DEF Letter, W!Garbled, W!Message
    <3> QED
      BY <1>1, <3>1, <3>2 DEF NumbersOK, Answer
  <2>7. \A x \in W!Answered : x <= sent /\ x \in Nat
    BY <2>6 DEF W!Answered
  <2>8. \A i \in 1 .. Len(inbox') : Request(inbox'[i]) =>
             inbox'[i].id \notin W!Answered /\ inbox'[i].id # request.id
    <3>1. ASSUME NEW i \in 1 .. Len(inbox'), Request(inbox'[i])
          PROVE  inbox'[i].id \notin W!Answered /\ inbox'[i].id # request.id
      <4>1. CASE i \in 1 .. Len(inbox)
        BY <1>1, <2>1, <3>1, <4>1 DEF NumbersOK
      <4>2. CASE i = Len(inbox) + 1
        BY <1>2, <1>9, <2>1, <2>6, <2>7, <3>1, <4>2
      <4> QED
        BY <2>2, <4>1, <4>2
    <3> QED
      BY <3>1
  <2>9. ASSUME NEW i \in 1 .. Len(inbox'), NEW j \in 1 .. Len(inbox'),
                Request(inbox'[i]), Request(inbox'[j]), inbox'[i].id = inbox'[j].id
         PROVE  i = j
    <3>1. CASE i \in 1 .. Len(inbox) /\ j \in 1 .. Len(inbox)
      BY <1>1, <2>1, <2>9, <3>1 DEF NumbersOK
    <3>2. CASE i \in 1 .. Len(inbox) /\ j = Len(inbox) + 1
      <4>1. inbox'[i] = inbox[i] /\ inbox[i].id <= sent /\ inbox'[j].id = sent + 1
        BY <1>6, <1>9, <2>1, <2>9, <3>2
      <4> QED
        BY <1>2, <2>9, <4>1
    <3>3. CASE j \in 1 .. Len(inbox) /\ i = Len(inbox) + 1
      <4>1. inbox'[j] = inbox[j] /\ inbox[j].id <= sent /\ inbox'[i].id = sent + 1
        BY <1>6, <1>9, <2>1, <2>9, <3>3
      <4> QED
        BY <1>2, <2>9, <4>1
    <3> QED
      BY <2>2, <2>9, <3>1, <3>2, <3>3
  <2>10. NumbersOK'
    <3>1. \A i \in 1 .. Len(replies) : replies[i].id <= sent'
      BY <1>2, <1>9, <2>6
    <3>2. request.id <= sent'
      BY <1>2, <1>9, <2>6
    <3> QED
      BY <1>1, <1>3, <2>5, <2>8, <2>9, <3>1, <3>2 DEF NumbersOK
  <2> QED
    BY <1>4, <2>4, <2>10 DEF WInv
<1>10. ~Request(W!Garbled) /\ W!Garbled.id = 0
  BY DEF Request, Letter, W!Garbled, W!Message
<1>11. CASE W!Sends
  <2>1. PICK inputs \in SUBSET Inputs, k \in Keys, g \in Sources \cup {None} :
            inbox' = Append(inbox, W!Message(sent', FALSE, inputs, k, g))
    BY <1>11 DEF W!Sends
  <2>2. sent' = sent + 1 /\ sent < MaxRequests
    BY <1>11 DEF W!Sends
  <2> DEFINE m == W!Message(sent', FALSE, inputs, k, g)
  <2>3. m \in Letter /\ Request(m) /\ m.id = sent + 1
    BY <1>2, <2>2 DEF Letter, Request, W!Message
  <2> HIDE DEF m
  <2>4. inbox' = Append(inbox, m)
    BY <2>1 DEF m
  <2> QED
    BY <1>2, <1>9, <2>2, <2>3, <2>4
<1>12. CASE W!SendsCancel
  <2>1. PICK id \in 1 .. sent : inbox' = Append(inbox, W!Message(id, TRUE, {}, None, None))
    BY <1>12 DEF W!SendsCancel
  <2>2. sent' = sent + 1 /\ sent < MaxRequests
    BY <1>12 DEF W!SendsCancel
  <2> DEFINE m == W!Message(id, TRUE, {}, None, None)
  <2>3. m \in Letter /\ m.cancel /\ ~Request(m) /\ m.id <= sent + 1
    BY <1>2, <2>2 DEF Letter, Request, W!Message
  <2> HIDE DEF m
  <2>4. inbox' = Append(inbox, m)
    BY <2>1 DEF m
  <2> QED
    BY <1>2, <1>9, <2>2, <2>3, <2>4
<1>13. CASE W!SendsGarbled
  <2>1. sent' = sent + 1 /\ sent < MaxRequests /\ inbox' = Append(inbox, W!Garbled)
    BY <1>13 DEF W!SendsGarbled
  <2>2. W!Garbled.id <= sent + 1
    BY <1>2, <1>10
  <2> QED
    BY <1>9, <1>10, <2>1, <2>2
<1>14. CASE W!ClosesStdin \/ W!Dies
  BY <1>8, <1>14 DEF W!ClosesStdin, W!Dies
<1> QED
  BY <1>11, <1>12, <1>13, <1>14 DEF BazelStep

\* What is read leaves the inbox, and the others keep their order.
LEMMA ReadLetter ==
    ASSUME LoopOK, NumbersOK, inbox # << >>, inbox' = Tail(inbox)
    PROVE  /\ Len(inbox) \in Nat \ {0} /\ Head(inbox) = inbox[1]
           /\ inbox' \in Seq(Letter \cup {W!Garbled})
           /\ Len(inbox') = Len(inbox) - 1
           /\ \A i \in 1 .. Len(inbox') : i + 1 \in 1 .. Len(inbox) /\ inbox'[i] = inbox[i + 1]
           /\ \A i \in 1 .. Len(inbox') :
                inbox'[i] = W!Garbled \/ inbox'[i].cancel \/ Request(inbox'[i])
           /\ \A i \in 1 .. Len(inbox') : inbox'[i].id <= sent
           /\ \A i, j \in 1 .. Len(inbox') :
                Request(inbox'[i]) /\ Request(inbox'[j]) /\ inbox'[i].id = inbox'[j].id => i = j
           /\ \A i \in 1 .. Len(inbox') : Request(inbox'[i]) =>
                /\ inbox'[i].id \notin W!Answered /\ inbox'[i].id # request.id
                /\ Request(Head(inbox)) => inbox'[i].id # Head(inbox).id
<1>1. inbox \in Seq(Letter \cup {W!Garbled}) /\ Len(inbox) \in Nat \ {0}
  BY DEF LoopOK
<1>2. /\ Head(inbox) = inbox[1] /\ inbox' \in Seq(Letter \cup {W!Garbled})
      /\ Len(inbox') = Len(inbox) - 1 /\ \A i \in 1 .. Len(inbox') : inbox'[i] = inbox[i + 1]
  BY <1>1
<1>3. \A i \in 1 .. Len(inbox') : i + 1 \in 1 .. Len(inbox) /\ i + 1 # 1 /\ i \in Nat
  BY <1>1, <1>2
<1>4. 1 \in 1 .. Len(inbox)
  BY <1>1
<1>5. \A i \in 1 .. Len(inbox') : inbox'[i] = W!Garbled \/ inbox'[i].cancel \/ Request(inbox'[i])
  BY <1>2, <1>3 DEF LoopOK
<1>6. \A i \in 1 .. Len(inbox') : inbox'[i].id <= sent
  BY <1>2, <1>3 DEF NumbersOK
<1>7. \A i, j \in 1 .. Len(inbox') :
        Request(inbox'[i]) /\ Request(inbox'[j]) /\ inbox'[i].id = inbox'[j].id => i + 1 = j + 1
  BY <1>2, <1>3 DEF NumbersOK
<1>8. \A i \in 1 .. Len(inbox') : Request(inbox'[i]) =>
        /\ inbox'[i].id \notin W!Answered /\ inbox'[i].id # request.id
        /\ Request(Head(inbox)) => inbox'[i].id # Head(inbox).id
  BY <1>2, <1>3, <1>4 DEF NumbersOK
<1>9. \A i, j \in 1 .. Len(inbox') : i + 1 = j + 1 => i = j
  BY <1>3
<1> QED
  BY <1>1, <1>2, <1>3, <1>5, <1>6, <1>7, <1>8, <1>9

\* The loop reads: a cancellation is answered, a request becomes the one at hand.
LEMMA ReadInvStep ==
    WInv /\ (W!ReadsEnd \/ W!ReadsGarbled \/ W!ReadsCancel \/ W!ReadsRequest) => WInv'
<1> SUFFICES ASSUME WInv, W!ReadsEnd \/ W!ReadsGarbled \/ W!ReadsCancel \/ W!ReadsRequest
             PROVE  WInv'
  OBVIOUS
<1>1. LoopOK /\ NumbersOK /\ RequestOK /\ TranspiledOK /\ W!AnsweredOnce /\ W!OwnSettings
  BY DEF WInv
<1>2. loop = "read" /\ UNCHANGED <<sent, stdin, parent>>
  BY DEF W!ReadsEnd, W!ReadsGarbled, W!ReadsCancel, W!ReadsRequest, W!Outside
<1>3. left = {} /\ \A t \in transpiled : t.request.id \in W!Answered
  BY <1>1, <1>2 DEF RequestOK, TranspiledOK
<1>4. CASE W!ReadsEnd
  <2>1. UNCHANGED <<inbox, loop, request, left, exitCode, analyzers, response, replies, transpiled>>
        /\ ended' = "clean"
    BY <1>4 DEF W!ReadsEnd
  <2>2. W!Answered' = W!Answered
    BY <2>1 DEF W!Answered
  <2> QED
    BY <1>1, <1>2, <2>1, <2>2 DEF WInv, LoopOK, NumbersOK, RequestOK, TranspiledOK,
                                  W!AnsweredOnce, W!OwnSettings
<1>5. CASE W!ReadsGarbled
  <2>1. UNCHANGED <<loop, request, left, exitCode, analyzers, response, replies, transpiled>>
        /\ ended' = "error" /\ inbox # << >> /\ inbox' = Tail(inbox)
    BY <1>5 DEF W!ReadsGarbled
  <2>2. W!Answered' = W!Answered
    BY <2>1 DEF W!Answered
  <2>3. LoopOK'
    BY <1>1, <1>2, <2>1, ReadLetter DEF LoopOK
  <2>4. NumbersOK'
    BY <1>1, <1>2, <2>1, <2>2, ReadLetter DEF NumbersOK
  <2> QED
    BY <1>1, <1>2, <2>1, <2>2, <2>3, <2>4 DEF WInv, RequestOK, TranspiledOK,
                                              W!AnsweredOnce, W!OwnSettings
<1>6. CASE W!ReadsCancel
  <2> DEFINE r == W!Reply(Head(inbox).id, 0, TRUE)
  <2>1. UNCHANGED <<loop, request, left, exitCode, analyzers, response, ended, transpiled>>
        /\ inbox # << >> /\ inbox' = Tail(inbox) /\ replies' = Append(replies, r)
        /\ Head(inbox).cancel
    BY <1>6 DEF W!ReadsCancel
  <2>2. Head(inbox) \in Letter /\ Head(inbox).id <= sent
    <3>1. Head(inbox) = inbox[1] /\ 1 \in 1 .. Len(inbox)
      BY <1>1, <2>1, ReadLetter
    <3>2. inbox[1] \in Letter \cup {W!Garbled} /\ inbox[1].id <= sent
      BY <1>1, <3>1 DEF LoopOK, NumbersOK
    <3> QED
      BY <2>1, <3>1, <3>2 DEF W!Garbled, W!Message
  <2>3. r \in Answer /\ r.cancelled /\ r.id <= sent
    BY <2>2 DEF Letter, Answer, W!Reply
  <2> HIDE DEF r
  <2>4. /\ Len(replies') = Len(replies) + 1 /\ replies'[Len(replies) + 1] = r
        /\ \A i \in 1 .. Len(replies) : replies'[i] = replies[i]
        /\ W!Answered' = W!Answered
    BY <1>1, <2>1, <2>3, OneMoreAnswer
  <2>5. replies \in Seq(Answer) /\ replies' \in Seq(Answer) /\ Len(replies) \in Nat
    BY <1>1, <2>1, <2>3 DEF LoopOK
  <2>6. \A i \in 1 .. Len(replies') : i \in 1 .. Len(replies) \/ i = Len(replies) + 1
    BY <2>4, <2>5
  <2>7. LoopOK'
    BY <1>1, <1>2, <2>1, <2>5, ReadLetter DEF LoopOK
  <2>8. NumbersOK'
    <3>1. \A i \in 1 .. Len(replies') : replies'[i].id <= sent
      BY <1>1, <2>3, <2>4, <2>6 DEF NumbersOK
    <3> QED
      BY <1>1, <1>2, <2>1, <2>4, <3>1, ReadLetter DEF NumbersOK
  <2>9. W!AnsweredOnce'
    BY <1>1, <2>1, <2>3, <2>4, <2>6 DEF W!AnsweredOnce
  <2> QED
    BY <1>1, <1>2, <2>1, <2>4, <2>7, <2>8, <2>9 DEF WInv, RequestOK, TranspiledOK, W!OwnSettings
<1>7. CASE W!ReadsRequest
  <2> DEFINE r == Head(inbox)
  <2>1. /\ inbox # << >> /\ inbox' = Tail(inbox) /\ request' = r /\ ~r.cancel /\ r # W!Garbled
        /\ UNCHANGED <<replies, ended, transpiled>>
        /\ IF r.inputs = {}
             THEN /\ loop' = "reply" /\ response' = W!Reply(r.id, 1, FALSE)
                  /\ UNCHANGED <<left, exitCode, analyzers>>
             ELSE /\ loop' = "files" /\ left' = r.inputs /\ exitCode' = 0
                  /\ analyzers' = W!WithAnalyzer(r.key, W!setGoSrcDirs(W!analyzerFor(r.key), r.goSrc))
                  /\ UNCHANGED response
    BY <1>7 DEF W!ReadsRequest
  <2>2. /\ Request(r) /\ r.id <= sent /\ r.id \notin W!Answered
        /\ r.key \in Keys /\ r.goSrc \in Sources \cup {None} /\ r.inputs \subseteq Inputs
        /\ r.id \in Nat \ {0}
    <3>1. Head(inbox) = inbox[1] /\ 1 \in 1 .. Len(inbox)
      BY <1>1, <2>1, ReadLetter
    <3>2. Request(inbox[1]) /\ inbox[1].id <= sent /\ inbox[1].id \notin W!Answered
      BY <1>1, <2>1, <3>1 DEF LoopOK, NumbersOK
    <3> QED
      BY <3>1, <3>2 DEF Request, Letter
  <2>3. W!Answered' = W!Answered
    BY <2>1 DEF W!Answered
  <2>4. NumbersOK'
    BY <1>1, <1>2, <2>1, <2>2, <2>3, ReadLetter DEF NumbersOK
  <2>5. W!AnsweredOnce' /\ W!OwnSettings' /\ TranspiledOK'
    BY <1>1, <1>3, <2>1, <2>3 DEF W!AnsweredOnce, W!OwnSettings, TranspiledOK
  <2>6. CASE r.inputs = {}
    <3>1. response' \in Answer /\ response'.id = r.id /\ ~response'.cancelled
      <4>1. response' = [id |-> r.id, exitCode |-> 1, cancelled |-> FALSE]
        BY <2>1, <2>6 DEF W!Reply
      <4>2. r.id \in Nat \ {0}
        BY <2>2
      <4> QED
        BY <4>1, <4>2 DEF Answer
    <3>2. LoopOK'
      BY <1>1, <1>2, <1>3, <2>1, <2>2, <2>6, <3>1, ReadLetter DEF LoopOK
    <3>3. RequestOK'
      BY <1>3, <2>1, <2>2, <2>3, <2>6, <3>1 DEF RequestOK
    <3> QED
      BY <2>4, <2>5, <3>2, <3>3 DEF WInv
  <2>7. CASE r.inputs # {}
    <3> DEFINE a == W!setGoSrcDirs(W!analyzerFor(r.key), r.goSrc)
    <3>1. DOMAIN analyzers \subseteq Keys /\ analyzers \in [DOMAIN analyzers -> Setting]
      BY <1>1 DEF LoopOK
    <3>2. W!analyzerFor(r.key) \in Setting
      BY <3>1 DEF W!analyzerFor, Setting
    <3>3. a \in Setting /\ (r.goSrc = None \/ a.goSrc = r.goSrc)
      BY <2>2, <3>2 DEF W!setGoSrcDirs, Setting
    <3> HIDE DEF a
    <3>4. analyzers' = W!WithAnalyzer(r.key, a)
      BY <2>1, <2>7 DEF a
    <3>5. /\ DOMAIN analyzers' = DOMAIN analyzers \cup {r.key} /\ analyzers'[r.key] = a
          /\ analyzers' \in [DOMAIN analyzers' -> Setting]
      BY <3>1, <3>3, <3>4 DEF W!WithAnalyzer
    <3>6. LoopOK'
      BY <1>1, <1>2, <2>1, <2>2, <2>7, <3>1, <3>5, ReadLetter DEF LoopOK
    <3>7. RequestOK'
      BY <2>1, <2>2, <2>3, <2>7, <3>3, <3>5 DEF RequestOK
    <3> QED
      BY <2>4, <2>5, <3>6, <3>7 DEF WInv
  <2> QED
    BY <2>6, <2>7
<1> QED
  BY <1>4, <1>5, <1>6, <1>7

\* The loop works on the request at hand; its files and its answer are its own.
LEMMA WorkInvStep ==
    WInv /\ (W!CannotRead \/ W!Transpiles \/ W!Panics \/ W!Handled) => WInv'
<1> SUFFICES ASSUME WInv, W!CannotRead \/ W!Transpiles \/ W!Panics \/ W!Handled PROVE WInv'
  OBVIOUS
<1>1. LoopOK /\ NumbersOK /\ RequestOK /\ TranspiledOK /\ W!AnsweredOnce /\ W!OwnSettings
  BY DEF WInv
<1>2. loop = "files" /\ UNCHANGED <<sent, stdin, parent, inbox, request, replies, ended>>
  BY DEF W!CannotRead, W!Transpiles, W!Panics, W!Handled, W!Outside
<1>3. /\ Request(request) /\ request.id \notin W!Answered
      /\ request.key \in DOMAIN analyzers
      /\ request.goSrc = None \/ analyzers[request.key].goSrc = request.goSrc
      /\ request.inputs \subseteq Inputs
  BY <1>1, <1>2 DEF RequestOK, Request, Letter
<1>4. W!Answered' = W!Answered
  BY <1>2 DEF W!Answered
<1>5. NumbersOK'
  BY <1>1, <1>2, <1>4 DEF NumbersOK
<1>6. DOMAIN analyzers \subseteq Keys /\ analyzers \in [DOMAIN analyzers -> Setting]
      /\ left \subseteq request.inputs
  BY <1>1 DEF LoopOK
<1>7. ASSUME NEW f \in left, W!TranspilesWith(f)
      PROVE  /\ DOMAIN analyzers' = DOMAIN analyzers
             /\ analyzers' \in [DOMAIN analyzers -> Setting]
             /\ analyzers'[request.key].goSrc = analyzers[request.key].goSrc
             /\ \A t \in transpiled' : t \notin transpiled =>
                  /\ t.request = request /\ t.set.files = request.inputs \ {t.file}
                  /\ t.set.goSrc = analyzers[request.key].goSrc
  <2>1. analyzers' = [analyzers EXCEPT ![request.key].files = request.inputs \ {f}]
    BY <1>7 DEF W!TranspilesWith, W!setPackageFiles
  <2>2. analyzers[request.key] \in Setting
    BY <1>3, <1>6
  <2>3. DOMAIN analyzers' = DOMAIN analyzers
    BY <2>1
  <2>4. analyzers'[request.key] = [analyzers[request.key] EXCEPT !.files = request.inputs \ {f}]
    BY <1>3, <2>1
  <2>5. /\ analyzers'[request.key] \in Setting
        /\ analyzers'[request.key].files = request.inputs \ {f}
        /\ analyzers'[request.key].goSrc = analyzers[request.key].goSrc
    BY <1>3, <2>2, <2>4 DEF Setting
  <2>6. \A k \in DOMAIN analyzers : k # request.key => analyzers'[k] = analyzers[k]
    BY <2>1
  <2>7. analyzers' \in [DOMAIN analyzers -> Setting]
    <3>1. \A k \in DOMAIN analyzers : analyzers'[k] \in Setting
      BY <1>6, <2>5, <2>6
    <3>2. analyzers' = [k \in DOMAIN analyzers |-> analyzers'[k]]
      BY <2>1, <2>3
    <3> QED
      BY <3>1, <3>2
  <2>8. \A t \in transpiled' : t \notin transpiled =>
          t = [request |-> request, file |-> f,
               set |-> [files |-> analyzers'[request.key].files,
                        goSrc |-> analyzers'[request.key].goSrc]]
    BY <1>7 DEF W!TranspilesWith, W!Settings
  <2> QED
    BY <2>3, <2>5, <2>7, <2>8
<1>8. ASSUME NEW f \in left, W!TranspilesWith(f),
             loop' = "files" \/ (loop' = "reply" /\ response' = None)
      PROVE  W!AnsweredOnce' /\ W!OwnSettings' /\ TranspiledOK' /\ RequestOK'
  <2>1. RequestOK'
    BY <1>2, <1>3, <1>4, <1>7, <1>8 DEF RequestOK
  <2>2. TranspiledOK'
    BY <1>1, <1>2, <1>4, <1>7, <1>8 DEF TranspiledOK
  <2>3. W!OwnSettings'
    BY <1>1, <1>3, <1>7, <1>8 DEF W!OwnSettings
  <2>4. W!AnsweredOnce'
    BY <1>1, <1>2, <1>4, <1>7, <1>8 DEF W!AnsweredOnce
  <2> QED
    BY <2>1, <2>2, <2>3, <2>4
<1>9. CASE W!CannotRead
  <2>1. /\ UNCHANGED <<loop, analyzers, response, transpiled>> /\ exitCode' = 1
        /\ left' \subseteq left
    BY <1>9 DEF W!CannotRead
  <2>2. LoopOK'
    BY <1>1, <1>2, <1>6, <2>1 DEF LoopOK
  <2>3. RequestOK' /\ TranspiledOK' /\ W!OwnSettings' /\ W!AnsweredOnce'
    BY <1>1, <1>2, <1>4, <2>1 DEF RequestOK, TranspiledOK, W!OwnSettings, W!AnsweredOnce
  <2> QED
    BY <1>5, <2>2, <2>3 DEF WInv
<1>10. CASE W!Transpiles
  <2>1. PICK f \in left : W!TranspilesWith(f) /\ left' = left \ {f}
    BY <1>10 DEF W!Transpiles
  <2>2. UNCHANGED <<loop, response>> /\ exitCode' \in {exitCode, 1}
    BY <1>10 DEF W!Transpiles
  <2>3. LoopOK'
    BY <1>1, <1>2, <1>6, <1>7, <2>1, <2>2 DEF LoopOK
  <2> QED
    BY <1>2, <1>5, <1>8, <2>1, <2>2, <2>3 DEF WInv
<1>11. CASE W!Panics
  <2>1. PICK f \in left : W!TranspilesWith(f)
    BY <1>11 DEF W!Panics
  <2>2. UNCHANGED left /\ exitCode' = 1 /\ loop' = "reply" /\ response' = None
    BY <1>11 DEF W!Panics, W!Recovered
  <2>3. LoopOK'
    BY <1>1, <1>2, <1>6, <1>7, <2>1, <2>2 DEF LoopOK
  <2> QED
    BY <1>5, <1>8, <2>1, <2>2, <2>3 DEF WInv
<1>12. CASE W!Handled
  <2>1. UNCHANGED <<left, exitCode, analyzers, transpiled>> /\ loop' = "reply"
        /\ response' = [id |-> request.id, exitCode |-> exitCode, cancelled |-> FALSE]
    BY <1>12 DEF W!Handled, W!Reply
  <2>2. request.id \in Nat \ {0} /\ exitCode \in {0, 1}
    BY <1>1, <1>3 DEF LoopOK, Request, Letter
  <2>3. response' \in Answer /\ response'.id = request.id /\ ~response'.cancelled
    BY <2>1, <2>2 DEF Answer
  <2>4. LoopOK'
    BY <1>1, <1>2, <2>1, <2>3 DEF LoopOK
  <2>5. RequestOK' /\ TranspiledOK' /\ W!OwnSettings' /\ W!AnsweredOnce'
    BY <1>1, <1>2, <1>3, <1>4, <1>12, <2>1, <2>3 DEF W!Handled, RequestOK, TranspiledOK, W!OwnSettings,
                                              W!AnsweredOnce
  <2> QED
    BY <1>5, <2>4, <2>5 DEF WInv
<1> QED
  BY <1>9, <1>10, <1>11, <1>12

\* The answer is written: no request has two, since its own had none before.
LEMMA RepliesInvStep == WInv /\ W!Replies => WInv'
<1> SUFFICES ASSUME WInv, W!Replies PROVE WInv'
  OBVIOUS
<1>1. LoopOK /\ NumbersOK /\ RequestOK /\ TranspiledOK /\ W!AnsweredOnce /\ W!OwnSettings
  BY DEF WInv
<1>2. /\ loop = "reply"
      /\ UNCHANGED <<sent, stdin, parent, inbox, request, left, exitCode, analyzers, response,
                     transpiled>>
  BY DEF W!Replies, W!Outside
<1>3. CASE response = None
  <2>1. UNCHANGED <<loop, replies>> /\ ended' = "crashed"
    BY <1>3 DEF W!Replies
  <2>2. W!Answered' = W!Answered
    BY <2>1 DEF W!Answered
  <2> QED
    BY <1>1, <1>2, <2>1, <2>2 DEF WInv, LoopOK, NumbersOK, RequestOK, TranspiledOK,
                                  W!AnsweredOnce, W!OwnSettings
<1>4. CASE response # None
  <2>1. replies' = Append(replies, response) /\ loop' = "read" /\ UNCHANGED ended
    BY <1>4 DEF W!Replies
  <2>2. /\ response \in Answer /\ response.id = request.id /\ ~response.cancelled
        /\ Request(request) /\ request.id \notin W!Answered /\ request.id <= sent
        /\ left = {}
    BY <1>1, <1>2, <1>4 DEF LoopOK, RequestOK, NumbersOK
  <2>3. /\ Len(replies') = Len(replies) + 1 /\ replies'[Len(replies) + 1] = response
        /\ \A i \in 1 .. Len(replies) : replies'[i] = replies[i]
        /\ W!Answered' = W!Answered \cup {request.id}
    BY <1>1, <2>1, <2>2, OneMoreAnswer
  <2>4. replies \in Seq(Answer) /\ replies' \in Seq(Answer) /\ Len(replies) \in Nat
    BY <1>1, <2>1, <2>2 DEF LoopOK
  <2>5. \A i \in 1 .. Len(replies') : i \in 1 .. Len(replies) \/ i = Len(replies) + 1
    BY <2>3, <2>4
  <2>6. \A i \in 1 .. Len(replies) : ~replies[i].cancelled => replies[i].id # request.id
    BY <2>2 DEF W!Answered
  <2>8. LoopOK'
    BY <1>1, <1>2, <2>1, <2>4 DEF LoopOK
  <2>9. NumbersOK'
    <3>1. \A i \in 1 .. Len(replies') : replies'[i].id <= sent
      BY <1>1, <2>2, <2>3, <2>5 DEF NumbersOK
    <3> QED
      BY <1>1, <1>2, <2>3, <3>1 DEF NumbersOK
  <2>10. RequestOK'
    BY <1>1, <1>2, <2>1, <2>2 DEF RequestOK
  <2>11. TranspiledOK' /\ W!OwnSettings'
    BY <1>1, <1>2, <2>1, <2>3 DEF TranspiledOK, W!OwnSettings
  <2>12. W!AnsweredOnce'
    <3>1. ASSUME NEW i \in 1 .. Len(replies'), NEW j \in 1 .. Len(replies'),
                 replies'[i].id = replies'[j].id, ~replies'[i].cancelled, ~replies'[j].cancelled
          PROVE  i = j
      BY <1>1, <2>2, <2>3, <2>5, <2>6, <3>1 DEF W!AnsweredOnce
    <3> QED
      BY <1>1, <1>2, <2>3, <3>1 DEF W!AnsweredOnce
  <2> QED
    BY <2>8, <2>9, <2>10, <2>11, <2>12 DEF WInv
<1> QED
  BY <1>3, <1>4

\* Every step of the worker and of Bazel keeps the invariant.
LEMMA WorkerInvStep == WInv /\ [W!WorkerNext]_W!workerVars => WInv'
<1> SUFFICES ASSUME WInv, [W!WorkerNext]_W!workerVars PROVE WInv'
  OBVIOUS
<1>1. LoopOK /\ NumbersOK /\ RequestOK /\ TranspiledOK /\ W!AnsweredOnce /\ W!OwnSettings
  BY DEF WInv
<1>2. ASSUME UNCHANGED <<inbox, sent, parent, loop, request, left, exitCode, analyzers, response,
                         replies, transpiled>>,
             ended' \in {"no", "clean", "error", "crashed"}
      PROVE  WInv'
  <2>1. W!Answered' = W!Answered
    BY <1>2 DEF W!Answered
  <2> QED
    BY <1>1, <1>2, <2>1 DEF WInv, LoopOK, NumbersOK, RequestOK, TranspiledOK,
                            W!AnsweredOnce, W!OwnSettings
<1>3. CASE W!WatcherEnds
  BY <1>2, <1>3 DEF W!WatcherEnds, W!Outside
<1>4. CASE UNCHANGED W!workerVars
  BY <1>1, <1>2, <1>4 DEF W!workerVars, LoopOK
<1> QED
  BY <1>3, <1>4, BazelInvStep, ReadInvStep, WorkInvStep, RepliesInvStep
     DEF W!WorkerNext, W!LoopStep, BazelStep

\* Whatever Bazel sends, with files and Go sources in any number: no request has
\* two answers, only the one being handled has none, and a file is transpiled with
\* the siblings of its own request and with its Go source directories if it names
\* any (worker.go:117-128, 152, 381).
THEOREM WorkerStaysRight == W!WorkerSpec => []WorkerIsRight
<1>1. WInv => WorkerIsRight
  <2> SUFFICES ASSUME WInv PROVE WorkerIsRight
    OBVIOUS
  <2>1. LoopOK /\ NumbersOK /\ W!AnsweredOnce /\ W!OwnSettings
    BY DEF WInv
  <2>2. \A i \in 1 .. Len(replies) : replies[i].id \in 1 .. MaxRequests
    <3>1. sent \in Nat /\ sent <= MaxRequests /\ MaxRequests \in Nat
      BY <2>1, ToolsAssumption DEF LoopOK
    <3>2. \A i \in 1 .. Len(replies) : replies[i] \in Answer /\ replies[i].id <= sent
      BY <2>1 DEF LoopOK, NumbersOK
    <3> QED
      BY <3>1, <3>2 DEF Answer
  <2> QED
    BY <2>1, <2>2 DEF WorkerIsRight, W!WorkerTypeOK, LoopOK
<1> QED
  BY <1>1, WorkerInitInv, WorkerInvStep, PTL DEF W!WorkerSpec
=============================================================================
