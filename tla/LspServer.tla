----------------------------- MODULE LspServer -----------------------------
(***************************************************************************)
(* Documents and diagnostics of the language server (internal/lsp).  The   *)
(* client's notifications are handled one after the other, in the order    *)
(* in which they were sent; every change starts a goroutine that analyses  *)
(* the document, and runs beside the later notifications.  A completion or *)
(* a signature help may analyse it too, with the text patched at the caret *)
(* so that it parses; it runs beside the rest.                             *)
(***************************************************************************)
EXTENDS Naturals, FiniteSets

CONSTANTS Uris, Texts,
          Patches,      \* Patches[t]: what requests make of t: the dot dropped, the call
                        \* closed; t itself when its calls are; only what can be analysed
          Unparsable,       \* texts that do not parse; what is left of them can be analysed
          Unanalysable, \* texts that parse and cannot be analysed
          Typed,        \* texts in which the type of some variable is resolved
          Nil,
          MaxMessages      \* bound: notifications and requests

VARIABLES
    documents,    \* the text of each open document
    docVersions,  \* 0 where the map has no entry
    cancels,      \* analysisCancels: the job that a later notification cancels
    jobs,         \* goroutines started by changes, by number
    handler,      \* the notification being handled
    query,        \* the completion or signature help that analyses a patched text
    richASTs,     \* the text that each cached result was made from
    parseTrees,
    varTypes,
    shown,        \* the text whose diagnostics the client shows; Nil: none
    messages,
    overtaken,    \* history: the last notification met a job that it could not stop
    overlapped,   \* history: it met a job or a request still analysing
    early         \* history: since then a request met an analysis of the last text

caches == <<richASTs, parseTrees, varTypes>>
histories == <<overtaken, overlapped, early>>
lspVars == <<documents, docVersions, cancels, jobs, handler, query, caches, shown, messages,
             histories>>

\* Every text that is ever analysed.
Analysed == Texts \cup UNION {Patches[t] : t \in Texts}
Good == Texts \ (Unparsable \cup Unanalysable)
Idle == [uri |-> Nil, text |-> Nil, pc |-> "idle"]

LspInit ==
    /\ documents = [u \in Uris |-> Nil]
    /\ docVersions = [u \in Uris |-> 0]
    /\ cancels = [u \in Uris |-> 0]
    /\ jobs = << >>
    /\ handler = Idle
    /\ query = Idle
    /\ richASTs = [u \in Uris |-> Nil]
    /\ parseTrees = [u \in Uris |-> Nil]
    /\ varTypes = [u \in Uris |-> Nil]
    /\ shown = [u \in Uris |-> Nil]
    /\ messages = 0
    /\ overtaken = [u \in Uris |-> FALSE]
    /\ overlapped = [u \in Uris |-> FALSE]
    /\ early = [u \in Uris |-> FALSE]

-----------------------------------------------------------------------------
(* The critical sections.                                                   *)

Analysing == {"parse", "types"}
Running(u) == {j \in DOMAIN jobs : jobs[j].uri = u /\ jobs[j].pc # "done"}
Cancelled(u) ==
    IF cancels[u] \in Running(u) THEN [jobs EXCEPT ![cancels[u]].cancelled = TRUE] ELSE jobs

\* What every notification does: it is counted, and the histories look at the
\* jobs of the document.
Arrives(u) ==
    /\ handler = Idle /\ messages < MaxMessages
    /\ messages' = messages + 1
    /\ overtaken' = [overtaken EXCEPT ![u] = \E j \in Running(u) :
         jobs[j].pc = "publish" \/ (jobs[j].pc = "version" /\ jobs[j].outlived)]
    /\ overlapped' = [overlapped EXCEPT ![u] =
         query.uri = u \/ \E j \in Running(u) : jobs[j].pc \in Analysing]
    /\ early' = [early EXCEPT ![u] = FALSE]
    /\ UNCHANGED query

\* DidOpen and DidSave cancel the last job and analyse in the handler itself.
Store(u, t) ==
    /\ documents' = [documents EXCEPT ![u] = t]
    /\ docVersions' = [docVersions EXCEPT ![u] = @ + 1]

Analyses(u, t) ==
    /\ Store(u, t)
    /\ jobs' = Cancelled(u)
    /\ handler' = [uri |-> u, text |-> t, pc |-> "parse"]
    /\ UNCHANGED <<cancels, caches, shown>>

DidOpen(u) == documents[u] = Nil /\ Arrives(u) /\ \E t \in Texts : Analyses(u, t)

DidSave(u) == documents[u] # Nil /\ Arrives(u) /\ Analyses(u, documents[u])

\* DidChange cancels the last job and starts one of its own.
NewJob(u, t, n) ==
    [uri |-> u, text |-> t, version |-> n, cancelled |-> FALSE, outlived |-> FALSE,
     pc |-> "parse"]

DidChange(u) ==
    /\ documents[u] # Nil /\ Arrives(u)
    /\ \E t \in Texts \ {documents[u]} :
         LET next == Cardinality(DOMAIN jobs) + 1
             old == Cancelled(u)
         IN  /\ Store(u, t)
             /\ jobs' = [j \in 1 .. next |->
                           IF j = next THEN NewJob(u, t, docVersions[u] + 1) ELSE old[j]]
             /\ cancels' = [cancels EXCEPT ![u] = next]
    /\ UNCHANGED <<handler, caches, shown>>

\* Mutant: a closed document keeps its types.
DidCloseKeepingTypes(u) ==
    /\ documents[u] # Nil /\ Arrives(u)
    /\ jobs' = Cancelled(u)
    /\ cancels' = [cancels EXCEPT ![u] = 0]
    /\ documents' = [documents EXCEPT ![u] = Nil]
    /\ docVersions' = [docVersions EXCEPT ![u] = 0]
    /\ richASTs' = [richASTs EXCEPT ![u] = Nil]
    /\ handler' = [uri |-> u, text |-> Nil, pc |-> "publish"]
    /\ UNCHANGED <<parseTrees, varTypes, shown>>

\* DidClose forgets the document, not its parse tree, and clears the diagnostics.
\* The versions start again: a job that has not compared its own outlives them.
Outlived(u, old) ==
    [j \in DOMAIN old |-> IF j \in Running(u) THEN [old[j] EXCEPT !.outlived = TRUE] ELSE old[j]]

DidClose(u) ==
    /\ documents[u] # Nil /\ Arrives(u)
    /\ jobs' = Outlived(u, Cancelled(u))
    /\ cancels' = [cancels EXCEPT ![u] = 0]
    /\ documents' = [documents EXCEPT ![u] = Nil]
    /\ docVersions' = [docVersions EXCEPT ![u] = 0]
    /\ richASTs' = [richASTs EXCEPT ![u] = Nil]
    /\ varTypes' = [varTypes EXCEPT ![u] = Nil]
    /\ handler' = [uri |-> u, text |-> Nil, pc |-> "publish"]
    /\ UNCHANGED <<parseTrees, shown>>

-----------------------------------------------------------------------------
(* analyzeFile: two critical sections, with no look at the version.         *)

\* The first keeps the parse tree, with the analysed document if there is one.
KeepTree(u, t) ==
    /\ parseTrees' = IF t \in Unanalysable THEN parseTrees ELSE [parseTrees EXCEPT ![u] = t]
    /\ richASTs' = IF t \in Good THEN [richASTs EXCEPT ![u] = t] ELSE richASTs
    /\ UNCHANGED varTypes

\* The second keeps the types, or what could be analysed of a broken text.
KeepTypes(u, t) ==
    /\ varTypes' = IF t \in Good THEN [varTypes EXCEPT ![u] = t] ELSE varTypes
    /\ richASTs' = IF t \in Unparsable THEN [richASTs EXCEPT ![u] = t] ELSE richASTs
    /\ UNCHANGED parseTrees

HandlerKeepsTree ==
    /\ handler.pc = "parse" /\ KeepTree(handler.uri, handler.text)
    /\ handler' = [handler EXCEPT !.pc = "types"]
    /\ UNCHANGED <<documents, docVersions, cancels, jobs, query, shown, messages, histories>>

HandlerKeepsTypes ==
    /\ handler.pc = "types" /\ KeepTypes(handler.uri, handler.text)
    /\ handler' = [handler EXCEPT !.pc = "publish"]
    /\ UNCHANGED <<documents, docVersions, cancels, jobs, query, shown, messages, histories>>

HandlerPublishes ==
    /\ handler.pc = "publish"
    /\ shown' = [shown EXCEPT ![handler.uri] = handler.text]
    /\ handler' = Idle
    /\ UNCHANGED <<documents, docVersions, cancels, jobs, query, caches, messages, histories>>

-----------------------------------------------------------------------------
(* The goroutine of a change.                                               *)

Finished(u) == [NewJob(u, Nil, 0) EXCEPT !.pc = "done"]   \* what is left of a job
JobGoes(j, from, to) ==
    /\ jobs[j].pc = from
    /\ jobs' = [jobs EXCEPT ![j] = IF to = "done" THEN Finished(@.uri) ELSE [@ EXCEPT !.pc = to]]
JobKeeps == UNCHANGED <<documents, docVersions, cancels, handler, query, messages, histories>>

JobKeepsTree(j) ==
    /\ JobGoes(j, "parse", "types") /\ KeepTree(jobs[j].uri, jobs[j].text)
    /\ JobKeeps /\ UNCHANGED shown

JobKeepsTypes(j) ==
    /\ JobGoes(j, "types", "select") /\ KeepTypes(jobs[j].uri, jobs[j].text)
    /\ JobKeeps /\ UNCHANGED shown

\* Mutants: the select has no default case; the versions are not compared.
JobSelectsOnlyDone(j) ==
    /\ JobGoes(j, "select", "done") /\ jobs[j].cancelled
    /\ JobKeeps /\ UNCHANGED <<caches, shown>>
JobComparesNothing(j) ==
    /\ JobGoes(j, "version", "publish")
    /\ JobKeeps /\ UNCHANGED <<caches, shown>>

\* The two looks before it publishes: was it cancelled, is it of this version.
JobSelects(j) ==
    /\ JobGoes(j, "select", IF jobs[j].cancelled THEN "done" ELSE "version")
    /\ JobKeeps /\ UNCHANGED <<caches, shown>>

JobComparesVersions(j) ==
    /\ JobGoes(j, "version",
               IF docVersions[jobs[j].uri] = jobs[j].version THEN "publish" ELSE "done")
    /\ JobKeeps /\ UNCHANGED <<caches, shown>>

JobPublishes(j) ==
    /\ JobGoes(j, "publish", "done")
    /\ shown' = [shown EXCEPT ![jobs[j].uri] = jobs[j].text]
    /\ JobKeeps /\ UNCHANGED caches

-----------------------------------------------------------------------------
(* ensureAnalysis and ensureAnalysisForSignature.  Only requests that go on   *)
(* to analyse are steps here, one at a time; the others change nothing.      *)

QueryKeeps == UNCHANGED <<documents, docVersions, cancels, jobs, handler, shown, overtaken,
                          overlapped>>

AnalysisRuns(u) ==
    \/ handler.uri = u /\ handler.pc \in Analysing
    \/ \E j \in Running(u) : jobs[j].pc \in Analysing

Asks(u) ==
    /\ query = Idle /\ documents[u] # Nil
    /\ messages < MaxMessages /\ messages' = messages + 1
    /\ \E p \in Patches[documents[u]] : query' = [uri |-> u, text |-> p, pc |-> "parse"]
    /\ early' = [early EXCEPT ![u] = @ \/ AnalysisRuns(u)]
    /\ QueryKeeps /\ UNCHANGED caches

\* Mutant: it does not look whether the document has been analysed.
LooksAtNothing(u) == Asks(u)

\* It has no use for an analysis when there is one with a type in it.
Looks(u) == (richASTs[u] = Nil \/ varTypes[u] \notin Typed) /\ Asks(u)

\* analyzeAndCache: the same two critical sections.
QueryKeepsTree ==
    /\ query.pc = "parse" /\ query' = [query EXCEPT !.pc = "types"]
    /\ richASTs' = [richASTs EXCEPT ![query.uri] = query.text]
    /\ parseTrees' = [parseTrees EXCEPT ![query.uri] = query.text]
    /\ QueryKeeps /\ UNCHANGED <<varTypes, early, messages>>

QueryKeepsTypes ==
    /\ query.pc = "types" /\ query' = Idle
    /\ varTypes' = [varTypes EXCEPT ![query.uri] = query.text]
    /\ QueryKeeps /\ UNCHANGED <<richASTs, parseTrees, early, messages>>

-----------------------------------------------------------------------------
HandlerStep == HandlerKeepsTree \/ HandlerKeepsTypes \/ HandlerPublishes
JobStep(j) == JobKeepsTree(j) \/ JobKeepsTypes(j) \/ JobSelects(j)
                \/ JobComparesVersions(j) \/ JobPublishes(j)
QueryStep == QueryKeepsTree \/ QueryKeepsTypes

LspNext ==
    \/ \E u \in Uris : DidOpen(u) \/ DidSave(u) \/ DidChange(u) \/ DidClose(u)
    \/ HandlerStep \/ \E j \in DOMAIN jobs : JobStep(j)
    \/ (\E u \in Uris : Looks(u)) \/ QueryStep

\* The scheduler runs some goroutine that can run; each ends after a few steps,
\* so that none waits for ever, requests that keep coming included.  The client
\* may stop.
ServerStep == HandlerStep \/ \E j \in DOMAIN jobs : JobStep(j)
LspFairness == WF_lspVars(ServerStep) /\ WF_lspVars(QueryStep)

LspSpec == LspInit /\ [][LspNext]_lspVars /\ LspFairness

-----------------------------------------------------------------------------
(* Properties.                                                              *)

LspTypeOK ==
    /\ documents \in [Uris -> Texts \cup {Nil}]
    /\ docVersions \in [Uris -> 0 .. MaxMessages]
    /\ \A u \in Uris : cancels[u] \in {0} \cup DOMAIN jobs
    /\ handler.pc \in {"idle", "parse", "types", "publish"}
    /\ query.pc \in {"idle", "parse", "types"}
    /\ \A u \in Uris : /\ {richASTs[u], parseTrees[u], varTypes[u]} \subseteq Analysed \cup {Nil}
                       /\ shown[u] \in Texts \cup {Nil}

Quiet(u) == handler = Idle /\ Running(u) = {} /\ query.uri # u

\* When nothing runs any more, the client shows the diagnostics of the text it
\* has, and none for a closed document -- unless the last notification came
\* between the checks of an older job and its publication, or the document was
\* closed between the two checks, which lets the version come back
\* (server.go:270-286, 299).
ShowsTheLastText ==
    \A u \in Uris : Quiet(u) /\ ~overtaken[u] => shown[u] = documents[u]

\* When nothing runs any more, what completion and hover are answered from is
\* of the text that the client has, as it is or patched by a request, and nothing
\* is left of a closed document -- unless an older job or request was still
\* analysing.  It is of the very text when that has a type in it, and no request
\* came before its analysis was over (server.go:370-394, 521-639).
CachesAreOfTheLastText ==
    \A u \in Uris : Quiet(u) /\ ~overlapped[u] =>
        LET t == documents[u]
            cached == {richASTs[u], varTypes[u], parseTrees[u]}
        IN  /\ t \in Good => cached \subseteq {t} \cup Patches[t]
            /\ t \in Good \cap Typed /\ ~early[u] => cached = {t}
            /\ t = Nil => richASTs[u] = Nil /\ varTypes[u] = Nil

\* Every document comes to rest with its own diagnostics shown, under the same
\* exception: no job is left waiting for another one (server.go:262).
EveryDocumentIsShown ==
    \A u \in Uris : <>[](overtaken[u] \/ shown[u] = documents[u])
=============================================================================
