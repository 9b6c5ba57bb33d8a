-------------------------- MODULE PersistentWorker --------------------------
(***************************************************************************)
(* The Bazel persistent worker (cmd/gala/commands/worker.go): one loop that *)
(* reads requests from standard input and answers them on standard output, *)
(* with a cache of analyzers that outlives the requests, and a goroutine   *)
(* that ends the process when its parent is gone.                          *)
(***************************************************************************)
EXTENDS Naturals, Sequences, FiniteSets

CONSTANTS Files,        \* input files
          Keys,         \* search paths, GOROOT and project root of a request
          Sources,      \* values of --go-src
          None,         \* no value: the flag was not given
          MaxRequests   \* bound: requests that Bazel sends

VARIABLES
    inbox,      \* written by Bazel and not read; a message may be garbled
    sent,       \* how many requests were sent
    stdin,      \* "open" or "closed" by Bazel
    parent,     \* is the Bazel server alive
    pc,         \* where the loop is
    request,    \* the request being handled
    left,       \* its inputs that are not transpiled yet
    exitCode,
    analyzers,  \* analyzerCache: what is set on the analyzer of each key
    response,   \* what handleRequest returned: None is nil
    replies,    \* written to standard output
    ended,      \* how the process ended, "no" while it runs
    transpiled  \* history: each file with what the analyzer was set to

workerVars == <<inbox, sent, stdin, parent, pc, request, left, exitCode, analyzers,
                response, replies, ended, transpiled>>

Message(id, cancel, inputs, key, goSrc) ==
    [id |-> id, cancel |-> cancel, inputs |-> inputs, key |-> key, goSrc |-> goSrc]
Garbled == Message(0, FALSE, {}, None, None)

WorkerInit ==
    /\ inbox = << >> /\ sent = 0 /\ stdin = "open" /\ parent = TRUE
    /\ pc = "read" /\ request = Garbled /\ left = {} /\ exitCode = 0
    /\ analyzers = [k \in {} |-> None] /\ response = None
    /\ replies = << >> /\ ended = "no" /\ transpiled = {}

-----------------------------------------------------------------------------
(* Bazel: it may send before it has the last answer, ask for a request to be *)
(* cancelled, write rubbish, close the pipe, or be killed, which need not    *)
(* close it.                                                                 *)

Bazel == parent /\ stdin = "open" /\
         UNCHANGED <<pc, request, left, exitCode, analyzers, response, replies, ended, transpiled>>

Sends == /\ Bazel /\ sent < MaxRequests /\ sent' = sent + 1
         /\ \E inputs \in SUBSET Files, k \in Keys, g \in Sources \cup {None} :
              inbox' = Append(inbox, Message(sent', FALSE, inputs, k, g))
         /\ UNCHANGED <<stdin, parent>>

SendsCancel == /\ Bazel /\ sent < MaxRequests /\ sent' = sent + 1
               /\ \E id \in 1 .. sent : inbox' = Append(inbox, Message(id, TRUE, {}, None, None))
               /\ UNCHANGED <<stdin, parent>>

SendsGarbled == /\ Bazel /\ sent < MaxRequests /\ sent' = sent + 1
                /\ inbox' = Append(inbox, Garbled) /\ UNCHANGED <<stdin, parent>>

ClosesStdin == Bazel /\ stdin' = "closed" /\ UNCHANGED <<inbox, sent, parent>>

Dies == Bazel /\ parent' = FALSE /\ UNCHANGED <<inbox, sent, stdin>>

-----------------------------------------------------------------------------
(* The loop of runWorker.                                                    *)

Runs == ended = "no"
Outside == UNCHANGED <<sent, stdin, parent>>

\* At the end of the input the worker ends; it cannot go on after rubbish.
ReadsEnd == /\ Runs /\ pc = "read" /\ inbox = << >> /\ stdin = "closed"
            /\ ended' = "clean"
            /\ Outside
            /\ UNCHANGED <<inbox, pc, request, left, exitCode, analyzers, response, replies, transpiled>>

ReadsGarbled == /\ Runs /\ pc = "read" /\ inbox # << >> /\ Head(inbox) = Garbled
                /\ inbox' = Tail(inbox) /\ ended' = "error"
                /\ Outside
                /\ UNCHANGED <<pc, request, left, exitCode, analyzers, response, replies, transpiled>>

\* A cancellation is answered and changes nothing else.
Reply(id, code, cancelled) == [id |-> id, exitCode |-> code, cancelled |-> cancelled]

\* Mutant: the answer does not say that it is one to a cancellation.
ReadsCancelPlainly == /\ Runs /\ pc = "read" /\ inbox # << >> /\ Head(inbox).cancel
                      /\ inbox' = Tail(inbox)
                      /\ replies' = Append(replies, Reply(Head(inbox).id, 0, FALSE))
                      /\ Outside
                      /\ UNCHANGED <<pc, request, left, exitCode, analyzers, response, ended, transpiled>>

ReadsCancel == /\ Runs /\ pc = "read" /\ inbox # << >> /\ Head(inbox).cancel
               /\ inbox' = Tail(inbox)
               /\ replies' = Append(replies, Reply(Head(inbox).id, 0, TRUE))
               /\ Outside
               /\ UNCHANGED <<pc, request, left, exitCode, analyzers, response, ended, transpiled>>

\* getBatchAnalyzer finds the analyzer of the key or makes one; its Go sources
\* are set only when the flag was given.
analyzerFor(k) == IF k \in DOMAIN analyzers THEN analyzers[k] ELSE [files |-> {}, goSrc |-> None]
setGoSrcDirs(a, g) == IF g = None THEN a ELSE [a EXCEPT !.goSrc = g]
WithAnalyzer(k, a) == [l \in DOMAIN analyzers \cup {k} |-> IF l = k THEN a ELSE analyzers[l]]

ReadsRequest ==
    /\ Runs /\ pc = "read" /\ inbox # << >>
    /\ LET r == Head(inbox)
       IN  /\ ~r.cancel /\ r # Garbled
           /\ inbox' = Tail(inbox) /\ request' = r
           /\ IF r.inputs = {}         \* the flags do not parse, or name no input
                THEN /\ pc' = "reply" /\ response' = Reply(r.id, 1, FALSE)
                     /\ UNCHANGED <<left, exitCode, analyzers>>
                ELSE /\ pc' = "files" /\ left' = r.inputs /\ exitCode' = 0
                     /\ analyzers' = WithAnalyzer(r.key, setGoSrcDirs(analyzerFor(r.key), r.goSrc))
                     /\ UNCHANGED response
    /\ Outside
    /\ UNCHANGED <<replies, ended, transpiled>>

\* A file that cannot be read is reported, and nothing is set for it.
CannotRead ==
    /\ Runs /\ pc = "files" /\ \E f \in left : left' = left \ {f}
    /\ exitCode' = 1
    /\ Outside
    /\ UNCHANGED <<inbox, pc, request, analyzers, response, replies, ended, transpiled>>

\* SetPackageFiles, then the file is transpiled, with or without an error.
Settings(a) == [files |-> a.files, goSrc |-> a.goSrc]
\* Mutant: the files of earlier requests stay.
setMoreFiles(f) == [analyzers EXCEPT ![request.key].files = @ \cup (request.inputs \ {f})]
setPackageFiles(f) == [analyzers EXCEPT ![request.key].files = request.inputs \ {f}]

TranspilesWith(f) ==
    /\ analyzers' = setPackageFiles(f)
    /\ transpiled' = transpiled \cup
         {[request |-> request, file |-> f, set |-> Settings(analyzers'[request.key])]}

Transpiles ==
    /\ Runs /\ pc = "files"
    /\ \E f \in left : TranspilesWith(f) /\ left' = left \ {f}
    /\ exitCode' \in {exitCode, 1}
    /\ Outside
    /\ UNCHANGED <<inbox, pc, request, response, replies, ended>>

\* A panic is recovered in handleRequest, which then returns nil.
Recovered(id) == None

Panics ==
    /\ Runs /\ pc = "files"
    /\ \E f \in left : TranspilesWith(f)
    /\ exitCode' = 1 /\ response' = Recovered(request.id) /\ pc' = "reply"
    /\ Outside
    /\ UNCHANGED <<inbox, request, left, replies, ended>>

\* Mutant: the answer lacks the request's id.
HandledAnonymously ==
    /\ Runs /\ pc = "files" /\ left = {}
    /\ pc' = "reply" /\ response' = Reply(0, exitCode, FALSE)
    /\ Outside
    /\ UNCHANGED <<inbox, request, left, exitCode, analyzers, replies, ended, transpiled>>

Handled ==
    /\ Runs /\ pc = "files" /\ left = {}
    /\ pc' = "reply" /\ response' = Reply(request.id, exitCode, FALSE)
    /\ Outside
    /\ UNCHANGED <<inbox, request, left, exitCode, analyzers, replies, ended, transpiled>>

\* WriteResponse reads the fields of the response.
Replies ==
    /\ Runs /\ pc = "reply"
    /\ IF response = None THEN ended' = "crashed" /\ UNCHANGED <<pc, replies>>
       ELSE replies' = Append(replies, response) /\ pc' = "read" /\ UNCHANGED ended
    /\ Outside
    /\ UNCHANGED <<inbox, request, left, exitCode, analyzers, response, transpiled>>

\* Mutant: only the end of the input counts.
WatcherWaitsForEnd ==
    /\ Runs /\ ~parent /\ stdin = "closed" /\ ended' = "clean"
    /\ Outside
    /\ UNCHANGED <<inbox, pc, request, left, exitCode, analyzers, response, replies, transpiled>>

\* watchParentForDeath looks every five seconds.
WatcherEnds ==
    /\ Runs /\ ~parent /\ ended' = "clean"
    /\ Outside
    /\ UNCHANGED <<inbox, pc, request, left, exitCode, analyzers, response, replies, transpiled>>

LoopStep == ReadsEnd \/ ReadsGarbled \/ ReadsCancel \/ ReadsRequest \/ CannotRead
              \/ Transpiles \/ Panics \/ Handled \/ Replies

WorkerNext == Sends \/ SendsCancel \/ SendsGarbled \/ ClosesStdin \/ Dies
                \/ LoopStep \/ WatcherEnds

\* The loop and the watcher run; Bazel owes nothing.
WorkerSpec == /\ WorkerInit /\ [][WorkerNext]_workerVars
              /\ WF_workerVars(LoopStep) /\ WF_workerVars(WatcherEnds)

-----------------------------------------------------------------------------
(* Properties.                                                               *)

WorkerTypeOK ==
    /\ pc \in {"read", "files", "reply"} /\ sent \in 0 .. MaxRequests
    /\ ended \in {"no", "clean", "error", "crashed"} /\ parent \in BOOLEAN
    /\ left \subseteq request.inputs /\ DOMAIN analyzers \subseteq Keys
    /\ \A i \in 1 .. Len(replies) : replies[i].id \in 1 .. MaxRequests

\* No request is answered twice, and of those whose files were transpiled only the
\* one being handled has no answer, which it never gets if it panics: the process
\* ends with it (worker.go:152, 187-198).
Answered == {replies[i].id : i \in {j \in 1 .. Len(replies) : ~replies[j].cancelled}}
AnsweredOnce ==
    /\ \A i, j \in 1 .. Len(replies) :
         replies[i].id = replies[j].id /\ ~replies[i].cancelled /\ ~replies[j].cancelled => i = j
    /\ \A t \in transpiled : t.request.id \in Answered \/ t.request = request

\* Although the analyzers outlive the requests, a file is transpiled with the
\* siblings of its own request and, when the request names Go sources, with
\* those; without the flag those of an earlier request may stay
\* (worker.go:117-128, 381).
OwnSettings ==
    \A t \in transpiled :
        /\ t.set.files = t.request.inputs \ {t.file}
        /\ t.set.goSrc = t.request.goSrc \/ t.request.goSrc = None

\* The worker does not outlive Bazel: when standard input is closed or the
\* server is gone, the process ends (parent_watcher.go:38).
EndsWithBazel == (stdin = "closed" \/ ~parent) ~> ended # "no"

\* What handleRequest says of a panic: it cannot kill the worker
\* (worker.go:187-189).
PanicsAreContained == ended # "crashed"
=============================================================================
