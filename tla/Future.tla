------------------------------- MODULE Future -------------------------------
(***************************************************************************)
(* Futures, the stages derived from them, their cancellation scopes and    *)
(* the execution context that runs their callbacks                         *)
(* (concurrent/future.gala on go_interop/types.go).                        *)
(*                                                                         *)
(* A client makes futures one after the other, 1, 2, ... N, and may cancel *)
(* them.  Whatever else happens is a task handed to the execution context: *)
(* the body of FutureOn, the callback every combinator registers through   *)
(* OnComplete, the timer of WithTimeout.  Completing a promise is two      *)
(* steps, the result and then the signal; module Promise shows that this   *)
(* is all that can be seen of it.                                          *)
(***************************************************************************)
EXTENDS Naturals, Sequences, FiniteSets

CONSTANTS N,           \* bound: how many futures the program makes
          Pool,        \* workers of the pool; 0 is UnboundedExecutionContext
          Made,        \* the kinds of future the client makes
          StagePanics, \* may a function given to a combinator panic
          None         \* no result, no future

Futures == 1..N

\* Stages whose handler completes the promise itself, and stages whose
\* handler may hand over to the future the user's function returns.
Inline == {"map", "filter", "recover", "transform", "andThen"}
Binding == {"flatMap", "recoverWith", "transformWith"}
Stages == Inline \cup Binding
AllKinds == Stages \cup {"promise", "body", "timeout"}

\* A Try is a success or a failure together with the future whose body,
\* function or boundary check produced it.
Ok(f) == [tag |-> "ok", by |-> f]
Err(f) == [tag |-> "error", by |-> f]
Cancelled(f) == [tag |-> "cancelled", by |-> f]
TimedOut(f) == [tag |-> "timeout", by |-> f]
Try == [tag : {"ok", "error", "cancelled", "timeout"}, by : Futures]

ASSUME FutureAssumption ==
    /\ N \in Nat
    /\ Pool \in Nat
    /\ Made \subseteq AllKinds
    /\ StagePanics \in BOOLEAN
    /\ None \notin Futures /\ None \notin AllKinds /\ None \notin Try

\* The tasks that can complete future p: its body, the user's own call of
\* Complete, the callback on its parent, the callback on the future that its
\* function returned, and the two tasks of WithTimeout.
Roles == {"body", "user", "stage", "inner", "copy", "timer"}
Tasks == Futures \X Roles

VARIABLES
    kind,      \* how each future was made, None before
    parent,    \* the future it was derived from
    inner,     \* the future that the function of a binding stage returned
    token,     \* its cancellation token, named by the future that opened it
    result,    \* FutureState.result; complete is result # None
    closed,    \* the futures whose done signal is closed
    cancelled, \* the tokens that have been cancelled
    pc,        \* where each task is
    local,     \* the Try a task has read or computed
    queue,     \* the tasks channel of a pool
    crashed,   \* a panic nobody recovered has ended the process
    asked      \* history: the tokens cancelled by a call of Cancel

futures == <<kind, parent, inner, token>>
vars == <<kind, parent, inner, token, result, closed, cancelled, pc, local,
          queue, crashed, asked>>

Init ==
    /\ kind = [f \in Futures |-> None]
    /\ parent = [f \in Futures |-> None]
    /\ inner = [f \in Futures |-> None]
    /\ token = [f \in Futures |-> f]
    /\ result = [f \in Futures |-> None]
    /\ closed = {}
    /\ cancelled = {}
    /\ pc = [f \in Futures |-> [r \in Roles |-> "none"]]
    /\ local = [f \in Futures |-> [r \in Roles |-> None]]
    /\ queue = <<>>
    /\ crashed = FALSE
    /\ asked = {}

Exists(f) == kind[f] # None

\* The next name for a future, if the bound allows another one.
Fresh(p) == ~Exists(p) /\ \A f \in Futures : f < p => Exists(f)

-----------------------------------------------------------------------------
(* The execution context.                                                  *)

Unbounded == Pool = 0

\* Execute: a new goroutine, or the tail of the channel.
Submitted == IF Unbounded THEN "ready" ELSE "queued"
\* Mutant: the channel is a stack.
EnqueueFront(p, r) ==
    queue' = IF Unbounded THEN queue ELSE <<<<p, r>>>> \o queue

Enqueue(p, r) == queue' = IF Unbounded THEN queue ELSE Append(queue, <<p, r>>)

Busy == {t \in Tasks : t[2] # "user" /\
            pc[t[1]][t[2]] \in {"ready", "handling", "chaining", "completing",
                               "closing", "cancelling"}}

\* A worker receives the next task; it is busy until the task returns, and a
\* task that waits for a signal does not return.
Start(p, r) ==
    /\ pc[p][r] = "queued"
    /\ queue # <<>> /\ Head(queue) = <<p, r>>
    /\ Cardinality(Busy) < Pool
    /\ queue' = Tail(queue)
    /\ pc' = [pc EXCEPT ![p][r] = "ready"]
    /\ UNCHANGED <<futures, result, closed, cancelled, local, crashed, asked>>

-----------------------------------------------------------------------------
(* The client.                                                             *)

\* WithTimeout makes two calls of Execute: until the second one is made the
\* client does nothing else.
ClientFree == \A f \in Futures : pc[f]["timer"] # "unsubmitted"

\* NewPromise: a fresh token.
MakePromise(p) ==
    /\ ClientFree /\ Fresh(p) /\ "promise" \in Made
    /\ kind' = [kind EXCEPT ![p] = "promise"]
    /\ UNCHANGED <<parent, inner, token, result, closed, cancelled, pc, local,
                   queue, crashed, asked>>

\* FutureOn and the future type's constructor.
MakeBody(p) ==
    /\ ClientFree /\ Fresh(p) /\ "body" \in Made
    /\ kind' = [kind EXCEPT ![p] = "body"]
    /\ pc' = [pc EXCEPT ![p]["body"] = Submitted]
    /\ Enqueue(p, "body")
    /\ UNCHANGED <<parent, inner, token, result, closed, cancelled, local,
                   crashed, asked>>

\* derive: the stage shares its parent's token.
MakeStage(p) ==
    /\ ClientFree /\ Fresh(p)
    /\ \E k \in Made \cap Stages, f \in Futures :
          /\ Exists(f)
          /\ kind' = [kind EXCEPT ![p] = k]
          /\ parent' = [parent EXCEPT ![p] = f]
          /\ token' = [token EXCEPT ![p] = token[f]]
    /\ pc' = [pc EXCEPT ![p]["stage"] = Submitted]
    /\ Enqueue(p, "stage")
    /\ UNCHANGED <<inner, result, closed, cancelled, local, crashed, asked>>

\* WithTimeout: a fresh token, a callback on the source and then a timer.
MakeTimeout(p) ==
    /\ ClientFree /\ Fresh(p) /\ "timeout" \in Made
    /\ \E f \in Futures :
          /\ Exists(f)
          /\ kind' = [kind EXCEPT ![p] = "timeout"]
          /\ parent' = [parent EXCEPT ![p] = f]
    /\ pc' = [pc EXCEPT ![p]["copy"] = Submitted,
                        ![p]["timer"] = "unsubmitted"]
    /\ Enqueue(p, "copy")
    /\ UNCHANGED <<inner, token, result, closed, cancelled, local, crashed, asked>>

SubmitTimer(p) ==
    /\ pc[p]["timer"] = "unsubmitted"
    /\ pc' = [pc EXCEPT ![p]["timer"] = Submitted]
    /\ Enqueue(p, "timer")
    /\ UNCHANGED <<futures, result, closed, cancelled, local, crashed, asked>>

\* Future.Cancel.
Cancel(f) ==
    /\ ClientFree /\ Exists(f)
    /\ token[f] \notin asked
    /\ cancelled' = cancelled \cup {token[f]}
    /\ asked' = asked \cup {token[f]}
    /\ UNCHANGED <<futures, result, closed, pc, local, queue, crashed>>

\* Somebody who holds the promise calls Success or Failure.
UserComplete(p) ==
    /\ kind[p] = "promise"
    /\ pc[p]["user"] = "none"
    /\ pc' = [pc EXCEPT ![p]["user"] = "completing"]
    /\ \E r \in {Ok(p), Err(p)} : local' = [local EXCEPT ![p]["user"] = r]
    /\ UNCHANGED <<futures, result, closed, cancelled, queue, crashed, asked>>

-----------------------------------------------------------------------------
(* The tasks.                                                              *)

\* Mutant: a binding stage answers what its parent answered.
SourceParent(p, r) == parent[p]

\* The future whose signal a task waits for.
Source(p, r) == IF r = "inner" THEN inner[p] ELSE parent[p]

\* runAsync: a panic of the body is recovered and becomes a failure.
RunBody(p) ==
    /\ pc[p]["body"] = "ready"
    /\ pc' = [pc EXCEPT ![p]["body"] = "completing"]
    /\ \E r \in {Ok(p), Err(p)} : local' = [local EXCEPT ![p]["body"] = r]
    /\ UNCHANGED <<futures, result, closed, cancelled, queue, crashed, asked>>

\* Mutant: only the path of a success is checked for cancellation.
BoundaryOfSuccess(p) ==
    /\ pc[p]["stage"] = "ready"
    /\ parent[p] \in closed
    /\ LET stop == token[p] \in cancelled /\ result[parent[p]].tag = "ok"
       IN  /\ pc' = [pc EXCEPT ![p]["stage"] = IF stop THEN "completing" ELSE "handling"]
           /\ local' = [local EXCEPT ![p]["stage"] =
                           IF stop THEN Cancelled(p) ELSE result[parent[p]]]
    /\ UNCHANGED <<futures, result, closed, cancelled, queue, crashed, asked>>

\* The head of derive's callback: WaitSignal, the read of the result, and
\* checkCancelled on the token it shares with its parent.
Boundary(p) ==
    /\ pc[p]["stage"] = "ready"
    /\ parent[p] \in closed
    /\ LET stop == token[p] \in cancelled
       IN  /\ pc' = [pc EXCEPT ![p]["stage"] = IF stop THEN "completing" ELSE "handling"]
           /\ local' = [local EXCEPT ![p]["stage"] =
                           IF stop THEN Cancelled(p) ELSE result[parent[p]]]
    /\ UNCHANGED <<futures, result, closed, cancelled, queue, crashed, asked>>

IsOk(r) == r.tag = "ok"

\* Does the handler of a stage of kind k call the user's function on r?
CallsUser(k, r) ==
    \/ k \in {"transform", "andThen", "transformWith"}
    \/ k \in {"map", "filter", "flatMap"} /\ IsOk(r)
    \/ k \in {"recover", "recoverWith"} /\ ~IsOk(r)

\* Does the handler complete p with what a future returned by it yields?
Binds(k, r) == k \in Binding /\ CallsUser(k, r)

\* What an inline handler of p may complete p with.
Outcomes(k, p, r) ==
    IF ~CallsUser(k, r) THEN {r}
    ELSE CASE k \in {"map", "recover"} -> {Ok(p)}
           [] k = "filter"             -> {r, Err(p)}
           [] k = "transform"          -> {Ok(p), Err(p)}
           [] k = "andThen"            -> {r}
           [] OTHER                    -> {}

Handle(p) ==
    /\ pc[p]["stage"] = "handling"
    /\ ~Binds(kind[p], local[p]["stage"])
    /\ pc' = [pc EXCEPT ![p]["stage"] = "completing"]
    /\ \E r \in Outcomes(kind[p], p, local[p]["stage"]) :
          local' = [local EXCEPT ![p]["stage"] = r]
    /\ UNCHANGED <<futures, result, closed, cancelled, queue, crashed, asked>>

\* The function of a binding stage returns a future it captured, one that was
\* made before the stage, ...
BindExisting(p) ==
    /\ pc[p]["stage"] = "handling"
    /\ Binds(kind[p], local[p]["stage"])
    /\ \E g \in Futures : g < p /\ inner' = [inner EXCEPT ![p] = g]
    /\ pc' = [pc EXCEPT ![p]["stage"] = "chaining"]
    /\ UNCHANGED <<kind, parent, token, result, closed, cancelled, local,
                   queue, crashed, asked>>

\* ... or a new one, whose body it hands to the same execution context.
BindFresh(p) ==
    /\ pc[p]["stage"] = "handling"
    /\ Binds(kind[p], local[p]["stage"])
    /\ \E g \in Futures :
          /\ Fresh(g)
          /\ inner' = [inner EXCEPT ![p] = g]
          /\ kind' = [kind EXCEPT ![g] = "body"]
          /\ pc' = [pc EXCEPT ![p]["stage"] = "chaining", ![g]["body"] = Submitted]
          /\ Enqueue(g, "body")
    /\ UNCHANGED <<parent, token, result, closed, cancelled, local, crashed, asked>>

\* Mutant: nobody waits for the future the function returned.
ChainDropped(p) ==
    /\ pc[p]["stage"] = "chaining"
    /\ pc' = [pc EXCEPT ![p]["stage"] = "ended"]
    /\ UNCHANGED <<futures, result, closed, cancelled, local, queue, crashed, asked>>

\* OnComplete on the future the function returned: the stage's task is over.
Chain(p) ==
    /\ pc[p]["stage"] = "chaining"
    /\ pc' = [pc EXCEPT ![p]["stage"] = "ended", ![p]["inner"] = Submitted]
    /\ Enqueue(p, "inner")
    /\ UNCHANGED <<futures, result, closed, cancelled, local, crashed, asked>>

\* Execute recovers nothing: the panic of a combinator's function is fatal.
Panic(p) ==
    /\ StagePanics
    /\ pc[p]["stage"] = "handling"
    /\ CallsUser(kind[p], local[p]["stage"])
    /\ crashed' = TRUE
    /\ UNCHANGED <<futures, result, closed, cancelled, pc, local, queue, asked>>

\* The callbacks that pass a result on as it is.
Relay(p, r) ==
    /\ r \in {"inner", "copy"} /\ pc[p][r] = "ready"
    /\ Source(p, r) \in closed
    /\ pc' = [pc EXCEPT ![p][r] = "completing"]
    /\ local' = [local EXCEPT ![p][r] = result[Source(p, r)]]
    /\ UNCHANGED <<futures, result, closed, cancelled, queue, crashed, asked>>

\* WithTimeout's timer: the source was in time, ...
TimerStopped(p) ==
    /\ pc[p]["timer"] = "ready"
    /\ parent[p] \in closed
    /\ pc' = [pc EXCEPT ![p]["timer"] = "ended"]
    /\ UNCHANGED <<futures, result, closed, cancelled, local, queue, crashed, asked>>

\* Mutant: the source is cancelled first and the bounded future failed second.
TimerFiresCancelling(p) ==
    /\ pc[p]["timer"] = "ready"
    /\ pc' = [pc EXCEPT ![p]["timer"] = "completing"]
    /\ local' = [local EXCEPT ![p]["timer"] = TimedOut(p)]
    /\ cancelled' = cancelled \cup {token[parent[p]]}
    /\ UNCHANGED <<futures, result, closed, queue, crashed, asked>>

\* Mutant: the timer waits for the source without a deadline.
TimerFiresLate(p) ==
    /\ pc[p]["timer"] = "ready"
    /\ parent[p] \in closed
    /\ pc' = [pc EXCEPT ![p]["timer"] = "completing"]
    /\ local' = [local EXCEPT ![p]["timer"] = TimedOut(p)]
    /\ UNCHANGED <<futures, result, closed, cancelled, queue, crashed, asked>>

\* ... or the deadline has passed.  With both, the select takes either.
TimerFires(p) ==
    /\ pc[p]["timer"] = "ready"
    /\ pc' = [pc EXCEPT ![p]["timer"] = "completing"]
    /\ local' = [local EXCEPT ![p]["timer"] = TimedOut(p)]
    /\ UNCHANGED <<futures, result, closed, cancelled, queue, crashed, asked>>

\* Mutant: the timer forgets to cancel.
AfterEnded(p, r) == "ended"

\* What is left to do once Complete has returned: the timer cancels.
After(p, r) == IF r = "timer" THEN "cancelling" ELSE "ended"

\* Promise.Complete, for the caller that wins and for the others.
Complete(p, r) ==
    /\ pc[p][r] = "completing"
    /\ result[p] = None
    /\ result' = [result EXCEPT ![p] = local[p][r]]
    /\ pc' = [pc EXCEPT ![p][r] = "closing"]
    /\ UNCHANGED <<futures, closed, cancelled, local, queue, crashed, asked>>

CompleteTooLate(p, r) ==
    /\ pc[p][r] = "completing"
    /\ p \in closed
    /\ pc' = [pc EXCEPT ![p][r] = After(p, r)]
    /\ UNCHANGED <<futures, result, closed, cancelled, local, queue, crashed, asked>>

CloseSignal(p, r) ==
    /\ pc[p][r] = "closing"
    /\ closed' = closed \cup {p}
    /\ pc' = [pc EXCEPT ![p][r] = After(p, r)]
    /\ UNCHANGED <<futures, result, cancelled, local, queue, crashed, asked>>

\* Mutant: the timer cancels the scope of the bounded future.
CancelBounded(p) ==
    /\ pc[p]["timer"] = "cancelling"
    /\ cancelled' = cancelled \cup {token[p]}
    /\ pc' = [pc EXCEPT ![p]["timer"] = "ended"]
    /\ UNCHANGED <<futures, result, closed, local, queue, crashed, asked>>

\* The deadline has passed: the source's scope is cancelled.
CancelSource(p) ==
    /\ pc[p]["timer"] = "cancelling"
    /\ cancelled' = cancelled \cup {token[parent[p]]}
    /\ pc' = [pc EXCEPT ![p]["timer"] = "ended"]
    /\ UNCHANGED <<futures, result, closed, local, queue, crashed, asked>>

Task(p, r) ==
    \/ Start(p, r) \/ Relay(p, r) \/ Complete(p, r) \/ CompleteTooLate(p, r)
    \/ CloseSignal(p, r)
    \/ r = "body" /\ RunBody(p)
    \/ r = "stage" /\ (Boundary(p) \/ Handle(p) \/ BindExisting(p)
                          \/ BindFresh(p) \/ Chain(p))
    \/ r = "timer" /\ (TimerStopped(p) \/ TimerFires(p) \/ CancelSource(p))

Step(p, r) == ~crashed /\ Task(p, r)

Client(p) ==
    /\ ~crashed
    /\ \/ MakePromise(p) \/ MakeBody(p) \/ MakeStage(p) \/ MakeTimeout(p)
       \/ Cancel(p) \/ UserComplete(p)

Next ==
    \/ \E p \in Futures : Client(p) \/ (~crashed /\ SubmitTimer(p))
    \/ \E p \in Futures : ~crashed /\ Panic(p)
    \/ \E p \in Futures, r \in Roles : Step(p, r)

Spec == Init /\ [][Next]_vars

\* Goroutines and workers run whenever they can, bodies and functions return,
\* deadlines pass, and WithTimeout gets to its second Execute.  The client
\* makes, cancels and completes what it likes.
FairSpec ==
    /\ Spec
    /\ \A p \in Futures, r \in Roles : WF_vars(Step(p, r))
    /\ \A p \in Futures : WF_vars(~crashed /\ SubmitTimer(p))

-----------------------------------------------------------------------------
PCs == {"none", "unsubmitted", "queued", "ready", "handling", "chaining",
        "completing", "closing", "cancelling", "ended"}

TypeOK ==
    /\ kind \in [Futures -> AllKinds \cup {None}]
    /\ parent \in [Futures -> Futures \cup {None}]
    /\ inner \in [Futures -> Futures \cup {None}]
    /\ token \in [Futures -> Futures]
    /\ result \in [Futures -> Try \cup {None}]
    /\ closed \subseteq Futures
    /\ cancelled \subseteq Futures
    /\ pc \in [Futures -> [Roles -> PCs]]
    /\ local \in [Futures -> [Roles -> Try \cup {None}]]
    /\ queue \in Seq(Tasks)
    /\ crashed \in BOOLEAN
    /\ asked \subseteq Futures

Done(f) == result[f] # None

\* Did f fail because the boundary check of a stage of p's scope stopped it?
CancelledWithin(f, p) ==
    Done(f) /\ result[f].tag = "cancelled" /\ token[result[f].by] = token[p]

\* Cancellation cannot be recovered from inside its scope: a stage derived
\* from one that was cancelled is cancelled itself, whatever its kind, because
\* its own boundary check comes later (derive, checkCancelled).
CancellationSpreads ==
    \A p \in Futures :
        kind[p] \in Stages /\ Done(p) /\ CancelledWithin(parent[p], p)
            => result[p] = Cancelled(p)

\* Cancellation stays in its scope: a token is cancelled by a call of Cancel
\* on a future that shares it or by the timer of a WithTimeout on such a
\* future, and a CancellationError is raised in a cancelled scope only.
CancellationStays ==
    /\ \A k \in cancelled :
          \/ k \in asked
          \/ \E q \in Futures :
                /\ kind[q] = "timeout"
                /\ token[parent[q]] = k
                /\ local[q]["timer"] = TimedOut(q)
    /\ \A f \in Futures :
          Done(f) /\ result[f].tag = "cancelled" => token[result[f].by] \in cancelled

\* A binding stage that called its function answers what the future that the
\* function returned answered, and a WithTimeout what its source answered
\* unless its own deadline passed.
AnswersItsSource ==
    \A p \in Futures : Done(p) =>
        /\ inner[p] # None => inner[p] \in closed /\ result[p] = result[inner[p]]
        /\ kind[p] = "timeout" =>
              \/ result[p] = TimedOut(p)
              \/ parent[p] \in closed /\ result[p] = result[parent[p]]

\* A failure goes down a chain unchanged until a stage handles it: a stage
\* whose function handles successes only fails with its parent's own error,
\* or because it was cancelled.
FailurePropagates ==
    \A p \in Futures :
        /\ Done(p) /\ kind[p] \in {"map", "filter", "flatMap"}
        /\ result[parent[p]].tag # "ok"
        => result[p] \in {result[parent[p]], Cancelled(p)}

\* The bounded future is failed before its source is cancelled: WithTimeout
\* never answers the CancellationError that its own deadline provoked.
DeadlineIsNotACancellation ==
    \A p \in Futures :
        /\ kind[p] = "timeout" /\ Done(p) /\ result[p].tag = "cancelled"
        /\ token[result[p].by] = token[parent[p]]
        => \/ token[parent[p]] \in asked
           \/ \E q \in Futures \ {p} :
                 /\ kind[q] = "timeout"
                 /\ token[parent[q]] = token[parent[p]]
                 /\ local[q]["timer"] # None

\* A future "will eventually produce a value ... or fail with an error"
\* (future.gala:26): every future completes, unless the user leaves a promise
\* open for ever.
PromiseLeftOpen == \E f \in Futures : kind[f] = "promise" /\ f \notin closed

EventuallyCompletes ==
    \A p \in Futures : Exists(p) ~> p \in closed \/ []PromiseLeftOpen

\* WithTimeout completes whether or not its source ever does, ...
TimeoutCompletes == \A p \in Futures : kind[p] = "timeout" ~> p \in closed

\* ... and a deadline that passed cancels the source's scope.
TimeoutCancels ==
    \A p \in Futures :
        result[p] = TimedOut(p) ~> \E f \in Futures : parent[p] = f /\ token[f] \in cancelled

\* A deadline ends its bounded future, and one that passes first cancels the
\* scope of the source (future.gala:279).
DeadlineIsKept == TimeoutCompletes /\ TimeoutCancels
=============================================================================
