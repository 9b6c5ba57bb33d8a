----------------------------- MODULE WorkerPool -----------------------------
(***************************************************************************)
(* FixedPoolExecutionContext of go_interop/types.go; with one worker it is *)
(* SingleThreadExecutionContext, whose code is the same.                   *)
(*                                                                         *)
(* Clients are goroutines outside the pool.  A client, and a job while it  *)
(* runs on a worker, may submit another job (Execute and                   *)
(* ExecuteWithRecover differ only in how the job is wrapped) or shut the   *)
(* pool down.                                                              *)
(***************************************************************************)
EXTENDS Naturals, Sequences, FiniteSets

CONSTANTS Workers, Clients, Jobs, None,
          Capacity,      \* bound: slots of the tasks channel
          JobsSubmit,    \* may a running job submit another one
          JobsShutDown   \* may a running job call Shutdown

ASSUME WorkerPoolAssumption ==
    /\ Workers \cap Clients = {}
    /\ None \notin Workers \cup Clients \cup Jobs
    /\ Capacity \in Nat \ {0}
    /\ JobsSubmit \in BOOLEAN
    /\ JobsShutDown \in BOOLEAN

Goroutines == Workers \cup Clients

VARIABLES
    closed,     \* the field closed, under mu
    shutdown,   \* the shutdown channel is closed
    tasksClosed,\* the tasks channel is closed
    tasks,      \* what the tasks channel buffers
    once,       \* sync.Once of Shutdown: "fresh", "running", "ran"
    pc,         \* where each goroutine is
    carried,    \* the job a goroutine is submitting
    current,    \* the job a worker is running
    fate,       \* what became of each job
    crashed     \* a send on a closed channel has ended the process

vars == <<closed, shutdown, tasksClosed, tasks, once, pc, carried, current,
          fate, crashed>>

channels == <<closed, shutdown, tasksClosed, tasks>>

Init ==
    /\ closed = FALSE
    /\ shutdown = FALSE
    /\ tasksClosed = FALSE
    /\ tasks = <<>>
    /\ once = "fresh"
    /\ pc = [g \in Goroutines |-> IF g \in Workers THEN "select" ELSE "free"]
    /\ carried = [g \in Goroutines |-> None]
    /\ current = [w \in Workers |-> None]
    /\ fate = [j \in Jobs |-> "new"]
    /\ crashed = FALSE

Goto(g, from, to) == pc[g] = from /\ pc' = [pc EXCEPT ![g] = to]

\* A goroutine is free to make a call: a client between two calls, a worker in
\* the middle of a job.
MayCall(g, allowed) == g \in Clients \/ allowed

-----------------------------------------------------------------------------
(* Execute and ExecuteWithRecover.                                         *)

\* Jobs differ in nothing but their names: any new one will do.
NewJobs == {j \in Jobs : fate[j] = "new"}
NextJob == CHOOSE j \in Jobs : fate[j] = "new"

CallExecute(g) ==
    /\ MayCall(g, JobsSubmit)
    /\ Goto(g, "free", "check")
    /\ NewJobs # {}
    /\ fate' = [fate EXCEPT ![NextJob] = "carried"]
    /\ carried' = [carried EXCEPT ![g] = NextJob]
    /\ UNCHANGED <<channels, once, current, crashed>>

\* The call returns with the job accepted or dropped.
Return(g, from, outcome) ==
    /\ Goto(g, from, "free")
    /\ fate' = [fate EXCEPT ![carried[g]] = outcome]
    /\ carried' = [carried EXCEPT ![g] = None]

\* The flag is read under mu and used after the unlock.
CheckOpen(g) ==
    /\ ~closed
    /\ Goto(g, "check", "send")
    /\ UNCHANGED <<channels, once, carried, current, fate, crashed>>

CheckClosed(g) ==
    /\ closed
    /\ Return(g, "check", "dropped")
    /\ UNCHANGED <<channels, once, current, crashed>>

\* The select: a slot is free, or the shutdown channel is closed.  With both
\* it takes either.
Send(g) ==
    /\ ~tasksClosed
    /\ Len(tasks) < Capacity
    /\ Return(g, "send", "pending")
    /\ tasks' = Append(tasks, carried[g])
    /\ UNCHANGED <<closed, shutdown, tasksClosed, once, current, crashed>>

\* Mutant: the select has no shutdown case.
GiveUpNever(g) ==
    /\ FALSE
    /\ UNCHANGED vars

GiveUp(g) ==
    /\ shutdown
    /\ Return(g, "send", "dropped")
    /\ UNCHANGED <<channels, once, current, crashed>>

\* A send on a closed channel is always ready, and it panics.
SendOnClosed(g) ==
    /\ tasksClosed
    /\ pc[g] = "send"
    /\ crashed' = TRUE
    /\ UNCHANGED <<channels, once, pc, carried, current, fate>>

-----------------------------------------------------------------------------
(* worker.                                                                 *)

\* Mutant: the task stays in the channel.
ReceiveKeeping(w) ==
    /\ tasks # <<>>
    /\ Goto(w, "select", "free")
    /\ current' = [current EXCEPT ![w] = Head(tasks)]
    /\ fate' = [fate EXCEPT ![Head(tasks)] = "running"]
    /\ UNCHANGED <<channels, once, carried, crashed>>

Receive(w) ==
    /\ tasks # <<>>
    /\ Goto(w, "select", "free")
    /\ current' = [current EXCEPT ![w] = Head(tasks)]
    /\ fate' = [fate EXCEPT ![Head(tasks)] = "running"]
    /\ tasks' = Tail(tasks)
    /\ UNCHANGED <<closed, shutdown, tasksClosed, once, carried, crashed>>

\* task() returns.
Finish(w) ==
    /\ Goto(w, "free", "select")
    /\ fate' = [fate EXCEPT ![current[w]] = "done"]
    /\ current' = [current EXCEPT ![w] = None]
    /\ UNCHANGED <<channels, once, carried, crashed>>

\* Mutant: a worker leaves only through its own closed tasks channel.
ExitOnTasksClosed(w) ==
    /\ tasksClosed
    /\ Goto(w, "select", "exited")
    /\ UNCHANGED <<channels, once, carried, current, fate, crashed>>

\* The other case of the select, also taken while tasks are pending.
Exit(w) ==
    /\ shutdown
    /\ Goto(w, "select", "exited")
    /\ UNCHANGED <<channels, once, carried, current, fate, crashed>>

-----------------------------------------------------------------------------
(* Shutdown.                                                               *)

CallShutdown(g) ==
    /\ MayCall(g, JobsShutDown)
    /\ once = "fresh"
    /\ Goto(g, "free", "setClosed")
    /\ once' = "running"
    /\ UNCHANGED <<channels, carried, current, fate, crashed>>

\* Another caller blocks in the once until the first one is done; later
\* callers find it done.
JoinShutdown(g) ==
    /\ MayCall(g, JobsShutDown)
    /\ once = "running"
    /\ Goto(g, "free", "join")
    /\ UNCHANGED <<channels, once, carried, current, fate, crashed>>

LeaveShutdown(g) ==
    /\ once = "ran"
    /\ Goto(g, "join", "free")
    /\ UNCHANGED <<channels, once, carried, current, fate, crashed>>

SetClosed(g) ==
    /\ Goto(g, "setClosed", "closeShutdown")
    /\ closed' = TRUE
    /\ UNCHANGED <<shutdown, tasksClosed, tasks, once, carried, current, fate, crashed>>

CloseShutdown(g) ==
    /\ Goto(g, "closeShutdown", "wait")
    /\ shutdown' = TRUE
    /\ UNCHANGED <<closed, tasksClosed, tasks, once, carried, current, fate, crashed>>

\* Mutant: Shutdown waits for one of the workers only.
WaitForOneWorker(g) ==
    /\ \E w \in Workers : pc[w] = "exited"
    /\ Goto(g, "wait", "closeTasks")
    /\ UNCHANGED <<channels, once, carried, current, fate, crashed>>

WaitForWorkers(g) ==
    /\ \A w \in Workers : pc[w] = "exited"
    /\ Goto(g, "wait", "closeTasks")
    /\ UNCHANGED <<channels, once, carried, current, fate, crashed>>

CloseTasks(g) ==
    /\ Goto(g, "closeTasks", "free")
    /\ tasksClosed' = TRUE
    /\ once' = "ran"
    /\ UNCHANGED <<closed, shutdown, tasks, carried, current, fate, crashed>>

Execute(g) ==
    CheckOpen(g) \/ CheckClosed(g) \/ Send(g) \/ GiveUp(g) \/ SendOnClosed(g)

Work(w) == Receive(w) \/ Finish(w) \/ Exit(w)

Shutdown(g) ==
    \/ SetClosed(g) \/ CloseShutdown(g) \/ WaitForWorkers(g) \/ CloseTasks(g)
    \/ LeaveShutdown(g)

Next ==
    /\ ~crashed
    /\ \/ \E g \in Goroutines :
             \/ CallExecute(g) \/ CallShutdown(g) \/ JoinShutdown(g)
             \/ Execute(g) \/ Shutdown(g)
       \/ \E w \in Workers : Work(w)

Spec == Init /\ [][Next]_vars

\* Every goroutine runs when it can and every job that waits for nothing
\* returns; nobody has to submit jobs or to shut the pool down.
FairSpec ==
    /\ Spec
    /\ \A g \in Goroutines : WF_vars(~crashed /\ (Execute(g) \/ Shutdown(g)))
    /\ \A w \in Workers : WF_vars(~crashed /\ Work(w))

-----------------------------------------------------------------------------
Calls == {"free", "check", "send", "setClosed", "closeShutdown", "wait",
          "closeTasks", "join"}

TypeOK ==
    /\ closed \in BOOLEAN
    /\ shutdown \in BOOLEAN
    /\ tasksClosed \in BOOLEAN
    /\ tasks \in Seq(Jobs)
    /\ Len(tasks) <= Capacity
    /\ once \in {"fresh", "running", "ran"}
    /\ pc \in [Goroutines -> Calls \cup {"select", "exited"}]
    /\ carried \in [Goroutines -> Jobs \cup {None}]
    /\ current \in [Workers -> Jobs \cup {None}]
    /\ fate \in [Jobs -> {"new", "carried", "pending", "running", "dropped", "done"}]
    /\ crashed \in BOOLEAN

\* A job that was accepted is in one place only, one slot of the channel or
\* one worker: it never runs twice, and none vanishes from an open pool.
RunsOnce ==
    /\ \A i, k \in 1..Len(tasks) : tasks[i] = tasks[k] => i = k
    /\ \A v, w \in Workers : current[v] = current[w] /\ current[v] # None => v = w
    /\ \A j \in Jobs :
          /\ fate[j] = "pending" <=> \E i \in 1..Len(tasks) : tasks[i] = j
          /\ fate[j] = "running" <=> \E w \in Workers : current[w] = j
          /\ fate[j] = "dropped" => closed

\* When Shutdown returns the workers are gone and no job runs any more.
ShutdownIsFinal ==
    once = "ran" => \A w \in Workers : pc[w] = "exited" /\ current[w] = None

\* Shutdown returns, although jobs may be pending, running, or submitting
\* other jobs to a full channel, as long as no job calls Shutdown itself and so
\* waits for its own end.
ShutdownReturns ==
    \A g \in Goroutines :
        pc[g] \in {"setClosed", "join"} ~> pc[g] = "free" \/ crashed

\* A full channel delays a client's Execute and does not block it for ever,
\* unless every worker is itself blocked submitting to that channel.
ExecuteReturns ==
    \A g \in Clients :
        pc[g] \in {"check", "send"} ~>
            pc[g] = "free" \/ crashed \/ \A w \in Workers : pc[w] = "send"

\* "It waits for all pending tasks to complete" (types.go:685).
ShutdownWaitsForPending ==
    once = "ran" => \A j \in Jobs : fate[j] # "pending"

\* "Shutdown gracefully shuts down the execution context" (types.go:547).
ShutdownIsGraceful == ~crashed

\* Shutdown returns, and so does Execute while a worker can empty the channel
\* (types.go:643, types.go:686).
CallsReturn == ShutdownReturns /\ ExecuteReturns
=============================================================================
