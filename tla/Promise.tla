------------------------------ MODULE Promise ------------------------------
(***************************************************************************)
(* Promise and Future as a single-assignment container                     *)
(* (concurrent/future.gala), on the primitives of go_interop/types.go.     *)
(*                                                                         *)
(* Completers call Promise.Complete, each with a result of its own (the    *)
(* completer's name stands for the Try).  Readers call Value, Await and    *)
(* AwaitFor in any order and as often as they like.  Every access to the   *)
(* fields of FutureState is a step of its own, so the mutex, the once and  *)
(* the signal have to do their work here as they do in the code.           *)
(***************************************************************************)
CONSTANTS Completers,  \* goroutines that call Complete
          Readers,     \* goroutines that call Value, Await, AwaitFor
          None,        \* the zero Try of a pending promise; also Option None
          Timeout      \* AwaitFor returned because its timer fired

ASSUME PromiseAssumption ==
    /\ Completers \cap Readers = {}
    /\ None \notin Completers \cup {Timeout}
    /\ Timeout \notin Completers

VARIABLES
    result,    \* FutureState.result
    complete,  \* FutureState.complete
    closed,    \* FutureState.done is closed
    once,      \* sync.Once: "fresh", "running" (f has not returned), "ran"
    writer,    \* mu: the writer that holds the lock or waits for the readers
    holders,   \* mu: the goroutines that hold the read lock
    pc,        \* where each goroutine is
    op,        \* the call a reader is executing, or executed last
    flag,      \* local c of Value, read under the read lock
    value,     \* local r of Value, Await and AwaitFor
    answer     \* what the reader's last finished call returned

vars == <<result, complete, closed, once, writer, holders, pc, op, flag,
          value, answer>>

state == <<result, complete, closed, once>>
locals == <<op, flag, value, answer>>

Reads == {"Value", "Await", "AwaitFor"}

Init ==
    /\ result = None
    /\ complete = FALSE
    /\ closed = FALSE
    /\ once = "fresh"
    /\ writer = None
    /\ holders = {}
    /\ pc = [g \in Completers \cup Readers |-> "idle"]
    /\ op = [r \in Readers |-> "Value"]
    /\ flag = [r \in Readers |-> FALSE]
    /\ value = [r \in Readers |-> None]
    /\ answer = [r \in Readers |-> None]

Goto(g, from, to) == pc[g] = from /\ pc' = [pc EXCEPT ![g] = to]

(***************************************************************************)
(* Complete.  A caller that finds the once running blocks inside Do: it    *)
(* has no step until f has returned.                                       *)
(***************************************************************************)
EnterOnce(c) ==
    /\ once = "fresh"
    /\ Goto(c, "idle", "lock")
    /\ once' = "running"
    /\ UNCHANGED <<result, complete, closed, writer, holders, locals>>

\* Mutant: an atomic flag instead of a once, which does not wait for f.
SkipOnceEarly(c) ==
    /\ once # "fresh"
    /\ Goto(c, "idle", "lost")
    /\ UNCHANGED <<state, writer, holders, locals>>

SkipOnce(c) ==
    /\ once = "ran"
    /\ Goto(c, "idle", "lost")
    /\ UNCHANGED <<state, writer, holders, locals>>

\* RWMutex.Lock first shuts new readers out, then waits for the present ones.
ShutReadersOut(c) ==
    /\ writer = None
    /\ Goto(c, "lock", "drain")
    /\ writer' = c
    /\ UNCHANGED <<state, holders, locals>>

Lock(c) ==
    /\ holders = {}
    /\ Goto(c, "drain", "assign")
    /\ UNCHANGED <<state, writer, holders, locals>>

AssignResult(c) ==
    /\ Goto(c, "assign", "flag")
    /\ result' = c
    /\ UNCHANGED <<complete, closed, once, writer, holders, locals>>

SetComplete(c) ==
    /\ Goto(c, "flag", "unlock")
    /\ complete' = TRUE
    /\ UNCHANGED <<result, closed, once, writer, holders, locals>>

Unlock(c) ==
    /\ Goto(c, "unlock", "close")
    /\ writer' = None
    /\ UNCHANGED <<state, holders, locals>>

\* Mutant: the signal stays open.
CloseSignalMissing(c) ==
    /\ Goto(c, "close", "leave")
    /\ UNCHANGED <<state, writer, holders, locals>>

CloseSignal(c) ==
    /\ Goto(c, "close", "leave")
    /\ closed' = TRUE
    /\ UNCHANGED <<result, complete, once, writer, holders, locals>>

LeaveOnce(c) ==
    /\ Goto(c, "leave", "won")
    /\ once' = "ran"
    /\ UNCHANGED <<result, complete, closed, writer, holders, locals>>

Complete(c) ==
    \/ EnterOnce(c) \/ SkipOnce(c) \/ ShutReadersOut(c) \/ Lock(c)
    \/ AssignResult(c) \/ SetComplete(c) \/ Unlock(c) \/ CloseSignal(c)
    \/ LeaveOnce(c)

(***************************************************************************)
(* Value, Await and AwaitFor.                                              *)
(***************************************************************************)
Call(r) ==
    /\ \E o \in Reads :
          /\ op' = [op EXCEPT ![r] = o]
          /\ Goto(r, "idle", IF o = "Value" THEN "rlock" ELSE "wait")
    /\ UNCHANGED <<state, writer, holders, flag, value, answer>>

\* WaitSignal, and the signal's case of the select in WaitSignalTimeout.
Signalled(r) ==
    /\ closed
    /\ Goto(r, "wait", "rlock")
    /\ UNCHANGED <<state, writer, holders, locals>>

\* The timer's case: the select may take it even when the signal is closed.
TimerFires(r) ==
    /\ op[r] = "AwaitFor"
    /\ Goto(r, "wait", "idle")
    /\ answer' = [answer EXCEPT ![r] = Timeout]
    /\ UNCHANGED <<state, writer, holders, op, flag, value>>

\* Mutant: Value and Await read without the lock.
RLockMissing(r) ==
    /\ Goto(r, "rlock", IF op[r] = "Value" THEN "readFlag" ELSE "readResult")
    /\ UNCHANGED <<state, writer, holders, locals>>

RLock(r) ==
    /\ writer = None
    /\ Goto(r, "rlock", IF op[r] = "Value" THEN "readFlag" ELSE "readResult")
    /\ holders' = holders \cup {r}
    /\ UNCHANGED <<state, writer, locals>>

ReadFlag(r) ==
    /\ Goto(r, "readFlag", "readResult")
    /\ flag' = [flag EXCEPT ![r] = complete]
    /\ UNCHANGED <<state, writer, holders, op, value, answer>>

ReadResult(r) ==
    /\ Goto(r, "readResult", "runlock")
    /\ value' = [value EXCEPT ![r] = result]
    /\ UNCHANGED <<state, writer, holders, op, flag, answer>>

\* Value answers When(c, r); the other two answer what they read.
RUnlock(r) ==
    /\ Goto(r, "runlock", "idle")
    /\ holders' = holders \ {r}
    /\ answer' = [answer EXCEPT ![r] =
                     IF op[r] = "Value" /\ ~flag[r] THEN None ELSE value[r]]
    /\ UNCHANGED <<state, writer, op, flag, value>>

Read(r) ==
    \/ Signalled(r) \/ RLock(r) \/ ReadFlag(r) \/ ReadResult(r) \/ RUnlock(r)

Next ==
    \/ \E c \in Completers : Complete(c)
    \/ \E r \in Readers : Call(r) \/ TimerFires(r) \/ Read(r)

Spec == Init /\ [][Next]_vars

\* The Go scheduler runs every goroutine that can run.  Nobody is obliged to
\* call Value or Await, and a timer may be as long as one likes.
FairSpec ==
    /\ Spec
    /\ \A c \in Completers : WF_vars(Complete(c))
    /\ \A r \in Readers : WF_vars(Read(r))

-----------------------------------------------------------------------------
CompleterPCs == {"idle", "lock", "drain", "assign", "flag", "unlock", "close",
                 "leave", "won", "lost"}
ReaderPCs == {"idle", "wait", "rlock", "readFlag", "readResult", "runlock"}

TypeOK ==
    /\ result \in Completers \cup {None}
    /\ complete \in BOOLEAN
    /\ closed \in BOOLEAN
    /\ once \in {"fresh", "running", "ran"}
    /\ writer \in Completers \cup {None}
    /\ holders \subseteq Readers
    /\ pc \in [Completers \cup Readers -> CompleterPCs \cup ReaderPCs]
    /\ \A c \in Completers : pc[c] \in CompleterPCs
    /\ \A r \in Readers : pc[r] \in ReaderPCs
    /\ op \in [Readers -> Reads]
    /\ flag \in [Readers -> BOOLEAN]
    /\ value \in [Readers -> Completers \cup {None}]
    /\ answer \in [Readers -> Completers \cup {None, Timeout}]

\* A promise is completed exactly once: at most one call of Complete returns
\* true, its result is the one kept, and a call that returns false returns
\* after the promise has been completed and the waiters released.
OneWinner ==
    \A c \in Completers :
        /\ pc[c] = "won" => result = c /\ complete /\ closed
        /\ pc[c] = "lost" => result \in Completers \ {c} /\ complete /\ closed

\* No reader is handed the zero Try of a promise that is not completed: Await
\* and AwaitFor answer a result (or the timeout), and Value answers a result
\* only once the promise is complete.
NoZeroResult ==
    \A r \in Readers :
        /\ pc[r] = "idle" /\ op[r] = "Await" =>
              answer[r] \notin {None, Timeout}
        /\ pc[r] = "idle" /\ op[r] = "AwaitFor" => answer[r] # None
        /\ answer[r] \in Completers => complete /\ answer[r] = result

\* A future never goes back to pending: a reader that was handed the result
\* is handed the same one by every later Value and Await.
ResultIsFinal ==
    [][\A r \in Readers :
          answer[r] \in Completers => answer'[r] \in {answer[r], Timeout}]_vars

\* Every call of Complete returns, and an Await returns once somebody has
\* called Complete, although readers may come and go without end.
CallsReturn ==
    /\ \A c \in Completers : <>(pc[c] \in {"won", "lost"})
    /\ \A r \in Readers : pc[r] = "wait" ~> pc[r] = "idle"

-----------------------------------------------------------------------------
\* The cell is assigned when complete is set: nobody looks at result before.
Cell == INSTANCE SingleAssignment WITH
    cell <- IF complete THEN result ELSE None,
    verdict <- [c \in Completers |->
                   IF pc[c] \in {"won", "lost"} THEN pc[c] ELSE "none"],
    view <- answer

\* Seen from outside, the locks and signals of FutureState make one
\* single-assignment cell.
ImplementsCell == Cell!ASpec
=============================================================================
