-------------------------- MODULE SingleAssignment --------------------------
(***************************************************************************)
(* What a Promise promises (concurrent/future.gala): one cell that is      *)
(* assigned at most once, writers that are told whether it was they who    *)
(* assigned it, and readers whose every answer is what the cell held at    *)
(* one instant of the call.  No lock, no signal, no sync.Once: module      *)
(* Promise implements this one.                                            *)
(***************************************************************************)
CONSTANTS Completers, Readers, None, Timeout

VARIABLES cell,     \* the assigned result, None before the assignment
          verdict,  \* what Complete returned: "none" yet, "won" or "lost"
          view      \* the last answer each reader was given

avars == <<cell, verdict, view>>

AInit ==
    /\ cell = None
    /\ verdict = [c \in Completers |-> "none"]
    /\ view = [r \in Readers |-> None]

\* The writer's own name stands for the Try it completes the promise with.
Assign(c) ==
    /\ cell = None
    /\ verdict[c] = "none"
    /\ cell' = c
    /\ UNCHANGED <<verdict, view>>

\* Only the writer of the cell is told that it won, and a writer is told that
\* it lost only once the cell holds the result of another one.
Answer(c) ==
    /\ cell # None
    /\ verdict[c] = "none"
    /\ verdict' = [verdict EXCEPT ![c] = IF cell = c THEN "won" ELSE "lost"]
    /\ UNCHANGED <<cell, view>>

Observe(r) ==
    /\ view' = [view EXCEPT ![r] = cell]
    /\ UNCHANGED <<cell, verdict>>

GiveUp(r) ==
    /\ view' = [view EXCEPT ![r] = Timeout]
    /\ UNCHANGED <<cell, verdict>>

ANext ==
    \/ \E c \in Completers : Assign(c) \/ Answer(c)
    \/ \E r \in Readers : Observe(r) \/ GiveUp(r)

ASpec == AInit /\ [][ANext]_avars
=============================================================================
