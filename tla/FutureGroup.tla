---------------------------- MODULE FutureGroup ----------------------------
(***************************************************************************)
(* Sequence, FirstCompletedOf and Race (concurrent/future.gala): one       *)
(* future made from an array of futures.                                   *)
(*                                                                         *)
(* The members complete by themselves, or, when they are stages, are       *)
(* stopped once their token is cancelled; module Future says how.  Each    *)
(* position of the array gets a callback, and the callbacks run beside     *)
(* each other and beside the loop that registers them.  Completing a       *)
(* promise is one step here (see module Promise).                          *)
(***************************************************************************)
EXTENDS Naturals, Sequences

CONSTANTS Sources,  \* futures
          Size,     \* bound: the length of the longest array
          Ops,      \* the functions that may be called
          None      \* no result, no position

\* A Try of a member; the name of the member that produced it stands for the
\* value or the error.
Try == [tag : {"ok", "error", "cancelled"}, by : Sources]
\* The Success of Sequence.
Array == [tag : {"ok"}, values : Seq(Sources)]

ASSUME FutureGroupAssumption ==
    /\ Size \in Nat
    /\ Ops \subseteq {"sequence", "firstCompletedOf", "race"}
    /\ None \notin Sources \cup Nat \cup Try \cup Array

VARIABLES
    op,         \* the function called
    futures,    \* its argument
    token,      \* the members' cancellation tokens
    result,     \* the members' results
    cancelled,  \* the tokens that are cancelled
    asked,      \* history: those that the user cancelled
    registered, \* how many positions have their callback
    pc,         \* where the callback of each position is
    local,      \* r: the Try it was called with
    group,      \* the result of the promise p
    mu,         \* Sequence: the position whose callback holds the mutex
    remaining,  \* Sequence: the variables its callbacks share
    failed,
    resultMap,
    seen,       \* Sequence: what a callback read of them to update them
    target      \* Race: how many members the winner has cancelled

members == <<op, futures, token>>
shared == <<mu, remaining, failed, resultMap, seen>>
vars == <<members, result, cancelled, asked, registered, pc, local, group,
          shared, target>>

Positions == 1..Len(futures)
EmptyMap == [i \in Positions |-> None]

Init ==
    /\ op \in Ops
    /\ futures \in UNION {[1..n -> Sources] : n \in 0..Size}
    /\ token \in {t \in [Sources -> Sources] : \A s \in Sources : t[t[s]] = t[s]}
    /\ result = [s \in Sources |-> None]
    /\ cancelled = {}
    /\ asked = {}
    /\ registered = 0
    /\ pc = [i \in Positions |-> "none"]
    /\ local = [i \in Positions |-> None]
    \* Sequence of an empty array is FutureOf(EmptyArray).
    /\ group = IF op = "sequence" /\ futures = <<>>
               THEN [tag |-> "ok", values |-> <<>>] ELSE None
    /\ mu = None
    /\ remaining = Len(futures)
    /\ failed = FALSE
    /\ resultMap = EmptyMap
    /\ seen = [i \in Positions |-> None]
    /\ target = 0

-----------------------------------------------------------------------------
(* The members and whoever holds them.                                     *)

CompleteSource(s) ==
    /\ result[s] = None
    /\ \E t \in {"ok", "error"} :
          result' = [result EXCEPT ![s] = [tag |-> t, by |-> s]]
    /\ UNCHANGED <<members, cancelled, asked, registered, pc, local, group,
                   shared, target>>

\* The boundary check of a stage finds its token cancelled.
StopSource(s) ==
    /\ result[s] = None
    /\ token[s] \in cancelled
    /\ result' = [result EXCEPT ![s] = [tag |-> "cancelled", by |-> s]]
    /\ UNCHANGED <<members, cancelled, asked, registered, pc, local, group,
                   shared, target>>

\* Mutant: a call of Cancel that does not reach the token.
UserCancelLost(s) ==
    /\ token[s] \notin asked
    /\ asked' = asked \cup {token[s]}
    /\ UNCHANGED <<members, result, cancelled, registered, pc, local, group,
                   shared, target>>

UserCancel(s) ==
    /\ token[s] \notin asked
    /\ cancelled' = cancelled \cup {token[s]}
    /\ asked' = asked \cup {token[s]}
    /\ UNCHANGED <<members, result, registered, pc, local, group, shared, target>>

-----------------------------------------------------------------------------
(* The loop over the array, and the head of every callback.                *)

Register ==
    /\ registered < Len(futures)
    /\ registered' = registered + 1
    /\ pc' = [pc EXCEPT ![registered + 1] = "waiting"]
    /\ UNCHANGED <<members, result, cancelled, asked, local, group, shared, target>>

Wake(i) ==
    /\ pc[i] = "waiting"
    /\ result[futures[i]] # None
    /\ local' = [local EXCEPT ![i] = result[futures[i]]]
    /\ pc' = [pc EXCEPT ![i] = IF op = "sequence" THEN "lock" ELSE "complete"]
    /\ UNCHANGED <<members, result, cancelled, asked, registered, group, shared, target>>

\* Promise.Complete: only the first call has an effect.
Settle(r) == group' = IF group = None THEN r ELSE group

-----------------------------------------------------------------------------
(* FirstCompletedOf and Race.                                              *)

\* Mutant: the members are cancelled first and the promise completed second.
CompleteCancellingFirst(i) ==
    /\ pc[i] = "complete"
    /\ IF op = "race" /\ ~\A j \in Positions : token[futures[j]] \in cancelled
       THEN /\ cancelled' = cancelled \cup {token[futures[j]] : j \in Positions}
            /\ UNCHANGED <<group, pc>>
       ELSE /\ Settle(local[i])
            /\ pc' = [pc EXCEPT ![i] = "ended"]
            /\ UNCHANGED cancelled
    /\ UNCHANGED <<members, result, asked, registered, local, shared, target>>

Complete(i) ==
    /\ pc[i] = "complete"
    /\ Settle(local[i])
    /\ pc' = [pc EXCEPT ![i] =
                 IF op = "race" /\ group = None THEN "cancel" ELSE "ended"]
    /\ UNCHANGED <<members, result, cancelled, asked, registered, local, shared, target>>

\* The winner's loop, which goes over the whole array.
CancelMember(i) ==
    /\ pc[i] = "cancel"
    /\ target < Len(futures)
    /\ target' = target + 1
    /\ cancelled' = cancelled \cup {token[futures[target + 1]]}
    /\ UNCHANGED <<members, result, asked, registered, pc, local, group, shared>>

\* Mutant: the loop stops before the last member.
EndRaceEarly(i) ==
    /\ pc[i] = "cancel"
    /\ target + 1 >= Len(futures)
    /\ pc' = [pc EXCEPT ![i] = "ended"]
    /\ UNCHANGED <<members, result, cancelled, asked, registered, local, group,
                   shared, target>>

EndRace(i) ==
    /\ pc[i] = "cancel"
    /\ target = Len(futures)
    /\ pc' = [pc EXCEPT ![i] = "ended"]
    /\ UNCHANGED <<members, result, cancelled, asked, registered, local, group,
                   shared, target>>

-----------------------------------------------------------------------------
(* Sequence.                                                               *)

Branch(i) ==
    IF failed THEN "unlock" ELSE IF local[i].tag = "ok" THEN "read" ELSE "fail"

\* Mutant: the shared variables are not guarded.
LockMissing(i) ==
    /\ pc[i] = "lock"
    /\ pc' = [pc EXCEPT ![i] = Branch(i)]
    /\ UNCHANGED <<members, result, cancelled, asked, registered, local, group,
                   shared, target>>

Lock(i) ==
    /\ pc[i] = "lock"
    /\ mu = None
    /\ mu' = i
    /\ pc' = [pc EXCEPT ![i] = Branch(i)]
    /\ UNCHANGED <<members, result, cancelled, asked, registered, local, group,
                   remaining, failed, resultMap, seen, target>>

\* The two updates read the shared variables and then write them.
Read(i) ==
    /\ pc[i] = "read"
    /\ seen' = [seen EXCEPT ![i] = [map |-> resultMap, left |-> remaining]]
    /\ pc' = [pc EXCEPT ![i] = "write"]
    /\ UNCHANGED <<members, result, cancelled, asked, registered, local, group,
                   mu, remaining, failed, resultMap, target>>

\* Mutant: results are put in the order in which they come.
WriteAsTheyCome(i) ==
    /\ pc[i] = "write"
    /\ resultMap' = [seen[i].map EXCEPT ![Len(futures) - seen[i].left + 1] = local[i].by]
    /\ remaining' = seen[i].left - 1
    /\ pc' = [pc EXCEPT ![i] = IF remaining' = 0 THEN "succeed" ELSE "unlock"]
    /\ UNCHANGED <<members, result, cancelled, asked, registered, local, group,
                   mu, failed, seen, target>>

Write(i) ==
    /\ pc[i] = "write"
    /\ resultMap' = [seen[i].map EXCEPT ![i] = local[i].by]
    /\ remaining' = seen[i].left - 1
    /\ pc' = [pc EXCEPT ![i] = IF remaining' = 0 THEN "succeed" ELSE "unlock"]
    /\ UNCHANGED <<members, result, cancelled, asked, registered, local, group,
                   mu, failed, seen, target>>

\* The array in order; GetOrElse would put this callback's value in a gap.
Collected(i) ==
    [k \in Positions |-> IF resultMap[k] # None THEN resultMap[k] ELSE local[i].by]

Succeed(i) ==
    /\ pc[i] = "succeed"
    /\ Settle([tag |-> "ok", values |-> Collected(i)])
    /\ pc' = [pc EXCEPT ![i] = "unlock"]
    /\ UNCHANGED <<members, result, cancelled, asked, registered, local, shared, target>>

Fail(i) ==
    /\ pc[i] = "fail"
    /\ failed' = TRUE
    /\ Settle(local[i])
    /\ pc' = [pc EXCEPT ![i] = "unlock"]
    /\ UNCHANGED <<members, result, cancelled, asked, registered, local, mu,
                   remaining, resultMap, seen, target>>

Unlock(i) ==
    /\ pc[i] = "unlock"
    /\ mu' = None
    /\ pc' = [pc EXCEPT ![i] = "ended"]
    /\ UNCHANGED <<members, result, cancelled, asked, registered, local, group,
                   remaining, failed, resultMap, seen, target>>

Callback(i) ==
    \/ Wake(i) \/ Complete(i) \/ CancelMember(i) \/ EndRace(i)
    \/ Lock(i) \/ Read(i) \/ Write(i) \/ Succeed(i) \/ Fail(i) \/ Unlock(i)

Next ==
    \/ \E s \in Sources : CompleteSource(s) \/ StopSource(s) \/ UserCancel(s)
    \/ Register
    \/ \E i \in Positions : Callback(i)

Spec == Init /\ [][Next]_vars

\* The registering loop and every callback run whenever they can; no member
\* has to complete and nobody has to cancel.
FairSpec ==
    /\ Spec
    /\ WF_vars(Register)
    /\ \A i \in 1..Size : WF_vars(i \in Positions /\ Callback(i))

-----------------------------------------------------------------------------
TypeOK ==
    /\ op \in Ops
    /\ futures \in Seq(Sources)
    /\ token \in [Sources -> Sources]
    /\ result \in [Sources -> Try \cup {None}]
    /\ cancelled \subseteq Sources
    /\ asked \subseteq cancelled
    /\ registered \in 0..Len(futures)
    /\ pc \in [Positions -> {"none", "waiting", "complete", "cancel", "lock", "read",
                             "write", "succeed", "fail", "unlock", "ended"}]
    /\ local \in [Positions -> Try \cup {None}]
    /\ group \in Try \cup Array \cup {None}
    /\ mu \in Positions \cup {None}
    /\ remaining \in 0..Len(futures)
    /\ failed \in BOOLEAN
    /\ resultMap \in [Positions -> Sources \cup {None}]
    /\ seen \in [Positions -> {None} \cup [map : [Positions -> Sources \cup {None}],
                                          left : 0..Len(futures)]]
    /\ target \in 0..Len(futures)

Done(i) == result[futures[i]] # None

\* Sequence succeeds with the values of all members, in the order of the array
\* whatever the order they came in, and fails with the failure of a member;
\* the others answer what one of the members answered.
AnswersItsMembers ==
    group # None =>
        IF op = "sequence" /\ group.tag = "ok"
        THEN /\ \A i \in Positions : Done(i) /\ result[futures[i]].tag = "ok"
             /\ group.values = futures
        ELSE \E i \in Positions :
                /\ Done(i) /\ group = result[futures[i]]
                /\ op = "sequence" => group.tag # "ok"

\* Nothing is cancelled before the race is decided, and nothing but members of
\* the race is: without the user's doing no other function cancels, and the
\* race never answers the CancellationError that it has caused itself.
CancelsOnlyAfterTheRace ==
    \A k \in cancelled \ asked :
        /\ op = "race" /\ group # None
        /\ \E i \in Positions : token[futures[i]] = k
        /\ group.tag = "cancelled" => token[group.by] \in asked

\* A Sequence whose members all complete completes, and so do the others, of a
\* non-empty array, when one member does.
GroupCompletes ==
    /\ op = "sequence" /\ (\A i \in Positions : Done(i)) ~> group # None
    /\ op # "sequence" /\ (\E i \in Positions : Done(i)) ~> group # None

\* Race "cancels the losers via their cancellation tokens" (future.gala:607): all
\* but the future that answered.
Raced == op = "race" /\ group # None
Losers == {f \in {futures[i] : i \in Positions} : f # group.by}
LosersAreCancelled ==
    Raced ~> Raced /\ \A f \in Losers : token[f] \in cancelled

\* "the winner's result is kept and every other Future's shared token is
\* cancelled" (future.gala:608-609): unless a loser shares it, the winner's own
\* token is left alone.
WinnerGoesOn ==
    Raced /\ Losers # {} =>
        \/ token[group.by] \notin cancelled \ asked
        \/ \E f \in Losers : token[f] = token[group.by]

\* Every variable has its type, what is answered is what the members answered,
\* and only a decided race cancels (future.gala:543).
AnswerIsRight == TypeOK /\ AnswersItsMembers /\ CancelsOnlyAfterTheRace

\* The result comes when the members' results do, and a decided race cancels
\* the losers (future.gala:621).
GroupEnds == GroupCompletes /\ LosersAreCancelled
=============================================================================
