---------------------------- MODULE MCFutureLive ----------------------------
(***************************************************************************)
(* Liveness of futures on both execution contexts: programs with timeouts  *)
(* on goroutines, and chains of bodies and maps on a pool of one worker,   *)
(* whose queue everything waits in.  A behaviour has one context.          *)
(***************************************************************************)
EXTENDS Future

VARIABLE context
allVars == <<context, vars>>

Pooled == INSTANCE Future WITH Pool <- 1, Made <- {"body", "map"}

MCInit == \/ context = "goroutines" /\ Init
          \/ context = "pool" /\ Pooled!Init
OnGoroutines == context = "goroutines" /\ Next /\ UNCHANGED context
OnPool == context = "pool" /\ Pooled!Next /\ UNCHANGED context
MCNext == OnGoroutines \/ OnPool

\* The fairness of Future, of the context of the behaviour.
MCSpec ==
  /\ MCInit /\ [][MCNext]_allVars
  /\ \A p \in Futures, r \in Roles : WF_allVars(context = "goroutines" /\ Step(p, r) /\ UNCHANGED context)
  /\ \A p \in Futures : WF_allVars(context = "goroutines" /\ ~crashed /\ SubmitTimer(p) /\ UNCHANGED context)
  /\ \A p \in Pooled!Futures, r \in {"body", "stage"} :
       WF_allVars(context = "pool" /\ Pooled!Step(p, r) /\ UNCHANGED context)

\* Every future completes, on either context, unless the user leaves a promise
\* open for ever (future.gala:26).
FuturesComplete == /\ context = "goroutines" => EventuallyCompletes
                   /\ context = "pool" => Pooled!EventuallyCompletes
=============================================================================
