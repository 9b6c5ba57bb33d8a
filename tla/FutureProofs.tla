---------------------------- MODULE FutureProofs ----------------------------
(***************************************************************************)
(* Proofs about module Future, for any number of futures, with or without  *)
(* a pool of any size, and for any mix of combinators.                     *)
(***************************************************************************)
EXTENDS Future, TLAPS

\* Which tasks a future has follows from how it was made.
ShapeInv ==
    \A p \in Futures :
        /\ ~Exists(p) => ~Done(p) /\ parent[p] = None
        /\ Done(p) => Exists(result[p].by)
        /\ pc[p]["body"] # "none" => kind[p] = "body"
        /\ pc[p]["user"] # "none" => kind[p] = "promise"
        /\ pc[p]["stage"] # "none" => kind[p] \in Stages
        /\ pc[p]["stage"] = "chaining" => inner[p] # None
        /\ pc[p]["inner"] # "none" => inner[p] # None /\ pc[p]["stage"] = "ended"
        /\ pc[p]["copy"] # "none" => kind[p] = "timeout"
        /\ pc[p]["timer"] # "none" => kind[p] = "timeout"
        /\ inner[p] # None => kind[p] \in Binding /\ inner[p] \in Futures
        /\ kind[p] \in Stages \cup {"timeout"} => parent[p] \in Futures
        /\ parent[p] # None => Exists(parent[p]) /\ parent[p] # p
        /\ kind[p] \notin Stages => token[p] = p

\* Only a stage's own task hands over, only a timer cancels.
PcInv ==
    \A p \in Futures, r \in Roles :
        /\ pc[p][r] \in {"handling", "chaining"} => r = "stage"
        /\ pc[p][r] \in {"unsubmitted", "cancelling"} => r = "timer"
        /\ pc[p][r] \in {"handling", "chaining", "completing", "closing", "cancelling"}
              => local[p][r] # None
        /\ pc[p][r] \in {"none", "unsubmitted", "queued", "ready"} => local[p][r] = None
        /\ local[p][r] # None => Exists(local[p][r].by)

\* What each task may hold.
LocalInv ==
    \A p \in Futures :
        /\ local[p]["body"] \in {None, Ok(p), Err(p)}
        /\ local[p]["user"] \in {None, Ok(p), Err(p)}
        /\ inner[p] # None => local[p]["stage"] # None
        /\ local[p]["stage"] # None => parent[p] \in closed
        /\ pc[p]["stage"] = "handling" => local[p]["stage"] = result[parent[p]]
        /\ local[p]["inner"] # None =>
              inner[p] \in closed /\ local[p]["inner"] = result[inner[p]]
        /\ local[p]["copy"] # None =>
              parent[p] \in closed /\ local[p]["copy"] = result[parent[p]]
        /\ local[p]["timer"] \in {None, TimedOut(p)}

\* Whose result a completed future holds: the once lets nobody else in.
ResultInv ==
    /\ \A f \in closed : Done(f)
    /\ \A p \in Futures, r \in Roles :
          pc[p][r] \in {"closing", "cancelling"} => Done(p)
    /\ \A p \in Futures :
          /\ inner[p] # None => pc[p]["stage"] \in {"chaining", "ended"}
          /\ Done(p) =>
                /\ kind[p] = "body" => result[p] = local[p]["body"]
                /\ kind[p] = "promise" => result[p] = local[p]["user"]
                /\ kind[p] = "timeout" => result[p] \in {local[p]["copy"], local[p]["timer"]}
                /\ kind[p] \in Stages /\ inner[p] = None =>
                      /\ result[p] = local[p]["stage"]
                      /\ pc[p]["stage"] \in {"closing", "ended"}
                /\ kind[p] \in Stages /\ inner[p] # None =>
                      result[p] = local[p]["inner"]

\* A boundary check that comes after the cancellation sees it.
CancelInv ==
    /\ \A p \in Futures, r \in Roles :
          local[p][r] # None /\ local[p][r].tag = "cancelled"
             => token[local[p][r].by] \in cancelled
    /\ \A f \in Futures :
          Done(f) /\ result[f].tag = "cancelled" => token[result[f].by] \in cancelled
    /\ \A p \in Futures :
          local[p]["stage"] # None /\ CancelledWithin(parent[p], p) =>
             /\ local[p]["stage"] = Cancelled(p)
             /\ pc[p]["stage"] \in {"completing", "closing", "ended"}
             /\ inner[p] = None

\* A stage that only handles successes hands a failure on.
FailureInv ==
    \A p \in Futures :
        /\ local[p]["stage"] # None /\ kind[p] \in {"map", "filter", "flatMap"}
        /\ result[parent[p]].tag # "ok"
        => /\ local[p]["stage"] \in {result[parent[p]], Cancelled(p)}
           /\ inner[p] = None

\* Why a token is cancelled; a timer fails its future before it cancels.
ScopeInv ==
    /\ \A k \in cancelled :
          \/ k \in asked
          \/ \E q \in Futures :
                /\ kind[q] = "timeout"
                /\ token[parent[q]] = k
                /\ local[q]["timer"] = TimedOut(q)
                /\ Done(q)
    /\ DeadlineIsNotACancellation

IInv ==
    /\ TypeOK /\ ShapeInv /\ PcInv /\ LocalInv /\ ResultInv /\ CancelInv
    /\ FailureInv /\ ScopeInv

-----------------------------------------------------------------------------
\* What the four kinds of Try are.
LEMMA TryFacts ==
    \A p \in Futures :
        /\ Ok(p) \in Try /\ Ok(p).tag = "ok" /\ Ok(p).by = p /\ Ok(p) # None
        /\ Err(p) \in Try /\ Err(p).tag = "error" /\ Err(p).by = p /\ Err(p) # None
        /\ Cancelled(p) \in Try /\ Cancelled(p).tag = "cancelled"
        /\ Cancelled(p).by = p /\ Cancelled(p) # None
        /\ TimedOut(p) \in Try /\ TimedOut(p).tag = "timeout"
        /\ TimedOut(p).by = p /\ TimedOut(p) # None
  BY FutureAssumption DEF Ok, Err, Cancelled, TimedOut, Try

\* Nothing is known yet of a future that has not been made.
LEMMA NotMade ==
    ASSUME TypeOK, ShapeInv, PcInv, NEW p \in Futures, NEW r \in Roles, ~Exists(p)
    PROVE  /\ pc[p][r] = "none" /\ local[p][r] = None
           /\ result[p] = None /\ parent[p] = None /\ inner[p] = None
           /\ token[p] = p
<1> USE FutureAssumption DEF Exists, Done, AllKinds, Stages, Inline, Binding
<1>1. inner[p] = None /\ result[p] = None /\ parent[p] = None /\ token[p] = p
  BY DEF ShapeInv
<1>2. pc[p][r] = "none"
  BY <1>1 DEF ShapeInv, Roles
<1> QED
  BY <1>1, <1>2 DEF PcInv

\* Execute leaves a queue of tasks.
LEMMA EnqueueType ==
    ASSUME TypeOK, NEW p \in Futures, NEW r \in Roles, Enqueue(p, r)
    PROVE  queue' \in Seq(Tasks)
<1>1. <<p, r>> \in Tasks
  BY DEF Tasks
<1> QED
  BY <1>1 DEF Enqueue, TypeOK

\* An inline handler hands its input on or answers for itself; a failure goes
\* through the stages that only handle successes.
LEMMA OutcomeFacts ==
    ASSUME NEW k, NEW p \in Futures, NEW r, NEW x \in Outcomes(k, p, r)
    PROVE  /\ x \in {r, Ok(p), Err(p)}
           /\ k \in {"map", "filter", "flatMap"} /\ r.tag # "ok" => x = r
<1>1. CASE ~CallsUser(k, r)
  BY <1>1 DEF Outcomes
<1>2. CASE CallsUser(k, r)
  BY <1>2 DEF Outcomes, CallsUser, IsOk
<1> QED
  BY <1>1, <1>2

\* The state before the first future is made satisfies the invariant.
LEMMA InitIInv == Init => IInv
<1> SUFFICES ASSUME Init PROVE IInv
  OBVIOUS
<1> USE FutureAssumption DEF Init, Exists, Done
<1>1. TypeOK
  <2>1. queue \in Seq(Tasks)
    OBVIOUS
  <2>2. pc \in [Futures -> [Roles -> PCs]]
    BY DEF PCs
  <2>3. local \in [Futures -> [Roles -> Try \cup {None}]]
    OBVIOUS
  <2> QED
    BY <2>1, <2>2, <2>3 DEF TypeOK
<1>2. ShapeInv
  <2> SUFFICES ASSUME NEW p \in Futures PROVE ShapeInv!(p)
    BY DEF ShapeInv
  <2>1. \A r \in Roles : pc[p][r] = "none"
    OBVIOUS
  <2> QED
    BY <2>1 DEF Roles, AllKinds, Stages, Inline, Binding
<1>3. PcInv /\ LocalInv /\ ResultInv
  BY DEF PcInv, LocalInv, ResultInv, Roles
<1>4. CancelInv /\ FailureInv /\ ScopeInv
  BY DEF CancelInv, FailureInv, ScopeInv, Roles, AllKinds, Stages, Inline,
     Binding, DeadlineIsNotACancellation
<1> QED
  BY <1>1, <1>2, <1>3, <1>4 DEF IInv

\* MakePromise preserves the inductive invariant.
LEMMA MakePromiseIInv ==
    ASSUME IInv, NEW p \in Futures, MakePromise(p)
    PROVE  IInv'
<1> USE FutureAssumption, TryFacts DEF
     IInv, futures, Exists, Done, Roles, AllKinds, Stages, Inline, Binding
<1>m. /\ ~Exists(p) /\ p \notin closed
      /\ \A s \in Roles : pc[p][s] = "none" /\ local[p][s] = None
      /\ result[p] = None /\ parent[p] = None /\ inner[p] = None /\ token[p] = p
      /\ \A q \in Futures : parent[q] # p
  BY NotMade DEF MakePromise, Fresh, ShapeInv, ResultInv
<1>a. \A q \in Futures : kind'[q] = IF q = p THEN "promise" ELSE kind[q]
  BY DEF MakePromise, TypeOK
<1>1. TypeOK'
  BY <1>a, <1>m DEF MakePromise, TypeOK, PCs, Submitted
<1>2. ShapeInv'
  BY <1>a, <1>m DEF MakePromise, ShapeInv, PcInv, Binding, Stages, Inline
<1>3. PcInv'
  BY <1>a, <1>m DEF MakePromise, ShapeInv, PcInv
<1>4. LocalInv'
  BY <1>a, <1>m DEF MakePromise, ShapeInv, PcInv, LocalInv, ResultInv
<1>5. ResultInv'
  BY <1>a, <1>m DEF
       MakePromise, ShapeInv, PcInv, LocalInv, ResultInv, Binding, Stages,
       Inline
<1>6. CancelInv'
  BY <1>a, <1>m DEF
       MakePromise, ShapeInv, PcInv, LocalInv, ResultInv, CancelInv,
       CancelledWithin
<1>7. FailureInv'
  BY <1>a, <1>m DEF
       MakePromise, ShapeInv, PcInv, LocalInv, ResultInv, FailureInv,
       Binding, Stages, Inline
<1>8. ScopeInv'
  BY <1>a, <1>m DEF
       MakePromise, ShapeInv, PcInv, LocalInv, ResultInv, CancelInv,
       ScopeInv, DeadlineIsNotACancellation
<1> QED
  BY <1>1, <1>2, <1>3, <1>4, <1>5, <1>6, <1>7, <1>8

\* MakeBody preserves the inductive invariant.
LEMMA MakeBodyIInv ==
    ASSUME IInv, NEW p \in Futures, MakeBody(p)
    PROVE  IInv'
<1> USE FutureAssumption, TryFacts DEF
     IInv, futures, Exists, Done, Roles, AllKinds, Stages, Inline, Binding,
     Submitted
<1>m. /\ ~Exists(p) /\ p \notin closed
      /\ \A s \in Roles : pc[p][s] = "none" /\ local[p][s] = None
      /\ result[p] = None /\ parent[p] = None /\ inner[p] = None /\ token[p] = p
      /\ \A q \in Futures : parent[q] # p
  BY NotMade DEF MakeBody, Fresh, ShapeInv, ResultInv
<1>a. /\ \A q \in Futures : kind'[q] = IF q = p THEN "body" ELSE kind[q]
      /\ \A q \in Futures, s \in Roles :
            pc'[q][s] = IF q = p /\ s = "body" THEN Submitted ELSE pc[q][s]
  BY DEF MakeBody, TypeOK
<1>1. TypeOK'
  <2>1. queue' \in Seq(Tasks)
    BY EnqueueType DEF MakeBody
  <2> QED
    BY <2>1 DEF MakeBody, TypeOK, PCs, AllKinds, Stages, Inline, Binding
<1>2. ShapeInv'
  BY <1>a, <1>m DEF MakeBody, ShapeInv, PcInv, Binding, Stages, Inline
<1>3. PcInv'
  BY <1>a, <1>m DEF MakeBody, ShapeInv, PcInv
<1>4. LocalInv'
  BY <1>a, <1>m DEF MakeBody, ShapeInv, PcInv, LocalInv, ResultInv
<1>5. ResultInv'
  BY <1>a, <1>m DEF
       MakeBody, ShapeInv, PcInv, LocalInv, ResultInv, Binding, Stages,
       Inline
<1>6. CancelInv'
  BY <1>a, <1>m DEF
       MakeBody, ShapeInv, PcInv, LocalInv, ResultInv, CancelInv,
       CancelledWithin
<1>7. FailureInv'
  BY <1>a, <1>m DEF
       MakeBody, ShapeInv, PcInv, LocalInv, ResultInv, FailureInv, Binding,
       Stages, Inline
<1>8. ScopeInv'
  BY <1>a, <1>m DEF
       MakeBody, ShapeInv, PcInv, LocalInv, ResultInv, CancelInv, ScopeInv,
       DeadlineIsNotACancellation
<1> QED
  BY <1>1, <1>2, <1>3, <1>4, <1>5, <1>6, <1>7, <1>8

\* MakeStage preserves the inductive invariant.
LEMMA MakeStageIInv ==
    ASSUME IInv, NEW p \in Futures, MakeStage(p)
    PROVE  IInv'
<1> USE FutureAssumption, TryFacts DEF
     IInv, futures, Exists, Done, Roles, AllKinds, Stages, Inline, Binding,
     Submitted
<1>m. /\ ~Exists(p) /\ p \notin closed
      /\ \A s \in Roles : pc[p][s] = "none" /\ local[p][s] = None
      /\ result[p] = None /\ parent[p] = None /\ inner[p] = None /\ token[p] = p
      /\ \A q \in Futures : parent[q] # p
  BY NotMade DEF MakeStage, Fresh, ShapeInv, ResultInv
<1>k. PICK k \in Made \cap Stages, f \in Futures :
            /\ Exists(f)
            /\ kind' = [kind EXCEPT ![p] = k]
            /\ parent' = [parent EXCEPT ![p] = f]
            /\ token' = [token EXCEPT ![p] = token[f]]
  BY DEF MakeStage
<1>a. /\ \A q \in Futures : kind'[q] = IF q = p THEN k ELSE kind[q]
      /\ \A q \in Futures : parent'[q] = IF q = p THEN f ELSE parent[q]
      /\ \A q \in Futures : token'[q] = IF q = p THEN token[f] ELSE token[q]
      /\ \A q \in Futures, s \in Roles :
            pc'[q][s] = IF q = p /\ s = "stage" THEN Submitted ELSE pc[q][s]
  BY <1>k DEF MakeStage, TypeOK
<1>1. TypeOK'
  <2>1. queue' \in Seq(Tasks)
    BY EnqueueType DEF MakeStage
  <2> QED
    BY <2>1, <1>k DEF MakeStage, TypeOK, PCs, AllKinds, Stages, Inline, Binding
<1>2. ShapeInv'
  BY <1>a, <1>m, <1>k DEF MakeStage, ShapeInv, PcInv, Binding, Stages, Inline
<1>3. PcInv'
  BY <1>a, <1>m, <1>k DEF MakeStage, ShapeInv, PcInv
<1>4. LocalInv'
  BY <1>a, <1>m, <1>k DEF MakeStage, ShapeInv, PcInv, LocalInv, ResultInv
<1>5. ResultInv'
  BY <1>a, <1>m, <1>k DEF
       MakeStage, ShapeInv, PcInv, LocalInv, ResultInv, Binding, Stages,
       Inline
<1>6. CancelInv'
  BY SMTT(30), <1>a, <1>m, <1>k DEF
       MakeStage, ShapeInv, PcInv, LocalInv, ResultInv, CancelInv,
       CancelledWithin
<1>7. FailureInv'
  BY <1>a, <1>m, <1>k DEF
       MakeStage, ShapeInv, PcInv, LocalInv, ResultInv, FailureInv, Binding,
       Stages, Inline
<1>8. ScopeInv'
  <2>1. DeadlineIsNotACancellation'
    BY <1>a, <1>m, <1>k DEF
         MakeStage, ShapeInv, PcInv, LocalInv, ResultInv, CancelInv,
         ScopeInv, DeadlineIsNotACancellation
  <2>2. ASSUME NEW t \in cancelled'
        PROVE  \/ t \in asked'
               \/ \E q \in Futures :
                     /\ kind'[q] = "timeout"
                     /\ token'[parent'[q]] = t
                     /\ local'[q]["timer"] = TimedOut(q)
                     /\ Done(q)'
    <3>1. CASE t \in asked
      BY <3>1  DEF MakeStage, ShapeInv
    <3>2. CASE t \notin asked
      <4>1. PICK q \in Futures : /\ kind[q] = "timeout"
                                 /\ token[parent[q]] = t
                                 /\ local[q]["timer"] = TimedOut(q)
                                 /\ Done(q)
        BY <2>2, <3>2  DEF MakeStage, ScopeInv
      <4>2. /\ kind'[q] = "timeout" /\ token'[parent'[q]] = t
            /\ local'[q]["timer"] = TimedOut(q) /\ Done(q)'
        BY <4>1, <1>a, <1>m, <1>k DEF MakeStage, ShapeInv, PcInv, LocalInv
      <4> QED
        BY <4>2
    <3> QED
      BY <3>1, <3>2
  <2> QED
    BY <2>1, <2>2 DEF ScopeInv
<1> QED
  BY <1>1, <1>2, <1>3, <1>4, <1>5, <1>6, <1>7, <1>8

\* MakeTimeout preserves the inductive invariant.
LEMMA MakeTimeoutIInv ==
    ASSUME IInv, NEW p \in Futures, MakeTimeout(p)
    PROVE  IInv'
<1> USE FutureAssumption, TryFacts DEF
     IInv, futures, Exists, Done, Roles, AllKinds, Stages, Inline, Binding,
     Submitted
<1>m. /\ ~Exists(p) /\ p \notin closed
      /\ \A s \in Roles : pc[p][s] = "none" /\ local[p][s] = None
      /\ result[p] = None /\ parent[p] = None /\ inner[p] = None /\ token[p] = p
      /\ \A q \in Futures : parent[q] # p
  BY NotMade DEF MakeTimeout, Fresh, ShapeInv, ResultInv
<1>k. PICK f \in Futures :
            /\ Exists(f)
            /\ kind' = [kind EXCEPT ![p] = "timeout"]
            /\ parent' = [parent EXCEPT ![p] = f]
  BY DEF MakeTimeout
<1>u. /\ inner' = inner /\ token' = token /\ result' = result /\ closed' = closed
      /\ cancelled' = cancelled /\ local' = local /\ crashed' = crashed /\ asked' = asked
  BY DEF MakeTimeout
<1>a. /\ \A q \in Futures : kind'[q] = IF q = p THEN "timeout" ELSE kind[q]
      /\ \A q \in Futures : parent'[q] = IF q = p THEN f ELSE parent[q]
      /\ \A q \in Futures, s \in Roles :
            pc'[q][s] = IF q = p /\ s = "copy" THEN Submitted
                        ELSE IF q = p /\ s = "timer" THEN "unsubmitted" ELSE pc[q][s]
  BY <1>k DEF MakeTimeout, TypeOK
<1>1. TypeOK'
  <2>1. queue' \in Seq(Tasks)
    BY EnqueueType DEF MakeTimeout
  <2>2. PICK h : h = [pc EXCEPT ![p]["copy"] = Submitted]
    OBVIOUS
  <2>3. h \in [Futures -> [Roles -> PCs]]
    BY <2>2 DEF TypeOK, PCs
  <2>4. pc' = [h EXCEPT ![p]["timer"] = "unsubmitted"]
    BY <2>2 DEF MakeTimeout
  <2>5. pc' \in [Futures -> [Roles -> PCs]]
    BY <2>3, <2>4 DEF PCs
  <2> QED
    BY <1>u, <2>1, <2>5, <1>k DEF TypeOK
<1>2. ShapeInv'
  BY <1>a, <1>m, <1>k, <1>u DEF ShapeInv, PcInv, Binding, Stages, Inline
<1>3. PcInv'
  BY <1>a, <1>m, <1>k, <1>u DEF ShapeInv, PcInv
<1>4. LocalInv'
  BY <1>a, <1>m, <1>k, <1>u DEF ShapeInv, PcInv, LocalInv, ResultInv
<1>5. ResultInv'
  BY SMTT(30), <1>a, <1>m, <1>k, <1>u DEF
       ShapeInv, PcInv, LocalInv, ResultInv, Binding, Stages, Inline
<1>6. CancelInv'
  BY SMTT(30), <1>a, <1>m, <1>k, <1>u DEF
       ShapeInv, PcInv, LocalInv, ResultInv, CancelInv, CancelledWithin
<1>7. FailureInv'
  BY <1>a, <1>m, <1>k, <1>u DEF
       ShapeInv, PcInv, LocalInv, ResultInv, FailureInv, Binding, Stages,
       Inline
<1>8. ScopeInv'
  <2>1. DeadlineIsNotACancellation'
    BY SMTT(30), <1>a, <1>m, <1>k, <1>u DEF
         ShapeInv, PcInv, LocalInv, ResultInv, CancelInv, ScopeInv,
         DeadlineIsNotACancellation
  <2>2. ASSUME NEW t \in cancelled'
        PROVE  \/ t \in asked'
               \/ \E q \in Futures :
                     /\ kind'[q] = "timeout"
                     /\ token'[parent'[q]] = t
                     /\ local'[q]["timer"] = TimedOut(q)
                     /\ Done(q)'
    <3>1. CASE t \in asked
      BY <3>1, <1>u
    <3>2. CASE t \notin asked
      <4>1. PICK q \in Futures : /\ kind[q] = "timeout"
                                 /\ token[parent[q]] = t
                                 /\ local[q]["timer"] = TimedOut(q)
                                 /\ Done(q)
        BY <2>2, <3>2, <1>u DEF ScopeInv
      <4>2. /\ kind'[q] = "timeout" /\ token'[parent'[q]] = t
            /\ local'[q]["timer"] = TimedOut(q) /\ Done(q)'
        BY <4>1, <1>a, <1>m, <1>u
      <4> QED
        BY <4>2
    <3> QED
      BY <3>1, <3>2
  <2> QED
    BY <2>1, <2>2 DEF ScopeInv
<1> QED
  BY <1>1, <1>2, <1>3, <1>4, <1>5, <1>6, <1>7, <1>8

\* SubmitTimer preserves the inductive invariant.
LEMMA SubmitTimerIInv ==
    ASSUME IInv, NEW p \in Futures, SubmitTimer(p)
    PROVE  IInv'
<1> USE FutureAssumption, TryFacts DEF
     IInv, futures, Exists, Done, Roles, Submitted
<1>a. \A q \in Futures, s \in Roles :
            pc'[q][s] = IF q = p /\ s = "timer" THEN Submitted ELSE pc[q][s]
  BY DEF SubmitTimer, TypeOK
<1>1. TypeOK'
  <2>1. queue' \in Seq(Tasks)
    BY EnqueueType DEF SubmitTimer
  <2> QED
    BY <2>1 DEF SubmitTimer, TypeOK, PCs, AllKinds, Stages, Inline, Binding
<1>2. ShapeInv'
  BY <1>a DEF SubmitTimer, ShapeInv, PcInv, Binding, Stages, Inline
<1>3. PcInv'
  BY <1>a DEF SubmitTimer, ShapeInv, PcInv
<1>4. LocalInv'
  BY <1>a DEF SubmitTimer, ShapeInv, PcInv, LocalInv, ResultInv
<1>5. ResultInv'
  BY <1>a DEF
       SubmitTimer, ShapeInv, PcInv, LocalInv, ResultInv, Binding, Stages,
       Inline
<1>6. CancelInv'
  BY <1>a DEF
       SubmitTimer, ShapeInv, PcInv, LocalInv, ResultInv, CancelInv,
       CancelledWithin
<1>7. FailureInv'
  BY <1>a DEF
       SubmitTimer, ShapeInv, PcInv, LocalInv, ResultInv, FailureInv,
       Binding, Stages, Inline
<1>8. ScopeInv'
  BY <1>a DEF
       SubmitTimer, ShapeInv, PcInv, LocalInv, ResultInv, CancelInv,
       ScopeInv, DeadlineIsNotACancellation
<1> QED
  BY <1>1, <1>2, <1>3, <1>4, <1>5, <1>6, <1>7, <1>8

\* Cancel preserves the inductive invariant.
LEMMA CancelIInv ==
    ASSUME IInv, NEW p \in Futures, Cancel(p)
    PROVE  IInv'
<1> USE FutureAssumption, TryFacts DEF IInv, futures, Exists, Done, Roles
<1>1. TypeOK'
  BY DEF Cancel, TypeOK, PCs, Submitted
<1>2. ShapeInv'
  BY DEF Cancel, ShapeInv, PcInv, Binding, Stages, Inline
<1>3. PcInv'
  BY DEF Cancel, ShapeInv, PcInv
<1>4. LocalInv'
  BY DEF Cancel, ShapeInv, PcInv, LocalInv, ResultInv
<1>5. ResultInv'
  BY DEF Cancel, ShapeInv, PcInv, LocalInv, ResultInv, Binding, Stages, Inline
<1>6. CancelInv'
  BY DEF
       Cancel, ShapeInv, PcInv, LocalInv, ResultInv, CancelInv,
       CancelledWithin
<1>7. FailureInv'
  BY DEF
       Cancel, ShapeInv, PcInv, LocalInv, ResultInv, FailureInv, Binding,
       Stages, Inline
<1>8. ScopeInv'
  BY DEF
       Cancel, ShapeInv, PcInv, LocalInv, ResultInv, CancelInv, ScopeInv,
       DeadlineIsNotACancellation
<1> QED
  BY <1>1, <1>2, <1>3, <1>4, <1>5, <1>6, <1>7, <1>8

\* UserComplete preserves the inductive invariant.
LEMMA UserCompleteIInv ==
    ASSUME IInv, NEW p \in Futures, UserComplete(p)
    PROVE  IInv'
<1> USE FutureAssumption, TryFacts DEF IInv, futures, Exists, Done, Roles
<1>e. Exists(p)
  BY DEF UserComplete, AllKinds
<1>k. PICK x \in {Ok(p), Err(p)} : local' = [local EXCEPT ![p]["user"] = x]
  BY DEF UserComplete
<1>a. /\ \A q \in Futures, s \in Roles :
            pc'[q][s] = IF q = p /\ s = "user" THEN "completing" ELSE pc[q][s]
      /\ \A q \in Futures, s \in Roles :
            local'[q][s] = IF q = p /\ s = "user" THEN x ELSE local[q][s]
  BY <1>k DEF UserComplete, TypeOK
<1>1. TypeOK'
  BY <1>a, <1>e, <1>k DEF UserComplete, TypeOK, PCs, Submitted
<1>2. ShapeInv'
  BY <1>a, <1>e, <1>k DEF UserComplete, ShapeInv, PcInv, Binding, Stages, Inline
<1>3. PcInv'
  BY <1>a, <1>e, <1>k DEF UserComplete, ShapeInv, PcInv
<1>4. LocalInv'
  BY <1>a, <1>e, <1>k DEF UserComplete, ShapeInv, PcInv, LocalInv, ResultInv
<1>5. ResultInv'
  BY <1>a, <1>e, <1>k DEF
       UserComplete, ShapeInv, PcInv, LocalInv, ResultInv, Binding, Stages,
       Inline
<1>6. CancelInv'
  BY SMTT(30), <1>a, <1>e, <1>k DEF
       UserComplete, ShapeInv, PcInv, LocalInv, ResultInv, CancelInv,
       CancelledWithin
<1>7. FailureInv'
  BY <1>a, <1>e, <1>k DEF
       UserComplete, ShapeInv, PcInv, LocalInv, ResultInv, FailureInv,
       Binding, Stages, Inline
<1>8. ScopeInv'
  BY <1>a, <1>e, <1>k DEF
       UserComplete, ShapeInv, PcInv, LocalInv, ResultInv, CancelInv,
       ScopeInv, DeadlineIsNotACancellation
<1> QED
  BY <1>1, <1>2, <1>3, <1>4, <1>5, <1>6, <1>7, <1>8

\* Start preserves the inductive invariant.
LEMMA StartIInv ==
    ASSUME IInv, NEW p \in Futures, NEW r \in Roles, Start(p, r)
    PROVE  IInv'
<1> USE FutureAssumption, TryFacts DEF IInv, futures, Exists, Done, Roles
<1>e. Exists(p)
  BY NotMade DEF Start
<1>a. \A q \in Futures, s \in Roles :
            pc'[q][s] = IF q = p /\ s = r THEN "ready" ELSE pc[q][s]
  BY DEF Start, TypeOK
<1>1. TypeOK'
  <2>1. queue # <<>> => Tail(queue) \in Seq(Tasks)
    BY DEF TypeOK
  <2>2. queue' \in Seq(Tasks)
    BY <2>1 DEF Start
  <2> QED
    BY <2>2 DEF Start, TypeOK, PCs
<1>2. ShapeInv'
  BY <1>a, <1>e DEF Start, ShapeInv, PcInv, Binding, Stages, Inline
<1>3. PcInv'
  BY <1>a, <1>e DEF Start, ShapeInv, PcInv
<1>4. LocalInv'
  BY <1>a, <1>e DEF Start, ShapeInv, PcInv, LocalInv, ResultInv
<1>5. ResultInv'
  BY <1>a, <1>e DEF
       Start, ShapeInv, PcInv, LocalInv, ResultInv, Binding, Stages, Inline
<1>6. CancelInv'
  BY <1>a, <1>e DEF
       Start, ShapeInv, PcInv, LocalInv, ResultInv, CancelInv,
       CancelledWithin
<1>7. FailureInv'
  BY <1>a, <1>e DEF
       Start, ShapeInv, PcInv, LocalInv, ResultInv, FailureInv, Binding,
       Stages, Inline
<1>8. ScopeInv'
  BY <1>a, <1>e DEF
       Start, ShapeInv, PcInv, LocalInv, ResultInv, CancelInv, ScopeInv,
       DeadlineIsNotACancellation
<1> QED
  BY <1>1, <1>2, <1>3, <1>4, <1>5, <1>6, <1>7, <1>8

\* RunBody preserves the inductive invariant.
LEMMA RunBodyIInv ==
    ASSUME IInv, NEW p \in Futures, RunBody(p)
    PROVE  IInv'
<1> USE FutureAssumption, TryFacts DEF IInv, futures, Exists, Done, Roles
<1>e. Exists(p)
  BY NotMade DEF RunBody
<1>k. PICK x \in {Ok(p), Err(p)} : local' = [local EXCEPT ![p]["body"] = x]
  BY DEF RunBody
<1>a. /\ \A q \in Futures, s \in Roles :
            pc'[q][s] = IF q = p /\ s = "body" THEN "completing" ELSE pc[q][s]
      /\ \A q \in Futures, s \in Roles :
            local'[q][s] = IF q = p /\ s = "body" THEN x ELSE local[q][s]
  BY <1>k DEF RunBody, TypeOK
<1>1. TypeOK'
  BY <1>a, <1>e, <1>k DEF RunBody, TypeOK, PCs, Submitted
<1>2. ShapeInv'
  BY <1>a, <1>e, <1>k DEF RunBody, ShapeInv, PcInv, Binding, Stages, Inline
<1>3. PcInv'
  BY <1>a, <1>e, <1>k DEF RunBody, ShapeInv, PcInv
<1>4. LocalInv'
  BY <1>a, <1>e, <1>k DEF RunBody, ShapeInv, PcInv, LocalInv, ResultInv
<1>5. ResultInv'
  BY <1>a, <1>e, <1>k DEF
       RunBody, ShapeInv, PcInv, LocalInv, ResultInv, Binding, Stages, Inline
<1>6. CancelInv'
  BY SMTT(30), <1>a, <1>e, <1>k DEF
       RunBody, ShapeInv, PcInv, LocalInv, ResultInv, CancelInv,
       CancelledWithin
<1>7. FailureInv'
  BY <1>a, <1>e, <1>k DEF
       RunBody, ShapeInv, PcInv, LocalInv, ResultInv, FailureInv, Binding,
       Stages, Inline
<1>8. ScopeInv'
  BY <1>a, <1>e, <1>k DEF
       RunBody, ShapeInv, PcInv, LocalInv, ResultInv, CancelInv, ScopeInv,
       DeadlineIsNotACancellation
<1> QED
  BY <1>1, <1>2, <1>3, <1>4, <1>5, <1>6, <1>7, <1>8

\* Boundary preserves the inductive invariant.
LEMMA BoundaryIInv ==
    ASSUME IInv, NEW p \in Futures, Boundary(p)
    PROVE  IInv'
<1> USE FutureAssumption, TryFacts DEF IInv, futures, Exists, Done, Roles
<1>e. Exists(p)
  BY NotMade DEF Boundary
<1>o. parent[p] \in Futures /\ Done(parent[p]) /\ result[parent[p]] \in Try
  BY DEF Boundary, ShapeInv, ResultInv, TypeOK
<1>a. /\ \A q \in Futures, s \in Roles :
            pc'[q][s] = IF q = p /\ s = "stage"
                        THEN IF token[p] \in cancelled THEN "completing" ELSE "handling"
                        ELSE pc[q][s]
      /\ \A q \in Futures, s \in Roles :
            local'[q][s] = IF q = p /\ s = "stage"
                           THEN IF token[p] \in cancelled THEN Cancelled(p)
                                ELSE result[parent[p]]
                           ELSE local[q][s]
  BY DEF Boundary, TypeOK
<1>1. TypeOK'
  BY <1>a, <1>e, <1>o DEF Boundary, TypeOK, PCs, Submitted
<1>2. ShapeInv'
  BY <1>a, <1>e, <1>o DEF Boundary, ShapeInv, PcInv, Binding, Stages, Inline
<1>3. PcInv'
  BY <1>a, <1>e, <1>o DEF Boundary, ShapeInv, PcInv
<1>4. LocalInv'
  BY <1>a, <1>e, <1>o DEF Boundary, ShapeInv, PcInv, LocalInv, ResultInv
<1>5. ResultInv'
  BY <1>a, <1>e, <1>o DEF
       Boundary, ShapeInv, PcInv, LocalInv, ResultInv, Binding, Stages,
       Inline
<1>6. CancelInv'
  <2>1. \A q \in Futures, s \in Roles :
            local'[q][s] # None /\ local'[q][s].tag = "cancelled"
              => token'[local'[q][s].by] \in cancelled'
    BY <1>a, <1>e, <1>o DEF
         Boundary, ShapeInv, PcInv, LocalInv, ResultInv, CancelInv,
         CancelledWithin
  <2>2. \A f \in Futures :
            Done(f)' /\ result'[f].tag = "cancelled"
              => token'[result'[f].by] \in cancelled'
    BY <1>a, <1>e, <1>o DEF
         Boundary, ShapeInv, PcInv, LocalInv, ResultInv, CancelInv,
         CancelledWithin
  <2>3. \A q \in Futures :
            local'[q]["stage"] # None /\ CancelledWithin(parent[q], q)' =>
               /\ local'[q]["stage"] = Cancelled(q)
               /\ pc'[q]["stage"] \in {"completing", "closing", "ended"}
               /\ inner'[q] = None
    BY <1>a, <1>e, <1>o DEF
         Boundary, ShapeInv, PcInv, LocalInv, ResultInv, CancelInv,
         CancelledWithin
  <2> QED
    BY <2>1, <2>2, <2>3, <1>e DEF CancelInv, Boundary
<1>7. FailureInv'
  BY <1>a, <1>e, <1>o DEF
       Boundary, ShapeInv, PcInv, LocalInv, ResultInv, FailureInv, Binding,
       Stages, Inline
<1>8. ScopeInv'
  BY <1>a, <1>e, <1>o DEF
       Boundary, ShapeInv, PcInv, LocalInv, ResultInv, CancelInv, ScopeInv,
       DeadlineIsNotACancellation
<1> QED
  BY <1>1, <1>2, <1>3, <1>4, <1>5, <1>6, <1>7, <1>8

\* Handle preserves the inductive invariant.
LEMMA HandleIInv ==
    ASSUME IInv, NEW p \in Futures, Handle(p)
    PROVE  IInv'
<1> USE FutureAssumption, TryFacts DEF IInv, futures, Exists, Done, Roles
<1>e. Exists(p)
  BY NotMade DEF Handle
<1>k. PICK x \in Outcomes(kind[p], p, local[p]["stage"]) :
            local' = [local EXCEPT ![p]["stage"] = x]
  BY DEF Handle
<1>o. /\ x \in {local[p]["stage"], Ok(p), Err(p)}
      /\ kind[p] \in {"map", "filter", "flatMap"} /\ local[p]["stage"].tag # "ok"
            => x = local[p]["stage"]
  BY OutcomeFacts
<1>a. /\ \A q \in Futures, s \in Roles :
            pc'[q][s] = IF q = p /\ s = "stage" THEN "completing" ELSE pc[q][s]
      /\ \A q \in Futures, s \in Roles :
            local'[q][s] = IF q = p /\ s = "stage" THEN x ELSE local[q][s]
  BY <1>k DEF Handle, TypeOK
<1>1. TypeOK'
  <2>1. x \in Try \cup {None}
    BY <1>o DEF TypeOK
  <2> QED
    BY <2>1, <1>k DEF Handle, TypeOK, PCs
<1>2. ShapeInv'
  BY <1>a, <1>e, <1>o DEF Handle, ShapeInv, PcInv, Binding, Stages, Inline
<1>3. PcInv'
  BY <1>a, <1>e, <1>o DEF Handle, ShapeInv, PcInv
<1>4. LocalInv'
  BY <1>a, <1>e, <1>o DEF Handle, ShapeInv, PcInv, LocalInv, ResultInv
<1>5. ResultInv'
  BY <1>a, <1>e, <1>o DEF
       Handle, ShapeInv, PcInv, LocalInv, ResultInv, Binding, Stages, Inline
<1>6. CancelInv'
  <2>1. \A q \in Futures, s \in Roles :
            local'[q][s] # None /\ local'[q][s].tag = "cancelled"
              => token'[local'[q][s].by] \in cancelled'
    BY <1>a, <1>e, <1>o DEF
         Handle, ShapeInv, PcInv, LocalInv, ResultInv, CancelInv,
         CancelledWithin
  <2>2. \A f \in Futures :
            Done(f)' /\ result'[f].tag = "cancelled"
              => token'[result'[f].by] \in cancelled'
    BY <1>a, <1>e, <1>o DEF
         Handle, ShapeInv, PcInv, LocalInv, ResultInv, CancelInv,
         CancelledWithin
  <2>3. \A q \in Futures :
            local'[q]["stage"] # None /\ CancelledWithin(parent[q], q)' =>
               /\ local'[q]["stage"] = Cancelled(q)
               /\ pc'[q]["stage"] \in {"completing", "closing", "ended"}
               /\ inner'[q] = None
    BY <1>a, <1>e, <1>o DEF
         Handle, ShapeInv, PcInv, LocalInv, ResultInv, CancelInv,
         CancelledWithin
  <2> QED
    BY <2>1, <2>2, <2>3, <1>e DEF CancelInv, Handle
<1>7. FailureInv'
  BY <1>a, <1>e, <1>o DEF
       Handle, ShapeInv, PcInv, LocalInv, ResultInv, FailureInv, Binding,
       Stages, Inline
<1>8. ScopeInv'
  BY <1>a, <1>e, <1>o DEF
       Handle, ShapeInv, PcInv, LocalInv, ResultInv, CancelInv, ScopeInv,
       DeadlineIsNotACancellation
<1> QED
  BY <1>1, <1>2, <1>3, <1>4, <1>5, <1>6, <1>7, <1>8

\* BindExisting preserves the inductive invariant.
LEMMA BindExistingIInv ==
    ASSUME IInv, NEW p \in Futures, BindExisting(p)
    PROVE  IInv'
<1> USE FutureAssumption, TryFacts DEF IInv, futures, Exists, Done, Roles
<1>e. Exists(p)
  BY NotMade DEF BindExisting
<1>k. PICK g \in Futures : g < p /\ inner' = [inner EXCEPT ![p] = g]
  BY DEF BindExisting
<1>o. kind[p] \in Binding /\ (kind[p] = "flatMap" => local[p]["stage"].tag = "ok")
  BY DEF BindExisting, Binds, CallsUser, IsOk
<1>a. /\ \A q \in Futures, s \in Roles :
            pc'[q][s] = IF q = p /\ s = "stage" THEN "chaining" ELSE pc[q][s]
      /\ \A q \in Futures : inner'[q] = IF q = p THEN g ELSE inner[q]
  BY <1>k DEF BindExisting, TypeOK
<1>1. TypeOK'
  BY <1>a, <1>e, <1>o DEF BindExisting, TypeOK, PCs, Submitted
<1>2. ShapeInv'
  BY <1>a, <1>e, <1>o DEF BindExisting, ShapeInv, PcInv, Binding, Stages, Inline
<1>3. PcInv'
  BY <1>a, <1>e, <1>o DEF BindExisting, ShapeInv, PcInv
<1>4. LocalInv'
  BY <1>a, <1>e, <1>o DEF BindExisting, ShapeInv, PcInv, LocalInv, ResultInv
<1>5. ResultInv'
  BY <1>a, <1>e, <1>o DEF
       BindExisting, ShapeInv, PcInv, LocalInv, ResultInv, Binding, Stages,
       Inline
<1>6. CancelInv'
  BY <1>a, <1>e, <1>o DEF
       BindExisting, ShapeInv, PcInv, LocalInv, ResultInv, CancelInv,
       CancelledWithin
<1>7. FailureInv'
  BY <1>a, <1>e, <1>o DEF
       BindExisting, ShapeInv, PcInv, LocalInv, ResultInv, FailureInv,
       Binding, Stages, Inline
<1>8. ScopeInv'
  BY <1>a, <1>e, <1>o DEF
       BindExisting, ShapeInv, PcInv, LocalInv, ResultInv, CancelInv,
       ScopeInv, DeadlineIsNotACancellation
<1> QED
  BY <1>1, <1>2, <1>3, <1>4, <1>5, <1>6, <1>7, <1>8

\* BindFresh preserves the inductive invariant.
LEMMA BindFreshIInv ==
    ASSUME IInv, NEW p \in Futures, BindFresh(p)
    PROVE  IInv'
<1> USE FutureAssumption, TryFacts DEF
     IInv, futures, Exists, Done, Roles, AllKinds, Stages, Inline, Binding,
     Submitted
<1>e. Exists(p)
  BY NotMade DEF BindFresh
<1>g. PICK g \in Futures :
            /\ Fresh(g)
            /\ inner' = [inner EXCEPT ![p] = g]
            /\ kind' = [kind EXCEPT ![g] = "body"]
            /\ pc' = [pc EXCEPT ![p]["stage"] = "chaining", ![g]["body"] = Submitted]
            /\ UNCHANGED <<parent, token, result, closed, cancelled, local, crashed, asked>>
  BY DEF BindFresh
<1>o. kind[p] \in Binding /\ (kind[p] = "flatMap" => local[p]["stage"].tag = "ok")
  BY DEF BindFresh, Binds, CallsUser, IsOk
<1>m. /\ ~Exists(g) /\ g \notin closed /\ g # p
      /\ \A s \in Roles : pc[g][s] = "none" /\ local[g][s] = None
      /\ result[g] = None /\ parent[g] = None /\ inner[g] = None /\ token[g] = g
      /\ \A q \in Futures : parent[q] # g
  BY <1>g, <1>e, NotMade DEF Fresh, ShapeInv, ResultInv
<1>u. /\ parent' = parent /\ token' = token /\ result' = result /\ closed' = closed
      /\ cancelled' = cancelled /\ local' = local /\ crashed' = crashed /\ asked' = asked
  BY DEF BindFresh
<1>h. pc[p]["stage"] = "handling" /\ Fresh(g)
  BY <1>g DEF BindFresh
<1>t. /\ \A q \in Futures, s \in Roles : local[q][s] # None => local[q][s].by \in Futures
      /\ \A q \in Futures : Done(q) => result[q].by \in Futures
  BY DEF TypeOK, Try
<1>a. /\ \A q \in Futures, s \in Roles :
            pc'[q][s] = IF q = p /\ s = "stage" THEN "chaining"
                        ELSE IF q = g /\ s = "body" THEN Submitted ELSE pc[q][s]
      /\ \A q \in Futures : inner'[q] = IF q = p THEN g ELSE inner[q]
      /\ \A q \in Futures : kind'[q] = IF q = g THEN "body" ELSE kind[q]
  BY <1>g, <1>m DEF BindFresh, TypeOK
<1>1. TypeOK'
  <2>1. queue' \in Seq(Tasks)
    BY EnqueueType DEF BindFresh
  <2>2. PICK h : h = [pc EXCEPT ![p]["stage"] = "chaining"]
    OBVIOUS
  <2>3. h \in [Futures -> [Roles -> PCs]]
    BY <2>2 DEF TypeOK, PCs
  <2>4. pc' = [h EXCEPT ![g]["body"] = Submitted]
    BY <2>2, <1>g
  <2>5. pc' \in [Futures -> [Roles -> PCs]]
    BY <2>3, <2>4 DEF PCs
  <2>6. kind' \in [Futures -> AllKinds \cup {None}]
    BY <1>g DEF TypeOK, AllKinds
  <2>7. inner' \in [Futures -> Futures \cup {None}]
    BY <1>g DEF TypeOK
  <2> QED
    BY <1>u, <2>1, <2>5, <2>6, <2>7 DEF TypeOK
<1>2. ShapeInv'
  <2> SUFFICES ASSUME NEW q \in Futures PROVE ShapeInv!(q)'
    BY DEF ShapeInv
  <2>1. Done(q)' => Exists(result[q].by)'
    BY <1>a, <1>t, <1>u, <1>m DEF ShapeInv
  <2>2. parent'[q] # None => Exists(parent[q])' /\ parent'[q] # q
    BY <1>a, <1>u, <1>m DEF ShapeInv, TypeOK
  <2>3. CASE q = p
    BY <2>1, <2>2, <2>3, <1>a, <1>e, <1>h, <1>o, <1>m, <1>u DEF ShapeInv
  <2>4. CASE q = g
    BY <2>1, <2>2, <2>4, <1>a, <1>m, <1>u DEF ShapeInv
  <2>5. CASE q # p /\ q # g
    BY <2>1, <2>2, <2>5, <1>a, <1>m, <1>u DEF ShapeInv
  <2> QED
    BY <2>3, <2>4, <2>5
<1>3. PcInv'
  <2> SUFFICES ASSUME NEW q \in Futures, NEW s \in Roles PROVE PcInv!(q, s)'
    BY DEF PcInv
  <2>1. local'[q][s] # None => Exists(local[q][s].by)'
    BY <1>a, <1>t, <1>u, <1>m DEF PcInv
  <2>2. CASE q = p /\ s = "stage"
    <3>1. local'[p]["stage"] # None
      BY <1>h, <1>u DEF PcInv
    <3> QED
      BY <2>1, <2>2, <3>1, <1>a
  <2>3. CASE q = g /\ s = "body"
    BY <2>1, <2>3, <1>a, <1>m, <1>u DEF PcInv
  <2>4. CASE ~(q = p /\ s = "stage") /\ ~(q = g /\ s = "body")
    <3>1. pc'[q][s] = pc[q][s] /\ local'[q][s] = local[q][s]
      BY <2>4, <1>a, <1>u
    <3> QED
      BY <2>1, <3>1 DEF PcInv
  <2> QED
    BY <2>2, <2>3, <2>4
<1>4. LocalInv'
  BY <1>a, <1>e, <1>h, <1>o, <1>m, <1>u DEF ShapeInv, PcInv, LocalInv, ResultInv
<1>5. ResultInv'
  BY SMTT(30), <1>a, <1>e, <1>h, <1>o, <1>m, <1>u DEF
       ShapeInv, PcInv, LocalInv, ResultInv, Binding, Stages, Inline
<1>6. CancelInv'
  BY <1>a, <1>e, <1>h, <1>o, <1>m, <1>u DEF
       ShapeInv, PcInv, LocalInv, ResultInv, CancelInv, CancelledWithin
<1>7. FailureInv'
  BY <1>a, <1>e, <1>h, <1>o, <1>m, <1>u DEF
       ShapeInv, PcInv, LocalInv, ResultInv, FailureInv, Binding, Stages,
       Inline
<1>8. ScopeInv'
  <2>1. DeadlineIsNotACancellation'
    <3> SUFFICES ASSUME NEW q \in Futures,
                        kind'[q] = "timeout", Done(q)', result'[q].tag = "cancelled",
                        token'[result'[q].by] = token'[parent'[q]]
                 PROVE  \/ token'[parent'[q]] \in asked'
                        \/ \E x \in Futures \ {q} :
                              /\ kind'[x] = "timeout"
                              /\ token'[parent'[x]] = token'[parent'[q]]
                              /\ local'[x]["timer"] # None
      BY DEF DeadlineIsNotACancellation
    <3>1. kind[q] = "timeout" /\ q # g
      BY <1>a, <1>m
    <3>2. \/ token[parent[q]] \in asked
          \/ \E x \in Futures \ {q} :
                /\ kind[x] = "timeout"
                /\ token[parent[x]] = token[parent[q]]
                /\ local[x]["timer"] # None
      BY <3>1, <1>u DEF ScopeInv, DeadlineIsNotACancellation
    <3>3. \A x \in Futures : kind[x] = "timeout" => kind'[x] = "timeout"
      BY <1>a, <1>m
    <3> QED
      BY <3>2, <3>3, <1>u
  <2>2. ASSUME NEW k \in cancelled'
        PROVE  \/ k \in asked'
               \/ \E q \in Futures :
                     /\ kind'[q] = "timeout"
                     /\ token'[parent'[q]] = k
                     /\ local'[q]["timer"] = TimedOut(q)
                     /\ Done(q)'
    <3>1. CASE k \in asked
      BY <3>1 , <1>u DEF ShapeInv
    <3>2. CASE k \notin asked
      <4>1. PICK q \in Futures : /\ kind[q] = "timeout"
                                 /\ token[parent[q]] = k
                                 /\ local[q]["timer"] = TimedOut(q)
                                 /\ Done(q)
        BY <2>2, <3>2 , <1>u DEF ScopeInv
      <4>2. /\ kind'[q] = "timeout" /\ token'[parent'[q]] = k
            /\ local'[q]["timer"] = TimedOut(q) /\ Done(q)'
        BY <4>1, <1>a, <1>e, <1>h, <1>o, <1>m, <1>u DEF
             ShapeInv, PcInv, LocalInv
      <4> QED
        BY <4>2
    <3> QED
      BY <3>1, <3>2
  <2> QED
    BY <2>1, <2>2 DEF ScopeInv
<1> QED
  BY <1>1, <1>2, <1>3, <1>4, <1>5, <1>6, <1>7, <1>8

\* Chain preserves the inductive invariant.
LEMMA ChainIInv ==
    ASSUME IInv, NEW p \in Futures, Chain(p)
    PROVE  IInv'
<1> USE FutureAssumption, TryFacts DEF
     IInv, futures, Exists, Done, Roles, Submitted
<1>e. Exists(p)
  BY NotMade DEF Chain
<1>u. /\ kind' = kind /\ parent' = parent /\ inner' = inner /\ token' = token
      /\ result' = result /\ closed' = closed /\ cancelled' = cancelled /\ local' = local
      /\ crashed' = crashed /\ asked' = asked
  BY DEF Chain
<1>o. /\ pc[p]["stage"] = "chaining" /\ kind[p] \in Stages /\ inner[p] # None
      /\ local[p]["inner"] = None
  BY DEF Chain, ShapeInv, PcInv, ResultInv
<1>a. \A q \in Futures, s \in Roles :
            pc'[q][s] = IF q = p /\ s = "stage" THEN "ended"
                        ELSE IF q = p /\ s = "inner" THEN Submitted ELSE pc[q][s]
  BY DEF Chain, TypeOK
<1>1. TypeOK'
  <2>1. queue' \in Seq(Tasks)
    BY EnqueueType DEF Chain
  <2>2. PICK h : h = [pc EXCEPT ![p]["stage"] = "ended"]
    OBVIOUS
  <2>3. h \in [Futures -> [Roles -> PCs]]
    BY <2>2 DEF TypeOK, PCs
  <2>4. pc' = [h EXCEPT ![p]["inner"] = Submitted]
    BY <2>2 DEF Chain
  <2>5. pc' \in [Futures -> [Roles -> PCs]]
    BY <2>3, <2>4 DEF PCs
  <2> QED
    BY <1>u, <2>1, <2>5 DEF TypeOK
<1>2. ShapeInv'
  BY <1>a, <1>e, <1>u, <1>o DEF ShapeInv, PcInv, Binding, Stages, Inline
<1>3. PcInv'
  BY <1>a, <1>e, <1>u, <1>o DEF ShapeInv, PcInv
<1>4. LocalInv'
  BY <1>a, <1>e, <1>u, <1>o DEF ShapeInv, PcInv, LocalInv, ResultInv
<1>5. ResultInv'
  BY SMTT(30), <1>a, <1>e, <1>u, <1>o DEF
       ShapeInv, PcInv, LocalInv, ResultInv, Binding, Stages, Inline
<1>6. CancelInv'
  BY <1>a, <1>e, <1>u, <1>o DEF
       ShapeInv, PcInv, LocalInv, ResultInv, CancelInv, CancelledWithin
<1>7. FailureInv'
  BY <1>a, <1>e, <1>u, <1>o DEF
       ShapeInv, PcInv, LocalInv, ResultInv, FailureInv, Binding, Stages,
       Inline
<1>8. ScopeInv'
  BY <1>a, <1>e, <1>u, <1>o DEF
       ShapeInv, PcInv, LocalInv, ResultInv, CancelInv, ScopeInv,
       DeadlineIsNotACancellation
<1> QED
  BY <1>1, <1>2, <1>3, <1>4, <1>5, <1>6, <1>7, <1>8

\* Relay preserves the inductive invariant.
LEMMA RelayIInv ==
    ASSUME IInv, NEW p \in Futures, NEW r \in Roles, Relay(p, r)
    PROVE  IInv'
<1> USE FutureAssumption, TryFacts DEF IInv, futures, Exists, Done, Roles
<1>e. Exists(p)
  BY NotMade DEF Relay
<1>o. /\ Source(p, r) \in Futures /\ Done(Source(p, r))
      /\ result[Source(p, r)] \in Try
      /\ Source(p, r) = IF r = "inner" THEN inner[p] ELSE parent[p]
  BY DEF Relay, ShapeInv, ResultInv, TypeOK, Source
<1>a. /\ \A q \in Futures, s \in Roles :
            pc'[q][s] = IF q = p /\ s = r THEN "completing" ELSE pc[q][s]
      /\ \A q \in Futures, s \in Roles :
            local'[q][s] = IF q = p /\ s = r THEN result[Source(p, r)] ELSE local[q][s]
  BY DEF Relay, TypeOK
<1>1. TypeOK'
  BY <1>a, <1>e, <1>o DEF Relay, TypeOK, PCs, Submitted
<1>2. ShapeInv'
  BY <1>a, <1>e, <1>o DEF Relay, ShapeInv, PcInv, Binding, Stages, Inline
<1>3. PcInv'
  BY <1>a, <1>e, <1>o DEF Relay, ShapeInv, PcInv
<1>4. LocalInv'
  BY <1>a, <1>e, <1>o DEF Relay, ShapeInv, PcInv, LocalInv, ResultInv
<1>5. ResultInv'
  BY <1>a, <1>e, <1>o DEF
       Relay, ShapeInv, PcInv, LocalInv, ResultInv, Binding, Stages, Inline
<1>6. CancelInv'
  <2>1. \A q \in Futures, s \in Roles :
            local'[q][s] # None /\ local'[q][s].tag = "cancelled"
              => token'[local'[q][s].by] \in cancelled'
    BY <1>a, <1>e, <1>o DEF
         Relay, ShapeInv, PcInv, LocalInv, ResultInv, CancelInv,
         CancelledWithin
  <2>2. \A f \in Futures :
            Done(f)' /\ result'[f].tag = "cancelled"
              => token'[result'[f].by] \in cancelled'
    BY <1>a, <1>e, <1>o DEF
         Relay, ShapeInv, PcInv, LocalInv, ResultInv, CancelInv,
         CancelledWithin
  <2>3. \A q \in Futures :
            local'[q]["stage"] # None /\ CancelledWithin(parent[q], q)' =>
               /\ local'[q]["stage"] = Cancelled(q)
               /\ pc'[q]["stage"] \in {"completing", "closing", "ended"}
               /\ inner'[q] = None
    BY <1>a, <1>e, <1>o DEF
         Relay, ShapeInv, PcInv, LocalInv, ResultInv, CancelInv,
         CancelledWithin
  <2> QED
    BY <2>1, <2>2, <2>3, <1>e DEF CancelInv, Relay
<1>7. FailureInv'
  BY <1>a, <1>e, <1>o DEF
       Relay, ShapeInv, PcInv, LocalInv, ResultInv, FailureInv, Binding,
       Stages, Inline
<1>8. ScopeInv'
  BY SMTT(30), <1>a, <1>e, <1>o DEF
       Relay, ShapeInv, PcInv, LocalInv, ResultInv, CancelInv, ScopeInv,
       DeadlineIsNotACancellation
<1> QED
  BY <1>1, <1>2, <1>3, <1>4, <1>5, <1>6, <1>7, <1>8

\* TimerStopped preserves the inductive invariant.
LEMMA TimerStoppedIInv ==
    ASSUME IInv, NEW p \in Futures, TimerStopped(p)
    PROVE  IInv'
<1> USE FutureAssumption, TryFacts DEF IInv, futures, Exists, Done, Roles
<1>a. \A q \in Futures, s \in Roles :
            pc'[q][s] = IF q = p /\ s = "timer" THEN "ended" ELSE pc[q][s]
  BY DEF TimerStopped, TypeOK
<1>1. TypeOK'
  BY <1>a DEF TimerStopped, TypeOK, PCs, Submitted
<1>2. ShapeInv'
  BY <1>a DEF TimerStopped, ShapeInv, PcInv, Binding, Stages, Inline
<1>3. PcInv'
  BY <1>a DEF TimerStopped, ShapeInv, PcInv
<1>4. LocalInv'
  BY <1>a DEF TimerStopped, ShapeInv, PcInv, LocalInv, ResultInv
<1>5. ResultInv'
  BY <1>a DEF
       TimerStopped, ShapeInv, PcInv, LocalInv, ResultInv, Binding, Stages,
       Inline
<1>6. CancelInv'
  BY <1>a DEF
       TimerStopped, ShapeInv, PcInv, LocalInv, ResultInv, CancelInv,
       CancelledWithin
<1>7. FailureInv'
  BY <1>a DEF
       TimerStopped, ShapeInv, PcInv, LocalInv, ResultInv, FailureInv,
       Binding, Stages, Inline
<1>8. ScopeInv'
  BY <1>a DEF
       TimerStopped, ShapeInv, PcInv, LocalInv, ResultInv, CancelInv,
       ScopeInv, DeadlineIsNotACancellation
<1> QED
  BY <1>1, <1>2, <1>3, <1>4, <1>5, <1>6, <1>7, <1>8

\* TimerFires preserves the inductive invariant.
LEMMA TimerFiresIInv ==
    ASSUME IInv, NEW p \in Futures, TimerFires(p)
    PROVE  IInv'
<1> USE FutureAssumption, TryFacts DEF IInv, futures, Exists, Done, Roles
<1>e. Exists(p)
  BY NotMade DEF TimerFires
<1>a. /\ \A q \in Futures, s \in Roles :
            pc'[q][s] = IF q = p /\ s = "timer" THEN "completing" ELSE pc[q][s]
      /\ \A q \in Futures, s \in Roles :
            local'[q][s] = IF q = p /\ s = "timer" THEN TimedOut(p) ELSE local[q][s]
  BY DEF TimerFires, TypeOK
<1>1. TypeOK'
  BY <1>a, <1>e DEF TimerFires, TypeOK, PCs, Submitted
<1>2. ShapeInv'
  BY <1>a, <1>e DEF TimerFires, ShapeInv, PcInv, Binding, Stages, Inline
<1>3. PcInv'
  BY <1>a, <1>e DEF TimerFires, ShapeInv, PcInv
<1>4. LocalInv'
  BY <1>a, <1>e DEF TimerFires, ShapeInv, PcInv, LocalInv, ResultInv
<1>5. ResultInv'
  BY <1>a, <1>e DEF
       TimerFires, ShapeInv, PcInv, LocalInv, ResultInv, Binding, Stages,
       Inline
<1>6. CancelInv'
  <2>1. \A q \in Futures, s \in Roles :
            local'[q][s] # None /\ local'[q][s].tag = "cancelled"
              => token'[local'[q][s].by] \in cancelled'
    BY <1>a, <1>e DEF
         TimerFires, ShapeInv, PcInv, LocalInv, ResultInv, CancelInv,
       CancelledWithin
  <2>2. \A f \in Futures :
            Done(f)' /\ result'[f].tag = "cancelled"
              => token'[result'[f].by] \in cancelled'
    BY <1>a, <1>e DEF
         TimerFires, ShapeInv, PcInv, LocalInv, ResultInv, CancelInv,
       CancelledWithin
  <2>3. \A q \in Futures :
            local'[q]["stage"] # None /\ CancelledWithin(parent[q], q)' =>
               /\ local'[q]["stage"] = Cancelled(q)
               /\ pc'[q]["stage"] \in {"completing", "closing", "ended"}
               /\ inner'[q] = None
    BY <1>a, <1>e DEF
         TimerFires, ShapeInv, PcInv, LocalInv, ResultInv, CancelInv,
       CancelledWithin
  <2> QED
    BY <2>1, <2>2, <2>3, <1>e DEF CancelInv, TimerFires
<1>7. FailureInv'
  BY <1>a, <1>e DEF
       TimerFires, ShapeInv, PcInv, LocalInv, ResultInv, FailureInv, Binding,
       Stages, Inline
<1>8. ScopeInv'
  BY SMTT(30), <1>a, <1>e DEF
       TimerFires, ShapeInv, PcInv, LocalInv, ResultInv, CancelInv, ScopeInv,
       DeadlineIsNotACancellation
<1> QED
  BY <1>1, <1>2, <1>3, <1>4, <1>5, <1>6, <1>7, <1>8

\* Complete preserves the inductive invariant.
LEMMA CompleteIInv ==
    ASSUME IInv, NEW p \in Futures, NEW r \in Roles, Complete(p, r)
    PROVE  IInv'
<1> USE FutureAssumption, TryFacts DEF IInv, futures, Exists, Done, Roles
<1>e. Exists(p)
  BY NotMade DEF Complete
<1>a. /\ \A q \in Futures, s \in Roles :
            pc'[q][s] = IF q = p /\ s = r THEN "closing" ELSE pc[q][s]
      /\ \A q \in Futures : result'[q] = IF q = p THEN local[p][r] ELSE result[q]
  BY DEF Complete, TypeOK
<1>1. TypeOK'
  BY <1>a, <1>e DEF Complete, TypeOK, PCs, Submitted
<1>2. ShapeInv'
  BY <1>a, <1>e DEF Complete, ShapeInv, PcInv, Binding, Stages, Inline
<1>3. PcInv'
  BY <1>a, <1>e DEF Complete, ShapeInv, PcInv
<1>4. LocalInv'
  BY <1>a, <1>e DEF Complete, ShapeInv, PcInv, LocalInv, ResultInv
<1>5. ResultInv'
  BY <1>a, <1>e DEF
       Complete, ShapeInv, PcInv, LocalInv, ResultInv, Binding, Stages,
       Inline
<1>6. CancelInv'
  BY <1>a, <1>e DEF
       Complete, ShapeInv, PcInv, LocalInv, ResultInv, CancelInv,
       CancelledWithin
<1>7. FailureInv'
  BY <1>a, <1>e DEF
       Complete, ShapeInv, PcInv, LocalInv, ResultInv, FailureInv, Binding,
       Stages, Inline
<1>8. ScopeInv'
  <2>1. DeadlineIsNotACancellation'
    <3> SUFFICES ASSUME NEW q \in Futures,
                        kind[q] = "timeout", Done(q)', result'[q].tag = "cancelled",
                        token[result'[q].by] = token[parent[q]]
                 PROVE  \/ token[parent[q]] \in asked
                        \/ \E x \in Futures \ {q} :
                              /\ kind[x] = "timeout"
                              /\ token[parent[x]] = token[parent[q]]
                              /\ local[x]["timer"] # None
      BY DEF Complete, DeadlineIsNotACancellation
    <3>1. CASE q # p
      BY <3>1, <1>a DEF ScopeInv, DeadlineIsNotACancellation
    <3>2. CASE q = p
      <4>1. result'[p] = local[p][r] /\ ~Done(p) /\ local[p][r] # None
        BY <1>a DEF Complete, PcInv
      <4>2. token[parent[p]] \in cancelled
        BY <3>2, <4>1 DEF CancelInv
      <4> QED
        BY <3>2, <4>1, <4>2 DEF ScopeInv
    <3> QED
      BY <3>1, <3>2
  <2>2. ASSUME NEW k \in cancelled'
        PROVE  \/ k \in asked'
               \/ \E q \in Futures :
                     /\ kind'[q] = "timeout"
                     /\ token'[parent'[q]] = k
                     /\ local'[q]["timer"] = TimedOut(q)
                     /\ Done(q)'
    <3>1. CASE k \in asked
      BY <3>1  DEF Complete, ShapeInv
    <3>2. CASE k \notin asked
      <4>1. PICK q \in Futures : /\ kind[q] = "timeout"
                                 /\ token[parent[q]] = k
                                 /\ local[q]["timer"] = TimedOut(q)
                                 /\ Done(q)
        BY <2>2, <3>2  DEF Complete, ScopeInv
      <4>2. /\ kind'[q] = "timeout" /\ token'[parent'[q]] = k
            /\ local'[q]["timer"] = TimedOut(q) /\ Done(q)'
        BY <4>1, <1>a, <1>e DEF Complete, ShapeInv, PcInv, LocalInv
      <4> QED
        BY <4>2
    <3> QED
      BY <3>1, <3>2
  <2> QED
    BY <2>1, <2>2 DEF ScopeInv
<1> QED
  BY <1>1, <1>2, <1>3, <1>4, <1>5, <1>6, <1>7, <1>8

\* CompleteTooLate preserves the inductive invariant.
LEMMA CompleteTooLateIInv ==
    ASSUME IInv, NEW p \in Futures, NEW r \in Roles, CompleteTooLate(p, r)
    PROVE  IInv'
<1> USE FutureAssumption, TryFacts DEF IInv, futures, Exists, Done, Roles, After
<1>e. Exists(p)
  BY NotMade DEF CompleteTooLate
<1>a. \A q \in Futures, s \in Roles :
            pc'[q][s] = IF q = p /\ s = r THEN After(p, r) ELSE pc[q][s]
  BY DEF CompleteTooLate, TypeOK
<1>1. TypeOK'
  BY <1>a, <1>e DEF CompleteTooLate, TypeOK, PCs, Submitted
<1>2. ShapeInv'
  BY <1>a, <1>e DEF CompleteTooLate, ShapeInv, PcInv, Binding, Stages, Inline
<1>3. PcInv'
  BY <1>a, <1>e DEF CompleteTooLate, ShapeInv, PcInv
<1>4. LocalInv'
  BY <1>a, <1>e DEF CompleteTooLate, ShapeInv, PcInv, LocalInv, ResultInv
<1>5. ResultInv'
  BY <1>a, <1>e DEF
       CompleteTooLate, ShapeInv, PcInv, LocalInv, ResultInv, Binding,
       Stages, Inline
<1>6. CancelInv'
  BY <1>a, <1>e DEF
       CompleteTooLate, ShapeInv, PcInv, LocalInv, ResultInv, CancelInv,
       CancelledWithin
<1>7. FailureInv'
  BY <1>a, <1>e DEF
       CompleteTooLate, ShapeInv, PcInv, LocalInv, ResultInv, FailureInv,
       Binding, Stages, Inline
<1>8. ScopeInv'
  BY <1>a, <1>e DEF
       CompleteTooLate, ShapeInv, PcInv, LocalInv, ResultInv, CancelInv,
       ScopeInv, DeadlineIsNotACancellation
<1> QED
  BY <1>1, <1>2, <1>3, <1>4, <1>5, <1>6, <1>7, <1>8

\* CloseSignal preserves the inductive invariant.
LEMMA CloseSignalIInv ==
    ASSUME IInv, NEW p \in Futures, NEW r \in Roles, CloseSignal(p, r)
    PROVE  IInv'
<1> USE FutureAssumption, TryFacts DEF IInv, futures, Exists, Done, Roles, After
<1>e. Exists(p)
  BY NotMade DEF CloseSignal
<1>a. \A q \in Futures, s \in Roles :
            pc'[q][s] = IF q = p /\ s = r THEN After(p, r) ELSE pc[q][s]
  BY DEF CloseSignal, TypeOK
<1>1. TypeOK'
  BY <1>a, <1>e DEF CloseSignal, TypeOK, PCs, Submitted
<1>2. ShapeInv'
  BY <1>a, <1>e DEF CloseSignal, ShapeInv, PcInv, Binding, Stages, Inline
<1>3. PcInv'
  BY <1>a, <1>e DEF CloseSignal, ShapeInv, PcInv
<1>4. LocalInv'
  BY <1>a, <1>e DEF CloseSignal, ShapeInv, PcInv, LocalInv, ResultInv
<1>5. ResultInv'
  BY <1>a, <1>e DEF
       CloseSignal, ShapeInv, PcInv, LocalInv, ResultInv, Binding, Stages,
       Inline
<1>6. CancelInv'
  BY <1>a, <1>e DEF
       CloseSignal, ShapeInv, PcInv, LocalInv, ResultInv, CancelInv,
       CancelledWithin
<1>7. FailureInv'
  BY <1>a, <1>e DEF
       CloseSignal, ShapeInv, PcInv, LocalInv, ResultInv, FailureInv,
       Binding, Stages, Inline
<1>8. ScopeInv'
  BY <1>a, <1>e DEF
       CloseSignal, ShapeInv, PcInv, LocalInv, ResultInv, CancelInv,
       ScopeInv, DeadlineIsNotACancellation
<1> QED
  BY <1>1, <1>2, <1>3, <1>4, <1>5, <1>6, <1>7, <1>8

\* CancelSource preserves the inductive invariant.
LEMMA CancelSourceIInv ==
    ASSUME IInv, NEW p \in Futures, CancelSource(p)
    PROVE  IInv'
<1> USE FutureAssumption, TryFacts DEF IInv, futures, Exists, Done, Roles
<1>e. Exists(p)
  BY NotMade DEF CancelSource
<1>o. /\ parent[p] \in Futures /\ kind[p] = "timeout" /\ Done(p)
      /\ local[p]["timer"] = TimedOut(p)
  BY DEF CancelSource, ShapeInv, PcInv, LocalInv, ResultInv
<1>a. \A q \in Futures, s \in Roles :
            pc'[q][s] = IF q = p /\ s = "timer" THEN "ended" ELSE pc[q][s]
  BY DEF CancelSource, TypeOK
<1>1. TypeOK'
  BY <1>a, <1>e, <1>o DEF CancelSource, TypeOK, PCs, Submitted
<1>2. ShapeInv'
  BY <1>a, <1>e, <1>o DEF CancelSource, ShapeInv, PcInv, Binding, Stages, Inline
<1>3. PcInv'
  BY <1>a, <1>e, <1>o DEF CancelSource, ShapeInv, PcInv
<1>4. LocalInv'
  BY <1>a, <1>e, <1>o DEF CancelSource, ShapeInv, PcInv, LocalInv, ResultInv
<1>5. ResultInv'
  BY <1>a, <1>e, <1>o DEF
       CancelSource, ShapeInv, PcInv, LocalInv, ResultInv, Binding, Stages,
       Inline
<1>6. CancelInv'
  BY <1>a, <1>e, <1>o DEF
       CancelSource, ShapeInv, PcInv, LocalInv, ResultInv, CancelInv,
       CancelledWithin
<1>7. FailureInv'
  BY <1>a, <1>e, <1>o DEF
       CancelSource, ShapeInv, PcInv, LocalInv, ResultInv, FailureInv,
       Binding, Stages, Inline
<1>8. ScopeInv'
  BY <1>a, <1>e, <1>o DEF
       CancelSource, ShapeInv, PcInv, LocalInv, ResultInv, CancelInv,
       ScopeInv, DeadlineIsNotACancellation
<1> QED
  BY <1>1, <1>2, <1>3, <1>4, <1>5, <1>6, <1>7, <1>8

\* A stage that handed over had read its parent's result before.
LEMMA HandedOver ==
    ASSUME IInv, NEW p \in Futures, inner[p] # None
    PROVE  local[p]["stage"] # None
  BY DEF IInv, LocalInv

\* The panic that ends the process changes nothing the invariant speaks of.
LEMMA PanicIInv ==
    ASSUME IInv, NEW p \in Futures, Panic(p)
    PROVE  IInv'
  BY DEF Panic, futures, IInv, TypeOK, ShapeInv, PcInv, LocalInv, ResultInv,
     CancelInv, FailureInv, ScopeInv, DeadlineIsNotACancellation,
     CancelledWithin, Exists, Done

\* So does a stuttering step.
LEMMA StutterIInv == IInv /\ UNCHANGED vars => IInv'
  BY DEF vars, futures, IInv, TypeOK, ShapeInv, PcInv, LocalInv, ResultInv,
     CancelInv, FailureInv, ScopeInv, DeadlineIsNotACancellation,
     CancelledWithin, Exists, Done

\* Every step preserves the inductive invariant.
LEMMA NextIInv == IInv /\ [Next]_vars => IInv'
<1> SUFFICES ASSUME IInv, [Next]_vars PROVE IInv'
  OBVIOUS
<1>1. ASSUME NEW p \in Futures, Client(p) PROVE IInv'
  BY <1>1, MakePromiseIInv, MakeBodyIInv, MakeStageIInv, MakeTimeoutIInv,
     CancelIInv, UserCompleteIInv DEF Client
<1>2. ASSUME NEW p \in Futures, SubmitTimer(p) PROVE IInv'
  BY <1>2, SubmitTimerIInv
<1>3. ASSUME NEW p \in Futures, Panic(p) PROVE IInv'
  BY <1>3, PanicIInv
<1>4. ASSUME NEW p \in Futures, NEW r \in Roles, Task(p, r) PROVE IInv'
  <2>1. CASE Start(p, r) \/ Relay(p, r) \/ Complete(p, r)
                \/ CompleteTooLate(p, r) \/ CloseSignal(p, r)
    BY <2>1, StartIInv, RelayIInv, CompleteIInv, CompleteTooLateIInv,
       CloseSignalIInv
  <2>2. CASE RunBody(p) \/ Boundary(p) \/ Handle(p) \/ BindExisting(p)
                \/ BindFresh(p) \/ Chain(p)
    BY <2>2, RunBodyIInv, BoundaryIInv, HandleIInv, BindExistingIInv,
       BindFreshIInv, ChainIInv
  <2>3. CASE TimerStopped(p) \/ TimerFires(p) \/ CancelSource(p)
    BY <2>3, TimerStoppedIInv, TimerFiresIInv, CancelSourceIInv
  <2> QED
    BY <1>4, <2>1, <2>2, <2>3 DEF Task
<1>5. CASE UNCHANGED vars
  BY <1>5, StutterIInv
<1> QED
  BY <1>1, <1>2, <1>3, <1>4, <1>5 DEF Next, Step

\* The inductive invariant holds in every reachable state.
THEOREM InvariantHolds == Spec => []IInv
  BY InitIInv, NextIInv, PTL DEF Spec

\* The variables keep their types, whatever the number of futures and workers.
THEOREM FutureTypeOK == Spec => []TypeOK
<1>1. IInv => TypeOK
  BY DEF IInv
<1> QED
  BY <1>1, InvariantHolds, PTL

\* A stage derived from one that was cancelled is cancelled too: no recover
\* in the same scope can turn a CancellationError back into a value.
THEOREM FutureCancellationSpreads == Spec => []CancellationSpreads
<1>1. IInv => CancellationSpreads
  <2> SUFFICES ASSUME IInv, NEW p \in Futures, kind[p] \in Stages, Done(p),
                      CancelledWithin(parent[p], p)
               PROVE  result[p] = Cancelled(p)
    BY DEF CancellationSpreads
  <2>1. CASE inner[p] = None
    <3>1. result[p] = local[p]["stage"] /\ local[p]["stage"] # None
      BY <2>1 DEF IInv, ResultInv, Done
    <3> QED
      BY <3>1 DEF IInv, CancelInv
  <2>2. CASE inner[p] # None
    <3>1. local[p]["stage"] # None
      BY <2>2, HandedOver DEF IInv
    <3> QED
      BY <2>2, <3>1 DEF IInv, CancelInv
  <2> QED
    BY <2>1, <2>2
<1> QED
  BY <1>1, InvariantHolds, PTL

\* A token is only cancelled by Cancel or by a deadline of its own scope.
THEOREM FutureCancellationStays == Spec => []CancellationStays
<1>1. IInv => CancellationStays
  BY DEF IInv, ScopeInv, CancelInv, CancellationStays
<1> QED
  BY <1>1, InvariantHolds, PTL

\* A binding stage answers what the future it handed over to answered, and a
\* WithTimeout what its source answered, unless its own deadline passed.
THEOREM FutureAnswersItsSource == Spec => []AnswersItsSource
<1>1. IInv => AnswersItsSource
  <2> SUFFICES ASSUME IInv, NEW p \in Futures, Done(p)
               PROVE  /\ inner[p] # None =>
                            inner[p] \in closed /\ result[p] = result[inner[p]]
                      /\ kind[p] = "timeout" =>
                            \/ result[p] = TimedOut(p)
                            \/ parent[p] \in closed /\ result[p] = result[parent[p]]
    BY DEF AnswersItsSource
  <2>1. inner[p] # None => inner[p] \in closed /\ result[p] = result[inner[p]]
    BY DEF IInv, ShapeInv, ResultInv, LocalInv, Done, Stages
  <2>2. kind[p] = "timeout" =>
            \/ result[p] = TimedOut(p)
            \/ parent[p] \in closed /\ result[p] = result[parent[p]]
    BY DEF IInv, ResultInv, LocalInv, Done
  <2> QED
    BY <2>1, <2>2
<1> QED
  BY <1>1, InvariantHolds, PTL

\* A failure reaches the end of a chain of Map, Filter and FlatMap unchanged,
\* or as the CancellationError of the stage that was stopped.
THEOREM FutureFailurePropagates == Spec => []FailurePropagates
<1>1. IInv => FailurePropagates
  <2> SUFFICES ASSUME IInv, NEW p \in Futures, Done(p),
                      kind[p] \in {"map", "filter", "flatMap"},
                      result[parent[p]].tag # "ok"
               PROVE  result[p] \in {result[parent[p]], Cancelled(p)}
    BY DEF FailurePropagates
  <2>1. kind[p] \in Stages
    BY DEF Stages, Inline, Binding
  <2>2. CASE inner[p] = None
    BY <2>1, <2>2 DEF IInv, ResultInv, FailureInv, Done
  <2>3. CASE inner[p] # None
    BY <2>3, HandedOver DEF IInv, FailureInv
  <2> QED
    BY <2>2, <2>3
<1> QED
  BY <1>1, InvariantHolds, PTL

\* WithTimeout never answers the cancellation that its own deadline caused.
THEOREM FutureDeadlineIsNotACancellation == Spec => []DeadlineIsNotACancellation
<1>1. IInv => DeadlineIsNotACancellation
  BY DEF IInv, ScopeInv
<1> QED
  BY <1>1, InvariantHolds, PTL
=============================================================================
