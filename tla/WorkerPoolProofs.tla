-------------------------- MODULE WorkerPoolProofs --------------------------
(***************************************************************************)
(* Proofs about module WorkerPool, for any number of workers, clients and  *)
(* jobs and any capacity of the channel.                                   *)
(***************************************************************************)
EXTENDS WorkerPool, TLAPS

\* Where a goroutine is says what it carries and, if it is a worker, runs.
LocalInv ==
    /\ \A g \in Goroutines :
          carried[g] # None <=> pc[g] \in {"check", "send"}
    /\ \A w \in Workers : current[w] # None <=> pc[w] \notin {"select", "exited"}
    /\ \A c \in Clients : pc[c] \notin {"select", "exited"}

\* A job that is being submitted is carried by one goroutine.
CarriedInv ==
    /\ \A g, h \in Goroutines :
          carried[g] = carried[h] /\ carried[g] # None => g = h
    /\ \A g \in Goroutines : carried[g] # None => fate[carried[g]] = "carried"

\* Each job is where its fate says, and nowhere twice.
PlaceInv ==
    /\ \A i, k \in 1..Len(tasks) : tasks[i] = tasks[k] => i = k
    /\ \A v, w \in Workers : current[v] = current[w] /\ current[v] # None => v = w
    /\ \A j \in Jobs :
          /\ fate[j] = "pending" <=> \E i \in 1..Len(tasks) : tasks[i] = j
          /\ fate[j] = "running" <=> \E w \in Workers : current[w] = j

\* How far the shutdown has come.
ShutdownInv ==
    /\ shutdown => closed
    /\ \A g \in Goroutines :
          /\ pc[g] = "closeShutdown" => closed
          /\ pc[g] = "closeTasks" => \A w \in Workers : pc[w] = "exited"
    /\ once = "ran" => \A w \in Workers : pc[w] = "exited"
    /\ \A j \in Jobs : fate[j] = "dropped" => closed

IInv == TypeOK /\ LocalInv /\ CarriedInv /\ PlaceInv /\ ShutdownInv

-----------------------------------------------------------------------------
\* A new pool satisfies the inductive invariant (NewFixedPoolEC).
LEMMA InitIInv == Init => IInv
<1> SUFFICES ASSUME Init PROVE IInv
  OBVIOUS
<1>1. TypeOK
  <2>1. <<>> \in Seq(Jobs) /\ Len(<<>>) = 0 /\ 0 <= Capacity
    BY WorkerPoolAssumption
  <2>2. tasks \in Seq(Jobs) /\ Len(tasks) <= Capacity
    BY <2>1 DEF Init
  <2>3. pc \in [Goroutines -> Calls \cup {"select", "exited"}]
    BY DEF Init, Calls
  <2> QED
    BY <2>2, <2>3 DEF Init, TypeOK
<1>2. LocalInv /\ CarriedInv /\ ShutdownInv
  BY WorkerPoolAssumption DEF Init, LocalInv, CarriedInv, ShutdownInv, Goroutines
<1>3. PlaceInv
  BY WorkerPoolAssumption DEF Init, PlaceInv
<1> QED
  BY <1>1, <1>2, <1>3 DEF IInv

\* Every step of Execute and of Shutdown preserves the inductive invariant.
LEMMA GoroutineIInv ==
    ASSUME IInv, NEW g \in Goroutines, CallExecute(g) \/ CallShutdown(g) \/ JoinShutdown(g)
           \/ Execute(g) \/ Shutdown(g)
    PROVE  IInv'
<1> USE WorkerPoolAssumption DEF Goto, Return, channels, Goroutines, Calls, IInv
<1>1. CASE CallExecute(g)
  <2>1. PICK j \in Jobs : /\ fate[j] = "new"
                          /\ fate' = [fate EXCEPT ![j] = "carried"]
                          /\ carried' = [carried EXCEPT ![g] = j]
    BY <1>1 DEF CallExecute, NewJobs, NextJob
  <2>2. TypeOK'
    BY <1>1, <2>1 DEF CallExecute, TypeOK
  <2>3. LocalInv'
    BY <1>1, <2>1 DEF CallExecute, TypeOK, LocalInv
  <2>4. CarriedInv'
    BY <1>1, <2>1 DEF CallExecute, TypeOK, LocalInv, CarriedInv
  <2>5. PlaceInv'
    BY <1>1, <2>1 DEF CallExecute, TypeOK, LocalInv, CarriedInv, PlaceInv
  <2>6. ShutdownInv'
    BY <1>1, <2>1 DEF CallExecute, TypeOK, LocalInv, ShutdownInv
  <2> QED
    BY <2>2, <2>3, <2>4, <2>5, <2>6
<1>2. CASE CallShutdown(g)
  <2>1. TypeOK'
    BY <1>2 DEF CallShutdown, TypeOK
  <2>2. LocalInv'
    BY <1>2 DEF CallShutdown, TypeOK, LocalInv
  <2>3. CarriedInv'
    BY <1>2 DEF CallShutdown, TypeOK, LocalInv, CarriedInv
  <2>4. PlaceInv'
    BY <1>2 DEF CallShutdown, TypeOK, LocalInv, CarriedInv, PlaceInv
  <2>5. ShutdownInv'
    BY <1>2 DEF CallShutdown, TypeOK, LocalInv, ShutdownInv
  <2> QED
    BY <2>1, <2>2, <2>3, <2>4, <2>5
<1>3. CASE JoinShutdown(g)
  <2>1. TypeOK'
    BY <1>3 DEF JoinShutdown, TypeOK
  <2>2. LocalInv'
    BY <1>3 DEF JoinShutdown, TypeOK, LocalInv
  <2>3. CarriedInv'
    BY <1>3 DEF JoinShutdown, TypeOK, LocalInv, CarriedInv
  <2>4. PlaceInv'
    BY <1>3 DEF JoinShutdown, TypeOK, LocalInv, CarriedInv, PlaceInv
  <2>5. ShutdownInv'
    BY <1>3 DEF JoinShutdown, TypeOK, LocalInv, ShutdownInv
  <2> QED
    BY <2>1, <2>2, <2>3, <2>4, <2>5
<1>4. CASE CheckOpen(g)
  <2>1. TypeOK'
    BY <1>4 DEF CheckOpen, TypeOK
  <2>2. LocalInv'
    BY <1>4 DEF CheckOpen, TypeOK, LocalInv
  <2>3. CarriedInv'
    BY <1>4 DEF CheckOpen, TypeOK, LocalInv, CarriedInv
  <2>4. PlaceInv'
    BY <1>4 DEF CheckOpen, TypeOK, LocalInv, CarriedInv, PlaceInv
  <2>5. ShutdownInv'
    BY <1>4 DEF CheckOpen, TypeOK, LocalInv, ShutdownInv
  <2> QED
    BY <2>1, <2>2, <2>3, <2>4, <2>5
<1>5. CASE CheckClosed(g)
  <2>1. TypeOK'
    BY <1>5 DEF CheckClosed, TypeOK
  <2>2. LocalInv'
    BY <1>5 DEF CheckClosed, TypeOK, LocalInv
  <2>3. CarriedInv'
    BY <1>5 DEF CheckClosed, TypeOK, LocalInv, CarriedInv
  <2>4. PlaceInv'
    BY <1>5 DEF CheckClosed, TypeOK, LocalInv, CarriedInv, PlaceInv
  <2>5. ShutdownInv'
    BY <1>5 DEF CheckClosed, TypeOK, LocalInv, ShutdownInv
  <2> QED
    BY <2>1, <2>2, <2>3, <2>4, <2>5
<1>6. CASE Send(g)
  <2>1. TypeOK'
    <3>1. carried[g] \in Jobs
      BY <1>6 DEF Send, TypeOK, LocalInv
    <3>2. tasks' \in Seq(Jobs) /\ Len(tasks') = Len(tasks) + 1
      BY <1>6, <3>1 DEF Send, TypeOK
    <3>3. Len(tasks') <= Capacity
      BY <1>6, <3>2 DEF Send, TypeOK
    <3> QED
      BY <1>6, <3>1, <3>2, <3>3 DEF Send, TypeOK
  <2>2. LocalInv'
    BY <1>6 DEF Send, TypeOK, LocalInv
  <2>3. CarriedInv'
    BY <1>6 DEF Send, TypeOK, LocalInv, CarriedInv
  <2>4. PlaceInv'
    <3> DEFINE n == Len(tasks)
    <3>1. /\ carried[g] \in Jobs /\ fate[carried[g]] = "carried"
          /\ n \in Nat /\ tasks \in Seq(Jobs)
      BY <1>6 DEF Send, TypeOK, LocalInv, CarriedInv
    <3>2. /\ Len(tasks') = n + 1
          /\ \A i \in 1..n : tasks'[i] = tasks[i]
          /\ tasks'[n + 1] = carried[g]
      BY <1>6, <3>1 DEF Send
    <3>3. \A i \in 1..n : tasks[i] # carried[g]
      BY <3>1 DEF PlaceInv
    <3>4. \A i, k \in 1..Len(tasks') : tasks'[i] = tasks'[k] => i = k
      <4> SUFFICES ASSUME NEW i \in 1..(n + 1), NEW k \in 1..(n + 1),
                          tasks'[i] = tasks'[k]
                   PROVE  i = k
        BY <3>2
      <4>1. i \in 1..n \/ i = n + 1
        BY <3>1
      <4>2. k \in 1..n \/ k = n + 1
        BY <3>1
      <4> QED
        BY <4>1, <4>2, <3>2, <3>3 DEF PlaceInv
    <3>5. fate' = [fate EXCEPT ![carried[g]] = "pending"] /\ UNCHANGED current
      BY <1>6 DEF Send
    <3>6. \A j \in Jobs : fate'[j] = "pending" <=> \E i \in 1..Len(tasks') : tasks'[i] = j
      <4> TAKE j \in Jobs
      <4>1. CASE j = carried[g]
        BY <4>1, <3>1, <3>2, <3>5 DEF TypeOK
      <4>2. CASE j # carried[g]
        <5>1. fate'[j] = fate[j]
          BY <4>2, <3>5, <3>1 DEF TypeOK
        <5>2. (\E i \in 1..(n + 1) : tasks'[i] = j) <=> \E i \in 1..n : tasks[i] = j
          BY <4>2, <3>1, <3>2
        <5> QED
          BY <5>1, <5>2, <3>2 DEF PlaceInv
      <4> QED
        BY <4>1, <4>2
    <3>7. \A j \in Jobs : fate'[j] = "running" <=> \E w \in Workers : current'[w] = j
      BY <3>1, <3>5 DEF PlaceInv, TypeOK
    <3>8. \A v, w \in Workers : current'[v] = current'[w] /\ current'[v] # None => v = w
      BY <3>5 DEF PlaceInv
    <3> QED
      BY <3>4, <3>6, <3>7, <3>8 DEF PlaceInv
  <2>5. ShutdownInv'
    BY <1>6 DEF Send, TypeOK, LocalInv, ShutdownInv
  <2> QED
    BY <2>1, <2>2, <2>3, <2>4, <2>5
<1>7. CASE GiveUp(g)
  <2>1. TypeOK'
    BY <1>7 DEF GiveUp, TypeOK
  <2>2. LocalInv'
    BY <1>7 DEF GiveUp, TypeOK, LocalInv
  <2>3. CarriedInv'
    BY <1>7 DEF GiveUp, TypeOK, LocalInv, CarriedInv
  <2>4. PlaceInv'
    BY <1>7 DEF GiveUp, TypeOK, LocalInv, CarriedInv, PlaceInv
  <2>5. ShutdownInv'
    BY <1>7 DEF GiveUp, TypeOK, LocalInv, ShutdownInv
  <2> QED
    BY <2>1, <2>2, <2>3, <2>4, <2>5
<1>8. CASE SendOnClosed(g)
  <2>1. TypeOK'
    BY <1>8 DEF SendOnClosed, TypeOK
  <2>2. LocalInv'
    BY <1>8 DEF SendOnClosed, TypeOK, LocalInv
  <2>3. CarriedInv'
    BY <1>8 DEF SendOnClosed, TypeOK, LocalInv, CarriedInv
  <2>4. PlaceInv'
    BY <1>8 DEF SendOnClosed, TypeOK, LocalInv, CarriedInv, PlaceInv
  <2>5. ShutdownInv'
    BY <1>8 DEF SendOnClosed, TypeOK, LocalInv, ShutdownInv
  <2> QED
    BY <2>1, <2>2, <2>3, <2>4, <2>5
<1>9. CASE SetClosed(g)
  <2>1. TypeOK'
    BY <1>9 DEF SetClosed, TypeOK
  <2>2. LocalInv'
    BY <1>9 DEF SetClosed, TypeOK, LocalInv
  <2>3. CarriedInv'
    BY <1>9 DEF SetClosed, TypeOK, LocalInv, CarriedInv
  <2>4. PlaceInv'
    BY <1>9 DEF SetClosed, TypeOK, LocalInv, CarriedInv, PlaceInv
  <2>5. ShutdownInv'
    BY <1>9 DEF SetClosed, TypeOK, LocalInv, ShutdownInv
  <2> QED
    BY <2>1, <2>2, <2>3, <2>4, <2>5
<1>10. CASE CloseShutdown(g)
  <2>1. TypeOK'
    BY <1>10 DEF CloseShutdown, TypeOK
  <2>2. LocalInv'
    BY <1>10 DEF CloseShutdown, TypeOK, LocalInv
  <2>3. CarriedInv'
    BY <1>10 DEF CloseShutdown, TypeOK, LocalInv, CarriedInv
  <2>4. PlaceInv'
    BY <1>10 DEF CloseShutdown, TypeOK, LocalInv, CarriedInv, PlaceInv
  <2>5. ShutdownInv'
    BY <1>10 DEF CloseShutdown, TypeOK, LocalInv, ShutdownInv
  <2> QED
    BY <2>1, <2>2, <2>3, <2>4, <2>5
<1>11. CASE WaitForWorkers(g)
  <2>1. TypeOK'
    BY <1>11 DEF WaitForWorkers, TypeOK
  <2>2. LocalInv'
    BY <1>11 DEF WaitForWorkers, TypeOK, LocalInv
  <2>3. CarriedInv'
    BY <1>11 DEF WaitForWorkers, TypeOK, LocalInv, CarriedInv
  <2>4. PlaceInv'
    BY <1>11 DEF WaitForWorkers, TypeOK, LocalInv, CarriedInv, PlaceInv
  <2>5. ShutdownInv'
    BY <1>11 DEF WaitForWorkers, TypeOK, LocalInv, ShutdownInv
  <2> QED
    BY <2>1, <2>2, <2>3, <2>4, <2>5
<1>12. CASE CloseTasks(g)
  <2>1. TypeOK'
    BY <1>12 DEF CloseTasks, TypeOK
  <2>2. LocalInv'
    BY <1>12 DEF CloseTasks, TypeOK, LocalInv
  <2>3. CarriedInv'
    BY <1>12 DEF CloseTasks, TypeOK, LocalInv, CarriedInv
  <2>4. PlaceInv'
    BY <1>12 DEF CloseTasks, TypeOK, LocalInv, CarriedInv, PlaceInv
  <2>5. ShutdownInv'
    BY <1>12 DEF CloseTasks, TypeOK, LocalInv, ShutdownInv
  <2> QED
    BY <2>1, <2>2, <2>3, <2>4, <2>5
<1>13. CASE LeaveShutdown(g)
  <2>1. TypeOK'
    BY <1>13 DEF LeaveShutdown, TypeOK
  <2>2. LocalInv'
    BY <1>13 DEF LeaveShutdown, TypeOK, LocalInv
  <2>3. CarriedInv'
    BY <1>13 DEF LeaveShutdown, TypeOK, LocalInv, CarriedInv
  <2>4. PlaceInv'
    BY <1>13 DEF LeaveShutdown, TypeOK, LocalInv, CarriedInv, PlaceInv
  <2>5. ShutdownInv'
    BY <1>13 DEF LeaveShutdown, TypeOK, LocalInv, ShutdownInv
  <2> QED
    BY <2>1, <2>2, <2>3, <2>4, <2>5
<1> QED
  BY <1>1, <1>2, <1>3, <1>4, <1>5, <1>6, <1>7, <1>8, <1>9, <1>10, <1>11, <1>12, <1>13 DEF Execute, Shutdown

\* Every step of a worker preserves the inductive invariant.
LEMMA WorkIInv ==
    ASSUME IInv, NEW w \in Workers, Work(w)
    PROVE  IInv'
<1> USE WorkerPoolAssumption DEF Goto, Return, channels, Goroutines, Calls, IInv
<1>1. CASE Receive(w)
  <2>1. TypeOK'
    BY <1>1 DEF Receive, TypeOK
  <2>2. LocalInv'
    BY <1>1 DEF Receive, TypeOK, LocalInv
  <2>3. CarriedInv'
    <3>1. Head(tasks) = tasks[1] /\ 1 \in 1..Len(tasks) /\ tasks[1] \in Jobs
      BY <1>1 DEF Receive, TypeOK
    <3>2. fate[Head(tasks)] = "pending"
      BY <3>1 DEF PlaceInv
    <3>3. /\ fate' = [fate EXCEPT ![Head(tasks)] = "running"]
          /\ carried' = carried
      BY <1>1 DEF Receive
    <3> QED
      BY <3>1, <3>2, <3>3 DEF TypeOK, CarriedInv
  <2>4. PlaceInv'
    <3> DEFINE n == Len(tasks)
               job == Head(tasks)
    <3>1. /\ n \in Nat \ {0} /\ tasks \in Seq(Jobs)
          /\ job = tasks[1] /\ job \in Jobs
      BY <1>1 DEF Receive, TypeOK
    <3>2. /\ Len(tasks') = n - 1
          /\ \A i \in 1..(n - 1) : tasks'[i] = tasks[i + 1]
      BY <1>1, <3>1 DEF Receive
    <3>3. fate[job] = "pending" /\ current[w] = None
      BY <1>1, <3>1 DEF Receive, LocalInv, PlaceInv
    <3>4. /\ fate' = [fate EXCEPT ![job] = "running"]
          /\ current' = [current EXCEPT ![w] = job]
      BY <1>1 DEF Receive
    <3>5. \A v \in Workers : current[v] # job
      BY <3>1, <3>3 DEF PlaceInv
    <3>6. \A i, k \in 1..Len(tasks') : tasks'[i] = tasks'[k] => i = k
      <4> SUFFICES ASSUME NEW i \in 1..(n - 1), NEW k \in 1..(n - 1),
                          tasks[i + 1] = tasks[k + 1]
                   PROVE  i = k
        BY <3>2
      <4>1. i + 1 \in 1..n /\ k + 1 \in 1..n
        BY <3>1
      <4>2. i + 1 = k + 1
        BY <4>1 DEF PlaceInv
      <4> QED
        BY <4>2, <3>1
    <3>7. \A j \in Jobs : fate'[j] = "pending" <=> \E i \in 1..Len(tasks') : tasks'[i] = j
      <4> TAKE j \in Jobs
      <4>1. CASE j = job
        <5>1. fate'[j] = "running"
          BY <4>1, <3>1, <3>4 DEF TypeOK
        <5>2. \A i \in 1..(n - 1) : tasks[i + 1] # job
          <6> TAKE i \in 1..(n - 1)
          <6>1. i + 1 \in 1..n /\ 1 \in 1..n /\ i + 1 # 1
            BY <3>1
          <6> QED
            BY <6>1, <3>1 DEF PlaceInv
        <5> QED
          BY <5>1, <5>2, <4>1, <3>2
      <4>2. CASE j # job
        <5>1. fate'[j] = fate[j]
          BY <4>2, <3>4, <3>1 DEF TypeOK
        <5>2. ASSUME NEW i \in 1..n, tasks[i] = j
              PROVE  i - 1 \in 1..(n - 1) /\ tasks'[i - 1] = j
          <6>1. i # 1
            BY <5>2, <4>2, <3>1
          <6>2. i - 1 \in 1..(n - 1) /\ (i - 1) + 1 = i
            BY <6>1, <3>1
          <6> QED
            BY <6>2, <3>2, <5>2
        <5>3. ASSUME NEW i \in 1..(n - 1), tasks'[i] = j
              PROVE  i + 1 \in 1..n /\ tasks[i + 1] = j
          BY <5>3, <3>1, <3>2
        <5>4. (\E i \in 1..Len(tasks') : tasks'[i] = j) <=> \E i \in 1..n : tasks[i] = j
          BY <5>2, <5>3, <3>2
        <5> QED
          BY <5>1, <5>4 DEF PlaceInv
      <4> QED
        BY <4>1, <4>2
    <3>8. \A j \in Jobs : fate'[j] = "running" <=> \E v \in Workers : current'[v] = j
      <4> TAKE j \in Jobs
      <4>1. CASE j = job
        BY <4>1, <3>1, <3>4 DEF TypeOK
      <4>2. CASE j # job
        <5>1. fate'[j] = fate[j]
          BY <4>2, <3>4, <3>1 DEF TypeOK
        <5>2. \A v \in Workers : current'[v] = j <=> current[v] = j
          BY <4>2, <3>3, <3>4 DEF TypeOK
        <5> QED
          BY <5>1, <5>2 DEF PlaceInv
      <4> QED
        BY <4>1, <4>2
    <3>9. \A u, v \in Workers : current'[u] = current'[v] /\ current'[u] # None => u = v
      BY <3>4, <3>5 DEF PlaceInv, TypeOK
    <3> QED
      BY <3>6, <3>7, <3>8, <3>9 DEF PlaceInv
  <2>5. ShutdownInv'
    BY <1>1 DEF Receive, TypeOK, LocalInv, ShutdownInv
  <2> QED
    BY <2>1, <2>2, <2>3, <2>4, <2>5
<1>2. CASE Finish(w)
  <2>1. TypeOK'
    BY <1>2 DEF Finish, TypeOK
  <2>2. LocalInv'
    BY <1>2 DEF Finish, TypeOK, LocalInv
  <2>3. CarriedInv'
    BY <1>2 DEF Finish, TypeOK, LocalInv, CarriedInv, PlaceInv
  <2>4. PlaceInv'
    BY <1>2 DEF Finish, TypeOK, LocalInv, CarriedInv, PlaceInv
  <2>5. ShutdownInv'
    BY <1>2 DEF Finish, TypeOK, LocalInv, ShutdownInv
  <2> QED
    BY <2>1, <2>2, <2>3, <2>4, <2>5
<1>3. CASE Exit(w)
  <2>1. TypeOK'
    BY <1>3 DEF Exit, TypeOK
  <2>2. LocalInv'
    BY <1>3 DEF Exit, TypeOK, LocalInv
  <2>3. CarriedInv'
    BY <1>3 DEF Exit, TypeOK, LocalInv, CarriedInv
  <2>4. PlaceInv'
    BY <1>3 DEF Exit, TypeOK, LocalInv, CarriedInv, PlaceInv
  <2>5. ShutdownInv'
    BY <1>3 DEF Exit, TypeOK, LocalInv, ShutdownInv
  <2> QED
    BY <2>1, <2>2, <2>3, <2>4, <2>5
<1> QED
  BY <1>1, <1>2, <1>3 DEF Work

\* The inductive invariant holds in every reachable state of a pool.
THEOREM InvariantHolds == Spec => []IInv
<1>1. IInv /\ [Next]_vars => IInv'
  <2> SUFFICES ASSUME IInv, [Next]_vars PROVE IInv'
    OBVIOUS
  <2>1. CASE \E g \in Goroutines : \/ CallExecute(g) \/ CallShutdown(g)
                                   \/ JoinShutdown(g) \/ Execute(g) \/ Shutdown(g)
    BY <2>1, GoroutineIInv
  <2>2. CASE \E w \in Workers : Work(w)
    BY <2>2, WorkIInv
  <2>3. CASE UNCHANGED vars
    BY <2>3 DEF vars, IInv, TypeOK, LocalInv, CarriedInv, PlaceInv, ShutdownInv
  <2> QED
    BY <2>1, <2>2, <2>3 DEF Next
<1> QED
  BY InitIInv, <1>1, PTL DEF Spec

\* The channel, the workers and the calls keep their types, and the channel
\* never holds more than its capacity.
THEOREM PoolTypeOK == Spec => []TypeOK
<1>1. IInv => TypeOK
  BY DEF IInv
<1> QED
  BY InvariantHolds, <1>1, PTL

\* No accepted job runs twice or disappears from an open pool.
THEOREM PoolRunsOnce == Spec => []RunsOnce
<1>1. IInv => RunsOnce
  BY DEF IInv, PlaceInv, ShutdownInv, RunsOnce
<1> QED
  BY InvariantHolds, <1>1, PTL

\* No job runs after Shutdown has returned.
THEOREM PoolShutdownIsFinal == Spec => []ShutdownIsFinal
<1>1. IInv => ShutdownIsFinal
  BY DEF IInv, LocalInv, ShutdownInv, ShutdownIsFinal
<1> QED
  BY InvariantHolds, <1>1, PTL

=============================================================================
