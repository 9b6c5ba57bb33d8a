--------------------------- MODULE PromiseProofs ---------------------------
(***************************************************************************)
(* Proofs about module Promise, for any number of completers and readers.  *)
(* The inductive invariant ties every program counter to what the fields   *)
(* of FutureState hold while a goroutine is there.                         *)
(***************************************************************************)
EXTENDS Promise, TLAPS

Running == {"lock", "drain", "assign", "flag", "unlock", "close", "leave"}
Reading == {"readFlag", "readResult", "runlock"}

\* The once: at most one caller ever runs the body, the others are idle or
\* have lost.
OnceInv ==
    /\ once = "fresh" => \A c \in Completers : pc[c] = "idle"
    /\ once = "running" => \A c \in Completers : pc[c] \in Running \cup {"idle"}
    /\ once = "ran" => \A c \in Completers : pc[c] \in {"idle", "won", "lost"}
    /\ \A c, d \in Completers :
          pc[c] \in Running \cup {"won"} /\ pc[d] \in Running \cup {"won"} => c = d

\* The read-write mutex: the writer is the completer between Lock and Unlock,
\* and it is past Lock only while nobody reads.
MutexInv ==
    /\ \A c \in Completers : writer = c <=> pc[c] \in {"drain", "assign", "flag", "unlock"}
    /\ \A r \in Readers : r \in holders <=> pc[r] \in Reading
    /\ \A c \in Completers : pc[c] \in {"assign", "flag", "unlock"} => holders = {}

\* How far the completion has come.
ProgressInv ==
    /\ closed => complete
    /\ complete => result # None
    /\ once = "fresh" => result = None /\ ~complete /\ ~closed
    /\ once = "ran" => result # None /\ complete /\ closed
    /\ \A c \in Completers :
          /\ pc[c] = "idle" => result # c
          /\ pc[c] \in {"lock", "drain", "assign"} => result = None /\ ~complete /\ ~closed
          /\ pc[c] = "flag" => result = c /\ ~complete /\ ~closed
          /\ pc[c] \in {"unlock", "close"} => result = c /\ complete /\ ~closed
          /\ pc[c] \in {"leave", "won"} => result = c /\ complete /\ closed
          /\ pc[c] = "lost" => result # c /\ once = "ran"

\* What a reader holds in its locals.
ReaderInv ==
    \A r \in Readers :
        /\ pc[r] = "wait" => op[r] # "Value"
        /\ pc[r] = "readFlag" => op[r] = "Value"
        /\ pc[r] \in {"rlock", "readResult", "runlock"} /\ op[r] # "Value" => closed
        /\ pc[r] \in {"readResult", "runlock"} /\ op[r] = "Value" => flag[r] = complete
        /\ pc[r] = "runlock" => value[r] = result
        /\ answer[r] \in Completers => complete /\ answer[r] = result
        /\ pc[r] = "idle" /\ op[r] = "Await" => answer[r] \notin {None, Timeout}
        /\ pc[r] = "idle" /\ op[r] = "AwaitFor" => answer[r] # None

IInv == TypeOK /\ OnceInv /\ MutexInv /\ ProgressInv /\ ReaderInv

-----------------------------------------------------------------------------
\* A new promise satisfies the inductive invariant (newPromiseWith).
LEMMA InitIInv == Init => IInv
  BY PromiseAssumption DEF Init, IInv, TypeOK, OnceInv, MutexInv, ProgressInv,
     ReaderInv, CompleterPCs, ReaderPCs, Reads, Running, Reading

\* Every step of a call of Complete preserves the inductive invariant.
LEMMA CompleteIInv ==
    ASSUME IInv, NEW c \in Completers, Complete(c)
    PROVE  IInv'
<1> USE PromiseAssumption DEF Goto, state, locals, CompleterPCs, ReaderPCs,
        Reads, Running, Reading
<1>1. CASE EnterOnce(c)
  BY <1>1 DEF EnterOnce, IInv, TypeOK, OnceInv, MutexInv, ProgressInv, ReaderInv
<1>2. CASE SkipOnce(c)
  <2>1. TypeOK'
    BY <1>2 DEF SkipOnce, IInv, TypeOK
  <2>2. OnceInv'
    BY <1>2 DEF SkipOnce, IInv, TypeOK, OnceInv, MutexInv, ProgressInv, ReaderInv
  <2>3. MutexInv'
    BY <1>2 DEF SkipOnce, IInv, TypeOK, OnceInv, MutexInv, ProgressInv, ReaderInv
  <2>4. ProgressInv'
    BY <1>2 DEF SkipOnce, IInv, TypeOK, OnceInv, MutexInv, ProgressInv, ReaderInv
  <2>5. ReaderInv'
    BY <1>2 DEF SkipOnce, IInv, TypeOK, OnceInv, MutexInv, ProgressInv, ReaderInv
  <2> QED
    BY <2>1, <2>2, <2>3, <2>4, <2>5 DEF IInv
<1>3. CASE ShutReadersOut(c)
  BY <1>3 DEF ShutReadersOut, IInv, TypeOK, OnceInv, MutexInv, ProgressInv, ReaderInv
<1>4. CASE Lock(c)
  BY <1>4 DEF Lock, IInv, TypeOK, OnceInv, MutexInv, ProgressInv, ReaderInv
<1>5. CASE AssignResult(c)
  BY <1>5 DEF AssignResult, IInv, TypeOK, OnceInv, MutexInv, ProgressInv, ReaderInv
<1>6. CASE SetComplete(c)
  <2>1. TypeOK'
    BY <1>6 DEF SetComplete, IInv, TypeOK
  <2>2. OnceInv'
    BY <1>6 DEF SetComplete, IInv, TypeOK, OnceInv, MutexInv, ProgressInv, ReaderInv
  <2>3. MutexInv'
    BY <1>6 DEF SetComplete, IInv, TypeOK, OnceInv, MutexInv, ProgressInv, ReaderInv
  <2>4. ProgressInv'
    BY <1>6 DEF SetComplete, IInv, TypeOK, OnceInv, MutexInv, ProgressInv, ReaderInv
  <2>5. ReaderInv'
    BY ZenonT(60), <1>6 DEF SetComplete, IInv, TypeOK, OnceInv, MutexInv, ProgressInv, ReaderInv
  <2> QED
    BY <2>1, <2>2, <2>3, <2>4, <2>5 DEF IInv
<1>7. CASE Unlock(c)
  BY <1>7 DEF Unlock, IInv, TypeOK, OnceInv, MutexInv, ProgressInv, ReaderInv
<1>8. CASE CloseSignal(c)
  BY <1>8 DEF CloseSignal, IInv, TypeOK, OnceInv, MutexInv, ProgressInv, ReaderInv
<1>9. CASE LeaveOnce(c)
  BY <1>9 DEF LeaveOnce, IInv, TypeOK, OnceInv, MutexInv, ProgressInv, ReaderInv
<1> QED
  BY <1>1, <1>2, <1>3, <1>4, <1>5, <1>6, <1>7, <1>8, <1>9 DEF Complete

\* Every step of Value, Await and AwaitFor preserves the inductive invariant.
LEMMA ReadIInv ==
    ASSUME IInv, NEW r \in Readers, Call(r) \/ TimerFires(r) \/ Read(r)
    PROVE  IInv'
<1> USE PromiseAssumption DEF Goto, state, locals, CompleterPCs, ReaderPCs,
        Reads, Running, Reading
<1>1. CASE Call(r)
  BY <1>1 DEF Call, IInv, TypeOK, OnceInv, MutexInv, ProgressInv, ReaderInv
<1>2. CASE TimerFires(r)
  <2>1. TypeOK'
    BY <1>2 DEF TimerFires, IInv, TypeOK
  <2>2. OnceInv'
    BY <1>2 DEF TimerFires, IInv, TypeOK, OnceInv
  <2>3. MutexInv'
    BY <1>2 DEF TimerFires, IInv, TypeOK, MutexInv
  <2>4. ProgressInv'
    BY <1>2 DEF TimerFires, IInv, TypeOK, ProgressInv
  <2>5. ReaderInv'
    BY <1>2 DEF TimerFires, IInv, TypeOK, ReaderInv
  <2> QED
    BY <2>1, <2>2, <2>3, <2>4, <2>5 DEF IInv
<1>3. CASE Signalled(r)
  <2>1. TypeOK'
    BY <1>3 DEF Signalled, IInv, TypeOK
  <2>2. OnceInv'
    BY <1>3 DEF Signalled, IInv, TypeOK, OnceInv
  <2>3. MutexInv'
    BY <1>3 DEF Signalled, IInv, TypeOK, MutexInv
  <2>4. ProgressInv'
    BY <1>3 DEF Signalled, IInv, TypeOK, ProgressInv
  <2>5. ReaderInv'
    BY <1>3 DEF Signalled, IInv, TypeOK, ReaderInv
  <2> QED
    BY <2>1, <2>2, <2>3, <2>4, <2>5 DEF IInv
<1>4. CASE RLock(r)
  BY <1>4 DEF RLock, IInv, TypeOK, OnceInv, MutexInv, ProgressInv, ReaderInv
<1>5. CASE ReadFlag(r)
  BY <1>5 DEF ReadFlag, IInv, TypeOK, OnceInv, MutexInv, ProgressInv, ReaderInv
<1>6. CASE ReadResult(r)
  BY <1>6 DEF ReadResult, IInv, TypeOK, OnceInv, MutexInv, ProgressInv, ReaderInv
<1>7. CASE RUnlock(r)
  <2>1. TypeOK'
    BY <1>7 DEF RUnlock, IInv, TypeOK
  <2>2. OnceInv'
    BY <1>7 DEF RUnlock, IInv, TypeOK, OnceInv, MutexInv, ProgressInv, ReaderInv
  <2>3. MutexInv'
    BY <1>7 DEF RUnlock, IInv, TypeOK, OnceInv, MutexInv, ProgressInv, ReaderInv
  <2>4. ProgressInv'
    BY <1>7 DEF RUnlock, IInv, TypeOK, OnceInv, MutexInv, ProgressInv, ReaderInv
  <2>5. ReaderInv'
    BY <1>7 DEF RUnlock, IInv, TypeOK, OnceInv, MutexInv, ProgressInv, ReaderInv
  <2> QED
    BY <2>1, <2>2, <2>3, <2>4, <2>5 DEF IInv
<1> QED
  BY <1>1, <1>2, <1>3, <1>4, <1>5, <1>6, <1>7 DEF Read

\* The inductive invariant holds in every reachable state of a promise.
THEOREM InvariantHolds == Spec => []IInv
<1>1. IInv /\ [Next]_vars => IInv'
  <2> SUFFICES ASSUME IInv, [Next]_vars PROVE IInv'
    OBVIOUS
  <2>1. CASE \E c \in Completers : Complete(c)
    BY <2>1, CompleteIInv
  <2>2. CASE \E r \in Readers : Call(r) \/ TimerFires(r) \/ Read(r)
    BY <2>2, ReadIInv
  <2>3. CASE UNCHANGED vars
    BY <2>3 DEF vars, IInv, TypeOK, OnceInv, MutexInv, ProgressInv, ReaderInv
  <2> QED
    BY <2>1, <2>2, <2>3 DEF Next
<1> QED
  BY InitIInv, <1>1, PTL DEF Spec

\* Every field of FutureState and every local keeps its type.
THEOREM PromiseTypeOK == Spec => []TypeOK
<1>1. IInv => TypeOK
  BY DEF IInv
<1> QED
  BY InvariantHolds, <1>1, PTL

\* At most one Complete returns true, and it is its result that is kept; a
\* Complete that returns false finds the promise completed.
THEOREM PromiseOneWinner == Spec => []OneWinner
<1>1. IInv => OneWinner
  BY PromiseAssumption DEF IInv, TypeOK, ProgressInv, OneWinner
<1> QED
  BY InvariantHolds, <1>1, PTL

\* Neither Value nor Await nor AwaitFor hands out the zero Try.
THEOREM PromiseNoZeroResult == Spec => []NoZeroResult
<1>1. IInv => NoZeroResult
  BY DEF IInv, ReaderInv, NoZeroResult
<1> QED
  BY InvariantHolds, <1>1, PTL

-----------------------------------------------------------------------------
\* Once the promise is complete no step touches its result.
LEMMA ResultKept ==
    ASSUME IInv, Next, complete
    PROVE  complete' /\ result' = result
<1>1. CASE \E c \in Completers : Complete(c)
  <2> PICK c \in Completers : Complete(c)
    BY <1>1
  <2>1. ~AssignResult(c)
    BY DEF IInv, ProgressInv, AssignResult, Goto
  <2> QED
    BY <2>1 DEF Complete, EnterOnce, SkipOnce, ShutReadersOut, Lock,
       SetComplete, Unlock, CloseSignal, LeaveOnce, state
<1>2. CASE \E r \in Readers : Call(r) \/ TimerFires(r) \/ Read(r)
  BY <1>2 DEF Read, Call, TimerFires, Signalled, RLock, ReadFlag, ReadResult,
     RUnlock, state
<1> QED
  BY <1>1, <1>2 DEF Next

\* A reader that holds the result is handed the same one ever after.
THEOREM PromiseResultIsFinal == Spec => ResultIsFinal
<1> DEFINE Kept == \A r \in Readers :
                answer[r] \in Completers => answer'[r] \in {answer[r], Timeout}
<1>1. IInv /\ IInv' /\ [Next]_vars => [Kept]_vars
  <2> SUFFICES ASSUME IInv, IInv', Next, NEW r \in Readers, answer[r] \in Completers
               PROVE  answer'[r] \in {answer[r], Timeout}
    BY DEF vars
  <2>1. complete /\ answer[r] = result
    BY DEF IInv, ReaderInv
  <2>2. complete' /\ result' = result
    BY <2>1, ResultKept
  <2>3. answer'[r] \in Completers => answer'[r] = result'
    BY DEF IInv, ReaderInv
  <2>4. answer'[r] # None
    <3>1. CASE \E c \in Completers : Complete(c)
      BY <3>1, PromiseAssumption DEF Complete, EnterOnce, SkipOnce,
         ShutReadersOut, Lock, AssignResult, SetComplete, Unlock, CloseSignal,
         LeaveOnce, locals
    <3>2. CASE \E s \in Readers : Call(s) \/ TimerFires(s) \/ Read(s)
      <4> PICK s \in Readers : Call(s) \/ TimerFires(s) \/ Read(s)
        BY <3>2
      <4>1. CASE RUnlock(s)
        <5>1. op[s] = "Value" => flag[s] = complete
          BY <4>1 DEF RUnlock, Goto, IInv, ReaderInv
        <5>2. value[s] = result
          BY <4>1 DEF RUnlock, Goto, IInv, ReaderInv
        <5>3. answer' = [answer EXCEPT ![s] = result]
          BY <5>1, <5>2, <4>1, <2>1 DEF RUnlock
        <5>4. answer'[r] \in {answer[r], result}
          BY <5>3 DEF IInv, TypeOK
        <5> QED
          BY <5>4, <2>1, PromiseAssumption
      <4>2. CASE TimerFires(s)
        BY <4>2, PromiseAssumption DEF TimerFires, IInv, TypeOK
      <4>3. CASE Call(s) \/ Signalled(s) \/ RLock(s) \/ ReadFlag(s) \/ ReadResult(s)
        BY <4>3, PromiseAssumption DEF Call, Signalled, RLock, ReadFlag,
           ReadResult, locals
      <4> QED
        BY <4>1, <4>2, <4>3 DEF Read
    <3> QED
      BY <3>1, <3>2 DEF Next
  <2> QED
    BY <2>1, <2>2, <2>3, <2>4 DEF IInv, TypeOK
<1> QED
  BY InvariantHolds, <1>1, PTL DEF Spec, ResultIsFinal

-----------------------------------------------------------------------------
\* A step that changes neither the cell nor an answer is a stutter of the cell.
LEMMA QuietStep ==
    ASSUME complete' = complete, complete => result' = result,
           \A c \in Completers :
              (IF pc'[c] \in {"won", "lost"} THEN pc'[c] ELSE "none") =
              (IF pc[c] \in {"won", "lost"} THEN pc[c] ELSE "none"),
           answer' = answer
    PROVE  UNCHANGED Cell!avars
  BY DEF Cell!avars

\* Every step of a call of Complete is Assign, Answer or a stutter.
LEMMA CompleteRefines ==
    ASSUME IInv, NEW c \in Completers, Complete(c)
    PROVE  [Cell!ANext]_(Cell!avars)
<1> USE PromiseAssumption DEF Goto, state, locals
<1>1. CASE SetComplete(c)
  <2>1. result = c /\ ~complete /\ pc[c] = "flag"
    BY <1>1 DEF SetComplete, IInv, ProgressInv
  <2>2. Cell!Assign(c)
    BY <1>1, <2>1 DEF SetComplete, Cell!Assign, IInv, TypeOK
  <2> QED
    BY <2>2 DEF Cell!ANext
<1>2. CASE SkipOnce(c)
  <2>1. complete /\ result # None /\ result # c
    BY <1>2 DEF SkipOnce, IInv, ProgressInv
  <2>2. Cell!Answer(c)
    BY <1>2, <2>1 DEF SkipOnce, Cell!Answer, IInv, TypeOK
  <2> QED
    BY <2>2 DEF Cell!ANext
<1>3. CASE LeaveOnce(c)
  <2>1. complete /\ result = c
    BY <1>3 DEF LeaveOnce, IInv, ProgressInv
  <2>2. Cell!Answer(c)
    BY <1>3, <2>1 DEF LeaveOnce, Cell!Answer, IInv, TypeOK
  <2> QED
    BY <2>2 DEF Cell!ANext
<1>4. CASE AssignResult(c)
  <2>1. ~complete
    BY <1>4 DEF AssignResult, IInv, ProgressInv
  <2> QED
    BY <1>4, <2>1, QuietStep DEF AssignResult, IInv, TypeOK
<1>5. CASE EnterOnce(c) \/ ShutReadersOut(c) \/ Lock(c) \/ Unlock(c) \/ CloseSignal(c)
  BY <1>5, QuietStep DEF EnterOnce, ShutReadersOut, Lock, Unlock, CloseSignal,
     IInv, TypeOK
<1> QED
  BY <1>1, <1>2, <1>3, <1>4, <1>5 DEF Complete

\* Every step of a reader is Observe, GiveUp or a stutter: what Value, Await
\* and AwaitFor return is what the cell holds when they release the lock.
LEMMA ReadRefines ==
    ASSUME IInv, NEW r \in Readers, Call(r) \/ TimerFires(r) \/ Read(r)
    PROVE  [Cell!ANext]_(Cell!avars)
<1> USE PromiseAssumption DEF Goto, state, locals
<1>1. CASE RUnlock(r)
  <2>1. pc[r] = "runlock" /\ value[r] = result
    BY <1>1 DEF RUnlock, IInv, ReaderInv
  <2>2. op[r] = "Value" => flag[r] = complete
    BY <2>1 DEF IInv, ReaderInv
  <2>3. op[r] # "Value" => complete
    BY <2>1 DEF IInv, ReaderInv, ProgressInv
  <2>4. answer' = [answer EXCEPT ![r] = IF complete THEN result ELSE None]
    BY <1>1, <2>1, <2>2, <2>3 DEF RUnlock, IInv, TypeOK
  <2>5. \A c \in Completers : pc'[c] = pc[c]
    BY <1>1 DEF RUnlock, IInv, TypeOK
  <2>6. Cell!Observe(r)
    BY <1>1, <2>4, <2>5 DEF RUnlock, Cell!Observe
  <2> QED
    BY <2>6 DEF Cell!ANext
<1>2. CASE TimerFires(r)
  <2>1. \A c \in Completers : pc'[c] = pc[c]
    BY <1>2 DEF TimerFires, IInv, TypeOK
  <2>2. Cell!GiveUp(r)
    BY <1>2, <2>1 DEF TimerFires, Cell!GiveUp
  <2> QED
    BY <2>2 DEF Cell!ANext
<1>3. CASE Call(r) \/ Signalled(r) \/ RLock(r) \/ ReadFlag(r) \/ ReadResult(r)
  <2>1. \A c \in Completers : pc'[c] = pc[c]
    BY <1>3 DEF Call, Signalled, RLock, ReadFlag, ReadResult, IInv, TypeOK
  <2> QED
    BY <1>3, <2>1, QuietStep DEF Call, Signalled, RLock, ReadFlag, ReadResult
<1> QED
  BY <1>1, <1>2, <1>3 DEF Read

\* A Promise with its lock, once and signal implements the single-assignment
\* cell, whatever the number of goroutines.
THEOREM PromiseImplementsCell == Spec => ImplementsCell
<1>1. Init => Cell!AInit
  BY DEF Init, Cell!AInit
<1>2. IInv /\ [Next]_vars => [Cell!ANext]_(Cell!avars)
  <2> SUFFICES ASSUME IInv, [Next]_vars PROVE [Cell!ANext]_(Cell!avars)
    OBVIOUS
  <2>1. CASE \E c \in Completers : Complete(c)
    BY <2>1, CompleteRefines
  <2>2. CASE \E r \in Readers : Call(r) \/ TimerFires(r) \/ Read(r)
    BY <2>2, ReadRefines
  <2>3. CASE UNCHANGED vars
    BY <2>3 DEF vars, Cell!avars
  <2> QED
    BY <2>1, <2>2, <2>3 DEF Next
<1> QED
  BY InvariantHolds, <1>1, <1>2, PTL DEF Spec, ImplementsCell, Cell!ASpec

=============================================================================
