------------------------- MODULE FutureGroupProofs -------------------------
(***************************************************************************)
(* Proofs about module FutureGroup, for any set of futures, arrays of any  *)
(* length and tokens shared in any way.                                    *)
(***************************************************************************)
EXTENDS FutureGroup, FiniteSetTheorems, TLAPS

\* A result names its future, and is a CancellationError only in a cancelled
\* scope.
ResultInv ==
    \A s \in Sources : result[s] # None =>
        /\ result[s].by = s
        /\ result[s].tag = "cancelled" => token[s] \in cancelled

\* What a callback that was called knows, and where it can be.
PlaceInv ==
    \A i \in Positions :
        /\ pc[i] \notin {"none", "waiting"} => Done(i) /\ local[i] = result[futures[i]]
        /\ pc[i] = "cancel" => op = "race" /\ group # None
        /\ pc[i] \in {"complete", "cancel"} => op # "sequence"
        /\ pc[i] \in {"lock", "read", "write", "succeed", "fail", "unlock"} => op = "sequence"
        /\ pc[i] \in {"read", "write", "succeed"} => local[i].tag = "ok"
        /\ pc[i] = "fail" => local[i].tag # "ok"
        /\ i > registered => pc[i] = "none"

\* The mutex has one holder, and what it has read of the shared variables is
\* what they still are.  The counter counts the positions without a value, each
\* of which its own callback fills, once.
Critical == {"read", "write", "succeed", "fail", "unlock"}
Unfilled == {i \in Positions : resultMap[i] = None}
SharedInv ==
    /\ \A i \in Positions : pc[i] \in Critical => mu = i
    /\ remaining = Cardinality(Unfilled)
    /\ \A i \in Positions :
        /\ resultMap[i] # None =>
              Done(i) /\ result[futures[i]].tag = "ok" /\ resultMap[i] = futures[i]
        /\ pc[i] \in {"none", "waiting", "lock", "read", "write"} => resultMap[i] = None
        /\ pc[i] = "write" => seen[i] = [map |-> resultMap, left |-> remaining]
        /\ pc[i] = "succeed" => remaining = 0

\* Until the race is decided only the user has cancelled, so that a scope whose
\* CancellationError decides it was cancelled by the user.
CancelInv ==
    /\ op # "race" \/ group = None => cancelled \subseteq asked
    /\ op = "race" /\ group # None /\ group.tag = "cancelled" => token[group.by] \in asked

IInv ==
    /\ TypeOK /\ ResultInv /\ PlaceInv /\ SharedInv
    /\ AnswersItsMembers /\ CancelInv /\ CancelsOnlyAfterTheRace

-----------------------------------------------------------------------------
\* The array and the tokens are the ones the function was called with; results,
\* cancellations and the answer stay.
LEMMA Grows ==
    ASSUME IInv, [Next]_vars
    PROVE  /\ op' = op /\ futures' = futures /\ token' = token
           /\ cancelled \subseteq cancelled' /\ asked \subseteq asked'
           /\ \A s \in Sources : result[s] # None => result'[s] = result[s]
           /\ group # None => group' = group
<1> USE DEF members, shared, Settle
<1>1. TypeOK
  BY DEF IInv
<1>2. CASE UNCHANGED vars
  BY <1>2 DEF vars
<1>3. ASSUME NEW s \in Sources, CompleteSource(s) \/ StopSource(s) \/ UserCancel(s)
      PROVE  /\ op' = op /\ futures' = futures /\ token' = token
             /\ cancelled \subseteq cancelled' /\ asked \subseteq asked'
             /\ \A q \in Sources : result[q] # None => result'[q] = result[q]
             /\ group # None => group' = group
  BY <1>1, <1>3 DEF CompleteSource, StopSource, UserCancel, TypeOK
<1>4. CASE Register
  BY <1>4 DEF Register
<1>5. ASSUME NEW i \in Positions, Callback(i)
      PROVE  /\ op' = op /\ futures' = futures /\ token' = token
             /\ cancelled \subseteq cancelled' /\ asked \subseteq asked'
             /\ \A q \in Sources : result[q] # None => result'[q] = result[q]
             /\ group # None => group' = group
  BY <1>5 DEF Callback, Wake, Complete, CancelMember, EndRace, Lock, Read,
              Write, Succeed, Fail, Unlock
<1> QED
  BY <1>2, <1>3, <1>4, <1>5 DEF Next

\* The set of positions is finite, and so are its subsets.
LEMMA PositionsFinite ==
    ASSUME TypeOK
    PROVE  /\ IsFiniteSet(Positions) /\ Cardinality(Positions) = Len(futures)
           /\ Len(futures) \in Nat
           /\ \A i \in Positions : futures[i] \in Sources
<1>1. Len(futures) \in Nat /\ \A i \in Positions : futures[i] \in Sources
  BY DEF TypeOK, Positions
<1>2. IsFiniteSet(Positions) /\ Cardinality(Positions) = Len(futures)
  BY <1>1, FS_Interval DEF Positions
<1> QED
  BY <1>1, <1>2

\* At the start nothing is registered and nothing answered.
LEMMA InitIInv == Init => IInv
<1> SUFFICES ASSUME Init PROVE IInv
  OBVIOUS
<1> USE FutureGroupAssumption
<1>1. futures \in Seq(Sources)
  <2>1. PICK n \in 0..Size : futures \in [1..n -> Sources]
    BY DEF Init
  <2> QED
    BY <2>1
<1>2. Len(futures) \in Nat
  BY <1>1
<1>3. TypeOK
  <2>1. group \in Try \cup Array \cup {None}
    BY <1>1 DEF Init, Array
  <2>2. resultMap \in [Positions -> Sources \cup {None}]
    BY DEF Init, EmptyMap
  <2>3. token \in [Sources -> Sources] /\ result \in [Sources -> Try \cup {None}]
    BY DEF Init
  <2>4. pc \in [Positions -> {"none", "waiting", "complete", "cancel", "lock", "read",
                              "write", "succeed", "fail", "unlock", "ended"}]
    BY DEF Init
  <2>5. local \in [Positions -> Try \cup {None}]
    BY DEF Init
  <2>6. op \in Ops /\ cancelled \subseteq Sources /\ asked \subseteq cancelled
    BY DEF Init
  <2>7. registered \in 0..Len(futures) /\ remaining \in 0..Len(futures) /\ target \in 0..Len(futures)
    BY <1>2 DEF Init
  <2>8. mu \in Positions \cup {None} /\ failed \in BOOLEAN
        /\ seen \in [Positions -> {None} \cup [map : [Positions -> Sources \cup {None}],
                                              left : 0..Len(futures)]]
    BY DEF Init
  <2> QED
    BY <1>1, <2>1, <2>2, <2>3, <2>4, <2>5, <2>6, <2>7, <2>8 DEF TypeOK
<1>4. ResultInv /\ PlaceInv
  BY DEF Init, ResultInv, PlaceInv
<1>5. SharedInv
  <2>1. Unfilled = Positions
    BY DEF Init, Unfilled, EmptyMap
  <2> QED
    BY <1>3, <2>1, PositionsFinite DEF Init, SharedInv, Critical, EmptyMap
<1>6. AnswersItsMembers
  BY <1>2 DEF Init, AnswersItsMembers, Positions
<1>7. CancelInv /\ CancelsOnlyAfterTheRace
  BY DEF Init, CancelInv, CancelsOnlyAfterTheRace
<1> QED
  BY <1>3, <1>4, <1>5, <1>6, <1>7 DEF IInv

\* Members complete, are stopped and are cancelled.
LEMMA MembersIInv ==
    ASSUME IInv, NEW s \in Sources,
           CompleteSource(s) \/ StopSource(s) \/ UserCancel(s)
    PROVE  IInv'
<1> USE FutureGroupAssumption DEF members, shared
<1>1. /\ TypeOK
      /\ UNCHANGED <<op, futures, token, registered, pc, local, group, mu,
                     remaining, failed, resultMap, seen, target>>
      /\ cancelled \subseteq cancelled'
      /\ \A q \in Sources : result[q] # None => result'[q] = result[q]
  BY DEF IInv, TypeOK, CompleteSource, StopSource, UserCancel
<1>2. \A i \in Positions : futures[i] \in Sources
  BY <1>1, PositionsFinite
<1>3. TypeOK'
  <2>1. result' \in [Sources -> Try \cup {None}]
    BY <1>1 DEF CompleteSource, StopSource, UserCancel, TypeOK, Try
  <2>2. cancelled' \subseteq Sources /\ asked' \subseteq cancelled'
    BY <1>1 DEF CompleteSource, StopSource, UserCancel, TypeOK
  <2> QED
    BY <1>1, <2>1, <2>2 DEF TypeOK, Positions
<1>4. ResultInv'
  <2>1. CASE CompleteSource(s)
    BY <1>1, <2>1 DEF CompleteSource, IInv, ResultInv, TypeOK
  <2>2. CASE StopSource(s)
    BY <1>1, <2>2 DEF StopSource, IInv, ResultInv, TypeOK
  <2>3. CASE UserCancel(s)
    BY <1>1, <2>3 DEF UserCancel, IInv, ResultInv
  <2> QED
    BY <2>1, <2>2, <2>3
<1>5. PlaceInv'
  BY <1>1, <1>2 DEF IInv, PlaceInv, Positions, Done
<1>6. SharedInv'
  <2>1. Unfilled' = Unfilled
    BY <1>1 DEF Unfilled, Positions
  <2> QED
    BY <1>1, <1>2, <2>1 DEF IInv, SharedInv, Positions, Done
<1>7. AnswersItsMembers'
  BY <1>1, <1>2 DEF IInv, AnswersItsMembers, Positions, Done
<1>8. CancelInv'
  BY <1>1 DEF IInv, CancelInv, CompleteSource, StopSource, UserCancel
<1>9. CancelsOnlyAfterTheRace'
  BY <1>1, <1>2 DEF IInv, CancelsOnlyAfterTheRace, Positions, CompleteSource,
                    StopSource, UserCancel
<1> QED
  BY <1>3, <1>4, <1>5, <1>6, <1>7, <1>8, <1>9 DEF IInv

\* The loop registers the callback of the next position.
LEMMA RegisterIInv ==
    ASSUME IInv, Register
    PROVE  IInv'
<1> USE DEF members, shared
<1>1. /\ TypeOK
      /\ UNCHANGED <<op, futures, token, result, cancelled, asked, local, group,
                     mu, remaining, failed, resultMap, seen, target>>
  BY DEF IInv, Register
<1>2. Len(futures) \in Nat
  BY <1>1 DEF TypeOK
<1>3. /\ registered + 1 \in Positions /\ registered' = registered + 1
      /\ pc[registered + 1] = "none"
      /\ pc' = [pc EXCEPT ![registered + 1] = "waiting"]
  BY <1>1, <1>2 DEF Register, TypeOK, Positions, IInv, PlaceInv
<1>4. TypeOK'
  BY <1>1, <1>2, <1>3 DEF TypeOK, Positions
<1>5. PlaceInv'
  BY <1>1, <1>2, <1>3 DEF IInv, PlaceInv, Positions, Done, TypeOK
<1>6. SharedInv'
  <2>1. Unfilled' = Unfilled
    BY <1>1 DEF Unfilled, Positions
  <2> QED
    BY <1>1, <1>3, <2>1 DEF IInv, SharedInv, Positions, Done, TypeOK, Critical
<1>7. ResultInv' /\ CancelInv' /\ AnswersItsMembers' /\ CancelsOnlyAfterTheRace'
  BY <1>1 DEF IInv, ResultInv, CancelInv, AnswersItsMembers,
              CancelsOnlyAfterTheRace, Positions, Done
<1> QED
  BY <1>4, <1>5, <1>6, <1>7 DEF IInv
\* The callbacks of every function: they are called with the member's result.
LEMMA WakeIInv ==
    ASSUME IInv, NEW i \in Positions, Wake(i)
    PROVE  IInv'
<1> USE DEF members, shared
<1>1. /\ TypeOK
      /\ UNCHANGED <<op, futures, token, result, cancelled, asked, registered,
                     group, mu, remaining, failed, resultMap, seen, target>>
  BY DEF IInv, Wake
<1>2. /\ pc[i] = "waiting" /\ Done(i)
      /\ local' = [local EXCEPT ![i] = result[futures[i]]]
      /\ pc' = [pc EXCEPT ![i] = IF op = "sequence" THEN "lock" ELSE "complete"]
  BY DEF Wake, Done
<1>3. futures[i] \in Sources
  BY <1>1, PositionsFinite
<1>4. TypeOK'
  BY <1>1, <1>2, <1>3 DEF TypeOK, Positions
<1>5. PlaceInv'
  BY <1>1, <1>2 DEF IInv, PlaceInv, Positions, Done, TypeOK
<1>6. SharedInv'
  <2>1. Unfilled' = Unfilled
    BY <1>1 DEF Unfilled, Positions
  <2> QED
    BY <1>1, <1>2, <2>1 DEF IInv, SharedInv, Positions, Done, TypeOK, Critical
<1>7. ResultInv' /\ CancelInv' /\ AnswersItsMembers' /\ CancelsOnlyAfterTheRace'
  BY <1>1 DEF IInv, ResultInv, CancelInv, AnswersItsMembers,
              CancelsOnlyAfterTheRace, Positions, Done
<1> QED
  BY <1>4, <1>5, <1>6, <1>7 DEF IInv

\* The first member decides, and the winner of a race cancels the others.
LEMMA RaceIInv ==
    ASSUME IInv, NEW i \in Positions, Complete(i) \/ CancelMember(i) \/ EndRace(i)
    PROVE  IInv'
<1> USE FutureGroupAssumption DEF members, shared
<1>1. /\ TypeOK /\ op # "sequence"
      /\ UNCHANGED <<op, futures, token, result, asked, registered, local,
                     mu, remaining, failed, resultMap, seen>>
      /\ Len(futures) \in Nat
      /\ \A j \in Positions : futures[j] \in Sources
  BY PositionsFinite DEF IInv, Complete, CancelMember, EndRace, PlaceInv
<1>2. /\ \A j \in Positions : pc'[j] = pc[j] \/ pc'[j] \in {"cancel", "ended"}
      /\ pc' \in [Positions -> {"none", "waiting", "complete", "cancel", "lock", "read",
                                "write", "succeed", "fail", "unlock", "ended"}]
      /\ pc[i] \in {"complete", "cancel"}
      /\ \A j \in Positions : j # i => pc'[j] = pc[j]
  BY <1>1 DEF Complete, CancelMember, EndRace, TypeOK
<1>3. Done(i) /\ local[i] = result[futures[i]] /\ i <= registered
  BY <1>1, <1>2 DEF IInv, PlaceInv, TypeOK, Positions
<1>4. SharedInv'
  <2>1. Unfilled' = Unfilled
    BY <1>1 DEF Unfilled, Positions
  <2> QED
    BY <1>1, <1>2, <2>1 DEF IInv, SharedInv, Positions, Done, Critical
<1>5. CASE Complete(i)
  <2>1. /\ group' = (IF group = None THEN local[i] ELSE group)
        /\ pc' = [pc EXCEPT ![i] = IF op = "race" /\ group = None THEN "cancel" ELSE "ended"]
        /\ UNCHANGED <<cancelled, target>>
    BY <1>5 DEF Complete, Settle
  <2>2. local[i] \in Try /\ group' # None
    BY <1>1, <1>3, <2>1 DEF TypeOK, Done
  <2>3. TypeOK'
    BY <1>1, <1>2, <2>1, <2>2 DEF TypeOK, Positions
  <2>4. ResultInv'
    BY <1>1, <2>1 DEF IInv, ResultInv
  <2>5. PlaceInv'
    BY <1>1, <1>2, <1>3, <2>1, <2>2 DEF IInv, PlaceInv, Positions, Done, TypeOK
  <2>6. AnswersItsMembers'
    BY <1>1, <1>3, <2>1 DEF IInv, AnswersItsMembers, Positions, Done
  <2>7. CancelInv'
    <3>1. local[i].tag = "cancelled" => token[local[i].by] \in cancelled
      BY <1>1, <1>3 DEF IInv, ResultInv, Done
    <3> QED
      BY <1>1, <2>1, <2>2, <3>1 DEF IInv, CancelInv
  <2>8. CancelsOnlyAfterTheRace'
    BY <1>1, <2>1 DEF IInv, CancelsOnlyAfterTheRace, CancelInv, Positions
  <2> QED
    BY <1>4, <2>3, <2>4, <2>5, <2>6, <2>7, <2>8 DEF IInv
<1>6. CASE CancelMember(i)
  <2>1. /\ target < Len(futures) /\ target' = target + 1
        /\ cancelled' = cancelled \cup {token[futures[target + 1]]}
        /\ UNCHANGED <<pc, group>>
        /\ op = "race" /\ group # None
    BY <1>6 DEF CancelMember, IInv, PlaceInv
  <2>2. target + 1 \in Positions /\ token[futures[target + 1]] \in Sources
    BY <1>1, <2>1 DEF TypeOK, Positions
  <2>3. TypeOK'
    BY <1>1, <1>2, <2>1, <2>2 DEF TypeOK, Positions
  <2>4. ResultInv' /\ PlaceInv' /\ AnswersItsMembers' /\ CancelInv'
    BY <1>1, <2>1 DEF IInv, ResultInv, PlaceInv, AnswersItsMembers, CancelInv,
                      Positions, Done
  <2>5. CancelsOnlyAfterTheRace'
    <3>1. group.tag = "cancelled" => token[group.by] \in asked
      BY <2>1 DEF IInv, CancelInv
    <3> QED
      BY <1>1, <2>1, <2>2, <3>1 DEF IInv, CancelsOnlyAfterTheRace, Positions
  <2> QED
    BY <1>4, <2>3, <2>4, <2>5 DEF IInv
<1>7. CASE EndRace(i)
  <2>1. /\ UNCHANGED <<cancelled, group, target>>
        /\ pc' = [pc EXCEPT ![i] = "ended"]
    BY <1>7 DEF EndRace
  <2>2. TypeOK'
    BY <1>1, <1>2, <2>1 DEF TypeOK, Positions
  <2>3. PlaceInv'
    BY <1>1, <1>2, <1>3, <2>1 DEF IInv, PlaceInv, Positions, Done, TypeOK
  <2>4. ResultInv' /\ AnswersItsMembers' /\ CancelInv' /\ CancelsOnlyAfterTheRace'
    BY <1>1, <2>1 DEF IInv, ResultInv, AnswersItsMembers, CancelInv,
                      CancelsOnlyAfterTheRace, Positions, Done
  <2> QED
    BY <1>4, <2>2, <2>3, <2>4 DEF IInv
<1> QED
  BY <1>5, <1>6, <1>7
\* The callbacks of Sequence, up to the update of the shared variables.
LEMMA SequenceReadsIInv ==
    ASSUME IInv, NEW i \in Positions, Lock(i) \/ Read(i) \/ Unlock(i)
    PROVE  IInv'
<1> USE FutureGroupAssumption DEF members, shared
<1>1. /\ TypeOK
      /\ UNCHANGED <<op, futures, token, result, cancelled, asked, registered, local,
                     group, remaining, failed, resultMap, target>>
      /\ Len(futures) \in Nat
  BY PositionsFinite DEF IInv, Lock, Read, Unlock
<1>2. /\ op = "sequence" /\ Done(i) /\ local[i] = result[futures[i]] /\ i <= registered
      /\ mu' \in Positions \cup {None}
      /\ i # None
  BY <1>1 DEF IInv, PlaceInv, TypeOK, Positions, Lock, Read, Unlock
<1>3. ResultInv' /\ CancelInv' /\ AnswersItsMembers' /\ CancelsOnlyAfterTheRace'
  BY <1>1 DEF IInv, ResultInv, CancelInv, AnswersItsMembers,
              CancelsOnlyAfterTheRace, Positions, Done
<1>4. Unfilled' = Unfilled
  BY <1>1 DEF Unfilled, Positions
<1>5. CASE Lock(i)
  <2>1. /\ pc[i] = "lock" /\ mu = None /\ mu' = i /\ seen' = seen
        /\ pc' = [pc EXCEPT ![i] = Branch(i)]
    BY <1>5 DEF Lock
  <2>2. /\ Branch(i) \in {"read", "fail", "unlock"}
        /\ Branch(i) = "read" => local[i].tag = "ok"
        /\ Branch(i) = "fail" => local[i].tag # "ok"
    BY DEF Branch
  <2>3. TypeOK'
    BY <1>1, <1>2, <2>1, <2>2 DEF TypeOK, Positions
  <2>4. PlaceInv'
    BY <1>1, <1>2, <2>1, <2>2 DEF IInv, PlaceInv, Positions, Done, TypeOK
  <2>5. SharedInv'
    BY <1>1, <1>2, <1>4, <2>1, <2>2 DEF IInv, SharedInv, Positions, Done, TypeOK, Critical
  <2> QED
    BY <1>3, <2>3, <2>4, <2>5 DEF IInv
<1>6. CASE Read(i)
  <2>1. /\ pc[i] = "read" /\ mu' = mu
        /\ seen' = [seen EXCEPT ![i] = [map |-> resultMap, left |-> remaining]]
        /\ pc' = [pc EXCEPT ![i] = "write"]
    BY <1>6 DEF Read
  <2>2. TypeOK'
    BY <1>1, <2>1 DEF TypeOK, Positions
  <2>3. PlaceInv'
    BY <1>1, <1>2, <2>1 DEF IInv, PlaceInv, Positions, Done, TypeOK
  <2>4. SharedInv'
    BY <1>1, <1>2, <1>4, <2>1 DEF IInv, SharedInv, Positions, Done, TypeOK, Critical
  <2> QED
    BY <1>3, <2>2, <2>3, <2>4 DEF IInv
<1>7. CASE Unlock(i)
  <2>1. /\ pc[i] = "unlock" /\ mu' = None /\ seen' = seen
        /\ pc' = [pc EXCEPT ![i] = "ended"]
    BY <1>7 DEF Unlock
  <2>2. TypeOK'
    BY <1>1, <2>1 DEF TypeOK, Positions
  <2>3. PlaceInv'
    BY <1>1, <1>2, <2>1 DEF IInv, PlaceInv, Positions, Done, TypeOK
  <2>4. SharedInv'
    BY <1>1, <1>2, <1>4, <2>1 DEF IInv, SharedInv, Positions, Done, TypeOK, Critical
  <2> QED
    BY <1>3, <2>2, <2>3, <2>4 DEF IInv
<1> QED
  BY <1>5, <1>6, <1>7

\* The holder of the mutex fills its position and counts it.
LEMMA WriteIInv ==
    ASSUME IInv, NEW i \in Positions, Write(i)
    PROVE  IInv'
<1> USE FutureGroupAssumption DEF members, shared
<1>1. /\ TypeOK
      /\ UNCHANGED <<op, futures, token, result, cancelled, asked, registered, local,
                     group, mu, failed, seen, target>>
      /\ Len(futures) \in Nat /\ IsFiniteSet(Positions)
      /\ \A j \in Positions : futures[j] \in Sources
  BY PositionsFinite DEF IInv, Write
<1>2. /\ op = "sequence" /\ Done(i) /\ local[i] = result[futures[i]]
      /\ local[i].tag = "ok" /\ i <= registered
      /\ pc[i] = "write" /\ mu = i /\ resultMap[i] = None
      /\ seen[i] = [map |-> resultMap, left |-> remaining]
  <2>1. pc[i] = "write"
    BY DEF Write
  <2>2. /\ op = "sequence" /\ Done(i) /\ local[i] = result[futures[i]]
        /\ local[i].tag = "ok"
    BY <2>1 DEF IInv, PlaceInv
  <2>3. i <= registered
    BY <1>1, <2>1 DEF IInv, PlaceInv, TypeOK, Positions
  <2>4. mu = i /\ resultMap[i] = None /\ seen[i] = [map |-> resultMap, left |-> remaining]
    BY <2>1 DEF IInv, SharedInv, Critical
  <2> QED
    BY <2>1, <2>2, <2>3, <2>4
<1>3. local[i].by = futures[i]
  BY <1>1, <1>2 DEF IInv, ResultInv, Done
<1>4. /\ resultMap' = [resultMap EXCEPT ![i] = futures[i]]
      /\ remaining' = remaining - 1
      /\ pc' = [pc EXCEPT ![i] = IF remaining' = 0 THEN "succeed" ELSE "unlock"]
  BY <1>2, <1>3 DEF Write
<1>5. futures[i] # None /\ i \in Unfilled
  BY <1>1, <1>2 DEF Unfilled
<1>6. /\ Unfilled' = Unfilled \ {i}
      /\ IsFiniteSet(Unfilled)
  <2>1. Unfilled' = Unfilled \ {i}
    BY <1>1, <1>4, <1>5 DEF Unfilled, Positions, TypeOK
  <2>2. IsFiniteSet(Unfilled)
    BY <1>1, FS_Subset DEF Unfilled
  <2> QED
    BY <2>1, <2>2
<1>7. /\ Cardinality(Unfilled') = remaining - 1
      /\ remaining \in 1..Len(futures)
  <2>1. Cardinality(Unfilled \ {i}) = Cardinality(Unfilled) - 1
    BY <1>5, <1>6, FS_RemoveElement
  <2>2. Cardinality(Unfilled) = remaining /\ Cardinality(Unfilled \ {i}) \in Nat
    BY <1>6, FS_CardinalityType, FS_Subset DEF IInv, SharedInv
  <2> QED
    BY <1>1, <1>6, <2>1, <2>2 DEF TypeOK
<1>8. TypeOK'
  BY <1>1, <1>4, <1>7 DEF TypeOK, Positions
<1>9. PlaceInv'
  BY <1>1, <1>2, <1>4 DEF IInv, PlaceInv, Positions, Done, TypeOK
<1>10. SharedInv'
  <2>1. \A j \in Positions : j # i => pc[j] \notin Critical /\ pc'[j] = pc[j]
                                        /\ resultMap'[j] = resultMap[j]
    BY <1>1, <1>2, <1>4 DEF IInv, SharedInv, TypeOK
  <2>2. pc'[i] \in {"succeed", "unlock"} /\ resultMap'[i] = futures[i]
        /\ (pc'[i] = "succeed" => remaining' = 0)
    BY <1>1, <1>4 DEF TypeOK
  <2>3. \A j \in Positions : pc'[j] \in Critical => mu' = j
    BY <1>1, <1>2, <2>1
  <2>4. remaining' = Cardinality(Unfilled')
    BY <1>4, <1>7
  <2>5. ASSUME NEW j \in Positions
        PROVE  /\ resultMap'[j] # None =>
                    Done(j) /\ result[futures[j]].tag = "ok" /\ resultMap'[j] = futures[j]
               /\ pc'[j] \in {"none", "waiting", "lock", "read", "write"} => resultMap'[j] = None
               /\ pc'[j] # "write"
               /\ pc'[j] = "succeed" => remaining' = 0
    <3>1. CASE j = i
      BY <1>2, <2>2, <3>1
    <3>2. CASE j # i
      BY <2>1, <3>2 DEF IInv, SharedInv, Critical
    <3> QED
      BY <3>1, <3>2
  <2> QED
    BY <1>1, <2>3, <2>4, <2>5 DEF SharedInv, Positions, Done
<1>11. ResultInv' /\ CancelInv' /\ AnswersItsMembers' /\ CancelsOnlyAfterTheRace'
  BY <1>1 DEF IInv, ResultInv, CancelInv, AnswersItsMembers,
              CancelsOnlyAfterTheRace, Positions, Done
<1> QED
  BY <1>8, <1>9, <1>10, <1>11 DEF IInv

\* The last value completes the sequence, and so does the first failure.
LEMMA SequenceEndsIInv ==
    ASSUME IInv, NEW i \in Positions, Succeed(i) \/ Fail(i)
    PROVE  IInv'
<1> USE FutureGroupAssumption DEF members, shared
<1>1. /\ TypeOK
      /\ UNCHANGED <<op, futures, token, result, cancelled, asked, registered, local,
                     mu, remaining, resultMap, seen, target>>
      /\ Len(futures) \in Nat /\ IsFiniteSet(Positions)
      /\ \A j \in Positions : futures[j] \in Sources
  BY PositionsFinite DEF IInv, Succeed, Fail
<1>2. /\ op = "sequence" /\ Done(i) /\ local[i] = result[futures[i]]
      /\ pc[i] \in {"succeed", "fail"} /\ mu = i /\ i <= registered
      /\ pc' = [pc EXCEPT ![i] = "unlock"]
      /\ failed' \in BOOLEAN
  <2>1. /\ pc[i] \in {"succeed", "fail"} /\ pc' = [pc EXCEPT ![i] = "unlock"]
        /\ failed' \in BOOLEAN
    BY <1>1 DEF Succeed, Fail, TypeOK
  <2>2. op = "sequence" /\ Done(i) /\ local[i] = result[futures[i]]
    BY <2>1 DEF IInv, PlaceInv
  <2>3. i <= registered
    BY <1>1, <2>1 DEF IInv, PlaceInv, TypeOK, Positions
  <2>4. mu = i
    BY <2>1 DEF IInv, SharedInv, Critical
  <2> QED
    BY <2>1, <2>2, <2>3, <2>4
<1>3. /\ group' \in Try \cup Array /\ group' # None
      /\ group = None => AnswersItsMembers'
  <2>1. CASE Succeed(i)
    <3>1. /\ pc[i] = "succeed" /\ remaining = 0
          /\ group' = IF group = None THEN [tag |-> "ok", values |-> Collected(i)] ELSE group
      BY <2>1 DEF Succeed, Settle, IInv, SharedInv
    <3>2. Unfilled = {}
      <4>1. IsFiniteSet(Unfilled)
        BY <1>1, FS_Subset DEF Unfilled
      <4> QED
        BY <3>1, <4>1, FS_EmptySet DEF IInv, SharedInv
    <3>3. \A j \in Positions : /\ Done(j) /\ result[futures[j]].tag = "ok"
                               /\ resultMap[j] = futures[j] /\ futures[j] # None
      BY <1>1, <3>2 DEF IInv, SharedInv, Unfilled
    <3>4. Collected(i) = futures
      BY <1>1, <3>3 DEF Collected, TypeOK, Positions
    <3>5. group' \in Try \cup Array
      BY <1>1, <3>1, <3>4 DEF TypeOK, Array
    <3>6. group = None => AnswersItsMembers'
      BY <1>1, <1>2, <3>1, <3>3, <3>4 DEF AnswersItsMembers, Positions, Done
    <3> QED
      BY <3>5, <3>6
  <2>2. CASE Fail(i)
    <3>1. /\ local[i].tag # "ok" /\ group' = IF group = None THEN local[i] ELSE group
      BY <2>2 DEF Fail, Settle, IInv, PlaceInv
    <3>2. local[i] \in Try
      BY <1>1, <1>2 DEF TypeOK, Done
    <3>3. group' \in Try \cup Array
      BY <1>1, <3>1, <3>2 DEF TypeOK
    <3>4. group = None => AnswersItsMembers'
      BY <1>1, <1>2, <3>1 DEF AnswersItsMembers, Positions, Done
    <3> QED
      BY <3>3, <3>4
  <2> QED
    BY <2>1, <2>2
<1>4. group # None => group' = group
  BY DEF Succeed, Fail, Settle
<1>5. AnswersItsMembers'
  BY <1>1, <1>3, <1>4 DEF IInv, AnswersItsMembers, Positions, Done
<1>6. TypeOK'
  BY <1>1, <1>2, <1>3 DEF TypeOK, Positions
<1>7. PlaceInv'
  BY <1>1, <1>2, <1>3 DEF IInv, PlaceInv, Positions, Done, TypeOK
<1>8. SharedInv'
  <2>1. Unfilled' = Unfilled
    BY <1>1 DEF Unfilled, Positions
  <2> QED
    BY <1>1, <1>2, <2>1 DEF IInv, SharedInv, Positions, Done, TypeOK, Critical
<1>9. ResultInv' /\ CancelInv' /\ CancelsOnlyAfterTheRace'
  BY <1>1, <1>2 DEF IInv, ResultInv, CancelInv, CancelsOnlyAfterTheRace
<1> QED
  BY <1>5, <1>6, <1>7, <1>8, <1>9 DEF IInv

-----------------------------------------------------------------------------
\* The strengthening of the properties below holds in every state.
THEOREM InvariantHolds == Spec => []IInv
<1>1. Init => IInv
  BY InitIInv
<1>2. IInv /\ [Next]_vars => IInv'
  <2> SUFFICES ASSUME IInv, [Next]_vars PROVE IInv'
    OBVIOUS
  <2>1. CASE \E s \in Sources : CompleteSource(s) \/ StopSource(s) \/ UserCancel(s)
    BY <2>1, MembersIInv
  <2>2. CASE Register
    BY <2>2, RegisterIInv
  <2>3. CASE \E i \in Positions : Callback(i)
    BY <2>3, WakeIInv, RaceIInv, SequenceReadsIInv, WriteIInv, SequenceEndsIInv
       DEF Callback
  <2>4. CASE UNCHANGED vars
    BY <2>4 DEF vars, members, shared, IInv, TypeOK, ResultInv, PlaceInv,
                SharedInv, AnswersItsMembers, CancelInv, CancelsOnlyAfterTheRace,
                Positions, Done, Critical, Unfilled
  <2> QED
    BY <2>1, <2>2, <2>3, <2>4 DEF Next
<1> QED
  BY <1>1, <1>2, PTL DEF Spec

\* Sequence, FirstCompletedOf and Race answer what their members answered, in
\* the order of the array whatever the order they came in, and nothing is
\* cancelled before a race is decided (future.gala: Sequence,
\* FirstCompletedOf, Race).
THEOREM GroupAnswerIsRight == Spec => []AnswerIsRight
<1>1. IInv => AnswerIsRight
  BY DEF IInv, AnswerIsRight
<1> QED
  BY <1>1, InvariantHolds, PTL

\* What a group has answered is its answer for good, and the results of its
\* members and the cancellations stay (future.gala: Promise.Complete, Cancel).
THEOREM GroupAnswersOnce ==
    Spec => [][/\ group # None => group' = group
               /\ \A s \in Sources : result[s] # None => result'[s] = result[s]
               /\ cancelled \subseteq cancelled']_vars
<1>1. IInv /\ [Next]_vars =>
        [/\ group # None => group' = group
         /\ \A s \in Sources : result[s] # None => result'[s] = result[s]
         /\ cancelled \subseteq cancelled']_vars
  BY Grows
<1> QED
  BY <1>1, InvariantHolds, PTL DEF Spec
=============================================================================
