-------------------------- MODULE ExamAttempt_proofs --------------------------
(***************************************************************************)
(* Proofs about ExamAttempt for every number of students, attempts,        *)
(* requests and submitters, and every limit, window and bound; and about   *)
(* the page of ExamClient over it, for every number of drafts and hand-ins.*)
(***************************************************************************)
EXTENDS ExamClient, FiniteSetTheorems, SequenceTheorems, TLAPS

\* A request that has inserted an attempt owns its uncommitted row alone.
TakeWellFormed ==
  \A r \in Requests :
    /\ take[r].pc = "passed" => take[r].id = NoAttempt
    /\ take[r].pc # "idle" => take[r].student \in Students
    /\ take[r].pc = "inserted" =>
         /\ take[r].id \in Attempts
         /\ phase[take[r].id] = "inserted"
         /\ owner[take[r].id] = take[r].student
         /\ \A u \in Requests : take[u].pc = "inserted" /\ take[u].id = take[r].id => u = r

\* A submission under way works on a committed attempt.
SubWellFormed ==
  \A t \in Submitters : sub[t].pc # "idle" =>
    /\ sub[t].id \in Attempts
    /\ sub[t].sheet \in Sheets
    /\ phase[sub[t].id] \in {"open", "done"}

\* An identifier not used yet has no job, no answers and no payment.
Fresh ==
  \A a \in Attempts : phase[a] = "free" =>
    /\ job[a] = "none" /\ paidByJob[a] = 0
    /\ flagged[a] = {} /\ score[a] = 0 /\ completed[a] = 0

Shape == TypeOK /\ TakeWellFormed /\ SubWellFormed /\ Fresh

USE DEF Earned

------------------------------------------------------------------------------
LEMMA MinNat == ASSUME NEW x \in Nat, NEW y \in Nat PROVE Min2(x, y) \in Nat
  BY DEF Min2

\* What a sheet earns, and its questions that earn anything, are countable.
LEMMA CountMarks == ASSUME NEW sheet PROVE Score(sheet) \in Nat /\ Completed(sheet) \in Nat
<1>1. IsFiniteSet(Questions) /\ IsFiniteSet(1..Unit)
  BY ConstantsAssumption, FS_Interval
<1>2. IsFiniteSet(Questions \X (1..Unit))  BY <1>1, FS_Product
<1> DEFINE parts == {p \in Questions \X (1..Unit) : p[2] <= sheet[p[1]]}
           earning == {q \in Questions : sheet[q] > 0}
<1>3. parts \subseteq Questions \X (1..Unit) /\ earning \subseteq Questions  OBVIOUS
<1> HIDE DEF parts, earning
<1>4. Cardinality(parts) \in Nat /\ Cardinality(earning) \in Nat
  BY <1>1, <1>2, <1>3, FS_Subset, FS_CardinalityType
<1> QED  BY <1>4 DEF Score, Completed, parts, earning

\* A blank sheet earns nothing.
LEMMA BlankMarks ==
  /\ Blank \in [Questions -> Earned]
  /\ Correct(Blank) = {} /\ Score(Blank) = 0 /\ Completed(Blank) = 0
<1>1. Unit \in Nat \ {0}  BY ConstantsAssumption
<1>2. Correct(Blank) = {}  BY <1>1 DEF Correct, Blank
<1>3. {p \in Questions \X (1..Unit) : p[2] <= Blank[p[1]]} = {}  BY <1>1 DEF Blank
<1>4. {q \in Questions : Blank[q] > 0} = {}  BY DEF Blank
<1>5. Blank \in [Questions -> Earned]  BY <1>1 DEF Blank
<1> QED  BY <1>2, <1>3, <1>4, <1>5, FS_EmptySet DEF Score, Completed

LEMMA ShapeInit == Init => Shape
  BY ConstantsAssumption, BlankMarks DEF Init, Shape, TypeOK, TakeWellFormed, SubWellFormed, Fresh,
     NobodyTaking, NothingSent

LEMMA ShapeNext == Shape /\ [Next]_vars => Shape'
<1> SUFFICES ASSUME Shape, [Next]_vars PROVE Shape'
  OBVIOUS
<1> USE ConstantsAssumption DEF Shape, TypeOK
<1> USE DEF TakeWellFormed, SubWellFormed, Fresh
<1>1. CASE Tick
  BY <1>1 DEF Tick, takeVars, jobVars, answerVars
<1>2. ASSUME NEW l \in Limits, UpdateSession(l) PROVE Shape'
  BY <1>2 DEF UpdateSession, takeVars, jobVars, answerVars
<1>3. ASSUME NEW r \in Requests, NEW s \in Students, TakeCheck(r, s) PROVE Shape'
  BY <1>3 DEF TakeCheck, takeVars, jobVars, answerVars
<1>4. ASSUME NEW r \in Requests, NEW a \in Attempts, TakeInsert(r, a) PROVE Shape'
  <2> USE <1>4 DEF TakeInsert, takeVars, jobVars, answerVars
  <2>1. TimeoutAt \in Nat
    BY MinNat DEF TimeoutAt
  <2>2. TypeOK'
    BY <2>1, BlankMarks
  <2>3. TakeWellFormed'
    OBVIOUS
  <2>4. SubWellFormed' /\ Fresh'
    OBVIOUS
  <2> HIDE DEF TakeInsert, TypeOK, TakeWellFormed, SubWellFormed, Fresh
  <2> QED
    BY <2>2, <2>3, <2>4
<1>5. ASSUME NEW r \in Requests, TakeCommit(r) PROVE Shape'
  BY <1>5 DEF TakeCommit, NobodyTaking, takeVars, jobVars, answerVars
<1>6. ASSUME NEW r \in Requests, TakeAbort(r) PROVE Shape'
  <2> USE <1>6 DEF TakeAbort, NobodyTaking, takeVars, jobVars, answerVars
  <2>1. TypeOK'
    OBVIOUS
  <2>2. TakeWellFormed'
    OBVIOUS
  <2>3. \A a \in Attempts : phase[a] \in {"free", "open", "done"} => phase'[a] = phase[a]
    <3>1. /\ phase' = [a \in Attempts |-> IF a = take[r].id THEN "void" ELSE phase[a]]
          /\ take[r].pc \in {"passed", "inserted"}
      BY <1>6
    <3>2. take[r].id \in Attempts => phase[take[r].id] = "inserted"
      BY <3>1, ConstantsAssumption
    <3> QED  BY <3>1, <3>2
  <2>4. \A a \in Attempts : phase'[a] = "free" => phase[a] = "free"
    OBVIOUS
  <2>5. SubWellFormed' /\ Fresh'
    BY <2>3, <2>4
  <2> QED
    BY <2>1, <2>2, <2>5
<1>7. ASSUME NEW a \in Attempts, QueueAdd(a) PROVE Shape'
  BY <1>7 DEF QueueAdd, takeVars, jobVars, answerVars
<1>8. ASSUME NEW a \in Attempts, JobStart(a) PROVE Shape'
  BY <1>8 DEF JobStart, takeVars, jobVars, answerVars
<1>9. ASSUME NEW a \in Attempts, JobUpdate(a) PROVE Shape'
  <2>1. CASE StillOpen(a)
    <3>1. /\ phase[a] = "open" /\ phase' = [phase EXCEPT ![a] = "done"]
          /\ doneAt' = [doneAt EXCEPT ![a] = now] /\ job' = [job EXCEPT ![a] = "closed"]
          /\ job[a] = "checked"
          /\ UNCHANGED <<now, takeVars, paidByJob, stalled, answerVars, faults>>
      BY <1>9, <2>1 DEF JobUpdate, StillOpen
    <3>2. TypeOK'
      BY <3>1 DEF takeVars, answerVars
    <3>3. TakeWellFormed' /\ SubWellFormed'
      BY <3>1 DEF takeVars, answerVars
    <3>4. Fresh'
      BY <3>1 DEF takeVars, answerVars
    <3> HIDE DEF TypeOK, TakeWellFormed, SubWellFormed, Fresh
    <3> QED
      BY <3>2, <3>3, <3>4
  <2>2. CASE ~StillOpen(a)
    <3>1. /\ job[a] = "checked" /\ job' = [job EXCEPT ![a] = "gone"]
          /\ UNCHANGED <<now, takeVars, phase, doneAt, paidByJob, stalled, answerVars, faults>>
      BY <1>9, <2>2 DEF JobUpdate
    <3>2. TypeOK' /\ Fresh'
      BY <3>1 DEF takeVars, answerVars
    <3>3. TakeWellFormed' /\ SubWellFormed'
      BY <3>1 DEF takeVars, answerVars
    <3> HIDE DEF TypeOK, TakeWellFormed, SubWellFormed, Fresh
    <3> QED
      BY <3>2, <3>3
  <2> QED
    BY <2>1, <2>2
<1>10. ASSUME NEW a \in Attempts, JobEmit(a) PROVE Shape'
  BY <1>10 DEF JobEmit, takeVars, jobVars, answerVars
<1>11. ASSUME NEW a \in Attempts, JobComplete(a) PROVE Shape'
  BY <1>11 DEF JobComplete, takeVars, jobVars, answerVars
<1>12. ASSUME NEW a \in Attempts, JobLost(a) PROVE Shape'
  BY <1>12 DEF JobLost, takeVars, jobVars, answerVars
<1>13. ASSUME NEW t \in Submitters, NEW a \in Attempts, NEW sheet \in Sheets,
              NEW isDone \in BOOLEAN, SubmitDelete(t, a, sheet, isDone)
       PROVE Shape'
  <2> USE <1>13 DEF SubmitDelete, takeVars, jobVars, answerVars
  <2>1. TypeOK'
    OBVIOUS
  <2>2. TakeWellFormed'
    OBVIOUS
  <2>3. SubWellFormed' /\ Fresh'
    OBVIOUS
  <2> QED
    BY <2>1, <2>2, <2>3
<1>14. ASSUME NEW t \in Submitters, SubmitCommit(t) PROVE Shape'
  <2> DEFINE a == sub[t].id
             sheet == sub[t].sheet
             late == sub[t].pc = "late"
  <2>1. a \in Attempts /\ sheet \in [Questions -> Earned] /\ sub[t].isDone \in BOOLEAN
        /\ phase[a] \in {"open", "done"}
    BY <1>14 DEF SubmitCommit
  <2>2. RowsAfter(rows[a], sheet, late) \in [Questions -> Earned]
    BY <2>1 DEF RowsAfter
  <2>3. FlagsAfter(flagged[a], sheet, late) \in SUBSET Questions
    BY <2>1 DEF FlagsAfter, Correct
  <2>4. Score(sheet) \in Nat /\ Completed(sheet) \in Nat
    BY CountMarks
  <2>5. Pays(sub[t].isDone) \in Nat
    BY DEF Pays
  <2> USE <1>14 DEF SubmitCommit, takeVars, jobVars, answerVars
  <2>6. TypeOK'
    <3>1. /\ rows' \in [Attempts -> [Questions -> Earned]]
          /\ flagged' \in [Attempts -> SUBSET Questions]
      BY <2>1, <2>2, <2>3
    <3>2. /\ score' \in [Attempts -> Nat] /\ completed' \in [Attempts -> Nat]
          /\ paidBySubmit' \in [Attempts -> Nat]
      BY <2>1, <2>4, <2>5
    <3>3. /\ phase' \in [Attempts -> {"free", "inserted", "open", "done", "void"}]
          /\ overlapped' \in [Attempts -> BOOLEAN]
          /\ doneAt' \in [Attempts -> Nat] /\ reopened' \in [Attempts -> Nat]
      BY <2>1
    <3>4. sub' \in [Submitters -> [pc : {"idle", "deleted", "late"}, id : Attempts \cup {NoAttempt},
                             sheet : Sheets \cup {NoSheet}, isDone : BOOLEAN]]
      BY DEF NothingSent
    <3> QED
      BY <3>1, <3>2, <3>3, <3>4
  <2>7. TakeWellFormed'
    BY <2>1
  <2>8. SubWellFormed'
    BY <2>1 DEF NothingSent
  <2>9. Fresh'
    BY <2>1
  <2> HIDE DEF SubmitCommit, TypeOK, TakeWellFormed, SubWellFormed, Fresh
  <2> QED
    BY <2>6, <2>7, <2>8, <2>9
<1>15. ASSUME NEW t \in Submitters, SubmitAbort(t) PROVE Shape'
  <2> USE <1>15 DEF SubmitAbort, takeVars, jobVars, answerVars
  <2> DEFINE freed == [sub EXCEPT ![t] = NothingSent]
  <2>1. sub[t].id \in Attempts /\ Pays(sub[t].isDone) \in Nat
    BY DEF Pays
  <2>2. \/ sub' = freed
        \/ \E u \in Submitters \ {t} : /\ sub[u].pc = "late"
                                       /\ sub' = [freed EXCEPT ![u].pc = "deleted"]
    BY DEF Late
  <2>3. /\ sub' \in [Submitters -> [pc : {"idle", "deleted", "late"}, id : Attempts \cup {NoAttempt},
                                   sheet : Sheets \cup {NoSheet}, isDone : BOOLEAN]]
        /\ \A v \in Submitters : sub'[v].pc # "idle" =>
             sub[v].pc # "idle" /\ sub'[v].id = sub[v].id /\ sub'[v].sheet = sub[v].sheet
    <3> HIDE <1>15 DEF SubmitAbort
    <3>1. CASE sub' = freed
      BY <3>1 DEF NothingSent
    <3>2. ASSUME NEW u \in Submitters \ {t}, sub[u].pc = "late",
                 sub' = [freed EXCEPT ![u].pc = "deleted"]
          PROVE  /\ sub' \in [Submitters -> [pc : {"idle", "deleted", "late"}, id : Attempts \cup {NoAttempt},
                                   sheet : Sheets \cup {NoSheet}, isDone : BOOLEAN]]
                 /\ \A v \in Submitters : sub'[v].pc # "idle" =>
                      sub[v].pc # "idle" /\ sub'[v].id = sub[v].id /\ sub'[v].sheet = sub[v].sheet
      <4>1. freed \in [Submitters -> [pc : {"idle", "deleted", "late"}, id : Attempts \cup {NoAttempt},
                                     sheet : Sheets \cup {NoSheet}, isDone : BOOLEAN]]
        BY DEF NothingSent
      <4>2. \A v \in Submitters : freed[v].pc # "idle" => freed[v] = sub[v]
        BY DEF NothingSent
      <4> HIDE DEF freed, Shape, TypeOK
      <4>3. sub' \in [Submitters -> [pc : {"idle", "deleted", "late"}, id : Attempts \cup {NoAttempt},
                                    sheet : Sheets \cup {NoSheet}, isDone : BOOLEAN]]
        BY <3>2, <4>1
      <4>4. \A v \in Submitters : v # u => sub'[v] = freed[v]
        BY <3>2, <4>1
      <4>5. sub'[u] = [freed[u] EXCEPT !.pc = "deleted"]
        BY <3>2, <4>1
      <4>6. freed[u] = sub[u]
        BY <3>2 DEF freed, Shape, TypeOK
      <4> QED
        BY <3>2, <4>2, <4>3, <4>4, <4>5, <4>6 DEF Shape, TypeOK
    <3> QED
      BY <2>2, <3>1, <3>2
  <2>5. paidBySubmit' \in [Attempts -> Nat]
    BY <2>1
  <2>6. TypeOK'
    BY <2>3, <2>5
  <2>7. TakeWellFormed'
    OBVIOUS
  <2>8. SubWellFormed'
    BY <2>3
  <2>9. Fresh'
    OBVIOUS
  <2> HIDE DEF SubmitAbort, TypeOK, TakeWellFormed, SubWellFormed, Fresh
  <2> QED
    BY <2>6, <2>7, <2>8, <2>9
<1>16. CASE Crash
  <2> USE <1>16 DEF Crash, NobodyTaking, NothingSent, takeVars, jobVars, answerVars
  <2>1. TypeOK'
    OBVIOUS
  <2>2. TakeWellFormed' /\ SubWellFormed'
    OBVIOUS
  <2>3. Fresh'
    OBVIOUS
  <2> HIDE DEF Crash, TypeOK, TakeWellFormed, SubWellFormed, Fresh
  <2> QED
    BY <2>1, <2>2, <2>3
<1>17. CASE UNCHANGED vars
  BY <1>17 DEF vars, takeVars, jobVars, answerVars
<1> QED
  BY <1>1, <1>2, <1>3, <1>4, <1>5, <1>6, <1>7, <1>8, <1>9, <1>10, <1>11, <1>12, <1>13,
     <1>14, <1>15, <1>16, <1>17 DEF Next, TakeNext, JobNext, SubmitNext

\* Every reachable state has the shapes of TypeOK and the bookkeeping the proofs rest on.
THEOREM ShapeInvariant == Spec => []Shape
  BY ShapeInit, ShapeNext, PTL DEF Spec

\* The types of the requests, attempts, jobs and answer rows, for all constants.
THEOREM TypeCorrect == Spec => []TypeOK
  BY ShapeInvariant, PTL DEF Shape

------------------------------------------------------------------------------
(* AttemptBound.  The limit alone is not inductive: the guard of TakeCheck is evaluated    *)
(* once, and the attempt appears at TakeCommit.  What is inductive counts the attempts     *)
(* together with the requests that have passed the guard.                                  *)

Claimed(s) == Cardinality(Taken(s)) + Cardinality(InFlight(s))

ClaimBound ==
  /\ limit <= topLimit
  /\ \A s \in Students : Claimed(s) <= topLimit + Cardinality(Requests) - 1

LEMMA SubsetCount ==
  ASSUME NEW S, IsFiniteSet(S), NEW T \in SUBSET S
  PROVE  /\ IsFiniteSet(T) /\ Cardinality(T) \in Nat
         /\ Cardinality(S) \in Nat /\ Cardinality(T) <= Cardinality(S)
  BY FS_Subset, FS_CardinalityType

LEMMA Counted ==
  ASSUME NEW s
  PROVE  /\ IsFiniteSet(Taken(s)) /\ IsFiniteSet(InFlight(s))
         /\ Cardinality(Taken(s)) \in Nat /\ Cardinality(InFlight(s)) \in Nat
         /\ Cardinality(InFlight(s)) <= Cardinality(Requests)
  BY ConstantsAssumption, SubsetCount DEF Taken, InFlight

LEMMA ClaimInit == Init => ClaimBound
<1> SUFFICES ASSUME Init PROVE ClaimBound
  OBVIOUS
<1>1. Cardinality(Requests) \in Nat /\ Cardinality(Requests) # 0
  BY ConstantsAssumption, FS_EmptySet, FS_CardinalityType
<1>2. ASSUME NEW s \in Students PROVE Claimed(s) = 0
  <2>1. Taken(s) = {} /\ InFlight(s) = {}
    BY DEF Init, Taken, InFlight, NobodyTaking
  <2> QED
    BY <2>1, FS_EmptySet DEF Claimed
<1> QED
  BY <1>1, <1>2, ConstantsAssumption DEF Init, ClaimBound

LEMMA ClaimNext == Shape /\ ClaimBound /\ [Next]_vars => ClaimBound'
<1> SUFFICES ASSUME Shape, ClaimBound, [Next]_vars PROVE ClaimBound'
  OBVIOUS
<1>0. Cardinality(Requests) \in Nat /\ limit \in Nat /\ topLimit \in Nat
  BY ConstantsAssumption, FS_CardinalityType DEF Shape, TypeOK
\* A step that adds no attempt and no request to a student's claim keeps the bound.
<1>1. ASSUME limit' \in Nat, topLimit' \in Nat, limit' <= topLimit', topLimit <= topLimit',
             \A s \in Students : Taken(s)' = Taken(s) /\ InFlight(s)' \in SUBSET InFlight(s)
      PROVE  ClaimBound'
  <2>1. ASSUME NEW s \in Students PROVE Claimed(s)' <= Claimed(s) /\ Claimed(s)' \in Nat
    BY <1>1, Counted, SubsetCount DEF Claimed
  <2> QED
    BY <1>0, <1>1, <2>1, Counted DEF ClaimBound, Claimed
<1>2. ASSUME UNCHANGED <<limit, topLimit>>,
             \A s \in Students : Taken(s)' = Taken(s) /\ InFlight(s)' \in SUBSET InFlight(s)
      PROVE  ClaimBound'
  BY <1>0, <1>1, <1>2 DEF ClaimBound
<1>3. CASE Tick
  BY <1>2, <1>3 DEF Tick, takeVars, Taken, InFlight
<1>4. ASSUME NEW l \in Limits, UpdateSession(l) PROVE ClaimBound'
  BY <1>0, <1>1, <1>4, ConstantsAssumption DEF UpdateSession, Taken, InFlight, ClaimBound
<1>5. ASSUME NEW r \in Requests, NEW s \in Students, TakeCheck(r, s) PROVE ClaimBound'
  <2>1. UNCHANGED <<limit, topLimit>> /\ \A u \in Students : Taken(u)' = Taken(u)
    BY <1>5 DEF TakeCheck, Taken
  <2>2. \A u \in Students \ {s} : InFlight(u)' = InFlight(u)
    BY <1>5, ConstantsAssumption DEF TakeCheck, InFlight, Shape, TypeOK
  <2>3. Cardinality(InFlight(s)') \in Nat /\ Cardinality(InFlight(s)') <= Cardinality(Requests)
    BY SubsetCount, ConstantsAssumption DEF InFlight
  <2>4. Cardinality(Taken(s)) <= topLimit - 1
    BY <1>0, <1>5, Counted DEF TakeCheck, HasAttemptsLeft, ClaimBound
  <2>5. Claimed(s)' <= topLimit + Cardinality(Requests) - 1
    BY <1>0, <2>1, <2>3, <2>4, Counted DEF Claimed
  <2>6. \A u \in Students \ {s} : Claimed(u)' = Claimed(u)
    BY <2>1, <2>2 DEF Claimed
  <2> QED
    BY <2>1, <2>5, <2>6 DEF ClaimBound
<1>6. ASSUME NEW r \in Requests, NEW a \in Attempts, TakeInsert(r, a) PROVE ClaimBound'
  BY <1>2, <1>6 DEF TakeInsert, Taken, InFlight, Shape, TypeOK
<1>7. ASSUME NEW r \in Requests, TakeCommit(r) PROVE ClaimBound'
  <2>1. PICK a \in Attempts, s \in Students :
          /\ a = take[r].id /\ s = take[r].student
          /\ phase[a] = "inserted" /\ owner[a] = s /\ r \in InFlight(s)
    BY <1>7 DEF TakeCommit, Shape, TypeOK, TakeWellFormed, InFlight
  <2>2. Taken(s)' = Taken(s) \cup {a} /\ InFlight(s)' = InFlight(s) \ {r}
    <3>1. /\ \A b \in Attempts : phase'[b] = IF b = a THEN "open" ELSE phase[b]
          /\ owner' = owner
      BY <1>7, <2>1 DEF TakeCommit, Shape, TypeOK
    <3>2. Taken(s)' = Taken(s) \cup {a}
      BY <2>1, <3>1 DEF Taken
    <3>3. \A q \in Requests : take'[q] = IF q = r THEN NobodyTaking ELSE take[q]
      BY <1>7 DEF TakeCommit, Shape, TypeOK
    <3>4. InFlight(s)' = InFlight(s) \ {r}
      BY <2>1, <3>3, ConstantsAssumption DEF InFlight, NobodyTaking
    <3> QED
      BY <3>2, <3>4
  <2>3. \A u \in Students \ {s} : Taken(u)' = Taken(u) /\ InFlight(u)' = InFlight(u)
    BY <1>7, <2>1, ConstantsAssumption DEF TakeCommit, Taken, InFlight, NobodyTaking, Shape, TypeOK
  <2>4. Cardinality(Taken(s)') <= Cardinality(Taken(s)) + 1 /\ Cardinality(Taken(s)') \in Nat
    <3>1. IsFiniteSet(Taken(s)) /\ Cardinality(Taken(s)) \in Nat
      BY Counted
    <3>2. Cardinality(Taken(s) \cup {a}) =
            IF a \in Taken(s) THEN Cardinality(Taken(s)) ELSE Cardinality(Taken(s)) + 1
      BY <3>1, FS_AddElement
    <3> QED
      BY <2>2, <3>1, <3>2
  <2>5. Cardinality(InFlight(s)') = Cardinality(InFlight(s)) - 1
    BY <2>1, <2>2, Counted, FS_RemoveElement
  <2>6. Claimed(s)' <= Claimed(s) /\ Claimed(s)' \in Int /\ Claimed(s) \in Int
    BY <2>4, <2>5, Counted DEF Claimed
  <2>7. \A u \in Students \ {s} : Claimed(u)' = Claimed(u)
    BY <2>3 DEF Claimed
  <2>8. UNCHANGED <<limit, topLimit>>
    BY <1>7 DEF TakeCommit
  <2>9. \A u \in Students : Claimed(u)' <= Claimed(u) /\ Claimed(u)' \in Int /\ Claimed(u) \in Int
    <3>1. \A u \in Students : Claimed(u) \in Int
      BY Counted DEF Claimed
    <3> QED
      BY <2>6, <2>7, <3>1
  <2> QED
    BY <1>0, <2>8, <2>9 DEF ClaimBound
<1>8. ASSUME NEW r \in Requests, TakeAbort(r) PROVE ClaimBound'
  <2>1. \A a \in Attempts : phase[a] \in {"open", "done"} <=> phase'[a] \in {"open", "done"}
    BY <1>8, ConstantsAssumption DEF TakeAbort, Shape, TypeOK, TakeWellFormed
  <2>2. \A s \in Students : InFlight(s)' \in SUBSET InFlight(s)
    BY <1>8, ConstantsAssumption DEF TakeAbort, InFlight, NobodyTaking, Shape, TypeOK
  <2> QED
    BY <1>2, <1>8, <2>1, <2>2 DEF TakeAbort, Taken
<1>9. ASSUME NEW a \in Attempts, JobUpdate(a) PROVE ClaimBound'
  <2>1. \A b \in Attempts : phase[b] \in {"open", "done"} <=> phase'[b] \in {"open", "done"}
    BY <1>9 DEF JobUpdate, StillOpen, Shape, TypeOK
  <2> QED
    BY <1>2, <1>9, <2>1 DEF JobUpdate, takeVars, Taken, InFlight
<1>10. ASSUME NEW a \in Attempts,
              QueueAdd(a) \/ JobStart(a) \/ JobEmit(a) \/ JobComplete(a) \/ JobLost(a)
       PROVE  ClaimBound'
  BY <1>2, <1>10 DEF QueueAdd, JobStart, JobEmit, JobComplete, JobLost, takeVars, Taken, InFlight
<1>11. ASSUME NEW t \in Submitters, SubmitCommit(t) PROVE ClaimBound'
  <2>1. \A b \in Attempts : phase[b] \in {"open", "done"} <=> phase'[b] \in {"open", "done"}
    BY <1>11 DEF SubmitCommit, Shape, TypeOK, SubWellFormed
  <2> QED
    BY <1>2, <1>11, <2>1 DEF SubmitCommit, takeVars, Taken, InFlight
<1>12. ASSUME NEW t \in Submitters,
              SubmitAbort(t) \/ (\E a \in Attempts, sheet \in Sheets, isDone \in BOOLEAN :
                                    SubmitDelete(t, a, sheet, isDone))
       PROVE  ClaimBound'
  BY <1>2, <1>12 DEF SubmitAbort, SubmitDelete, takeVars, Taken, InFlight
<1>13. CASE Crash
  <2>1. \A b \in Attempts : phase[b] \in {"open", "done"} <=> phase'[b] \in {"open", "done"}
    BY <1>13 DEF Crash, Shape, TypeOK
  <2> QED
    BY <1>2, <1>13, <2>1 DEF Crash, Taken, InFlight, NobodyTaking
<1>14. CASE UNCHANGED vars
  BY <1>2, <1>14 DEF vars, takeVars, Taken, InFlight
<1> QED
  BY <1>3, <1>4, <1>5, <1>6, <1>7, <1>8, <1>9, <1>10, <1>11, <1>12, <1>13, <1>14
  DEF Next, TakeNext, JobNext, SubmitNext

\* However many requests of a student pass takeExam's unlocked guard together, the attempts
\* they make exceed the largest limit by less than the number of requests.
THEOREM AttemptsAreBounded == Spec => []AttemptBound
<1>1. ClaimBound /\ Shape => AttemptBound
  <2> SUFFICES ASSUME ClaimBound, Shape, NEW s \in Students
               PROVE  Cardinality(Taken(s)) <= topLimit + Cardinality(Requests) - 1
    BY DEF AttemptBound
  <2>1. Cardinality(Requests) \in Nat /\ topLimit \in Nat
    BY ConstantsAssumption, FS_CardinalityType DEF Shape, TypeOK
  <2> QED
    BY <2>1, Counted DEF ClaimBound, Claimed
<1> QED
  BY <1>1, ShapeInvariant, ClaimInit, ClaimNext, PTL DEF Spec

------------------------------------------------------------------------------
(* DoneIsPaid and JobPaysOnce.  The payments of the job are bounded by a budget: one for   *)
(* an attempt not done yet and one per reopening, spent when the job closes the attempt.   *)

Open01(a) == IF phase[a] = "done" THEN 0 ELSE 1
Closed01(a) == IF job[a] = "closed" THEN 1 ELSE 0

PayBudget ==
  \A a \in Attempts :
    /\ paidByJob[a] + Closed01(a) + Open01(a) <= 1 + reopened[a]
    /\ job[a] \in {"checked", "closed", "emitted"} \/ paidByJob[a] > 0 => due[a] <= now

PayInv == PayBudget /\ DoneIsPaid

LEMMA PayInit == Init => PayInv
  BY ConstantsAssumption DEF Init, PayInv, PayBudget, DoneIsPaid, Open01, Closed01

LEMMA PayNext == Shape /\ PayInv /\ [Next]_vars => PayInv'
<1> SUFFICES ASSUME Shape, PayInv, [Next]_vars PROVE PayInv'
  OBVIOUS
<1> USE ConstantsAssumption DEF Shape, TypeOK, PayInv, PayBudget, DoneIsPaid, Open01, Closed01
<1>1. CASE Tick
  BY <1>1 DEF Tick, takeVars, jobVars, answerVars
<1>2. ASSUME NEW r \in Requests,
             \/ \E s \in Students : TakeCheck(r, s)
             \/ \E l \in Limits : UpdateSession(l)
      PROVE  PayInv'
  BY <1>2 DEF TakeCheck, UpdateSession, jobVars, answerVars
<1>3. ASSUME NEW r \in Requests, NEW a \in Attempts, TakeInsert(r, a) PROVE PayInv'
  BY <1>3 DEF TakeInsert, Fresh
<1>4. ASSUME NEW r \in Requests, TakeCommit(r) PROVE PayInv'
  BY <1>4 DEF TakeCommit, TakeWellFormed, jobVars, answerVars
<1>5. ASSUME NEW r \in Requests, TakeAbort(r) PROVE PayInv'
  BY <1>5 DEF TakeAbort, TakeWellFormed, jobVars, answerVars
<1>6. ASSUME NEW a \in Attempts, QueueAdd(a) PROVE PayInv'
  BY <1>6 DEF QueueAdd, takeVars, answerVars
<1>7. ASSUME NEW a \in Attempts, JobStart(a) PROVE PayInv'
  BY <1>7 DEF JobStart, takeVars, answerVars
<1>8. ASSUME NEW a \in Attempts, JobUpdate(a) PROVE PayInv'
  <2>1. CASE phase[a] = "open"
    <3>1. /\ phase' = [phase EXCEPT ![a] = "done"] /\ job' = [job EXCEPT ![a] = "closed"]
          /\ job[a] = "checked"
          /\ UNCHANGED <<now, due, paidByJob, paidBySubmit, reopened, stalled>>
      BY <1>8, <2>1 DEF JobUpdate, StillOpen, takeVars, answerVars
    <3>2. PayBudget'
      BY <3>1, <2>1
    <3>3. DoneIsPaid'
      BY <3>1
    <3> QED
      BY <3>2, <3>3 DEF PayInv
  <2>2. CASE phase[a] # "open"
    BY <1>8, <2>2 DEF JobUpdate, StillOpen, takeVars, answerVars
  <2> QED
    BY <2>1, <2>2
<1>9. ASSUME NEW a \in Attempts, JobEmit(a) PROVE PayInv'
  BY <1>9 DEF JobEmit, takeVars, answerVars
<1>10. ASSUME NEW a \in Attempts, JobComplete(a) \/ JobLost(a) PROVE PayInv'
  <2>1. /\ UNCHANGED <<now, due, phase, paidByJob, paidBySubmit, reopened, stalled>>
        /\ job' = [job EXCEPT ![a] = "gone"] /\ job[a] # "closed"
    BY <1>10 DEF JobComplete, JobLost, takeVars, answerVars
  <2> QED
    BY <2>1
<1>11. ASSUME NEW t \in Submitters, NEW a \in Attempts, NEW sheet \in Sheets,
              NEW isDone \in BOOLEAN, SubmitDelete(t, a, sheet, isDone)
       PROVE  PayInv'
  BY <1>11 DEF SubmitDelete, takeVars, jobVars
<1>12. ASSUME NEW t \in Submitters, SubmitCommit(t) PROVE PayInv'
  <2>1. PICK a \in Attempts : a = sub[t].id /\ phase[a] \in {"open", "done"}
    BY <1>12 DEF SubmitCommit, SubWellFormed
  <2>2. PICK d \in BOOLEAN : d = sub[t].isDone
    BY <1>12
  <2>3. /\ phase' = [phase EXCEPT ![a] = IF d THEN "done" ELSE "open"]
        /\ reopened' = [reopened EXCEPT ![a] = IF phase[a] = "done" /\ ~d THEN @ + 1 ELSE @]
        /\ paidBySubmit' = [paidBySubmit EXCEPT ![a] = IF d THEN @ + 1 ELSE @ + 0]
        /\ UNCHANGED <<now, due, job, paidByJob, stalled>>
    BY <1>12, <2>1, <2>2 DEF SubmitCommit, Pays, takeVars, jobVars
  <2>4. CASE d
    BY <2>1, <2>3, <2>4
  <2>5. CASE ~d
    BY <2>1, <2>3, <2>5
  <2> QED
    BY <2>4, <2>5
<1>13. ASSUME NEW t \in Submitters, SubmitAbort(t) PROVE PayInv'
  <2>1. /\ UNCHANGED <<now, due, phase, job, paidByJob, reopened, stalled>>
        /\ \A a \in Attempts : paidBySubmit'[a] >= paidBySubmit[a] /\ paidBySubmit'[a] \in Nat
    <3>1. UNCHANGED <<now, due, phase, job, paidByJob, reopened, stalled>>
      BY <1>13 DEF SubmitAbort, takeVars, jobVars
    <3>2. PICK v \in Nat : v = Pays(sub[t].isDone)
      BY DEF Pays
    <3>3. \/ paidBySubmit' = paidBySubmit
          \/ \E a \in Attempts : paidBySubmit' = [paidBySubmit EXCEPT ![a] = @ + v]
      BY <1>13, <3>2 DEF SubmitAbort, SubWellFormed
    <3>4. \A a \in Attempts : paidBySubmit'[a] >= paidBySubmit[a] /\ paidBySubmit'[a] \in Nat
      <4>1. paidBySubmit \in [Attempts -> Nat]
        OBVIOUS
      <4> HIDE DEF Shape, PayInv
      <4>2. CASE paidBySubmit' = paidBySubmit
        BY <4>1, <4>2
      <4>3. ASSUME NEW a \in Attempts, paidBySubmit' = [paidBySubmit EXCEPT ![a] = @ + v]
            PROVE  \A b \in Attempts : paidBySubmit'[b] >= paidBySubmit[b] /\ paidBySubmit'[b] \in Nat
        <5>1. paidBySubmit'[a] = paidBySubmit[a] + v
          BY <4>1, <4>3
        <5>2. \A b \in Attempts \ {a} : paidBySubmit'[b] = paidBySubmit[b]
          BY <4>1, <4>3
        <5> QED
          BY <4>1, <5>1, <5>2
      <4> QED
        BY <3>3, <4>2, <4>3
    <3> QED
      BY <3>1, <3>4
  <2> QED
    BY <2>1
<1>14. CASE Crash
  BY <1>14 DEF Crash
<1>15. CASE UNCHANGED vars
  BY <1>15 DEF vars, takeVars, jobVars, answerVars
<1> QED
  BY <1>1, <1>2, <1>3, <1>4, <1>5, <1>6, <1>7, <1>8, <1>9, <1>10, <1>11, <1>12, <1>13,
     <1>14, <1>15 DEF Next, TakeNext, JobNext, SubmitNext

LEMMA PayInvariant == Spec => [](Shape /\ PayInv)
  BY ShapeInvariant, PayInit, PayNext, PTL DEF Spec

\* A finished attempt has emitted its reward event unless the worker died between closing
\* it and emitting.
THEOREM FinishedIsPaid == Spec => []DoneIsPaid
  BY PayInvariant, PTL DEF PayInv

\* Redelivery of the timeout job never pays twice for one closing.
THEOREM TimeoutPaysOnce == Spec => []JobPaysOnce
<1>1. Shape /\ PayInv => JobPaysOnce
  <2> SUFFICES ASSUME Shape, PayInv, NEW a \in Attempts
               PROVE  /\ paidByJob[a] + (IF job[a] = "closed" THEN 1 ELSE 0) <= 1 + reopened[a]
                      /\ paidByJob[a] > 0 => due[a] <= now
    BY DEF JobPaysOnce
  <2>1. paidByJob[a] \in Nat /\ reopened[a] \in Nat  BY DEF Shape, TypeOK
  <2>2. Open01(a) \in 0..1 /\ Closed01(a) \in 0..1  BY DEF Open01, Closed01
  <2>3. paidByJob[a] + Closed01(a) + Open01(a) <= 1 + reopened[a]  BY DEF PayInv, PayBudget
  <2>4. paidByJob[a] + Closed01(a) <= 1 + reopened[a]  BY <2>1, <2>2, <2>3
  <2> QED  BY <2>4 DEF Closed01, PayInv, PayBudget
<1> QED
  BY <1>1, PayInvariant, PTL

\* Until its timeout an attempt has its job, on its way to Redis or delayed there, whatever is
\* saved, handed in or reopened meanwhile: only a failing Redis, or a crash before Redis has the
\* job, leaves an attempt with time left without anything that closes it.
TimeoutAhead ==
  \A a \in Attempts :
    phase[a] \in {"inserted", "open", "done"} /\ now < due[a] /\ faults = 0
      => job[a] \in {"adding", "delayed"}

LEMMA AheadNext == Shape /\ TimeoutAhead /\ [Next]_vars => TimeoutAhead'
<1> SUFFICES ASSUME Shape, TimeoutAhead, [Next]_vars, NEW a \in Attempts,
                    phase'[a] \in {"inserted", "open", "done"}, now' < due'[a], faults' = 0
             PROVE  job'[a] \in {"adding", "delayed"}
  BY DEF TimeoutAhead
<1> USE DEF Shape, TypeOK
<1>0. now \in Nat /\ due[a] \in Nat /\ faults \in Nat  BY ConstantsAssumption
<1>1. CASE Tick \/ UNCHANGED vars \/ \E l \in Limits : UpdateSession(l)
  <2>1. now <= now' /\ now' \in Nat /\ UNCHANGED <<due, phase, job, faults>>
    BY <1>0, <1>1 DEF Tick, UpdateSession, vars, takeVars, jobVars, answerVars
  <2>2. now < due[a]  BY <1>0, <2>1
  <2> QED  BY <2>1, <2>2 DEF TimeoutAhead
<1>2. ASSUME NEW r \in Requests, NEW b \in Attempts, TakeInsert(r, b)
      PROVE  job'[a] \in {"adding", "delayed"}
  <2>1. CASE a = b  BY <1>2, <2>1 DEF TakeInsert
  <2>2. CASE a # b
    <3>1. UNCHANGED <<now, faults>> /\ phase'[a] = phase[a] /\ due'[a] = due[a] /\ job'[a] = job[a]
      BY <1>2, <2>2 DEF TakeInsert
    <3> QED  BY <3>1 DEF TimeoutAhead
  <2> QED  BY <2>1, <2>2
<1>3. ASSUME NEW r \in Requests, (\E s \in Students : TakeCheck(r, s)) \/ TakeCommit(r) \/ TakeAbort(r)
      PROVE  job'[a] \in {"adding", "delayed"}
  <2>1. UNCHANGED <<now, due, job, faults>>
    BY <1>3 DEF TakeCheck, TakeCommit, TakeAbort, jobVars
  <2>2. phase[a] \in {"inserted", "open", "done"}
    BY <1>3 DEF TakeCheck, TakeCommit, TakeAbort, TakeWellFormed
  <2> QED  BY <2>1, <2>2 DEF TimeoutAhead
<1>4. ASSUME NEW b \in Attempts, QueueAdd(b) \/ JobStart(b) \/ JobUpdate(b) \/ JobEmit(b)
                                 \/ JobComplete(b)
      PROVE  job'[a] \in {"adding", "delayed"}
  <2>1. UNCHANGED <<now, due, faults>> /\ phase[a] \in {"inserted", "open", "done"}
    BY <1>4 DEF QueueAdd, JobStart, JobUpdate, StillOpen, JobEmit, JobComplete, takeVars
  <2>2. job[a] \in {"adding", "delayed"}  BY <2>1 DEF TimeoutAhead
  <2>3. ~(now >= due[a])  BY <1>0, <2>1
  <2> QED
    BY <1>4, <2>1, <2>2, <2>3 DEF QueueAdd, JobStart, JobUpdate, JobEmit, JobComplete
<1>5. ASSUME NEW b \in Attempts, JobLost(b)  PROVE FALSE  BY <1>0, <1>5 DEF JobLost
<1>6. ASSUME NEW t \in Submitters,
             \/ \E b \in Attempts, sheet \in Sheets, isDone \in BOOLEAN :
                  SubmitDelete(t, b, sheet, isDone)
             \/ SubmitCommit(t) \/ SubmitAbort(t)
      PROVE  job'[a] \in {"adding", "delayed"}
  <2>1. UNCHANGED <<now, due, job, faults>>
    BY <1>6 DEF SubmitDelete, SubmitCommit, SubmitAbort, takeVars, jobVars
  <2>2. phase[a] \in {"inserted", "open", "done"}
    BY <1>6 DEF SubmitDelete, SubmitCommit, SubmitAbort, SubWellFormed
  <2> QED  BY <2>1, <2>2 DEF TimeoutAhead
<1>7. CASE Crash  BY <1>0, <1>7 DEF Crash
<1> QED
  BY <1>1, <1>2, <1>3, <1>4, <1>5, <1>6, <1>7 DEF Next, TakeNext, JobNext, SubmitNext

\* The safety half of TimedAttemptCloses, which TLC checks on exam_submit.
THEOREM TimeoutIsAhead == Spec => []TimeoutAhead
<1>1. Init => TimeoutAhead  BY DEF Init, TimeoutAhead
<1> QED  BY <1>1, AheadNext, ShapeInvariant, PTL DEF Spec

\* The timeout job leaves the completion time of a finished attempt alone.
THEOREM TimeoutKeepsDoneAt == Spec => JobKeepsDoneAt
<1> DEFINE Kept == \A a \in Attempts : phase[a] = "done" /\ doneAt'[a] # doneAt[a] =>
                     \E t \in Submitters : sub[t].id = a /\ sub'[t].pc = "idle"
<1>1. ASSUME Shape, [Next]_vars PROVE Kept
  <2> USE DEF Shape, TypeOK
  <2>1. ASSUME NEW t \in Submitters, SubmitCommit(t) PROVE Kept
    <3>0. sub' = [sub EXCEPT ![t] = NothingSent]
      BY <2>1 DEF SubmitCommit
    <3>1. sub'[t].pc = "idle"
      BY <1>1, <3>0 DEF NothingSent
    <3>2. \A a \in Attempts : a # sub[t].id => doneAt'[a] = doneAt[a]
      BY <1>1, <2>1 DEF SubmitCommit
    <3> QED
      BY <3>1, <3>2
  <2>2. ASSUME NEW a \in Attempts, JobUpdate(a) PROVE Kept
    <3>1. (phase[a] = "open" /\ doneAt' = [doneAt EXCEPT ![a] = now]) \/ doneAt' = doneAt
      BY <2>2 DEF JobUpdate, StillOpen
    <3>2. \A b \in Attempts : doneAt'[b] # doneAt[b] => phase[b] = "open"
      BY <1>1, <3>1
    <3> QED
      BY <3>2
  <2>3. ASSUME NEW r \in Requests, NEW a \in Attempts, TakeInsert(r, a) PROVE Kept
    BY <1>1, <2>3 DEF TakeInsert
  <2>4. doneAt' = doneAt \/ (\E t \in Submitters : SubmitCommit(t)) \/ (\E a \in Attempts : JobUpdate(a))
        \/ (\E r \in Requests, a \in Attempts : TakeInsert(r, a))
    BY <1>1 DEF Next, TakeNext, JobNext, SubmitNext, Tick, UpdateSession, TakeCheck, TakeCommit,
       TakeAbort, QueueAdd, JobStart, JobEmit, JobComplete, JobLost, SubmitDelete, SubmitAbort,
       Crash, vars
  <2> QED
    BY <2>1, <2>2, <2>3, <2>4
<1> QED
  BY <1>1, ShapeInvariant, PTL DEF Spec, JobKeepsDoneAt

------------------------------------------------------------------------------
(* AnswersAgree *)

LEMMA AgreeNext == Shape /\ AnswersAgree /\ [Next]_vars => AnswersAgree'
<1> SUFFICES ASSUME Shape, AnswersAgree, [Next]_vars PROVE AnswersAgree'
  OBVIOUS
<1> USE DEF Shape, TypeOK, AnswersAgree
<1>1. ASSUME NEW t \in Submitters, SubmitCommit(t) PROVE AnswersAgree'
  <2>1. PICK a \in Attempts : a = sub[t].id
    BY <1>1 DEF SubmitCommit, SubWellFormed
  <2>2. PICK sheet \in [Questions -> Earned] : sheet = sub[t].sheet
    BY <1>1, ConstantsAssumption DEF SubmitCommit, SubWellFormed
  <2>3. PICK late \in BOOLEAN : late = (sub[t].pc = "late")
    OBVIOUS
  <2>4. /\ rows' = [rows EXCEPT ![a] = RowsAfter(@, sheet, late)]
        /\ flagged' = [flagged EXCEPT ![a] = FlagsAfter(@, sheet, late)]
        /\ score' = [score EXCEPT ![a] = Score(sheet)]
        /\ completed' = [completed EXCEPT ![a] = Completed(sheet)]
        /\ overlapped' = [overlapped EXCEPT ![a] = late]
    BY <1>1, <2>1, <2>2, <2>3 DEF SubmitCommit
  <2>5. ~late => /\ RowsAfter(rows[a], sheet, late) = sheet
                 /\ FlagsAfter(flagged[a], sheet, late) = Correct(sheet)
    BY <2>2 DEF RowsAfter, FlagsAfter
  <2>6. \A b \in Attempts \ {a} :
          /\ rows'[b] = rows[b] /\ flagged'[b] = flagged[b] /\ score'[b] = score[b]
          /\ completed'[b] = completed[b] /\ overlapped'[b] = overlapped[b]
    BY <2>4
  <2>7. /\ rows'[a] = RowsAfter(rows[a], sheet, late)
        /\ flagged'[a] = FlagsAfter(flagged[a], sheet, late)
        /\ score'[a] = Score(sheet) /\ completed'[a] = Completed(sheet) /\ overlapped'[a] = late
    BY <2>4
  <2> QED
    BY <2>5, <2>6, <2>7
<1>2. ASSUME NEW r \in Requests, NEW a \in Attempts, TakeInsert(r, a) PROVE AnswersAgree'
  BY <1>2, BlankMarks DEF TakeInsert, Fresh
<1>3. UNCHANGED <<rows, flagged, score, completed, overlapped>> \/ (\E t \in Submitters : SubmitCommit(t))
      \/ (\E r \in Requests, a \in Attempts : TakeInsert(r, a))
  BY DEF Next, TakeNext, JobNext, SubmitNext, Tick, UpdateSession, TakeCheck, TakeCommit,
     TakeAbort, QueueAdd, JobStart, JobUpdate, JobEmit, JobComplete, JobLost, SubmitDelete,
     SubmitAbort, Crash, vars, answerVars
<1> QED
  BY <1>1, <1>2, <1>3

\* Answers, isCorrect flags and final score agree after every submission that ran alone.
THEOREM KeptAnswersAgree == Spec => []AnswersAgree
<1>1. Init => AnswersAgree
  BY BlankMarks DEF Init, AnswersAgree
<1> QED
  BY <1>1, AgreeNext, ShapeInvariant, PTL DEF Spec
------------------------------------------------------------------------------
(* The page of ExamClient *)

\* The hand-ins (d) and the saves (~d) of a page under way, as posts and as transactions; what
\* they have caused, a payment or a reopening; and how many the page has made.
Posted(a, d) == {p \in net : p.id = a /\ p.isDone = d}
Served(a, d) == {t \in Submitters : sub[t].pc # "idle" /\ sub[t].id = a /\ sub[t].isDone = d}
Caused(a, d) == IF d THEN paidBySubmit[a] ELSE reopened[a]
Made(a, d) == IF d THEN finals[a] ELSE version[a] - 1

\* The numbers on the posts, by which no two of them are the same post.
Numbered ==
  \A p \in net : IF p.isDone THEN p.nr <= finals[p.id] ELSE p.version <= version[p.id]

\* Each post is on its way, or being served, or has been answered and has caused at most one
\* payment or reopening.
EachCausesOne ==
  \A a \in Attempts, d \in BOOLEAN :
    /\ IsFiniteSet(Posted(a, d)) /\ IsFiniteSet(Served(a, d))
    /\ Caused(a, d) + Cardinality(Posted(a, d)) + Cardinality(Served(a, d)) <= Made(a, d)

\* What the page has told the student was paid for, and stays done until a save reopens it.
ToldIsTrue ==
  \A a \in Attempts : page[a] \in {"told", "left"} =>
    paidBySubmit[a] > 0 /\ (phase[a] = "done" \/ reopened[a] > 0)

ClientIInv == Shape /\ ClientTypeOK /\ Numbered /\ EachCausesOne /\ ToldIsTrue

\* Whatever page and network do, the server only sees submissions it may be sent.
LEMMA ClientIsServed == ClientTypeOK /\ [ClientNext]_allVars => [Next]_vars
<1> SUFFICES ASSUME ClientTypeOK, [ClientNext]_allVars PROVE [Next]_vars  OBVIOUS
<1>1. CASE UNCHANGED allVars  BY <1>1 DEF allVars
<1>2. CASE \E a \in Attempts : OpenPage(a) \/ ChangeAnswer(a) \/ HandIn(a) \/ Leave(a)
  BY <1>2 DEF OpenPage, ChangeAnswer, HandIn, Leave
<1>3. CASE \E p \in net : PostLost(p)  BY <1>3 DEF PostLost
<1>4. ASSUME NEW p \in net, NEW t \in Submitters, Receive(t, p) PROVE Next
  <2>1. p.id \in Attempts /\ p.version \in 1..Len(Drafts) /\ p.isDone \in BOOLEAN
    BY DEF ClientTypeOK, Post
  <2>2. Drafts[p.version] \in Sheets  BY <2>1, DraftsAssumption, ElementOfSeq
  <2>3. SubmitDelete(t, p.id, Drafts[p.version], p.isDone)  BY <1>4 DEF Receive
  <2> QED  BY <2>1, <2>2, <2>3 DEF Next, SubmitNext
<1>5. CASE \E t \in Submitters : Answer(t) \/ AnswerLost(t) \/ Refuse(t)
  BY <1>5 DEF Answer, AnswerLost, Refuse, Next, SubmitNext
<1>6. CASE ServerNext  BY <1>6 DEF ServerNext, Next
<1> QED  BY <1>1, <1>2, <1>3, <1>4, <1>5, <1>6 DEF ClientNext

LEMMA ClientShapes ==
  ASSUME ClientIInv
  PROVE  /\ ClientTypeOK /\ Shape /\ TypeOK
         /\ \A a \in Attempts : /\ version[a] \in Nat /\ finals[a] \in Nat
                                /\ reopened[a] \in Nat /\ paidBySubmit[a] \in Nat
         /\ \A a \in Attempts, d \in BOOLEAN :
              /\ Cardinality(Posted(a, d)) \in Nat /\ Cardinality(Served(a, d)) \in Nat
              /\ Caused(a, d) \in Nat /\ Made(a, d) \in Int
         /\ \A p \in net : /\ p.id \in Attempts /\ p.version \in Nat
                           /\ p.isDone \in BOOLEAN /\ p.nr \in Nat
         /\ \A t \in Submitters : sub[t].isDone \in BOOLEAN
         /\ \A t \in Submitters : sub[t].pc # "idle" => sub[t].id \in Attempts
<1>1. Len(Drafts) \in Nat  BY DraftsAssumption, LenProperties
<1>2. ClientTypeOK /\ Shape /\ TypeOK  BY DEF ClientIInv, Shape
<1>3. \A a \in Attempts : version[a] \in Nat /\ finals[a] \in Nat
  BY <1>1, <1>2, DraftsAssumption DEF ClientTypeOK
<1>4. \A a \in Attempts : reopened[a] \in Nat /\ paidBySubmit[a] \in Nat  BY <1>2 DEF TypeOK
<1>5. \A a \in Attempts, d \in BOOLEAN :
        Cardinality(Posted(a, d)) \in Nat /\ Cardinality(Served(a, d)) \in Nat
  BY FS_CardinalityType DEF ClientIInv, EachCausesOne
<1>6. \A a \in Attempts, d \in BOOLEAN : Caused(a, d) \in Nat /\ Made(a, d) \in Int
  BY <1>3, <1>4 DEF Caused, Made
<1>7. \A p \in net : p.id \in Attempts /\ p.version \in Nat /\ p.isDone \in BOOLEAN /\ p.nr \in Nat
  BY <1>1, <1>2, DraftsAssumption DEF ClientTypeOK, Post
<1>8. \A t \in Submitters : sub[t].isDone \in BOOLEAN  BY <1>2 DEF TypeOK
<1>9. \A t \in Submitters : sub[t].pc # "idle" => sub[t].id \in Attempts
  BY <1>2 DEF Shape, SubWellFormed
<1> QED  BY <1>2, <1>3, <1>4, <1>5, <1>6, <1>7, <1>8, <1>9

LEMMA ClientInitIInv == ClientInit => ClientIInv
<1> SUFFICES ASSUME ClientInit PROVE ClientIInv  OBVIOUS
<1>1. Shape  BY ShapeInit DEF ClientInit
<1>2. /\ page = [a \in Attempts |-> "unopened"] /\ version = [a \in Attempts |-> 1]
      /\ finals = [a \in Attempts |-> 0] /\ net = {}
      /\ reopened = [a \in Attempts |-> 0] /\ paidBySubmit = [a \in Attempts |-> 0]
      /\ \A t \in Submitters : sub[t].pc = "idle"
  BY DEF ClientInit, Init, NothingSent
<1>3. ClientTypeOK
  <2>1. Len(Drafts) \in Nat /\ Len(Drafts) # 0  BY DraftsAssumption, EmptySeq, LenProperties
  <2>2. 1 \in 1..Len(Drafts) /\ 0 \in 0..MaxFinals  BY <2>1, DraftsAssumption
  <2> QED  BY <1>2, <2>2 DEF ClientTypeOK
<1>4. Numbered /\ ToldIsTrue  BY <1>2 DEF Numbered, ToldIsTrue
<1>5. EachCausesOne
  <2>1. \A a \in Attempts, d \in BOOLEAN : Posted(a, d) = {} /\ Served(a, d) = {}
    BY <1>2 DEF Posted, Served
  <2>2. \A a \in Attempts, d \in BOOLEAN : Caused(a, d) = 0 /\ Made(a, d) = 0
    BY <1>2 DEF Caused, Made
  <2> QED  BY <2>1, <2>2, FS_EmptySet DEF EachCausesOne
<1> QED  BY <1>1, <1>3, <1>4, <1>5 DEF ClientIInv

\* What neither posts nor serves: the page opens or is left, the clock, takeExam, the job.
LEMMA UnseenStep ==
  ASSUME ClientIInv, Shape', ClientTypeOK',
         UNCHANGED <<version, finals, net, sub, reopened, paidBySubmit>>,
         \A a \in Attempts : phase[a] = "done" => phase'[a] = "done",
         \A a \in Attempts : page'[a] \in {"told", "left"} => page[a] \in {"told", "left"}
  PROVE  ClientIInv'
<1>1. Numbered'  BY DEF ClientIInv, Numbered
<1>2. ToldIsTrue'  BY DEF ClientIInv, ToldIsTrue
<1>3. EachCausesOne'
  <2>1. \A a \in Attempts, d \in BOOLEAN :
          /\ Posted(a, d)' = Posted(a, d) /\ Served(a, d)' = Served(a, d)
          /\ Caused(a, d)' = Caused(a, d) /\ Made(a, d)' = Made(a, d)
    BY DEF Posted, Served, Caused, Made
  <2> QED  BY <2>1 DEF ClientIInv, EachCausesOne
<1> QED  BY <1>1, <1>2, <1>3 DEF ClientIInv

\* The page makes one post more, of a number it has not used yet.
LEMMA SendStep ==
  ASSUME ClientIInv, Shape', ClientTypeOK', Numbered', NEW p, NEW a \in Attempts, NEW e \in BOOLEAN,
         p \notin net, p.id = a, p.isDone = e, net' = net \cup {p},
         UNCHANGED <<page, phase, sub, reopened, paidBySubmit>>,
         Made(a, e)' = Made(a, e) + 1,
         \A b \in Attempts, d \in BOOLEAN : b # a \/ d # e => Made(b, d)' = Made(b, d)
  PROVE  ClientIInv'
<1>1. ToldIsTrue'  BY DEF ClientIInv, ToldIsTrue
<1>2. Posted(a, e)' = Posted(a, e) \cup {p} /\ p \notin Posted(a, e)  BY DEF Posted
<1>3. \A b \in Attempts, d \in BOOLEAN : b # a \/ d # e => Posted(b, d)' = Posted(b, d)
  BY DEF Posted
<1>4. \A b \in Attempts, d \in BOOLEAN : Served(b, d)' = Served(b, d) /\ Caused(b, d)' = Caused(b, d)
  BY DEF Served, Caused
<1>5. IsFiniteSet(Posted(a, e))' /\ Cardinality(Posted(a, e))' = Cardinality(Posted(a, e)) + 1
  <2>1. IsFiniteSet(Posted(a, e))  BY DEF ClientIInv, EachCausesOne
  <2> QED  BY <1>2, <2>1, FS_AddElement
<1>6. ASSUME NEW b \in Attempts, NEW d \in BOOLEAN
      PROVE  /\ IsFiniteSet(Posted(b, d))' /\ IsFiniteSet(Served(b, d))'
             /\ (Caused(b, d) + Cardinality(Posted(b, d)) + Cardinality(Served(b, d)))' <= Made(b, d)'
  <2>1. /\ IsFiniteSet(Posted(b, d)) /\ IsFiniteSet(Served(b, d))
        /\ Caused(b, d) + Cardinality(Posted(b, d)) + Cardinality(Served(b, d)) <= Made(b, d)
    BY DEF ClientIInv, EachCausesOne
  <2>2. CASE b = a /\ d = e  BY <1>4, <1>5, <2>1, <2>2, ClientShapes
  <2>3. CASE b # a \/ d # e  BY <1>3, <1>4, <2>1, <2>3
  <2> QED  BY <2>2, <2>3
<1>7. EachCausesOne'  BY <1>6 DEF EachCausesOne
<1> QED  BY <1>1, <1>7 DEF ClientIInv

LEMMA ChangeStep ==
  ASSUME ClientIInv, Shape', NEW a \in Attempts, ChangeAnswer(a)
  PROVE  ClientIInv'
<1> DEFINE p == [id |-> a, version |-> version[a] + 1, isDone |-> FALSE, nr |-> 0]
<1>1. /\ version[a] < Len(Drafts)
      /\ version' = [version EXCEPT ![a] = version[a] + 1] /\ net' = net \cup {p}
      /\ UNCHANGED <<page, finals, phase, sub, reopened, paidBySubmit>>
  BY DEF ChangeAnswer, PostOf, vars, answerVars
<1>2. ClientTypeOK /\ Len(Drafts) \in Nat /\ MaxFinals \in Nat
  BY DraftsAssumption, LenProperties DEF ClientIInv
<1>3. version[a] + 1 \in 1..Len(Drafts) /\ version[a] \in Nat  BY <1>1, <1>2 DEF ClientTypeOK
<1>4. p \in Post  BY <1>2, <1>3 DEF Post
<1>5. p.id = a /\ p.version = version[a] + 1 /\ p.isDone = FALSE  OBVIOUS
<1> HIDE DEF p
<1>6. ClientTypeOK'  BY <1>1, <1>2, <1>3, <1>4 DEF ClientTypeOK
<1>7. version'[a] = version[a] + 1 /\ \A b \in Attempts \ {a} : version'[b] = version[b]
  BY <1>1, <1>2 DEF ClientTypeOK
<1>8. Numbered'
  <2>1. ASSUME NEW x \in net
        PROVE  IF x.isDone THEN x.nr <= finals[x.id] ELSE x.version <= version'[x.id]
    <3>1. x.id \in Attempts /\ x.version \in Nat /\ version[x.id] \in Nat  BY ClientShapes
    <3>2. IF x.isDone THEN x.nr <= finals[x.id] ELSE x.version <= version[x.id]
      BY DEF ClientIInv, Numbered
    <3>3. version'[x.id] = version[x.id] \/ version'[x.id] = version[x.id] + 1  BY <1>7, <3>1
    <3> QED  BY <3>1, <3>2, <3>3
  <2>2. p.version <= version'[p.id]  BY <1>3, <1>5, <1>7
  <2> QED  BY <1>1, <1>5, <2>1, <2>2 DEF Numbered
<1>9. p \notin net  BY <1>3, <1>5 DEF ClientIInv, Numbered
<1>10. /\ Made(a, FALSE)' = Made(a, FALSE) + 1
       /\ \A b \in Attempts, d \in BOOLEAN : b # a \/ d # FALSE => Made(b, d)' = Made(b, d)
  <2>1. \A b \in Attempts : Made(b, FALSE) = version[b] - 1 /\ Made(b, FALSE)' = version'[b] - 1
    BY DEF Made
  <2>2. \A b \in Attempts : Made(b, TRUE) = finals[b] /\ Made(b, TRUE)' = finals'[b]
    BY DEF Made
  <2>3. Made(a, FALSE)' = Made(a, FALSE) + 1
    <3>1. (version[a] - 1) + 1 = version[a] /\ (version[a] + 1) - 1 = version[a]  BY <1>3
    <3>2. Made(a, FALSE) = version[a] - 1 /\ Made(a, FALSE)' = version[a]  BY <1>7, <2>1, <3>1
    <3> QED  BY <3>1, <3>2, Zenon
  <2>4. \A b \in Attempts : b # a => Made(b, FALSE)' = Made(b, FALSE)  BY <1>7, <2>1
  <2>5. \A b \in Attempts : Made(b, TRUE)' = Made(b, TRUE)  BY <1>1, <2>2
  <2> QED  BY <2>3, <2>4, <2>5
<1> QED  BY <1>1, <1>5, <1>6, <1>8, <1>9, <1>10, SendStep

LEMMA HandInStep ==
  ASSUME ClientIInv, Shape', NEW a \in Attempts, HandIn(a)
  PROVE  ClientIInv'
<1> DEFINE p == [id |-> a, version |-> version[a], isDone |-> TRUE, nr |-> finals[a] + 1]
<1>1. /\ finals[a] < MaxFinals /\ finals' = [finals EXCEPT ![a] = finals[a] + 1]
      /\ net' = net \cup {p}
      /\ UNCHANGED <<page, version, phase, sub, reopened, paidBySubmit>>
  BY DEF HandIn, PostOf, vars, answerVars
<1>2. ClientTypeOK /\ MaxFinals \in Nat  BY DraftsAssumption DEF ClientIInv
<1>3. finals[a] + 1 \in 0..MaxFinals /\ finals[a] \in Nat  BY <1>1, <1>2 DEF ClientTypeOK
<1>4. p \in Post  BY <1>2, <1>3 DEF Post, ClientTypeOK
<1>5. p.id = a /\ p.nr = finals[a] + 1 /\ p.isDone = TRUE  OBVIOUS
<1> HIDE DEF p
<1>6. ClientTypeOK'  BY <1>1, <1>2, <1>3, <1>4 DEF ClientTypeOK
<1>7. finals'[a] = finals[a] + 1 /\ \A b \in Attempts \ {a} : finals'[b] = finals[b]
  BY <1>1, <1>2 DEF ClientTypeOK
<1>8. Numbered'
  <2>1. ASSUME NEW x \in net
        PROVE  IF x.isDone THEN x.nr <= finals'[x.id] ELSE x.version <= version[x.id]
    <3>1. x.id \in Attempts /\ x.nr \in Nat /\ finals[x.id] \in Nat  BY ClientShapes
    <3>2. IF x.isDone THEN x.nr <= finals[x.id] ELSE x.version <= version[x.id]
      BY DEF ClientIInv, Numbered
    <3>3. finals'[x.id] = finals[x.id] \/ finals'[x.id] = finals[x.id] + 1  BY <1>7, <3>1
    <3> QED  BY <3>1, <3>2, <3>3
  <2>2. p.nr <= finals'[p.id]  BY <1>3, <1>5, <1>7
  <2> QED  BY <1>1, <1>5, <2>1, <2>2 DEF Numbered
<1>9. p \notin net  BY <1>3, <1>5 DEF ClientIInv, Numbered
<1>10. /\ Made(a, TRUE)' = Made(a, TRUE) + 1
       /\ \A b \in Attempts, d \in BOOLEAN : b # a \/ d # TRUE => Made(b, d)' = Made(b, d)
  <2>1. \A b \in Attempts : Made(b, FALSE) = version[b] - 1 /\ Made(b, FALSE)' = version'[b] - 1
    BY DEF Made
  <2>2. \A b \in Attempts : Made(b, TRUE) = finals[b] /\ Made(b, TRUE)' = finals'[b]
    BY DEF Made
  <2>3. Made(a, TRUE)' = Made(a, TRUE) + 1  BY <1>3, <1>7, <2>2
  <2>4. \A b \in Attempts : b # a => Made(b, TRUE)' = Made(b, TRUE)  BY <1>7, <2>2
  <2>5. \A b \in Attempts : Made(b, FALSE)' = Made(b, FALSE)  BY <1>1, <2>1
  <2> QED  BY <2>3, <2>4, <2>5
<1> QED  BY <1>1, <1>5, <1>6, <1>8, <1>9, <1>10, SendStep

\* One post fewer is on its way.
LEMMA TakenPost ==
  ASSUME ClientIInv, NEW p \in net, net' = net \ {p}
  PROVE  /\ \A a \in Attempts, d \in BOOLEAN :
              /\ IsFiniteSet(Posted(a, d)') /\ Cardinality(Posted(a, d)') \in Nat
              /\ a # p.id \/ d # p.isDone => Posted(a, d)' = Posted(a, d)
         /\ Cardinality(Posted(p.id, p.isDone)) = Cardinality(Posted(p.id, p.isDone)') + 1
<1>1. p.id \in Attempts /\ p.isDone \in BOOLEAN  BY ClientShapes
<1>2. \A a \in Attempts, d \in BOOLEAN : IsFiniteSet(Posted(a, d))  BY DEF ClientIInv, EachCausesOne
<1>3. \A a \in Attempts, d \in BOOLEAN : Posted(a, d)' = Posted(a, d) \ {p}  BY DEF Posted
<1>4. \A a \in Attempts, d \in BOOLEAN : a # p.id \/ d # p.isDone => p \notin Posted(a, d)
  BY DEF Posted
<1>5. \A a \in Attempts, d \in BOOLEAN : IsFiniteSet(Posted(a, d)')  BY <1>2, <1>3, FS_RemoveElement
<1>6. p \in Posted(p.id, p.isDone)  BY DEF Posted
<1>7. Cardinality(Posted(p.id, p.isDone) \ {p}) = Cardinality(Posted(p.id, p.isDone)) - 1
  BY <1>1, <1>2, <1>6, FS_RemoveElement
<1>8. Cardinality(Posted(p.id, p.isDone)) \in Nat  BY <1>1, ClientShapes
<1>9. Cardinality(Posted(p.id, p.isDone)) = Cardinality(Posted(p.id, p.isDone)') + 1
  <2>1. PICK n \in Nat : n = Cardinality(Posted(p.id, p.isDone))  BY <1>8
  <2>2. Posted(p.id, p.isDone)' = Posted(p.id, p.isDone) \ {p}  BY <1>1, <1>3
  <2>3. Cardinality(Posted(p.id, p.isDone)') = n - 1  BY <1>7, <2>1, <2>2
  <2> QED  BY <2>1, <2>3
<1> QED  BY <1>3, <1>4, <1>5, <1>9, FS_CardinalityType

LEMMA LostStep ==
  ASSUME ClientIInv, Shape', NEW p \in net, PostLost(p)
  PROVE  ClientIInv'
<1>1. net' = net \ {p} /\ UNCHANGED <<page, version, finals, phase, sub, reopened, paidBySubmit>>
  BY DEF PostLost, vars, answerVars
<1>2. ClientTypeOK' /\ Numbered' /\ ToldIsTrue'
  BY <1>1 DEF ClientIInv, ClientTypeOK, Numbered, ToldIsTrue
<1>3. \A a \in Attempts, d \in BOOLEAN :
        /\ Served(a, d)' = Served(a, d) /\ Caused(a, d)' = Caused(a, d) /\ Made(a, d)' = Made(a, d)
  BY <1>1 DEF Served, Caused, Made
<1>4. ASSUME NEW a \in Attempts, NEW d \in BOOLEAN
      PROVE  /\ IsFiniteSet(Posted(a, d))' /\ IsFiniteSet(Served(a, d))'
             /\ (Caused(a, d) + Cardinality(Posted(a, d)) + Cardinality(Served(a, d)))' <= Made(a, d)'
  <2>1. /\ IsFiniteSet(Served(a, d))
        /\ Caused(a, d) + Cardinality(Posted(a, d)) + Cardinality(Served(a, d)) <= Made(a, d)
    BY DEF ClientIInv, EachCausesOne
  <2>2. /\ IsFiniteSet(Posted(a, d)') /\ Cardinality(Posted(a, d)') \in Nat
        /\ Cardinality(Posted(a, d)') <= Cardinality(Posted(a, d))
    <3>1. CASE a = p.id /\ d = p.isDone  BY <1>1, <3>1, TakenPost
    <3>2. CASE a # p.id \/ d # p.isDone  BY <1>1, <3>2, TakenPost
    <3> QED  BY <3>1, <3>2
  <2> QED  BY <1>3, <2>1, <2>2, ClientShapes
<1>5. EachCausesOne'  BY <1>4 DEF EachCausesOne
<1> QED  BY <1>2, <1>5 DEF ClientIInv

\* A post that arrives becomes a transaction.
LEMMA ReceiveStep ==
  ASSUME ClientIInv, Shape', NEW p \in net, NEW t \in Submitters, Receive(t, p)
  PROVE  ClientIInv'
<1>1. /\ net' = net \ {p} /\ sub[t].pc = "idle"
      /\ UNCHANGED <<page, version, finals, phase, reopened, paidBySubmit>>
  BY DEF Receive, SubmitDelete
<1>2. PICK pc \in {"deleted", "late"} :
        sub' = [sub EXCEPT ![t] = [pc |-> pc, id |-> p.id, sheet |-> Drafts[p.version],
                                   isDone |-> p.isDone]]
  BY DEF Receive, SubmitDelete
<1>3. p.id \in Attempts /\ p.isDone \in BOOLEAN /\ TypeOK  BY ClientShapes
<1>4. /\ sub'[t].pc # "idle" /\ sub'[t].id = p.id /\ sub'[t].isDone = p.isDone
      /\ \A u \in Submitters \ {t} : sub'[u] = sub[u]
  BY <1>2, <1>3 DEF TypeOK
<1>5. ClientTypeOK' /\ Numbered' /\ ToldIsTrue'
  BY <1>1 DEF ClientIInv, ClientTypeOK, Numbered, ToldIsTrue
<1>6. \A a \in Attempts, d \in BOOLEAN : Caused(a, d)' = Caused(a, d) /\ Made(a, d)' = Made(a, d)
  BY <1>1 DEF Caused, Made
<1>7. \A a \in Attempts, d \in BOOLEAN : a # p.id \/ d # p.isDone => Served(a, d)' = Served(a, d)
  BY <1>1, <1>4 DEF Served
<1>8. Served(p.id, p.isDone)' = Served(p.id, p.isDone) \cup {t} /\ t \notin Served(p.id, p.isDone)
  BY <1>1, <1>4 DEF Served
<1>9. ASSUME NEW a \in Attempts, NEW d \in BOOLEAN
      PROVE  /\ IsFiniteSet(Posted(a, d))' /\ IsFiniteSet(Served(a, d))'
             /\ (Caused(a, d) + Cardinality(Posted(a, d)) + Cardinality(Served(a, d)))' <= Made(a, d)'
  <2>1. /\ IsFiniteSet(Served(a, d))
        /\ Caused(a, d) + Cardinality(Posted(a, d)) + Cardinality(Served(a, d)) <= Made(a, d)
    BY DEF ClientIInv, EachCausesOne
  <2>2. IsFiniteSet(Posted(a, d)') /\ Cardinality(Posted(a, d)') \in Nat  BY <1>1, TakenPost
  <2>3. CASE a = p.id /\ d = p.isDone
    <3>1. Cardinality(Posted(a, d)) = Cardinality(Posted(a, d)') + 1  BY <1>1, <2>3, TakenPost
    <3>2. Served(a, d)' = Served(a, d) \cup {t} /\ t \notin Served(a, d)  BY <1>8, <2>3
    <3>3. IsFiniteSet(Served(a, d)') /\ Cardinality(Served(a, d)') = Cardinality(Served(a, d)) + 1
      BY <2>1, <3>2, FS_AddElement
    <3> QED  BY <1>6, <2>1, <2>2, <3>1, <3>3, ClientShapes
  <2>4. CASE a # p.id \/ d # p.isDone
    <3>1. Posted(a, d)' = Posted(a, d) /\ Served(a, d)' = Served(a, d)
      BY <1>1, <1>7, <2>4, TakenPost
    <3> QED  BY <1>6, <2>1, <2>2, <3>1
  <2> QED  BY <2>3, <2>4
<1>10. EachCausesOne'  BY <1>9 DEF EachCausesOne
<1> QED  BY <1>5, <1>10 DEF ClientIInv

\* A transaction ends: it commits and pays for a hand-in or reopens for a save, or it rolls
\* back, perhaps after its event.
LEMMA EndStep ==
  ASSUME ClientIInv, Shape', ClientTypeOK', ToldIsTrue',
         NEW t \in Submitters, sub[t].pc # "idle", sub'[t].pc = "idle",
         NEW paid \in {0, 1}, NEW again \in {0, 1},
         \A u \in Submitters \ {t} : /\ sub'[u].pc = "idle" <=> sub[u].pc = "idle"
                                     /\ sub'[u].id = sub[u].id /\ sub'[u].isDone = sub[u].isDone,
         paidBySubmit' = [paidBySubmit EXCEPT ![sub[t].id] = @ + paid],
         reopened' = [reopened EXCEPT ![sub[t].id] = @ + again],
         UNCHANGED <<version, finals, net>>,
         sub[t].isDone => again = 0, ~sub[t].isDone => paid = 0
  PROVE  ClientIInv'
<1>1. PICK a \in Attempts : a = sub[t].id  BY ClientShapes
<1>2. PICK e \in BOOLEAN : e = sub[t].isDone  BY ClientShapes
<1>3. /\ paidBySubmit'[a] = paidBySubmit[a] + paid /\ reopened'[a] = reopened[a] + again
      /\ \A b \in Attempts \ {a} : reopened'[b] = reopened[b] /\ paidBySubmit'[b] = paidBySubmit[b]
  BY <1>1, ClientShapes DEF TypeOK
<1>4. Numbered'  BY DEF ClientIInv, Numbered
<1>5. \A b \in Attempts, d \in BOOLEAN : Posted(b, d)' = Posted(b, d) /\ Made(b, d)' = Made(b, d)
  BY DEF Posted, Made
<1>6. \A b \in Attempts, d \in BOOLEAN : Served(b, d)' = Served(b, d) \ {t}  BY DEF Served
<1>7. \A b \in Attempts, d \in BOOLEAN : t \in Served(b, d) <=> (b = a /\ d = e)
  BY <1>1, <1>2 DEF Served
<1>8. \A b \in Attempts, d \in BOOLEAN : b # a \/ d # e => Caused(b, d)' = Caused(b, d)
  BY <1>2, <1>3, ClientShapes DEF Caused
<1>9. Caused(a, e)' <= Caused(a, e) + 1 /\ Caused(a, e)' \in Nat
  BY <1>3, ClientShapes DEF Caused
<1>10. ASSUME NEW b \in Attempts, NEW d \in BOOLEAN
      PROVE  /\ IsFiniteSet(Posted(b, d))' /\ IsFiniteSet(Served(b, d))'
             /\ (Caused(b, d) + Cardinality(Posted(b, d)) + Cardinality(Served(b, d)))' <= Made(b, d)'
  <2>1. /\ IsFiniteSet(Posted(b, d)) /\ IsFiniteSet(Served(b, d))
        /\ Caused(b, d) + Cardinality(Posted(b, d)) + Cardinality(Served(b, d)) <= Made(b, d)
    BY DEF ClientIInv, EachCausesOne
  <2>2. IsFiniteSet(Served(b, d)')  BY <1>6, <2>1, FS_RemoveElement
  <2>3. CASE b = a /\ d = e
    <3>1. Cardinality(Served(b, d) \ {t}) = Cardinality(Served(b, d)) - 1
      BY <1>7, <2>1, <2>3, FS_RemoveElement
    <3>2. Cardinality(Served(b, d)') = Cardinality(Served(b, d)) - 1  BY <1>6, <3>1
    <3>3. Caused(b, d)' <= Caused(b, d) + 1 /\ Caused(b, d)' \in Nat  BY <1>9, <2>3
    <3> QED  BY <1>5, <2>1, <2>2, <3>2, <3>3, ClientShapes
  <2>4. CASE b # a \/ d # e
    <3>1. Served(b, d)' = Served(b, d)
      <4>1. Served(b, d)' = Served(b, d) \ {t}  BY <1>6
      <4>2. t \notin Served(b, d)  BY <1>7, <2>4
      <4> QED  BY <4>1, <4>2
    <3>2. Caused(b, d)' = Caused(b, d)  BY <1>8, <2>4
    <3> QED  BY <1>5, <2>1, <3>1, <3>2
  <2> QED  BY <2>3, <2>4
<1>11. EachCausesOne'  BY <1>10 DEF EachCausesOne
<1> QED  BY <1>4, <1>11 DEF ClientIInv

LEMMA AnswerStep ==
  ASSUME ClientIInv, Shape', NEW t \in Submitters, Answer(t) \/ AnswerLost(t)
  PROVE  ClientIInv'
<1>1. TypeOK /\ ClientTypeOK  BY ClientShapes
<1>2. PICK a \in Attempts : a = sub[t].id
  BY ClientShapes DEF Answer, AnswerLost, SubmitCommit
<1>3. PICK e \in BOOLEAN : e = sub[t].isDone  BY ClientShapes
<1>4. PICK paid \in {0, 1} : paid = Pays(sub[t].isDone)  BY DEF Pays
<1>5. PICK again \in {0, 1} : again = IF phase[a] = "done" /\ ~sub[t].isDone THEN 1 ELSE 0
  OBVIOUS
<1>6. SubmitCommit(t) /\ UNCHANGED <<version, finals, net>>
  BY DEF Answer, AnswerLost, clientVars
<1>7. /\ sub[t].pc # "idle" /\ sub' = [sub EXCEPT ![t] = NothingSent]
      /\ paidBySubmit' = [paidBySubmit EXCEPT ![a] = @ + paid]
      /\ phase' = [phase EXCEPT ![a] = IF e THEN "done" ELSE "open"]
      /\ reopened' = [reopened EXCEPT ![a] = IF phase[a] = "done" /\ ~sub[t].isDone THEN @ + 1 ELSE @]
  BY <1>2, <1>3, <1>4, <1>6 DEF SubmitCommit
<1>8. reopened' = [reopened EXCEPT ![a] = @ + again]
  <2>1. reopened[a] \in Nat  BY <1>1 DEF TypeOK
  <2>2. (IF phase[a] = "done" /\ ~sub[t].isDone THEN reopened[a] + 1 ELSE reopened[a])
          = reopened[a] + again
    BY <1>5, <2>1
  <2> QED  BY <1>7, <2>2
<1>9. sub'[t].pc = "idle" /\ \A u \in Submitters \ {t} : sub'[u] = sub[u]
  BY <1>1, <1>7 DEF TypeOK, NothingSent
<1>10. /\ sub[t].isDone => again = 0 /\ paid = 1
       /\ ~sub[t].isDone => paid = 0
  BY <1>4, <1>5 DEF Pays
<1>11. \/ page' = page
       \/ e /\ page[a] = "answering" /\ page' = [page EXCEPT ![a] = "told"]
  <2>1. CASE AnswerLost(t)  BY <2>1 DEF AnswerLost, clientVars
  <2>2. CASE Answer(t)
    <3>1. page' = [page EXCEPT ![a] = IF e /\ page[a] = "answering" THEN "told" ELSE page[a]]
      BY <1>2, <1>3, <2>2 DEF Answer, AfterSuccess
    <3> QED  BY <1>1, <3>1 DEF ClientTypeOK
  <2> QED  BY <2>1, <2>2
<1>12. ClientTypeOK'  BY <1>1, <1>6, <1>11 DEF ClientTypeOK
<1>13. ToldIsTrue'
  <2>1. /\ paidBySubmit'[a] = paidBySubmit[a] + paid /\ reopened'[a] = reopened[a] + again
        /\ phase'[a] = IF e THEN "done" ELSE "open"
        /\ \A b \in Attempts \ {a} : /\ reopened'[b] = reopened[b] /\ phase'[b] = phase[b]
                                     /\ paidBySubmit'[b] = paidBySubmit[b]
    BY <1>1, <1>7, <1>8 DEF TypeOK
  <2>2. \A b \in Attempts : page'[b] \in {"told", "left"} =>
          page[b] \in {"told", "left"} \/ (b = a /\ e)
    BY <1>1, <1>11 DEF ClientTypeOK
  <2>3. ASSUME NEW b \in Attempts, page'[b] \in {"told", "left"}
        PROVE  paidBySubmit'[b] > 0 /\ (phase'[b] = "done" \/ reopened'[b] > 0)
    <3>1. CASE b # a  BY <2>1, <2>2, <2>3, <3>1 DEF ClientIInv, ToldIsTrue
    <3>2. CASE b = a /\ e  BY <1>3, <1>10, <2>1, <3>2, ClientShapes
    <3>3. CASE b = a /\ ~e
      <4>1. paidBySubmit[a] > 0 /\ (phase[a] = "done" \/ reopened[a] > 0)
        BY <2>2, <2>3, <3>3 DEF ClientIInv, ToldIsTrue
      <4>2. phase[a] = "done" => again = 1  BY <1>3, <1>5, <3>3
      <4> QED  BY <2>1, <3>3, <4>1, <4>2, ClientShapes
    <3> QED  BY <3>1, <3>2, <3>3
  <2> QED  BY <2>3 DEF ToldIsTrue
<1>14. paidBySubmit' = [paidBySubmit EXCEPT ![sub[t].id] = @ + paid]  BY <1>2, <1>7
<1>15. reopened' = [reopened EXCEPT ![sub[t].id] = @ + again]  BY <1>2, <1>8
<1> QED  BY <1>6, <1>7, <1>9, <1>10, <1>12, <1>13, <1>14, <1>15, EndStep

LEMMA RefuseStep ==
  ASSUME ClientIInv, Shape', NEW t \in Submitters, Refuse(t)
  PROVE  ClientIInv'
<1>1. TypeOK /\ ClientTypeOK  BY ClientShapes
<1>2. PICK a \in Attempts : a = sub[t].id  BY ClientShapes DEF Refuse, SubmitAbort
<1>3. SubmitAbort(t) /\ UNCHANGED <<page, version, finals, net, reopened, phase>>
  BY DEF Refuse, SubmitAbort, clientVars
<1>4. PICK paid \in {0, 1} : /\ paidBySubmit' = [paidBySubmit EXCEPT ![a] = @ + paid]
                             /\ ~sub[t].isDone => paid = 0
  <2>1. paidBySubmit' = paidBySubmit \/ paidBySubmit' = [paidBySubmit EXCEPT ![a] = @ + Pays(sub[t].isDone)]
    BY <1>2, <1>3 DEF SubmitAbort
  <2>2. CASE paidBySubmit' = paidBySubmit
    <3>1. paidBySubmit' = [paidBySubmit EXCEPT ![a] = @ + 0]  BY <1>1, <2>2 DEF TypeOK
    <3> QED  BY <3>1
  <2>3. CASE paidBySubmit' = [paidBySubmit EXCEPT ![a] = @ + Pays(sub[t].isDone)]
    BY <2>3 DEF Pays
  <2> QED  BY <2>1, <2>2, <2>3
<1>5. reopened' = [reopened EXCEPT ![a] = @ + 0]  BY <1>1, <1>3 DEF TypeOK
<1>6. sub[t].pc # "idle"  BY <1>3 DEF SubmitAbort
<1>7. /\ sub'[t].pc = "idle"
      /\ \A u \in Submitters \ {t} : /\ sub'[u].pc = "idle" <=> sub[u].pc = "idle"
                                     /\ sub'[u].id = sub[u].id /\ sub'[u].isDone = sub[u].isDone
  <2>1. PICK freed : freed = [sub EXCEPT ![t] = NothingSent]  OBVIOUS
  <2>2. /\ freed[t].pc = "idle" /\ \A u \in Submitters \ {t} : freed[u] = sub[u]
        /\ freed = [u \in Submitters |-> IF u = t THEN NothingSent ELSE sub[u]]
    BY <1>1, <2>1 DEF TypeOK, NothingSent
  <2>3. \/ sub' = freed
        \/ \E u \in Submitters : /\ u # t /\ sub[u].pc = "late"
                                 /\ sub' = [freed EXCEPT ![u].pc = "deleted"]
    BY <1>3, <2>1 DEF SubmitAbort, Late
  <2>4. CASE sub' = freed  BY <2>2, <2>4
  <2>5. ASSUME NEW u \in Submitters, u # t, sub[u].pc = "late", sub' = [freed EXCEPT ![u].pc = "deleted"]
        PROVE  /\ sub'[t].pc = "idle"
               /\ \A v \in Submitters \ {t} : /\ sub'[v].pc = "idle" <=> sub[v].pc = "idle"
                                              /\ sub'[v].id = sub[v].id /\ sub'[v].isDone = sub[v].isDone
    <3>1. sub'[t] = freed[t] /\ \A v \in Submitters \ {u} : sub'[v] = freed[v]
      BY <2>2, <2>5
    <3>2. sub'[u] = [freed[u] EXCEPT !.pc = "deleted"] /\ freed[u] = sub[u]  BY <2>2, <2>5
    <3>3. sub[u] \in [pc : {"idle", "deleted", "late"}, id : Attempts \cup {NoAttempt},
                      sheet : Sheets \cup {NoSheet}, isDone : BOOLEAN]
      BY <1>1 DEF TypeOK
    <3>4. sub'[u].pc = "deleted" /\ sub'[u].id = sub[u].id /\ sub'[u].isDone = sub[u].isDone
      BY <3>2, <3>3
    <3> QED  BY <2>2, <2>5, <3>1, <3>4
  <2> QED  BY <2>3, <2>4, <2>5
<1>8. ClientTypeOK'  BY <1>1, <1>3 DEF ClientTypeOK
<1>9. ToldIsTrue'
  <2>1. \A b \in Attempts : paidBySubmit[b] > 0 => paidBySubmit'[b] > 0
    <3>1. paidBySubmit'[a] = paidBySubmit[a] + paid
          /\ \A b \in Attempts \ {a} : paidBySubmit'[b] = paidBySubmit[b]
      BY <1>1, <1>4 DEF TypeOK
    <3> QED  BY <3>1, ClientShapes
  <2> QED  BY <1>3, <2>1 DEF ClientIInv, ToldIsTrue
<1>10. paidBySubmit' = [paidBySubmit EXCEPT ![sub[t].id] = @ + paid]  BY <1>2, <1>4
<1>11. reopened' = [reopened EXCEPT ![sub[t].id] = @ + 0]  BY <1>2, <1>5
<1> QED  BY <1>3, <1>4, <1>6, <1>7, <1>8, <1>9, <1>10, <1>11, EndStep

\* The clock, takeExam and the job leave a finished attempt finished.
LEMMA ServerKeepsDone ==
  ASSUME Shape, ServerNext, NEW a \in Attempts, phase[a] = "done"
  PROVE  phase'[a] = "done"
<1> USE DEF Shape, TypeOK
<1>1. CASE Tick  BY <1>1 DEF Tick
<1>2. CASE TakeNext
  <2>1. ASSUME NEW r \in Requests, NEW b \in Attempts, TakeInsert(r, b) PROVE phase'[a] = "done"
    BY <2>1 DEF TakeInsert
  <2>2. ASSUME NEW r \in Requests, TakeCommit(r) \/ TakeAbort(r) PROVE phase'[a] = "done"
    <3>1. take[r].id # a
      BY <2>2, ConstantsAssumption DEF TakeCommit, TakeAbort, TakeWellFormed
    <3> QED  BY <2>2, <3>1 DEF TakeCommit, TakeAbort
  <2> QED  BY <1>2, <2>1, <2>2 DEF TakeNext, TakeCheck
<1>3. CASE JobNext
  BY <1>3 DEF JobNext, QueueAdd, JobStart, JobUpdate, StillOpen, JobEmit, JobComplete, JobLost
<1> QED  BY <1>1, <1>2, <1>3 DEF ServerNext

LEMMA ClientNextIInv == ClientIInv /\ [ClientNext]_allVars => ClientIInv'
<1> SUFFICES ASSUME ClientIInv, [ClientNext]_allVars PROVE ClientIInv'  OBVIOUS
<1>1. Shape'  BY ClientIsServed, ShapeNext DEF ClientIInv
<1>2. ClientTypeOK  BY DEF ClientIInv
<1>3. CASE UNCHANGED allVars
  <2>1. UNCHANGED <<page, version, finals, net, phase, sub, reopened, paidBySubmit>>
    BY <1>3 DEF allVars, vars, clientVars, answerVars
  <2>2. ClientTypeOK'  BY <1>2, <2>1 DEF ClientTypeOK
  <2> QED  BY <1>1, <2>1, <2>2, UnseenStep
<1>4. ASSUME NEW a \in Attempts, OpenPage(a) \/ Leave(a) PROVE ClientIInv'
  <2>1. /\ UNCHANGED <<version, finals, net, phase, sub, reopened, paidBySubmit>>
        /\ \/ page[a] = "unopened" /\ page' = [page EXCEPT ![a] = "answering"]
           \/ page[a] = "told" /\ page' = [page EXCEPT ![a] = "left"]
    BY <1>4 DEF OpenPage, Leave, vars, answerVars
  <2>2. ClientTypeOK'  BY <1>2, <2>1 DEF ClientTypeOK
  <2>3. \A b \in Attempts : page'[b] \in {"told", "left"} => page[b] \in {"told", "left"}
    BY <1>2, <2>1 DEF ClientTypeOK
  <2> QED  BY <1>1, <2>1, <2>2, <2>3, UnseenStep
<1>5. CASE ServerNext /\ UNCHANGED clientVars
  <2>1. UNCHANGED <<page, version, finals, net>>  BY <1>5 DEF clientVars
  <2>2. UNCHANGED <<sub, reopened, paidBySubmit>>
    <3>1. Tick => UNCHANGED <<sub, reopened, paidBySubmit>>  BY DEF Tick, answerVars
    <3>2. TakeNext => UNCHANGED <<sub, reopened, paidBySubmit>>
      BY DEF TakeNext, TakeCheck, TakeInsert, TakeCommit, TakeAbort, answerVars
    <3>3. JobNext => UNCHANGED <<sub, reopened, paidBySubmit>>
      BY DEF JobNext, QueueAdd, JobStart, JobUpdate, JobEmit, JobComplete, JobLost, answerVars
    <3> QED  BY <1>5, <3>1, <3>2, <3>3 DEF ServerNext
  <2>3. ClientTypeOK'  BY <1>2, <2>1 DEF ClientTypeOK
  <2>4. \A a \in Attempts : phase[a] = "done" => phase'[a] = "done"
    BY <1>5, ServerKeepsDone DEF ClientIInv
  <2> QED  BY <1>1, <2>1, <2>2, <2>3, <2>4, UnseenStep
<1> QED
  BY <1>1, <1>3, <1>4, <1>5, ChangeStep, HandInStep, LostStep, ReceiveStep, AnswerStep, RefuseStep
  DEF ClientNext

\* The strengthened invariant of the page and the server holds in every state.
THEOREM ClientInvariant == ClientSpec => []ClientIInv
<1>1. ClientInit => ClientIInv  BY ClientInitIInv
<1>2. ClientIInv /\ [ClientNext]_allVars => ClientIInv'  BY ClientNextIInv
<1> QED  BY <1>1, <1>2, PTL DEF ClientSpec

\* Whatever a page posts, and however the network delays, reorders and loses it, the server
\* goes on as it does alone: what holds of the server holds under its pages.
THEOREM PagesAreServed == ClientSpec => Spec
<1>1. ClientInit => Init  BY DEF ClientInit
<1>2. ClientIInv /\ [ClientNext]_allVars => [Next]_vars  BY ClientIsServed DEF ClientIInv
<1> QED  BY <1>1, <1>2, ClientInvariant, PTL DEF ClientSpec, Spec

\* The page's state and its posts keep their shapes.
THEOREM ClientTypeCorrect == ClientSpec => []ClientTypeOK
<1>1. ClientIInv => ClientTypeOK  BY DEF ClientIInv
<1> QED  BY <1>1, ClientInvariant, PTL

\* The page tells the student that the exam is handed in only when a hand-in has been paid for,
\* and however many hand-ins are under way at once, each pays at most once.
THEOREM HandInsArePaid == ClientSpec => []HandedInIsPaid
<1>1. ClientIInv => HandedInIsPaid
  <2> SUFFICES ASSUME ClientIInv, NEW a \in Attempts
               PROVE  /\ page[a] \in {"told", "left"} => paidBySubmit[a] > 0
                      /\ paidBySubmit[a] <= finals[a]
    BY DEF HandedInIsPaid
  <2>1. Caused(a, TRUE) = paidBySubmit[a] /\ Made(a, TRUE) = finals[a]  BY DEF Caused, Made
  <2>2. Caused(a, TRUE) + Cardinality(Posted(a, TRUE)) + Cardinality(Served(a, TRUE)) <= Made(a, TRUE)
    BY DEF ClientIInv, EachCausesOne
  <2>3. /\ paidBySubmit[a] \in Nat /\ finals[a] \in Nat
        /\ Cardinality(Posted(a, TRUE)) \in Nat /\ Cardinality(Served(a, TRUE)) \in Nat
    BY ClientShapes
  <2>4. paidBySubmit[a] <= finals[a]
    <3>1. PICK x \in Nat : x = Cardinality(Posted(a, TRUE))  BY <2>3
    <3>2. PICK y \in Nat : y = Cardinality(Served(a, TRUE))  BY <2>3
    <3>3. paidBySubmit[a] + x + y <= finals[a]  BY <2>1, <2>2, <3>1, <3>2
    <3>4. paidBySubmit[a] \in Nat /\ finals[a] \in Nat  BY <2>3
    <3> QED  BY <3>3, <3>4
  <2> QED  BY <2>4 DEF ClientIInv, ToldIsTrue
<1> QED  BY <1>1, ClientInvariant, PTL

\* Each reopening of a done attempt uses up one save of the page, however saves are delayed and
\* also when they were made after the hand-in; an attempt called handed in is open only so.
THEOREM SavesReopenOnce == ClientSpec => []ReopenedBySaves
<1>1. ClientIInv => ReopenedBySaves
  <2> SUFFICES ASSUME ClientIInv, NEW a \in Attempts
               PROVE  /\ reopened[a] + Cardinality({p \in net : p.id = a /\ ~p.isDone}) < version[a]
                      /\ page[a] \in {"told", "left"} /\ phase[a] = "open" => reopened[a] > 0
    BY DEF ReopenedBySaves
  <2>1. Caused(a, FALSE) = reopened[a] /\ Made(a, FALSE) = version[a] - 1  BY DEF Caused, Made
  <2>2. Caused(a, FALSE) + Cardinality(Posted(a, FALSE)) + Cardinality(Served(a, FALSE)) <= Made(a, FALSE)
    BY DEF ClientIInv, EachCausesOne
  <2>3. Posted(a, FALSE) = {p \in net : p.id = a /\ ~p.isDone}  BY ClientShapes DEF Posted
  <2>4. /\ reopened[a] \in Nat /\ version[a] \in Nat
        /\ Cardinality(Posted(a, FALSE)) \in Nat /\ Cardinality(Served(a, FALSE)) \in Nat
    BY ClientShapes
  <2>5. reopened[a] + Cardinality(Posted(a, FALSE)) < version[a]
    <3>1. PICK x \in Nat : x = Cardinality(Posted(a, FALSE))  BY <2>4
    <3>2. PICK y \in Nat : y = Cardinality(Served(a, FALSE))  BY <2>4
    <3>3. reopened[a] + x + y <= version[a] - 1  BY <2>1, <2>2, <3>1, <3>2
    <3>4. reopened[a] \in Nat /\ version[a] \in Nat  BY <2>4
    <3>5. reopened[a] + x < version[a]  BY <3>3, <3>4
    <3> QED  BY <3>1, <3>5, Zenon
  <2> QED  BY <2>3, <2>5 DEF ClientIInv, ToldIsTrue
<1> QED  BY <1>1, ClientInvariant, PTL

\* Every theorem about the attempts holds under pages: saves, hand-ins and lost answers leave
\* their bounds, payments, completion times and scores as they are with any other client.
THEOREM PagesKeepTheAttempts ==
  ClientSpec => /\ [](TypeOK /\ AttemptBound /\ DoneIsPaid /\ JobPaysOnce /\ AnswersAgree)
                /\ [](TimeoutAhead) /\ JobKeepsDoneAt
BY PagesAreServed, TypeCorrect, AttemptsAreBounded, FinishedIsPaid, TimeoutPaysOnce,
   TimeoutIsAhead, TimeoutKeepsDoneAt, KeptAnswersAgree, PTL
==============================================================================
