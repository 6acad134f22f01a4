----------------------------- MODULE ExamAttempt -----------------------------
(***************************************************************************)
(* The life of the attempts (rows of Exam_taken) at one exam session, as   *)
(* the tutor service runs it: takeExam creates an attempt and asks for a   *)
(* timeout job, submitExam saves or closes it, the Bull job                *)
(* 'exam-taken-timeout' closes it when its time is over, and closing it    *)
(* emits 'exam_taken.submit', the event that pays the student's reward.    *)
(*                                                                         *)
(* Every request is split where the code awaits the database.  Statements  *)
(* of one transaction are merged up to the next point where another        *)
(* request can change what it reads; what a transaction writes is seen by  *)
(* the others when it commits (PostgreSQL's READ COMMITTED).               *)
(***************************************************************************)
EXTENDS Integers, FiniteSets

CONSTANTS
  Students,    \* students with a row in Learning for the class
  Attempts,    \* identifiers of Exam_taken rows; each is used once
  Requests,    \* takeExam requests the service can run at the same time
  Submitters,  \* submitExam requests the service can run at the same time
  Questions,   \* the questions of the exam
  Unit,        \* the parts a question's full mark is divided into
  Sheets,      \* the answer sheets a client may send, as the parts each answer earns
  Limits,      \* the values updateSession may give to limit_taken
  StartAt, ExpireAt,  \* the session's window
  Duration,    \* exam.duration
  Practice,    \* whether exam_type is 'practice'
  Horizon,     \* bound on the clock
  MaxSubmits,  \* bound on the submissions of one attempt
  MaxFaults,   \* bound on crashes and failures of Redis or the database
  NoStudent, NoAttempt, NoSheet

Earned == 0..Unit

ASSUME ConstantsAssumption ==
  /\ IsFiniteSet(Requests) /\ Requests # {}
  /\ IsFiniteSet(Attempts) /\ IsFiniteSet(Questions)
  /\ NoStudent \notin Students /\ NoAttempt \notin Attempts /\ NoSheet \notin Sheets
  /\ Unit \in Nat \ {0} /\ Sheets \subseteq [Questions -> Earned]
  /\ Limits \subseteq Nat /\ Limits # {}
  /\ StartAt \in Nat /\ ExpireAt \in Nat /\ Duration \in Nat
  /\ Practice \in BOOLEAN
  /\ Horizon \in Nat /\ MaxSubmits \in Nat /\ MaxFaults \in Nat

VARIABLES
  now,       \* the clock
  limit,     \* exam_session.limit_taken
  topLimit,  \* history: the largest limit_taken so far
  take,      \* per request: how far takeExam has come, and for whom
  phase,     \* per attempt: no row yet, uncommitted, open (isDone = false), done, rolled back
  owner,     \* exam_taken.student_uid
  due,       \* timeoutAt of the attempt's job
  doneAt,    \* exam_taken.doneAt
  job,       \* the attempt's 'exam-taken-timeout' job
  sub,       \* per submitter: how far submitExam has come
  begun,     \* submissions started so far, per attempt
  rows,      \* Question_for_exam_taken: the answer kept for each question
  flagged,   \* the questions whose row has isCorrect = true
  score,     \* exam_taken.final_score, in parts of a question's mark
  completed, \* exam_taken.total_ques_completed
  overlapped,\* history: the last submission kept found the rows of another one
  reopened,  \* history: how often a save turned a done attempt back into an open one
  paidBySubmit, paidByJob, \* 'exam_taken.submit' events emitted, per attempt
  stalled,   \* attempts whose job Bull has already given back once
  faults     \* crashes and failures so far

takeVars == <<limit, topLimit, take, owner, due>>
answerVars == <<sub, begun, rows, flagged, score, completed, overlapped, reopened, paidBySubmit>>
jobVars == <<job, paidByJob, stalled>>
vars == <<now, takeVars, phase, doneAt, jobVars, answerVars, faults>>

------------------------------------------------------------------------------
(* What the guards read *)

Taken(s) == {a \in Attempts : owner[a] = s /\ phase[a] \in {"open", "done"}}

InFlight(s) == {r \in Requests : take[r].pc # "idle" /\ take[r].student = s}

Min2(x, y) == IF x < y THEN x ELSE y

InWindow == StartAt <= now /\ now < ExpireAt

HasAttemptsLeft_OffByOne(s) == Cardinality(Taken(s)) <= limit

HasAttemptsLeft(s) == Cardinality(Taken(s)) < limit

TimeoutAt_SignError == now - Duration

TimeoutAt == IF Practice THEN now + Duration ELSE Min2(now + Duration, ExpireAt)

(* calculateScore: a right single choice earns the whole mark, a multiple choice the share  *)
(* (right - wrong) / all right ones when positive.  The score adds up every part earned,    *)
(* a question counts as completed when it earns anything, and is flagged above one half.    *)

Score(sheet) == Cardinality({p \in Questions \X (1..Unit) : p[2] <= sheet[p[1]]})

Completed(sheet) == Cardinality({q \in Questions : sheet[q] > 0})

Correct(sheet) == {q \in Questions : 2 * sheet[q] > Unit}

Blank == [q \in Questions |-> 0]

NobodyTaking == [pc |-> "idle", student |-> NoStudent, id |-> NoAttempt]
NothingSent == [pc |-> "idle", id |-> NoAttempt, sheet |-> NoSheet, isDone |-> FALSE]

Init ==
  /\ now = 0
  /\ limit \in Limits /\ topLimit = limit
  /\ take = [r \in Requests |-> NobodyTaking]
  /\ phase = [a \in Attempts |-> "free"]
  /\ owner = [a \in Attempts |-> NoStudent]
  /\ due = [a \in Attempts |-> 0]
  /\ doneAt = [a \in Attempts |-> 0]
  /\ job = [a \in Attempts |-> "none"]
  /\ sub = [t \in Submitters |-> NothingSent]
  /\ begun = [a \in Attempts |-> 0]
  /\ rows = [a \in Attempts |-> Blank]
  /\ flagged = [a \in Attempts |-> {}]
  /\ score = [a \in Attempts |-> 0] /\ completed = [a \in Attempts |-> 0]
  /\ overlapped = [a \in Attempts |-> FALSE]
  /\ reopened = [a \in Attempts |-> 0]
  /\ paidBySubmit = [a \in Attempts |-> 0]
  /\ paidByJob = [a \in Attempts |-> 0]
  /\ stalled = {}
  /\ faults = 0

Tick ==
  /\ now < Horizon
  /\ now' = now + 1
  /\ UNCHANGED <<takeVars, phase, doneAt, jobVars, answerVars, faults>>

\* The tutor edits the session; nothing compares the new limit with the attempts made.
UpdateSession(l) ==
  /\ limit' = l
  /\ topLimit' = IF l > topLimit THEN l ELSE topLimit
  /\ UNCHANGED <<now, take, owner, due, phase, doneAt, jobVars, answerVars, faults>>

------------------------------------------------------------------------------
(* takeExam *)

\* The guards read through this.prisma, outside the transaction, so they take no lock.
TakeCheck(r, s) ==
  /\ take[r].pc = "idle"
  /\ InWindow
  /\ HasAttemptsLeft(s)
  /\ take' = [take EXCEPT ![r] = [pc |-> "passed", student |-> s, id |-> NoAttempt]]
  /\ UNCHANGED <<now, limit, topLimit, owner, due, phase, doneAt, jobVars, answerVars, faults>>

\* The transaction inserts the attempt and its rows and emits 'exam_taken.new', uncommitted.
TakeInsert(r, a) ==
  /\ take[r].pc = "passed"
  /\ phase[a] = "free"
  /\ now + Duration <= Horizon
  /\ take' = [take EXCEPT ![r].pc = "inserted", ![r].id = a]
  /\ phase' = [phase EXCEPT ![a] = "inserted"]
  /\ owner' = [owner EXCEPT ![a] = take[r].student]
  /\ due' = [due EXCEPT ![a] = TimeoutAt]
  /\ doneAt' = [doneAt EXCEPT ![a] = now]
  /\ job' = [job EXCEPT ![a] = "adding"]
  /\ rows' = [rows EXCEPT ![a] = Blank]
  /\ UNCHANGED <<now, limit, topLimit, paidByJob, stalled, sub, begun, flagged, score,
                 completed, overlapped, reopened, paidBySubmit, faults>>

TakeCommit(r) ==
  /\ take[r].pc = "inserted"
  /\ phase' = [phase EXCEPT ![take[r].id] = "open"]
  /\ take' = [take EXCEPT ![r] = NobodyTaking]
  /\ UNCHANGED <<now, limit, topLimit, owner, due, doneAt, jobVars, answerVars, faults>>

\* The transaction fails: its rows vanish, the event it emitted does not.
TakeAbort(r) ==
  /\ take[r].pc # "idle"
  /\ phase' = [a \in Attempts |-> IF a = take[r].id THEN "void" ELSE phase[a]]
  /\ take' = [take EXCEPT ![r] = NobodyTaking]
  /\ UNCHANGED <<now, limit, topLimit, owner, due, doneAt, jobVars, answerVars, faults>>

------------------------------------------------------------------------------
(* The timeout job: 'exam_taken.new' -> Bull -> handleExamTakenTimeout *)

QueueAdd(a) ==
  /\ job[a] = "adding"
  /\ job' = [job EXCEPT ![a] = "delayed"]
  /\ UNCHANGED <<now, takeVars, phase, doneAt, paidByJob, stalled, answerVars, faults>>

StillOpen_Forgotten(a) == TRUE
StillOpen_Inverted(a) == phase[a] = "done"

\* The filter isDone: false of both statements of the handler.
StillOpen(a) == phase[a] = "open"

JobStart(a) ==
  /\ job[a] = "delayed" /\ now >= due[a]
  /\ job' = [job EXCEPT ![a] = IF StillOpen(a) THEN "checked" ELSE "gone"]
  /\ UNCHANGED <<now, takeVars, phase, doneAt, paidByJob, stalled, answerVars, faults>>

\* The update repeats the filter; when the attempt was closed meanwhile it throws,
\* the handler logs the error and the job counts as completed.
JobUpdate(a) ==
  /\ job[a] = "checked"
  /\ IF StillOpen(a)
       THEN /\ phase' = [phase EXCEPT ![a] = "done"]
            /\ doneAt' = [doneAt EXCEPT ![a] = now]
            /\ job' = [job EXCEPT ![a] = "closed"]
       ELSE /\ job' = [job EXCEPT ![a] = "gone"]
            /\ UNCHANGED <<phase, doneAt>>
  /\ UNCHANGED <<now, takeVars, paidByJob, stalled, answerVars, faults>>

JobEmit(a) ==
  /\ job[a] = "closed"
  /\ paidByJob' = [paidByJob EXCEPT ![a] = @ + 1]
  /\ job' = [job EXCEPT ![a] = "emitted"]
  /\ UNCHANGED <<now, takeVars, phase, doneAt, stalled, answerVars, faults>>

\* The handler has returned and Bull moves the job to the completed ones.
JobComplete(a) ==
  /\ job[a] = "emitted"
  /\ job' = [job EXCEPT ![a] = "gone"]
  /\ UNCHANGED <<now, takeVars, phase, doneAt, paidByJob, stalled, answerVars, faults>>

\* Redis refuses the job, or the database fails under the handler.  Both catch the error
\* and only log it, so Bull sees a success and its three attempts are never used.
JobLost(a) ==
  /\ faults < MaxFaults
  /\ \/ job[a] \in {"adding", "checked"}
     \/ job[a] = "delayed" /\ now >= due[a]
  /\ job' = [job EXCEPT ![a] = "gone"]
  /\ faults' = faults + 1
  /\ UNCHANGED <<now, takeVars, phase, doneAt, paidByJob, stalled, answerVars>>

------------------------------------------------------------------------------
(* submitExam: delete the attempt's rows, insert those of the sheet, score the sheet,    *)
(* write the attempt, flag the right rows, emit, commit.  The delete of a second         *)
(* submission waits for the rows the first one deleted; when the first commits they are  *)
(* gone and the rows it inserted are not in the second one's snapshot, so the second     *)
(* deletes nothing ("late") and its createMany skips them: every sheet holds every       *)
(* question (buildPayload), so a late submission inserts nothing, yet scores its sheet.  *)

Holder(a) == {t \in Submitters : sub[t].pc = "deleted" /\ sub[t].id = a}
Late(a) == {t \in Submitters : sub[t].pc = "late" /\ sub[t].id = a}

SubmitDelete(t, a, sheet, isDone) ==
  /\ sub[t].pc = "idle"
  /\ phase[a] \in {"open", "done"}
  /\ begun[a] < MaxSubmits
  /\ begun' = [begun EXCEPT ![a] = @ + 1]
  /\ sub' = [sub EXCEPT ![t] = [pc |-> IF Holder(a) = {} THEN "deleted" ELSE "late",
                                id |-> a, sheet |-> sheet, isDone |-> isDone]]
  /\ UNCHANGED <<now, takeVars, phase, doneAt, jobVars, rows, flagged, score,
                 completed, overlapped, reopened, paidBySubmit, faults>>

RowsAfter(old, sheet, late) == IF late THEN old ELSE sheet

FlagsAfter_NotReset(old, sheet, late) == old \cup Correct(sheet)

FlagsAfter(old, sheet, late) == (IF late THEN old ELSE {}) \cup Correct(sheet)

Pays_Swapped(isDone) == IF isDone THEN 0 ELSE 1

Pays(isDone) == IF isDone THEN 1 ELSE 0

SubmitCommit(t) ==
  LET a == sub[t].id
      late == sub[t].pc = "late"
  IN /\ sub[t].pc = "deleted" \/ (late /\ Holder(a) = {})
     /\ rows' = [rows EXCEPT ![a] = RowsAfter(@, sub[t].sheet, late)]
     /\ flagged' = [flagged EXCEPT ![a] = FlagsAfter(@, sub[t].sheet, late)]
     /\ score' = [score EXCEPT ![a] = Score(sub[t].sheet)]
     /\ completed' = [completed EXCEPT ![a] = Completed(sub[t].sheet)]
     /\ overlapped' = [overlapped EXCEPT ![a] = late]
     /\ phase' = [phase EXCEPT ![a] = IF sub[t].isDone THEN "done" ELSE "open"]
     /\ reopened' = [reopened EXCEPT ![a] =
                        IF phase[a] = "done" /\ ~sub[t].isDone THEN @ + 1 ELSE @]
     /\ doneAt' = [doneAt EXCEPT ![a] = now]
     /\ paidBySubmit' = [paidBySubmit EXCEPT ![a] = @ + Pays(sub[t].isDone)]
     /\ sub' = [sub EXCEPT ![t] = NothingSent]
     /\ UNCHANGED <<now, takeVars, jobVars, begun, faults>>

\* The transaction rolls back, perhaps after its event was emitted; one of the deletes
\* that waited for it finds the old rows back and removes them.
SubmitAbort(t) ==
  LET a == sub[t].id
      waiting == IF sub[t].pc = "deleted" THEN Late(a) ELSE {}
      freed == [sub EXCEPT ![t] = NothingSent]
  IN /\ sub[t].pc # "idle"
     /\ \/ UNCHANGED paidBySubmit
        \/ /\ sub[t].pc = "deleted" \/ Holder(a) = {}
           /\ paidBySubmit' = [paidBySubmit EXCEPT ![a] = @ + Pays(sub[t].isDone)]
     /\ IF waiting = {} THEN sub' = freed
        ELSE \E u \in waiting : sub' = [freed EXCEPT ![u].pc = "deleted"]
     /\ UNCHANGED <<now, takeVars, phase, doneAt, jobVars, begun, rows, flagged, score,
                    completed, overlapped, reopened, faults>>

------------------------------------------------------------------------------
(* The service restarts: open transactions roll back, what was only in memory is lost, *)
(* and Bull gives back, once, a job whose worker died.                                 *)

Crash ==
  LET active == {a \in Attempts : job[a] \in {"checked", "closed", "emitted"}}
      lost == (active \cap stalled) \cup {a \in Attempts : job[a] = "adding"}
  IN /\ faults < MaxFaults
     /\ faults' = faults + 1
     /\ take' = [r \in Requests |-> NobodyTaking]
     /\ sub' = [t \in Submitters |-> NothingSent]
     /\ phase' = [a \in Attempts |-> IF phase[a] = "inserted" THEN "void" ELSE phase[a]]
     /\ job' = [a \in Attempts |-> IF a \in lost THEN "gone"
                                   ELSE IF a \in active THEN "delayed" ELSE job[a]]
     /\ stalled' = stalled \cup active
     /\ UNCHANGED <<now, limit, topLimit, owner, due, doneAt, paidByJob, begun, rows,
                    flagged, score, completed, overlapped, reopened, paidBySubmit>>

JobNext ==
  \E a \in Attempts : QueueAdd(a) \/ JobStart(a) \/ JobUpdate(a) \/ JobEmit(a)
                     \/ JobComplete(a) \/ JobLost(a)

TakeNext ==
  \E r \in Requests :
    \/ \E s \in Students : TakeCheck(r, s)
    \/ \E a \in Attempts : TakeInsert(r, a)
    \/ TakeCommit(r)
    \/ TakeAbort(r)

SubmitNext ==
  \E t \in Submitters :
    \/ \E a \in Attempts, sheet \in Sheets, isDone \in BOOLEAN : SubmitDelete(t, a, sheet, isDone)
    \/ SubmitCommit(t)
    \/ SubmitAbort(t)

Next == Tick \/ (\E l \in Limits : UpdateSession(l)) \/ TakeNext \/ JobNext \/ SubmitNext \/ Crash

Spec == Init /\ [][Next]_vars

\* Time passes, the event handler reaches Redis and a Bull worker runs due jobs to the end.
Fairness ==
  /\ WF_vars(Tick)
  /\ \A a \in Attempts : /\ WF_vars(QueueAdd(a)) /\ WF_vars(JobStart(a))
                         /\ WF_vars(JobUpdate(a)) /\ WF_vars(JobEmit(a))
                         /\ WF_vars(JobComplete(a))

FairSpec == Spec /\ Fairness

------------------------------------------------------------------------------
(* Properties *)

\* Every variable keeps its type: the shapes of the requests, attempts, jobs and answer
\* rows of exam_taken.service.ts and bull-queue.processor.ts.
TypeOK ==
  /\ now \in 0..Horizon
  /\ limit \in Limits /\ topLimit \in Nat
  /\ take \in [Requests -> [pc : {"idle", "passed", "inserted"},
                            student : Students \cup {NoStudent}, id : Attempts \cup {NoAttempt}]]
  /\ phase \in [Attempts -> {"free", "inserted", "open", "done", "void"}]
  /\ owner \in [Attempts -> Students \cup {NoStudent}]
  /\ due \in [Attempts -> Nat] /\ doneAt \in [Attempts -> Nat]
  /\ job \in [Attempts -> {"none", "adding", "delayed", "checked", "closed", "emitted", "gone"}]
  /\ sub \in [Submitters -> [pc : {"idle", "deleted", "late"}, id : Attempts \cup {NoAttempt},
                             sheet : Sheets \cup {NoSheet}, isDone : BOOLEAN]]
  /\ begun \in [Attempts -> Nat]
  /\ rows \in [Attempts -> [Questions -> Earned]]
  /\ flagged \in [Attempts -> SUBSET Questions]
  /\ score \in [Attempts -> Nat] /\ completed \in [Attempts -> Nat]
  /\ overlapped \in [Attempts -> BOOLEAN]
  /\ reopened \in [Attempts -> Nat]
  /\ paidBySubmit \in [Attempts -> Nat] /\ paidByJob \in [Attempts -> Nat]
  /\ stalled \subseteq Attempts
  /\ faults \in 0..MaxFaults

\* takeExam counts the attempts outside its transaction, so concurrent requests can pass
\* the guard together; still a student never gets more than one attempt per other running
\* request beyond the largest limit the session ever had.
AttemptBound ==
  \A s \in Students : Cardinality(Taken(s)) <= topLimit + Cardinality(Requests) - 1

\* A finished attempt has paid its reward, or the job that closed it is about to pay, or the
\* worker died over it: closing and emitting are separate steps of the handler.
DoneIsPaid ==
  \A a \in Attempts : phase[a] = "done" =>
    paidBySubmit[a] + paidByJob[a] > 0 \/ job[a] = "closed" \/ a \in stalled

\* However the job is interrupted, given back and run again, it never pays before the
\* timeout, and pays once more only for an attempt that a save has reopened.
JobPaysOnce ==
  \A a \in Attempts :
    /\ paidByJob[a] + (IF job[a] = "closed" THEN 1 ELSE 0) <= 1 + reopened[a]
    /\ paidByJob[a] > 0 => due[a] <= now

\* The timeout never touches an attempt already done: its completion time moves only when
\* a submission commits.
JobKeepsDoneAt ==
  [][\A a \in Attempts : phase[a] = "done" /\ doneAt'[a] # doneAt[a] =>
        \E t \in Submitters : sub[t].id = a /\ sub'[t].pc = "idle"]_vars

\* A submission that overlapped no other leaves the kept answers, their isCorrect flags, the
\* count of completed questions and the final score in agreement, half marks of multiple
\* choices included, and also after submissions that did overlap.
AnswersAgree ==
  \A a \in Attempts : ~overlapped[a] =>
    /\ flagged[a] = Correct(rows[a])
    /\ score[a] = Score(rows[a])
    /\ completed[a] = Completed(rows[a])

\* An open attempt whose job is queued is closed in the end, by the job or by a submission,
\* whatever is saved meanwhile, unless a crash or a failing database or Redis intervenes.
TimedAttemptCloses ==
  \A a \in Attempts :
    phase[a] = "open" /\ job[a] \in {"adding", "delayed", "checked"} ~>
      phase[a] = "done" \/ faults > 0
==============================================================================
