----------------------------- MODULE AdaptiveExam -----------------------------
(***************************************************************************)
(* One adaptive attempt: the page posts each answer to                     *)
(* getNextAdaptiveQuestion, which keeps it, asks the adaptive learning     *)
(* service for the student's level and serves a question not yet answered, *)
(* up to MAX_ADAPTIVE_QUESTIONS.  submitAdaptiveExam scores the attempt;   *)
(* it is called by the handler itself, by the page that stops early, and   *)
(* by the result page each time it is opened.  Handlers whose page has     *)
(* gone keep running.  The call to the service is module AdaptiveRpc; here *)
(* its answer is one of three bands, or nothing usable.                    *)
(***************************************************************************)
EXTENDS Naturals, FiniteSets

CONSTANTS
  Questions,     \* the single choice questions of the category
  Level,         \* the difficulty of each: 1 easy, 2 medium, 3 hard
  MaxQuestions,  \* MAX_ADAPTIVE_QUESTIONS
  Submits,       \* submitAdaptiveExam handlers that can run at the same time
  MaxSubmits,    \* bound on the submissions of the attempt
  MaxFaults,     \* bound on failing transactions
  NoRow

ASSUME ConstantsAssumption ==
  /\ IsFiniteSet(Questions) /\ Level \in [Questions -> 1..3]
  /\ MaxQuestions \in Nat \ {0} /\ MaxSubmits \in Nat /\ MaxFaults \in Nat
  /\ NoRow \notin [index : Nat, right : BOOLEAN]

VARIABLES
  attempt,   \* the Exam_taken row: isDone, doneAt, final_score as right answers out of
  rows,      \* Question_for_exam_taken, per question
  page,      \* the session page: its step and its question
  next,      \* how far the page's getNextAdaptiveQuestion has come
  submit,    \* per submission: how far submitAdaptiveExam has come
  job,       \* the timeout job: "set" or "gone"
  submitted, \* submissions started so far
  writes,    \* history: updates of isDone so far; doneAt is the number of one
  closer,    \* history: what wrote doneAt last: the job, or a submission, holding rows or none
  scorer,    \* history: who began the submission that wrote the score, or "nobody"
  missed,    \* history: answers it counted without having read them
  later,     \* history: answers kept since
  faults

scoring == <<scorer, missed, later>>
vars == <<attempt, rows, page, next, submit, job, submitted, writes, closer, scoring, faults>>

Answered == {q \in Questions : rows[q] # NoRow}
RightOnes(S) == {q \in S : rows[q].right}
NoNext == [pc |-> "idle"]
NoSubmit == [pc |-> "idle"]

Init ==
  /\ attempt = [isDone |-> FALSE, doneAt |-> 0, right |-> 0, of |-> 0]
  /\ rows = [q \in Questions |-> NoRow]
  /\ \E q \in Questions :
       page = [step |-> "answering", q |-> q, index |-> 1, leaving |-> FALSE]
  /\ next = NoNext
  /\ submit = [t \in Submits |-> NoSubmit]
  /\ job = "set"
  /\ submitted = 0 /\ writes = 0 /\ closer = "nobody" /\ faults = 0
  /\ scorer = "nobody" /\ missed = {} /\ later = {}

------------------------------------------------------------------------------
(* submitAdaptiveExam: read the answers, then in a transaction lock the rows by updating *)
(* them, look whether the attempt is done, and write it.                                 *)

SubmitBegins(t, from) ==
  /\ submit[t].pc = "idle" /\ submitted < MaxSubmits
  /\ submitted' = submitted + 1
  /\ submit' = [submit EXCEPT ![t] = [pc |-> "read", from |-> from, seen |-> Answered]]

\* updateMany waits for a transaction that has updated one of the same rows.
Unlocked(t) ==
  \A u \in Submits : submit[u].pc = "locked" => submit[u].held \cap Answered = {}

SubmitLock(t) ==
  /\ submit[t].pc = "read" /\ Unlocked(t)
  /\ submit' = [submit EXCEPT ![t] = [pc |-> "locked", from |-> submit[t].from, seen |-> submit[t].seen,
                                      held |-> Answered, existing |-> attempt]]
  /\ UNCHANGED <<attempt, rows, page, next, job, submitted, writes, closer, scoring, faults>>

DoneAtOf_Now(existing) == writes + 1

DoneAtOf(existing) == IF existing.isDone THEN existing.doneAt ELSE writes + 1

Points_Answered(S) == Cardinality(S)

Points(S) == Cardinality(RightOnes(S))

\* The score is of the answers read before the transaction, over all that are kept when it
\* commits; MaxQuestions has no part in it.  With no row at all it is 0 / 0, which the
\* database refuses.
SubmitCommit(t) ==
  /\ submit[t].pc = "locked"
  /\ submit' = [submit EXCEPT ![t] = NoSubmit]
  /\ IF Answered = {} THEN UNCHANGED <<attempt, writes, closer, scoring>>
     ELSE LET doneAt == DoneAtOf(submit[t].existing)
          IN /\ attempt' = [isDone |-> TRUE, doneAt |-> doneAt,
                            right |-> Points(submit[t].seen), of |-> Cardinality(Answered)]
             /\ writes' = writes + 1
             /\ closer' = IF doneAt = attempt.doneAt THEN closer
                          ELSE IF submit[t].held = {} THEN "unlocked" ELSE "locked"
             /\ scorer' = submit[t].from
             /\ missed' = Answered \ submit[t].seen
             /\ later' = {}
  /\ UNCHANGED <<rows, page, next, job, submitted, faults>>

SubmitFails(t) ==
  /\ submit[t].pc # "idle" /\ faults < MaxFaults
  /\ faults' = faults + 1
  /\ submit' = [submit EXCEPT ![t] = NoSubmit]
  /\ UNCHANGED <<attempt, rows, page, next, job, submitted, writes, closer, scoring>>

\* handleExamTakenTimeout, seen from here; module ExamAttempt has its steps.
Timeout ==
  /\ job = "set" /\ job' = "gone"
  /\ IF attempt.isDone THEN UNCHANGED <<attempt, writes, closer>>
     ELSE /\ attempt' = [attempt EXCEPT !.isDone = TRUE, !.doneAt = writes + 1]
          /\ writes' = writes + 1 /\ closer' = "job"
  /\ UNCHANGED <<rows, page, next, submit, submitted, scoring, faults>>

------------------------------------------------------------------------------
(* The page *)

PostAnswer ==
  /\ page.step = "answering" /\ next.pc = "idle"
  /\ \E right \in BOOLEAN :
       next' = [pc |-> "sent", q |-> page.q, index |-> page.index, right |-> right]
  /\ page' = [page EXCEPT !.step = "loading"]
  /\ UNCHANGED <<attempt, rows, submit, job, submitted, writes, closer, scoring, faults>>

\* Stopping early posts submitAdaptiveExam(etId): the answer on the screen, built as its
\* second argument, is not sent.  The button stays enabled while a question is loading.
Finalize(t) ==
  /\ page.step \in {"answering", "loading"}
  /\ SubmitBegins(t, "page")
  /\ page' = [page EXCEPT !.step = "loading", !.leaving = TRUE]
  /\ UNCHANGED <<attempt, rows, next, job, writes, closer, scoring, faults>>

\* The page has been told to leave, or its request failed; the handler may still be running.
Leave ==
  /\ page.leaving \/ page.step = "loading"
  /\ page.step # "left"
  /\ page' = [page EXCEPT !.step = "left"]
  /\ UNCHANGED <<attempt, rows, next, submit, job, submitted, writes, closer, scoring, faults>>

OpenResult(t) ==
  /\ page.step = "left"
  /\ SubmitBegins(t, "result")
  /\ UNCHANGED <<attempt, rows, page, next, job, writes, closer, scoring, faults>>

------------------------------------------------------------------------------
(* getNextAdaptiveQuestion *)

LastQuestion(index) == index >= MaxQuestions

IndexKept_Shown(q, index) == index

\* A question answered again gets the index the page shows, a new one the index after it.
IndexKept(q, index) == IF rows[q] = NoRow THEN index + 1 ELSE index

\* The answer is kept whatever the state of the attempt.
KeepAnswer ==
  LET q == next.q
  IN /\ next.pc = "sent"
     /\ rows' = [rows EXCEPT ![q] = [index |-> IndexKept(q, next.index), right |-> next.right]]
     /\ next' = [next EXCEPT !.pc = IF LastQuestion(next.index) THEN "last" ELSE "asking"]
     /\ later' = later \cup {q}
     /\ UNCHANGED <<attempt, page, submit, job, submitted, writes, closer, scorer, missed, faults>>

NextLevel(level, band) ==
  CASE band = "high" -> IF level = 1 THEN 2 ELSE 3
    [] band = "mid" -> level
    [] band = "low" -> IF level = 3 THEN 2 ELSE 1

Unseen_Any(level) == {q \in Questions : Level[q] = level}

Unseen(level) == {q \in Questions \ Answered : Level[q] = level}

Told(p) == IF page.step # "left" THEN p ELSE page

\* The service has answered: serve an unanswered question of the new level.
Serve(band) ==
  /\ next.pc = "asking"
  /\ \E q \in Unseen(NextLevel(Level[next.q], band)) :
       page' = Told([page EXCEPT !.step = "answering", !.q = q,
                                    !.index = next.index + 1])
  /\ next' = NoNext
  /\ UNCHANGED <<attempt, rows, submit, job, submitted, writes, closer, scoring, faults>>

\* No level (the service answered 0 or nothing): the request fails and the page leaves.
NoLevel ==
  /\ next.pc = "asking"
  /\ next' = NoNext
  /\ page' = Told([page EXCEPT !.leaving = TRUE])
  /\ UNCHANGED <<attempt, rows, submit, job, submitted, writes, closer, scoring, faults>>

\* The last question was answered, or none is left on the level: the handler submits.
SubmitItself(t) ==
  /\ \/ next.pc = "last"
     \/ /\ next.pc = "asking"
        /\ \E band \in {"low", "mid", "high"} : Unseen(NextLevel(Level[next.q], band)) = {}
  /\ SubmitBegins(t, "handler")
  /\ next' = NoNext
  /\ page' = Told([page EXCEPT !.leaving = TRUE])
  /\ UNCHANGED <<attempt, rows, job, writes, closer, scoring, faults>>

PageNext ==
  \/ Leave
  \/ PostAnswer
  \/ \E t \in Submits : Finalize(t) \/ OpenResult(t)

CallNext ==
  \/ KeepAnswer
  \/ \E band \in {"low", "mid", "high"} : Serve(band)
  \/ NoLevel
  \/ \E t \in Submits : SubmitItself(t)

SubmitNext == \E t \in Submits : SubmitLock(t) \/ SubmitCommit(t) \/ SubmitFails(t)

Next == PageNext \/ CallNext \/ SubmitNext \/ Timeout

Spec == Init /\ [][Next]_vars

------------------------------------------------------------------------------
(* Properties *)

\* The variables keep the shapes of the rows, the page's state and the handlers' locals.
TypeOK ==
  /\ attempt \in [isDone : BOOLEAN, doneAt : Nat, right : Nat, of : Nat]
  /\ rows \in [Questions -> [index : 1..MaxQuestions + 1, right : BOOLEAN] \cup {NoRow}]
  /\ page \in [step : {"answering", "loading", "left"}, q : Questions, index : 1..MaxQuestions,
               leaving : BOOLEAN]
  /\ next.pc \in {"idle", "sent", "asking", "last"}
  /\ \A t \in Submits : submit[t].pc \in {"idle", "read", "locked"}
  /\ job \in {"set", "gone"}
  /\ submitted \in 0..MaxSubmits /\ faults \in 0..MaxFaults
  /\ scorer \in {"nobody", "page", "result", "handler"}
  /\ missed \subseteq Questions /\ later \subseteq Questions

\* The page never shows a question this attempt has already answered, however handlers of
\* earlier questions, early stops and reopened results interleave.
AsksNewQuestions == page.step = "answering" => rows[page.q] = NoRow

\* An attempt keeps at most MAX_ADAPTIVE_QUESTIONS answers, and their indexes, by which the
\* knowledge tracing and the review order them, are the consecutive ones from 2.
AnswersInOrder ==
  /\ Cardinality(Answered) <= MaxQuestions
  /\ {rows[q].index : q \in Answered} = 2..Cardinality(Answered) + 1

\* Submitting again keeps the completion time of the first.  It can only be replaced when
\* the lock on the answer rows does not order the two: one is the timeout job, or found no
\* answer to lock when it began.
DoneAtKept ==
  [][attempt.isDone /\ attempt'.doneAt # attempt.doneAt =>
       closer \in {"job", "unlocked"} \/ closer' = "unlocked"]_vars

\* The score counts the right ones among the answers the last submission had read, out of
\* all that were kept when it committed, at least one.  An answer can be in the divisor
\* without having been read (missed), but not in a submission of the handler itself, and of
\* one by the result page only the one whose request was running when the page was left.
\* What is kept later is in neither number until the result is opened again.
ScoreIsOfAnswersRead ==
  /\ scorer # "nobody" =>
       /\ attempt.right = Cardinality(RightOnes(Answered \ (missed \cup later)))
       /\ attempt.of = Cardinality(Answered \ later) /\ attempt.of > 0
  /\ scorer = "handler" => missed = {} /\ later = {}
  /\ scorer = "result" => Cardinality(missed \cup later) <= 1
==============================================================================
