# Julie Academy: models, checks and proofs

Julie Academy is a tutoring platform. This directory models the parts of it where requests,
jobs and messages interleave, checks the models with TLC and proves the central invariants with
TLAPS. Paths below are relative to `src/`; `T` stands for `tutor-service/src`, `F` for
`frontend/src`.

## 1. The system

| Part | Runs as | State it keeps |
| --- | --- | --- |
| Tutor service (`T`) | one NestJS process, restarted by docker-compose | PostgreSQL through Prisma; a map of pending RPC calls in memory |
| Background jobs (`T/background_job`) | Bull workers inside the same process | the queue `system-tasks-queue` in Redis (3 attempts, back-off 5 s) |
| Adaptive learning service | FastAPI with one pika consumer thread, and a Celery task that retrains | `model_metadata`, `training_data` |
| RabbitMQ | broker | the durable request queue, an exclusive reply queue per tutor process |
| Data pipeline | Celery beat starting Spark | appends tutor data to the training database |
| Frontend (`F`) | a React page per user, axios without timeout or retry | answers, drafts and counters of the page |

Requests of one process overlap at each `await`. Prisma's interactive transactions run at
READ COMMITTED, so a statement sees what others committed before it, and a row lock is the only
order between two transactions. `EventEmitter2` events are called in the emitting process and
their listeners are not awaited; what they do survives a rollback of the transaction that emitted
them.

### Components

**Exam attempts** (`T/exam/exam_taken.service.ts`, `T/background_job`). State: `Exam_taken`,
`Question_for_exam_taken`, the job `exam-taken-timeout`. Operations: `takeExam`, `submitExam`
(saves and hands in), `handleExamTakenTimeout`, `updateSession`. Hard: guards read outside the
transaction; two submissions replace the same answer rows; the job races submissions, is delivered
again after a crash, is queued from inside a transaction. Correct when: attempts stay within the
limit; closing pays and a timeout pays once; answers, flags and score of an attempt agree; an
attempt with a deadline is closed.

**Exam page** (`F/pages/student/AssignmentSessionPage.jsx`). State: the sheet, and whether it is
handed in. Each change posts the whole sheet with `isDone = false`; handing in posts
`isDone = true`. Hard: posts have no order and their answers may be lost; nothing keeps the student
from changing answers or handing in again while a hand-in is under way. Correct when: a hand-in that was
reported is stored and paid, once at most for each hand-in, and only a save reopens what was closed.

**Adaptive session** (`getNextAdaptiveQuestion`, `submitAdaptiveExam`,
`F/pages/student/AdaptiveSessionPage.jsx`, `AdaptiveResultPage.jsx`). State: the same tables, the
question on the screen. Hard: the answer is kept outside a transaction, then the service is called;
the page, the handler and the result page all submit. Correct when: no question comes twice, the
indexes are consecutive, the score is of answers read over those kept, resubmitting keeps the completion
time.

**Call to the adaptive service** (`T/rabbitmq/rabbitmq.service.ts`,
`adaptive-learning-service/app/worker/consumer.py`). State: the pending map, two queues, the
consumer's thread, the parameters. Hard: redelivery, restarts on both sides, no timeout. Correct
when: each call gets at most one answer, from parameters current during the call, and no call is
forgotten.

**Rewards** (`T/analysis/analysis.service.ts`, called by `T/auth/auth.controller.ts`,
`T/background_job/background-job.service.ts` and `F/pages/student/StudentDashboard.jsx`). State:
one `Student_analytics` row per student, the drops each dashboard shows. Hard: calls read, decide,
then write; an upsert is a select and an insert. Correct when: no drop is lost, spending is bounded,
the streak rests on activity.

**Enrolment** (`T/class/class.service.ts`). State: `Learning` rows, `nb_of_student`. Operations:
request for a list of students, enrol by e-mail, accept one or all, reject, leave. Hard: checks and
inserts of one transaction overlap those of others; lists take locks in different orders; what
clashes is looked up in meetings and periods that tutors change meanwhile. Correct when: nobody gets into
two classes that clash, and everybody accepted is told.

**Classes and schedules** (`T/class/class.service.ts`, `F/pages/tutor/ScheduleTab.jsx`). State: the
rows of `Schedule`, numbered from 1 in each class, and the period of a class. Operations:
`createSchedule`, `deleteSchedule`, `duplicateClass`, `updateClass`. Hard: a number is a count read
before the insertions; a deletion renumbers what a page has already shown; two transactions do not see
each other's meetings. Correct when: double bookings have one of the causes the code allows, numbers
are a row, a deletion takes what its page showed.

**Threads and comments** (`T/thread`, `F/pages/student/ThreadDetailPage.jsx`). State: `Threads`,
`Comments`, `Follow`, the files at Cloudinary, the rooms of each socket, the comments of a page. Hard:
the number of a comment is read outside the transaction that inserts it; events, broadcasts and the
deletion of files leave inside the transaction; a page loads over HTTP, ten comments at a time counted from
the newest, and listens over a socket. Correct
when: nothing outlives what it belongs to, files go with their rows, a loaded page in its room is
complete, an answer hangs below what its writer saw.

**Exams and question bank** (`T/exam/exam.service.ts`, `T/question/question.service.ts`). State:
`Question_of_exam` with its shares, `total_ques`, `total_score`, `Answers` numbered within their question,
the question's type. Hard: an answer's number is what pages and rows store, and deletions change it; the
exam, its total score and the types of its questions are edited while it is taken. Correct when: counter, rows and shares agree, a choice earns what the page promised, a score is
within the total.

**Reminders and notifications** (`T/background_job`, `T/notifications`, `F/components/Header.jsx`).
State: the job of a session, the `Notifications` rows, the counts on their way to a page, its badge.
Hard: `'exam.new'` is emitted before the commit; every notice is a row, a count and a message; the page
lowers the badge itself as well. Correct when: who is in the class is told and reminded, and a quiet
badge is right.

**Not modelled**: class status and learning reports by cron, users and authentication, mail, files and
PDF, the configuration file, dashboards and metrics, retraining and the pipeline, the rest of the
frontend, schema and seeds: single-row forms, sequential loops, reads, or calls to the outside.
`PROJECT.json` lists each with its reason, and under `hazards` each place where the code can go wrong in
a way a test would hardly reach.

### How the modules meet

```
 ExamClient --extends--> ExamAttempt --'exam_taken.submit'--> StudentRewards
 ExamPaper (what an attempt asks and earns)   ExamAttempt (when it may be made, saved, closed)
 AdaptiveExam --its answer is one of three levels or none--> AdaptiveRpc --implements--> KnowledgeRpc
 ThreadPage --extends--> Discussion
 ClassEnrollment (who has a Learning row) --who is told of a session--> ExamNotices
 ClassSchedule (its steps are what ClassEnrollment sees as Reschedule: which classes clash)
```

`ExamClient` and `ThreadPage` compose: each extends the server's module, adds the page and the network,
and lets every arrival of a message be the server's own action. `AdaptiveRpc` is shown to implement
`KnowledgeRpc` (`Abstract == INSTANCE KnowledgeRpc WITH ...`). The other meetings are through what one
module promises and the next assumes: `StudentRewards` takes a paying event at any time and any number
of times, which covers what `ExamAttempt` and `AdaptiveExam` emit; `AdaptiveExam` takes any level, which
covers every answer `KnowledgeRpc` allows; in `ExamNotices` students join and leave at any moment.

## 2. Modules and the code

Each definition's lines are in `PROJECT.json` under `map`. A `*_Suffix` operator next to a
definition is a deliberately wrong variant of it (a dropped filter, an off-by-one, ...), used to show
that the property named in `mutants` would notice.

### ExamAttempt
- `TakeCheck` / `TakeInsert` / `TakeCommit` / `TakeAbort` are `takeExam`: the guards through
  `this.prisma`, then the transaction with its insertions and its event, then its outcome. The
  class check at line 29 is not awaited and never refuses, so it is no guard.
- `QueueAdd`, `JobStart`, `JobUpdate`, `JobEmit`, `JobComplete`, `JobLost` follow the event to Bull
  and the handler statement by statement. Both catch blocks swallow errors, so Bull sees success and
  its three attempts are not used (`JobLost`).
- `SubmitDelete`, `SubmitCommit`, `SubmitAbort` are `submitExam`. The delete waits for the rows
  another submission has deleted; once that one commits, the new rows are outside the snapshot, the
  delete removes nothing and `createMany ... skipDuplicates` skips the kept ones ("late").
- `Crash` is a restart: transactions roll back, events not yet in Redis are lost, Bull returns a
  stalled job once.
- Data: an answer is what it earns, from nothing to `Unit` parts of the question's mark, since a multiple
  choice earns the share (right - wrong) / all right of it. `Score` adds the parts, `Completed` counts the
  questions that earned any, `Correct` those above one half, as `calculateScore` does; `final_score` is kept
  before its division by the number of questions. Time is a small clock.

### ExamClient
The page (`unopened`, `answering`, `told` that it is handed in, `left`), its drafts, and the set of posts
on their way. `isSubmitting` disables none of the inputs and one of the three buttons, so `ChangeAnswer` and
`HandIn` are open until the page is left, one second after it was told: hand-ins (numbered by `nr`) may be
under way together, and saves may start after one. `PostLost`, `Receive`, `Answer`, `AnswerLost`, `Refuse` are
what can happen to a post. It leaves out `UpdateSession` and `Crash`, which do not concern the page; opening
the page again, with its draft in localStorage, which is `LoadPage` of `ExamPaper`; and the page's clock,
which is a hand-in like another.

### KnowledgeRpc and AdaptiveRpc
`KnowledgeRpc` is the promise of `sendAndWait`: at most one answer, computed from parameters current
at some moment between question and answer, or none if the process that asked is gone.
`AdaptiveRpc` has the queue, `prefetch_count = 1`, the steps of `callback` (`Compute`, `Publish`,
`Ack`), redelivery to the head of the queue, the loss of the pending map at a restart, the default
exchange dropping messages for a queue that does not exist, and the consumer's thread dying in its
own error handler. The refinement mapping takes the four abstract variables from the concrete ones of
the same meaning; the queues, the consumer and the epochs are hidden.

### AdaptiveExam
`PostAnswer`, `Finalize`, `Leave`, `OpenResult` are the pages; `KeepAnswer`, `Serve`, `NoLevel`,
`SubmitItself` are `getNextAdaptiveQuestion`; `SubmitBegins`, `SubmitLock`, `SubmitCommit`,
`SubmitFails` are `submitAdaptiveExam`, whose `updateMany` on the answer rows is what orders two
submissions. `Timeout` is `ExamAttempt`'s job seen as one step. One page makes one call for the next
question at a time, as its loading state enforces. A submission carries who began it (`from`: the
page, the result page, the handler) and the answers it has read; the score is of those, its divisor
(`attempt.of`) the answers kept when it commits. With none kept it is 0/0, which the database refuses: the
transaction fails.

### StudentRewards
`Read` is `findFirst` and the decision about the streak; `Update` writes with increments;
`FindsNone`, `Insert` and `InsertRefused` are the upsert without a row. `Water` and `Load` are the
dashboard. A day passes only when no call is older than a day. A login and a finished exam may come
at any time; `Claim` is `drops_claim`.

### ClassEnrollment
`CheckNext` and `Insert` are one turn of the loop in `requestForClass` (and the body of `enrollClass`,
which checks no schedule); an insert waits for the same row of another transaction; `Commit` makes
rows visible. `AcceptAllFind` and `AcceptAllUpdate` are the two statements of `acceptAllEnrollReq`.
`Reject` stands for the routes reject, cancel and complete: all three call `rejectEnrollRequest`.
`vadidateClassRequest` reads meetings, periods and rows; what the first two say is the variable `clash`, a
mutual relation between classes that `Reschedule` changes at any moment, as `createSchedule`,
`deleteSchedule`, `duplicateClass` and `updateClass` do. Its three reads are one check (`Clashes`).

### ClassSchedule
`Begin` is the count at the start of `createSchedule`, `Check` the clash query for one meeting (with
the code's three comparisons of times and its comparison of periods), `Insert` the row, `Commit` and
`Abort` the outcome; `DuplicateClass` and `CopyMeetings` make a class and call the same transaction.
`Pick` and `PickAll` are the page: a number read when the list was loaded. `Delete` finds the row by
that number and moves the later ones down. `UpdateClass` moves the period. One tutor; times and periods
are small numbers with the orders that matter.

### Discussion and ThreadPage
`CommentNumber`, `CommentSend`, `CommentCommit`, `CommentAbort` are `createComment`: the highest number,
the insertion (which waits for an uncommitted row with the same key) with its broadcast, the outcome.
`CollectComment` / `CollectThread` and `Delete` are a deletion: first the files, then the rows by
cascade, the event inside the transaction. `ThreadInsert`, `TellClass`, `ThreadEnd` are `createThread`
with a listener that looks for the thread over another connection. `ThreadPage` adds `Open`, `Leave`,
`More` (the next page of comments), `LoadRead` / `LoadShow` (HTTP), `Join` (socket), `Deliver`
(`handleReceiveComment`), `Write` and `Reconnect`. `LoadRead` cuts a page of `PageSize` out of the list as it
is then, newest first (`Place`); the order of `createAt` is that of `older`, which rows there were when a
comment got its own. `More` goes by the count that came with the thread, answers included, and waits for no
page before it. A page knows a comment by its number alone, as the code does.

### ExamPaper
`AddQuestions` / `RemoveQuestion`, `Lock`, `Count`, `Commit` are the edits of an exam, with the row lock
the update of `total_ques` takes; `UpdateExam` writes another `total_score`, without that lock's order
and without sharing it out, so a share says of which total it is a part. `ReadLast`, `AddAnswer`,
`UpdateAnswer`, `DeleteAnswer`, `DeleteQuestion` and `UpdateQuestion`, which changes the type, are the bank.
One attempt: `ReadPaper` and `StartAttempt` of `takeExam`, `LoadPage` with
the draft it restores, `Pick` with its autosave, `Submit` and `Settle` of `submitExam` with the marks of
`calculateScore`. The page restores and lets choose by the type it was loaded with, the grading goes by the
type there is. A mark is counted in `Unit`s so that every share is a whole number.

### ExamNotices
`InsertSession`, `Emit`, `Commit`, `RollBack` are `createExamSession`; `QueueJob`, `StoreJob`,
`TellClass` its event's handler; `TakeJob`, `SendReminders`, `CompleteJob` the job, `RemindFails` its catch
block; `InsertNotice`,
`CountNotice`, `PushNotice` `createNotification` and the gateway; `OpenPage`, `JoinRoom`, `ReadCount`,
`ShowCount`, `Receive` the header; `Click`, `MarkAsRead`, `CountMarked`, `PushMarked`, `LowerBadge` a click
on a notice; `markAsRead` of `F/services/NotificationService.jsx:27` catches its error and returns, so the
page lowers the badge with or without an answer. `Crash` loses what is in memory and leaves the page outside
its room.

## 3. What is checked

Twelve runs, one per question. All disable the deadlock check: the bounds on the clock, the submissions
or the operations end every behaviour, and the programs themselves may sit idle.

| Run | Question | Answer |
| --- | --- | --- |
| `exam_take` | How many attempts can slip past the unlocked guard? | `AttemptBound`: fewer than the concurrent requests beyond the largest limit |
| `exam_submit` | Two submissions, the timeout job, a crash | payments, completion time, answers, flags, completed questions, score; the attempt is closed |
| `exam_page` | A page whose posts are late, reordered, doubled or unanswered | what it reports as handed in is paid, each hand-in once at most; a reopening costs an autosave |
| `rpc` | Losses, redelivery, restarts | no call forgotten or run twice at once, `KnowledgeRpc` is implemented, waiting ends |
| `adaptive_session` | Early stop, overlapping submissions, timeout | questions, indexes, which answers the score is of and over, completion time |
| `rewards` | Overlapping logins, exams and waterings | drops add up, overspending and losses are bounded, streak needs activity |
| `enroll` | Overlapping requests, acceptances, departures, changes of schedules | clashes have a named cause, everybody accepted is told |
| `schedule` | Overlapping creations, copies, stale deletions, a moved period | every double booking has a named cause, numbers are a row, deletions hit what was seen |
| `discussion` | Comments at once, deletions, a thread that fails | keys, no orphans, files follow rows |
| `thread_page` | HTTP against socket, pages of comments, two threads, a reconnection | a live page is complete, answers hang where written |
| `paper` | An exam, its score and its questions edited while it is taken | counter and shares, the attempt's questions, marks as shown, score within the total |
| `notices` | Rollback, early or failing job, crash, moving students | the badge is right when quiet, news and reminders come |

A property that holds with exceptions names them, and each exception is reached in its run: that is how
the runs record what the code does not guarantee. The ones a reader of the code should know:

- Two `takeExam` requests pass the limit together (`exam_taken.service.ts:46`); a timeout job that is due
  at once runs before the attempt it should close is committed (`:175`).
- An autosave that arrives late, or that the page made after the hand-in, reopens an attempt the page has
  reported as handed in (`AssignmentSessionPage.jsx:336`, `exam_taken.service.ts:711`); of two hand-ins under
  way from one page each pays (`AssignmentSessionPage.jsx:604`).
- An adaptive session is scored over the answers kept (`exam_taken.service.ts:398`). The dialog that stops
  it early says otherwise: "dựa trên số câu bạn đã hoàn thành trên tổng số câu mặc định của hệ thống", out of
  the system's default number of questions (`AdaptiveSessionPage.jsx:560`). `ScoreIsOfAnswersRead` states what
  the code does, `attempt.of`, and `MaxQuestions` has no part in it. The same submission may count an answer
  in the divisor that it has not read (`missed`).
- A student comes to be in two classes that clash when a tutor changes a meeting or a period after the
  student has the rows: `createSchedule` and `updateClass` ask about the tutor's meetings, not the students'.
- The consumer announces a retry (`consumer.py:73`) and dies on the next line.
- Two meetings are booked at once when the new one strictly contains the old, when two transactions
  overlap, or when a class's period is moved; a deletion from a page that is not fresh can take another
  meeting.
- Destroying files is not undone by a rollback; files of a comment committed while its parent's were being
  collected stay behind.
- After a reconnection a thread page hears nothing until it is opened again; after moving between threads it
  also shows, and counts as its own numbers, comments of the threads it has left.
- A page of comments is `skip`ped to by count (`comment.service.ts:193`): when a comment was deleted since the
  page before was read, or the pages were read in another order, comments between them are jumped over.
- `updateExam` (`exam.service.ts:469`) changes `total_score` and leaves the questions' scores with shares of
  the old one until the next edit. `updateQuestion` (`question.service.ts:931`) changes how an open attempt is
  graded: choices made under "multiple" are graded as a single choice by the first of them alone.
- A score exceeds the total when a question was removed from the exam after the attempt read it; a choice
  restored from a draft whose answer is gone counts as a wrong one nobody sees; a question deleted from the
  bank leaves the exam's counter and the open attempts' rows behind it.
- A click on a notice lowers the badge twice (the server sends the new count, the page subtracts one); a
  session that starts within the hour is reminded of before it is committed, that is, to nobody.

**Bounds.** Races need two actors and, for transactions, one row they share; a third actor adds the
one that comes after the race. So: two takers over four attempts with a limit that moves between 1 and
2; two submitters with two sheets that disagree on both questions, `Unit = 3` (nothing, a third, which is
not flagged, two thirds, which is, and the whole) and four submissions of one attempt,
so that a late one follows an overlapped one; one page with two autosaves and two hand-ins; clock 0..2 with a window and a duration of 1, so that an
attempt is taken before, at and after every boundary; three RPC calls with two losses (a redelivered
request redelivered) and a restart; four questions on two levels, so that the level changes and runs
out before the maximum of three; three overlapping analytics calls, two dashboards and five days, so
that a streak breaks, goes on, and crosses a midnight; two clashing classes with lists of two students
in both orders and four operations, changes of schedules among them. `schedule` has three meetings over three times (two that touch, one
that contains both), two requests, two deletions and a class that can be copied: a collision of numbers
needs a deletion within a creation, a wrong deletion needs another one before it. `discussion` has three
comments (two at once and one below them) and two deletions; `thread_page` one page that moves twice
(open, then reconnect, ask for the next comments, or leave and open again) over two threads, with
`PageSize = 1` and one deletion, so that a second page is cut past a comment. `paper` has a single and a
multiple choice with two answers each and a spare answer, two total scores, two requests of tutors, one
deletion from the bank and a reload.
`notices` has one session, one student, one click, and one each of crash, stall and move: every property
speaks of one student and one session, and each exception needs one fault.

The only bound that is not an actor is `MaxLoads`, `MaxOpens` and their like: how often a page is opened.
Symmetry is used where the properties of the run are invariants or action properties and the values
are interchangeable; never in the runs with liveness.

The runs check the type invariant of `ExamAttempt`, `AdaptiveRpc`, `StudentRewards`, `Discussion` and
`ExamPaper`, where it says more than the shape of the variables. The other modules state theirs (`TypeOK`,
`ClientTypeOK`, `PageTypeOK`, `NoticesTypeOK`) for the reader; they hold on the same instances.

**Fairness.** `FairSpec` of `ExamAttempt` assumes that time passes, that the event's listener reaches
Redis and that a Bull worker runs due jobs to the end: weak fairness of `Tick` and the job's steps,
which is what a running process with a running Redis does. No request is assumed to come or to commit.
`TimedAttemptCloses` gives up where a fault was spent, since both catch blocks drop the job. `FairSpec`
of `AdaptiveRpc` assumes that the broker delivers and both programs handle what they receive. Nothing
is assumed to restart the consumer: `main.py` starts its thread once and the process stays up. `NoticesSpec` of
`ExamNotices` assumes that handlers, jobs and calls that were started go on (`Handle`, `Remind`, `Notify`):
the event loop runs them and Bull delivers what is queued. Not that a session commits, that a page is
opened, or that a crash comes or stays away; what a crash takes is an exception of `NewsComes` and
`RemindersCome`.

## 4. What is proved

The theorems hold for every value of the constants that satisfies the named assumptions of the module
(`ConstantsAssumption`, `BoundsAssumption`, `PageAssumption`, `NoticesAssumption`): the sets of questions, answers, meetings,
students or requests that are counted are finite, the bounds are natural numbers, reserved values are
distinct from the others, and what a run starts from is what the program makes (the answers of a question
numbered in a row, a meeting that starts before it ends, a clash that is mutual). Every theorem is about
the specification its run checks, so the run shows on a small instance what the theorem says of all.

| Module | Theorems | What they say |
| --- | --- | --- |
| `ExamAttempt_proofs` | `TypeCorrect`, `AttemptsAreBounded`, `FinishedIsPaid`, `TimeoutPaysOnce`, `TimeoutKeepsDoneAt`, `KeptAnswersAgree` | the invariants and the action property of `exam_take` and `exam_submit` |
| | `TimeoutIsAhead` | until its timeout an attempt keeps its job, unless something failed |
| | `HandInsArePaid`, `SavesReopenOnce`, `PagesAreServed` | those of `exam_page`; `ClientSpec` implements `Spec` |
| | `PagesKeepTheAttempts` | so all of the above holds of `ClientSpec` too |
| `StudentRewards_proofs` | `TypeCorrect`, `IncrementsAddUp`, `LossesAreBounded`, `OverspendIsBounded`, `StreakIsActive` | every property of `rewards` |
| | `QuietBadgeIsRight` | the safety of `notices` (of `NoticesSpec`) |
| | `NobodyIsForgotten` | no student's news or reminder gets lost but by a named exception |
| `Discussion_proofs` | `TypeCorrect`, `NothingIsOrphaned`, `FilesGoWithRows` | every property of `discussion` (of `ServerSpec`) |
| | `LivePagesAreComplete`, `AnswersHangWhereWritten`, `PagesKeepTheServer` | every property of `thread_page`; the server's also hold under pages |
| | `PagesUseTheServer` | the pages' specification implements `ServerSpec` |
| `ClassEnrollment_proofs` | `NobodyIsInTwoClashingClasses`, `EveryAcceptedIsTold` | every property of `enroll` |
| `AdaptiveExam_proofs` | `NoQuestionTwice`, `AnswersAreNumberedInOrder`, `ScoreIsRight`, `CompletionTimeIsKept` | every property of `adaptive_session` |
| `AdaptiveRpc_proofs` | `TypeCorrect`, `NothingForgotten`, `RpcKeepsThePromise` | the safety of `rpc`, and the refinement of `KnowledgeRpc` |
| | `AnswersAreCurrent`, `AnswersAreFinal` | what the promise of `KnowledgeRpc` means to a caller |
| `ExamPaper_proofs` | `TypeCorrect`, `CounterAndShares`, `AttemptKeepsPaper`, `EarnsWhatWasShown`, `ScoreIsWithinTotal` | every property of `paper` |
| | `PerfectAttempt` | who chose what was right, as shown, gets every mark there is |
| `ClassSchedule_proofs` | `NumbersInARow`, `EveryDoubleBookingIsExplained`, `DeletesOnlyWhatWasSeen` | every property of `schedule` |
| | `QueryFinds` | which pairs of meetings the clash query finds |

Each proof has one invariant, `IInv` or a name like it, that is inductive: `Shape` (what the variables can
be, more exactly than the type), the named parts below, and the properties themselves. There is one lemma
per action, and the theorems are read off at the end.

**ExamAttempt.** `TypeOK` is not inductive: what a request will do depends on the attempt its local
variables point to. `Shape` adds that a request which has inserted an attempt owns its uncommitted row
alone, that a submission works on a committed attempt, and that an unused identifier has no job and no
payment. `AttemptBound` needs `ClaimBound`: a request past the guard holds a claim to one more
attempt, so committed attempts plus claims are what is bounded. The payment properties need what a payment costs
(`PayBudget`): the job's payments, the one it is about to emit and, while the attempt is not done, the
one it may still emit together stay within one per reopening; and a job past its check is due.
`TimeoutIsAhead` is the safety half of `TimedAttemptCloses`: the job it asks for is there as long as the
timeout lies ahead, through every save, hand-in and reopening. (Past the timeout it may have run before the
attempt was committed; the liveness property excludes that by its premise.)

**StudentRewards.** `Settled`: before the first row nothing is earned or lost; afterwards the row
holds what was earned, and the calls lost together with the ones still about to insert leave out at
least one call, the one that inserted. `Inserting` calls can only be joined while there is no row, which
is why the bound survives. Overspending needs a potential (`Covered`): the drops less the number of
dashboards that show some or have a watering on its way; a watering that leaves no drop makes its own
dashboard show none, so it lowers both, and each watering on its way is the only one of its dashboard
(`OneWateringEach`). The streak needs `Recent`: the row a call decided on can only have become more
recent since.

**Discussion.** The properties become inductive with two additions. `Placed`: every row that is kept or
on its way in hangs in a kept thread, and below a kept comment of the same thread. `Collecting`: what a
deletion under way has collected and what it will remove are the same kept rows, but for those committed
since. Both rest on facts about a branch, which `Below` defines as a least closed set: it holds its root
and is closed (`BranchClosed`), it stays in one thread (`BranchInThread`), removing another branch takes
nothing else out of it (`BranchShrinks`), and a new comment joins it only through its parent
(`BranchGrows`). So an overlapping deletion keeps `Collecting`, a commit adds at most itself to it, and
the deletion, which takes a closed set and waits for uncommitted answers below it, keeps `Placed`. The keys
need no more than the insertion's wait: rows that are not sent never meet.

**ExamClient.** The page and the server are proved about together. `Numbered`: every post on its way has
the number of a hand-in, or the version of a save, that the page has made. `EachCausesOne`: for the hand-ins of
an attempt as for its saves, what they have caused (payments, reopenings), the posts on their way and the
transactions serving one are together no more than were made, so whatever overlaps or arrives late, each post
counts once at most. `ToldIsTrue`: a page that was told of success has been paid for, and its attempt is done
or has been reopened. Counting a set of posts needs the lemma
that a post removed lowers the cardinality by one, and that nothing else changes it. That each step of page
and network is a step of the server, or none, makes `PagesAreServed` a refinement: the theorems about
`Spec` hold of `ClientSpec` as well.

**ThreadPage.** A loaded page is complete because of what is true on the way to it. Once a page has read
and is in its room, every comment sent or kept in its thread is on the page, in an answer it will merge,
on its way over the socket, among those that slipped between reading and joining, beyond the last page read,
jumped over by a page while the list had moved, or shadowed by a comment of the same number, which the page
takes it for (`HearingBy`, with `Twin`); and the page knows nothing that was not broadcast or kept
(`HeldBy`). That jumping takes a list that moved is `ApartBy`: while nothing is deleted and the pages are
read in order, places in the list only grow (`PlaceGrows`), so what lay beyond the last page still does and
no page can be cut past it. Where an answer hangs needs `Intending`, which
carries what the writer saw to the insertion: the number in the request is the number of that comment. The
keys of `Discussion` say that a number in a thread has one owner. `PagesKeepTheServer` re-uses the server's
lemmas: a step of a page is a server's step with its request taken from the page, or leaves the server
alone. `PagesUseTheServer` makes that a refinement. `Discussion` lets a request name any number up to
`Cardinality(Comments)`, a page the number of a comment it shows; `Counted` shows that the first covers the
second: numbers never run ahead of the comments written.

**ClassEnrollment.** `NoTwoClashingClasses` is about rows; the code checks before it inserts. `Cleared`
bridges them: whoever has passed the checks of a request still has no row in a class that clashes, unless
the student is in `raced` (two clashing requests at once) or `direct`, or the two are in `moved`. It survives the other
transactions' commits because clashing is mutual: whoever could commit a clashing row is a rival, and
both are counted in `raced` when the first commits. It survives `Reschedule` because a new clash of two
classes that a student has, or has passed the checks for, is counted in `moved`. `Noticed`: a request that is pending
while `acceptAllEnrollReq` is between its statements was in the list it read, or is in `during`.

**AdaptiveExam.** `Counting` ties the number on the page, and the number in the request it has made, to
how many answers are kept, so the next one kept continues the row and its question is new. `Locking` is
about `submitAdaptiveExam`: only one submission at a time holds answer rows, and what it has read of the
attempt, the completion time with it, is still what is there, unless the job or a submission without rows
to lock wrote it. `Reading` is about what a submission can miss: the handler's begins when the page and its
calls will keep no further answer (`Over`), the result page's when the session page has been left, so at most
the answer of the one call still running is missing from what it read (`OnlyTheLast`).

**AdaptiveRpc.** A call not yet made leaves no trace in any queue (`Fresh`); a call that waits is
somewhere (`Somewhere`): in the request queue, in the consumer's hands, or in the reply queue; and in one place
only (`OneRequest`), redelivery included, because the request goes back to the queue in the same step in
which the consumer loses it. `NotStale` orders three versions: the parameters when the call was made, those
an answer was computed from, and the current ones. With it each step maps to a step of `KnowledgeRpc` or a
stutter: only the handler of the reply answers, and only a restart gives up. The refinement then pays off:
`AnswersAreCurrent` and `AnswersAreFinal` are shown of a step of `KnowledgeRpc`, without a queue in sight, and hold
of `AdaptiveRpc` because its steps are such steps.

**ExamPaper.** `Editing`: at most one edit holds the lock on the exam's row, what it counted is the number of
rows there will be (unless the bank took one away), and what the edits have changed without committing is
disjoint; so every commit shares one total among all rows. `UpdateExam` breaks only the tie of that total to
the exam's (`rescored`), until a commit makes it anew. `Numbering`:
the answers of a question are numbered in a row from one, unless the question lost one while another was being added; two kept answers never share a number. `Attempting`: the questions of the attempt are those
it read, less the ones the bank has lost. `Showing`: what the page shows as chosen is the bank's
answer with that number, where the question was not touched since the page was loaded, and the type shown
is the question's where that was not changed (`retyped`). The marks then follow from facts about finite sets:
the right choices of an untouched question are the right answers shown. What holds without the type is that
nothing is earned without a right answer chosen.
`ScoreIsWithinTotal` compares a sum with a count. `Scoring` adds to the invariant that a mark lies between
nothing and `Unit`, that the attempt's list is part of the exam (or erased from the bank), and that the total
is at least the number of its questions, unless one was removed from the exam since. What is missing is that a fold over a finite set
does what a sum does. The library's induction takes an operator, so `SetInduction` states induction over the
finite subsets of a set with a *set* of good subsets instead, and proves it from the strict subset order being
well-founded. `Sums` says what a partial sum satisfies, `SumsExist` that it exists, and `SumsBounded` and
`SumsConstant` what follows for the whole. `PerfectAttempt` uses the same lemmas for the other end of the
scale: if no answer was touched since the page was loaded and all right ones, as shown, were chosen, the
marks add up to `Unit` for every question.

**ClassSchedule.** `Keys`: sent and kept rows never share a class and number. `Numbering`: the meetings a
creation has inserted follow those of the class, up to the next number it will use, while nothing is deleted
beside it; two creations in one class want the same first number, so whoever is overtaken is left
without a row. `Comparing`: of two meetings that are checked, sent or kept, one was compared with the
other and found apart, or they are a pair the property names: created together, moved since, or one
strictly containing the other. `Picking`: a page that is not stale names the meeting it shows. What `Comparing`
needs of the query is `QueryFinds`, which says for all times and periods what its three comparisons amount to.

**ExamNotices.** The badge is proved about in `StudentRewards_proofs`, beside the other numbers the server
keeps for a student's page. `raced` says that the last count was taken while another was under way, so
`Alone`: from the first count of a header that is in its room or on its way there, neither cut nor raced, at
most one count is under way, be it read for the header, computed by a notice or a click, or on the socket.
`Accurate`: once no row of the reader waits to be counted, that count is the number of unread notices; and
if there is none, the badge is, less what the page took off. A new row needs no exception, since its own
notice is `inserted` until it is counted. `CalledOnce` says that a notice is called by one run of one
handler, so a call never takes the place of one still under way. Counting needs finitely many notices.
`NobodyIsForgotten` is the safety half of `NewsComes` and `RemindersCome`: whatever step is taken, a student who
stays in the class has the row, or its call, the handler or the job is still to run, or one of the exceptions
of the two properties has happened. Its invariant `NoneForgotten` starts at the event, before the commit; a
notice once called stays held (`HeldStaysHeld`), since only its own steps and a crash take a call away.

**Only model-checked.** `TimedAttemptCloses`, `WaitingEnds`, `NewsComes` and `RemindersCome` are liveness
under fairness, which is beyond the prover. Their safety halves are proved (`TimeoutIsAhead`, `NothingForgotten`,
`NobodyIsForgotten`): what they wait for is always on its way; that fairness brings it is TLC's to show. No
module uses a RECURSIVE operator.

## 5. What the models leave out, knowingly

- The streak counts activities: two exams on one day raise it twice. Nothing in the repository says
  what it should count, so no property does.
- `nb_of_student` is carried with the code's increments (a second acceptance, a rejection after an
  acceptance and a departure before one all shift it); what it should equal is stated nowhere.
- Each submission of an adaptive session pays again, and the result page submits whenever it is
  opened. `AdaptiveExam` has these submissions; their payments are paying events of `StudentRewards`.
- Calls to `createOrUpdateAnalytics` cross at most one midnight.
- PostgreSQL's deadlock detection appears as an abort.
- Redis runs with `allkeys-lru` and may evict a delayed job; this is one of the faults of `JobLost`
  only once the job is due, which has the same outcome.
- Classes are made by one tutor in `ClassSchedule`; the copies of resources and plans are left out.
- `Discussion` leaves out pins, edits, tags, restricted threads and the news of a comment to followers;
  `ThreadPage` the answers loaded on demand.
- `ExamPaper` has one attempt; how attempts exclude each other is `ExamAttempt`. A question
  of another type earns nothing, as in `calculateScore`. A request adds one answer, where `addAnswer` takes a
  list in one insertion; of an exam `updateExam` changes `total_score` only (`ExamDto` has no `total_ques`),
  of a question `updateQuestion` the type.
- `ExamAttempt` merges the late `createMany` of a submission with its commit; `ClassSchedule` deletes one
  number per request, where the page may send several; a dashboard of `StudentRewards` that is mounted again
  while a watering is under way is another dashboard; the tutor's channel to RabbitMQ is lost only with its
  process (`AdaptiveRpc`).
- `ExamNotices` lets the reminder run at any moment after it was queued. `job_id` is stored and nothing
  reads it: a session that is moved keeps the reminder of its old time.
- The nightly class status (`cron.service.ts:63`: three `not` conditions joined by OR, so completed and
  cancelled classes become ongoing again) and the report mails (`:234`: the body is overwritten in the loop,
  so the first student's name stays) are sequential code a unit test reaches; no module restates them.

## 6. Plan

The parts whose behaviour comes from interleaving, failure or ordering are modelled, and every safety
property and action property the runs check is proved. Nothing is open but the four liveness properties,
which stay with TLC. What changes in the code first: a fix of one of the exceptions in section 3 takes the
exception out of its property, and the proof shows whether the fix is enough.
