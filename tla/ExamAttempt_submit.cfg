\* Two submissions and the timeout job race over one attempt, with one fault and fair workers.
SPECIFICATION FairSpec
CONSTANTS
  Students = {s1}
  Attempts = {a1}
  Requests = {r1}
  Submitters = {t1, t2}
  q1 = q1
  q2 = q2
  Questions <- MCQuestions
  Unit = 3
  Sheets <- MCSheets
  Limits = {1}
  StartAt = 0
  ExpireAt = 1
  Duration = 1
  Practice = TRUE
  Horizon = 2
  MaxSubmits = 4
  MaxFaults = 1
  NoStudent = NoStudent
  NoAttempt = NoAttempt
  NoSheet = NoSheet
INVARIANTS TypeOK DoneIsPaid JobPaysOnce AnswersAgree
PROPERTIES JobKeepsDoneAt TimedAttemptCloses
CHECK_DEADLOCK FALSE
