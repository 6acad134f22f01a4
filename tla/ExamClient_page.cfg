\* One page, two autosaves and two hand-ins against two submitters and the timeout job.
SPECIFICATION ClientSpec
CONSTANTS
  Students = {s1}
  Attempts = {a1}
  Requests = {r1}
  Submitters = {t1, t2}
  q1 = q1
  q2 = q2
  Questions <- MCQuestions
  Unit = 3
  Sheets <- MCSheets
  Drafts <- MCDrafts
  MaxFinals = 2
  Limits = {1}
  StartAt = 0
  ExpireAt = 1
  Duration = 1
  Practice = FALSE
  Horizon = 2
  MaxSubmits = 4
  MaxFaults = 0
  NoStudent = NoStudent
  NoAttempt = NoAttempt
  NoSheet = NoSheet
INVARIANTS HandedInIsPaid ReopenedBySaves
CHECK_DEADLOCK FALSE
