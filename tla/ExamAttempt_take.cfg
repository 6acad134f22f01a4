\* Two takeExam requests of one student race for the attempts the limit leaves.
SPECIFICATION Spec
CONSTANTS
  Students = {s1}
  Attempts = {a1, a2, a3, a4}
  Requests = {r1, r2}
  Submitters = {}
  q1 = q1
  q2 = q2
  Questions = {q1}
  Unit = 1
  Sheets = {}
  Limits = {1, 2}
  StartAt = 0
  ExpireAt = 1
  Duration = 1
  Practice = FALSE
  Horizon = 2
  MaxSubmits = 0
  MaxFaults = 0
  NoStudent = NoStudent
  NoAttempt = NoAttempt
  NoSheet = NoSheet
SYMMETRY Symmetry
INVARIANT AttemptBound
CHECK_DEADLOCK FALSE
