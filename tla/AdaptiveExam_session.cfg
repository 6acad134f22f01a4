SPECIFICATION Spec
CONSTANTS
  q1 = q1
  q2 = q2
  q3 = q3
  q4 = q4
  Questions <- MCQuestions
  Level <- MCLevel
  MaxQuestions = 3
  Submits = {t1, t2}
  MaxSubmits = 3
  MaxFaults = 1
  NoRow = NoRow
INVARIANTS AsksNewQuestions AnswersInOrder ScoreIsOfAnswersRead
PROPERTY DoneAtKept
CHECK_DEADLOCK FALSE
SYMMETRY MCSymmetry
