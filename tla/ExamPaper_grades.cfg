SPECIFICATION Spec
CONSTANTS
  q1 = q1  q2 = q2
  a1 = a1  a2 = a2  b1 = b1  b2 = b2
  NoQuestion = NoQuestion
  Questions = {q1, q2}
  Answers = {a1, a2, b1, b2, x}
  Scores = {s1, s2}
  Editors = {e1, e2}
  Writers = {w1, w2}
  Type <- MCType
  Bank <- MCBank
  Papers <- MCPapers
  MaxRequests = 2
  MaxErased = 1
  MaxLoads = 2
  Unit = 60
SYMMETRY MCSymmetry
CHECK_DEADLOCK FALSE
INVARIANTS TypeOK ExamAddsUp AttemptKeepsItsPaper GradedAsShown ScoreWithinTotal
