\* One page, of one comment a load, that moves twice; two threads, three comments, one deletion.
SPECIFICATION Spec
CONSTANTS
  Threads = {t1, t2}
  Existing = {t1, t2}
  Followers = {}
  Users = {u1}
  Comments = {c1, c2, c3}
  Deleters = {d1}
  Top = Top
  NoThread = NoThread
  PageSize = 1
  MaxMoves = 2
INVARIANTS LivePageIsComplete AnswersWhereWritten
SYMMETRY MCSymmetry
CHECK_DEADLOCK FALSE
