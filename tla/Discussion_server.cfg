\* One thread at the start and one that is made, three comments, one follower, two deletions.
SPECIFICATION ServerSpec
CONSTANTS
  Threads = {t1, t2}
  Existing = {t1}
  Followers = {u1}
  Comments = {c1, c2, c3}
  Deleters = {d1, d2}
  Top = Top
  NoThread = NoThread
INVARIANTS TypeOK NoOrphans FilesFollowRows
SYMMETRY MCSymmetry
CHECK_DEADLOCK FALSE
