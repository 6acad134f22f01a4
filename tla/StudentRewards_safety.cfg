SPECIFICATION Spec
CONSTANTS
  Calls = {c1, c2, c3}
  Pages = {p1, p2}
  Claim = 2
  ExpGain = 1
  MaxDay = 4
  MaxEvents = 3
  NoRow = NoRow
  NoPage = NoPage
INVARIANTS TypeOK DropsAddUp OverspendBounded LostOnlyAtFirst
PROPERTY StreakNeedsActivity
CHECK_DEADLOCK FALSE
SYMMETRY MCSymmetry
