\* Two classes and a copy that may be made of one, three meetings, two creations and two deletions.
SPECIFICATION Spec
CONSTANTS
  k1 = k1
  k2 = k2
  Classes = {k1, k2, k3}
  Existing = {k1, k2}
  Meetings = {m1, m2, m3}
  Creators = {r1, r2}
  Deleters = {d1, d2}
  Slots <- MCSlots
  Periods <- MCPeriods
  MaxLength = 2
  MaxMoves = 1
  NoClass = NoClass
  NoPeriod = NoPeriod
  NoSlot = NoSlot
  NoCreator = NoCreator
INVARIANTS DoubleBookingsExplained NumbersAreARow
PROPERTY DeletesWhatWasSeen
SYMMETRY MCSymmetry
CHECK_DEADLOCK FALSE
