SPECIFICATION Spec
CONSTANTS
  s1 = s1
  s2 = s2
  k1 = k1
  k2 = k2
  Students <- MCStudents
  Classes <- MCClasses
  Lists <- MCLists
  Calls = {c1, c2}
  MaxOps = 4
INVARIANTS NoTwoClashingClasses AcceptedAreTold
SYMMETRY MCSymmetry
CHECK_DEADLOCK FALSE
