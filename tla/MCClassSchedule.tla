----------------------------- MODULE MCClassSchedule -----------------------------
(* ClassSchedule with times that touch, share an end and contain each other. *)
EXTENDS ClassSchedule, TLC

CONSTANTS k1, k2

MCSlots == {<<1, 2>>, <<2, 3>>, <<0, 3>>}
MCPeriods == {[start |-> 0, weeks |-> 1], [start |-> 2, weeks |-> 1]}
MCSymmetry == Permutations(Meetings) \cup Permutations(Creators) \cup Permutations(Deleters)
  \cup Permutations({k1, k2})
==============================================================================
