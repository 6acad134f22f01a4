--------------------------- MODULE MCClassEnrollment ---------------------------
(* ClassEnrollment with two classes, which clash or not at the start, and lists of two students in both orders. *)
EXTENDS ClassEnrollment, TLC

CONSTANTS s1, s2, k1, k2

MCStudents == {s1, s2}
MCClasses == {k1, k2}
MCLists == {<<s1>>, <<s2>>, <<s1, s2>>, <<s2, s1>>}
MCSymmetry == Permutations(Calls) \cup Permutations(MCStudents) \cup Permutations(MCClasses)
==============================================================================
