---------------------------- MODULE MCStudentRewards ----------------------------
(* StudentRewards on small instances; calls, like dashboards, are interchangeable. *)
EXTENDS StudentRewards, TLC

MCSymmetry == Permutations(Calls) \cup Permutations(Pages)
==============================================================================
