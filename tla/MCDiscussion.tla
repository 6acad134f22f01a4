------------------------------ MODULE MCDiscussion ------------------------------
(* Discussion with three comments, two threads and a deletion. *)
EXTENDS Discussion, TLC

MCSymmetry == Permutations(Comments)
=============================================================================
