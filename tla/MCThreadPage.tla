------------------------------ MODULE MCThreadPage ------------------------------
(* ThreadPage with the page of one user, two threads and three comments. *)
EXTENDS ThreadPage, TLC

MCSymmetry == Permutations(Comments) \cup Permutations(Threads)
=============================================================================
