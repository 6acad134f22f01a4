---------------------------- MODULE MCExamAttempt ----------------------------
(* ExamAttempt on small instances: sheets of two questions whose answers earn nothing, a    *)
(* third (not flagged), two thirds (flagged) or the whole of their mark.                    *)
EXTENDS ExamAttempt, TLC

CONSTANTS q1, q2

MCQuestions == {q1, q2}
SheetA == (q1 :> 3) @@ (q2 :> 0)
SheetB == (q1 :> 1) @@ (q2 :> 2)
MCSheets == {SheetA, SheetB}
Symmetry == Permutations(Requests) \cup Permutations(Submitters) \cup Permutations(Attempts)
==============================================================================
