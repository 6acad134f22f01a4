------------------------------- MODULE MCExamPaper -------------------------------
EXTENDS ExamPaper, TLC

CONSTANTS q1, q2, a1, a2, b1, b2

\* A single choice and a multiple choice with two answers each.
MCType == [q \in Questions |-> IF q = q2 THEN "multiple" ELSE "single"]
Answer(q, n, right) == [ques |-> q, aid |-> n, right |-> right]
MCBank == a1 :> Answer(q1, 1, FALSE) @@ a2 :> Answer(q1, 2, TRUE)
       @@ b1 :> Answer(q2, 1, TRUE) @@ b2 :> Answer(q2, 2, TRUE)
MCPapers == {{q2}, {q1, q2}}
MCSymmetry == Permutations(Editors) \cup Permutations(Writers) \cup Permutations(Scores)
==================================================================================
