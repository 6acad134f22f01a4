----------------------------- MODULE MCAdaptiveExam -----------------------------
EXTENDS AdaptiveExam, TLC

CONSTANTS q1, q2, q3, q4

\* Two easy questions and two of medium difficulty, so that the level changes and runs out.
MCQuestions == {q1, q2, q3, q4}
MCLevel == [q \in MCQuestions |-> IF q \in {q3, q4} THEN 2 ELSE 1]

\* Questions of one difficulty are interchangeable, and so are the submissions.
MCSymmetry ==
  {[x \in MCQuestions |-> IF x \in {q1, q2} THEN e[x] ELSE m[x]] :
     e \in Permutations({q1, q2}), m \in Permutations({q3, q4})}
  \cup Permutations(Submits)
==============================================================================
