----------------------------- MODULE MCExamClient -----------------------------
(* ExamClient with one attempt and two drafts after the empty one. *)
EXTENDS ExamClient, TLC

CONSTANTS q1, q2

MCQuestions == {q1, q2}
Sheet(x, y) == (q1 :> x) @@ (q2 :> y)
MCDrafts == <<Sheet(0, 0), Sheet(3, 0), Sheet(3, 1)>>
MCSheets == {MCDrafts[i] : i \in DOMAIN MCDrafts}
==============================================================================
