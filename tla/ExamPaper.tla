-------------------------------- MODULE ExamPaper --------------------------------
(***************************************************************************)
(* The question bank, the questions of one exam and one attempt at it,     *)
(* while tutors edit both.  Answers are named by their number within the   *)
(* question, on the page as in the hand-in, and numbers move when an       *)
(* answer is deleted.  A transaction sees what has been committed and what *)
(* it has written itself (READ COMMITTED).  When an attempt may be made,   *)
(* saved or closed is the matter of ExamAttempt.                           *)
(***************************************************************************)
EXTENDS Integers, FiniteSets, FiniteSetsExt

CONSTANTS
  Questions,
  Type,        \* [Questions -> Types], at the start
  Answers,     \* the rows of answers there may ever be
  Bank,        \* the answers at the start: answer -> [ques, aid, right]
  Papers,      \* the sets of questions an exam may be made with
  Scores,      \* the total scores an exam may be given
  Editors,     \* requests that add questions to the exam, remove one or change its score
  Writers,     \* requests that add, change or delete an answer, or change a question
  MaxRequests, \* bound on the requests of editors and writers together
  MaxErased,   \* bound on the questions deleted from the bank
  MaxLoads,    \* bound on the times the page is loaded
  Unit,        \* the mark of a question, a multiple of every number of right answers
  NoQuestion

Types == {"single", "multiple", "other"}

ASSUME ConstantsAssumption ==
  /\ IsFiniteSet(Questions) /\ IsFiniteSet(Answers) /\ MaxLoads \in Nat
  /\ NoQuestion \notin Questions /\ Papers \subseteq SUBSET Questions
  /\ Type \in [Questions -> Types]
  /\ DOMAIN Bank \subseteq Answers
  /\ \A a \in DOMAIN Bank : Bank[a].ques \in Questions /\ Bank[a].right \in BOOLEAN
  \* createQuestion numbers the answers of a question in a row.
  /\ \A q \in Questions :
       LET S == {a \in DOMAIN Bank : Bank[a].ques = q}
       IN /\ {Bank[a].aid : a \in S} = 1..Cardinality(S)
          /\ \A a, b \in S : Bank[a].aid = Bank[b].aid => a = b
  /\ Unit \in Nat \ {0} /\ \A n \in 1..Cardinality(Answers) : Unit % n = 0

VARIABLES
  bank,     \* the questions there are
  type,     \* per question how its answers are chosen and graded
  ans,      \* per answer: free, kept or gone; its question, its number, whether it is right
  exam,     \* total_ques, and per question of the exam its score: a part of which total
  total_score, \* of the exam
  edit,     \* per editor: how far it has come and what it has not committed
  write,    \* per writer: how far it has come and the last number it read
  att,      \* the attempt: how far, the questions it read, its marks, total_ques at the end
  row,      \* question_for_exam_taken: per question of the attempt the numbers chosen
  page,     \* what the page shows and what is chosen on it
  draft,    \* the choices kept in the browser
  touched,  \* history: questions whose answers changed since the page was loaded
  retyped,  \* history: questions whose type changed since the page was loaded
  rescored, \* history: total_score changed since the scores of the questions were written
  left,     \* history: a question was removed from the exam since the attempt read it
  erased,   \* history: questions deleted from the bank, and those of them the exam had
  crossed   \* history: questions that lost an answer while one was being added

history == <<touched, retyped, rescored, left, erased, crossed>>
bankVars == <<bank, type, ans, write, crossed>>
examVars == <<exam, total_score, edit, rescored>>
pageVars == <<att, row, page, draft>>
edited == <<touched, retyped>>
vars == <<bank, type, ans, exam, total_score, edit, write, att, row, page, draft, history>>

NoAnswer == [pc |-> "free", ques |-> NoQuestion, aid |-> 0, right |-> FALSE]
NoPage == [loads |-> 0, ques |-> {}, type |-> [q \in {} |-> "other"], aid |-> [a \in Answers |-> 0],
           right |-> {}, picked |-> [q \in {} |-> {}]]

\* createExam inserts a row per question, each with its share of the total score.
Init ==
  /\ bank = Questions /\ type = Type /\ total_score \in Scores
  /\ ans = [a \in Answers |-> IF a \in DOMAIN Bank
              THEN [pc |-> "kept", ques |-> Bank[a].ques, aid |-> Bank[a].aid, right |-> Bank[a].right]
              ELSE NoAnswer]
  /\ exam \in {[total |-> Cardinality(P),
                share |-> [q \in P |-> [of |-> total_score, by |-> Cardinality(P)]]] : P \in Papers}
  /\ edit = [e \in Editors |-> [pc |-> "idle", add |-> {}, del |-> {}, num |-> 0]]
  /\ write = [w \in Writers |-> [pc |-> "idle", ques |-> NoQuestion, last |-> 0]]
  /\ att = [pc |-> "none", list |-> {}, mark |-> [q \in {} |-> 0], total |-> 0]
  /\ row = [q \in {} |-> {}]
  /\ page = NoPage /\ draft = [q \in {} |-> {}]
  /\ touched = {} /\ retyped = {} /\ rescored = FALSE /\ left = FALSE /\ crossed = {}
  /\ erased = [bank |-> {}, exam |-> {}]

Kept(q) == {a \in Answers : ans[a].pc = "kept" /\ ans[a].ques = q}
Paper == DOMAIN exam.share
Under(pcs) == {e \in Editors : edit[e].pc \in pcs}
Open == Under({"changed", "locked", "counted"})

\* A request that has not been made, and may be.
Idle(pc) ==
  /\ pc = "idle"
  /\ Cardinality({e \in Editors : edit[e].pc # "idle"})
     + Cardinality({w \in Writers : write[w].pc # "idle"}) < MaxRequests

------------------------------------------------------------------------------
(* addQuestionToExam, removeQuestionFromExam and updateExam *)

\* Rows go in one by one: a question that is in the exam already, or gone, refuses the list.
AddQuestions(e, Q) ==
  /\ Idle(edit[e].pc) /\ Q # {} /\ Q \subseteq bank \ Paper
  /\ \A f \in Open : edit[f].add \cap Q = {}
  /\ edit' = [edit EXCEPT ![e] = [pc |-> "changed", add |-> Q, del |-> {}, num |-> 0]]
  /\ UNCHANGED <<exam, total_score, bankVars, pageVars, edited, rescored, left, erased>>

\* deleteMany takes the row if there is one, and waits for another who is deleting it.
RemoveQuestion(e, q) ==
  /\ Idle(edit[e].pc)
  /\ \A f \in Open : q \notin edit[f].del
  /\ edit' = [edit EXCEPT ![e] = [pc |-> "changed", add |-> {}, del |-> {q} \cap Paper, num |-> 0]]
  /\ UNCHANGED <<exam, total_score, bankVars, pageVars, edited, rescored, left, erased>>

\* The update of total_ques locks the row of the exam until the transaction ends.
Lock(e) ==
  /\ edit[e].pc = "changed" /\ Under({"locked", "counted"}) = {}
  /\ edit' = [edit EXCEPT ![e].pc = "locked"]
  /\ UNCHANGED <<exam, total_score, bankVars, pageVars, edited, rescored, left, erased>>

PaperOf(e) == (Paper \ edit[e].del) \cup edit[e].add

NumQues_Committed(e) == Cardinality(Paper)

NumQues(e) == Cardinality(PaperOf(e))

Count(e) ==
  /\ edit[e].pc = "locked"
  /\ edit' = [edit EXCEPT ![e] = [pc |-> "counted", add |-> edit[e].add, del |-> edit[e].del,
                                  num |-> NumQues(e)]]
  /\ UNCHANGED <<exam, total_score, bankVars, pageVars, edited, rescored, left, erased>>

NewTotal_NoIncrement(e) == exam.total - Cardinality(edit[e].del)

NewTotal(e) == exam.total + Cardinality(edit[e].add) - Cardinality(edit[e].del)

\* Every row gets the new share, and waits for rows another is deleting; with none left
\* there is nothing to share.
Commit(e) ==
  /\ edit[e].pc = "counted"
  /\ edit[e].num # 0 => \A f \in Open \ {e} : edit[f].del \cap Paper = {}
  /\ exam' = [total |-> NewTotal(e),
              share |-> [q \in PaperOf(e) |-> IF edit[e].num = 0 THEN exam.share[q]
                                              ELSE [of |-> total_score, by |-> edit[e].num]]]
  /\ edit' = [edit EXCEPT ![e] = [pc |-> "done", add |-> {}, del |-> {}, num |-> 0]]
  /\ left' = (left \/ edit[e].del # {})
  /\ rescored' = (rescored /\ edit[e].num = 0)
  /\ UNCHANGED <<total_score, bankVars, pageVars, edited, erased>>

\* updateExam writes what it is sent over the row, when nobody else has it, and leaves the
\* scores of the questions as they are.
UpdateExam(e, s) ==
  /\ Idle(edit[e].pc) /\ Under({"locked", "counted"}) = {} /\ s # total_score
  /\ total_score' = s /\ rescored' = TRUE
  /\ edit' = [edit EXCEPT ![e].pc = "done"]
  /\ UNCHANGED <<exam, bankVars, pageVars, edited, left, erased>>

\* A deadlock, a key that is taken or the time limit of the transaction.
Fail(e) ==
  /\ e \in Open
  /\ edit' = [edit EXCEPT ![e] = [pc |-> "done", add |-> {}, del |-> {}, num |-> 0]]
  /\ UNCHANGED <<exam, total_score, bankVars, pageVars, edited, rescored, left, erased>>

------------------------------------------------------------------------------
(* QuestionService *)

Touch(q) == touched' = touched \cup (page.ques \cap {q})

\* updateQuestion may turn a question into one of another type; its answers stay.
UpdateQuestion(w, q, t) ==
  /\ Idle(write[w].pc) /\ q \in bank /\ t # type[q]
  /\ type' = [type EXCEPT ![q] = t]
  /\ write' = [write EXCEPT ![w].pc = "done"]
  /\ retyped' = retyped \cup (page.ques \cap {q})
  /\ UNCHANGED <<bank, ans, examVars, pageVars, touched, left, erased, crossed>>

\* The answers, the rows of the exam and the rows of the attempt go with the question.  It
\* waits for a transaction that holds one of them.
DeleteQuestion(q) ==
  /\ q \in bank /\ Cardinality(erased.bank) < MaxErased
  /\ \A e \in Open : q \notin edit[e].add \cup edit[e].del
  /\ ~(att.pc = "graded" /\ q \in page.ques)
  /\ bank' = bank \ {q}
  /\ ans' = [a \in Answers |-> IF a \in Kept(q) THEN [ans[a] EXCEPT !.pc = "gone"] ELSE ans[a]]
  /\ exam' = [exam EXCEPT !.share = [p \in Paper \ {q} |-> exam.share[p]]]
  /\ row' = [p \in DOMAIN row \ {q} |-> row[p]]
  /\ Touch(q)
  /\ erased' = [bank |-> erased.bank \cup {q}, exam |-> erased.exam \cup ({q} \cap Paper)]
  /\ UNCHANGED <<type, total_score, edit, write, att, page, draft, retyped, rescored, left,
                 crossed>>

LastAid(q) == Max({ans[a].aid : a \in Kept(q)} \cup {0})

\* addAnswer reads the last number outside any transaction ...
ReadLast(w, q) ==
  /\ Idle(write[w].pc) /\ q \in bank
  /\ write' = [write EXCEPT ![w] = [pc |-> "read", ques |-> q, last |-> LastAid(q)]]
  /\ UNCHANGED <<bank, type, ans, examVars, pageVars, edited, left, erased, crossed>>

\* ... and inserts the next, unless the question is gone or the number is taken.
AddAnswer(w, a, right) ==
  LET q == write[w].ques
  IN /\ write[w].pc = "read" /\ ans[a].pc = "free"
     /\ q \in bank /\ \A b \in Kept(q) : ans[b].aid # write[w].last + 1
     /\ ans' = [ans EXCEPT ![a] = [pc |-> "kept", ques |-> q, aid |-> write[w].last + 1,
                                   right |-> right]]
     /\ write' = [write EXCEPT ![w].pc = "done"]
     /\ Touch(q)
     /\ UNCHANGED <<bank, type, examVars, pageVars, retyped, left, erased, crossed>>

AddRefused(w) ==
  /\ write[w].pc = "read"
  /\ write' = [write EXCEPT ![w].pc = "done"]
  /\ UNCHANGED <<bank, type, ans, examVars, pageVars, edited, left, erased, crossed>>

MovesDown_AnyQuestion(b, a) == ans[b].pc = "kept" /\ ans[b].aid > ans[a].aid

MovesDown(b, a) == b \in Kept(ans[a].ques) /\ ans[b].aid > ans[a].aid

\* The numbers above move down.  PostgreSQL checks the key row by row, in the order it meets
\* them: the statement may fail instead, and then nothing has changed.
DeleteAnswer(w, a) ==
  LET q == ans[a].ques
  IN /\ Idle(write[w].pc) /\ ans[a].pc = "kept"
     /\ ans' = [b \in Answers |-> IF b = a THEN [ans[b] EXCEPT !.pc = "gone"]
                                  ELSE IF MovesDown(b, a) THEN [ans[b] EXCEPT !.aid = @ - 1]
                                  ELSE ans[b]]
     /\ write' = [write EXCEPT ![w].pc = "done"]
     /\ Touch(q)
     /\ crossed' = crossed \cup {p \in {q} : \E v \in Writers : write[v].pc = "read" /\ write[v].ques = q}
     /\ UNCHANGED <<bank, type, examVars, pageVars, retyped, left, erased>>

UpdateAnswer(w, a) ==
  /\ Idle(write[w].pc) /\ ans[a].pc = "kept"
  /\ ans' = [ans EXCEPT ![a].right = ~@]
  /\ write' = [write EXCEPT ![w].pc = "done"]
  /\ Touch(ans[a].ques)
  /\ UNCHANGED <<bank, type, examVars, pageVars, retyped, left, erased, crossed>>

------------------------------------------------------------------------------
(* takeExam, continueTakeExam and the page *)

\* takeExam reads the questions beside its transaction ...
ReadPaper ==
  /\ att.pc = "none"
  /\ att' = [att EXCEPT !.pc = "read", !.list = Paper]
  /\ left' = FALSE
  /\ UNCHANGED <<bankVars, examVars, row, page, draft, edited, erased>>

\* ... and inserts a row for each; one that has gone refuses them all.
StartAttempt ==
  /\ att.pc = "read"
  /\ IF att.list \subseteq bank
       THEN att' = [att EXCEPT !.pc = "open"] /\ row' = [q \in att.list |-> {}]
       ELSE att' = [att EXCEPT !.pc = "none"] /\ UNCHANGED row
  /\ UNCHANGED <<bankVars, examVars, page, draft, edited, left, erased>>

ListShown_OfExam == Paper

ListShown == DOMAIN row

\* What is chosen comes from the rows, and where they have nothing from the browser.
Restored(q) ==
  IF row[q] # {} THEN row[q] ELSE IF q \in DOMAIN draft THEN draft[q] ELSE {}

LoadPage ==
  /\ att.pc = "open" /\ page.loads < MaxLoads
  /\ page' = [loads |-> page.loads + 1, ques |-> ListShown,
              type |-> [q \in ListShown |-> type[q]],
              aid |-> [a \in Answers |-> IF a \in UNION {Kept(q) : q \in ListShown}
                                         THEN ans[a].aid ELSE 0],
              right |-> {a \in UNION {Kept(q) : q \in ListShown} : ans[a].right},
              picked |-> [q \in ListShown |-> IF q \in DOMAIN row THEN Restored(q) ELSE {}]]
  /\ touched' = {} /\ retyped' = {}
  /\ UNCHANGED <<bankVars, examVars, att, row, draft, left, erased>>

Picked(q, aid) ==
  [page.picked EXCEPT ![q] = IF page.type[q] # "multiple" THEN {aid}
                             ELSE IF aid \in @ THEN @ \ {aid} ELSE @ \cup {aid}]

\* A save replaces the rows of the attempt; it fails when a question has gone or none is left
\* in the exam, and it may be lost.
Saved(picked) ==
  \/ page.ques \subseteq bank /\ exam.total # 0 /\ row' = picked
  \/ UNCHANGED row

Pick(q, a) ==
  /\ att.pc = "open" /\ q \in page.ques /\ ans[a].ques = q /\ page.aid[a] # 0
  /\ page' = [page EXCEPT !.picked = Picked(q, page.aid[a])]
  /\ draft' = Picked(q, page.aid[a])
  /\ Saved(Picked(q, page.aid[a]))
  /\ UNCHANGED <<bankVars, examVars, att, edited, left, erased>>

------------------------------------------------------------------------------
(* submitExam and calculateScore *)

RightAids(q) == {ans[a].aid : a \in {b \in Kept(q) : ans[b].right}}

MultipleMark_NoPenalty(q, chosen) ==
  IF RightAids(q) = {} THEN 0
  ELSE (Unit * Cardinality(chosen \cap RightAids(q))) \div Cardinality(RightAids(q))

MultipleMark(q, chosen) ==
  LET right == Cardinality(chosen \cap RightAids(q))
      wrong == Cardinality(chosen \ RightAids(q))
  IN IF right <= wrong THEN 0 ELSE (Unit * (right - wrong)) \div Cardinality(RightAids(q))

\* The first of a list is any of its numbers here, and no number (undefined) when it is empty.
First(numbers) == IF numbers = {} THEN {0} ELSE numbers

\* The first number chosen is compared with that of the first right answer, as the database
\* returns them; with neither, undefined equals undefined.
SingleMarks(q, chosen) ==
  {IF mine = right THEN Unit ELSE 0 : mine \in First(chosen), right \in First(RightAids(q))}

Marks(q, chosen) ==
  CASE type[q] = "single" -> SingleMarks(q, chosen)
    [] type[q] = "multiple" -> {MultipleMark(q, chosen)}
    [] OTHER -> {0}

\* The rows are replaced, which fails when a question has gone, and the answers are graded ...
Submit ==
  /\ att.pc = "open" /\ page.loads > 0 /\ page.ques \subseteq bank
  /\ \E mark \in [page.ques -> UNION {Marks(q, page.picked[q]) : q \in page.ques}] :
       /\ \A q \in page.ques : mark[q] \in Marks(q, page.picked[q])
       /\ att' = [att EXCEPT !.pc = "graded", !.mark = mark]
  /\ UNCHANGED <<bankVars, examVars, row, page, draft, edited, left, erased>>

\* ... then total_ques and total_score are read, and the marks divided by the one are the part
\* of the other that is the score; a division by zero is refused.
Settle ==
  /\ att.pc = "graded"
  /\ IF exam.total = 0
       THEN att' = [att EXCEPT !.pc = "open", !.mark = [q \in {} |-> 0]] /\ UNCHANGED row
       ELSE att' = [att EXCEPT !.pc = "done", !.total = exam.total] /\ row' = page.picked
  /\ UNCHANGED <<bankVars, examVars, page, draft, edited, left, erased>>

------------------------------------------------------------------------------

Next ==
  \/ \E e \in Editors :
       \/ \E Q \in SUBSET Questions : AddQuestions(e, Q)
       \/ \E q \in Questions : RemoveQuestion(e, q)
       \/ \E s \in Scores : UpdateExam(e, s)
       \/ Lock(e) \/ Count(e) \/ Commit(e) \/ Fail(e)
  \/ \E q \in Questions : DeleteQuestion(q)
  \/ \E w \in Writers :
       \/ \E q \in Questions : ReadLast(w, q) \/ \E t \in Types : UpdateQuestion(w, q, t)
       \/ \E a \in Answers : \/ \E right \in BOOLEAN : AddAnswer(w, a, right)
                             \/ DeleteAnswer(w, a) \/ UpdateAnswer(w, a)
       \/ AddRefused(w)
  \/ ReadPaper \/ StartAttempt \/ LoadPage \/ Submit \/ Settle
  \/ \E q \in Questions, a \in Answers : Pick(q, a)

Spec == Init /\ [][Next]_vars

------------------------------------------------------------------------------
(* Properties *)

\* The rows of the bank, the exam and the attempt keep their shapes, and the answers of a
\* question have numbers of their own, in a row from one unless one was deleted while another
\* was being added: that insertion leaves the gap it read past.
TypeOK ==
  /\ bank \subseteq Questions /\ Paper \subseteq bank /\ DOMAIN row \subseteq bank
  /\ \A a \in Answers : ans[a].pc \in {"free", "kept", "gone"} /\ ans[a].aid \in Nat
  /\ \A q \in Questions \ crossed :
       {ans[a].aid : a \in Kept(q)} = 1..Cardinality(Kept(q))
  /\ \A q \in Questions : \A a, b \in Kept(q) : ans[a].aid = ans[b].aid => a = b
  /\ exam.total \in Nat /\ total_score \in Scores /\ type \in [Questions -> Types]
  /\ \A e \in Editors : edit[e].pc \in {"idle", "changed", "locked", "counted", "done"}
  /\ \A w \in Writers : write[w].pc \in {"idle", "read", "done"} /\ write[w].last \in Nat
  /\ att.pc \in {"none", "read", "open", "graded", "done"}
  /\ DOMAIN page.picked = page.ques /\ page.loads \in 0..MaxLoads

\* The counter of an exam is the number of its rows, and the scores of its rows share one total
\* evenly, whatever editors overlap: the exam's own, unless updateExam has changed that since.
\* Only a question deleted from the bank takes its row along and leaves the counter as it was
\* (and the shares, until the next edit).
ExamAddsUp ==
  /\ exam.total = Cardinality(Paper) + Cardinality(erased.exam)
  /\ erased.exam = {} =>
       \E s \in Scores :
         /\ \A q \in Paper : exam.share[q] = [of |-> s, by |-> Cardinality(Paper)]
         /\ ~rescored => s = total_score

\* An attempt keeps the questions it was started with, through edits of the exam, reloads,
\* saves and the hand-in; only a question that leaves the bank leaves it.
AttemptKeepsItsPaper ==
  att.pc \in {"open", "graded", "done"} => DOMAIN row = att.list \ erased.bank

\* A choice earns what the answers on the page promised when it is handed in, though it goes
\* as a number.  Where the answers of a question have not been edited since the page loaded,
\* none is earned without choosing one of the right answers shown.  Where its type has not
\* changed either: with one right answer, the whole mark for it and none for anything else;
\* with several, the whole mark for exactly those, and none unless they outnumber the wrong
\* ones.  That leaves out a number restored to the page that no answer there has any more (it
\* counts as a wrong choice that nobody sees), and several choices restored to a question that
\* has become a single choice (the first of them decides).
Chosen(q) == {a \in Answers : ans[a].ques = q /\ page.aid[a] \in page.picked[q] /\ page.aid[a] # 0}
Promised(q) == {a \in page.right : ans[a].ques = q}
Unseen(q) == page.picked[q] \ {page.aid[a] : a \in Chosen(q)}
NeedsARightChoice(q) ==
  att.mark[q] > 0 /\ Promised(q) # {} => Chosen(q) \cap Promised(q) # {}
EarnsSingle(q) ==
  page.type[q] = "single" /\ Cardinality(Promised(q)) = 1 /\ Cardinality(page.picked[q]) <= 1 =>
    att.mark[q] = IF Chosen(q) = Promised(q) THEN Unit ELSE 0
EarnsMultiple(q) ==
  page.type[q] = "multiple" /\ Promised(q) # {} /\ Unseen(q) = {} =>
    /\ (att.mark[q] = Unit) = (Chosen(q) = Promised(q))
    /\ (att.mark[q] > 0) = (Cardinality(Chosen(q) \cap Promised(q))
                            > Cardinality(Chosen(q) \ Promised(q)))
GradedAsShown ==
  att.pc \in {"graded", "done"} =>
    \A q \in page.ques \ touched :
      /\ NeedsARightChoice(q)
      /\ q \notin retyped => EarnsSingle(q) /\ EarnsMultiple(q)

\* The score is total_score times the sum of the marks over total_ques, both as they are at the
\* end: it stays within that total_score, unless a question was removed from the exam since the
\* attempt read its questions.
ScoreWithinTotal ==
  att.pc = "done" /\ ~left =>
    MapThenSumSet(LAMBDA q : att.mark[q], page.ques) <= Unit * att.total
=============================================================================
