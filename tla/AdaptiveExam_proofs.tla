-------------------------- MODULE AdaptiveExam_proofs --------------------------
(***************************************************************************)
(* What holds of AdaptiveExam for any questions, submissions and bounds.   *)
(* Counting ties the number on the page, and in the request it has made,   *)
(* to the answers kept; Locking says what a submission that holds the      *)
(* answer rows knows of the attempt; Reading which answers a submission,   *)
(* running or committed, can have missed, by who began it.                 *)
(***************************************************************************)
EXTENDS AdaptiveExam, FiniteSetTheorems, TLAPS

Asked == [pc : {"sent", "asking", "last"}, q : Questions, index : 1..MaxQuestions, right : BOOLEAN]
Starters == {"page", "result", "handler"}
Submissions == [pc : {"read"}, from : Starters, seen : SUBSET Questions]
               \cup [pc : {"locked"}, from : Starters, seen : SUBSET Questions, held : SUBSET Questions,
                     existing : [isDone : BOOLEAN, doneAt : Nat, right : Nat, of : Nat]]

\* The locals of the handlers, and what TypeOK does not mention.
Shape ==
  /\ TypeOK
  /\ next \in Asked \cup {NoNext}
  /\ submit \in [Submits -> Submissions \cup {NoSubmit}]
  /\ writes \in Nat /\ closer \in {"nobody", "job", "locked", "unlocked"}

\* The page that shows a question has no request under way and counts one more than what is
\* kept, from 1; a request with an answer on its way is the next to be kept.
Counting ==
  /\ page.step = "answering" =>
       next.pc = "idle" /\ rows[page.q] = NoRow /\ page.index = Cardinality(Answered) + 1
  /\ next.pc = "sent" => rows[next.q] = NoRow /\ next.index = Cardinality(Answered) + 1
  /\ next.pc = "asking" => next.index = Cardinality(Answered) /\ next.index < MaxQuestions
  /\ AnswersInOrder

\* Submissions read answers that are still there; one that locked some of them shares them
\* with no other, and still knows when the attempt was done unless somebody did not have to
\* lock them.
Locked(t) == submit[t].pc = "locked"
Locking ==
  /\ \A t \in Submits :
       /\ submit[t].pc # "idle" => submit[t].seen \subseteq Answered
       /\ Locked(t) => /\ submit[t].held \subseteq Answered
                       /\ submit[t].existing.isDone => attempt.isDone
                       /\ submit[t].existing.doneAt <= writes
       /\ Locked(t) /\ submit[t].held # {} =>
            \/ closer \in {"job", "unlocked"}
            \/ /\ submit[t].existing.isDone = attempt.isDone
               /\ submit[t].existing.doneAt = attempt.doneAt
  /\ \A t, u \in Submits :
       Locked(t) /\ Locked(u) /\ submit[t].held # {} /\ submit[u].held # {} => t = u
  /\ attempt.doneAt <= writes

\* The page and its calls will keep no further answer.
Over == page.step # "answering" /\ next.pc = "idle"

\* At most one answer, and none while a request with one is still on its way.
OnlyTheLast(S) == (\A x, y \in S : x = y) /\ (next.pc = "sent" => S = {})

\* What the attempt says, and what can have been missed: nothing by the handler, which
\* submits when the session is over, and by the result page, which is opened when the
\* session page has been left, the answer whose request was still running.
Written ==
  scorer # "nobody" =>
    /\ attempt.right = Cardinality(RightOnes(Answered \ (missed \cup later)))
    /\ attempt.of = Cardinality(Answered \ later) /\ attempt.of > 0
Reading ==
  /\ \A t \in Submits : submit[t].pc # "idle" =>
       /\ submit[t].from = "handler" => Over /\ submit[t].seen = Answered
       /\ submit[t].from = "result" => page.step = "left" /\ OnlyTheLast(Answered \ submit[t].seen)
  /\ scorer = "handler" => Over /\ missed = {} /\ later = {}
  /\ scorer = "result" => page.step = "left" /\ OnlyTheLast(missed \cup later)
  /\ missed \subseteq Answered /\ later \subseteq Answered
  /\ Written

IInv == Shape /\ Counting /\ Locking /\ Reading

\* A page that has been left stays left and sends no answer; a session that is over stays so.
Onward ==
  /\ page.step = "left" => page'.step = "left" /\ (next'.pc = "sent" => next.pc = "sent")
  /\ Over => Over'

------------------------------------------------------------------------------
(* What the shapes give *)

LEMMA AnsweredFinite ==
  /\ Answered \subseteq Questions /\ IsFiniteSet(Answered) /\ Cardinality(Answered) \in Nat
<1>1. Answered \subseteq Questions  BY DEF Answered
<1> QED  BY <1>1, ConstantsAssumption, FS_Subset, FS_CardinalityType

LEMMA SubmissionShape ==
  ASSUME Shape, NEW t \in Submits
  PROVE  /\ submit[t].pc \in {"idle", "read", "locked"}
         /\ submit[t].pc # "idle" => submit[t].seen \subseteq Questions /\ submit[t].from \in Starters
         /\ Locked(t) => /\ submit[t].held \subseteq Questions
                         /\ submit[t].existing.isDone \in BOOLEAN
                         /\ submit[t].existing.doneAt \in Nat
         /\ submit[t].pc = "idle" => submit[t] = NoSubmit
BY DEF Shape, Submissions, NoSubmit, Locked

LEMMA RequestShape ==
  ASSUME Shape
  PROVE  /\ next.pc # "idle" => /\ next \in Asked /\ next.q \in Questions
                               /\ next.index \in 1..MaxQuestions /\ next.right \in BOOLEAN
         /\ next.pc = "idle" => next = NoNext
BY DEF Shape, Asked, NoNext

LEMMA InitIInv == Init => IInv
<1> SUFFICES ASSUME Init PROVE IInv  OBVIOUS
<1> USE ConstantsAssumption
<1>1. Answered = {}  BY DEF Init, Answered
<1>2. Cardinality(Answered) = 0  BY <1>1, FS_EmptySet
<1>3. Shape  BY DEF Init, Shape, TypeOK, NoNext, NoSubmit
<1>4. AnswersInOrder  BY <1>1, <1>2 DEF AnswersInOrder
<1>5. Counting  BY <1>2, <1>4 DEF Init, Counting, NoNext
<1>6. Locking
  <2>1. \A t \in Submits : submit[t].pc = "idle"  BY DEF Init, NoSubmit
  <2>2. attempt.doneAt <= writes  BY DEF Init
  <2> QED  BY <2>1, <2>2 DEF Locking, Locked
<1>7. Reading
  <2>1. \A t \in Submits : submit[t].pc = "idle"  BY DEF Init, NoSubmit
  <2> QED  BY <1>1, <2>1 DEF Init, Reading, Written
<1> QED  BY <1>3, <1>5, <1>6, <1>7 DEF IInv

------------------------------------------------------------------------------
(* The page and its calls *)

\* What is said of the last score stays true while the page goes on and nothing is scored.
LEMMA ScoreStays ==
  ASSUME IInv, Onward, UNCHANGED <<attempt, rows, scoring>>
  PROVE  /\ scorer' = "handler" => Over' /\ missed' = {} /\ later' = {}
         /\ scorer' = "result" => page'.step = "left" /\ OnlyTheLast(missed \cup later)'
         /\ missed' \subseteq Answered' /\ later' \subseteq Answered'
         /\ Written'
<1>1. Answered' = Answered  BY DEF Answered
<1>2. scorer' = scorer /\ missed' = missed /\ later' = later  BY DEF scoring
<1>3. scorer = "result" => page.step = "left" /\ OnlyTheLast(missed \cup later)
  BY DEF IInv, Reading
<1>4. scorer' = "result" => page'.step = "left" /\ OnlyTheLast(missed \cup later)'
  BY <1>2, <1>3 DEF OnlyTheLast, Onward
<1>5. scorer' = "handler" => Over' /\ missed' = {} /\ later' = {}
  BY <1>2 DEF IInv, Reading, Onward
<1>6. Written'  BY <1>1, <1>2 DEF IInv, Reading, Written, RightOnes
<1> QED  BY <1>1, <1>2, <1>4, <1>5, <1>6 DEF IInv, Reading

\* Beginning a submission reads the answers and touches nothing else of the attempt.
LEMMA Begins ==
  ASSUME IInv, NEW t \in Submits, NEW from \in Starters, SubmitBegins(t, from),
         UNCHANGED <<attempt, rows, job, writes, closer, scoring, faults>>,
         page' \in [step : {"answering", "loading", "left"}, q : Questions,
                    index : 1..MaxQuestions, leaving : BOOLEAN],
         next' \in Asked \cup {NoNext}, Counting', Onward,
         from = "handler" => Over', from = "result" => page'.step = "left"
  PROVE  IInv'
<1>1. submit \in [Submits -> Submissions \cup {NoSubmit}]  BY DEF IInv, Shape
<1>2. Answered' = Answered /\ Answered \subseteq Questions  BY AnsweredFinite DEF Answered
<1> DEFINE r == [pc |-> "read", from |-> from, seen |-> Answered]
<1>3. r \in Submissions  BY <1>2 DEF Submissions
<1>4. submit' = [submit EXCEPT ![t] = r]  BY DEF SubmitBegins
<1>5. submit'[t] = r /\ \A u \in Submits : u = t \/ submit'[u] = submit[u]  BY <1>1, <1>4
<1>6. submit' \in [Submits -> Submissions \cup {NoSubmit}]  BY <1>1, <1>3, <1>4
<1>7. TypeOK'
  <2>1. submitted' \in 0..MaxSubmits
    BY ConstantsAssumption DEF SubmitBegins, IInv, Shape, TypeOK
  <2>2. \A u \in Submits : submit'[u].pc \in {"idle", "read", "locked"}
    BY <1>5 DEF IInv, Shape, TypeOK
  <2>3. next'.pc \in {"idle", "sent", "asking", "last"}  BY DEF Asked, NoNext
  <2> QED  BY <2>1, <2>2, <2>3 DEF IInv, Shape, TypeOK, scoring
<1>8. Shape'  BY <1>6, <1>7 DEF IInv, Shape
<1>9. Locking'
  BY <1>2, <1>5 DEF IInv, Locking, Locked
<1>10. ASSUME NEW u \in Submits, submit'[u].pc # "idle"
       PROVE  /\ submit'[u].from = "handler" => Over' /\ submit'[u].seen = Answered'
              /\ submit'[u].from = "result" =>
                   page'.step = "left" /\ OnlyTheLast(Answered \ submit[u].seen)'
  <2>1. CASE u = t
    <3>1. submit'[u].from = from /\ submit'[u].seen = Answered  BY <1>5, <2>1
    <3>2. Answered' \ submit'[u].seen = {}  BY <1>2, <3>1
    <3>3. OnlyTheLast(Answered \ submit[u].seen)'  BY <3>2 DEF OnlyTheLast
    <3> QED  BY <1>2, <3>1, <3>3
  <2>2. CASE u # t
    <3>1. submit'[u] = submit[u]  BY <1>5, <2>2
    <3>2. submit[u].from = "handler" => Over' /\ submit[u].seen = Answered
      BY <1>10, <3>1 DEF IInv, Reading, Onward
    <3>3. submit[u].from = "result" =>
            page.step = "left" /\ page'.step = "left" /\ OnlyTheLast(Answered \ submit[u].seen)
      BY <1>10, <3>1 DEF IInv, Reading, Onward
    <3>4. submit[u].from = "result" => OnlyTheLast(Answered \ submit[u].seen)'
      BY <1>2, <3>1, <3>3 DEF OnlyTheLast, Onward
    <3> QED  BY <1>2, <3>1, <3>2, <3>3, <3>4
  <2> QED  BY <2>1, <2>2
<1>11. Reading'  BY <1>10, ScoreStays DEF Reading
<1> QED  BY <1>8, <1>9, <1>11 DEF IInv

\* A step of the page or of its call that leaves the answers and the submissions alone.
LEMMA CallMoves ==
  ASSUME IInv,
         UNCHANGED <<attempt, rows, submit, job, submitted, writes, closer, scoring, faults>>,
         page' \in [step : {"answering", "loading", "left"}, q : Questions,
                    index : 1..MaxQuestions, leaving : BOOLEAN],
         next' \in Asked \cup {NoNext}, Counting', Onward
  PROVE  IInv'
<1>1. Answered' = Answered  BY DEF Answered
<1>2. next'.pc \in {"idle", "sent", "asking", "last"}  BY DEF Asked, NoNext
<1>3. Shape'  BY <1>2 DEF IInv, Shape, TypeOK, scoring
<1>4. Locking'  BY <1>1 DEF IInv, Locking, Locked
<1>5. ASSUME NEW u \in Submits, submit'[u].pc # "idle"
      PROVE  /\ submit'[u].from = "handler" => Over' /\ submit'[u].seen = Answered'
             /\ submit'[u].from = "result" =>
                  page'.step = "left" /\ OnlyTheLast(Answered \ submit[u].seen)'
  <2>1. submit[u].from = "handler" => Over' /\ submit[u].seen = Answered
    BY <1>5 DEF IInv, Reading, Onward
  <2>2. submit[u].from = "result" =>
          page.step = "left" /\ page'.step = "left" /\ OnlyTheLast(Answered \ submit[u].seen)
    BY <1>5 DEF IInv, Reading, Onward
  <2>3. submit[u].from = "result" => OnlyTheLast(Answered \ submit[u].seen)'
    BY <1>1, <2>2 DEF OnlyTheLast, Onward
  <2> QED  BY <1>1, <2>1, <2>2, <2>3
<1>6. Reading'  BY <1>5, ScoreStays DEF Reading
<1> QED  BY <1>3, <1>4, <1>6 DEF IInv

\* Where the answers are the same, so is what is said of their number and order.
LEMMA SameAnswers ==
  ASSUME IInv, UNCHANGED rows
  PROVE  /\ Answered' = Answered /\ Cardinality(Answered)' = Cardinality(Answered)
         /\ AnswersInOrder' /\ Cardinality(Answered) \in Nat
<1>1. Answered' = Answered  BY DEF Answered
<1> QED  BY <1>1, AnsweredFinite DEF IInv, Counting, AnswersInOrder

LEMMA PageStep ==
  ASSUME IInv, PageNext
  PROVE  IInv'
<1>0. /\ page \in [step : {"answering", "loading", "left"}, q : Questions,
                   index : 1..MaxQuestions, leaving : BOOLEAN]
      /\ next \in Asked \cup {NoNext} /\ Counting
  BY DEF IInv, Shape, TypeOK
<1>1. CASE Leave
  <2>1. Counting'  BY <1>0, <1>1, SameAnswers DEF Leave, Counting
  <2>2. page' \in [step : {"answering", "loading", "left"}, q : Questions,
                    index : 1..MaxQuestions, leaving : BOOLEAN]
    BY <1>0, <1>1 DEF Leave
  <2>3. Onward  BY <1>0, <1>1, <2>2 DEF Leave, Onward, Over
  <2> QED  BY <1>0, <1>1, <2>1, <2>2, <2>3, CallMoves DEF Leave
<1>2. CASE PostAnswer
  <2>1. PICK right \in BOOLEAN :
          next' = [pc |-> "sent", q |-> page.q, index |-> page.index, right |-> right]
    BY <1>2 DEF PostAnswer
  <2>2. next' \in Asked  BY <1>0, <2>1 DEF Asked
  <2>3. page' = [page EXCEPT !.step = "loading"]  BY <1>2 DEF PostAnswer
  <2>4. UNCHANGED <<attempt, rows, submit, job, submitted, writes, closer, scoring, faults>>
        /\ page.step = "answering"
    BY <1>2 DEF PostAnswer
  <2>5. Counting'  BY <1>0, <2>1, <2>3, <2>4, SameAnswers DEF Counting
  <2>6. page' \in [step : {"answering", "loading", "left"}, q : Questions,
                    index : 1..MaxQuestions, leaving : BOOLEAN]
    BY <1>0, <2>3
  <2>7. Onward  BY <2>4 DEF Onward, Over
  <2> QED  BY <2>2, <2>4, <2>5, <2>6, <2>7, CallMoves
<1>3. ASSUME NEW t \in Submits, Finalize(t) PROVE IInv'
  <2>1. Counting'  BY <1>0, <1>3, SameAnswers DEF Finalize, Counting
  <2>2. page' \in [step : {"answering", "loading", "left"}, q : Questions,
                    index : 1..MaxQuestions, leaving : BOOLEAN]
    BY <1>0, <1>3 DEF Finalize
  <2>3. Onward  BY <1>0, <1>3, <2>2 DEF Finalize, Onward, Over
  <2>4. "page" \in Starters  BY DEF Starters
  <2> QED  BY <1>0, <1>3, <2>1, <2>2, <2>3, <2>4, Begins DEF Finalize
<1>4. ASSUME NEW t \in Submits, OpenResult(t) PROVE IInv'
  <2>1. Counting'  BY <1>0, <1>4, SameAnswers DEF OpenResult, Counting
  <2>2. Onward  BY <1>4 DEF OpenResult, Onward, Over
  <2>3. "result" \in Starters  BY DEF Starters
  <2> QED  BY <1>0, <1>4, <2>1, <2>2, <2>3, Begins DEF OpenResult
<1> QED  BY <1>1, <1>2, <1>3, <1>4 DEF PageNext

------------------------------------------------------------------------------
(* getNextAdaptiveQuestion *)

\* Telling a page that it is to leave changes neither what it shows nor where it stands.
LEMMA ToldToLeave ==
  ASSUME IInv, page' = Told([page EXCEPT !.leaving = TRUE])
  PROVE  /\ page' \in [step : {"answering", "loading", "left"}, q : Questions,
                       index : 1..MaxQuestions, leaving : BOOLEAN]
         /\ page'.step = page.step
BY DEF Told, IInv, Shape, TypeOK

LEMMA KeepAnswerStep ==
  ASSUME IInv, KeepAnswer
  PROVE  IInv'
<1> DEFINE q == next.q
           n == Cardinality(Answered)
           row == [index |-> n + 2, right |-> next.right]
<1>0. next.pc = "sent"  BY DEF KeepAnswer
<1>1. /\ next \in Asked /\ q \in Questions /\ next.right \in BOOLEAN
      /\ next.index \in 1..MaxQuestions /\ rows[q] = NoRow /\ next.index = n + 1
      /\ page.step # "answering"
  BY <1>0, RequestShape DEF IInv, Counting
<1>2. n \in Nat /\ MaxQuestions \in Nat /\ n + 1 <= MaxQuestions
      /\ rows \in [Questions -> [index : 1..MaxQuestions + 1, right : BOOLEAN] \cup {NoRow}]
  BY <1>1, AnsweredFinite, ConstantsAssumption DEF IInv, Shape, TypeOK
<1>3. rows' = [rows EXCEPT ![q] = row]
  <2>1. IndexKept(q, next.index) = n + 2  BY <1>1, <1>2 DEF IndexKept
  <2> QED  BY <2>1 DEF KeepAnswer
<1>4. row \in [index : 1..MaxQuestions + 1, right : BOOLEAN] /\ row # NoRow
  <2>1. row \in [index : Nat, right : BOOLEAN]  BY <1>1, <1>2
  <2>2. row \in [index : 1..MaxQuestions + 1, right : BOOLEAN]  BY <1>1, <1>2
  <2> QED  BY <2>1, <2>2, ConstantsAssumption
<1>5. rows'[q] = row /\ \A x \in Questions : x = q \/ rows'[x] = rows[x]
  BY <1>1, <1>2, <1>3
<1>6. q \notin Answered /\ Answered' = Answered \cup {q}
  BY <1>1, <1>4, <1>5 DEF Answered
<1>7. Cardinality(Answered)' = n + 1
  BY <1>6, AnsweredFinite, FS_AddElement
<1>8. AnswersInOrder'
  <2>1. {rows[x].index : x \in Answered} = 2..n + 1  BY DEF IInv, Counting, AnswersInOrder
  <2>2. \A x \in Answered : rows'[x] = rows[x]  BY <1>5, <1>6, AnsweredFinite
  <2>3. {rows'[x].index : x \in Answered'} = {rows[x].index : x \in Answered} \cup {n + 2}
    BY <1>5, <1>6, <2>2
  <2>4. 2..n + 2 = (2..n + 1) \cup {n + 2}  BY <1>2
  <2>5. {rows'[x].index : x \in Answered'} = 2..(n + 1) + 1  BY <1>2, <2>1, <2>3, <2>4
  <2> QED  BY <1>2, <1>7, <2>5 DEF AnswersInOrder
<1>9. next' = [next EXCEPT !.pc = IF LastQuestion(next.index) THEN "last" ELSE "asking"]
      /\ UNCHANGED <<attempt, page, submit, job, submitted, writes, closer, scorer, missed, faults>>
  BY DEF KeepAnswer
<1>10. next' \in Asked  BY <1>1, <1>9 DEF Asked
<1>11. Counting'
  <2>1. page'.step # "answering" /\ next'.pc # "sent"  BY <1>1, <1>9, <1>10 DEF Asked
  <2>2. ASSUME next'.pc = "asking"
        PROVE  next'.index = Cardinality(Answered)' /\ next'.index < MaxQuestions
    <3>1. next'.index = next.index  BY <1>1, <1>9 DEF Asked
    <3>2. ~LastQuestion(next.index)  BY <1>1, <1>9, <2>2 DEF Asked
    <3> QED  BY <1>1, <1>2, <1>7, <3>1, <3>2 DEF LastQuestion
  <2> QED  BY <1>8, <2>1, <2>2 DEF Counting
<1>12. later' = later \cup {q}  BY DEF KeepAnswer
<1>13. Shape'
  <2>1. rows' \in [Questions -> [index : 1..MaxQuestions + 1, right : BOOLEAN] \cup {NoRow}]
    BY <1>2, <1>3, <1>4
  <2>2. next'.pc \in {"idle", "sent", "asking", "last"}  BY <1>10 DEF Asked
  <2>3. later' \subseteq Questions  BY <1>1, <1>12 DEF IInv, Shape, TypeOK
  <2> QED  BY <1>9, <1>10, <2>1, <2>2, <2>3 DEF IInv, Shape, TypeOK
<1>14. Locking'  BY <1>6, <1>9 DEF IInv, Locking, Locked
<1>15. ~Over /\ next'.pc # "sent"  BY <1>0, <1>9, <1>10 DEF Over, Asked
<1>16. ASSUME NEW u \in Submits, submit'[u].pc # "idle"
       PROVE  /\ submit'[u].from = "handler" => Over' /\ submit'[u].seen = Answered'
              /\ submit'[u].from = "result" =>
                   page'.step = "left" /\ OnlyTheLast(Answered \ submit[u].seen)'
  <2>1. submit'[u] = submit[u] /\ page' = page /\ submit[u].from # "handler"
    BY <1>9, <1>15, <1>16 DEF IInv, Reading
  <2>2. submit[u].from = "result" => page.step = "left" /\ Answered \ submit[u].seen = {}
    BY <1>0, <1>16, <2>1 DEF IInv, Reading, OnlyTheLast
  <2>3. submit[u].from = "result" => Answered' \ submit'[u].seen \subseteq {q}
    BY <1>6, <2>1, <2>2
  <2>4. submit[u].from = "result" => OnlyTheLast(Answered \ submit[u].seen)'
    BY <1>15, <2>3 DEF OnlyTheLast
  <2> QED  BY <2>1, <2>2, <2>4
<1>17. scorer # "handler"  BY <1>15 DEF IInv, Reading
<1>18. scorer = "result" => page'.step = "left" /\ OnlyTheLast(missed \cup later)'
  <2>1. scorer = "result" => page.step = "left" /\ missed \cup later = {}
    BY <1>0 DEF IInv, Reading, OnlyTheLast
  <2>2. scorer = "result" => missed' \cup later' \subseteq {q}  BY <1>9, <1>12, <2>1
  <2> QED  BY <1>9, <1>15, <2>1, <2>2 DEF OnlyTheLast
<1>19. missed' \subseteq Answered' /\ later' \subseteq Answered'
  BY <1>6, <1>9, <1>12 DEF IInv, Reading
<1>20. Written'
  <2>1. Answered' \ (missed' \cup later') = Answered \ (missed \cup later)
    BY <1>6, <1>9, <1>12
  <2>2. Answered' \ later' = Answered \ later  BY <1>6, <1>12
  <2>3. \A x \in Answered : rows'[x] = rows[x]  BY <1>5, <1>6, AnsweredFinite
  <2>4. RightOnes(Answered \ (missed \cup later))' = RightOnes(Answered \ (missed \cup later))
    BY <2>1, <2>3 DEF RightOnes
  <2> QED  BY <1>9, <2>2, <2>4 DEF IInv, Reading, Written
<1>21. Reading'  BY <1>9, <1>16, <1>17, <1>18, <1>19, <1>20 DEF Reading
<1> QED  BY <1>11, <1>13, <1>14, <1>21 DEF IInv

LEMMA CallStep ==
  ASSUME IInv, CallNext
  PROVE  IInv'
<1>0. /\ page \in [step : {"answering", "loading", "left"}, q : Questions,
                   index : 1..MaxQuestions, leaving : BOOLEAN]
      /\ Counting /\ Cardinality(Answered) \in Nat
  BY AnsweredFinite DEF IInv, Shape, TypeOK
<1>1. CASE KeepAnswer  BY <1>1, KeepAnswerStep
<1>2. ASSUME NEW band \in {"low", "mid", "high"}, Serve(band) PROVE IInv'
  <2>1. PICK q \in Unseen(NextLevel(Level[next.q], band)) :
          page' = Told([page EXCEPT !.step = "answering", !.q = q, !.index = next.index + 1])
    BY <1>2 DEF Serve
  <2>2. /\ next.pc = "asking" /\ next' = NoNext
        /\ UNCHANGED <<attempt, rows, submit, job, submitted, writes, closer, scoring, faults>>
    BY <1>2 DEF Serve
  <2>3. q \in Questions /\ rows[q] = NoRow  BY <2>1 DEF Unseen, Answered
  <2>4. next.index \in 1..MaxQuestions /\ next.index + 1 \in 1..MaxQuestions
        /\ next.index = Cardinality(Answered) /\ page.step # "answering"
    BY <1>0, <2>2, RequestShape, ConstantsAssumption DEF IInv, Counting
  <2>5. page' \in [step : {"answering", "loading", "left"}, q : Questions,
                    index : 1..MaxQuestions, leaving : BOOLEAN]
    BY <1>0, <2>1, <2>3, <2>4 DEF Told
  <2>6. page'.step = "answering" =>
          page'.q = q /\ page'.index = Cardinality(Answered) + 1
    BY <1>0, <2>1, <2>4 DEF Told
  <2>7. Counting'  BY <2>2, <2>3, <2>6, SameAnswers DEF Counting, NoNext
  <2>8. Onward  BY <2>1, <2>2 DEF Onward, Over, Told, NoNext
  <2> QED  BY <2>2, <2>5, <2>7, <2>8, CallMoves
<1>3. CASE NoLevel
  <2>1. Counting'
    BY <1>0, <1>3, ToldToLeave, SameAnswers DEF NoLevel, Counting, NoNext
  <2>2. Onward  BY <1>3, ToldToLeave DEF NoLevel, Onward, Over, NoNext
  <2> QED  BY <1>3, <2>1, <2>2, ToldToLeave, CallMoves DEF NoLevel
<1>4. ASSUME NEW t \in Submits, SubmitItself(t) PROVE IInv'
  <2>1. next.pc \in {"last", "asking"}  BY <1>4 DEF SubmitItself
  <2>2. Counting'
    BY <1>0, <1>4, <2>1, ToldToLeave, SameAnswers DEF SubmitItself, Counting, NoNext
  <2>3. Over'
    <3>1. page.step # "answering"  BY <1>0, <2>1 DEF Counting
    <3> QED  BY <1>4, <3>1, ToldToLeave DEF SubmitItself, Over, NoNext
  <2>4. Onward  BY <1>4, <2>3, ToldToLeave DEF SubmitItself, Onward, NoNext
  <2>5. "handler" \in Starters  BY DEF Starters
  <2> QED  BY <1>4, <2>2, <2>3, <2>4, <2>5, ToldToLeave, Begins DEF SubmitItself
<1> QED  BY <1>1, <1>2, <1>3, <1>4 DEF CallNext

------------------------------------------------------------------------------
(* submitAdaptiveExam and the timeout job *)

\* Steps of submissions and of the job leave the page, its call and the answers alone.
LEMMA ScoringStep ==
  ASSUME IInv, UNCHANGED <<rows, page, next, submitted>>,
         submit' \in [Submits -> Submissions \cup {NoSubmit}], job' \in {"set", "gone"},
         attempt' \in [isDone : BOOLEAN, doneAt : Nat, right : Nat, of : Nat],
         writes' \in Nat, closer' \in {"nobody", "job", "locked", "unlocked"},
         faults' \in 0..MaxFaults, scorer' \in Starters \cup {"nobody"},
         missed' \subseteq Questions, later' \subseteq Questions, Locking', Reading'
  PROVE  IInv'
<1>1. Counting'  BY SameAnswers DEF IInv, Counting
<1>2. \A t \in Submits : submit'[t].pc \in {"idle", "read", "locked"}
  BY DEF Submissions, NoSubmit
<1>3. Shape'  BY <1>2 DEF IInv, Shape, TypeOK, Starters
<1> QED  BY <1>1, <1>3 DEF IInv

\* Where only a submission moves, without scoring, what it had read stays what it was.
LEMMA ReadingStays ==
  ASSUME IInv, UNCHANGED <<attempt, rows, page, next, scoring>>,
         \A u \in Submits : \/ submit'[u].pc = "idle"
                            \/ /\ submit[u].pc # "idle"
                               /\ submit'[u].from = submit[u].from
                               /\ submit'[u].seen = submit[u].seen
  PROVE  /\ Reading' /\ scorer' \in Starters \cup {"nobody"}
         /\ missed' \subseteq Questions /\ later' \subseteq Questions
<1>1. Answered' = Answered  BY DEF Answered
<1>2. Onward  BY DEF Onward, Over
<1>3. ASSUME NEW u \in Submits, submit'[u].pc # "idle"
      PROVE  /\ submit'[u].from = "handler" => Over' /\ submit'[u].seen = Answered'
             /\ submit'[u].from = "result" =>
                  page'.step = "left" /\ OnlyTheLast(Answered \ submit[u].seen)'
  <2>1. submit[u].pc # "idle" /\ submit'[u].from = submit[u].from /\ submit'[u].seen = submit[u].seen
    BY <1>3
  <2>2. /\ submit[u].from = "handler" => Over /\ submit[u].seen = Answered
        /\ submit[u].from = "result" => page.step = "left" /\ OnlyTheLast(Answered \ submit[u].seen)
    BY <2>1 DEF IInv, Reading
  <2>3. submit[u].from = "result" => OnlyTheLast(Answered \ submit[u].seen)'
    BY <1>1, <2>1, <2>2 DEF OnlyTheLast
  <2> QED  BY <1>1, <2>1, <2>2, <2>3 DEF Over
<1>4. Reading'  BY <1>2, <1>3, ScoreStays DEF Reading
<1> QED  BY <1>4 DEF IInv, Shape, TypeOK, scoring, Starters

LEMMA SubmitLockStep ==
  ASSUME IInv, NEW t \in Submits, SubmitLock(t)
  PROVE  IInv'
<1> DEFINE r == [pc |-> "locked", from |-> submit[t].from, seen |-> submit[t].seen,
                held |-> Answered, existing |-> attempt]
<1>0. /\ submit \in [Submits -> Submissions \cup {NoSubmit}]
      /\ attempt \in [isDone : BOOLEAN, doneAt : Nat, right : Nat, of : Nat]
      /\ Answered \subseteq Questions /\ submit[t].pc = "read"
      /\ submit' = [submit EXCEPT ![t] = r]
      /\ UNCHANGED <<attempt, rows, page, next, job, submitted, writes, closer, scoring, faults>>
  BY AnsweredFinite DEF IInv, Shape, TypeOK, SubmitLock
<1>1. r \in Submissions
  BY <1>0, SubmissionShape DEF IInv, Submissions
<1>2. submit'[t] = r /\ \A u \in Submits : u = t \/ submit'[u] = submit[u]  BY <1>0
<1>3. Answered' = Answered  BY SameAnswers, <1>0
<1>4. Locking'
  <2>1. ASSUME NEW u \in Submits, u # t, Locked(u), submit[u].held # {}
        PROVE  Answered = {}
    <3>1. submit[u].held \subseteq Answered  BY <2>1 DEF IInv, Locking
    <3>2. submit[u].held \cap Answered = {}  BY <2>1 DEF SubmitLock, Unlocked, Locked
    <3> QED  BY <2>1, <3>1, <3>2
  <2>2. /\ r.pc = "locked" /\ r.seen \subseteq Answered /\ r.held = Answered
        /\ r.existing = attempt /\ attempt.doneAt <= writes
    BY <1>0 DEF IInv, Locking
  <2> HIDE DEF r
  <2>3. ASSUME NEW u \in Submits
        PROVE  /\ submit'[u].pc # "idle" => submit'[u].seen \subseteq Answered
               /\ Locked(u)' => /\ submit'[u].held \subseteq Answered
                                /\ submit'[u].existing.isDone => attempt.isDone
                                /\ submit'[u].existing.doneAt <= writes
               /\ Locked(u)' /\ submit'[u].held # {} =>
                    \/ closer \in {"job", "unlocked"}
                    \/ /\ submit'[u].existing.isDone = attempt.isDone
                       /\ submit'[u].existing.doneAt = attempt.doneAt
    <3>1. CASE u = t  BY <1>2, <2>2, <3>1
    <3>2. CASE u # t  BY <1>2, <3>2 DEF IInv, Locking, Locked
    <3> QED  BY <3>1, <3>2
  <2>4. ASSUME NEW u \in Submits, NEW v \in Submits, Locked(u)', Locked(v)',
               submit'[u].held # {}, submit'[v].held # {}
        PROVE  u = v
    <3>1. CASE u # t /\ v # t  BY <1>2, <2>4, <3>1 DEF IInv, Locking, Locked
    <3>2. CASE u = t /\ v # t  BY <1>2, <2>1, <2>2, <2>4, <3>2 DEF Locked
    <3>3. CASE u # t /\ v = t  BY <1>2, <2>1, <2>2, <2>4, <3>3 DEF Locked
    <3> QED  BY <3>1, <3>2, <3>3
  <2> QED  BY <1>0, <1>3, <2>2, <2>3, <2>4 DEF Locking
<1>5. /\ Reading' /\ scorer' \in Starters \cup {"nobody"}
      /\ missed' \subseteq Questions /\ later' \subseteq Questions
  <2>1. r.from = submit[t].from /\ r.seen = submit[t].seen  OBVIOUS
  <2> HIDE DEF r
  <2>2. \A u \in Submits : \/ submit'[u].pc = "idle"
                           \/ /\ submit[u].pc # "idle"
                              /\ submit'[u].from = submit[u].from
                              /\ submit'[u].seen = submit[u].seen
    BY <1>0, <1>2, <2>1
  <2> QED  BY <1>0, <2>2, ReadingStays
<1>6. submit' \in [Submits -> Submissions \cup {NoSubmit}]  BY <1>0, <1>1
<1> QED  BY <1>0, <1>4, <1>5, <1>6, ScoringStep DEF IInv, Shape, TypeOK

\* What the commit of a submission writes, where it writes at all.
LEMMA CommitWrites ==
  ASSUME IInv, NEW t \in Submits, SubmitCommit(t), Answered # {}
  PROVE  /\ attempt' \in [isDone : BOOLEAN, doneAt : Nat, right : Nat, of : Nat]
         /\ attempt'.isDone /\ attempt'.doneAt <= writes + 1 /\ writes' = writes + 1
         /\ attempt'.right = Cardinality(RightOnes(submit[t].seen))
         /\ attempt'.of = Cardinality(Answered)
         /\ scorer' = submit[t].from /\ missed' = Answered \ submit[t].seen /\ later' = {}
         /\ attempt'.doneAt = attempt.doneAt => closer' = closer /\ submit[t].existing.isDone
         /\ attempt'.doneAt # attempt.doneAt =>
              closer' = IF submit[t].held = {} THEN "unlocked" ELSE "locked"
         /\ submit[t].existing.isDone => attempt'.doneAt = submit[t].existing.doneAt
<1> DEFINE doneAt == DoneAtOf(submit[t].existing)
           right == Cardinality(RightOnes(submit[t].seen))
<1>1. /\ attempt' = [isDone |-> TRUE, doneAt |-> doneAt, right |-> right, of |-> Cardinality(Answered)]
      /\ writes' = writes + 1
      /\ scorer' = submit[t].from /\ missed' = Answered \ submit[t].seen /\ later' = {}
      /\ closer' = IF doneAt = attempt.doneAt THEN closer
                   ELSE IF submit[t].held = {} THEN "unlocked" ELSE "locked"
      /\ Locked(t)
  BY DEF SubmitCommit, Points, Locked
<1>2. /\ submit[t].existing.isDone \in BOOLEAN /\ submit[t].existing.doneAt \in Nat
      /\ submit[t].existing.doneAt <= writes /\ writes \in Nat
      /\ attempt.doneAt \in Nat /\ attempt.doneAt <= writes
  BY <1>1, SubmissionShape DEF IInv, Shape, TypeOK, Locking
<1>3. /\ doneAt \in Nat /\ doneAt <= writes + 1
      /\ submit[t].existing.isDone => doneAt = submit[t].existing.doneAt
      /\ doneAt = attempt.doneAt => submit[t].existing.isDone
  BY <1>2 DEF DoneAtOf
<1>4. right \in Nat
  <2>1. submit[t].seen \subseteq Questions  BY <1>1, SubmissionShape DEF IInv, Locked
  <2>2. RightOnes(submit[t].seen) \in SUBSET Questions  BY <2>1 DEF RightOnes
  <2> QED  BY <2>2, ConstantsAssumption, FS_Subset, FS_CardinalityType
<1> HIDE DEF doneAt, right
<1>5. attempt' \in [isDone : BOOLEAN, doneAt : Nat, right : Nat, of : Nat]
  BY <1>1, <1>3, <1>4, AnsweredFinite
<1>6. attempt'.doneAt = doneAt /\ attempt'.right = right /\ attempt'.isDone
      /\ attempt'.of = Cardinality(Answered)
  BY <1>1
<1> QED  BY <1>1, <1>3, <1>5, <1>6 DEF right

LEMMA SubmitCommitStep ==
  ASSUME IInv, NEW t \in Submits, SubmitCommit(t)
  PROVE  /\ IInv'
         /\ attempt.isDone /\ attempt'.doneAt # attempt.doneAt =>
              closer \in {"job", "unlocked"} \/ closer' = "unlocked"
<1>0. /\ submit \in [Submits -> Submissions \cup {NoSubmit}] /\ Locked(t)
      /\ submit' = [submit EXCEPT ![t] = NoSubmit] /\ NoSubmit.pc = "idle"
      /\ UNCHANGED <<rows, page, next, job, submitted, faults>>
      /\ faults \in 0..MaxFaults /\ job \in {"set", "gone"} /\ writes \in Nat
  BY DEF IInv, Shape, TypeOK, SubmitCommit, Locked, NoSubmit
<1>1. submit' \in [Submits -> Submissions \cup {NoSubmit}]
      /\ \A u \in Submits : \/ u = t /\ submit'[u].pc = "idle"
                            \/ u # t /\ submit'[u] = submit[u]
  BY <1>0
<1>2. Answered' = Answered  BY <1>0, SameAnswers
<1>3. CASE Answered = {}
  <2>1. UNCHANGED <<attempt, writes, closer, scoring>>  BY <1>3 DEF SubmitCommit
  <2>2. Locking'  BY <1>1, <1>2, <2>1 DEF IInv, Locking, Locked
  <2>3. /\ Reading' /\ scorer' \in Starters \cup {"nobody"}
        /\ missed' \subseteq Questions /\ later' \subseteq Questions
    <3>1. \A u \in Submits : \/ submit'[u].pc = "idle"
                             \/ /\ submit[u].pc # "idle"
                                /\ submit'[u].from = submit[u].from
                                /\ submit'[u].seen = submit[u].seen
      BY <1>1
    <3> QED  BY <1>0, <2>1, <3>1, ReadingStays
  <2> QED  BY <1>0, <1>1, <2>1, <2>2, <2>3, ScoringStep DEF IInv, Shape, TypeOK
<1>4. CASE Answered # {}
  <2>1. /\ attempt' \in [isDone : BOOLEAN, doneAt : Nat, right : Nat, of : Nat]
        /\ attempt'.isDone /\ attempt'.doneAt <= writes + 1 /\ writes' = writes + 1
        /\ attempt'.right = Cardinality(RightOnes(submit[t].seen))
        /\ attempt'.of = Cardinality(Answered)
        /\ scorer' = submit[t].from /\ missed' = Answered \ submit[t].seen /\ later' = {}
        /\ attempt'.doneAt = attempt.doneAt => closer' = closer /\ submit[t].existing.isDone
        /\ attempt'.doneAt # attempt.doneAt =>
             closer' = IF submit[t].held = {} THEN "unlocked" ELSE "locked"
        /\ submit[t].existing.isDone => attempt'.doneAt = submit[t].existing.doneAt
    BY <1>4, CommitWrites
  <2>2. closer' \in {"nobody", "job", "locked", "unlocked"}  BY <2>1 DEF IInv, Shape
  <2>3. Locking'
    <3>1. ASSUME NEW u \in Submits, u # t, Locked(u), submit[u].held # {}
          PROVE  \/ closer' \in {"job", "unlocked"}
                 \/ /\ submit[u].existing.isDone = attempt'.isDone
                    /\ submit[u].existing.doneAt = attempt'.doneAt
      <4>1. submit[t].held = {}  BY <1>0, <3>1 DEF IInv, Locking
      <4>2. CASE attempt'.doneAt # attempt.doneAt  BY <2>1, <4>1, <4>2
      <4>3. CASE attempt'.doneAt = attempt.doneAt
        <5>1. closer' = closer /\ attempt.isDone  BY <1>0, <2>1, <4>3 DEF IInv, Locking
        <5>2. \/ closer \in {"job", "unlocked"}
              \/ /\ submit[u].existing.isDone = attempt.isDone
                 /\ submit[u].existing.doneAt = attempt.doneAt
          BY <3>1 DEF IInv, Locking
        <5>3. attempt.isDone \in BOOLEAN /\ attempt'.isDone \in BOOLEAN
          BY <2>1 DEF IInv, Shape, TypeOK
        <5> QED  BY <2>1, <4>3, <5>1, <5>2, <5>3
      <4> QED  BY <4>2, <4>3
    <3>2. ASSUME NEW u \in Submits
          PROVE  /\ submit'[u].pc # "idle" => submit'[u].seen \subseteq Answered'
                 /\ Locked(u)' => /\ submit'[u].held \subseteq Answered'
                                  /\ submit'[u].existing.isDone => attempt'.isDone
                                  /\ submit'[u].existing.doneAt <= writes'
                 /\ Locked(u)' /\ submit'[u].held # {} =>
                      \/ closer' \in {"job", "unlocked"}
                      \/ /\ submit'[u].existing.isDone = attempt'.isDone
                         /\ submit'[u].existing.doneAt = attempt'.doneAt
      <4>1. CASE u = t  BY <1>1, <4>1 DEF Locked
      <4>2. CASE u # t
        <5>1. submit'[u] = submit[u]  BY <1>1, <4>2
        <5>2. Locked(u) => submit[u].existing.doneAt \in Nat /\ submit[u].existing.doneAt <= writes
          BY SubmissionShape DEF IInv, Locking
        <5>3. Locked(u) => submit[u].existing.doneAt <= writes'  BY <1>0, <2>1, <5>2
        <5> QED  BY <1>2, <2>1, <3>1, <4>2, <5>1, <5>3 DEF IInv, Locking, Locked
      <4> QED  BY <4>1, <4>2
    <3>3. \A u, v \in Submits :
            Locked(u)' /\ Locked(v)' /\ submit'[u].held # {} /\ submit'[v].held # {} => u = v
      BY <1>1 DEF IInv, Locking, Locked
    <3> QED  BY <2>1, <3>2, <3>3 DEF Locking
  <2>4. Reading'
    <3>0. /\ submit[t].seen \subseteq Answered /\ submit[t].from \in Starters
          /\ submit[t].from = "handler" => Over /\ submit[t].seen = Answered
          /\ submit[t].from = "result" => page.step = "left" /\ OnlyTheLast(Answered \ submit[t].seen)
      BY <1>0, SubmissionShape DEF IInv, Reading, Locking, Locked
    <3>1. ASSUME NEW u \in Submits, submit'[u].pc # "idle"
          PROVE  /\ submit'[u].from = "handler" => Over' /\ submit'[u].seen = Answered'
                 /\ submit'[u].from = "result" =>
                      page'.step = "left" /\ OnlyTheLast(Answered \ submit[u].seen)'
      <4>1. submit'[u] = submit[u]  BY <1>1, <3>1
      <4>2. /\ submit[u].from = "handler" => Over /\ submit[u].seen = Answered
            /\ submit[u].from = "result" =>
                 page.step = "left" /\ OnlyTheLast(Answered \ submit[u].seen)
        BY <3>1, <4>1 DEF IInv, Reading
      <4>3. submit[u].from = "result" => OnlyTheLast(Answered \ submit[u].seen)'
        BY <1>0, <1>2, <4>1, <4>2 DEF OnlyTheLast
      <4> QED  BY <1>0, <1>2, <4>1, <4>2, <4>3 DEF Over
    <3>2. scorer' = "handler" => Over' /\ missed' = {} /\ later' = {}
      BY <1>0, <2>1, <3>0 DEF Over
    <3>3. scorer' = "result" => page'.step = "left" /\ OnlyTheLast(missed \cup later)'
      <4>1. missed' \cup later' = Answered \ submit[t].seen  BY <2>1
      <4> QED  BY <1>0, <2>1, <3>0, <4>1 DEF OnlyTheLast
    <3>4. missed' \subseteq Answered' /\ later' \subseteq Answered'  BY <1>2, <2>1
    <3>5. Written'
      <4>1. Answered' \ (missed' \cup later') = submit[t].seen /\ Answered' \ later' = Answered
        BY <1>2, <2>1, <3>0
      <4>2. RightOnes(Answered \ (missed \cup later))' = RightOnes(submit[t].seen)
        BY <1>0, <4>1 DEF RightOnes
      <4>3. Cardinality(Answered) > 0  BY <1>4, AnsweredFinite, FS_EmptySet
      <4> QED  BY <2>1, <4>1, <4>2, <4>3 DEF Written
    <3> QED  BY <3>1, <3>2, <3>3, <3>4, <3>5 DEF Reading
  <2>5. ASSUME attempt.isDone, attempt'.doneAt # attempt.doneAt, closer \notin {"job", "unlocked"}
        PROVE  closer' = "unlocked"
    <3>1. ASSUME submit[t].held # {} PROVE FALSE
      <4>1. /\ submit[t].existing.isDone = attempt.isDone
            /\ submit[t].existing.doneAt = attempt.doneAt
        BY <1>0, <2>5, <3>1 DEF IInv, Locking
      <4> QED  BY <2>1, <2>5, <4>1
    <3> QED  BY <2>1, <2>5, <3>1
  <2>6. /\ missed' \subseteq Questions /\ later' \subseteq Questions /\ writes' \in Nat
        /\ scorer' \in Starters \cup {"nobody"}
    BY <1>0, <2>1, AnsweredFinite, SubmissionShape DEF IInv, Locked
  <2>7. IInv'  BY <1>0, <1>1, <2>1, <2>2, <2>3, <2>4, <2>6, ScoringStep
  <2> QED  BY <2>5, <2>7
<1> QED  BY <1>3, <1>4

LEMMA SubmitFailsStep ==
  ASSUME IInv, NEW t \in Submits, SubmitFails(t)
  PROVE  IInv'
<1>0. /\ submit \in [Submits -> Submissions \cup {NoSubmit}]
      /\ submit' = [submit EXCEPT ![t] = NoSubmit] /\ NoSubmit.pc = "idle"
      /\ UNCHANGED <<attempt, rows, page, next, job, submitted, writes, closer, scoring>>
      /\ faults' \in 0..MaxFaults
  BY ConstantsAssumption DEF IInv, Shape, TypeOK, SubmitFails, NoSubmit
<1>1. submit' \in [Submits -> Submissions \cup {NoSubmit}]
      /\ \A u \in Submits : submit'[u].pc = "idle" \/ submit'[u] = submit[u]
  BY <1>0
<1>2. Answered' = Answered  BY <1>0, SameAnswers
<1>3. Locking'  BY <1>0, <1>1, <1>2 DEF IInv, Locking, Locked
<1>4. /\ Reading' /\ scorer' \in Starters \cup {"nobody"}
      /\ missed' \subseteq Questions /\ later' \subseteq Questions
  <2>1. \A u \in Submits : \/ submit'[u].pc = "idle"
                           \/ /\ submit[u].pc # "idle"
                              /\ submit'[u].from = submit[u].from
                              /\ submit'[u].seen = submit[u].seen
    BY <1>1
  <2> QED  BY <1>0, <2>1, ReadingStays
<1> QED  BY <1>0, <1>1, <1>3, <1>4, ScoringStep DEF IInv, Shape, TypeOK

\* The score of the attempt is all that Reading says of it.
LEMMA ReadingIsOfScores ==
  ASSUME IInv, UNCHANGED <<rows, page, next, submit, scoring>>,
         attempt'.right = attempt.right, attempt'.of = attempt.of
  PROVE  /\ Reading' /\ scorer' \in Starters \cup {"nobody"}
         /\ missed' \subseteq Questions /\ later' \subseteq Questions
<1>1. Answered' = Answered  BY DEF Answered
<1>2. scorer' = scorer /\ missed' = missed /\ later' = later  BY DEF scoring
<1>3. Written'  BY <1>1, <1>2 DEF IInv, Reading, Written, RightOnes
<1>4. Reading'  BY <1>1, <1>2, <1>3 DEF IInv, Reading, Over, OnlyTheLast
<1> QED  BY <1>2, <1>4 DEF IInv, Shape, TypeOK, Starters

LEMMA TimeoutStep ==
  ASSUME IInv, Timeout
  PROVE  /\ IInv'
         /\ attempt.isDone => attempt' = attempt
<1>0. /\ attempt \in [isDone : BOOLEAN, doneAt : Nat, right : Nat, of : Nat] /\ writes \in Nat
      /\ UNCHANGED <<rows, page, next, submit, submitted, scoring, faults>> /\ job' = "gone"
  BY DEF IInv, Shape, TypeOK, Timeout
<1>1. Answered' = Answered  BY <1>0, SameAnswers
<1>2. CASE attempt.isDone
  <2>1. UNCHANGED <<attempt, writes, closer>>  BY <1>2 DEF Timeout
  <2>2. Locking'  BY <1>0, <1>1, <2>1 DEF IInv, Locking, Locked
  <2>3. /\ Reading' /\ scorer' \in Starters \cup {"nobody"}
        /\ missed' \subseteq Questions /\ later' \subseteq Questions
    BY <1>0, <2>1, ReadingIsOfScores
  <2> QED  BY <1>0, <2>1, <2>2, <2>3, ScoringStep DEF IInv, Shape, TypeOK
<1>3. CASE ~attempt.isDone
  <2>1. /\ attempt' = [attempt EXCEPT !.isDone = TRUE, !.doneAt = writes + 1]
        /\ writes' = writes + 1 /\ closer' = "job"
    BY <1>3 DEF Timeout
  <2>2. /\ attempt' \in [isDone : BOOLEAN, doneAt : Nat, right : Nat, of : Nat]
        /\ attempt'.isDone /\ attempt'.doneAt = writes + 1
        /\ attempt'.right = attempt.right /\ attempt'.of = attempt.of
    <3>1. attempt' = [isDone |-> TRUE, doneAt |-> writes + 1,
                      right |-> attempt.right, of |-> attempt.of]
      BY <1>0, <2>1
    <3> QED  BY <1>0, <3>1
  <2>3. \A u \in Submits : Locked(u) => submit[u].existing.doneAt <= writes'
    BY <1>0, <2>1, SubmissionShape DEF IInv, Locking
  <2>4. attempt'.doneAt <= writes'  BY <1>0, <2>1, <2>2
  <2>5. Locking'  BY <1>0, <1>1, <2>1, <2>2, <2>3, <2>4 DEF IInv, Locking, Locked
  <2>6. /\ Reading' /\ scorer' \in Starters \cup {"nobody"}
        /\ missed' \subseteq Questions /\ later' \subseteq Questions
    BY <1>0, <2>2, ReadingIsOfScores
  <2> QED  BY <1>0, <1>3, <2>1, <2>2, <2>5, <2>6, ScoringStep DEF IInv, Shape, TypeOK
<1> QED  BY <1>2, <1>3

------------------------------------------------------------------------------
(* The theorems *)

LEMMA NextIInv ==
  ASSUME IInv, [Next]_vars
  PROVE  IInv'
<1>1. CASE PageNext  BY <1>1, PageStep
<1>2. CASE CallNext  BY <1>2, CallStep
<1>3. CASE SubmitNext
  BY <1>3, SubmitLockStep, SubmitCommitStep, SubmitFailsStep DEF SubmitNext
<1>4. CASE Timeout  BY <1>4, TimeoutStep
<1>5. CASE UNCHANGED vars
  <2>1. UNCHANGED <<attempt, rows, page, next, submit, job, submitted, writes, closer, scoring, faults>>
    BY <1>5 DEF vars
  <2>2. Locking'  BY <2>1, SameAnswers DEF IInv, Locking, Locked
  <2>3. /\ Reading' /\ scorer' \in Starters \cup {"nobody"}
        /\ missed' \subseteq Questions /\ later' \subseteq Questions
    BY <2>1, ReadingIsOfScores
  <2> QED  BY <2>1, <2>2, <2>3, ScoringStep DEF IInv, Shape, TypeOK
<1> QED  BY <1>1, <1>2, <1>3, <1>4, <1>5 DEF Next

\* Whatever pages, handlers, reopened results and the timeout job do and in whatever order,
\* the parts of the inductive invariant hold.
THEOREM Inductive == Spec => []IInv
BY InitIInv, NextIInv, PTL DEF Spec

\* The Exam_taken row, its answer rows, the page and the handlers keep their shapes.
THEOREM TypeCorrect == Spec => []TypeOK
<1>1. IInv => TypeOK  BY DEF IInv, Shape
<1> QED  BY <1>1, Inductive, PTL

\* getNextAdaptiveQuestion never puts a question on the screen that the attempt has
\* answered, though the early stop and the result page submit while it is running.
THEOREM NoQuestionTwice == Spec => []AsksNewQuestions
<1>1. IInv => AsksNewQuestions  BY DEF IInv, Counting, AsksNewQuestions
<1> QED  BY <1>1, Inductive, PTL

\* getNextAdaptiveQuestion keeps at most MAX_ADAPTIVE_QUESTIONS answers and numbers them
\* without a gap or a repetition.
THEOREM AnswersAreNumberedInOrder == Spec => []AnswersInOrder
<1>1. IInv => AnswersInOrder  BY DEF IInv, Counting
<1> QED  BY <1>1, Inductive, PTL

\* A set whose elements are all the same has at most one.
LEMMA AtMostOne ==
  ASSUME NEW S, \A x, y \in S : x = y
  PROVE  Cardinality(S) <= 1
<1>1. CASE S = {}  BY <1>1, FS_EmptySet
<1>2. CASE S # {}
  <2>1. PICK x \in S : TRUE  BY <1>2
  <2>2. S = {x}  BY <2>1
  <2> QED  BY <2>2, FS_Singleton
<1> QED  BY <1>1, <1>2

\* After every submitAdaptiveExam, whatever it overlapped, the score is that of the answers
\* it had read, out of all that were kept when it wrote, and these differ by nothing where
\* the handler submitted, by one answer at most where the result page did.
THEOREM ScoreIsRight == Spec => []ScoreIsOfAnswersRead
<1>1. IInv => ScoreIsOfAnswersRead
  <2> SUFFICES ASSUME IInv PROVE ScoreIsOfAnswersRead  OBVIOUS
  <2>1. scorer = "result" => \A x, y \in missed \cup later : x = y
    BY DEF IInv, Reading, OnlyTheLast
  <2>2. scorer = "result" => Cardinality(missed \cup later) <= 1  BY <2>1, AtMostOne
  <2>3. Written /\ (scorer = "handler" => missed = {} /\ later = {})  BY DEF IInv, Reading
  <2> QED  BY <2>2, <2>3 DEF ScoreIsOfAnswersRead, Written
<1> QED  BY <1>1, Inductive, PTL

\* submitAdaptiveExam replaces the completion time of an attempt that is done only where
\* the timeout job wrote one of the two, or a submission had no row to lock.
THEOREM CompletionTimeIsKept == Spec => DoneAtKept
<1> DEFINE Kept == attempt.isDone /\ attempt'.doneAt # attempt.doneAt =>
                     closer \in {"job", "unlocked"} \/ closer' = "unlocked"
<1>1. IInv /\ [Next]_vars => [Kept]_vars
  <2> SUFFICES ASSUME IInv, Next PROVE Kept  OBVIOUS
  <2>1. CASE PageNext
    BY <2>1 DEF PageNext, Leave, PostAnswer, Finalize, OpenResult
  <2>2. CASE CallNext
    BY <2>2 DEF CallNext, KeepAnswer, Serve, NoLevel, SubmitItself
  <2>3. ASSUME NEW t \in Submits, SubmitLock(t) \/ SubmitFails(t) PROVE Kept
    BY <2>3 DEF SubmitLock, SubmitFails
  <2>4. ASSUME NEW t \in Submits, SubmitCommit(t) PROVE Kept  BY <2>4, SubmitCommitStep
  <2>5. CASE Timeout  BY <2>5, TimeoutStep
  <2> QED  BY <2>1, <2>2, <2>3, <2>4, <2>5 DEF Next, SubmitNext
<1> QED  BY <1>1, Inductive, PTL DEF Spec, DoneAtKept
================================================================================
