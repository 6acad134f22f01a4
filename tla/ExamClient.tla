------------------------------ MODULE ExamClient ------------------------------
(***************************************************************************)
(* The page on which a student works at an attempt                         *)
(* (AssignmentSessionPage.jsx), composed with the server of ExamAttempt.   *)
(* Each change of an answer posts the whole sheet with isDone = false and  *)
(* does not wait for the posts before it; handing in posts it with         *)
(* isDone = true.  Posts are separate HTTP requests: they may reach        *)
(* submitExam in any order, fail on the way, or succeed without their      *)
(* answer coming back.  isSubmitting only stops the page's clock and one   *)
(* of its three buttons: while a hand-in is under way, and in the second   *)
(* between its success and the page's leaving, answers can still be        *)
(* changed and the sheet be handed in again.                               *)
(***************************************************************************)
EXTENDS ExamAttempt, Sequences

CONSTANTS
  Drafts,     \* the sheets the student makes, one per change of an answer
  MaxFinals   \* bound on how often one page hands in

ASSUME DraftsAssumption ==
  /\ Drafts \in Seq(Sheets) /\ Drafts # <<>>
  /\ MaxFinals \in Nat

VARIABLES
  page,    \* per attempt: unopened, answering, told ("Nộp bài thành công!"), left
  version, \* the draft the page holds
  finals,  \* posts with isDone = true
  net      \* the posts on their way to the server

clientVars == <<page, version, finals, net>>
allVars == <<vars, clientVars>>

\* A hand-in carries its number among the page's hand-ins, a save the number 0.
Post == [id : Attempts, version : 1..Len(Drafts), isDone : BOOLEAN, nr : 0..MaxFinals]

PostOf_AlwaysSave(a, v, d, n) == [id |-> a, version |-> v, isDone |-> FALSE, nr |-> n]

PostOf(a, v, d, n) == [id |-> a, version |-> v, isDone |-> d, nr |-> n]

ClientInit ==
  /\ Init
  /\ page = [a \in Attempts |-> "unopened"]
  /\ version = [a \in Attempts |-> 1]
  /\ finals = [a \in Attempts |-> 0]
  /\ net = {}

\* takeExam answered, the page goes on to continueTakeExam and shows the questions.
OpenPage(a) ==
  /\ page[a] = "unopened" /\ phase[a] \in {"open", "done"}
  /\ page' = [page EXCEPT ![a] = "answering"]
  /\ UNCHANGED <<vars, version, finals, net>>

Shown(a) == page[a] \in {"answering", "told"}

ChangeAnswer(a) ==
  /\ Shown(a) /\ version[a] < Len(Drafts)
  /\ version' = [version EXCEPT ![a] = @ + 1]
  /\ net' = net \cup {PostOf(a, version[a] + 1, FALSE, 0)}
  /\ UNCHANGED <<vars, page, finals>>

\* The student hands in, once more perhaps, or the page's own clock is up.
HandIn(a) ==
  /\ Shown(a) /\ finals[a] < MaxFinals
  /\ finals' = [finals EXCEPT ![a] = @ + 1]
  /\ net' = net \cup {PostOf(a, version[a], TRUE, finals[a] + 1)}
  /\ UNCHANGED <<vars, page, version>>

\* One second after the first success the page navigates to the result.
Leave(a) ==
  /\ page[a] = "told"
  /\ page' = [page EXCEPT ![a] = "left"]
  /\ UNCHANGED <<vars, version, finals, net>>

\* A post fails on its way: the page only says so and can be used as before.
PostLost(p) ==
  /\ p \in net
  /\ net' = net \ {p}
  /\ UNCHANGED <<vars, page, version, finals>>

Receive(t, p) ==
  /\ p \in net
  /\ net' = net \ {p}
  /\ SubmitDelete(t, p.id, Drafts[p.version], p.isDone)
  /\ UNCHANGED <<page, version, finals>>

AfterSuccess_AnyPost(a, isDone) ==
  page' = [page EXCEPT ![a] = IF @ = "answering" THEN "told" ELSE @]

AfterSuccess(a, isDone) ==
  page' = [page EXCEPT ![a] = IF isDone /\ @ = "answering" THEN "told" ELSE @]

Answer(t) ==
  /\ SubmitCommit(t)
  /\ AfterSuccess(sub[t].id, sub[t].isDone)
  /\ UNCHANGED <<version, finals, net>>

\* The submission is kept, but its answer does not reach the page.
AnswerLost(t) == SubmitCommit(t) /\ UNCHANGED clientVars

Refuse(t) == SubmitAbort(t) /\ UNCHANGED clientVars

ServerNext == Tick \/ TakeNext \/ JobNext

ClientNext ==
  \/ \E a \in Attempts : OpenPage(a) \/ ChangeAnswer(a) \/ HandIn(a) \/ Leave(a)
  \/ \E p \in net : PostLost(p) \/ (\E t \in Submitters : Receive(t, p))
  \/ \E t \in Submitters : Answer(t) \/ AnswerLost(t) \/ Refuse(t)
  \/ ServerNext /\ UNCHANGED clientVars

ClientSpec == ClientInit /\ [][ClientNext]_allVars

------------------------------------------------------------------------------
\* The page, the drafts and the posts keep the shapes of the page's state and of its requests.
ClientTypeOK ==
  /\ page \in [Attempts -> {"unopened", "answering", "told", "left"}]
  /\ version \in [Attempts -> 1..Len(Drafts)]
  /\ finals \in [Attempts -> 0..MaxFinals]
  /\ net \subseteq Post

\* The page tells the student that the exam is handed in only when a hand-in has been paid
\* for, and with several hand-ins under way at once, each pays at most once: saves never pay,
\* a lost answer may.
HandedInIsPaid ==
  \A a \in Attempts :
    /\ page[a] \in {"told", "left"} => paidBySubmit[a] > 0
    /\ paidBySubmit[a] <= finals[a]

\* submitExam reopens a done attempt when it is given isDone = false; however the posts are
\* delayed and reordered, and also when they were made after the hand-in, each reopening uses
\* up one autosave of the page, never a hand-in.  An attempt the page has called handed in is
\* open again only because of such a save.
ReopenedBySaves ==
  \A a \in Attempts :
    /\ reopened[a] + Cardinality({p \in net : p.id = a /\ ~p.isDone}) < version[a]
    /\ page[a] \in {"told", "left"} /\ phase[a] = "open" => reopened[a] > 0
==============================================================================
