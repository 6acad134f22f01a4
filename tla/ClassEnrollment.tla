---------------------------- MODULE ClassEnrollment ----------------------------
(***************************************************************************)
(* The rows of Learning, one per class and student, and nb_of_student of   *)
(* each class, as class.service.ts keeps them.  A request for a list of    *)
(* students is one transaction that checks and inserts student after       *)
(* student; acceptAllEnrollReq reads the pending requests and then accepts *)
(* the pending ones.  Between two statements other transactions commit     *)
(* (READ COMMITTED); an insert waits for another transaction's insert of   *)
(* the same row.  The handlers that are one update are one action.         *)
(* Which classes clash is what their meetings and periods say when a       *)
(* request looks; tutors change both while students have their rows.       *)
(***************************************************************************)
EXTENDS Integers, FiniteSets, Sequences

CONSTANTS
  Students, Classes,
  Calls,    \* transactions that can run at the same time
  Lists,    \* the lists of students a request may carry
  MaxOps    \* bound on the requests, enrolments, acceptances and changes of schedules

ASSUME ConstantsAssumption ==
  /\ IsFiniteSet(Students) /\ MaxOps \in Nat
  /\ Lists \subseteq Seq(Students)

VARIABLES
  learning,  \* status of the row of each class and student, or "none"
  size,      \* class.nb_of_student
  clash,     \* per class, the others it shares a weekday with, their periods overlapping
  call,      \* per transaction: its kind, class, students to do, rows inserted
  ops,
  told,      \* history: rows whose acceptance was notified ('class.accept')
  during,    \* history: rows committed while acceptAll was between its two statements
  raced,     \* history: students with two clashing requests in progress at once
  direct,    \* history: students enrolled by e-mail, which checks no schedule
  moved      \* history: student and two classes that came to clash with the student in both

vars == <<learning, size, clash, call, ops, told, during, raced, direct, moved>>

Idle == [pc |-> "idle"]
Rows == Classes \X Students

\* Sharing a weekday and overlapping in period is mutual.
Clashings == {f \in [Classes -> SUBSET Classes] :
                \A k \in Classes : k \notin f[k] /\ \A d \in f[k] : k \in f[d]}

Init ==
  /\ learning = [r \in Rows |-> "none"]
  /\ size = [k \in Classes |-> 0]
  /\ clash \in Clashings
  /\ call = [c \in Calls |-> Idle]
  /\ ops = 0
  /\ told = {} /\ during = {} /\ raced = {} /\ direct = {} /\ moved = {}

Starts(c, record) ==
  /\ call[c].pc = "idle" /\ ops < MaxOps
  /\ ops' = ops + 1
  /\ call' = [call EXCEPT ![c] = record]
  /\ UNCHANGED <<learning, size, clash, told, during, raced, direct, moved>>

Ends(c) == call' = [call EXCEPT ![c] = Idle]

------------------------------------------------------------------------------
(* requestForClass and enrollClass *)

Request(c, k, list) ==
  Starts(c, [pc |-> "check", kind |-> "request", class |-> k, todo |-> list, own |-> {}])

Enroll(c, k, s) ==
  Starts(c, [pc |-> "check", kind |-> "enroll", class |-> k, todo |-> <<s>>, own |-> {}])

Clashes_AcceptedOnly(k, s) ==
  \E d \in clash[k] : learning[<<d, s>>] = "accepted"

\* vadidateClassRequest: every class the student has a row for counts, whatever its status;
\* who has a row of k itself is skipped in any case.
Clashes(k, s) == \E d \in clash[k] : learning[<<d, s>>] # "none"

Skips(c, s) ==
  LET k == call[c].class
  IN (call[c].kind = "request" /\ Clashes(k, s)) \/ learning[<<k, s>>] # "none"

\* A student with a clash, or enrolled already, is left out; an enrolment by e-mail fails.
CheckNext(c) ==
  /\ call[c].pc = "check" /\ call[c].todo # <<>>
  /\ call' = [call EXCEPT ![c] =
       IF Skips(c, Head(call[c].todo)) THEN [call[c] EXCEPT !.todo = Tail(@)]
       ELSE [call[c] EXCEPT !.pc = "insert"]]
  /\ UNCHANGED <<learning, size, clash, ops, told, during, raced, direct, moved>>

Inserted(c) == IF call[c].pc \in {"check", "insert"} THEN {<<call[c].class, s>> : s \in call[c].own} ELSE {}

\* The insert waits while another transaction holds the row; a row committed meanwhile
\* makes the whole transaction fail, with the students it had already inserted.
Insert(c) ==
  LET row == <<call[c].class, Head(call[c].todo)>>
  IN /\ call[c].pc = "insert"
     /\ \A d \in Calls \ {c} : row \notin Inserted(d)
     /\ IF learning[row] # "none" THEN Ends(c)
        ELSE call' = [call EXCEPT ![c].pc = "check", ![c].todo = Tail(@), ![c].own = @ \cup {row[2]}]
     /\ UNCHANGED <<learning, size, clash, ops, told, during, raced, direct, moved>>

\* The students a transaction has found free of clashes.
Passed(c) ==
  CASE call[c].pc = "insert" -> call[c].own \cup {Head(call[c].todo)}
    [] call[c].pc = "check" -> call[c].own
    [] OTHER -> {}

SizeAfterInsert(c) == IF call[c].kind = "enroll" THEN Cardinality(call[c].own) ELSE 0

Accepting(k) == \E c \in Calls : call[c].pc = "seen" /\ call[c].class = k

Commit(c) ==
  LET k == call[c].class
      rivals == {d \in Calls \ {c} : call[d].pc \in {"check", "insert"} /\ call[d].class \in clash[k]}
  IN /\ call[c].pc = "check" /\ call[c].todo = <<>>
     /\ learning' = [r \in Rows |-> IF r \in Inserted(c) THEN "pending" ELSE learning[r]]
     /\ size' = [size EXCEPT ![k] = @ + SizeAfterInsert(c)]
     /\ Ends(c)
     /\ during' = IF Accepting(k) THEN during \cup Inserted(c) ELSE during
     /\ raced' = raced \cup {s \in call[c].own : \E d \in rivals : s \in Passed(d)}
     /\ direct' = IF call[c].kind = "enroll" THEN direct \cup call[c].own ELSE direct
     /\ UNCHANGED <<clash, ops, told, moved>>

\* A statement fails, or the database breaks a deadlock of two lists in opposite orders.
Abort(c) ==
  /\ call[c].pc # "idle"
  /\ Ends(c)
  /\ UNCHANGED <<learning, size, clash, ops, told, during, raced, direct, moved>>

------------------------------------------------------------------------------
(* The tutor's answers, and leaving *)

AcceptOne(k, s) ==
  /\ learning[<<k, s>>] # "none" /\ ops < MaxOps
  /\ ops' = ops + 1
  /\ learning' = [learning EXCEPT ![<<k, s>>] = "accepted"]
  /\ size' = [size EXCEPT ![k] = @ + 1]
  /\ told' = told \cup {<<k, s>>}
  /\ UNCHANGED <<clash, call, during, raced, direct, moved>>

Pending(k) == {r \in Rows : r[1] = k /\ learning[r] = "pending"}

AcceptAllFind(c, k) == Starts(c, [pc |-> "seen", class |-> k, seen |-> Pending(k)])

Notified_None(c) == {}

Notified(c) == call[c].seen

AcceptAllUpdate(c) ==
  LET k == call[c].class
  IN /\ call[c].pc = "seen"
     /\ learning' = [r \in Rows |-> IF r \in Pending(k) THEN "accepted" ELSE learning[r]]
     /\ size' = [size EXCEPT ![k] = @ + Cardinality(Pending(k))]
     /\ told' = told \cup (Notified(c) \ {r \in Rows : learning[r] = "none"})
     /\ Ends(c)
     /\ UNCHANGED <<clash, ops, during, raced, direct, moved>>

\* The routes reject, cancel and complete all call rejectEnrollRequest.
Reject(k, s) ==
  /\ learning[<<k, s>>] # "none"
  /\ learning' = [learning EXCEPT ![<<k, s>>] = "cancelled"]
  /\ UNCHANGED <<size, clash, call, ops, told, during, raced, direct, moved>>

Leave(k, s) ==
  /\ learning[<<k, s>>] # "none"
  /\ learning' = [learning EXCEPT ![<<k, s>>] = "none"]
  /\ size' = [size EXCEPT ![k] = @ - 1]
  /\ told' = told \ {<<k, s>>} /\ during' = during \ {<<k, s>>}
  /\ UNCHANGED <<clash, call, ops, raced, direct, moved>>

------------------------------------------------------------------------------
(* createSchedule, deleteSchedule and updateClass of the tutors: what class k clashes with *)
(* afterwards.  None of them looks at the students.                                        *)

Has(k) == {s \in Students : learning[<<k, s>>] # "none"}

\* Those whose request for class k has passed its checks.
Enters(k) == {s \in Students : \E c \in Calls :
                 call[c].pc \in {"check", "insert"} /\ call[c].class = k /\ s \in Passed(c)}

InBoth(a, b) ==
  (Has(a) \cup Enters(a)) \cap (Has(b) \cup Enters(b)) \cap (Has(a) \cup Has(b))

ClashAfter(k, others) ==
  [e \in Classes |-> IF e = k THEN others
                     ELSE IF e \in others THEN clash[e] \cup {k} ELSE clash[e] \ {k}]

Reschedule(k, others) ==
  /\ ops < MaxOps
  /\ ops' = ops + 1
  /\ clash' = ClashAfter(k, others)
  /\ moved' = moved \cup {m \in Students \X Classes \X Classes :
       m[3] \in clash'[m[2]] \ clash[m[2]] /\ m[1] \in InBoth(m[2], m[3])}
  /\ UNCHANGED <<learning, size, call, told, during, raced, direct>>

Next ==
  \/ \E c \in Calls :
       \/ \E k \in Classes :
            \/ \E list \in Lists : Request(c, k, list)
            \/ \E s \in Students : Enroll(c, k, s)
            \/ AcceptAllFind(c, k)
       \/ CheckNext(c) \/ Insert(c) \/ Commit(c) \/ Abort(c) \/ AcceptAllUpdate(c)
  \/ \E k \in Classes, s \in Students :
       AcceptOne(k, s) \/ Reject(k, s) \/ Leave(k, s)
  \/ \E k \in Classes : \E others \in SUBSET (Classes \ {k}) : Reschedule(k, others)

Spec == Init /\ [][Next]_vars

------------------------------------------------------------------------------
(* Properties *)

\* The rows, the sizes and the transactions keep their shapes; nothing ever completes a row.
TypeOK ==
  /\ learning \in [Rows -> {"none", "pending", "accepted", "cancelled"}]
  /\ size \in [Classes -> Int] /\ clash \in Clashings
  /\ \A c \in Calls :
       \/ call[c] = Idle
       \/ /\ call[c].pc \in {"check", "insert"}
          /\ call[c].kind \in {"request", "enroll"} /\ call[c].own \subseteq Students
          /\ call[c].pc = "insert" => call[c].todo # <<>>
       \/ call[c].pc = "seen" /\ call[c].seen \subseteq Rows
  /\ ops \in 0..MaxOps
  /\ told \subseteq Rows /\ during \subseteq Rows
  /\ raced \subseteq Students /\ direct \subseteq Students
  /\ moved \subseteq Students \X Classes \X Classes

\* vadidateClassRequest keeps a student out of two classes that clash, pending requests and
\* cancelled rows counted, however schedules change between the requests, but for requests
\* in progress at once, enrolments by e-mail, and two classes of one student that a change
\* of a schedule has made clash.
NoTwoClashingClasses ==
  \A s \in Students \ (raced \cup direct), k \in Classes : \A d \in clash[k] :
    \/ learning[<<k, s>>] = "none" \/ learning[<<d, s>>] = "none"
    \/ <<s, k, d>> \in moved

\* Who is accepted is told ('class.accept'), however acceptances of one and of all overlap,
\* unless the request was committed between the two statements of acceptAllEnrollReq.
AcceptedAreTold ==
  \A r \in Rows : learning[r] = "accepted" => r \in told \/ r \in during
==============================================================================
