------------------------ MODULE ClassEnrollment_proofs ------------------------
(***************************************************************************)
(* What holds of ClassEnrollment for any number of students, classes and   *)
(* transactions.  Cleared says of a request in progress what its checks    *)
(* have found and what is still true of it; Noticed says of an acceptance  *)
(* of all that has read its requests which ones it may meet when it        *)
(* updates.                                                                *)
(***************************************************************************)
EXTENDS ClassEnrollment, FiniteSetTheorems, SequenceTheorems, TLAPS

Statuses == {"none", "pending", "accepted", "cancelled"}
Entering == [pc : {"check", "insert"}, kind : {"request", "enroll"}, class : Classes,
             todo : Seq(Students), own : SUBSET Students]
Accepters == [pc : {"seen"}, class : Classes, seen : SUBSET Rows]

\* The types of TypeOK, with the domains of the records.
Shape ==
  /\ learning \in [Rows -> Statuses] /\ size \in [Classes -> Int] /\ clash \in Clashings
  /\ call \in [Calls -> {Idle} \cup Entering \cup Accepters]
  /\ \A c \in Calls : call[c].pc = "insert" => call[c].todo # <<>>
  /\ ops \in 0..MaxOps
  /\ told \subseteq Rows /\ during \subseteq Rows
  /\ raced \subseteq Students /\ direct \subseteq Students
  /\ moved \subseteq Students \X Classes \X Classes
  /\ \A s \in Students, a, b \in Classes : <<s, a, b>> \in moved => <<s, b, a>> \in moved

\* Who has passed the checks of a request still has no row in another class that clashes,
\* or has raced, was enrolled by e-mail or had the two classes moved meanwhile.
ClearedOf(c) ==
  call[c].pc \in {"check", "insert"} /\ call[c].kind = "request" =>
    \A s \in Passed(c) \ (raced \cup direct), d \in clash[call[c].class] :
      learning[<<d, s>>] = "none" \/ <<s, call[c].class, d>> \in moved
Cleared == \A c \in Calls : ClearedOf(c)

\* A request pending in a class whose acceptance is under way was seen, or came after.
NoticedBy(c) == call[c].pc = "seen" => Pending(call[c].class) \subseteq call[c].seen \cup during
Noticed == \A c \in Calls : NoticedBy(c)

IInv == Shape /\ Cleared /\ Noticed /\ NoTwoClashingClasses /\ AcceptedAreTold

------------------------------------------------------------------------------
(* Steps that add no row *)

\* Clashing is a mutual relation between different classes.
LEMMA ClashShape ==
  ASSUME clash \in Clashings, NEW k \in Classes, NEW d \in clash[k]
  PROVE  d \in Classes /\ d # k /\ k \in clash[d]
BY DEF Clashings

LEMMA InitIInv == Init => IInv
<1> SUFFICES ASSUME Init PROVE IInv  OBVIOUS
<1> USE ConstantsAssumption DEF Init
<1>1. Shape  BY DEF Shape, Statuses, Idle
<1>2. Cleared /\ Noticed  BY DEF Cleared, ClearedOf, Noticed, NoticedBy, Idle
<1>3. NoTwoClashingClasses /\ AcceptedAreTold
  BY ClashShape DEF NoTwoClashingClasses, AcceptedAreTold, Rows
<1> QED  BY <1>1, <1>2, <1>3 DEF IInv

\* Where no student gets a row, nobody comes to be in two classes that clash.
LEMMA NoRowAdded ==
  ASSUME IInv, \A r \in Rows : learning[r] = "none" => learning'[r] = "none",
         UNCHANGED <<clash, raced, direct, moved>>, \A c \in Calls : call'[c] = call[c] \/ ClearedOf(c)'
  PROVE  Cleared' /\ NoTwoClashingClasses'
<1>1. \A k \in Classes : clash[k] \subseteq Classes  BY DEF IInv, Shape, Clashings
<1>2. NoTwoClashingClasses'
  BY <1>1 DEF IInv, NoTwoClashingClasses, Rows
<1>3. ASSUME NEW c \in Calls, call'[c] = call[c] PROVE ClearedOf(c)'
  <2>1. ClearedOf(c) /\ Passed(c)' = Passed(c) /\ Passed(c) \subseteq Students
    <3>1. call[c] \in {Idle} \cup Entering \cup Accepters /\ (call[c].pc = "insert" => call[c].todo # <<>>)
      BY DEF IInv, Shape
    <3>2. ASSUME call[c].pc = "insert" PROVE Head(call[c].todo) \in Students
      <4>1. call[c].todo \in Seq(Students) /\ call[c].todo # <<>>
        BY <3>1, <3>2 DEF Entering, Accepters, Idle
      <4> QED  BY <4>1, HeadTailProperties
    <3>3. Passed(c) \subseteq Students  BY <3>1, <3>2 DEF Passed, Entering, Accepters, Idle
    <3> QED  BY <1>3, <3>3 DEF IInv, Cleared, Passed
  <2>2. call[c].pc \in {"check", "insert"} => clash[call[c].class] \subseteq Classes
    BY <1>1 DEF IInv, Shape, Entering, Accepters, Idle
  <2>3. \A s \in Passed(c), d \in Classes : learning[<<d, s>>] = "none" => learning'[<<d, s>>] = "none"
    BY <2>1 DEF Rows
  <2>4. raced' = raced /\ direct' = direct /\ moved' = moved /\ clash' = clash  OBVIOUS
  <2> QED  BY <1>3, <2>1, <2>2, <2>3, <2>4 DEF ClearedOf
<1> QED  BY <1>2, <1>3 DEF Cleared

\* Where no request becomes pending, acceptances under way miss nothing new.
LEMMA NothingNewPending ==
  ASSUME IInv,
         \A r \in Rows : learning'[r] = "pending" =>
           learning[r] = "pending" /\ (r \in during => r \in during'),
         \A c \in Calls : call'[c] = call[c] \/ NoticedBy(c)'
  PROVE  Noticed'
<1>1. ASSUME NEW c \in Calls, call'[c] = call[c] PROVE NoticedBy(c)'
  BY <1>1 DEF IInv, Noticed, NoticedBy, Pending
<1> QED  BY <1>1 DEF Noticed

\* What a call is, by its step.
LEMMA CallShape ==
  ASSUME IInv, NEW c \in Calls
  PROVE  /\ call[c].pc \in {"check", "insert"} =>
              /\ call[c] \in Entering
              /\ call[c].todo \in Seq(Students) /\ call[c].own \subseteq Students
              /\ call[c].class \in Classes /\ call[c].kind \in {"request", "enroll"}
              /\ call[c].todo # <<>> => Head(call[c].todo) \in Students
                                        /\ Tail(call[c].todo) \in Seq(Students)
              /\ call[c].pc = "insert" => call[c].todo # <<>>
         /\ call[c].pc = "seen" => call[c] \in Accepters
<1>1. call[c] \in {Idle} \cup Entering \cup Accepters /\ (call[c].pc = "insert" => call[c].todo # <<>>)
  BY DEF IInv, Shape
<1>2. ASSUME call[c] \in Entering, call[c].todo # <<>>
      PROVE  Head(call[c].todo) \in Students /\ Tail(call[c].todo) \in Seq(Students)
  <2>1. call[c].todo \in Seq(Students)  BY <1>2 DEF Entering
  <2> QED  BY <1>2, <2>1, HeadTailProperties
<1> QED  BY <1>1, <1>2 DEF Entering, Accepters, Idle

LEMMA PassedShape ==
  ASSUME IInv, NEW c \in Calls
  PROVE  Passed(c) \subseteq Students
BY CallShape DEF Passed

\* Only the call and the counter of operations change.
LEMMA CallStep ==
  ASSUME IInv, NEW c \in Calls, NEW r \in {Idle} \cup Entering \cup Accepters,
         call' = [call EXCEPT ![c] = r], r.pc = "insert" => r.todo # <<>>,
         ops' \in 0..MaxOps, UNCHANGED <<learning, size, clash, told, during, raced, direct, moved>>,
         ClearedOf(c)', NoticedBy(c)'
  PROVE  IInv'
<1>1. call \in [Calls -> {Idle} \cup Entering \cup Accepters]  BY DEF IInv, Shape
<1>2. call'[c] = r /\ \A d \in Calls : d = c \/ call'[d] = call[d]  BY <1>1
<1>3. Shape'  BY <1>1, <1>2 DEF IInv, Shape
<1>4. Cleared' /\ NoTwoClashingClasses'  BY <1>2, NoRowAdded
<1>5. Noticed'  BY <1>2, NothingNewPending
<1>6. AcceptedAreTold'  BY DEF IInv, AcceptedAreTold
<1> QED  BY <1>3, <1>4, <1>5, <1>6 DEF IInv

LEMMA StartSteps ==
  ASSUME IInv, NEW c \in Calls, NEW k \in Classes,
         \/ \E list \in Lists : Request(c, k, list)
         \/ \E s \in Students : Enroll(c, k, s)
         \/ AcceptAllFind(c, k)
  PROVE  IInv'
<1>0. call \in [Calls -> {Idle} \cup Entering \cup Accepters] /\ ops \in 0..MaxOps /\ MaxOps \in Nat
  BY ConstantsAssumption DEF IInv, Shape
<1>1. ASSUME NEW kind \in {"request", "enroll"}, NEW todo \in Seq(Students),
             Starts(c, [pc |-> "check", kind |-> kind, class |-> k, todo |-> todo, own |-> {}])
      PROVE  IInv'
  <2> DEFINE r == [pc |-> "check", kind |-> kind, class |-> k, todo |-> todo, own |-> {}]
  <2>1. r \in Entering  BY DEF Entering
  <2>2. call' = [call EXCEPT ![c] = r] /\ ops' \in 0..MaxOps
        /\ UNCHANGED <<learning, size, clash, told, during, raced, direct, moved>>
    BY <1>0, <1>1 DEF Starts
  <2>3. call'[c] = r  BY <1>0, <2>2
  <2>4. ClearedOf(c)' /\ NoticedBy(c)'  BY <2>3 DEF ClearedOf, NoticedBy, Passed
  <2>5. r.pc = "check"  OBVIOUS
  <2> HIDE DEF r
  <2> QED  BY <2>1, <2>2, <2>4, <2>5, CallStep
<1>2. ASSUME NEW list \in Lists, Request(c, k, list) PROVE IInv'
  <2>1. list \in Seq(Students)  BY ConstantsAssumption
  <2> QED  BY <1>1, <1>2, <2>1 DEF Request
<1>3. ASSUME NEW s \in Students, Enroll(c, k, s) PROVE IInv'
  <2>1. <<s>> \in Seq(Students)  OBVIOUS
  <2> QED  BY <1>1, <1>3, <2>1 DEF Enroll
<1>4. ASSUME AcceptAllFind(c, k) PROVE IInv'
  <2> DEFINE r == [pc |-> "seen", class |-> k, seen |-> Pending(k)]
  <2>1. r \in Accepters  BY DEF Accepters, Pending
  <2>2. call' = [call EXCEPT ![c] = r] /\ ops' \in 0..MaxOps
        /\ UNCHANGED <<learning, size, clash, told, during, raced, direct, moved>>
    BY <1>0, <1>4 DEF Starts, AcceptAllFind
  <2>3. call'[c] = r  BY <1>0, <2>2
  <2>4. ClearedOf(c)' /\ NoticedBy(c)'  BY <2>2, <2>3 DEF ClearedOf, NoticedBy, Pending
  <2>5. r.pc = "seen"  OBVIOUS
  <2> HIDE DEF r
  <2> QED  BY <2>1, <2>2, <2>4, <2>5, CallStep
<1> QED  BY <1>2, <1>3, <1>4

\* A check lets a student of a request pass only where no class that clashes has a row.
LEMMA CheckStep ==
  ASSUME IInv, NEW c \in Calls, CheckNext(c)
  PROVE  IInv'
<1> DEFINE s == Head(call[c].todo)
<1>1. /\ call[c].pc = "check" /\ call[c].todo # <<>>
      /\ UNCHANGED <<learning, size, clash, ops, told, during, raced, direct, moved>>
  BY DEF CheckNext
<1>2. /\ call[c] \in Entering /\ s \in Students /\ Tail(call[c].todo) \in Seq(Students)
      /\ call[c].class \in Classes
  BY <1>1, CallShape
<1>3. call \in [Calls -> {Idle} \cup Entering \cup Accepters] /\ ops \in 0..MaxOps
  BY DEF IInv, Shape
<1>4. ClearedOf(c)  BY DEF IInv, Cleared
<1>5. CASE Skips(c, s)
  <2> DEFINE r == [call[c] EXCEPT !.todo = Tail(call[c].todo)]
  <2>1. r \in Entering /\ r.pc = "check" /\ r.kind = call[c].kind /\ r.class = call[c].class
        /\ r.own = call[c].own
    BY <1>1, <1>2 DEF Entering
  <2>2. call' = [call EXCEPT ![c] = r]  BY <1>5 DEF CheckNext
  <2> HIDE DEF r
  <2>3. call'[c] = r  BY <1>3, <2>2
  <2>4. ClearedOf(c)'  BY <1>1, <1>4, <2>1, <2>3 DEF ClearedOf, Passed
  <2>5. NoticedBy(c)'  BY <2>1, <2>3 DEF NoticedBy
  <2> QED  BY <1>1, <1>3, <2>1, <2>2, <2>4, <2>5, CallStep
<1>6. CASE ~Skips(c, s)
  <2> DEFINE r == [call[c] EXCEPT !.pc = "insert"]
  <2>1. r \in Entering /\ r.pc = "insert" /\ r.kind = call[c].kind /\ r.class = call[c].class
        /\ r.own = call[c].own /\ r.todo = call[c].todo
    BY <1>1, <1>2 DEF Entering
  <2>2. call' = [call EXCEPT ![c] = r]  BY <1>6 DEF CheckNext
  <2> HIDE DEF r
  <2>3. call'[c] = r  BY <1>3, <2>2
  <2>4. call[c].kind = "request" =>
          \A d \in clash[call[c].class] : learning[<<d, s>>] = "none"
    BY <1>6 DEF Skips, Clashes
  <2>5. Passed(c)' = Passed(c) \cup {s}  BY <1>1, <2>1, <2>3 DEF Passed
  <2>6. ClearedOf(c)'  BY <1>1, <1>4, <2>1, <2>3, <2>4, <2>5 DEF ClearedOf
  <2>7. NoticedBy(c)'  BY <2>1, <2>3 DEF NoticedBy
  <2> QED  BY <1>1, <1>3, <2>1, <2>2, <2>6, <2>7, CallStep
<1> QED  BY <1>5, <1>6

LEMMA IdleStep ==
  ASSUME IInv, NEW c \in Calls, Ends(c),
         UNCHANGED <<learning, size, clash, ops, told, during, raced, direct, moved>>
  PROVE  IInv'
<1>1. call \in [Calls -> {Idle} \cup Entering \cup Accepters] /\ ops \in 0..MaxOps
  BY DEF IInv, Shape
<1>2. call' = [call EXCEPT ![c] = Idle] /\ call'[c] = Idle  BY <1>1 DEF Ends
<1>3. Idle.pc = "idle"  BY DEF Idle
<1>4. ClearedOf(c)' /\ NoticedBy(c)'  BY <1>2, <1>3 DEF ClearedOf, NoticedBy
<1> QED  BY <1>1, <1>2, <1>3, <1>4, CallStep

LEMMA InsertStep ==
  ASSUME IInv, NEW c \in Calls, Insert(c)
  PROVE  IInv'
<1> DEFINE s == Head(call[c].todo)
<1>1. /\ call[c].pc = "insert" /\ call[c].todo # <<>>
      /\ UNCHANGED <<learning, size, clash, ops, told, during, raced, direct, moved>>
  BY CallShape DEF Insert
<1>2. call[c] \in Entering /\ s \in Students /\ Tail(call[c].todo) \in Seq(Students)
  BY <1>1, CallShape
<1>3. call \in [Calls -> {Idle} \cup Entering \cup Accepters] /\ ops \in 0..MaxOps
  BY DEF IInv, Shape
<1>4. CASE Ends(c)  BY <1>1, <1>4, IdleStep
<1>5. CASE call' = [call EXCEPT ![c].pc = "check", ![c].todo = Tail(@), ![c].own = @ \cup {s}]
  <2> DEFINE r == [call[c] EXCEPT !.pc = "check", !.todo = Tail(@), !.own = @ \cup {s}]
  <2>1. r \in Entering /\ r.pc = "check" /\ r.kind = call[c].kind /\ r.class = call[c].class
        /\ r.own = call[c].own \cup {s}
    BY <1>1, <1>2 DEF Entering
  <2>2. call' = [call EXCEPT ![c] = r]  BY <1>3, <1>5
  <2> HIDE DEF r
  <2>3. call'[c] = r  BY <1>3, <2>2
  <2>4. Passed(c)' = Passed(c)  BY <1>1, <2>1, <2>3 DEF Passed
  <2>5. ClearedOf(c)  BY DEF IInv, Cleared
  <2>6. ClearedOf(c)'  BY <1>1, <2>1, <2>3, <2>4, <2>5 DEF ClearedOf
  <2>7. NoticedBy(c)'  BY <2>1, <2>3 DEF NoticedBy
  <2> QED  BY <1>1, <1>3, <2>1, <2>2, <2>6, <2>7, CallStep
<1> QED  BY <1>4, <1>5 DEF Insert

------------------------------------------------------------------------------
(* Commits *)

\* A commit adds rows of one class, for students it has cleared.  A request that has passed
\* one of them for a class that clashes is a rival, and the student has raced.
LEMMA CommitStep ==
  ASSUME IInv, NEW c \in Calls, Commit(c)
  PROVE  IInv'
<1> DEFINE k == call[c].class
           own == call[c].own
<1>1. /\ call[c].pc = "check" /\ Ends(c)
      /\ learning' = [r \in Rows |-> IF r \in Inserted(c) THEN "pending" ELSE learning[r]]
      /\ size' = [size EXCEPT ![k] = @ + SizeAfterInsert(c)]
      /\ during' = IF Accepting(k) THEN during \cup Inserted(c) ELSE during
      /\ direct' = IF call[c].kind = "enroll" THEN direct \cup own ELSE direct
      /\ UNCHANGED <<clash, ops, told, moved>>
  BY DEF Commit
<1>2. raced' = raced \cup
        {s \in own : \E d \in {e \in Calls \ {c} : /\ call[e].pc \in {"check", "insert"}
                                                   /\ call[e].class \in clash[k]} : s \in Passed(d)}
  BY DEF Commit
<1>3. /\ k \in Classes /\ own \subseteq Students /\ call[c].kind \in {"request", "enroll"}
  BY <1>1, CallShape
<1>4. call \in [Calls -> {Idle} \cup Entering \cup Accepters] /\ learning \in [Rows -> Statuses]
      /\ size \in [Classes -> Int] /\ \A e \in Calls : call[e].pc = "insert" => call[e].todo # <<>>
  BY DEF IInv, Shape
<1>5. /\ call'[c] = Idle /\ Idle.pc = "idle"
      /\ call' \in [Calls -> {Idle} \cup Entering \cup Accepters]
      /\ \A e \in Calls \ {c} : call'[e] = call[e]
  BY <1>1, <1>4 DEF Ends, Idle
<1>6. Inserted(c) = {<<k, s>> : s \in own}  BY <1>1 DEF Inserted
<1>7. /\ \A s \in own : <<k, s>> \in Rows /\ learning'[<<k, s>>] = "pending"
      /\ \A d \in Classes, s \in Students :
           d # k \/ s \notin own => learning'[<<d, s>>] = learning[<<d, s>>]
  <2>1. \A d \in Classes, s \in Students : <<d, s>> \in Rows  BY DEF Rows
  <2>2. \A d \in Classes, s \in Students : <<d, s>> \in Inserted(c) <=> d = k /\ s \in own
    BY <1>6
  <2> QED  BY <1>1, <1>3, <2>1, <2>2
<1>8. raced \subseteq raced' /\ direct \subseteq direct' /\ raced' \subseteq raced \cup own
      /\ direct' \subseteq direct \cup own /\ during \subseteq during' /\ during' \subseteq during \cup Inserted(c)
  BY <1>1, <1>2
<1>9. SizeAfterInsert(c) \in Int
  <2>1. IsFiniteSet(own)  BY <1>3, ConstantsAssumption, FS_Subset
  <2>2. Cardinality(own) \in Nat  BY <2>1, FS_CardinalityType
  <2> QED  BY <2>2 DEF SizeAfterInsert
<1>10. clash \in Clashings /\ \A s \in Students, a, b \in Classes :
         <<s, a, b>> \in moved => <<s, b, a>> \in moved
  BY DEF IInv, Shape
<1> HIDE DEF k, own
<1>11. Shape'
  <2>1. learning' \in [Rows -> Statuses]  BY <1>1, <1>4 DEF Statuses
  <2>2. size' \in [Classes -> Int]  BY <1>1, <1>3, <1>4, <1>9
  <2>3. Inserted(c) \subseteq Rows  BY <1>6, <1>7
  <2>4. \A e \in Calls : call'[e].pc = "insert" => call'[e].todo # <<>>  BY <1>4, <1>5
  <2>5. /\ told' \subseteq Rows /\ during' \subseteq Rows /\ ops' \in 0..MaxOps
        /\ raced' \subseteq Students /\ direct' \subseteq Students
    <3>1. /\ told \subseteq Rows /\ during \subseteq Rows /\ ops \in 0..MaxOps
          /\ raced \subseteq Students /\ direct \subseteq Students
      BY DEF IInv, Shape
    <3>2. told' = told /\ ops' = ops  BY <1>1
    <3> QED  BY <1>3, <1>8, <2>3, <3>1, <3>2
  <2>6. call' \in [Calls -> {Idle} \cup Entering \cup Accepters]  BY <1>5
  <2>7. clash' = clash /\ moved' = moved  BY <1>1
  <2> QED  BY <2>1, <2>2, <2>4, <2>5, <2>6, <2>7 DEF IInv, Shape
<1>12. ASSUME NEW e \in Calls \ {c}, call[e].pc \in {"check", "insert"}, call[e].kind = "request",
              NEW s \in Passed(e) \ (raced' \cup direct'), NEW d \in clash[call[e].class],
              <<s, call[e].class, d>> \notin moved
       PROVE  learning'[<<d, s>>] = "none"
  <2>1. /\ s \in Students /\ call[e].class \in Classes /\ d \in Classes
        /\ call[e].class \in clash[d]
    BY <1>10, <1>12, PassedShape, CallShape, ClashShape
  <2>2. learning[<<d, s>>] = "none"
    BY <1>8, <1>12 DEF IInv, Cleared, ClearedOf
  <2>3. d # k \/ s \notin own
    <3> SUFFICES ASSUME d = k, s \in own PROVE s \in raced'
      BY <1>12
    <3>1. call[e].class \in clash[k]  BY <2>1
    <3> QED  BY <1>2, <1>12, <3>1
  <2> QED  BY <1>7, <2>1, <2>2, <2>3
<1>13. Cleared'
  <2> SUFFICES ASSUME NEW e \in Calls PROVE ClearedOf(e)'
    BY DEF Cleared
  <2>1. CASE e = c  BY <1>5, <2>1 DEF ClearedOf
  <2>2. CASE e # c
    <3>1. call'[e] = call[e] /\ Passed(e)' = Passed(e)  BY <1>5, <2>2 DEF Passed
    <3> QED  BY <1>1, <1>12, <2>2, <3>1 DEF ClearedOf
  <2> QED  BY <2>1, <2>2
<1>14. ASSUME NEW s \in Students \ (raced' \cup direct'), NEW d \in Classes, NEW e \in clash[d],
              <<s, d, e>> \notin moved
       PROVE  learning'[<<d, s>>] = "none" \/ learning'[<<e, s>>] = "none"
  <2>0. e \in Classes /\ d # e /\ d \in clash[e] /\ <<s, e, d>> \notin moved
    BY <1>10, <1>14, ClashShape
  <2>1. learning[<<d, s>>] = "none" \/ learning[<<e, s>>] = "none"
    BY <1>8, <1>14 DEF IInv, NoTwoClashingClasses
  <2>2. CASE s \notin own  BY <1>7, <2>0, <2>1, <2>2
  <2>3. CASE s \in own
    <3>1. call[c].kind = "request"  BY <1>1, <1>3, <1>14, <2>3 DEF own
    <3>2. s \in Passed(c)  BY <1>1, <2>3 DEF Passed, own
    <3>3. \A x \in clash[k] : learning[<<x, s>>] = "none" \/ <<s, k, x>> \in moved
      BY <1>1, <1>8, <1>14, <3>1, <3>2 DEF IInv, Cleared, ClearedOf, k
    <3>4. CASE d = k
      <4>1. learning[<<e, s>>] = "none"  BY <1>14, <3>3, <3>4
      <4> QED  BY <1>7, <2>0, <3>4, <4>1
    <3>5. CASE e = k
      <4>1. learning[<<d, s>>] = "none"  BY <2>0, <3>3, <3>5
      <4> QED  BY <1>7, <2>0, <3>5, <4>1
    <3>6. CASE d # k /\ e # k  BY <1>7, <2>0, <2>1, <3>6
    <3> QED  BY <3>4, <3>5, <3>6
  <2> QED  BY <2>2, <2>3
<1>15. NoTwoClashingClasses'  BY <1>1, <1>14 DEF NoTwoClashingClasses
<1>16. Noticed'
  <2> SUFFICES ASSUME NEW e \in Calls, call'[e].pc = "seen",
                      NEW r \in Rows, r[1] = call'[e].class, learning'[r] = "pending"
               PROVE  r \in call'[e].seen \cup during'
    BY DEF Noticed, NoticedBy, Pending
  <2>1. e # c /\ call'[e] = call[e]  BY <1>5
  <2>2. CASE r \in Inserted(c)
    <3>1. r[1] = k  BY <1>6, <2>2
    <3>2. Accepting(k)  BY <2>1, <3>1 DEF Accepting
    <3> QED  BY <1>1, <2>2, <3>2 DEF k
  <2>3. CASE r \notin Inserted(c)
    <3>1. learning[r] = "pending"  BY <1>1, <2>3
    <3>2. r \in call[e].seen \cup during  BY <2>1, <3>1 DEF IInv, Noticed, NoticedBy, Pending
    <3> QED  BY <1>8, <2>1, <3>2
  <2> QED  BY <2>2, <2>3
<1>17. AcceptedAreTold'  BY <1>1, <1>8 DEF IInv, AcceptedAreTold
<1> QED  BY <1>11, <1>13, <1>15, <1>16, <1>17 DEF IInv

------------------------------------------------------------------------------
(* The tutor's answers, and leaving *)

LEMMA PendingCount ==
  ASSUME NEW k \in Classes
  PROVE  Cardinality(Pending(k)) \in Int
<1> DEFINE f == [r \in Pending(k) |-> r[2]]
<1>1. \A r \in Pending(k) : r = <<k, r[2]>> /\ r[2] \in Students  BY DEF Pending, Rows
<1>2. f \in [Pending(k) -> Students]  BY <1>1
<1>3. \A r, t \in Pending(k) : f[r] = f[t] => r = t  BY <1>1
<1>4. f \in Injection(Pending(k), Students)  BY <1>2, <1>3 DEF Injection, IsInjective
<1>5. IsFiniteSet(Pending(k))
  <2> HIDE DEF f
  <2> QED  BY <1>4, ConstantsAssumption, FS_Injection
<1> QED  BY <1>5, FS_CardinalityType

LEMMA AcceptAllStep ==
  ASSUME IInv, NEW c \in Calls, AcceptAllUpdate(c)
  PROVE  IInv'
<1> DEFINE k == call[c].class
<1>1. /\ call[c].pc = "seen" /\ Ends(c)
      /\ learning' = [r \in Rows |-> IF r \in Pending(k) THEN "accepted" ELSE learning[r]]
      /\ size' = [size EXCEPT ![k] = @ + Cardinality(Pending(k))]
      /\ told' = told \cup (call[c].seen \ {r \in Rows : learning[r] = "none"})
      /\ UNCHANGED <<clash, ops, during, raced, direct, moved>>
  BY DEF AcceptAllUpdate, Notified
<1>2. k \in Classes /\ call[c].seen \subseteq Rows  BY <1>1, CallShape DEF Accepters
<1>3. call \in [Calls -> {Idle} \cup Entering \cup Accepters] /\ learning \in [Rows -> Statuses]
      /\ size \in [Classes -> Int] /\ \A e \in Calls : call[e].pc = "insert" => call[e].todo # <<>>
  BY DEF IInv, Shape
<1>4. /\ call'[c] = Idle /\ Idle.pc = "idle"
      /\ call' \in [Calls -> {Idle} \cup Entering \cup Accepters]
      /\ \A e \in Calls \ {c} : call'[e] = call[e]
  BY <1>1, <1>3 DEF Ends, Idle
<1>5. Cardinality(Pending(k)) \in Int  BY <1>2, PendingCount
<1>6. \A r \in Rows : r \in Pending(k) => learning[r] = "pending"  BY DEF Pending
<1>7. Shape'
  <2>1. learning' \in [Rows -> Statuses]  BY <1>1, <1>3 DEF Statuses
  <2>2. size' \in [Classes -> Int]  BY <1>1, <1>2, <1>3, <1>5
  <2>3. \A e \in Calls : call'[e].pc = "insert" => call'[e].todo # <<>>  BY <1>3, <1>4
  <2>4. /\ told' \subseteq Rows /\ during' \subseteq Rows /\ ops' \in 0..MaxOps
        /\ raced' \subseteq Students /\ direct' \subseteq Students
    BY <1>1, <1>2 DEF IInv, Shape
  <2>5. call' \in [Calls -> {Idle} \cup Entering \cup Accepters]  BY <1>4
  <2>6. clash' = clash /\ moved' = moved  BY <1>1
  <2> QED  BY <2>1, <2>2, <2>3, <2>4, <2>5, <2>6 DEF IInv, Shape
<1>8. Cleared' /\ NoTwoClashingClasses'
  <2>1. \A r \in Rows : learning[r] = "none" => learning'[r] = "none"  BY <1>1, <1>6
  <2>2. \A e \in Calls : call'[e] = call[e] \/ ClearedOf(e)'  BY <1>4 DEF ClearedOf
  <2> QED  BY <1>1, <2>1, <2>2, NoRowAdded
<1>9. Noticed'
  <2>1. \A r \in Rows : learning'[r] = "pending" => learning[r] = "pending"  BY <1>1
  <2>2. \A e \in Calls : call'[e] = call[e] \/ NoticedBy(e)'  BY <1>4 DEF NoticedBy
  <2> QED  BY <1>1, <2>1, <2>2, NothingNewPending
<1>10. AcceptedAreTold'
  <2>1. Pending(k) \subseteq call[c].seen \cup during  BY <1>1 DEF IInv, Noticed, NoticedBy
  <2>2. \A r \in Pending(k) : r \in told' \/ r \in during'  BY <1>1, <1>6, <2>1 DEF Pending
  <2> QED  BY <1>1, <2>2 DEF IInv, AcceptedAreTold
<1> QED  BY <1>7, <1>8, <1>9, <1>10 DEF IInv

LEMMA RowSteps ==
  ASSUME IInv, NEW k \in Classes, NEW s \in Students,
         AcceptOne(k, s) \/ Reject(k, s) \/ Leave(k, s)
  PROVE  IInv'
<1> DEFINE row == <<k, s>>
<1>1. row \in Rows /\ learning \in [Rows -> Statuses] /\ size \in [Classes -> Int]
      /\ ops \in 0..MaxOps /\ MaxOps \in Nat
  BY ConstantsAssumption DEF IInv, Shape, Rows
<1>2. learning[row] # "none" /\ UNCHANGED <<clash, call, raced, direct, moved>>
  BY DEF AcceptOne, Reject, Leave
<1>3. PICK status \in {"accepted", "cancelled", "none"} : learning' = [learning EXCEPT ![row] = status]
  BY DEF AcceptOne, Reject, Leave
<1>4. learning' \in [Rows -> Statuses] /\ learning'[row] = status
      /\ \A r \in Rows \ {row} : learning'[r] = learning[r]
  BY <1>1, <1>3 DEF Statuses
<1>5. Shape'
  <2>0. told \subseteq Rows /\ during \subseteq Rows  BY DEF IInv, Shape
  <2>1. size' \in [Classes -> Int] /\ ops' \in 0..MaxOps /\ told' \subseteq Rows /\ during' \subseteq Rows
    BY <1>1, <2>0 DEF AcceptOne, Reject, Leave
  <2> QED  BY <1>2, <1>4, <2>1 DEF IInv, Shape
<1>6. Cleared' /\ NoTwoClashingClasses'
  <2>1. \A r \in Rows : learning[r] = "none" => learning'[r] = "none"  BY <1>2, <1>4
  <2> QED  BY <1>2, <2>1, NoRowAdded
<1>7. Noticed'
  <2>1. during' = during \/ during' = during \ {row}  BY DEF AcceptOne, Reject, Leave
  <2>2. \A r \in Rows : learning'[r] = "pending" => r # row /\ learning[r] = "pending"  BY <1>4
  <2> QED  BY <1>2, <2>1, <2>2, NothingNewPending
<1>8. AcceptedAreTold'
  <2>1. CASE AcceptOne(k, s)  BY <1>4, <2>1 DEF AcceptOne, IInv, AcceptedAreTold
  <2>2. CASE Reject(k, s) \/ Leave(k, s)
    <3>1. learning'[row] # "accepted"  BY <1>1, <2>2 DEF Reject, Leave
    <3>2. \A r \in Rows \ {row} : (r \in told => r \in told') /\ (r \in during => r \in during')
      BY <2>2 DEF Reject, Leave
    <3> QED  BY <1>4, <3>1, <3>2 DEF IInv, AcceptedAreTold
  <2> QED  BY <2>1, <2>2
<1> QED  BY <1>5, <1>6, <1>7, <1>8 DEF IInv

------------------------------------------------------------------------------
(* Changes of schedules *)

\* Who has a row in one of two classes, and a row or a checked request in the other, is
\* recorded when a change makes them clash; the clashes stay mutual.
LEMMA RescheduleStep ==
  ASSUME IInv, NEW k \in Classes, NEW others \in SUBSET (Classes \ {k}), Reschedule(k, others)
  PROVE  IInv'
<1>1. /\ clash' = ClashAfter(k, others)
      /\ moved' = moved \cup {m \in Students \X Classes \X Classes :
           m[3] \in clash'[m[2]] \ clash[m[2]] /\ m[1] \in InBoth(m[2], m[3])}
      /\ UNCHANGED <<learning, size, call, told, during, raced, direct>>
  BY DEF Reschedule
<1>2. ops' \in 0..MaxOps  BY ConstantsAssumption DEF Reschedule, IInv, Shape
<1>3. clash \in Clashings /\ clash \in [Classes -> SUBSET Classes]
  BY DEF IInv, Shape, Clashings
<1>4. clash' \in Clashings
  <2>1. clash' \in [Classes -> SUBSET Classes]  BY <1>1, <1>3 DEF ClashAfter
  <2>2. ASSUME NEW e \in Classes PROVE e \notin clash'[e]
    BY <1>1, <1>3 DEF ClashAfter, Clashings
  <2>3. ASSUME NEW e \in Classes, NEW d \in clash'[e] PROVE e \in clash'[d]
    <3>1. d \in Classes  BY <2>1, <2>3
    <3> QED  BY <1>1, <1>3, <2>3, <3>1 DEF ClashAfter, Clashings
  <2> QED  BY <2>1, <2>2, <2>3 DEF Clashings
<1>5. ASSUME NEW s \in Students, NEW a \in Classes, NEW b \in clash'[a], b \notin clash[a],
             s \in InBoth(a, b)
      PROVE  <<s, a, b>> \in moved'
  <2>1. b \in Classes  BY <1>4, <1>5 DEF Clashings
  <2> DEFINE m == <<s, a, b>>
  <2>2. m \in Students \X Classes \X Classes /\ m[1] = s /\ m[2] = a /\ m[3] = b  BY <2>1
  <2> HIDE DEF m
  <2>3. m \in moved'  BY <1>1, <1>5, <2>2
  <2> QED  BY <2>3 DEF m
<1>6. Shape'
  <2>1. moved' \subseteq Students \X Classes \X Classes  BY <1>1 DEF IInv, Shape
  <2>2. ASSUME NEW s \in Students, NEW a \in Classes, NEW b \in Classes, <<s, a, b>> \in moved'
        PROVE  <<s, b, a>> \in moved'
    <3>1. CASE <<s, a, b>> \in moved  BY <1>1, <3>1 DEF IInv, Shape
    <3>2. CASE <<s, a, b>> \notin moved
      <4>1. b \in clash'[a] /\ b \notin clash[a] /\ s \in InBoth(a, b)
        BY <1>1, <2>2, <3>2
      <4>2. a \in clash'[b] /\ a \notin clash[b]  BY <1>3, <1>4, <4>1 DEF Clashings
      <4>3. s \in InBoth(b, a)  BY <4>1 DEF InBoth
      <4> QED  BY <1>5, <4>2, <4>3
    <3> QED  BY <3>1, <3>2
  <2> QED  BY <1>1, <1>2, <1>4, <2>1, <2>2 DEF IInv, Shape
<1>7. moved \subseteq moved'  BY <1>1
<1>8. Cleared'
  <2> SUFFICES ASSUME NEW c \in Calls, call[c].pc \in {"check", "insert"}, call[c].kind = "request",
                      NEW s \in Passed(c) \ (raced \cup direct), NEW d \in clash'[call[c].class],
                      learning[<<d, s>>] # "none"
               PROVE  <<s, call[c].class, d>> \in moved'
    <3>1. \A c \in Calls : Passed(c)' = Passed(c)  BY <1>1 DEF Passed
    <3> QED  BY <1>1, <3>1 DEF Cleared, ClearedOf
  <2>1. s \in Students /\ call[c].class \in Classes  BY PassedShape, CallShape
  <2>2. CASE d \in clash[call[c].class]
    <3>1. <<s, call[c].class, d>> \in moved  BY <2>2 DEF IInv, Cleared, ClearedOf
    <3> QED  BY <1>7, <3>1
  <2>3. CASE d \notin clash[call[c].class]
    <3>1. s \in Has(d) /\ s \in Enters(call[c].class)  BY <2>1 DEF Has, Enters
    <3>2. s \in InBoth(call[c].class, d)  BY <3>1 DEF InBoth
    <3> QED  BY <1>5, <2>1, <2>3, <3>2
  <2> QED  BY <2>2, <2>3
<1>9. NoTwoClashingClasses'
  <2> SUFFICES ASSUME NEW s \in Students \ (raced \cup direct), NEW a \in Classes,
                      NEW b \in clash'[a],
                      learning[<<a, s>>] # "none", learning[<<b, s>>] # "none"
               PROVE  <<s, a, b>> \in moved'
    <3>1. learning' = learning /\ raced' = raced /\ direct' = direct  BY <1>1
    <3> QED  BY <3>1 DEF NoTwoClashingClasses
  <2>1. CASE b \in clash[a]  BY <1>7, <2>1 DEF IInv, NoTwoClashingClasses
  <2>2. CASE b \notin clash[a]
    <3>1. s \in InBoth(a, b)  BY DEF InBoth, Has
    <3> QED  BY <1>5, <2>2, <3>1
  <2> QED  BY <2>1, <2>2
<1>10. Noticed'
  BY <1>1, NothingNewPending
<1>11. AcceptedAreTold'  BY <1>1 DEF IInv, AcceptedAreTold
<1> QED  BY <1>6, <1>8, <1>9, <1>10, <1>11 DEF IInv

------------------------------------------------------------------------------
(* The theorems *)

LEMMA NextIInv == IInv /\ [Next]_vars => IInv'
<1> SUFFICES ASSUME IInv, [Next]_vars PROVE IInv'  OBVIOUS
<1>1. ASSUME NEW c \in Calls, NEW k \in Classes,
             \/ \E list \in Lists : Request(c, k, list)
             \/ \E s \in Students : Enroll(c, k, s)
             \/ AcceptAllFind(c, k)
      PROVE  IInv'
  BY <1>1, StartSteps
<1>2. ASSUME NEW c \in Calls, CheckNext(c) PROVE IInv'  BY <1>2, CheckStep
<1>3. ASSUME NEW c \in Calls, Insert(c) PROVE IInv'  BY <1>3, InsertStep
<1>4. ASSUME NEW c \in Calls, Commit(c) PROVE IInv'  BY <1>4, CommitStep
<1>5. ASSUME NEW c \in Calls, Abort(c) PROVE IInv'  BY <1>5, IdleStep DEF Abort
<1>6. ASSUME NEW c \in Calls, AcceptAllUpdate(c) PROVE IInv'  BY <1>6, AcceptAllStep
<1>7. ASSUME NEW k \in Classes, NEW s \in Students, AcceptOne(k, s) \/ Reject(k, s) \/ Leave(k, s)
      PROVE  IInv'
  BY <1>7, RowSteps
<1>8. ASSUME NEW k \in Classes, NEW others \in SUBSET (Classes \ {k}), Reschedule(k, others)
      PROVE  IInv'
  BY <1>8, RescheduleStep
<1>9. CASE UNCHANGED vars
  <2>1. Shape'  BY <1>9 DEF vars, IInv, Shape
  <2>2. Cleared' /\ NoTwoClashingClasses'  BY <1>9, NoRowAdded DEF vars
  <2>3. Noticed'  BY <1>9, NothingNewPending DEF vars
  <2>4. AcceptedAreTold'  BY <1>9 DEF vars, IInv, AcceptedAreTold
  <2> QED  BY <2>1, <2>2, <2>3, <2>4 DEF IInv
<1> QED  BY <1>1, <1>2, <1>3, <1>4, <1>5, <1>6, <1>7, <1>8, <1>9 DEF Next

\* IInv always holds.
THEOREM Inductive == Spec => []IInv
BY InitIInv, NextIInv, PTL DEF Spec

\* The rows of Learning, the sizes and the transactions of class.service.ts keep their shapes.
THEOREM TypeCorrect == Spec => []TypeOK
<1>1. ASSUME IInv PROVE TypeOK
  <2>1. ASSUME NEW c \in Calls
        PROVE  \/ call[c] = Idle
               \/ /\ call[c].pc \in {"check", "insert"}
                  /\ call[c].kind \in {"request", "enroll"} /\ call[c].own \subseteq Students
                  /\ call[c].pc = "insert" => call[c].todo # <<>>
               \/ call[c].pc = "seen" /\ call[c].seen \subseteq Rows
    BY <1>1 DEF IInv, Shape, Entering, Accepters
  <2> QED  BY <1>1, <2>1 DEF IInv, Shape, Statuses, TypeOK
<1> QED  BY <1>1, Inductive, PTL

\* However many requests, acceptances, departures and changes of schedules overlap,
\* vadidateClassRequest keeps a student out of two classes that clash, but for requests in
\* progress at once, enrolments by e-mail, and two classes of the student that a change of a
\* schedule has made clash.
THEOREM NobodyIsInTwoClashingClasses == Spec => []NoTwoClashingClasses
<1>1. IInv => NoTwoClashingClasses  BY DEF IInv
<1> QED  BY <1>1, Inductive, PTL

\* Whoever is accepted, alone or with all others of the class, is told, unless the request was
\* committed between the two statements of acceptAllEnrollReq.
THEOREM EveryAcceptedIsTold == Spec => []AcceptedAreTold
<1>1. IInv => AcceptedAreTold  BY DEF IInv
<1> QED  BY <1>1, Inductive, PTL
================================================================================
