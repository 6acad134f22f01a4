--------------------------- MODULE Discussion_proofs ---------------------------
(***************************************************************************)
(* What holds of Discussion and ThreadPage for any number of threads,      *)
(* comments, deletions and pages.  Placed ties every comment to a thread   *)
(* and to the comment it answers; Collecting says of a deletion under way  *)
(* that what it collected and what it will remove are the same comments,   *)
(* but for those committed since; Following says of a page what it can be  *)
(* short of, at every step of loading, joining and receiving.              *)
(***************************************************************************)
EXTENDS ThreadPage, FiniteSetTheorems, SequenceTheorems, TLAPS

InPlace(c) ==
  cmt[c].pc \in {"kept", "sent"} =>
    /\ cmt[c].thread \in Threads /\ thread[cmt[c].thread] = "kept"
    /\ cmt[c].parent # Top => /\ cmt[c].parent \in Comments
                              /\ cmt[cmt[c].parent].pc = "kept"
                              /\ cmt[cmt[c].parent].thread = cmt[c].thread
Placed ==
  /\ \A t \in Threads : news[t] = "told" => thread[t] \in {"kept", "gone"}
  /\ \A t \in Threads, u \in Followers : <<t, u>> \in follows => thread[t] = "kept"
  /\ \A c \in Comments : InPlace(c)
  /\ \A c \in Comments : cmt[c].pc # "free" => cmt[c].thread \in Threads

Collected(d) ==
  /\ del[d].thread \in Threads
  /\ del[d].root # Top => /\ cmt[del[d].root].pc \in {"kept", "gone"}
                          /\ cmt[del[d].root].thread = del[d].thread
  /\ \A f \in del[d].files : /\ cmt[f].pc \in {"kept", "gone"}
                             /\ cmt[f].thread = del[d].thread
                             /\ cmt[f].pc = "kept" => f \in Doomed(d)
  /\ \A c \in Doomed(d) : cmt[c].pc = "kept" => c \in del[d].files \cup unseen
Collecting ==
  /\ \A d \in Deleters : del[d].pc = "collected" => Collected(d)
  /\ \A c \in purged : cmt[c].pc \in {"kept", "gone"}

IInv == TypeOK /\ Placed /\ Collecting /\ FilesFollowRows

------------------------------------------------------------------------------
(* The branch below a comment *)

\* Below, of any table of comments.
ClosedIn(table, S) == \A c \in Comments : table[c].pc = "kept" /\ table[c].parent \in S => c \in S
BelowIn(table, root) ==
  {c \in Comments : \A S \in SUBSET Comments : root \in S /\ ClosedIn(table, S) => c \in S}

LEMMA BelowNow == \A root : Below(root) = BelowIn(cmt, root)
BY DEF Below, BelowIn, ClosedIn

LEMMA BelowNext == \A root : Below(root)' = BelowIn(cmt', root)
BY DEF Below, BelowIn, ClosedIn

\* The branch holds its root and is closed; a closed set with the root holds the branch.
LEMMA BranchClosed ==
  ASSUME NEW table, NEW root \in Comments
  PROVE  /\ root \in BelowIn(table, root) /\ BelowIn(table, root) \in SUBSET Comments
         /\ ClosedIn(table, BelowIn(table, root))
         /\ \A S \in SUBSET Comments :
              root \in S /\ ClosedIn(table, S) => BelowIn(table, root) \subseteq S
BY DEF BelowIn, ClosedIn

\* Removing a closed set of rows takes no other row out of a branch, and adds none to it.
LEMMA BranchShrinks ==
  ASSUME NEW old, NEW new, NEW root \in Comments, NEW removed \in SUBSET Comments,
         ClosedIn(old, removed),
         \A c \in Comments : new[c].pc = "kept" => old[c].pc = "kept" /\ new[c].parent = old[c].parent,
         \A c \in Comments \ removed :
           old[c].pc = "kept" => new[c].pc = "kept" /\ new[c].parent = old[c].parent
  PROVE  /\ BelowIn(new, root) \subseteq BelowIn(old, root)
         /\ BelowIn(old, root) \ removed \subseteq BelowIn(new, root)
<1>1. \A S : ClosedIn(old, S) => ClosedIn(new, S)  BY DEF ClosedIn
<1>2. BelowIn(new, root) \subseteq BelowIn(old, root)  BY <1>1 DEF BelowIn
<1>3. ASSUME NEW S \in SUBSET Comments, ClosedIn(new, S) PROVE ClosedIn(old, S \cup removed)
  BY <1>3 DEF ClosedIn
<1>4. ASSUME NEW c \in BelowIn(old, root) \ removed, NEW S \in SUBSET Comments,
             root \in S, ClosedIn(new, S)
      PROVE  c \in S
  <2>1. ClosedIn(old, S \cup removed) /\ S \cup removed \in SUBSET Comments  BY <1>3, <1>4
  <2>2. c \in S \cup removed  BY <1>4, <2>1 DEF BelowIn
  <2> QED  BY <2>2
<1>5. BelowIn(old, root) \ removed \subseteq BelowIn(new, root)  BY <1>4 DEF BelowIn
<1> QED  BY <1>2, <1>5

\* A row that nothing answers, once kept, joins the branches its parent is in.
LEMMA BranchGrows ==
  ASSUME NEW old, NEW new, NEW root \in Comments, NEW x \in Comments, x # root,
         \A c \in Comments : old[c].pc = "kept" => old[c].parent # x,
         \A c \in Comments : new[c].parent = old[c].parent,
         \A c \in Comments : new[c].pc = "kept" <=> old[c].pc = "kept" \/ c = x
  PROVE  /\ BelowIn(old, root) \subseteq BelowIn(new, root)
         /\ BelowIn(new, root) \subseteq BelowIn(old, root) \cup {x}
         /\ x \in BelowIn(new, root) => x \in BelowIn(old, root) \/ old[x].parent \in BelowIn(old, root)
<1>1. \A S : ClosedIn(new, S) => ClosedIn(old, S)  BY DEF ClosedIn
<1>2. BelowIn(old, root) \subseteq BelowIn(new, root)  BY <1>1 DEF BelowIn
<1> DEFINE B == BelowIn(old, root)
<1>3. root \in B /\ B \in SUBSET Comments /\ ClosedIn(old, B)  BY BranchClosed
<1> HIDE DEF B
<1>5. old[x].parent # x \/ old[x].pc # "kept"  OBVIOUS
<1>6. ClosedIn(new, B \cup {x})  BY <1>3 DEF ClosedIn
<1>7. BelowIn(new, root) \subseteq B \cup {x}  BY <1>3, <1>6, BranchClosed
<1>8. ASSUME old[x].parent \notin B PROVE BelowIn(new, root) \subseteq B
  <2>1. ClosedIn(new, B)  BY <1>3, <1>8 DEF ClosedIn
  <2> QED  BY <1>3, <2>1, BranchClosed
<1> QED  BY <1>2, <1>7, <1>8 DEF B

LEMMA BranchInThread ==
  ASSUME Placed, NEW root \in Comments
  PROVE  \A c \in Below(root) : c \in Comments /\ cmt[c].thread = cmt[root].thread
<1> DEFINE S == {c \in Comments : cmt[c].thread = cmt[root].thread}
<1>1. ClosedIn(cmt, S)
  BY ConstantsAssumption DEF ClosedIn, Placed, InPlace
<1>2. S \in SUBSET Comments /\ root \in S  OBVIOUS
<1> HIDE DEF S
<1>3. BelowIn(cmt, root) \subseteq S  BY <1>1, <1>2, BranchClosed
<1> QED  BY <1>3, BelowNow DEF S

------------------------------------------------------------------------------
(* Steps that leave the kept and the deleted rows alone *)

QuietRows ==
  \A c \in Comments :
    cmt[c].pc \in {"kept", "gone"} \/ cmt'[c].pc \in {"kept", "gone"} => cmt'[c] = cmt[c]

LEMMA QuietDoomed ==
  ASSUME TypeOK, QuietRows, del' = del, NEW d \in Deleters
  PROVE  Doomed(d)' = Doomed(d)
<1>1. CASE del[d].root = Top
  BY <1>1 DEF Doomed, Kept, Of, QuietRows
<1>2. CASE del[d].root # Top
  <2>1. del[d].root \in Comments  BY <1>2 DEF TypeOK
  <2>2. ClosedIn(cmt, {})  BY DEF ClosedIn
  <2>3. \A c \in Comments :
          (cmt'[c].pc = "kept" \/ cmt[c].pc = "kept")
            => cmt'[c].pc = "kept" /\ cmt[c].pc = "kept" /\ cmt'[c].parent = cmt[c].parent
    BY DEF QuietRows
  <2>4. {} \in SUBSET Comments  OBVIOUS
  <2>5. /\ BelowIn(cmt', del[d].root) \subseteq BelowIn(cmt, del[d].root)
        /\ BelowIn(cmt, del[d].root) \ {} \subseteq BelowIn(cmt', del[d].root)
    <3> HIDE DEF QuietRows
    <3> QED  BY <2>1, <2>2, <2>3, <2>4, BranchShrinks
  <2>6. BelowIn(cmt', del[d].root) = BelowIn(cmt, del[d].root)  BY <2>5
  <2> QED  BY <1>2, <2>6, BelowNow, BelowNext DEF Doomed
<1> QED  BY <1>1, <1>2

LEMMA Quiet ==
  ASSUME IInv, QuietRows, UNCHANGED <<del, purged, undone, unseen>>
  PROVE  Collecting' /\ FilesFollowRows'
<1> USE DEF IInv
<1>1. \A d \in Deleters : Doomed(d)' = Doomed(d)  BY QuietDoomed
<1>2. \A d \in Deleters : del[d].files \subseteq Comments /\ del[d].root \in Comments \cup {Top}
  BY DEF TypeOK
<1>3. purged \subseteq Comments  BY DEF TypeOK
<1>4. \A d \in Deleters : Doomed(d) \subseteq Comments
  BY BelowNow DEF Doomed, Kept, Of, BelowIn
<1>5. ASSUME NEW d \in Deleters, del'[d].pc = "collected" PROVE Collected(d)'
  <2>1. Collected(d)  BY <1>5 DEF Collecting
  <2> QED  BY <1>1, <1>2, <1>4, <2>1 DEF Collected, QuietRows
<1>6. Collecting'  BY <1>3, <1>5 DEF Collecting, QuietRows
<1>7. FilesFollowRows'  BY DEF FilesFollowRows, QuietRows
<1> QED  BY <1>6, <1>7

LEMMA InitIInv == Init => IInv
<1> SUFFICES ASSUME Init PROVE IInv  OBVIOUS
<1>1. TypeOK  BY ConstantsAssumption DEF Init, TypeOK, Unwritten, NoDeletion, OnePerNumber, Of
<1>2. Placed  BY DEF Init, Placed, InPlace, Unwritten
<1>3. Collecting  BY DEF Init, Collecting, NoDeletion
<1>4. FilesFollowRows  BY DEF Init, FilesFollowRows, Unwritten
<1> QED  BY <1>1, <1>2, <1>3, <1>4 DEF IInv

\* Threads, their news and their followers.
LEMMA ThreadSteps ==
  ASSUME IInv, NEW t \in Threads,
         \/ ThreadInsert(t) \/ ThreadEnd(t) \/ TellClass(t)
         \/ \E u \in Followers : Follow(u, t) \/ Unfollow(u, t)
  PROVE  IInv'
<1> USE DEF IInv
<1>1. UNCHANGED <<cmt, del, purged, undone, unseen>>
  BY DEF ThreadInsert, ThreadEnd, TellClass, Follow, Unfollow, deletionVars
<1>2. \A x \in Threads : thread[x] \in {"kept", "gone"} => thread'[x] = thread[x]
  BY DEF ThreadInsert, ThreadEnd, TellClass, Follow, Unfollow, TypeOK
<1>2a. (follows' \subseteq follows)
       \/ (thread[t] = "kept" /\ \E u \in Followers : follows' = follows \cup {<<t, u>>})
  <2>1. CASE ThreadInsert(t) \/ ThreadEnd(t) \/ TellClass(t)
    BY <2>1 DEF ThreadInsert, ThreadEnd, TellClass
  <2>2. ASSUME NEW u \in Followers, Follow(u, t)
        PROVE  thread[t] = "kept" /\ follows' = follows \cup {<<t, u>>}
    BY <2>2 DEF Follow
  <2>3. ASSUME NEW u \in Followers, Unfollow(u, t) PROVE follows' \subseteq follows
    BY <2>3 DEF Unfollow
  <2> QED  BY <2>1, <2>2, <2>3
<1>3. TypeOK'
  <2>1. \A x \in Threads : OnePerNumber(x)'  BY <1>1 DEF TypeOK, OnePerNumber, Of
  <2>2. thread' \in [Threads -> {"none", "inserted", "kept", "gone", "void"}]
    BY DEF ThreadInsert, ThreadEnd, TellClass, Follow, Unfollow, TypeOK
  <2>3. news' \in [Threads -> {"none", "pending", "told", "lost"}]
    BY DEF ThreadInsert, ThreadEnd, TellClass, Follow, Unfollow, TypeOK
  <2>4. follows' \subseteq Threads \X Followers
    BY <1>2a DEF TypeOK
  <2> QED  BY <1>1, <2>1, <2>2, <2>3, <2>4 DEF TypeOK
<1>4. Placed'
  <2>1. \A x \in Threads : news'[x] = "told" => thread'[x] \in {"kept", "gone"}
    BY <1>2 DEF ThreadInsert, ThreadEnd, TellClass, Follow, Unfollow, TypeOK, Placed, NewsFound
  <2>2. \A x \in Threads, u \in Followers : <<x, u>> \in follows' => thread'[x] = "kept"
    <3>1. CASE follows' \subseteq follows  BY <1>2, <3>1 DEF Placed
    <3>2. ASSUME NEW u \in Followers, thread[t] = "kept", follows' = follows \cup {<<t, u>>}
          PROVE  \A x \in Threads, v \in Followers : <<x, v>> \in follows' => thread'[x] = "kept"
      BY <1>2, <3>2 DEF Placed
    <3> QED  BY <1>2a, <3>1, <3>2
  <2>3. \A c \in Comments : InPlace(c)'  BY <1>1, <1>2 DEF Placed, InPlace
  <2> QED  BY <1>1, <2>1, <2>2, <2>3 DEF Placed
<1>5. Collecting' /\ FilesFollowRows'
  BY <1>1, Quiet DEF QuietRows
<1> QED  BY <1>3, <1>4, <1>5

------------------------------------------------------------------------------
(* Comments *)

Row == [pc : {"free", "numbered", "sent", "kept", "gone", "void"}, thread : Threads \cup {NoThread},
        num : Nat, ref : Nat, parent : Comments \cup {Top}]

\* A row that is neither kept nor deleted gets a new state: harmless when, once sent, it hangs
\* where it belongs under a number of its own.
LEMMA RowStep ==
  ASSUME IInv, NEW c \in Comments, NEW r \in Row, cmt' = [cmt EXCEPT ![c] = r],
         UNCHANGED <<thread, news, follows, del, purged, undone, unseen>>,
         cmt[c].pc \notin {"kept", "gone"}, r.pc \in {"numbered", "sent", "void"},
         r.thread \in Threads,
         r.pc = "sent" =>
           /\ thread[r.thread] = "kept"
           /\ r.parent # Top => /\ r.parent \in Comments /\ cmt[r.parent].pc = "kept"
                                /\ cmt[r.parent].thread = r.thread
           /\ \A x \in Of(r.thread, {"kept", "sent"}) : x # c => cmt[x].num # r.num
  PROVE  IInv'
<1> USE DEF IInv
<1>1. cmt \in [Comments -> Row]  BY DEF TypeOK, Row
<1>2. cmt' \in [Comments -> Row] /\ cmt'[c] = r /\ \A x \in Comments \ {c} : cmt'[x] = cmt[x]
  BY <1>1
<1>3. \A x \in Threads : OnePerNumber(x)'
  <2> SUFFICES ASSUME NEW x \in Threads, NEW a \in Of(x, {"kept", "sent"})',
                      NEW b \in Of(x, {"kept", "sent"})', cmt'[a].num = cmt'[b].num
               PROVE  a = b
    BY DEF OnePerNumber
  <2>1. \A y \in Of(x, {"kept", "sent"})' : y # c => y \in Of(x, {"kept", "sent"})
    BY <1>2 DEF Of
  <2>2. CASE a # c /\ b # c  BY <1>2, <2>1, <2>2 DEF TypeOK, OnePerNumber, Of
  <2>3. CASE a = c /\ b # c
    <3>1. r.pc = "sent" /\ r.thread = x /\ b \in Comments  BY <1>2, <2>3 DEF Of
    <3> QED  BY <1>2, <2>1, <2>3, <3>1
  <2>4. CASE a # c /\ b = c
    <3>1. r.pc = "sent" /\ r.thread = x /\ a \in Comments  BY <1>2, <2>4 DEF Of
    <3> QED  BY <1>2, <2>1, <2>4, <3>1
  <2> QED  BY <2>2, <2>3, <2>4
<1>4. TypeOK'  BY <1>2, <1>3 DEF TypeOK, Row
<1>5. \A x \in Comments : InPlace(x)'
  BY <1>2 DEF Placed, InPlace
<1>6. Placed'  BY <1>2, <1>5 DEF Placed
<1>7. QuietRows  BY <1>2 DEF QuietRows
<1>8. Collecting' /\ FilesFollowRows'  BY <1>7, Quiet
<1> QED  BY <1>4, <1>6, <1>8

LEMMA NumberStep ==
  ASSUME IInv, NEW c \in Comments, NEW t \in Threads, NEW ref \in Nat, CommentNumber(c, t, ref)
  PROVE  IInv'
<1>1. Cardinality(Comments) \in Nat  BY ConstantsAssumption, FS_CardinalityType
<1>2. PICK n \in 0..Cardinality(Comments) :
        cmt' = [cmt EXCEPT ![c] = [pc |-> "numbered", thread |-> t, num |-> n + 1,
                                   ref |-> ref, parent |-> Top]]
  BY DEF CommentNumber
<1> DEFINE r == [pc |-> "numbered", thread |-> t, num |-> n + 1, ref |-> ref, parent |-> Top]
<1>3. r \in Row  BY <1>1 DEF Row
<1>4. cmt[c].pc = "free" /\ UNCHANGED <<thread, news, follows, del, purged, undone, unseen>>
  BY DEF CommentNumber, threadVars, deletionVars
<1>5. r.pc = "numbered" /\ r.thread = t  OBVIOUS
<1>6. cmt' = [cmt EXCEPT ![c] = r]  BY <1>2
<1> HIDE DEF r
<1> QED  BY <1>3, <1>4, <1>5, <1>6, RowStep

LEMMA SendStep ==
  ASSUME IInv, NEW c \in Comments, CommentSend(c)
  PROVE  IInv'
<1> DEFINE t == cmt[c].thread
           parent == IF cmt[c].ref = 0 THEN Top ELSE CHOOSE p \in Numbered(t, cmt[c].ref) : TRUE
           r == [cmt[c] EXCEPT !.pc = "sent", !.parent = parent]
<1>1. cmt[c] \in Row /\ cmt \in [Comments -> Row]  BY DEF IInv, TypeOK, Row
<1>2. cmt[c].pc = "numbered" /\ t \in Threads /\ thread[t] = "kept"
  BY DEF CommentSend, Refused, IInv, Placed
<1>3. parent # Top => parent \in Numbered(t, cmt[c].ref)
  BY DEF CommentSend, Refused
<1>4. parent # Top => parent \in Comments /\ cmt[parent].pc = "kept" /\ cmt[parent].thread = t
  BY <1>3 DEF Numbered, Kept, Of
<1>5. \A x \in Of(t, {"kept", "sent"}) : x # c => cmt[x].num # cmt[c].num
  BY DEF CommentSend, Refused, Numbered, Kept, Sent, Of
<1>6. cmt' = [cmt EXCEPT ![c].pc = "sent", ![c].parent = parent]
  BY DEF CommentSend
<1>7. UNCHANGED <<thread, news, follows, del, purged, undone, unseen>>
  BY DEF CommentSend, threadVars, deletionVars
<1> HIDE DEF parent
<1>8. parent \in Comments \cup {Top}  BY <1>4
<1>9. r \in Row /\ r.pc = "sent" /\ r.thread = t /\ r.num = cmt[c].num /\ r.parent = parent
  BY <1>1, <1>8 DEF Row
<1>10. cmt' = [cmt EXCEPT ![c] = r]  BY <1>1, <1>6 DEF Row
<1> HIDE DEF r, t
<1> QED  BY <1>1, <1>2, <1>4, <1>5, <1>7, <1>9, <1>10, RowStep DEF t

LEMMA AbortStep ==
  ASSUME IInv, NEW c \in Comments, CommentAbort(c)
  PROVE  IInv'
<1> DEFINE r == [cmt[c] EXCEPT !.pc = "void"]
<1>1. cmt[c] \in Row /\ cmt \in [Comments -> Row]  BY DEF IInv, TypeOK, Row
<1>2. cmt[c].pc \in {"numbered", "sent"} /\ cmt[c].thread \in Threads
  BY DEF CommentAbort, IInv, Placed
<1>3. r \in Row /\ r.pc = "void" /\ r.thread = cmt[c].thread  BY <1>1 DEF Row
<1>4. cmt' = [cmt EXCEPT ![c] = r]  BY DEF CommentAbort
<1>5. UNCHANGED <<thread, news, follows, del, purged, undone, unseen>>
  BY DEF CommentAbort, threadVars, deletionVars
<1> HIDE DEF r
<1> QED  BY <1>2, <1>3, <1>4, <1>5, RowStep

\* A commit adds one row to the kept ones.  Nothing answers it yet, so it can only be below
\* the root of a deletion when its thread is that of the deletion; then it is unseen.
LEMMA CommitStep ==
  ASSUME IInv, NEW c \in Comments, CommentCommit(c)
  PROVE  IInv'
<1> USE DEF IInv
<1>1. cmt \in [Comments -> Row]  BY DEF TypeOK, Row
<1>2. /\ cmt[c].pc = "sent" /\ cmt' = [cmt EXCEPT ![c].pc = "kept"]
      /\ UNCHANGED <<thread, news, follows, del, purged, undone>>
      /\ unseen' = unseen \cup {x \in {c} : \E d \in Deleters : del[d].thread = cmt[c].thread}
  BY DEF CommentCommit, threadVars, deletionVars
<1>3. /\ cmt' \in [Comments -> Row] /\ cmt'[c].pc = "kept"
      /\ \A x \in Comments \ {c} : cmt'[x] = cmt[x]
      /\ \A x \in Comments : /\ cmt'[x].thread = cmt[x].thread /\ cmt'[x].parent = cmt[x].parent
                             /\ cmt'[x].num = cmt[x].num
  BY <1>1, <1>2 DEF Row
<1>4. \A x \in Threads : OnePerNumber(x)'
  <2>1. \A x \in Threads : Of(x, {"kept", "sent"})' = Of(x, {"kept", "sent"})
    BY <1>2, <1>3 DEF Of
  <2> QED  BY <1>3, <2>1 DEF TypeOK, OnePerNumber, Of
<1>5. unseen' \subseteq Comments  BY <1>2 DEF TypeOK
<1>6. TypeOK'  BY <1>2, <1>3, <1>4, <1>5 DEF TypeOK, Row
<1>7. \A x \in Comments : InPlace(x)'
  BY <1>2, <1>3 DEF Placed, InPlace
<1>8. Placed'  BY <1>2, <1>3, <1>7 DEF Placed
<1>9. ASSUME NEW d \in Deleters, del[d].pc = "collected" PROVE Collected(d)'
  <2>1. /\ Collected(d) /\ del[d].root \in Comments \cup {Top} /\ del[d].files \subseteq Comments
    BY <1>9 DEF Collecting, TypeOK
  <2>2. c \notin del[d].files /\ c # del[d].root
    BY <1>2, <2>1, ConstantsAssumption DEF Collected
  <2>3. Doomed(d) \subseteq Comments /\ Doomed(d) \subseteq Doomed(d)'
        /\ Doomed(d)' \subseteq Doomed(d) \cup {c} /\ (c \in Doomed(d)' => c \in unseen')
    <3>1. CASE del[d].root = Top
      BY <1>2, <1>3, <3>1 DEF Doomed, Kept, Of
    <3>2. CASE del[d].root # Top
      <4> DEFINE root == del[d].root
      <4>1. root \in Comments  BY <2>1, <3>2
      <4>2. \A x \in Comments : cmt[x].pc = "kept" => cmt[x].parent # c
        BY <1>2, ConstantsAssumption DEF Placed, InPlace
      <4>3. \A x \in Comments : cmt'[x].pc = "kept" <=> cmt[x].pc = "kept" \/ x = c
        BY <1>3
      <4>4. \A x \in Comments : cmt'[x].parent = cmt[x].parent  BY <1>3
      <4>5. /\ BelowIn(cmt, root) \subseteq BelowIn(cmt', root)
            /\ BelowIn(cmt', root) \subseteq BelowIn(cmt, root) \cup {c}
            /\ c \in BelowIn(cmt', root) => c \in BelowIn(cmt, root)
                                            \/ cmt[c].parent \in BelowIn(cmt, root)
        <5> HIDE DEF root
        <5> QED  BY <2>2, <4>1, <4>2, <4>3, <4>4, BranchGrows DEF root
      <4>6. \A x \in BelowIn(cmt, root) : x \in Comments /\ cmt[x].thread = del[d].thread
        BY <2>1, <3>2, <4>1, BranchInThread, BelowNow DEF Collected
      <4>7. c \in BelowIn(cmt', root) => cmt[c].thread = del[d].thread
        BY <1>2, <4>5, <4>6, ConstantsAssumption DEF Placed, InPlace
      <4>8. c \in BelowIn(cmt', root) => c \in unseen'
        BY <1>2, <4>7
      <4> QED  BY <3>2, <4>5, <4>6, <4>8, BelowNow, BelowNext, <1>2 DEF Doomed
    <3> QED  BY <3>1, <3>2
  <2>4. \A f \in del[d].files : cmt'[f] = cmt[f]  BY <1>3, <2>1, <2>2
  <2>5. \A x \in Doomed(d)' : x = c \/ cmt'[x] = cmt[x]  BY <1>3, <2>3
  <2>6. unseen \subseteq unseen'  BY <1>2
  <2>7. del[d].root # Top => cmt'[del[d].root] = cmt[del[d].root]  BY <1>3, <2>1, <2>2
  <2>8. \A x \in Doomed(d)' : cmt'[x].pc = "kept" => x \in del[d].files \cup unseen'
    <3> SUFFICES ASSUME NEW x \in Doomed(d)', cmt'[x].pc = "kept"
                 PROVE  x \in del[d].files \cup unseen'
      OBVIOUS
    <3>1. CASE x = c  BY <2>3, <3>1
    <3>2. CASE x # c  BY <2>1, <2>3, <2>5, <2>6, <3>2 DEF Collected
    <3> QED  BY <3>1, <3>2
  <2> QED  BY <1>2, <2>1, <2>3, <2>4, <2>7, <2>8 DEF Collected
<1>10. purged \subseteq Comments /\ c \notin purged  BY <1>2 DEF TypeOK, Collecting
<1>11. Collecting'  BY <1>2, <1>3, <1>9, <1>10 DEF Collecting
<1>12. FilesFollowRows'  BY <1>2, <1>3, <1>10 DEF FilesFollowRows
<1> QED  BY <1>6, <1>8, <1>11, <1>12

------------------------------------------------------------------------------
(* Deletions *)

LEMMA BranchKept ==
  ASSUME NEW root \in Comments, cmt[root].pc = "kept"
  PROVE  \A x \in Below(root) : x \in Comments /\ cmt[x].pc = "kept"
<1> DEFINE S == {x \in Comments : cmt[x].pc = "kept"}
<1>1. ClosedIn(cmt, S)  BY DEF ClosedIn
<1>2. S \in SUBSET Comments /\ root \in S  OBVIOUS
<1> HIDE DEF S
<1>3. BelowIn(cmt, root) \subseteq S  BY <1>1, <1>2, BranchClosed
<1> QED  BY <1>3, BelowNow DEF S

Deletion == [pc : {"idle", "collected", "done"}, thread : Threads \cup {NoThread},
             root : Comments \cup {Top}, files : SUBSET Comments]

\* Only the deletion changes, and what it has collected, if it has, is right.
LEMMA DeletionStep ==
  ASSUME IInv, NEW d \in Deleters, NEW r \in Deletion, del' = [del EXCEPT ![d] = r],
         UNCHANGED <<threadVars, cmt, purged, undone, unseen>>,
         r.pc = "collected" => Collected(d)'
  PROVE  IInv'
<1> USE DEF IInv
<1>1. del \in [Deleters -> Deletion]  BY DEF TypeOK, Deletion
<1>2. del' \in [Deleters -> Deletion] /\ del'[d] = r /\ \A e \in Deleters \ {d} : del'[e] = del[e]
  BY <1>1
<1>3. UNCHANGED <<thread, news, follows>>  BY DEF threadVars
<1>4. TypeOK'  BY <1>2, <1>3 DEF TypeOK, Deletion, OnePerNumber, Of
<1>5. Placed'  BY <1>3 DEF Placed, InPlace
<1>6. ASSUME NEW e \in Deleters, del'[e].pc = "collected" PROVE Collected(e)'
  <2>1. CASE e = d  BY <1>2, <1>6, <2>1
  <2>2. CASE e # d
    <3>1. del'[e] = del[e] /\ Collected(e)  BY <1>2, <1>6, <2>2 DEF Collecting
    <3>2. Doomed(e)' = Doomed(e)  BY <3>1, BelowNow, BelowNext DEF Doomed, Kept, Of
    <3> QED  BY <3>1, <3>2 DEF Collected
  <2> QED  BY <2>1, <2>2
<1>7. Collecting'  BY <1>6 DEF Collecting
<1>8. FilesFollowRows'  BY DEF FilesFollowRows
<1> QED  BY <1>4, <1>5, <1>7, <1>8

LEMMA CollectSteps ==
  ASSUME IInv, NEW d \in Deleters,
         \/ \E c \in Comments : CollectComment(d, c)
         \/ \E t \in Threads : CollectThread(d, t)
         \/ DeleteAbort(d)
  PROVE  IInv'
<1> USE DEF IInv
<1>0. del \in [Deleters -> Deletion] /\ cmt \in [Comments -> Row]  BY DEF TypeOK, Deletion, Row
<1>1. ASSUME NEW c \in Comments, CollectComment(d, c) PROVE IInv'
  <2> DEFINE r == [pc |-> "collected", thread |-> cmt[c].thread, root |-> c, files |-> Below(c)]
  <2>1. cmt[c].pc = "kept" /\ del' = [del EXCEPT ![d] = r]
        /\ UNCHANGED <<threadVars, cmt, purged, undone, unseen>>
    BY <1>1 DEF CollectComment, Files
  <2>2. \A x \in Below(c) : x \in Comments /\ cmt[x].pc = "kept" /\ cmt[x].thread = cmt[c].thread
    BY <2>1, BranchKept, BranchInThread
  <2>3. cmt[c].thread \in Threads  BY <2>1 DEF Placed
  <2>4. r \in Deletion  BY <2>2, <2>3 DEF Deletion
  <2>5. del'[d] = r  BY <1>0, <2>1
  <2>6. Doomed(d)' = Below(c)
    BY <2>1, <2>5, BelowNow, BelowNext, ConstantsAssumption DEF Doomed
  <2>7. Collected(d)'  BY <2>1, <2>2, <2>3, <2>5, <2>6 DEF Collected
  <2> HIDE DEF r
  <2> QED  BY <2>1, <2>4, <2>7, DeletionStep
<1>2. ASSUME NEW t \in Threads, CollectThread(d, t) PROVE IInv'
  <2> DEFINE r == [pc |-> "collected", thread |-> t, root |-> Top, files |-> Kept(t)]
  <2>1. del' = [del EXCEPT ![d] = r] /\ UNCHANGED <<threadVars, cmt, purged, undone, unseen>>
    BY <1>2 DEF CollectThread
  <2>2. \A x \in Kept(t) : x \in Comments /\ cmt[x].pc = "kept" /\ cmt[x].thread = t
    BY DEF Kept, Of
  <2>3. r \in Deletion  BY <2>2 DEF Deletion
  <2>4. del'[d] = r  BY <1>0, <2>1
  <2>5. Doomed(d)' = Kept(t)  BY <2>1, <2>4 DEF Doomed, Kept, Of
  <2>6. Collected(d)'  BY <2>1, <2>2, <2>4, <2>5 DEF Collected
  <2> HIDE DEF r
  <2> QED  BY <2>1, <2>3, <2>6, DeletionStep
<1>3. ASSUME DeleteAbort(d) PROVE IInv'
  <2>1. Done \in Deletion /\ Done.pc # "collected"  BY DEF Done, NoDeletion, Deletion
  <2>2. del' = [del EXCEPT ![d] = Done] /\ UNCHANGED <<threadVars, cmt, purged, undone, unseen>>
    BY <1>3 DEF DeleteAbort
  <2> QED  BY <2>1, <2>2, DeletionStep
<1> QED  BY <1>1, <1>2, <1>3

\* What is deleted is kept, of one thread, and takes everything below it along.
LEMMA DoomedRows ==
  ASSUME IInv, NEW d \in Deleters, del[d].pc = "collected", Exists(d)
  PROVE  /\ Doomed(d) \in SUBSET Comments /\ ClosedIn(cmt, Doomed(d))
         /\ \A x \in Doomed(d) : cmt[x].pc = "kept" /\ cmt[x].thread = del[d].thread
<1> USE DEF IInv
<1>1. Collected(d) /\ del[d].root \in Comments \cup {Top}  BY DEF Collecting, TypeOK
<1>2. CASE del[d].root = Top
  <2> DEFINE t == del[d].thread
  <2>1. Doomed(d) = Kept(t)  BY <1>2 DEF Doomed
  <2>2. ClosedIn(cmt, Kept(t))
    BY ConstantsAssumption DEF ClosedIn, Kept, Of, Placed, InPlace
  <2> QED  BY <2>1, <2>2 DEF Kept, Of
<1>3. CASE del[d].root # Top
  <2> DEFINE root == del[d].root
  <2>1. root \in Comments /\ cmt[root].pc = "kept" /\ cmt[root].thread = del[d].thread
    BY <1>1, <1>3 DEF Exists, Collected
  <2>2. Doomed(d) = Below(root) /\ Below(root) = BelowIn(cmt, root)  BY <1>3, BelowNow DEF Doomed
  <2> HIDE DEF root
  <2>3. \A x \in Below(root) : cmt[x].pc = "kept" /\ cmt[x].thread = cmt[root].thread
    BY <2>1, BranchKept, BranchInThread
  <2>4. BelowIn(cmt, root) \in SUBSET Comments /\ ClosedIn(cmt, BelowIn(cmt, root))
    BY <2>1, BranchClosed
  <2> QED  BY <2>1, <2>2, <2>3, <2>4
<1> QED  BY <1>2, <1>3

LEMMA RolledBackStep ==
  ASSUME IInv, NEW d \in Deleters, del[d].pc = "collected",
         del' = [del EXCEPT ![d] = Done], UNCHANGED <<thread, news, follows, cmt, unseen>>,
         purged' = purged \cup del[d].files, undone' = undone \cup del[d].files
  PROVE  IInv'
<1> USE DEF IInv
<1>1. Collected(d) /\ del[d].files \subseteq Comments  BY DEF Collecting, TypeOK
<1>2. /\ del' \in [Deleters -> Deletion] /\ del'[d].pc = "done"
      /\ \A e \in Deleters \ {d} : del'[e] = del[e]
  BY DEF Done, NoDeletion, Deletion, TypeOK
<1>3. purged' \subseteq Comments /\ undone' \subseteq Comments  BY <1>1 DEF TypeOK
<1>4. TypeOK'  BY <1>2, <1>3 DEF TypeOK, Deletion, OnePerNumber, Of
<1>5. Placed'  BY DEF Placed, InPlace
<1>6. ASSUME NEW e \in Deleters, del'[e].pc = "collected" PROVE Collected(e)'
  <2>1. del'[e] = del[e] /\ Collected(e)  BY <1>2, <1>6 DEF Collecting
  <2>2. BelowIn(cmt', del[e].root) = BelowIn(cmt, del[e].root)  OBVIOUS
  <2>3. Below(del[e].root)' = Below(del[e].root)
    BY <2>1, <2>2, BelowNow, BelowNext
  <2>4. Doomed(e)' = Doomed(e)  BY <2>1, <2>3 DEF Doomed, Kept, Of
  <2> QED  BY <2>1, <2>4 DEF Collected
<1>7. \A c \in purged' : cmt'[c].pc \in {"kept", "gone"}  BY <1>1 DEF Collecting, Collected
<1>8. Collecting'  BY <1>6, <1>7 DEF Collecting
<1>9. FilesFollowRows'  BY DEF FilesFollowRows
<1> QED  BY <1>4, <1>5, <1>8, <1>9

\* The rows go: nothing that stays hangs below them or belongs to their thread.
LEMMA RowsGoStep ==
  ASSUME IInv, NEW d \in Deleters, Delete(d), UNCHANGED undone,
         cmt' = [c \in Comments |-> IF c \in Doomed(d) THEN [cmt[c] EXCEPT !.pc = "gone"] ELSE cmt[c]],
         thread' = IF del[d].root = Top THEN [thread EXCEPT ![del[d].thread] = "gone"] ELSE thread
  PROVE  IInv'
<1> USE DEF IInv
<1> DEFINE D == Doomed(d)
           t == del[d].thread
           all == del[d].root = Top
<1> HIDE DEF D, t
<1>0. del[d].pc = "collected" /\ Exists(d)  BY DEF Delete
<1>0a. all => ~\E u \in Followers : <<t, u>> \in follows  BY DEF Delete, t
<1>1. /\ \A c \in Sent(t) : ~all /\ cmt[c].parent \notin D
      /\ purged' = purged \cup del[d].files /\ del' = [del EXCEPT ![d] = Done]
      /\ UNCHANGED <<news, follows, unseen, undone>>
  BY DEF Delete, D, t
<1>2. /\ Collected(d) /\ del[d].files \subseteq Comments
  <2>2. Collected(d)  BY <1>0 DEF Collecting
  <2> QED  BY <2>2 DEF TypeOK
<1>3. /\ D \in SUBSET Comments /\ ClosedIn(cmt, D)
      /\ \A x \in D : cmt[x].pc = "kept" /\ cmt[x].thread = t
  <2> HIDE DEF IInv
  <2> QED  BY <1>0, DoomedRows DEF D, t
<1>4. t \in Threads /\ cmt \in [Comments -> Row]  BY <1>2 DEF Collected, TypeOK, Row, t
<1>5. all => D = Kept(t)  BY DEF Doomed, D, t
<1>6. /\ \A x \in D : /\ cmt'[x].pc = "gone" /\ cmt'[x].thread = cmt[x].thread
                      /\ cmt'[x].parent = cmt[x].parent /\ cmt'[x].num = cmt[x].num
      /\ \A x \in Comments \ D : cmt'[x] = cmt[x]
      /\ cmt' \in [Comments -> Row]
  <2>1. \A x \in Comments : cmt'[x] = IF x \in D THEN [cmt[x] EXCEPT !.pc = "gone"] ELSE cmt[x]
    BY DEF D
  <2>2. \A x \in Comments : cmt[x] \in Row  BY <1>4
  <2>3. \A x \in Comments : cmt'[x] \in Row  BY <2>1, <2>2 DEF Row
  <2>4. cmt' \in [Comments -> Row]  BY <2>3
  <2>5. \A x \in D : cmt'[x] = [cmt[x] EXCEPT !.pc = "gone"] /\ cmt[x] \in Row
    BY <1>3, <2>1, <2>2
  <2>6. \A x \in D : /\ cmt'[x].pc = "gone" /\ cmt'[x].thread = cmt[x].thread
                     /\ cmt'[x].parent = cmt[x].parent /\ cmt'[x].num = cmt[x].num
    <3> SUFFICES ASSUME NEW x \in D
                 PROVE  /\ cmt'[x].pc = "gone" /\ cmt'[x].thread = cmt[x].thread
                        /\ cmt'[x].parent = cmt[x].parent /\ cmt'[x].num = cmt[x].num
      OBVIOUS
    <3>1. cmt'[x] = [cmt[x] EXCEPT !.pc = "gone"] /\ cmt[x] \in Row  BY <2>5
    <3> QED  BY <3>1 DEF Row
  <2> QED  BY <2>1, <2>4, <2>6
<1>7. /\ del' \in [Deleters -> Deletion] /\ del'[d].pc = "done"
      /\ \A e \in Deleters \ {d} : del'[e] = del[e]
  BY <1>1 DEF Done, NoDeletion, Deletion, TypeOK
<1>8. /\ \A x \in Threads : thread'[x] = IF all /\ x = t THEN "gone" ELSE thread[x]
      /\ thread' \in [Threads -> {"none", "inserted", "kept", "gone", "void"}]
  BY <1>4 DEF TypeOK, t
<1>9. TypeOK'
  <2>1. \A x \in Threads : OnePerNumber(x)'
    <3>1. \A x \in Threads : Of(x, {"kept", "sent"})' \subseteq Of(x, {"kept", "sent"})
      BY <1>3, <1>6 DEF Of
    <3>2. \A c \in Comments : cmt'[c].num = cmt[c].num  BY <1>3, <1>6
    <3> QED  BY <3>1, <3>2 DEF TypeOK, OnePerNumber, Of
  <2>2. purged' \subseteq Comments /\ undone' \subseteq Comments /\ unseen' \subseteq Comments
    BY <1>1, <1>2 DEF TypeOK
  <2> QED  BY <1>1, <1>6, <1>7, <1>8, <2>1, <2>2 DEF TypeOK, Row, Deletion
<1>10. Placed'
  <2>1. \A x \in Threads : news'[x] = "told" => thread'[x] \in {"kept", "gone"}
    BY <1>1, <1>8 DEF Placed
  <2>2. ASSUME NEW x \in Threads, NEW u \in Followers, <<x, u>> \in follows'
        PROVE  thread'[x] = "kept"
    <3>1. <<x, u>> \in follows /\ ~(all /\ x = t)  BY <1>0a, <1>1, <2>2
    <3> QED  BY <1>8, <3>1 DEF Placed
  <2>3. ASSUME NEW c \in Comments, cmt'[c].pc \in {"kept", "sent"}
        PROVE  /\ cmt'[c].thread \in Threads /\ thread'[cmt'[c].thread] = "kept"
               /\ cmt'[c].parent # Top => /\ cmt'[c].parent \in Comments
                                          /\ cmt'[cmt'[c].parent].pc = "kept"
                                          /\ cmt'[cmt'[c].parent].thread = cmt'[c].thread
    <3>1. c \notin D /\ cmt'[c] = cmt[c]  BY <1>6, <2>3
    <3>2. /\ cmt[c].thread \in Threads /\ thread[cmt[c].thread] = "kept"
          /\ cmt[c].parent # Top => /\ cmt[c].parent \in Comments /\ cmt[cmt[c].parent].pc = "kept"
                                    /\ cmt[cmt[c].parent].thread = cmt[c].thread
      BY <2>3, <3>1 DEF Placed, InPlace
    <3>3. all => cmt[c].thread # t
      BY <1>1, <1>5, <2>3, <3>1 DEF Kept, Sent, Of
    <3>4. ASSUME cmt[c].parent # Top PROVE cmt[c].parent \notin D
      <4>1. CASE cmt[c].pc = "kept"  BY <1>3, <3>1, <4>1 DEF ClosedIn
      <4>2. CASE cmt[c].pc = "sent"
        BY <1>1, <1>3, <3>2, <3>4, <4>2 DEF Sent, Of
      <4> QED  BY <2>3, <3>1, <4>1, <4>2
    <3>5. thread'[cmt[c].thread] = "kept"  BY <1>8, <3>2, <3>3
    <3>6. ASSUME cmt[c].parent # Top PROVE cmt'[cmt[c].parent] = cmt[cmt[c].parent]
      BY <1>6, <3>2, <3>4, <3>6
    <3> QED  BY <3>1, <3>2, <3>5, <3>6
  <2>4. \A c \in Comments : InPlace(c)'  BY <2>3 DEF InPlace
  <2>5. \A c \in Comments : cmt'[c].pc # "free" => cmt'[c].thread \in Threads
    <3>1. \A c \in Comments : cmt'[c].thread = cmt[c].thread
                              /\ (cmt[c].pc = "free" => cmt'[c].pc = "free")
      BY <1>3, <1>6
    <3> QED  BY <3>1 DEF Placed
  <2> QED  BY <2>1, <2>2, <2>4, <2>5 DEF Placed
<1>11. ASSUME NEW e \in Deleters, del'[e].pc = "collected" PROVE Collected(e)'
  <2>1. del'[e] = del[e] /\ del[e].pc = "collected"  BY <1>7, <1>11
  <2>2. Collected(e) /\ del[e].root \in Comments \cup {Top} /\ del[e].files \subseteq Comments
    BY <2>1 DEF Collecting, TypeOK
  <2>3. Doomed(e)' \subseteq Doomed(e) /\ Doomed(e) \ D \subseteq Doomed(e)'
    <3>1. CASE del[e].root = Top
      <4>1. Doomed(e) = Kept(del[e].thread) /\ Doomed(e)' = Kept(del[e].thread)'
        BY <2>1, <3>1 DEF Doomed, Kept, Of
      <4> QED  BY <1>6, <2>1, <4>1 DEF Kept, Of
    <3>2. CASE del[e].root # Top
      <4> DEFINE root == del[e].root
      <4>1. root \in Comments  BY <2>2, <3>2
      <4>2. \A c \in Comments : cmt'[c].pc = "kept" => cmt[c].pc = "kept" /\ cmt'[c].parent = cmt[c].parent
        BY <1>6
      <4>3. \A c \in Comments \ D :
              cmt[c].pc = "kept" => cmt'[c].pc = "kept" /\ cmt'[c].parent = cmt[c].parent
        BY <1>6
      <4>4. BelowIn(cmt', root) \subseteq BelowIn(cmt, root)
            /\ BelowIn(cmt, root) \ D \subseteq BelowIn(cmt', root)
        <5> HIDE DEF root
        <5> QED  BY <1>3, <4>1, <4>2, <4>3, BranchShrinks
      <4>5. Doomed(e) = BelowIn(cmt, root) /\ Doomed(e)' = BelowIn(cmt', root)
        BY <2>1, <3>2, BelowNow, BelowNext DEF Doomed
      <4> QED  BY <4>4, <4>5
    <3> QED  BY <3>1, <3>2
  <2>4. \A f \in Comments : /\ cmt[f].pc \in {"kept", "gone"} => cmt'[f].pc \in {"kept", "gone"}
                            /\ cmt'[f].thread = cmt[f].thread
                            /\ cmt'[f].pc = "kept" => cmt[f].pc = "kept" /\ f \notin D
    BY <1>3, <1>6
  <2>5. del[e].root # Top => /\ cmt'[del[e].root].pc \in {"kept", "gone"}
                             /\ cmt'[del[e].root].thread = del[e].thread
    BY <2>2, <2>4 DEF Collected
  <2>6. \A f \in del[e].files : /\ cmt'[f].pc \in {"kept", "gone"} /\ cmt'[f].thread = del[e].thread
                                /\ cmt'[f].pc = "kept" => f \in Doomed(e)'
    BY <2>2, <2>3, <2>4 DEF Collected
  <2>7. Doomed(e) \subseteq Comments  BY <2>2, BelowNow, BranchClosed DEF Doomed, Kept, Of
  <2>8. \A x \in Doomed(e)' : cmt'[x].pc = "kept" => x \in del[e].files \cup unseen'
    BY <1>1, <2>2, <2>3, <2>4, <2>7 DEF Collected
  <2> QED  BY <2>1, <2>2, <2>5, <2>6, <2>8 DEF Collected
<1>12. \A c \in purged' : cmt'[c].pc \in {"kept", "gone"}
  <2>1. \A c \in purged' : c \in Comments /\ cmt[c].pc \in {"kept", "gone"}
    BY <1>1, <1>2 DEF Collecting, Collected, TypeOK
  <2> QED  BY <1>6, <2>1
<1>13. Collecting'  BY <1>11, <1>12 DEF Collecting
<1>14. FilesFollowRows'
  <2>1. \A x \in D : x \in purged' \cup unseen'  BY <1>1, <1>2, <1>3 DEF Collected, D
  <2>2. \A f \in del[d].files : cmt[f].pc = "kept" => f \in D  BY <1>2 DEF Collected, D
  <2> SUFFICES ASSUME NEW c \in Comments
               PROVE  /\ cmt'[c].pc = "gone" => c \in purged' \cup unseen'
                      /\ cmt'[c].pc = "kept" => c \notin purged' \ undone'
    BY DEF FilesFollowRows
  <2>3. CASE c \in D  BY <1>6, <2>1, <2>3
  <2>4. CASE c \notin D
    <3>1. cmt'[c] = cmt[c]  BY <1>6, <2>4
    <3>2. /\ cmt[c].pc = "gone" => c \in purged \cup unseen
          /\ cmt[c].pc = "kept" => c \notin purged \ undone
      BY DEF FilesFollowRows
    <3>3. purged' = purged \cup del[d].files /\ unseen' = unseen /\ undone' = undone  BY <1>1
    <3> QED  BY <2>2, <2>4, <3>1, <3>2, <3>3
  <2> QED  BY <2>3, <2>4
<1> QED  BY <1>9, <1>10, <1>13, <1>14

LEMMA DeleteStep ==
  ASSUME IInv, NEW d \in Deleters, Delete(d)
  PROVE  IInv'
<1>1. CASE undone' = undone \cup del[d].files /\ UNCHANGED <<cmt, thread>>
  <2>1. /\ del[d].pc = "collected" /\ del' = [del EXCEPT ![d] = Done]
        /\ purged' = purged \cup del[d].files /\ UNCHANGED <<thread, news, follows, cmt, unseen>>
    BY <1>1 DEF Delete
  <2> QED  BY <1>1, <2>1, RolledBackStep
<1>2. CASE ~(undone' = undone \cup del[d].files /\ UNCHANGED <<cmt, thread>>)
  <2>1. /\ UNCHANGED undone
        /\ cmt' = [c \in Comments |-> IF c \in Doomed(d) THEN [cmt[c] EXCEPT !.pc = "gone"] ELSE cmt[c]]
        /\ thread' = IF del[d].root = Top THEN [thread EXCEPT ![del[d].thread] = "gone"] ELSE thread
    BY <1>2 DEF Delete
  <2> QED  BY <2>1, RowsGoStep
<1> QED  BY <1>1, <1>2

------------------------------------------------------------------------------
(* The theorems *)

LEMMA NextIInv == IInv /\ [ServerNext \/ CommentNext]_serverVars => IInv'
<1> SUFFICES ASSUME IInv, [ServerNext \/ CommentNext]_serverVars PROVE IInv'
  OBVIOUS
<1>1. CASE ServerNext
  <2>1. ASSUME NEW t \in Threads, ThreadInsert(t) \/ ThreadEnd(t) \/ TellClass(t)
        PROVE  IInv'
    BY <2>1, ThreadSteps
  <2>2. ASSUME NEW t \in Threads, NEW u \in Followers, Follow(u, t) \/ Unfollow(u, t)
        PROVE  IInv'
    BY <2>2, ThreadSteps
  <2>3. ASSUME NEW c \in Comments, CommentCommit(c) \/ CommentAbort(c) PROVE IInv'
    BY <2>3, CommitStep, AbortStep
  <2>4. ASSUME NEW d \in Deleters,
               (\E c \in Comments : CollectComment(d, c)) \/ (\E t \in Threads : CollectThread(d, t))
               \/ Delete(d) \/ DeleteAbort(d)
        PROVE  IInv'
    BY <2>4, CollectSteps, DeleteStep
  <2> QED  BY <1>1, <2>1, <2>2, <2>3, <2>4 DEF ServerNext
<1>2. CASE CommentNext
  BY <1>2, NumberStep, SendStep DEF CommentNext
<1>3. CASE UNCHANGED serverVars
  <2>1. UNCHANGED <<thread, news, follows, cmt, del, purged, undone, unseen>>
    BY <1>3 DEF serverVars, threadVars, deletionVars
  <2>2. QuietRows  BY <2>1 DEF QuietRows
  <2>3. TypeOK' /\ Placed'
    BY <2>1 DEF IInv, TypeOK, Placed, InPlace, OnePerNumber, Of
  <2>4. Collecting' /\ FilesFollowRows'  BY <2>1, <2>2, Quiet
  <2> QED  BY <2>3, <2>4 DEF IInv
<1> QED  BY <1>1, <1>2, <1>3

\* IInv always holds.
THEOREM Inductive == ServerSpec => []IInv
BY InitIInv, NextIInv, PTL DEF ServerSpec

\* The rows of thread.service.ts and comment.service.ts keep their shapes, and however many
\* comments are written at once, no two of a thread have the same number.
THEOREM TypeCorrect == ServerSpec => []TypeOK
<1>1. IInv => TypeOK  BY DEF IInv
<1> QED  BY <1>1, Inductive, PTL

\* The rows' places say that nothing is orphaned.
LEMMA OrphansExcluded == ASSUME IInv PROVE NoOrphans
<1>1. \A f \in follows : thread[f[1]] = "kept"
  <2> SUFFICES ASSUME NEW f \in follows PROVE thread[f[1]] = "kept"
    OBVIOUS
  <2>1. PICK t \in Threads, u \in Followers : f = <<t, u>>  BY DEF IInv, TypeOK
  <2>2. f[1] = t  BY <2>1
  <2> QED  BY <2>1, <2>2 DEF IInv, Placed
<1> QED  BY <1>1 DEF IInv, Placed, InPlace, NoOrphans, Of

\* Nobody is told of a thread that was not kept; followers and comments never outlive their
\* thread, nor an answer the comment it answers.
THEOREM NothingIsOrphaned == ServerSpec => []NoOrphans
<1>1. IInv => NoOrphans  BY OrphansExcluded
<1> QED  BY <1>1, Inductive, PTL

\* deleteComment and deleteThread destroy the files of the rows they delete, but for comments
\* committed since they collected; a row that stays loses its files only to a rollback.
THEOREM FilesGoWithRows == ServerSpec => []FilesFollowRows
<1>1. IInv => FilesFollowRows  BY DEF IInv
<1> QED  BY <1>1, Inductive, PTL
------------------------------------------------------------------------------
(* The page of a thread *)

\* A comment that was broadcast has had its number, its thread and its parent ever since.
Broadcast(c) == cmt[c].pc \in {"sent", "kept", "gone", "void"}

LoadRow == [pc : {"none", "asked", "answered", "shown"}, got : SUBSET Comments]

\* A page holds broadcast comments; what it has loaded, or not yet, was of its thread.
Loaded(u, c) ==
  cmt[c].pc \in {"kept", "gone"} /\ cmt[c].parent = Top /\ cmt[c].thread = at[u]
HeldBy(u) ==
  /\ \A c \in view[u] \cup InInbox(u) : Broadcast(c)
  /\ \A p \in Pages : /\ \A c \in load[u][p].got : Loaded(u, c)
                      /\ load[u][p].pc # "answered" => load[u][p].got = {}
                      /\ at[u] = NoThread => load[u][p].pc = "none"
  /\ \A c \in later[u] : Loaded(u, c)

\* As long as the list only grows and the pages are read in their order, what lay beyond the
\* last page read lies beyond every page read.
ApartBy(u) ==
  ~Shifted(u) => /\ \A p, q \in Pages : q < p /\ Read(u, p) => Read(u, q)
                 /\ \A p \in Pages : Read(u, p) => \A c \in later[u] : Beyond(p, c)

\* A comment the page has under the same number, of another thread or gone for good.
Twin(u, c) ==
  \E d \in view[u] : /\ cmt[d].num = cmt[c].num
                     /\ cmt[d].pc \in {"gone", "void"} \/ cmt[d].thread # cmt[c].thread

\* A page that has read and is in its room is short of nothing but what is still on its way to
\* it, what lies on later pages, and what pages jumped over.
ReachedBy(u, c) ==
  \/ c \in view[u] \cup slipped[u] \cup later[u] \cup InInbox(u)
  \/ \E p \in Pages : c \in load[u][p].got
  \/ c \in jumped[u] /\ Shifted(u)
  \/ Twin(u, c)
HearingBy(u) ==
  (\E p \in Pages : Read(u, p)) /\ at[u] \in room[u] =>
    \A c \in Of(at[u], {"sent", "kept"}) : cmt[c].parent = Top => ReachedBy(u, c)

Following(u) == HeldBy(u) /\ ApartBy(u) /\ HearingBy(u)

\* The number a request carries is that of the comment its writer saw.
Intending ==
  \A c \in Comments :
    /\ cmt[c].pc = "free" => intent[c] = Top
    /\ cmt[c].pc \in {"free", "numbered"} => cmt[c].parent = Top
    /\ cmt[c].pc # "free" => cmt[c].num > 0
    /\ cmt[c].pc \in {"sent", "kept"} /\ cmt[c].parent = Top => cmt[c].ref = 0
    /\ intent[c] # Top => Broadcast(intent[c]) /\ cmt[c].ref = cmt[intent[c]].num

PageIInv ==
  /\ IInv /\ PageTypeOK /\ Intending /\ AnswersWhereWritten
  /\ \A u \in Users : Following(u)

\* The elements of a sequence, after one was added or taken.
ElementsOf(s) == {s[i] : i \in DOMAIN s}

LEMMA AppendedElements ==
  ASSUME NEW S, NEW s \in Seq(S), NEW e \in S
  PROVE  Append(s, e) \in Seq(S) /\ ElementsOf(Append(s, e)) = ElementsOf(s) \cup {e}
<1> DEFINE t == Append(s, e)
<1>1. Len(s) \in Nat /\ DOMAIN s = 1..Len(s)  BY LenProperties
<1>2. /\ t \in Seq(S) /\ Len(t) = Len(s) + 1 /\ t[Len(s) + 1] = e
      /\ \A i \in 1..Len(s) : t[i] = s[i]
  BY AppendProperties
<1> HIDE DEF t
<1>3. DOMAIN t = 1..Len(s) + 1  BY <1>2, LenProperties
<1>4. \A i \in DOMAIN t : i \in DOMAIN s \/ i = Len(s) + 1  BY <1>1, <1>3
<1>5. Len(s) + 1 \in DOMAIN t /\ \A i \in DOMAIN s : i \in DOMAIN t /\ t[i] = s[i]
  BY <1>1, <1>2, <1>3
<1>6. ElementsOf(t) = ElementsOf(s) \cup {e}  BY <1>2, <1>4, <1>5 DEF ElementsOf
<1> QED  BY <1>2, <1>6 DEF t

LEMMA TakenElements ==
  ASSUME NEW S, NEW s \in Seq(S), s # <<>>, NEW t, t = Tail(s)
  PROVE  /\ t \in Seq(S) /\ Head(s) \in S
         /\ ElementsOf(s) = ElementsOf(t) \cup {Head(s)}
<1>1. Len(s) \in Nat /\ DOMAIN s = 1..Len(s)  BY LenProperties
<1>2. /\ t \in Seq(S) /\ Head(s) \in S /\ Len(t) = Len(s) - 1
      /\ \A i \in 1..Len(t) : t[i] = s[i + 1]
  BY HeadTailProperties
<1>3. Len(s) # 0 /\ Head(s) = s[1]  BY EmptySeq
<1>4. DOMAIN t = 1..Len(s) - 1  BY <1>2, LenProperties
<1>5. \A i \in DOMAIN t : i + 1 \in DOMAIN s /\ t[i] = s[i + 1]  BY <1>1, <1>2, <1>4
<1>6. ASSUME NEW j \in DOMAIN s PROVE j = 1 \/ (j - 1 \in DOMAIN t /\ t[j - 1] = s[j])
  <2>1. j = 1 \/ (j - 1 \in 1..Len(t) /\ j = (j - 1) + 1)  BY <1>1, <1>2
  <2> QED  BY <1>2, <1>4, <2>1
<1>7. 1 \in DOMAIN s  BY <1>1, <1>3
<1>8. ElementsOf(s) \subseteq ElementsOf(t) \cup {s[1]}  BY <1>6 DEF ElementsOf
<1>9. ElementsOf(t) \cup {s[1]} \subseteq ElementsOf(s)  BY <1>5, <1>7 DEF ElementsOf
<1> QED  BY <1>2, <1>3, <1>8, <1>9

\* No two comments of a thread that are in the database share a number.
LEMMA OneOwner ==
  ASSUME IInv, NEW c \in Comments, NEW d \in Comments,
         cmt[c].pc \in {"sent", "kept"}, cmt[d].pc \in {"sent", "kept"},
         cmt[c].thread = cmt[d].thread, cmt[c].num = cmt[d].num
  PROVE  c = d
<1>1. cmt[c].thread \in Threads  BY DEF IInv, Placed, InPlace
<1> QED  BY <1>1 DEF IInv, TypeOK, OnePerNumber, Of

LEMMA PageShapes ==
  ASSUME PageTypeOK, NEW u \in Users
  PROVE  /\ at[u] \in Threads \cup {NoThread} /\ view[u] \subseteq Comments
         /\ load[u] \in [Pages -> LoadRow]
         /\ \A p \in Pages : load[u][p] \in LoadRow /\ load[u][p].got \subseteq Comments
         /\ joining[u] \subseteq Threads /\ room[u] \subseteq Threads
         /\ inbox[u] \in Seq(Comments) /\ InInbox(u) \subseteq Comments
         /\ slipped[u] \subseteq Comments /\ later[u] \subseteq Comments /\ jumped[u] \subseteq Comments
<1>1. inbox[u] \in Seq(Comments)  BY DEF PageTypeOK
<1>2. InInbox(u) \subseteq Comments  BY <1>1, ElementOfSeq, LenProperties DEF InInbox
<1>3. load[u] \in [Pages -> LoadRow]  BY DEF PageTypeOK, LoadRow
<1>4. \A p \in Pages : load[u][p] \in LoadRow  BY <1>3
<1>5. \A p \in Pages : load[u][p].got \subseteq Comments  BY <1>4 DEF LoadRow
<1> QED  BY <1>1, <1>2, <1>3, <1>4, <1>5 DEF PageTypeOK

\* What has been broadcast only goes on.
Advances ==
  \A c \in Comments : Broadcast(c) =>
    /\ cmt'[c].thread = cmt[c].thread /\ cmt'[c].num = cmt[c].num
    /\ cmt'[c].ref = cmt[c].ref /\ cmt'[c].parent = cmt[c].parent
    /\ \/ cmt'[c].pc = cmt[c].pc
       \/ cmt[c].pc = "sent" /\ cmt'[c].pc \in {"kept", "void"}
       \/ cmt[c].pc = "kept" /\ cmt'[c].pc = "gone"

\* A comment keeps its distance from the top of a list that nothing is deleted from.
Whole(t) == ~\E c \in Comments : cmt[c].pc = "gone" /\ cmt[c].parent = Top /\ cmt[c].thread = t
SameOrder == \A c \in Comments : cmt[c].pc = "kept" => older'[c] = older[c]

LEMMA PlaceIsNatural ==
  ASSUME NEW c \in Comments
  PROVE  IsFiniteSet(Newer(c)) /\ Place(c) \in Nat
<1>1. Newer(c) \in SUBSET Comments  BY DEF Newer, Roots, Kept, Of
<1> QED  BY <1>1, ConstantsAssumption, FS_Subset, FS_CardinalityType DEF Place

LEMMA PlaceGrows ==
  ASSUME Advances, SameOrder, NEW c \in Comments, Broadcast(c), Whole(cmt[c].thread)'
  PROVE  Place(c) \in Nat /\ Place(c)' \in Nat /\ Place(c) <= Place(c)'
<1>1. cmt'[c].thread = cmt[c].thread  BY DEF Advances
<1>2. PICK t : t = cmt[c].thread  OBVIOUS
<1>3. Whole(t)'  BY <1>1, <1>2 DEF Whole
<1>4. ASSUME NEW d \in Newer(c) PROVE d \in Newer(c)'
  <2>1. /\ d \in Comments /\ cmt[d].pc = "kept" /\ cmt[d].parent = Top /\ cmt[d].thread = t
        /\ d = c \/ c \in older[d]
    BY <1>2 DEF Newer, Roots, Kept, Of
  <2>2. /\ cmt'[d].pc \in {"kept", "gone"} /\ cmt'[d].parent = Top /\ cmt'[d].thread = t
        /\ older'[d] = older[d]
    BY <2>1 DEF Advances, SameOrder, Broadcast
  <2>3. cmt'[d].pc = "kept"  BY <1>3, <2>1, <2>2 DEF Whole
  <2> QED  BY <1>1, <1>2, <2>1, <2>2, <2>3 DEF Newer, Roots, Kept, Of
<1>5. Newer(c)' \in SUBSET Comments /\ Newer(c) \in SUBSET Comments
  BY DEF Newer, Roots, Kept, Of
<1>6. IsFiniteSet(Newer(c)') /\ IsFiniteSet(Newer(c))  BY <1>5, ConstantsAssumption, FS_Subset
<1>7. Cardinality(Newer(c)) <= Cardinality(Newer(c)')  BY <1>4, <1>6, FS_Subset
<1> QED  BY <1>6, <1>7, FS_CardinalityType DEF Place

\* Pages of the same size one after the other.
LEMMA PagesGrow ==
  ASSUME NEW p \in Nat, NEW q \in Nat, q <= p, NEW s \in Nat
  PROVE  q * s \in Nat /\ p * s \in Nat /\ q * s <= p * s
<1>1. PICK k \in Nat : p = q + k  OBVIOUS
<1>2. (q + k) * s = q * s + k * s  BY SMT
<1>3. k * s \in Nat /\ q * s \in Nat  BY SMT
<1> QED  BY <1>1, <1>2, <1>3

\* What the pages read keep apart stays apart while nothing is read.
LEMMA ApartWaits ==
  ASSUME PageIInv, Advances, SameOrder, NEW u \in Users,
         at'[u] = at[u], later'[u] = later[u], outran'[u] = outran[u],
         \A p \in Pages : Read(u, p)' <=> Read(u, p)
  PROVE  ApartBy(u)' /\ (Shifted(u) => Shifted(u)')
<1>1. ApartBy(u) /\ HeldBy(u) /\ later[u] \subseteq Comments
  BY PageShapes DEF PageIInv, Following
<1>2. Shifted(u) => Shifted(u)'
  <2> SUFFICES ASSUME NEW c \in Comments, cmt[c].pc = "gone", cmt[c].parent = Top, cmt[c].thread = at[u]
               PROVE  cmt'[c].pc = "gone" /\ cmt'[c].parent = Top /\ cmt'[c].thread = at[u]
    BY DEF Shifted
  <2> QED  BY DEF Advances, Broadcast
<1>3. ASSUME ~Shifted(u)', NEW p \in Pages, Read(u, p), NEW c \in later[u] PROVE Beyond(p, c)'
  <2>1. Beyond(p, c) /\ Loaded(u, c) /\ c \in Comments  BY <1>1, <1>2, <1>3 DEF ApartBy, HeldBy
  <2>2. Broadcast(c) /\ cmt[c].thread = at[u]  BY <2>1 DEF Loaded, Broadcast
  <2>3. cmt'[c].thread = at[u]  BY <2>1, <2>2 DEF Advances
  <2>4. Whole(cmt[c].thread)'  BY <1>3, <2>3 DEF Whole, Shifted
  <2>5. Place(c) \in Nat /\ Place(c)' \in Nat /\ Place(c) <= Place(c)'
    BY <2>1, <2>2, <2>4, PlaceGrows
  <2>6. p * PageSize \in Nat
    <3>1. p \in Nat /\ PageSize \in Nat  BY PageAssumption DEF Pages
    <3> QED  BY <3>1, PagesGrow
  <2> QED  BY <2>1, <2>5, <2>6 DEF Beyond
<1> QED  BY <1>1, <1>2, <1>3 DEF ApartBy

\* A page that does nothing stays as complete as it was.
LEMMA PageWaits ==
  ASSUME PageIInv, Advances, SameOrder, NEW u \in Users,
         /\ at'[u] = at[u] /\ view'[u] = view[u] /\ load'[u] = load[u] /\ room'[u] = room[u]
         /\ slipped'[u] = slipped[u] /\ later'[u] = later[u] /\ jumped'[u] = jumped[u]
         /\ outran'[u] = outran[u],
         InInbox(u) \subseteq InInbox(u)', \A c \in InInbox(u)' : Broadcast(c)',
         \A c \in Comments :
           /\ cmt'[c].pc \in {"sent", "kept"} /\ cmt[c].pc \notin {"sent", "kept"}
           /\ cmt'[c].thread \in room[u]
           => c \in InInbox(u)'
  PROVE  Following(u)'
<1>1. Following(u)  BY DEF PageIInv
<1>2. /\ view[u] \subseteq Comments /\ \A p \in Pages : load[u][p].got \subseteq Comments
      /\ later[u] \subseteq Comments
  BY PageShapes DEF PageIInv
<1>3. \A c \in Comments : Broadcast(c) => Broadcast(c)'  BY DEF Advances, Broadcast
<1>a. \A c \in Comments : Loaded(u, c) => Loaded(u, c)'  BY DEF Advances, Broadcast, Loaded
<1>b. \A p \in Pages : Read(u, p)' <=> Read(u, p)  BY DEF Read
<1>4. HeldBy(u)'
  <2>1. \A c \in view[u] : Broadcast(c)'  BY <1>1, <1>2, <1>3 DEF Following, HeldBy
  <2>2. \A c \in later[u] : Loaded(u, c)'  BY <1>1, <1>2, <1>a DEF Following, HeldBy
  <2>3. \A p \in Pages : /\ \A c \in load[u][p].got : Loaded(u, c)'
                         /\ load[u][p].pc # "answered" => load[u][p].got = {}
                         /\ at[u] = NoThread => load[u][p].pc = "none"
    BY <1>1, <1>2, <1>a DEF Following, HeldBy
  <2> QED  BY <2>1, <2>2, <2>3 DEF HeldBy
<1>5. ASSUME NEW c \in Comments, Broadcast(c), Twin(u, c) PROVE Twin(u, c)'
  <2>1. PICK d \in view[u] : /\ cmt[d].num = cmt[c].num
                             /\ cmt[d].pc \in {"gone", "void"} \/ cmt[d].thread # cmt[c].thread
    BY <1>5 DEF Twin
  <2>2. d \in Comments /\ Broadcast(d)  BY <1>1, <1>2 DEF Following, HeldBy
  <2>3. /\ cmt'[d].num = cmt[d].num /\ cmt'[d].thread = cmt[d].thread
        /\ cmt[d].pc \in {"gone", "void"} => cmt'[d].pc = cmt[d].pc
        /\ cmt'[c].num = cmt[c].num /\ cmt'[c].thread = cmt[c].thread
    BY <1>5, <2>2 DEF Advances
  <2> QED  BY <2>1, <2>3 DEF Twin
<1>6. ApartBy(u)' /\ (Shifted(u) => Shifted(u)')
  BY <1>b, ApartWaits
<1>7. HearingBy(u)'
  <2> SUFFICES ASSUME \E p \in Pages : Read(u, p), at[u] \in room[u],
                      NEW c \in Of(at[u], {"sent", "kept"})', cmt'[c].parent = Top
               PROVE  ReachedBy(u, c)'
    BY <1>b DEF HearingBy, Of
  <2>1. c \in Comments /\ cmt'[c].pc \in {"sent", "kept"} /\ cmt'[c].thread = at[u]  BY DEF Of
  <2>2. CASE cmt[c].pc \notin {"sent", "kept"}  BY <2>1, <2>2 DEF ReachedBy
  <2>3. CASE cmt[c].pc \in {"sent", "kept"}
    <3>1. Broadcast(c) /\ cmt[c].thread = at[u] /\ cmt[c].parent = Top
      BY <2>1, <2>3 DEF Broadcast, Advances
    <3>2. ReachedBy(u, c)  BY <1>1, <2>1, <2>3, <3>1 DEF Following, HearingBy, Of
    <3> QED  BY <1>5, <1>6, <2>1, <3>1, <3>2 DEF ReachedBy
  <2> QED  BY <2>2, <2>3
<1> QED  BY <1>4, <1>6, <1>7 DEF Following
\* What the server does by itself: rows are committed, rolled back and deleted.
Settles ==
  \A c \in Comments :
    /\ cmt'[c].thread = cmt[c].thread /\ cmt'[c].num = cmt[c].num
    /\ cmt'[c].ref = cmt[c].ref /\ cmt'[c].parent = cmt[c].parent
    /\ \/ cmt'[c].pc = cmt[c].pc
       \/ cmt[c].pc = "sent" /\ cmt'[c].pc = "kept"
       \/ cmt[c].pc = "kept" /\ cmt'[c].pc = "gone"
       \/ cmt[c].pc \in {"numbered", "sent"} /\ cmt'[c].pc = "void"

LEMMA ServerSettles == IInv /\ ServerNext => Settles
<1> SUFFICES ASSUME IInv, ServerNext PROVE Settles  OBVIOUS
<1>1. cmt \in [Comments -> Row]  BY DEF IInv, TypeOK, Row
<1>2. CASE cmt' = cmt  BY <1>2 DEF Settles
<1>3. ASSUME NEW c \in Comments, CommentCommit(c) \/ CommentAbort(c) PROVE Settles
  <2>1. \/ cmt[c].pc = "sent" /\ cmt' = [cmt EXCEPT ![c].pc = "kept"]
        \/ cmt[c].pc \in {"numbered", "sent"} /\ cmt' = [cmt EXCEPT ![c].pc = "void"]
    BY <1>3 DEF CommentCommit, CommentAbort
  <2> QED  BY <1>1, <2>1 DEF Settles, Row
<1>4. ASSUME NEW d \in Deleters, Delete(d) PROVE Settles
  <2>1. \/ cmt' = [c \in Comments |-> IF c \in Doomed(d) THEN [cmt[c] EXCEPT !.pc = "gone"] ELSE cmt[c]]
        \/ cmt' = cmt
    BY <1>4 DEF Delete
  <2>2. \A x \in Doomed(d) : cmt[x].pc = "kept"  BY <1>4, DoomedRows DEF Delete
  <2> QED  BY <1>1, <1>2, <2>1, <2>2 DEF Settles, Row
<1>5. (\E t \in Threads : ThreadInsert(t) \/ ThreadEnd(t) \/ TellClass(t)) => cmt' = cmt
  BY DEF ThreadInsert, ThreadEnd, TellClass
<1>6. (\E t \in Threads, u \in Followers : Follow(u, t) \/ Unfollow(u, t)) => cmt' = cmt
  BY DEF Follow, Unfollow
<1>7. \A d \in Deleters : (\E c \in Comments : CollectComment(d, c))
                          \/ (\E t \in Threads : CollectThread(d, t)) \/ DeleteAbort(d) => cmt' = cmt
  BY DEF CollectComment, CollectThread, DeleteAbort
<1> QED  BY <1>2, <1>3, <1>4, <1>5, <1>6, <1>7 DEF ServerNext

\* The writers' intentions are served or not, whatever is settled.
LEMMA IntendingSettles ==
  ASSUME PageIInv, Settles, intent' = intent
  PROVE  Intending' /\ AnswersWhereWritten'
<1>1. intent \in [Comments -> Comments \cup {Top}]  BY DEF PageIInv, PageTypeOK
<1>2. ASSUME NEW c \in Comments, intent[c] # Top
      PROVE  /\ intent[c] \in Comments /\ Broadcast(intent[c])' /\ cmt'[c].ref = cmt'[intent[c]].num
             /\ cmt[intent[c]].pc \in {"gone", "void"} => cmt'[intent[c]].pc \in {"gone", "void"}
  <2>1. intent[c] \in Comments /\ Broadcast(intent[c]) /\ cmt[c].ref = cmt[intent[c]].num
    BY <1>1, <1>2 DEF PageIInv, Intending
  <2> QED  BY <2>1 DEF Settles, Broadcast
<1>3. Intending'
  <2>1. ASSUME NEW c \in Comments
        PROVE  /\ cmt'[c].pc = "free" => intent[c] = Top
               /\ cmt'[c].pc \in {"free", "numbered"} => cmt'[c].parent = Top
               /\ cmt'[c].pc # "free" => cmt'[c].num > 0
               /\ cmt'[c].pc \in {"sent", "kept"} /\ cmt'[c].parent = Top => cmt'[c].ref = 0
    BY DEF PageIInv, Intending, Settles
  <2> QED  BY <1>2, <2>1 DEF Intending
<1>4. AnswersWhereWritten'
  <2> SUFFICES ASSUME NEW c \in Comments, cmt'[c].pc \in {"sent", "kept"}, intent[c] # Top
               PROVE  \/ cmt'[c].parent = intent[c]
                      \/ cmt'[intent[c]].pc \in {"gone", "void"}
                      \/ cmt'[intent[c]].thread # cmt'[c].thread
    BY DEF AnswersWhereWritten
  <2>1. cmt[c].pc \in {"sent", "kept"}  BY DEF Settles
  <2>2. \/ cmt[c].parent = intent[c]
        \/ cmt[intent[c]].pc \in {"gone", "void"}
        \/ cmt[intent[c]].thread # cmt[c].thread
    BY <2>1 DEF PageIInv, AnswersWhereWritten
  <2> QED  BY <1>2, <2>2 DEF Settles
<1> QED  BY <1>3, <1>4

LEMMA PageInitIInv == PageInit => PageIInv
<1> SUFFICES ASSUME PageInit PROVE PageIInv  OBVIOUS
<1>1. IInv /\ \A c \in Comments : cmt[c] = Unwritten  BY InitIInv DEF PageInit, Init
<1>2. \A u \in Users : /\ at[u] = NoThread /\ view[u] = {} /\ load[u] = NotLoaded /\ later[u] = {}
                       /\ room[u] = {} /\ inbox[u] = <<>> /\ slipped[u] = {}
  BY DEF PageInit
<1>b. NotLoaded \in [Pages -> LoadRow]
      /\ \A p \in Pages : NotLoaded[p].pc = "none" /\ NotLoaded[p].got = {}
  BY DEF NotLoaded, LoadRow
<1>3. PageTypeOK
  <2>1. load \in [Users -> [Pages -> LoadRow]]  BY <1>b DEF PageInit
  <2>2. moves \in 0..MaxMoves  BY PageAssumption DEF PageInit
  <2> QED  BY <2>1, <2>2 DEF PageInit, PageTypeOK, LoadRow
<1>4. Intending /\ AnswersWhereWritten
  BY <1>1 DEF PageInit, Intending, AnswersWhereWritten, Unwritten
<1>5. ASSUME NEW u \in Users PROVE Following(u)
  <2>1. InInbox(u) = {}  BY <1>2 DEF InInbox
  <2>2. \A p \in Pages : load[u][p].pc = "none" /\ load[u][p].got = {}  BY <1>2, <1>b
  <2>3. HeldBy(u)  BY <1>2, <2>1, <2>2 DEF HeldBy
  <2>4. \A p \in Pages : ~Read(u, p)  BY <2>2 DEF Read
  <2> QED  BY <2>3, <2>4 DEF Following, ApartBy, HearingBy
<1> QED  BY <1>1, <1>3, <1>4, <1>5 DEF PageIInv

\* The server settles rows and no page moves.
LEMMA SettledStep ==
  ASSUME PageIInv, IInv', Settles, UNCHANGED pageVars
  PROVE  PageIInv'
<1>1. UNCHANGED <<at, post, count, view, load, joining, room, inbox, moves, older, slipped, later,
                  jumped, outran, intent>>
  BY DEF pageVars, pagingVars
<1>2. PageTypeOK'  BY <1>1 DEF PageIInv, PageTypeOK
<1>3. Intending' /\ AnswersWhereWritten'  BY <1>1, IntendingSettles
<1>4. Advances  BY DEF Advances, Settles, Broadcast
<1>a. SameOrder  BY <1>1 DEF SameOrder
<1>5. \A c \in Comments : Broadcast(c) => Broadcast(c)'  BY <1>4 DEF Advances, Broadcast
<1>6. \A c \in Comments : cmt'[c].pc \in {"sent", "kept"} => cmt[c].pc \in {"sent", "kept"}
  BY DEF Settles
<1>7. ASSUME NEW u \in Users PROVE Following(u)'
  <2>1. InInbox(u)' = InInbox(u) /\ InInbox(u) \subseteq Comments
    BY <1>1, PageShapes DEF InInbox, PageIInv
  <2>2. \A c \in InInbox(u)' : Broadcast(c)'
    BY <1>5, <2>1 DEF PageIInv, Following, HeldBy
  <2> QED  BY <1>1, <1>4, <1>a, <1>6, <2>1, <2>2, PageWaits
<1> QED  BY <1>2, <1>3, <1>7 DEF PageIInv

\* A step of one page leaves the others alone.
SamePage(v) ==
  /\ at'[v] = at[v] /\ view'[v] = view[v] /\ load'[v] = load[v] /\ room'[v] = room[v]
  /\ inbox'[v] = inbox[v] /\ slipped'[v] = slipped[v] /\ later'[v] = later[v]
  /\ jumped'[v] = jumped[v] /\ outran'[v] = outran[v]

LEMMA OnePageStep ==
  ASSUME PageIInv, UNCHANGED <<serverVars, older, intent>>, PageTypeOK', NEW u \in Users,
         Following(u)', \A v \in Users \ {u} : SamePage(v)
  PROVE  PageIInv'
<1>1. cmt' = cmt  BY DEF serverVars
<1>2. IInv'  BY NextIInv DEF PageIInv
<1>3. Settles /\ Advances /\ SameOrder  BY <1>1 DEF Settles, Advances, SameOrder
<1>4. Intending' /\ AnswersWhereWritten'  BY <1>3, IntendingSettles
<1>5. ASSUME NEW v \in Users \ {u} PROVE Following(v)'
  <2>a. SamePage(v)  BY <1>5
  <2>1. InInbox(v)' = InInbox(v)  BY <2>a DEF InInbox, SamePage
  <2>2. \A c \in InInbox(v)' : Broadcast(c)'
    BY <1>1, <2>1 DEF PageIInv, Following, HeldBy, Broadcast
  <2> QED  BY <1>1, <1>3, <2>a, <2>1, <2>2, PageWaits DEF SamePage
<1> QED  BY <1>2, <1>4, <1>5 DEF PageIInv

\* The state of a page that has read nothing yet.
LEMMA QuietPage ==
  ASSUME PageIInv, UNCHANGED cmt, NEW u \in Users,
         \A p \in Pages : /\ load'[u][p].pc \in {"none", "asked"} /\ load'[u][p].got = {}
                          /\ at'[u] = NoThread => load'[u][p].pc = "none",
         view'[u] \subseteq view[u], InInbox(u)' \subseteq InInbox(u), later'[u] = {}
  PROVE  Following(u)'
<1>1. HeldBy(u)'  BY DEF PageIInv, Following, HeldBy, Broadcast
<1>2. \A p \in Pages : ~Read(u, p)'  BY DEF Read
<1> QED  BY <1>1, <1>2 DEF Following, ApartBy, HearingBy

\* A page that only receives, joins or writes reads nothing.
LEMMA ApartStays ==
  ASSUME PageIInv, UNCHANGED <<cmt, older>>, NEW u \in Users, at'[u] = at[u], later'[u] = later[u],
         outran'[u] = outran[u], \A p \in Pages : Read(u, p)' <=> Read(u, p)
  PROVE  ApartBy(u)' /\ (Shifted(u) => Shifted(u)')
<1>1. Advances /\ SameOrder  BY DEF Advances, SameOrder
<1> QED  BY <1>1, ApartWaits

\* One request changes.
LEMMA LoadChanges ==
  ASSUME PageTypeOK, NEW u \in Users, NEW p \in Pages, NEW row \in LoadRow,
         load' = [load EXCEPT ![u][p] = row]
  PROVE  /\ load' \in [Users -> [Pages -> LoadRow]]
         /\ load'[u][p] = row /\ \A q \in Pages \ {p} : load'[u][q] = load[u][q]
         /\ \A v \in Users \ {u} : load'[v] = load[v]
<1>1. load \in [Users -> [Pages -> LoadRow]]  BY DEF PageTypeOK, LoadRow
<1> QED  BY <1>1

LEMMA OpenStep ==
  ASSUME PageIInv, NEW u \in Users, NEW t \in Threads, Open(u, t)
  PROVE  PageIInv'
<1>1. /\ at[u] = NoThread /\ moves < MaxMoves /\ moves' = moves + 1
      /\ at' = [at EXCEPT ![u] = t] /\ load' = [load EXCEPT ![u][1] = Asked]
      /\ joining' = [joining EXCEPT ![u] = @ \cup {t}]
      /\ UNCHANGED <<serverVars, post, count, view, room, inbox, older, slipped, later, jumped,
                     outran, intent>>
  BY DEF Open, pagingVars
<1>2. PageTypeOK /\ HeldBy(u)  BY DEF PageIInv, Following
<1>3. moves' \in 0..MaxMoves /\ 1 \in Pages  BY <1>1, <1>2, PageAssumption DEF PageTypeOK, Pages
<1>a. Asked \in LoadRow /\ Asked.pc = "asked" /\ Asked.got = {}  BY DEF Asked, LoadRow
<1>4. /\ load' \in [Users -> [Pages -> LoadRow]]
      /\ load'[u][1] = Asked /\ \A q \in Pages \ {1} : load'[u][q] = load[u][q]
      /\ \A v \in Users \ {u} : load'[v] = load[v]
  BY <1>1, <1>2, <1>3, <1>a, LoadChanges
<1>b. PageTypeOK'  BY <1>1, <1>2, <1>3, <1>4 DEF PageTypeOK, LoadRow
<1>5. \A p \in Pages : load[u][p].pc = "none" /\ load[u][p].got = {}
  BY <1>1, <1>2 DEF HeldBy
<1>c. later[u] = {}
  <2>1. \A c \in later[u] : c \in Comments /\ cmt[c].pc \in {"kept", "gone"} /\ cmt[c].thread = NoThread
    BY <1>1, <1>2, PageShapes DEF HeldBy, Loaded
  <2>2. \A c \in Comments : cmt[c].pc # "free" => cmt[c].thread \in Threads
    BY DEF PageIInv, IInv, Placed
  <2> QED  BY <2>1, <2>2, ConstantsAssumption
<1>6. Following(u)'
  <2>1. view'[u] = view[u] /\ InInbox(u)' = InInbox(u) /\ cmt' = cmt /\ later'[u] = {}
    BY <1>1, <1>c DEF serverVars, InInbox
  <2>2. \A p \in Pages : load'[u][p].pc \in {"none", "asked"} /\ load'[u][p].got = {}
    BY <1>a, <1>4, <1>5
  <2>3. at'[u] # NoThread  BY <1>1, <1>2, ConstantsAssumption DEF PageTypeOK
  <2> QED  BY <2>1, <2>2, <2>3, QuietPage
<1>7. \A v \in Users \ {u} : SamePage(v)  BY <1>1, <1>2, <1>4 DEF PageTypeOK, SamePage
<1> QED  BY <1>1, <1>b, <1>6, <1>7, OnePageStep

LEMMA LeaveStep ==
  ASSUME PageIInv, NEW u \in Users, Leave(u)
  PROVE  PageIInv'
<1>1. /\ at' = [at EXCEPT ![u] = NoThread] /\ post' = [post EXCEPT ![u] = FALSE]
      /\ count' = [count EXCEPT ![u] = 0]
      /\ view' = [view EXCEPT ![u] = {}] /\ load' = [load EXCEPT ![u] = NotLoaded]
      /\ slipped' = [slipped EXCEPT ![u] = {}] /\ later' = [later EXCEPT ![u] = {}]
      /\ jumped' = [jumped EXCEPT ![u] = {}] /\ outran' = [outran EXCEPT ![u] = FALSE]
      /\ UNCHANGED <<serverVars, joining, room, inbox, moves, older, intent>>
  BY DEF Leave
<1>2. PageTypeOK /\ load \in [Users -> [Pages -> LoadRow]]  BY DEF PageIInv, PageTypeOK, LoadRow
<1>b. NotLoaded \in [Pages -> LoadRow]
      /\ \A p \in Pages : NotLoaded[p].pc = "none" /\ NotLoaded[p].got = {}
  BY DEF NotLoaded, LoadRow
<1>a. load' \in [Users -> [Pages -> LoadRow]] /\ load'[u] = NotLoaded
      /\ \A v \in Users \ {u} : load'[v] = load[v]
  BY <1>1, <1>2, <1>b
<1>3. PageTypeOK'  BY <1>1, <1>2, <1>a DEF PageTypeOK, LoadRow
<1>4. Following(u)'
  <2>1. view'[u] = {} /\ later'[u] = {}  BY <1>1, <1>2 DEF PageTypeOK
  <2>2. InInbox(u)' = InInbox(u) /\ cmt' = cmt  BY <1>1 DEF serverVars, InInbox
  <2> QED  BY <1>a, <1>b, <2>1, <2>2, QuietPage
<1>5. \A v \in Users \ {u} : SamePage(v)  BY <1>1, <1>2, <1>a DEF PageTypeOK, SamePage
<1> QED  BY <1>1, <1>3, <1>4, <1>5, OnePageStep

\* Asking changes nothing for the page.
LEMMA AskedPage ==
  ASSUME PageIInv, UNCHANGED <<cmt, older>>, NEW u \in Users,
         /\ at'[u] = at[u] /\ view'[u] = view[u] /\ room'[u] = room[u] /\ inbox'[u] = inbox[u]
         /\ slipped'[u] = slipped[u] /\ later'[u] = later[u] /\ jumped'[u] = jumped[u]
         /\ outran'[u] = outran[u],
         \A p \in Pages : \/ load'[u][p] = load[u][p]
                          \/ /\ load[u][p].pc = "none" /\ at[u] # NoThread
                             /\ load'[u][p].pc = "asked" /\ load'[u][p].got = {}
  PROVE  Following(u)'
<1>1. Following(u)  BY DEF PageIInv
<1>2. \A p \in Pages : Read(u, p)' <=> Read(u, p)  BY DEF Read
<1>3. ApartBy(u)' /\ (Shifted(u) => Shifted(u)')  BY <1>2, ApartStays
<1>4. InInbox(u)' = InInbox(u)  BY DEF InInbox
<1>5. \A p \in Pages : load'[u][p].got = load[u][p].got  BY <1>1 DEF Following, HeldBy
<1>6. HeldBy(u)'
  <2>1. \A c : Broadcast(c)' <=> Broadcast(c)  BY DEF Broadcast
  <2>2. \A c : Loaded(u, c)' <=> Loaded(u, c)  BY DEF Loaded
  <2> QED  BY <1>1, <1>4, <1>5, <2>1, <2>2 DEF Following, HeldBy
<1>7. HearingBy(u)'
  <2> SUFFICES ASSUME \E p \in Pages : Read(u, p), at[u] \in room[u],
                      NEW c \in Of(at[u], {"sent", "kept"}), cmt[c].parent = Top
               PROVE  ReachedBy(u, c)'
    BY <1>2 DEF HearingBy, Of
  <2>1. ReachedBy(u, c)  BY <1>1 DEF Following, HearingBy
  <2>2. Twin(u, c) => Twin(u, c)'  BY DEF Twin
  <2> QED  BY <1>3, <1>4, <1>5, <2>1, <2>2 DEF ReachedBy
<1> QED  BY <1>3, <1>6, <1>7 DEF Following

LEMMA ShowPostStep ==
  ASSUME PageIInv, NEW u \in Users, ShowPost(u)
  PROVE  PageIInv'
<1>1. /\ at[u] # NoThread /\ post' = [post EXCEPT ![u] = TRUE]
      /\ count' = [count EXCEPT ![u] = Cardinality(Kept(at[u]))]
      /\ joining' = [joining EXCEPT ![u] = @ \cup {at[u]}]
      /\ UNCHANGED <<serverVars, at, view, load, room, inbox, moves, older, slipped, later, jumped,
                     outran, intent>>
  BY DEF ShowPost, pagingVars
<1>2. PageTypeOK /\ at[u] \in Threads  BY <1>1 DEF PageIInv, PageTypeOK
<1>a. Cardinality(Kept(at[u])) \in Nat
  <2>1. Kept(at[u]) \in SUBSET Comments  BY DEF Kept, Of
  <2> QED  BY <2>1, ConstantsAssumption, FS_Subset, FS_CardinalityType
<1>3. PageTypeOK'  BY <1>1, <1>2, <1>a DEF PageTypeOK
<1>4. Following(u)'
  <2>1. UNCHANGED <<cmt, older>>  BY <1>1 DEF serverVars
  <2> QED  BY <1>1, <2>1, AskedPage
<1>5. \A v \in Users \ {u} : SamePage(v)  BY <1>1 DEF SamePage
<1> QED  BY <1>1, <1>3, <1>4, <1>5, OnePageStep

LEMMA MoreStep ==
  ASSUME PageIInv, NEW u \in Users, NEW p \in Pages, More(u, p)
  PROVE  PageIInv'
<1>1. /\ post[u] /\ p + 1 \in Pages /\ load[u][p + 1].pc = "none"
      /\ moves < MaxMoves /\ moves' = moves + 1 /\ load' = [load EXCEPT ![u][p + 1] = Asked]
      /\ UNCHANGED <<serverVars, at, post, count, view, joining, room, inbox, older, slipped, later,
                     jumped, outran, intent>>
  BY DEF More, pagingVars
<1>2. PageTypeOK /\ at[u] # NoThread  BY <1>1 DEF PageIInv, PageTypeOK
<1>a. Asked \in LoadRow /\ Asked.pc = "asked" /\ Asked.got = {}  BY DEF Asked, LoadRow
<1>3. PICK n \in Pages : n = p + 1  BY <1>1
<1>4. /\ load' \in [Users -> [Pages -> LoadRow]]
      /\ load'[u][n] = Asked /\ \A q \in Pages \ {n} : load'[u][q] = load[u][q]
      /\ \A v \in Users \ {u} : load'[v] = load[v]
  BY <1>1, <1>2, <1>3, <1>a, LoadChanges
<1>5. PageTypeOK'
  <2>1. moves' \in 0..MaxMoves  BY <1>1, <1>2, PageAssumption DEF PageTypeOK
  <2> QED  BY <1>1, <1>2, <1>4, <2>1 DEF PageTypeOK, LoadRow
<1>6. Following(u)'
  <2>1. UNCHANGED <<cmt, older>>  BY <1>1 DEF serverVars
  <2>2. \A q \in Pages : \/ load'[u][q] = load[u][q]
                         \/ /\ load[u][q].pc = "none" /\ at[u] # NoThread
                            /\ load'[u][q].pc = "asked" /\ load'[u][q].got = {}
    BY <1>1, <1>2, <1>3, <1>4, <1>a
  <2> QED  BY <1>1, <2>1, <2>2, AskedPage
<1>7. \A v \in Users \ {u} : SamePage(v)  BY <1>1, <1>4 DEF SamePage
<1> QED  BY <1>1, <1>5, <1>6, <1>7, OnePageStep

\* Joining late: what was sent before is there, on a later page, or has slipped.
LEMMA JoinStep ==
  ASSUME PageIInv, NEW u \in Users, NEW t \in Threads, Join(u, t)
  PROVE  PageIInv'
<1>1. /\ joining' = [joining EXCEPT ![u] = @ \ {t}]
      /\ room' = [room EXCEPT ![u] = @ \cup {t}]
      /\ slipped' = [slipped EXCEPT ![u] =
           IF at[u] = t /\ t \notin room[u] /\ \E p \in Pages : Read(u, p)
             THEN @ \cup (Missed(u, t, {"sent", "kept"}) \ later[u]) ELSE @]
      /\ UNCHANGED <<serverVars, at, post, count, view, load, inbox, moves, older, later, jumped,
                     outran, intent>>
  BY DEF Join, pagingVars
<1>2. PageTypeOK /\ Following(u)  BY DEF PageIInv
<1>3. /\ room'[u] = room[u] \cup {t} /\ slipped[u] \subseteq slipped'[u]
      /\ at[u] = t /\ t \notin room[u] /\ (\E p \in Pages : Read(u, p))
           => (Missed(u, t, {"sent", "kept"}) \ later[u]) \subseteq slipped'[u]
  BY <1>1, <1>2 DEF PageTypeOK
<1>4. PageTypeOK'
  <2>1. Missed(u, t, {"sent", "kept"}) \subseteq Comments  BY DEF Missed, Of
  <2> QED  BY <1>1, <1>2, <2>1 DEF PageTypeOK
<1>5. cmt' = cmt /\ InInbox(u)' = InInbox(u) /\ older' = older  BY <1>1 DEF serverVars, InInbox
<1>a. \A p : Read(u, p)' <=> Read(u, p)  BY <1>1 DEF Read
<1>b. ApartBy(u)' /\ (Shifted(u) => Shifted(u)')  BY <1>1, <1>5, <1>a, ApartStays
<1>6. HeldBy(u)'
  BY <1>1, <1>2, <1>5 DEF Following, HeldBy, Broadcast, Loaded
<1>7. HearingBy(u)'
  <2> SUFFICES ASSUME \E p \in Pages : Read(u, p), at[u] \in room'[u],
                      NEW c \in Of(at[u], {"sent", "kept"}), cmt[c].parent = Top
               PROVE  ReachedBy(u, c)'
    BY <1>1, <1>5, <1>a DEF HearingBy, Of
  <2>1. \/ c \in view[u] \cup slipped'[u] \cup later[u] \cup InInbox(u)
        \/ \E p \in Pages : c \in load[u][p].got
        \/ c \in jumped[u] /\ Shifted(u)
        \/ Twin(u, c)
    <3>1. CASE at[u] \in room[u]  BY <1>2, <1>3, <3>1 DEF Following, HearingBy, ReachedBy
    <3>2. CASE at[u] \notin room[u]
      <4>1. at[u] = t  BY <1>3, <3>2
      <4>2. CASE c \in Missed(u, t, {"sent", "kept"})  BY <1>3, <3>2, <4>1, <4>2
      <4>3. CASE c \notin Missed(u, t, {"sent", "kept"})  BY <4>1, <4>3 DEF Missed, Got
      <4> QED  BY <4>2, <4>3
    <3> QED  BY <3>1, <3>2
  <2>2. Twin(u, c) => Twin(u, c)'  BY <1>1, <1>5 DEF Twin
  <2> QED  BY <1>1, <1>5, <1>b, <2>1, <2>2 DEF ReachedBy
<1>8. \A v \in Users \ {u} : SamePage(v)  BY <1>1, <1>2 DEF PageTypeOK, SamePage
<1> QED  BY <1>1, <1>4, <1>b, <1>6, <1>7, <1>8, OnePageStep DEF Following

\* The answer holds a page of what is kept.  What is not kept yet has slipped, if the page could
\* not hear it; what lies before the page has been read, unless the list has moved.
LEMMA LoadReadStep ==
  ASSUME PageIInv, NEW u \in Users, NEW p \in Pages, LoadRead(u, p)
  PROVE  PageIInv'
<1> DEFINE row == [pc |-> "answered", got |-> {c \in Roots(at[u]) : ~Skipped(p, c) /\ ~Beyond(p, c)}]
           past == {c \in Missed(u, at[u], {"kept"}) : Skipped(p, c)}
           rest == {c \in Roots(at[u]) : Beyond(p, c)}
<1>1. /\ load[u][p].pc = "asked" /\ load' = [load EXCEPT ![u][p] = row]
      /\ slipped' = [slipped EXCEPT ![u] = @ \cup Missed(u, at[u], {"sent"})]
      /\ later' = [later EXCEPT ![u] = IF \E q \in Pages : q > p /\ Read(u, q) THEN @ ELSE rest]
      /\ jumped' = [jumped EXCEPT ![u] = @ \cup past]
      /\ outran' = [outran EXCEPT ![u] = @ \/ \E q \in Pages : q < p /\ ~Read(u, q)]
      /\ UNCHANGED <<serverVars, at, post, count, view, joining, room, inbox, moves, older, intent>>
  BY DEF LoadRead
<1>2. PageTypeOK /\ Following(u)  BY DEF PageIInv
<1>3. /\ \A c \in Roots(at[u]) : c \in Comments /\ Loaded(u, c) /\ Broadcast(c) /\ cmt[c].pc = "kept"
      /\ Roots(at[u]) \subseteq Comments
  BY DEF Roots, Kept, Of, Loaded, Broadcast
<1>4. row \in LoadRow /\ row.pc = "answered" /\ row.got \subseteq Roots(at[u])
      /\ \A c \in Roots(at[u]) : c \in row.got \/ Skipped(p, c) \/ c \in rest
  BY <1>3 DEF LoadRow
<1>5. rest \subseteq Roots(at[u]) /\ past \subseteq Comments /\ Missed(u, at[u], {"sent"}) \subseteq Comments
  BY DEF Missed, Of
<1>6. \A c \in rest : Beyond(p, c)  OBVIOUS
<1>7. \A c \in Missed(u, at[u], {"kept"}) : Skipped(p, c) => c \in past  OBVIOUS
<1> HIDE DEF row, past, rest
<1>8. /\ load' \in [Users -> [Pages -> LoadRow]]
      /\ load'[u][p] = row /\ \A q \in Pages \ {p} : load'[u][q] = load[u][q]
      /\ \A v \in Users \ {u} : load'[v] = load[v]
  BY <1>1, <1>2, <1>4, LoadChanges
<1>9. /\ slipped'[u] = slipped[u] \cup Missed(u, at[u], {"sent"})
      /\ later'[u] = IF \E q \in Pages : q > p /\ Read(u, q) THEN later[u] ELSE rest
      /\ jumped'[u] = jumped[u] \cup past
      /\ outran'[u] <=> outran[u] \/ \E q \in Pages : q < p /\ ~Read(u, q)
  <2>1. slipped'[u] = slipped[u] \cup Missed(u, at[u], {"sent"})  BY <1>1, <1>2 DEF PageTypeOK
  <2>2. later'[u] = IF \E q \in Pages : q > p /\ Read(u, q) THEN later[u] ELSE rest
    BY <1>1, <1>2 DEF PageTypeOK
  <2>3. jumped'[u] = jumped[u] \cup past  BY <1>1, <1>2 DEF PageTypeOK
  <2>4. outran'[u] <=> outran[u] \/ \E q \in Pages : q < p /\ ~Read(u, q)
    BY <1>1, <1>2 DEF PageTypeOK
  <2> QED  BY <2>1, <2>2, <2>3, <2>4
<1>10. PageTypeOK'
  <2>1. later[u] \subseteq Comments /\ rest \subseteq Comments  BY <1>2, <1>3, <1>5, PageShapes
  <2>2. later' \in [Users -> SUBSET Comments]
    <3>1. PICK l \in SUBSET Comments :
            l = IF \E q \in Pages : q > p /\ Read(u, q) THEN later[u] ELSE rest
      BY <2>1
    <3>2. later' = [later EXCEPT ![u] = l]  BY <1>1, <3>1
    <3> QED  BY <1>2, <3>2 DEF PageTypeOK
  <2>3. jumped' \in [Users -> SUBSET Comments]  BY <1>1, <1>2, <1>5 DEF PageTypeOK
  <2>4. slipped' \in [Users -> SUBSET Comments]  BY <1>1, <1>2, <1>5 DEF PageTypeOK
  <2>5. outran' \in [Users -> BOOLEAN]
    <3>1. PICK b \in BOOLEAN : b <=> outran[u] \/ \E q \in Pages : q < p /\ ~Read(u, q)
      OBVIOUS
    <3>2. outran' = [outran EXCEPT ![u] = b]
      <4>1. outran \in [Users -> BOOLEAN]  BY <1>2 DEF PageTypeOK
      <4>2. b = (outran[u] \/ \E q \in Pages : q < p /\ ~Read(u, q))  BY <3>1, <4>1
      <4> QED  BY <1>1, <4>2
    <3> QED  BY <1>2, <3>2 DEF PageTypeOK
  <2> QED  BY <1>1, <1>2, <1>8, <2>2, <2>3, <2>4, <2>5 DEF PageTypeOK, LoadRow
<1>11. cmt' = cmt /\ InInbox(u)' = InInbox(u) /\ older' = older  BY <1>1 DEF serverVars, InInbox
<1>12. \A q \in Pages : Read(u, q)' <=> Read(u, q) \/ q = p
  BY <1>1, <1>4, <1>8 DEF Read
<1>13. ~Read(u, p)  BY <1>1 DEF Read
<1>14. Shifted(u) => Shifted(u)'  BY <1>1, <1>9, <1>11 DEF Shifted
<1>15. HeldBy(u)'
  <2>1. \A c : /\ Broadcast(c)' <=> Broadcast(c)
               /\ Loaded(u, c)' <=> Loaded(u, c)
    BY <1>1, <1>11 DEF Broadcast, Loaded
  <2>2. \A c \in later'[u] : Loaded(u, c)
    BY <1>2, <1>3, <1>5, <1>9 DEF Following, HeldBy
  <2>3. \A q \in Pages : /\ \A c \in load'[u][q].got : Loaded(u, c)
                         /\ load'[u][q].pc # "answered" => load'[u][q].got = {}
                         /\ at[u] = NoThread => load'[u][q].pc = "none"
    BY <1>1, <1>2, <1>3, <1>4, <1>8 DEF Following, HeldBy
  <2> QED  BY <1>1, <1>2, <1>11, <2>1, <2>2, <2>3 DEF Following, HeldBy
<1>16. ASSUME ~Shifted(u)'
       PROVE  /\ \A q \in Pages : q < p => Read(u, q)
              /\ \A q \in Pages : q > p => ~Read(u, q)
              /\ \A q \in Pages : Read(u, q) => \A c \in later[u] : Beyond(q, c)
              /\ later'[u] = rest
  <2>1. \A q \in Pages : q < p => Read(u, q)  BY <1>9, <1>16 DEF Shifted
  <2>2. /\ \A q, r \in Pages : r < q /\ Read(u, q) => Read(u, r)
        /\ \A q \in Pages : Read(u, q) => \A c \in later[u] : Beyond(q, c)
    BY <1>2, <1>14, <1>16 DEF Following, ApartBy
  <2>3. \A q \in Pages : q > p => ~Read(u, q)
    <3>1. ASSUME NEW q \in Pages, q > p PROVE p < q  BY <3>1 DEF Pages
    <3> QED  BY <1>13, <2>2, <3>1
  <2> QED  BY <1>9, <2>1, <2>2, <2>3
<1>17. ApartBy(u)'
  <2> SUFFICES ASSUME ~Shifted(u)'
               PROVE  /\ \A q, r \in Pages : r < q /\ Read(u, q)' => Read(u, r)'
                      /\ \A q \in Pages : Read(u, q)' => \A c \in later'[u] : Beyond(q, c)'
    BY DEF ApartBy
  <2>1. ASSUME NEW q \in Pages, NEW r \in Pages, r < q, Read(u, q)' PROVE Read(u, r)'
    <3>1. q = p \/ q < p \/ q > p  BY DEF Pages
    <3>2. q < p \/ q = p  BY <1>12, <1>16, <2>1, <3>1
    <3>3. r < p  BY <2>1, <3>2 DEF Pages
    <3> QED  BY <1>12, <1>16, <3>3
  <2>2. ASSUME NEW q \in Pages, Read(u, q)', NEW c \in rest PROVE Beyond(q, c)'
    <3>1. q <= p
      <4>1. q = p \/ q < p \/ q > p  BY DEF Pages
      <4> QED  BY <1>12, <1>16, <2>2, <4>1 DEF Pages
    <3>2. p \in Nat /\ q \in Nat /\ PageSize \in Nat  BY PageAssumption DEF Pages
    <3>3. q * PageSize \in Nat /\ p * PageSize \in Nat /\ q * PageSize <= p * PageSize
      BY <3>1, <3>2, PagesGrow
    <3>4. c \in Comments /\ Place(c) > p * PageSize  BY <1>3, <1>5, <1>6, <2>2 DEF Beyond
    <3>5. Place(c) \in Nat  BY <3>4, PlaceIsNatural
    <3>6. Place(c)' = Place(c)  BY <1>11 DEF Place, Newer, Roots, Kept, Of
    <3> QED  BY <3>3, <3>4, <3>5, <3>6 DEF Beyond
  <2> QED  BY <1>16, <2>1, <2>2
<1>18. \A c : Twin(u, c) => Twin(u, c)'  BY <1>1, <1>11 DEF Twin
<1>19. \A q \in Pages : load[u][q].got \subseteq load'[u][q].got
  <2>1. load[u][p].got = {}  BY <1>1, <1>2 DEF Following, HeldBy
  <2> QED  BY <1>8, <2>1
<1>20. ASSUME NEW c \in Comments, c \in view[u] \cup slipped[u] \cup InInbox(u) \cup Got(u) \/ Twin(u, c)
       PROVE  ReachedBy(u, c)'
  <2>1. c \in Got(u) => \E q \in Pages : c \in load'[u][q].got  BY <1>19 DEF Got
  <2> QED  BY <1>1, <1>9, <1>11, <1>18, <1>20, <2>1 DEF ReachedBy
<1>21. HearingBy(u)'
  <2> SUFFICES ASSUME at[u] \in room[u], NEW c \in Of(at[u], {"sent", "kept"}), cmt[c].parent = Top
               PROVE  ReachedBy(u, c)'
    BY <1>1, <1>11 DEF HearingBy, Of
  <2>1. c \in Comments /\ cmt[c].thread = at[u] /\ cmt[c].pc \in {"sent", "kept"}  BY DEF Of
  <2>2. CASE cmt[c].pc = "sent"
    <3>1. c \in Missed(u, at[u], {"sent"}) \/ c \in Got(u) \cup view[u] \cup InInbox(u)
      BY <2>1, <2>2 DEF Missed, Of
    <3> QED  BY <1>9, <1>20, <2>1, <3>1 DEF ReachedBy
  <2>3. CASE cmt[c].pc = "kept"
    <3>1. c \in Roots(at[u])  BY <2>1, <2>3 DEF Roots, Kept, Of
    <3>2. CASE \E q \in Pages : q > p /\ Read(u, q)
      <4>1. ReachedBy(u, c)  BY <1>2, <3>2 DEF Following, HearingBy
      <4>2. later'[u] = later[u]  BY <1>9, <3>2
      <4>3. CASE c \in later[u]  BY <4>2, <4>3 DEF ReachedBy
      <4>4. CASE c \in jumped[u] /\ Shifted(u)  BY <1>9, <1>14, <4>4 DEF ReachedBy
      <4> QED  BY <1>20, <2>1, <4>1, <4>3, <4>4 DEF ReachedBy, Got
    <3>3. CASE ~\E q \in Pages : q > p /\ Read(u, q)
      <4>1. CASE c \in row.got  BY <1>8, <4>1 DEF ReachedBy
      <4>2. CASE c \in rest  BY <1>9, <3>3, <4>2 DEF ReachedBy
      <4>3. CASE Skipped(p, c) /\ c \notin Missed(u, at[u], {"kept"})
        <5>1. c \in Got(u) \cup view[u] \cup InInbox(u)  BY <2>1, <2>3, <4>3 DEF Missed, Of
        <5> QED  BY <1>20, <2>1, <5>1
      <4>4. CASE Skipped(p, c) /\ c \in Missed(u, at[u], {"kept"}) /\ Shifted(u)'
        BY <1>7, <1>9, <4>4 DEF ReachedBy
      <4>5. CASE Skipped(p, c) /\ c \in Missed(u, at[u], {"kept"}) /\ ~Shifted(u)'
        <5>1. PageSize \in Nat /\ p \in Nat /\ p >= 1  BY PageAssumption DEF Pages
        <5>2. Place(c) \in Nat /\ Place(c) # 0
          <6>1. c \in Newer(c)  BY <2>1, <3>1 DEF Newer
          <6>2. Newer(c) # {}  BY <6>1
          <6> QED  BY <2>1, <6>2, PlaceIsNatural, FS_EmptySet DEF Place
        <5>3. p # 1
          <6> SUFFICES ASSUME p = 1 PROVE FALSE  OBVIOUS
          <6>1. Place(c) <= (1 - 1) * PageSize  BY <4>5 DEF Skipped
          <6> QED  BY <5>1, <5>2, <6>1
        <5>a. p - 1 \in Pages /\ p - 1 < p  BY <5>1, <5>3, PageAssumption DEF Pages
        <5>4. PICK q \in Pages : q = p - 1 /\ q < p  BY <5>a
        <5>5. Read(u, q)  BY <1>16, <4>5, <5>4
        <5>6. ReachedBy(u, c)  BY <1>2, <5>5 DEF Following, HearingBy
        <5>7. c \notin later[u]
          <6> SUFFICES ASSUME c \in later[u] PROVE FALSE  OBVIOUS
          <6>1. Place(c) > q * PageSize  BY <1>16, <4>5, <5>5 DEF Beyond
          <6>2. Place(c) <= q * PageSize  BY <4>5, <5>4 DEF Skipped
          <6>3. q * PageSize \in Nat
            <7>1. q \in Nat  BY DEF Pages
            <7> QED  BY <5>1, <7>1, PagesGrow
          <6> QED  BY <5>2, <6>1, <6>2, <6>3
        <5>8. ~Shifted(u)  BY <1>14, <4>5
        <5> QED  BY <1>20, <2>1, <5>6, <5>7, <5>8 DEF ReachedBy, Got
      <4> QED  BY <1>4, <3>1, <4>1, <4>2, <4>3, <4>4, <4>5
    <3> QED  BY <3>2, <3>3
  <2> QED  BY <2>1, <2>2, <2>3
<1>22. \A v \in Users \ {u} : SamePage(v)  BY <1>1, <1>2, <1>8 DEF PageTypeOK, SamePage
<1> QED  BY <1>1, <1>10, <1>15, <1>17, <1>21, <1>22, OnePageStep DEF Following

\* What the merge leaves out has a namesake on the page: itself, or a twin.
LEMMA LoadShowStep ==
  ASSUME PageIInv, NEW u \in Users, NEW p \in Pages, LoadShow(u, p)
  PROVE  PageIInv'
<1>a. PICK new : new = Merge(view[u], load[u][p].got)  OBVIOUS
<1>b. PICK row : row = [pc |-> "shown", got |-> {}]  OBVIOUS
<1>1. /\ load[u][p].pc = "answered" /\ view' = [view EXCEPT ![u] = new]
      /\ load' = [load EXCEPT ![u][p] = row]
      /\ UNCHANGED <<serverVars, at, post, count, joining, room, inbox, moves, older, slipped, later,
                     jumped, outran, intent>>
  BY <1>a, <1>b DEF LoadShow, pagingVars
<1>2. PageTypeOK /\ Following(u) /\ load[u][p].got \subseteq Comments /\ view[u] \subseteq Comments
  BY PageShapes DEF PageIInv
<1>c. row \in LoadRow /\ row.pc = "shown" /\ row.got = {}  BY <1>b DEF LoadRow
<1>3. /\ load' \in [Users -> [Pages -> LoadRow]]
      /\ load'[u][p] = row /\ \A q \in Pages \ {p} : load'[u][q] = load[u][q]
      /\ \A v \in Users \ {u} : load'[v] = load[v]
  BY <1>1, <1>2, <1>c, LoadChanges
<1>d. view'[u] = new  BY <1>1, <1>2 DEF PageTypeOK
<1>4. /\ view[u] \subseteq new /\ new \subseteq view[u] \cup load[u][p].got
      /\ \A c \in load[u][p].got : c \in new \/ \E d \in view[u] : cmt[d].num = cmt[c].num
  BY <1>a DEF Merge, Numbers
<1>5. PageTypeOK'
  <2>1. view' \in [Users -> SUBSET Comments]  BY <1>1, <1>2, <1>4 DEF PageTypeOK
  <2> QED  BY <1>1, <1>2, <1>3, <2>1 DEF PageTypeOK, LoadRow
<1>6. cmt' = cmt /\ InInbox(u)' = InInbox(u) /\ older' = older  BY <1>1 DEF serverVars, InInbox
<1>e. \A q \in Pages : Read(u, q)' <=> Read(u, q)  BY <1>1, <1>3, <1>c DEF Read
<1>f. ApartBy(u)' /\ (Shifted(u) => Shifted(u)')  BY <1>1, <1>6, <1>e, ApartStays
<1>7. HeldBy(u)'
  <2>1. \A c : /\ Broadcast(c)' <=> Broadcast(c)
               /\ Loaded(u, c)' <=> Loaded(u, c)
    BY <1>1, <1>6 DEF Broadcast, Loaded
  <2>2. \A c \in new : Broadcast(c)  BY <1>2, <1>4 DEF Following, HeldBy, Loaded, Broadcast
  <2>3. \A q \in Pages : /\ \A c \in load'[u][q].got : Loaded(u, c)
                         /\ load'[u][q].pc # "answered" => load'[u][q].got = {}
                         /\ at[u] = NoThread => load'[u][q].pc = "none"
    BY <1>1, <1>2, <1>3, <1>c DEF Following, HeldBy
  <2> QED  BY <1>1, <1>2, <1>d, <1>6, <2>1, <2>2, <2>3 DEF Following, HeldBy
<1>8. ASSUME NEW c \in load[u][p].got, cmt[c].pc = "kept" PROVE c \in new \/ Twin(u, c)'
  <2>1. SUFFICES ASSUME NEW d \in view[u], cmt[d].num = cmt[c].num, d # c PROVE Twin(u, c)'
    BY <1>4
  <2>2. d \in Comments /\ c \in Comments /\ Broadcast(d)  BY <1>2 DEF Following, HeldBy
  <2>3. cmt[d].pc \in {"gone", "void"} \/ cmt[d].thread # cmt[c].thread
    BY <1>8, <2>1, <2>2, OneOwner DEF Broadcast, PageIInv
  <2> QED  BY <1>d, <1>4, <1>6, <2>1, <2>3 DEF Twin
<1>10. \A c : Twin(u, c) => Twin(u, c)'  BY <1>d, <1>4, <1>6 DEF Twin
<1>11. HearingBy(u)'
  <2> SUFFICES ASSUME at[u] \in room[u], NEW c \in Of(at[u], {"sent", "kept"}), cmt[c].parent = Top
               PROVE  ReachedBy(u, c)'
    BY <1>1, <1>6 DEF HearingBy, Of
  <2>1. ReachedBy(u, c)
    <3>1. Read(u, p)  BY <1>1 DEF Read
    <3> QED  BY <1>2, <3>1 DEF Following, HearingBy
  <2>2. CASE c \in load[u][p].got
    <3>1. cmt[c].pc = "kept"  BY <1>2, <2>2 DEF Following, HeldBy, Loaded, Of
    <3> QED  BY <1>d, <1>8, <2>2, <3>1 DEF ReachedBy
  <2>3. CASE c \notin load[u][p].got
    <3>1. \A q \in Pages : c \in load[u][q].got => c \in load'[u][q].got  BY <1>3, <2>3
    <3> QED  BY <1>1, <1>d, <1>4, <1>6, <1>f, <1>10, <2>1, <3>1 DEF ReachedBy
  <2> QED  BY <2>2, <2>3
<1>12. \A v \in Users \ {u} : SamePage(v)  BY <1>1, <1>2, <1>3 DEF PageTypeOK, SamePage
<1> QED  BY <1>1, <1>5, <1>f, <1>7, <1>11, <1>12, OnePageStep DEF Following

\* A comment that is not shown when it comes has a namesake on the page, or answers another.
LEMMA DeliverStep ==
  ASSUME PageIInv, NEW u \in Users, Deliver(u)
  PROVE  PageIInv'
<1>a. PICK c : c = Head(inbox[u])  OBVIOUS
<1>1. /\ inbox[u] # <<>> /\ view' = [view EXCEPT ![u] = IF Shows(u, c) THEN @ \cup {c} ELSE @]
      /\ inbox' = [inbox EXCEPT ![u] = Tail(@)]
      /\ UNCHANGED <<serverVars, at, post, count, load, joining, room, moves, older, slipped, later,
                     jumped, outran, intent>>
  BY <1>a DEF Deliver, pagingVars
<1>2. PageTypeOK /\ Following(u) /\ view[u] \subseteq Comments  BY PageShapes DEF PageIInv
<1>3. PICK s : s = inbox[u]  OBVIOUS
<1>b. PICK t : t = Tail(s)  OBVIOUS
<1>4. s \in Seq(Comments) /\ s # <<>> /\ c = Head(s)  BY <1>a, <1>1, <1>2, <1>3 DEF PageTypeOK
<1>5. /\ t \in Seq(Comments) /\ c \in Comments
      /\ ElementsOf(s) = ElementsOf(t) \cup {c}
  BY <1>b, <1>4, TakenElements
<1>6. /\ view'[u] = IF Shows(u, c) THEN view[u] \cup {c} ELSE view[u]
      /\ inbox' = [inbox EXCEPT ![u] = t] /\ inbox'[u] = t
  BY <1>1, <1>2, <1>3, <1>b DEF PageTypeOK
<1>7. InInbox(u) = InInbox(u)' \cup {c}  BY <1>3, <1>5, <1>6 DEF InInbox, ElementsOf
<1>8. PageTypeOK'
  <2>1. view' \in [Users -> SUBSET Comments]  BY <1>1, <1>2, <1>5 DEF PageTypeOK
  <2> QED  BY <1>1, <1>2, <1>5, <1>6, <2>1 DEF PageTypeOK
<1>9. cmt' = cmt /\ older' = older  BY <1>1 DEF serverVars
<1>c. \A p \in Pages : Read(u, p)' <=> Read(u, p)  BY <1>1 DEF Read
<1>d. ApartBy(u)' /\ (Shifted(u) => Shifted(u)')  BY <1>1, <1>9, <1>c, ApartStays
<1>10. HeldBy(u)'  BY <1>1, <1>2, <1>6, <1>7, <1>9 DEF Following, HeldBy, Broadcast, Loaded
<1>11. \A x : Twin(u, x) => Twin(u, x)'  BY <1>6, <1>9 DEF Twin
<1>13. HearingBy(u)'
  <2> SUFFICES ASSUME \E p \in Pages : Read(u, p), at[u] \in room[u],
                      NEW x \in Of(at[u], {"sent", "kept"}), cmt[x].parent = Top
               PROVE  ReachedBy(u, x)'
    BY <1>1, <1>9, <1>c DEF HearingBy, Of
  <2>1. ReachedBy(u, x)  BY <1>2 DEF Following, HearingBy
  <2>2. CASE x # c  BY <1>1, <1>6, <1>7, <1>d, <1>11, <2>1, <2>2 DEF ReachedBy
  <2>3. CASE x = c /\ Shows(u, c)  BY <1>6, <2>3 DEF ReachedBy
  <2>4. CASE x = c /\ ~Shows(u, c)
    <3>1. cmt[c].pc \in {"sent", "kept"} /\ cmt[c].thread = at[u] /\ cmt[c].parent = Top
      BY <2>4 DEF Of
    <3>2. cmt[c].ref = 0  BY <1>5, <3>1 DEF PageIInv, Intending
    <3>3. at[u] # NoThread
      <4>1. cmt[c].thread \in Threads  BY <1>5, <3>1 DEF PageIInv, IInv, Placed
      <4> QED  BY <3>1, <4>1, ConstantsAssumption
    <3>4. PICK d \in view[u] : cmt[d].num = cmt[c].num  BY <2>4, <3>2, <3>3 DEF Shows, Numbers
    <3>5. d \in Comments /\ Broadcast(d)  BY <1>2 DEF Following, HeldBy
    <3>6. d = c \/ cmt[d].pc \in {"gone", "void"} \/ cmt[d].thread # cmt[c].thread
      BY <1>5, <3>1, <3>4, <3>5, OneOwner DEF Broadcast, PageIInv
    <3> QED  BY <1>6, <1>11, <2>4, <3>4, <3>6 DEF ReachedBy, Twin
  <2> QED  BY <2>2, <2>3, <2>4
<1>14. \A v \in Users \ {u} : SamePage(v)  BY <1>1, <1>2 DEF PageTypeOK, SamePage
<1> QED  BY <1>1, <1>8, <1>d, <1>10, <1>13, <1>14, OnePageStep DEF Following

LEMMA ReconnectStep ==
  ASSUME PageIInv, NEW u \in Users, Reconnect(u)
  PROVE  PageIInv'
<1>1. PICK buffered \in SUBSET joining[u] :
        /\ moves < MaxMoves /\ moves' = moves + 1
        /\ room' = [room EXCEPT ![u] = {}] /\ joining' = [joining EXCEPT ![u] = buffered]
        /\ inbox' = [inbox EXCEPT ![u] = <<>>]
        /\ UNCHANGED <<serverVars, at, post, count, view, load, older, slipped, later, jumped, outran,
                       intent>>
  BY DEF Reconnect, pagingVars
<1>2. PageTypeOK /\ Following(u)  BY DEF PageIInv
<1>3. PageTypeOK'
  <2>1. moves' \in 0..MaxMoves  BY <1>1, <1>2, PageAssumption DEF PageTypeOK
  <2> QED  BY <1>1, <1>2, <2>1 DEF PageTypeOK
<1>4. room'[u] = {} /\ inbox'[u] = <<>> /\ cmt' = cmt /\ older' = older
  BY <1>1, <1>2 DEF PageTypeOK, serverVars
<1>5. InInbox(u)' = {}  BY <1>4 DEF InInbox
<1>6. Following(u)'
  <2>1. \A p \in Pages : Read(u, p)' <=> Read(u, p)  BY <1>1 DEF Read
  <2>2. ApartBy(u)'  BY <1>1, <1>4, <2>1, ApartStays
  <2>3. HeldBy(u)'  BY <1>1, <1>2, <1>4, <1>5 DEF Following, HeldBy, Broadcast, Loaded
  <2> QED  BY <1>4, <2>2, <2>3 DEF Following, HearingBy
<1>7. \A v \in Users \ {u} : SamePage(v)  BY <1>1, <1>2 DEF PageTypeOK, SamePage
<1> QED  BY <1>1, <1>3, <1>6, <1>7, OnePageStep
\* A comment that gets its number was not seen by anyone, and nothing hangs below it.
LEMMA NumberedStep ==
  ASSUME PageIInv, NEW c \in Comments, NEW t \in Threads, NEW ref \in Nat, CommentNumber(c, t, ref),
         NEW target \in Comments \cup {Top}, intent' = [intent EXCEPT ![c] = target],
         target # Top => Broadcast(target) /\ ref = cmt[target].num,
         UNCHANGED <<at, post, count, view, load, joining, room, inbox, moves, older, slipped, later,
                     jumped, outran>>
  PROVE  PageIInv'
<1>1. PICK n \in 0..Cardinality(Comments) :
        cmt' = [cmt EXCEPT ![c] = [pc |-> "numbered", thread |-> t, num |-> n + 1,
                                   ref |-> ref, parent |-> Top]]
  BY DEF CommentNumber
<1>2. PageTypeOK /\ IInv /\ cmt \in [Comments -> Row] /\ cmt[c].pc = "free"
  BY DEF PageIInv, IInv, TypeOK, Row, CommentNumber
<1>3. /\ cmt'[c].pc = "numbered" /\ cmt'[c].num = n + 1 /\ cmt'[c].ref = ref /\ cmt'[c].parent = Top
      /\ \A x \in Comments \ {c} : cmt'[x] = cmt[x]
  BY <1>1, <1>2
<1>4. IInv'  BY <1>2, NumberStep
<1>5. PageTypeOK'  BY <1>2 DEF PageTypeOK
<1>6. \A x \in Comments : Broadcast(x) => x # c /\ cmt'[x] = cmt[x]
  BY <1>2, <1>3 DEF Broadcast
<1>7. intent'[c] = target /\ \A x \in Comments \ {c} : intent'[x] = intent[x]
  BY <1>2 DEF PageTypeOK
<1>8. n + 1 > 0  BY <1>1, FS_CardinalityType, ConstantsAssumption
<1>9. ASSUME NEW x \in Comments
      PROVE  /\ cmt'[x].pc = "free" => intent'[x] = Top
             /\ cmt'[x].pc \in {"free", "numbered"} => cmt'[x].parent = Top
             /\ cmt'[x].pc # "free" => cmt'[x].num > 0
             /\ cmt'[x].pc \in {"sent", "kept"} /\ cmt'[x].parent = Top => cmt'[x].ref = 0
             /\ intent'[x] # Top => Broadcast(intent[x])' /\ cmt'[x].ref = cmt'[intent'[x]].num
  <2>1. CASE x = c
    <3>1. target # Top => target \in Comments /\ cmt'[target] = cmt[target]  BY <1>6
    <3> QED  BY <1>3, <1>7, <1>8, <2>1, <3>1 DEF Broadcast
  <2>2. CASE x # c
    <3>1. cmt'[x] = cmt[x] /\ intent'[x] = intent[x]  BY <1>3, <1>7, <2>2
    <3>2. intent[x] # Top => /\ Broadcast(intent[x]) /\ cmt[x].ref = cmt[intent[x]].num
                             /\ cmt'[intent[x]] = cmt[intent[x]]
      BY <1>2, <1>6 DEF PageIInv, PageTypeOK, Intending
    <3> QED  BY <3>1, <3>2 DEF PageIInv, Intending, Broadcast
  <2> QED  BY <2>1, <2>2
<1>10. Intending'  BY <1>9 DEF Intending
<1>11. AnswersWhereWritten'
  <2> SUFFICES ASSUME NEW x \in Comments, cmt'[x].pc \in {"sent", "kept"}, intent'[x] # Top
               PROVE  \/ cmt'[x].parent = intent'[x]
                      \/ cmt'[intent'[x]].pc \in {"gone", "void"}
                      \/ cmt'[intent'[x]].thread # cmt'[x].thread
    BY DEF AnswersWhereWritten
  <2>1. x # c /\ cmt'[x] = cmt[x] /\ intent'[x] = intent[x]  BY <1>3, <1>7
  <2>2. Broadcast(intent[x]) /\ intent[x] \in Comments  BY <1>2, <2>1 DEF PageIInv, PageTypeOK, Intending
  <2>3. cmt'[intent[x]] = cmt[intent[x]]  BY <1>6, <2>2
  <2> QED  BY <2>1, <2>3 DEF PageIInv, AnswersWhereWritten
<1>12. Advances /\ SameOrder  BY <1>6 DEF Advances, SameOrder
<1>13. ASSUME NEW u \in Users PROVE Following(u)'
  <2>1. InInbox(u)' = InInbox(u) /\ InInbox(u) \subseteq Comments
    BY <1>2, PageShapes DEF InInbox
  <2>2. \A x \in InInbox(u)' : Broadcast(x)'
    BY <1>6, <2>1 DEF PageIInv, Following, HeldBy, Broadcast
  <2>3. \A x \in Comments : cmt'[x].pc \in {"sent", "kept"} => cmt[x].pc \in {"sent", "kept"}
    BY <1>3
  <2> QED  BY <1>12, <2>1, <2>2, <2>3, PageWaits
<1> QED  BY <1>4, <1>5, <1>10, <1>11, <1>13 DEF PageIInv

LEMMA WriteStep ==
  ASSUME PageIInv, NEW u \in Users, NEW c \in Comments, NEW target \in Comments \cup {Top},
         Write(u, c, target)
  PROVE  PageIInv'
<1>1. PICK ref : ref = IF target = Top THEN 0 ELSE cmt[target].num  OBVIOUS
<1>2. CommentNumber(c, at[u], ref)  BY <1>1 DEF Write
<1>3. at[u] \in Threads  BY DEF Write, PageIInv, PageTypeOK
<1>4. cmt \in [Comments -> Row]  BY DEF PageIInv, IInv, TypeOK, Row
<1>5. ref \in Nat  BY <1>1, <1>4 DEF Row
<1>6. target # Top => Broadcast(target) /\ ref = cmt[target].num
  BY <1>1 DEF Write, PageIInv, Following, HeldBy
<1>7. /\ intent' = [intent EXCEPT ![c] = target]
      /\ UNCHANGED <<at, post, count, view, load, joining, room, inbox, moves, older, slipped, later,
                     jumped, outran>>
  BY DEF Write, pagingVars
<1> QED  BY <1>2, <1>3, <1>5, <1>6, <1>7, NumberedStep

LEMMA WriteElsewhereStep ==
  ASSUME PageIInv, NEW c \in Comments, NEW t \in Threads, WriteElsewhere(c, t)
  PROVE  PageIInv'
<1>1. CommentNumber(c, t, 0) /\ UNCHANGED pageVars  BY DEF WriteElsewhere
<1>2. UNCHANGED <<at, post, count, view, load, joining, room, inbox, moves, older, slipped, later,
                  jumped, outran>>
  BY <1>1 DEF pageVars, pagingVars
<1>3. intent[c] = Top /\ intent \in [Comments -> Comments \cup {Top}]
  BY <1>1 DEF PageIInv, PageTypeOK, Intending, CommentNumber
<1>4. intent' = [intent EXCEPT ![c] = Top]  BY <1>1, <1>3 DEF pageVars
<1> QED  BY <1>1, <1>2, <1>4, NumberedStep
\* What is pushed to the room reaches every page that hears it, and an answer whose number is
\* found hangs below the comment that has it: the one its writer saw, unless that is gone.
LEMMA SendPageStep ==
  ASSUME PageIInv, NEW c \in Comments, Send(c)
  PROVE  PageIInv'
<1>1. PICK parent : parent = IF cmt[c].ref = 0 THEN Top
                             ELSE CHOOSE p \in Numbered(cmt[c].thread, cmt[c].ref) : TRUE
  OBVIOUS
<1>2. /\ cmt[c].pc = "numbered" /\ ~Refused(c)
      /\ cmt' = [cmt EXCEPT ![c].pc = "sent", ![c].parent = parent]
      /\ inbox' = [u \in Users |-> IF u \in Listeners(c) THEN Append(inbox[u], c) ELSE inbox[u]]
      /\ UNCHANGED <<at, post, count, view, load, joining, room, moves, slipped, later, jumped, outran,
                     intent>>
  BY <1>1 DEF Send, CommentSend, pagingVars
<1>a. older' = [older EXCEPT ![c] = Of(cmt[c].thread, {"sent", "kept"})]  BY DEF Send
<1>b. Of(cmt[c].thread, {"sent", "kept"}) \subseteq Comments  BY DEF Of
<1>3. PageTypeOK /\ IInv /\ cmt \in [Comments -> Row]  BY DEF PageIInv, IInv, TypeOK, Row
<1>4. IInv'  BY <1>3, SendStep DEF Send
<1>5. cmt[c].ref # 0 => parent \in Numbered(cmt[c].thread, cmt[c].ref)
  BY <1>1, <1>2 DEF Refused
<1>6. cmt[c].ref # 0 => /\ parent \in Comments /\ cmt[parent].pc = "kept"
                        /\ cmt[parent].thread = cmt[c].thread /\ cmt[parent].num = cmt[c].ref
  BY <1>5 DEF Numbered, Kept, Of
<1>7. cmt[c].ref = 0 <=> parent = Top
  <2>1. cmt[c].ref = 0 => parent = Top  BY <1>1
  <2>2. cmt[c].ref # 0 => parent # Top  BY <1>6, ConstantsAssumption
  <2> QED  BY <2>1, <2>2
<1>8. /\ cmt'[c].pc = "sent" /\ cmt'[c].parent = parent /\ cmt'[c].ref = cmt[c].ref
      /\ cmt'[c].thread = cmt[c].thread /\ cmt'[c].num = cmt[c].num
      /\ \A x \in Comments \ {c} : cmt'[x] = cmt[x]
  BY <1>2, <1>3 DEF Row
<1>9. \A x \in Comments : Broadcast(x) => x # c /\ cmt'[x] = cmt[x]
  BY <1>2, <1>8 DEF Broadcast
<1>10. Advances  BY <1>9 DEF Advances
<1>c. SameOrder  BY <1>2, <1>3, <1>a DEF SameOrder, PageTypeOK
<1>11. ASSUME NEW x \in Comments, intent[x] # Top
       PROVE  /\ intent[x] \in Comments /\ Broadcast(intent[x]) /\ Broadcast(intent[x])'
              /\ cmt[x].ref = cmt[intent[x]].num
              /\ cmt'[intent[x]] = cmt[intent[x]]
  <2>1. intent[x] \in Comments /\ Broadcast(intent[x]) /\ cmt[x].ref = cmt[intent[x]].num
    BY <1>3, <1>11 DEF PageIInv, PageTypeOK, Intending
  <2> QED  BY <1>2, <1>9, <2>1 DEF Broadcast
<1>12. Intending'
  <2>1. ASSUME NEW x \in Comments
        PROVE  /\ cmt'[x].pc = "free" => intent[x] = Top
               /\ cmt'[x].pc \in {"free", "numbered"} => cmt'[x].parent = Top
               /\ cmt'[x].pc # "free" => cmt'[x].num > 0
               /\ cmt'[x].pc \in {"sent", "kept"} /\ cmt'[x].parent = Top => cmt'[x].ref = 0
               /\ cmt'[x].ref = cmt[x].ref
    <3>1. CASE x = c  BY <1>2, <1>7, <1>8, <3>1 DEF PageIInv, Intending
    <3>2. CASE x # c
      <4>1. cmt'[x] = cmt[x]  BY <1>8, <3>2
      <4> QED  BY <4>1 DEF PageIInv, Intending
    <3> QED  BY <3>1, <3>2
  <2>2. ASSUME NEW x \in Comments, intent'[x] # Top
        PROVE  Broadcast(intent[x])' /\ cmt'[x].ref = cmt'[intent'[x]].num
    <3>1. intent' = intent /\ intent[x] # Top  BY <1>2, <2>2
    <3>2. cmt'[x].ref = cmt'[intent[x]].num  BY <1>11, <2>1, <3>1
    <3> QED  BY <1>11, <3>1, <3>2
  <2> QED  BY <1>2, <2>1, <2>2 DEF Intending
<1>13. AnswersWhereWritten'
  <2> SUFFICES ASSUME NEW x \in Comments, cmt'[x].pc \in {"sent", "kept"}, intent[x] # Top
               PROVE  \/ cmt'[x].parent = intent[x]
                      \/ cmt'[intent[x]].pc \in {"gone", "void"}
                      \/ cmt'[intent[x]].thread # cmt'[x].thread
    BY <1>2 DEF AnswersWhereWritten
  <2>1. CASE x # c
    <3>1. cmt'[x] = cmt[x]  BY <1>8, <2>1
    <3>2. \/ cmt[x].parent = intent[x]
          \/ cmt[intent[x]].pc \in {"gone", "void"}
          \/ cmt[intent[x]].thread # cmt[x].thread
      BY <3>1 DEF PageIInv, AnswersWhereWritten
    <3>3. cmt'[intent[x]] = cmt[intent[x]]  BY <1>11
    <3> QED  BY <3>1, <3>2, <3>3
  <2>2. CASE x = c /\ cmt[intent[x]].pc \in {"sent", "kept"} /\ cmt[intent[x]].thread = cmt[c].thread
    <3>1. cmt[c].ref = cmt[intent[c]].num /\ intent[c] \in Comments  BY <1>11, <2>2
    <3>2. cmt[c].ref > 0  BY <2>2, <3>1 DEF PageIInv, Intending
    <3>3. cmt[c].ref # 0  BY <3>2
    <3>4. parent = intent[c]  BY <1>3, <1>6, <2>2, <3>1, <3>3, OneOwner
    <3> QED  BY <1>8, <2>2, <3>4
  <2>3. CASE x = c /\ ~(cmt[intent[x]].pc \in {"sent", "kept"} /\ cmt[intent[x]].thread = cmt[c].thread)
    BY <1>8, <1>11, <2>3 DEF Broadcast
  <2> QED  BY <2>1, <2>2, <2>3
<1>14. ASSUME NEW u \in Users
       PROVE  /\ inbox'[u] \in Seq(Comments) /\ InInbox(u) \subseteq InInbox(u)'
              /\ InInbox(u)' \subseteq InInbox(u) \cup {c}
              /\ cmt[c].thread \in room[u] => c \in InInbox(u)'
  <2>1. PICK s : s = inbox[u]  OBVIOUS
  <2>a. s \in Seq(Comments)  BY <1>3, <2>1 DEF PageTypeOK
  <2>2. InInbox(u) = ElementsOf(s)  BY <2>1 DEF InInbox, ElementsOf
  <2>3. PICK t : t = Append(s, c)  OBVIOUS
  <2>4. t \in Seq(Comments) /\ ElementsOf(t) = ElementsOf(s) \cup {c}
    BY <2>a, <2>3, AppendedElements, Zenon
  <2>5. inbox'[u] = IF u \in Listeners(c) THEN t ELSE s  BY <1>2, <2>1, <2>3
  <2>6. InInbox(u)' = IF u \in Listeners(c) THEN ElementsOf(t) ELSE ElementsOf(s)
    BY <2>5 DEF InInbox, ElementsOf
  <2> QED  BY <2>a, <2>2, <2>4, <2>5, <2>6 DEF Listeners
<1>15. PageTypeOK'
  <2>1. inbox' \in [Users -> Seq(Comments)]  BY <1>2, <1>14
  <2>2. older' \in [Comments -> SUBSET Comments]  BY <1>3, <1>a, <1>b DEF PageTypeOK
  <2> QED  BY <1>2, <1>3, <2>1, <2>2 DEF PageTypeOK
<1>16. ASSUME NEW u \in Users PROVE Following(u)'
  <2>1. InInbox(u) \subseteq Comments  BY <1>3, PageShapes
  <2>2. \A x \in InInbox(u) : Broadcast(x)  BY DEF PageIInv, Following, HeldBy
  <2>3. \A x \in InInbox(u)' : Broadcast(x)'  BY <1>8, <1>9, <1>14, <2>1, <2>2 DEF Broadcast
  <2>4. \A x \in Comments : /\ cmt'[x].pc \in {"sent", "kept"} /\ cmt[x].pc \notin {"sent", "kept"}
                            /\ cmt'[x].thread \in room[u]
                            => x \in InInbox(u)'
    BY <1>8, <1>14
  <2> QED  BY <1>2, <1>10, <1>c, <1>14, <2>3, <2>4, PageWaits
<1> QED  BY <1>4, <1>12, <1>13, <1>15, <1>16 DEF PageIInv

LEMMA PageNextIInv == PageIInv /\ [Next]_vars => PageIInv'
<1> SUFFICES ASSUME PageIInv, [Next]_vars PROVE PageIInv'  OBVIOUS
<1>1. CASE UNCHANGED vars
  <2>1. UNCHANGED serverVars /\ UNCHANGED pageVars  BY <1>1 DEF vars
  <2>2. IInv'  BY <2>1, NextIInv DEF PageIInv
  <2>3. Settles  BY <2>1 DEF Settles, serverVars
  <2> QED  BY <2>1, <2>2, <2>3, SettledStep
<1>2. CASE ServerNext /\ UNCHANGED pageVars
  <2>1. IInv'  BY <1>2, NextIInv DEF PageIInv
  <2> QED  BY <1>2, <2>1, ServerSettles, SettledStep DEF PageIInv
<1>3. CASE PageNext
  BY <1>3, OpenStep, JoinStep, LeaveStep, ShowPostStep, MoreStep, LoadReadStep, LoadShowStep,
     DeliverStep, ReconnectStep, WriteStep, SendPageStep, WriteElsewhereStep DEF PageNext
<1> QED  BY <1>1, <1>2, <1>3 DEF Next

\* The strengthened invariant of the pages holds in every state.
THEOREM PageInductive == Spec => []PageIInv
<1>1. PageInit => PageIInv  BY PageInitIInv
<1>2. PageIInv /\ [Next]_vars => PageIInv'  BY PageNextIInv
<1> QED  BY <1>1, <1>2, PTL DEF Spec

\* A page that shows all it asked for, is in its room and has received everything shows every
\* comment of its thread, but for the ones beyond the last page asked for, the ones that slipped
\* between the reading and the joining, the ones a page jumped over after the list had moved,
\* and those whose number is taken on the page by a comment that is gone or of another thread.
THEOREM LivePagesAreComplete == Spec => []LivePageIsComplete
<1>1. PageIInv => LivePageIsComplete
  <2> SUFFICES ASSUME PageIInv, NEW u \in Users, Live(u), NEW c \in Roots(at[u])
               PROVE  \/ c \in view[u] \cup slipped[u] \cup later[u]
                      \/ c \in jumped[u] /\ Shifted(u)
                      \/ \E d \in view[u] : /\ cmt[d].num = cmt[c].num
                                            /\ cmt[d].pc # "kept" \/ cmt[d].thread # at[u]
    BY DEF LivePageIsComplete
  <2>1. InInbox(u) = {}  BY DEF Live, InInbox
  <2>2. /\ c \in Of(at[u], {"sent", "kept"}) /\ cmt[c].thread = at[u] /\ cmt[c].parent = Top
    BY DEF Roots, Kept, Of
  <2>3. \E p \in Pages : Read(u, p)  BY DEF Live, Read
  <2>4. ReachedBy(u, c)  BY <2>2, <2>3 DEF PageIInv, Following, HearingBy, Live
  <2>5. \A p \in Pages : load[u][p].got = {}  BY DEF PageIInv, Following, HeldBy, Live
  <2>6. CASE Twin(u, c)  BY <2>2, <2>6 DEF Twin
  <2> QED  BY <2>1, <2>4, <2>5, <2>6 DEF ReachedBy
<1> QED  BY <1>1, PageInductive, PTL

\* An answer hangs below the comment its writer had before their eyes, unless that one is gone,
\* was never kept, or belongs to another thread.
THEOREM AnswersHangWhereWritten == Spec => []AnswersWhereWritten
<1>1. PageIInv => AnswersWhereWritten  BY DEF PageIInv
<1> QED  BY <1>1, PageInductive, PTL
\* The pages' state keeps its shapes, and only an open page has its thread.
THEOREM PageTypeCorrect == Spec => []PageTypeOK
<1>1. PageIInv => PageTypeOK  BY DEF PageIInv
<1> QED  BY <1>1, PageInductive, PTL

\* With pages writing, the server keeps what it keeps alone: the keys, the references and the
\* files, whatever number an answer refers to.
THEOREM PagesKeepTheServer == Spec => [](TypeOK /\ NoOrphans /\ FilesFollowRows)
<1>1. PageIInv => IInv  BY DEF PageIInv
<1>2. IInv => TypeOK /\ NoOrphans /\ FilesFollowRows  BY OrphansExcluded DEF IInv
<1> QED  BY <1>1, <1>2, PageInductive, PTL

\* Numbers run no further than there are comments: each is one more than that of a comment
\* there is, or the first.  So every number fits in a request, as CommentNext bounds them.
Written == {c \in Comments : cmt[c].pc # "free"}
Counted == \A c \in Written : cmt[c].num <= Cardinality(Written)

LEMMA WrittenFinite == IsFiniteSet(Written) /\ Cardinality(Written) \in Nat
                       /\ Cardinality(Written) <= Cardinality(Comments)
                       /\ Cardinality(Comments) \in Nat
<1>1. Written \in SUBSET Comments  BY DEF Written
<1> QED  BY <1>1, ConstantsAssumption, FS_Subset, FS_CardinalityType

LEMMA NumberingCounts ==
  ASSUME IInv, Counted, NEW c \in Comments, NEW t \in Threads, NEW ref \in Nat,
         CommentNumber(c, t, ref)
  PROVE  Counted'
<1>1. PICK n \in 0..Cardinality(Comments) :
        /\ Highest(t, n)
        /\ cmt' = [cmt EXCEPT ![c] = [pc |-> "numbered", thread |-> t, num |-> n + 1,
                                      ref |-> ref, parent |-> Top]]
  BY DEF CommentNumber
<1>2. cmt \in [Comments -> Row] /\ c \notin Written  BY DEF IInv, TypeOK, Row, CommentNumber, Written
<1>3. PICK w : w = Cardinality(Written)  OBVIOUS
<1>4. w \in Nat /\ n \in Nat  BY <1>1, <1>3, WrittenFinite
<1>5. n <= w
  <2>1. CASE n = 0  BY <1>4, <2>1
  <2>2. CASE n # 0
    <3>1. PICK d \in Numbered(t, n) : TRUE  BY <1>1, <2>2 DEF Highest
    <3>2. d \in Written /\ cmt[d].num = n  BY <3>1 DEF Numbered, Kept, Of, Written
    <3> QED  BY <1>3, <3>2 DEF Counted
  <2> QED  BY <2>1, <2>2
<1>6. /\ cmt'[c].num = n + 1 /\ cmt'[c].pc = "numbered"
      /\ \A d \in Comments \ {c} : cmt'[d] = cmt[d]
  BY <1>1, <1>2
<1>7. Written' = Written \cup {c}  BY <1>6 DEF Written
<1>8. Cardinality(Written') = w + 1
  <2>1. Cardinality(Written \cup {c}) = Cardinality(Written) + 1
    BY <1>2, WrittenFinite, FS_AddElement
  <2> QED  BY <1>3, <1>7, <2>1
<1>9. ASSUME NEW d \in Written' PROVE cmt'[d].num <= w + 1
  <2>1. CASE d = c  BY <1>4, <1>5, <1>6, <2>1
  <2>2. CASE d # c
    <3>1. d \in Written /\ d \in Comments /\ cmt'[d] = cmt[d]  BY <1>6, <1>7, <1>9, <2>2 DEF Written
    <3>2. cmt[d].num <= w  BY <1>3, <3>1 DEF Counted
    <3>3. cmt[d].num \in Nat  BY <1>2, <3>1 DEF Row
    <3> QED  BY <1>4, <3>1, <3>2, <3>3
  <2> QED  BY <2>1, <2>2
<1> QED  BY <1>8, <1>9 DEF Counted

LEMMA RowsCount ==
  ASSUME Counted, \A c \in Comments : /\ cmt'[c].num = cmt[c].num
                                      /\ cmt'[c].pc = "free" <=> cmt[c].pc = "free"
  PROVE  Counted'
<1>1. Written' = Written  BY DEF Written
<1>2. \A c \in Written : cmt'[c].num = cmt[c].num  BY DEF Written
<1> QED  BY <1>1, <1>2 DEF Counted

\* What a page writes carries the number of a comment the page has, or none.
LEMMA WriteIsServed ==
  ASSUME PageIInv, Counted, NEW u \in Users, NEW c \in Comments,
         NEW target \in Comments \cup {Top}, Write(u, c, target)
  PROVE  \E t \in Threads, ref \in 0..Cardinality(Comments) : CommentNumber(c, t, ref)
<1>1. PICK ref : ref = IF target = Top THEN 0 ELSE cmt[target].num  OBVIOUS
<1>2. CommentNumber(c, at[u], ref) /\ at[u] \in Threads
  BY <1>1 DEF Write, PageIInv, PageTypeOK
<1>3. ref \in 0..Cardinality(Comments)
  <2>1. CASE target = Top  BY <1>1, <2>1, WrittenFinite
  <2>2. CASE target # Top
    <3>1. Broadcast(target)  BY <2>2 DEF Write, PageIInv, Following, HeldBy
    <3>2. target \in Written  BY <2>2, <3>1 DEF Written, Broadcast
    <3>3. ref \in Nat  BY <1>1, <2>2 DEF PageIInv, IInv, TypeOK
    <3>4. ref <= Cardinality(Written)  BY <1>1, <2>2, <3>2 DEF Counted
    <3> QED  BY <3>3, <3>4, WrittenFinite
  <2> QED  BY <2>1, <2>2
<1> QED  BY <1>2, <1>3

\* A step of the pages is a step of the server, or none of its business.
LEMMA PageStepIsServed ==
  ASSUME PageIInv, Counted, [Next]_vars
  PROVE  [ServerNext \/ CommentNext]_serverVars /\ Counted'
<1>1. CASE UNCHANGED vars
  <2>1. UNCHANGED serverVars  BY <1>1 DEF vars
  <2>2. Counted'  BY <2>1 DEF serverVars, Counted, Written
  <2> QED  BY <2>1, <2>2
<1>2. CASE ServerNext
  <2>1. Settles  BY <1>2, ServerSettles DEF PageIInv
  <2>2. Counted'
    <3>1. \A c \in Comments : /\ cmt'[c].num = cmt[c].num
                              /\ cmt'[c].pc = "free" <=> cmt[c].pc = "free"
      BY <2>1 DEF Settles
    <3> QED  BY <3>1, RowsCount
  <2> QED  BY <1>2, <2>2
<1>3. ASSUME NEW u \in Users,
             \/ \E t \in Threads : Open(u, t) \/ Join(u, t)
             \/ Leave(u) \/ ShowPost(u) \/ Deliver(u) \/ Reconnect(u)
             \/ \E p \in Pages : More(u, p) \/ LoadRead(u, p) \/ LoadShow(u, p)
      PROVE  [ServerNext \/ CommentNext]_serverVars /\ Counted'
  <2>1. UNCHANGED serverVars
    BY <1>3 DEF Open, Join, Leave, ShowPost, More, LoadRead, LoadShow, Deliver, Reconnect
  <2>2. Counted'  BY <2>1 DEF serverVars, Counted, Written
  <2> QED  BY <2>1, <2>2
<1>4. ASSUME NEW c \in Comments, NEW t \in Threads, NEW ref \in 0..Cardinality(Comments),
             CommentNumber(c, t, ref)
      PROVE  [ServerNext \/ CommentNext]_serverVars /\ Counted'
  <2>1. Counted'  BY <1>4, WrittenFinite, NumberingCounts DEF PageIInv
  <2> QED  BY <1>4, <2>1 DEF CommentNext
<1>5. ASSUME NEW u \in Users, NEW c \in Comments, NEW target \in Comments \cup {Top},
             Write(u, c, target)
      PROVE  [ServerNext \/ CommentNext]_serverVars /\ Counted'
  <2>1. PICK t \in Threads, ref \in 0..Cardinality(Comments) : CommentNumber(c, t, ref)
    BY <1>5, WriteIsServed
  <2> QED  BY <1>4, <2>1
<1>6. ASSUME NEW c \in Comments, NEW t \in Threads, WriteElsewhere(c, t)
      PROVE  [ServerNext \/ CommentNext]_serverVars /\ Counted'
  <2>1. CommentNumber(c, t, 0) /\ 0 \in 0..Cardinality(Comments)
    BY <1>6, WrittenFinite DEF WriteElsewhere
  <2> QED  BY <1>4, <2>1
<1>7. ASSUME NEW c \in Comments, Send(c)
      PROVE  [ServerNext \/ CommentNext]_serverVars /\ Counted'
  <2>1. CommentSend(c)  BY <1>7 DEF Send
  <2>2. Counted'
    <3>1. PICK parent : cmt' = [cmt EXCEPT ![c].pc = "sent", ![c].parent = parent]
      BY <2>1 DEF CommentSend
    <3>2. cmt \in [Comments -> Row] /\ cmt[c].pc = "numbered"
      BY <2>1 DEF PageIInv, IInv, TypeOK, Row, CommentSend
    <3>3. \A d \in Comments : /\ cmt'[d].num = cmt[d].num
                              /\ cmt'[d].pc = "free" <=> cmt[d].pc = "free"
      BY <3>1, <3>2 DEF Row
    <3> QED  BY <3>3, RowsCount
  <2> QED  BY <2>1, <2>2 DEF CommentNext
<1> QED  BY <1>1, <1>2, <1>3, <1>5, <1>6, <1>7 DEF Next, PageNext

\* The pages use thread.service.ts and comment.service.ts as ServerSpec lets anybody use them:
\* each of their steps is a request or a step of the server with the number of a comment there
\* is, or leaves its rows alone.  Every theorem about ServerSpec is one about Spec.
THEOREM PagesUseTheServer == Spec => ServerSpec
<1>1. PageInit => Init /\ PageIInv /\ Counted
  <2>1. PageInit => Init  BY DEF PageInit
  <2>2. ASSUME Init PROVE Written = {}
    <3>1. \A c \in Comments : cmt[c].pc = "free"  BY <2>2 DEF Init, Unwritten
    <3> QED  BY <3>1 DEF Written
  <2> QED  BY <2>1, <2>2, PageInitIInv DEF Counted
<1>2. PageIInv /\ Counted /\ [Next]_vars =>
        PageIInv' /\ Counted' /\ [ServerNext \/ CommentNext]_serverVars
  BY PageNextIInv, PageStepIsServed
<1> QED  BY <1>1, <1>2, PTL DEF Spec, ServerSpec
=============================================================================
