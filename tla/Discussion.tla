------------------------------- MODULE Discussion -------------------------------
(***************************************************************************)
(* The threads of a class, their comments and followers, as                *)
(* thread.service.ts and comment.service.ts keep them, and what the        *)
(* listeners of background-job.service.ts tell.  The number of a comment   *)
(* is read outside the transaction that inserts it; events, broadcasts and *)
(* the deletion of files leave inside the transaction, before it commits.  *)
(***************************************************************************)
EXTENDS Naturals, FiniteSets

CONSTANTS
  Threads,
  Existing,   \* the threads there are at the start
  Followers,  \* the users who may follow a thread
  Comments,   \* the comments that may ever be written; each is one request
  Deleters,   \* requests that delete a comment or a thread
  Top,        \* the parent of a comment that answers none
  NoThread

ASSUME ConstantsAssumption ==
  /\ IsFiniteSet(Comments) /\ Top \notin Comments
  /\ Existing \subseteq Threads
  /\ NoThread \notin Threads

VARIABLES
  thread,   \* none, inserted (uncommitted), kept, gone, void (rolled back)
  news,     \* the event 'thread.new' of each thread: none, pending, told, lost
  follows,  \* the rows of Follow
  cmt,      \* per comment: how far its request has come, and its row
  del,      \* per deleter: how far it has come, what it deletes, the files it collected
  purged,   \* comments whose files Cloudinary was told to destroy
  undone,   \* history: files destroyed by a deletion that rolled back
  unseen    \* history: comments committed below a deletion that had collected its files

threadVars == <<thread, news, follows>>
deletionVars == <<del, purged, undone>>
serverVars == <<threadVars, cmt, deletionVars, unseen>>

Unwritten == [pc |-> "free", thread |-> NoThread, num |-> 0, ref |-> 0, parent |-> Top]
NoDeletion == [pc |-> "idle", thread |-> NoThread, root |-> Top, files |-> {}]
Done == [NoDeletion EXCEPT !.pc = "done"]

Init ==
  /\ thread = [t \in Threads |-> IF t \in Existing THEN "kept" ELSE "none"]
  /\ news = [t \in Threads |-> "none"]
  /\ follows = {}
  /\ cmt = [c \in Comments |-> Unwritten]
  /\ del = [d \in Deleters |-> NoDeletion]
  /\ purged = {} /\ undone = {} /\ unseen = {}

Of(t, pcs) == {c \in Comments : cmt[c].thread = t /\ cmt[c].pc \in pcs}
Kept(t) == Of(t, {"kept"})
Sent(t) == Of(t, {"sent"})
Numbered(t, n) == {c \in Kept(t) : cmt[c].num = n}

------------------------------------------------------------------------------
(* createThread, followThread and unfollowThread *)

ThreadInsert(t) ==
  /\ thread[t] = "none"
  /\ thread' = [thread EXCEPT ![t] = "inserted"]
  /\ news' = [news EXCEPT ![t] = "pending"]
  /\ UNCHANGED <<follows, cmt, deletionVars, unseen>>

ThreadEnd(t) ==
  /\ thread[t] = "inserted"
  /\ \E outcome \in {"kept", "void"} : thread' = [thread EXCEPT ![t] = outcome]
  /\ UNCHANGED <<news, follows, cmt, deletionVars, unseen>>

\* The listener looks for the thread over another connection; before the commit it finds
\* nothing, throws, and nobody is told.
NewsFound(t) == thread[t] = "kept"

TellClass(t) ==
  /\ news[t] = "pending"
  /\ news' = [news EXCEPT ![t] = IF NewsFound(t) THEN "told" ELSE "lost"]
  /\ UNCHANGED <<thread, follows, cmt, deletionVars, unseen>>

Follow(u, t) ==
  /\ thread[t] = "kept"
  /\ follows' = follows \cup {<<t, u>>}
  /\ UNCHANGED <<thread, news, cmt, deletionVars, unseen>>

Unfollow(u, t) ==
  /\ <<t, u>> \in follows
  /\ follows' = follows \ {<<t, u>>}
  /\ UNCHANGED <<thread, news, cmt, deletionVars, unseen>>

------------------------------------------------------------------------------
(* createComment *)

Highest(t, n) ==
  /\ \A c \in Kept(t) : cmt[c].num <= n
  /\ n = 0 \/ Numbered(t, n) # {}

\* ref is the number of the comment it answers, 0 for none.
CommentNumber(c, t, ref) ==
  /\ cmt[c].pc = "free" /\ thread[t] = "kept"
  /\ \E n \in 0..Cardinality(Comments) :
       /\ Highest(t, n)
       /\ cmt' = [cmt EXCEPT ![c] = [pc |-> "numbered", thread |-> t, num |-> n + 1,
                                     ref |-> ref, parent |-> Top]]
  /\ UNCHANGED <<threadVars, deletionVars, unseen>>

Refused_NumberTaken(c) ==
  \/ thread[cmt[c].thread] # "kept"
  \/ cmt[c].ref # 0 /\ Numbered(cmt[c].thread, cmt[c].ref) = {}

\* The primary key, and the foreign keys to the thread and the parent.
Refused(c) ==
  \/ thread[cmt[c].thread] # "kept"
  \/ Numbered(cmt[c].thread, cmt[c].num) # {}
  \/ cmt[c].ref # 0 /\ Numbered(cmt[c].thread, cmt[c].ref) = {}

\* The insert waits for an uncommitted row with the same number.  Once it has its row the
\* transaction broadcasts it.
CommentSend(c) ==
  LET t == cmt[c].thread
  IN /\ cmt[c].pc = "numbered"
     /\ \A d \in Sent(t) : cmt[d].num # cmt[c].num
     /\ ~Refused(c)
     /\ cmt' = [cmt EXCEPT ![c].pc = "sent", ![c].parent =
                  IF cmt[c].ref = 0 THEN Top
                  ELSE CHOOSE p \in Numbered(t, cmt[c].ref) : TRUE]
     /\ UNCHANGED <<threadVars, deletionVars, unseen>>

\* What hangs below a comment: the smallest set that holds it and its kept answers.
Below(root) ==
  LET Closed(S) == \A c \in Comments : cmt[c].pc = "kept" /\ cmt[c].parent \in S => c \in S
  IN {c \in Comments : \A S \in SUBSET Comments : root \in S /\ Closed(S) => c \in S}

Doomed_NoCascade(d) == IF del[d].root = Top THEN Kept(del[d].thread) ELSE {del[d].root}

Doomed(d) == IF del[d].root = Top THEN Kept(del[d].thread) ELSE Below(del[d].root)

CommentCommit(c) ==
  /\ cmt[c].pc = "sent"
  /\ cmt' = [cmt EXCEPT ![c].pc = "kept"]
  /\ unseen' = unseen \cup {x \in {c} : \E d \in Deleters : del[d].thread = cmt[c].thread}
  /\ UNCHANGED <<threadVars, deletionVars>>

\* A refused row, or any failure until the commit; what was emitted stays emitted.
CommentAbort(c) ==
  /\ cmt[c].pc \in {"numbered", "sent"}
  /\ cmt' = [cmt EXCEPT ![c].pc = "void"]
  /\ UNCHANGED <<threadVars, deletionVars, unseen>>

------------------------------------------------------------------------------
(* deleteComment and deleteThread *)

Files_OneLevel(root) == {root} \cup {c \in Comments : cmt[c].pc = "kept" /\ cmt[c].parent = root}

\* collectFilesOfDeleteBranch goes down the whole branch.
Files(root) == Below(root)

CollectComment(d, c) ==
  /\ del[d].pc = "idle" /\ cmt[c].pc = "kept"
  /\ del' = [del EXCEPT ![d] = [pc |-> "collected", thread |-> cmt[c].thread, root |-> c,
                                files |-> Files(c)]]
  /\ UNCHANGED <<threadVars, cmt, purged, undone, unseen>>

CollectThread(d, t) ==
  /\ del[d].pc = "idle" /\ thread[t] = "kept"
  /\ del' = [del EXCEPT ![d] = [pc |-> "collected", thread |-> t, root |-> Top, files |-> Kept(t)]]
  /\ UNCHANGED <<threadVars, cmt, purged, undone, unseen>>

Exists(d) == IF del[d].root = Top THEN thread[del[d].thread] = "kept"
             ELSE cmt[del[d].root].pc = "kept"

\* The delete cascades to the answers, or to the comments of the thread; it waits for
\* uncommitted rows that reference what it removes.  Follow does not cascade: a thread
\* somebody follows cannot be deleted.
Delete(d) ==
  LET all == del[d].root = Top
      t == del[d].thread
  IN /\ del[d].pc = "collected" /\ Exists(d)
     /\ all => ~\E u \in Followers : <<t, u>> \in follows
     /\ \A c \in Sent(t) : ~all /\ cmt[c].parent \notin Doomed(d)
     /\ \/ /\ cmt' = [c \in Comments |-> IF c \in Doomed(d) THEN [cmt[c] EXCEPT !.pc = "gone"]
                                         ELSE cmt[c]]
           /\ thread' = IF all THEN [thread EXCEPT ![t] = "gone"] ELSE thread
           /\ UNCHANGED undone
        \/ undone' = undone \cup del[d].files /\ UNCHANGED <<cmt, thread>>
     /\ purged' = purged \cup del[d].files
     /\ del' = [del EXCEPT ![d] = Done]
     /\ UNCHANGED <<news, follows, unseen>>

\* Somebody else deleted it, somebody follows the thread, or a statement failed.
DeleteAbort(d) ==
  /\ del[d].pc = "collected"
  /\ del' = [del EXCEPT ![d] = Done]
  /\ UNCHANGED <<threadVars, cmt, purged, undone, unseen>>

------------------------------------------------------------------------------

\* What needs no page.
ServerNext ==
  \/ \E t \in Threads : ThreadInsert(t) \/ ThreadEnd(t) \/ TellClass(t)
  \/ \E t \in Threads, u \in Followers : Follow(u, t) \/ Unfollow(u, t)
  \/ \E c \in Comments : CommentCommit(c) \/ CommentAbort(c)
  \/ \E d \in Deleters :
       \/ \E c \in Comments : CollectComment(d, c)
       \/ \E t \in Threads : CollectThread(d, t)
       \/ Delete(d) \/ DeleteAbort(d)

\* What a page sends: a comment that answers another, by its number, or none.
CommentNext ==
  \E c \in Comments :
    \/ \E t \in Threads, ref \in 0..Cardinality(Comments) : CommentNumber(c, t, ref)
    \/ CommentSend(c)

ServerSpec == Init /\ [][ServerNext \/ CommentNext]_serverVars

------------------------------------------------------------------------------
(* Properties *)

OnePerNumber(t) ==
  \A c, d \in Of(t, {"kept", "sent"}) : cmt[c].num = cmt[d].num => c = d

\* The rows keep the shapes and the keys of the schema, and a deletion holds what it
\* collected.  Comments written at once read the same highest number: no two comments of a
\* thread ever share one, committed or not.
TypeOK ==
  /\ thread \in [Threads -> {"none", "inserted", "kept", "gone", "void"}]
  /\ news \in [Threads -> {"none", "pending", "told", "lost"}]
  /\ follows \subseteq Threads \X Followers
  /\ cmt \in [Comments ->
       [pc : {"free", "numbered", "sent", "kept", "gone", "void"}, thread : Threads \cup {NoThread},
        num : Nat, ref : Nat, parent : Comments \cup {Top}]]
  /\ del \in [Deleters ->
       [pc : {"idle", "collected", "done"}, thread : Threads \cup {NoThread},
        root : Comments \cup {Top}, files : SUBSET Comments]]
  /\ purged \subseteq Comments /\ undone \subseteq Comments /\ unseen \subseteq Comments
  /\ \A t \in Threads : OnePerNumber(t)

\* Nobody is told of a thread that was never kept, although the event leaves before the
\* commit; no follower and no comment outlives its thread, and no answer the comment it
\* answers, although deletions collect first and delete later.
NoOrphans ==
  /\ \A t \in Threads : news[t] = "told" => thread[t] \in {"kept", "gone"}
  /\ \A f \in follows : thread[f[1]] = "kept"
  /\ \A t \in Threads : \A c \in Of(t, {"kept", "sent"}) :
       /\ thread[t] = "kept"
       /\ cmt[c].parent # Top => cmt[cmt[c].parent].pc = "kept" /\ cmt[cmt[c].parent].thread = t

\* 'cloudinary.delete' goes with the rows: the files of a deleted comment are destroyed, unless
\* it was committed after the deletion had collected them, and the files of a comment that is
\* still there only if the deletion rolled back after its event.
FilesFollowRows ==
  \A c \in Comments :
    /\ cmt[c].pc = "gone" => c \in purged \cup unseen
    /\ cmt[c].pc = "kept" => c \notin purged \ undone
=============================================================================
