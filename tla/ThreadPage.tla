------------------------------- MODULE ThreadPage -------------------------------
(***************************************************************************)
(* ThreadDetailPage.jsx over Discussion: opening a thread asks for its     *)
(* comments over HTTP and joins its room over the socket, in no order; new *)
(* comments are pushed to the room.  The socket outlives the page: it      *)
(* never leaves a room, and after a reconnection it is in none.  Comments  *)
(* are loaded by pages, newest first, and a page is cut out of the list as *)
(* it is when the request is served.                                       *)
(***************************************************************************)
EXTENDS Discussion, Sequences

CONSTANTS
  Users,     \* the users who open pages
  PageSize,  \* the comments one request for comments takes: ten
  MaxMoves   \* bound on the pages opened, the pages turned and the connections broken

ASSUME PageAssumption == MaxMoves \in Nat /\ PageSize \in Nat \ {0}

VARIABLES
  at,       \* per user: the thread on the page, or NoThread
  post,     \* whether the thread itself has arrived on the page
  count,    \* the number of comments that came with it
  view,     \* the comments on the page, at any depth
  load,     \* the requests for comments, by page: none, asked, answered, shown; and the answer
  joining,  \* 'join_thread' messages on their way
  room,     \* the rooms the user's socket is in
  inbox,    \* 'receive_comment' messages on their way, in order
  moves,
  older,    \* per comment: those that had their rows when it got its own (createAt)
  slipped,  \* history: comments already broadcast, but not yet readable or not joined for
  later,    \* history: comments beyond the last page that was read, when it was
  jumped,   \* history: comments before a page, when it was read, that the user did not have
  outran,   \* history: whether a page was read before an earlier one
  intent    \* history: the comment the writer of each answer had before their eyes

pagingVars == <<later, jumped, outran>>
pageVars == <<at, post, count, view, load, joining, room, inbox, moves, older, slipped,
              pagingVars, intent>>
vars == <<serverVars, pageVars>>

Pages == 1..MaxMoves
NotLoaded == [p \in Pages |-> [pc |-> "none", got |-> {}]]
Asked == [pc |-> "asked", got |-> {}]

PageInit ==
  /\ Init
  /\ at = [u \in Users |-> NoThread]
  /\ post = [u \in Users |-> FALSE]
  /\ count = [u \in Users |-> 0]
  /\ view = [u \in Users |-> {}]
  /\ load = [u \in Users |-> NotLoaded]
  /\ joining = [u \in Users |-> {}]
  /\ room = [u \in Users |-> {}]
  /\ inbox = [u \in Users |-> <<>>]
  /\ moves = 0
  /\ older = [c \in Comments |-> {}]
  /\ slipped = [u \in Users |-> {}]
  /\ later = [u \in Users |-> {}]
  /\ jumped = [u \in Users |-> {}]
  /\ outran = [u \in Users |-> FALSE]
  /\ intent = [c \in Comments |-> Top]

InInbox(u) == {inbox[u][i] : i \in DOMAIN inbox[u]}
Got(u) == UNION {load[u][p].got : p \in Pages}
Read(u, p) == load[u][p].pc \in {"answered", "shown"}

Open(u, t) ==
  /\ at[u] = NoThread /\ thread[t] = "kept" /\ moves < MaxMoves
  /\ moves' = moves + 1
  /\ at' = [at EXCEPT ![u] = t]
  /\ load' = [load EXCEPT ![u][1] = Asked]
  /\ joining' = [joining EXCEPT ![u] = @ \cup {t}]
  /\ UNCHANGED <<serverVars, post, count, view, room, inbox, older, slipped, pagingVars, intent>>

\* Unmounting forgets the comments; nothing tells the server to leave the room.
Leave(u) ==
  /\ at[u] # NoThread
  /\ at' = [at EXCEPT ![u] = NoThread]
  /\ post' = [post EXCEPT ![u] = FALSE]
  /\ count' = [count EXCEPT ![u] = 0]
  /\ view' = [view EXCEPT ![u] = {}]
  /\ load' = [load EXCEPT ![u] = NotLoaded]
  /\ slipped' = [slipped EXCEPT ![u] = {}]
  /\ later' = [later EXCEPT ![u] = {}]
  /\ jumped' = [jumped EXCEPT ![u] = {}]
  /\ outran' = [outran EXCEPT ![u] = FALSE]
  /\ UNCHANGED <<serverVars, joining, room, inbox, moves, older, intent>>

\* getThreadById has answered: the page can be written on, and its effect joins once more.
\* The answer counts the comments of the thread, answers included.
ShowPost(u) ==
  /\ at[u] # NoThread /\ ~post[u]
  /\ post' = [post EXCEPT ![u] = TRUE]
  /\ count' = [count EXCEPT ![u] = Cardinality(Kept(at[u]))]
  /\ joining' = [joining EXCEPT ![u] = @ \cup {at[u]}]
  /\ UNCHANGED <<serverVars, at, view, load, room, inbox, moves, older, slipped, pagingVars, intent>>

Missed(u, t, pcs) ==
  {c \in Of(t, pcs) : cmt[c].parent = Top /\ c \notin Got(u) \cup view[u] \cup InInbox(u)}

Join(u, t) ==
  /\ t \in joining[u]
  /\ joining' = [joining EXCEPT ![u] = @ \ {t}]
  /\ room' = [room EXCEPT ![u] = @ \cup {t}]
  /\ slipped' = [slipped EXCEPT ![u] =
       IF at[u] = t /\ t \notin room[u] /\ \E p \in Pages : Read(u, p)
         THEN @ \cup (Missed(u, t, {"sent", "kept"}) \ later[u]) ELSE @]
  /\ UNCHANGED <<serverVars, at, post, count, view, load, inbox, moves, older, pagingVars, intent>>

\* 'Xem thêm' asks for the page after p as long as the thread came with more comments than
\* p pages hold; it does not wait for the pages asked for before.
More(u, p) ==
  /\ post[u] /\ count[u] > p * PageSize
  /\ moves < MaxMoves /\ p + 1 \in Pages
  /\ load[u][p].pc # "none" /\ load[u][p + 1].pc = "none"
  /\ moves' = moves + 1
  /\ load' = [load EXCEPT ![u][p + 1] = Asked]
  /\ UNCHANGED <<serverVars, at, post, count, view, joining, room, inbox, older, slipped,
                 pagingVars, intent>>

\* The comments of a thread that answer no other, and the place of each: 1 is the newest.
Roots(t) == {c \in Kept(t) : cmt[c].parent = Top}
Newer(c) == {d \in Roots(cmt[c].thread) : d = c \/ c \in older[d]}
Place(c) == Cardinality(Newer(c))

Skipped(p, c) == Place(c) <= (p - 1) * PageSize
Beyond(p, c) == Place(c) > p * PageSize

\* getCommentsByThread(threadId, null, p), against the list as it is now.
LoadRead(u, p) ==
  /\ load[u][p].pc = "asked"
  /\ load' = [load EXCEPT ![u][p] =
       [pc |-> "answered", got |-> {c \in Roots(at[u]) : ~Skipped(p, c) /\ ~Beyond(p, c)}]]
  /\ slipped' = [slipped EXCEPT ![u] = @ \cup Missed(u, at[u], {"sent"})]
  /\ later' = [later EXCEPT ![u] =
       IF \E q \in Pages : q > p /\ Read(u, q) THEN @ ELSE {c \in Roots(at[u]) : Beyond(p, c)}]
  /\ jumped' = [jumped EXCEPT ![u] =
       @ \cup {c \in Missed(u, at[u], {"kept"}) : Skipped(p, c)}]
  /\ outran' = [outran EXCEPT ![u] = @ \/ \E q \in Pages : q < p /\ ~Read(u, q)]
  /\ UNCHANGED <<serverVars, at, post, count, view, joining, room, inbox, moves, older, intent>>

Numbers(cs) == {cmt[c].num : c \in cs}

Merge_Replace(old, new) == new

\* What is on the page stays; a loaded comment whose number is there already is left out.
Merge(old, new) ==
  old \cup {c \in new : cmt[c].num \notin Numbers({d \in old : cmt[d].parent = Top})}

LoadShow(u, p) ==
  /\ load[u][p].pc = "answered"
  /\ view' = [view EXCEPT ![u] = Merge(@, load[u][p].got)]
  /\ load' = [load EXCEPT ![u][p] = [pc |-> "shown", got |-> {}]]
  /\ UNCHANGED <<serverVars, at, post, count, joining, room, inbox, moves, older, slipped,
                 pagingVars, intent>>

\* handleReceiveComment: a number the page has anywhere is a duplicate; an answer to a
\* number it does not have is dropped.  Nothing compares the thread.
Shows(u, c) ==
  /\ at[u] # NoThread
  /\ cmt[c].num \notin Numbers(view[u])
  /\ cmt[c].ref # 0 => cmt[c].ref \in Numbers(view[u])

Deliver(u) ==
  /\ inbox[u] # <<>>
  /\ LET c == Head(inbox[u])
     IN view' = [view EXCEPT ![u] = IF Shows(u, c) THEN @ \cup {c} ELSE @]
  /\ inbox' = [inbox EXCEPT ![u] = Tail(@)]
  /\ UNCHANGED <<serverVars, at, post, count, load, joining, room, moves, older, slipped,
                 pagingVars, intent>>

\* The connection breaks and comes back; what was on its way to the page is lost, what the page
\* was sending may be.  Nobody joins the rooms again.
Reconnect(u) ==
  /\ room[u] # {} \/ joining[u] # {}
  /\ moves < MaxMoves
  /\ moves' = moves + 1
  /\ room' = [room EXCEPT ![u] = {}]
  /\ \E buffered \in SUBSET joining[u] : joining' = [joining EXCEPT ![u] = buffered]
  /\ inbox' = [inbox EXCEPT ![u] = <<>>]
  /\ UNCHANGED <<serverVars, at, post, count, view, load, older, slipped, pagingVars, intent>>

\* The writer answers a comment of the page, or none; the request carries its number.
Write(u, c, target) ==
  /\ post[u]
  /\ target \in view[u] \cup {Top}
  /\ CommentNumber(c, at[u], IF target = Top THEN 0 ELSE cmt[target].num)
  /\ intent' = [intent EXCEPT ![c] = target]
  /\ UNCHANGED <<at, post, count, view, load, joining, room, inbox, moves, older, slipped,
                 pagingVars>>

\* Comments also come from pages that are not modelled.
WriteElsewhere(c, t) ==
  /\ CommentNumber(c, t, 0)
  /\ UNCHANGED pageVars

Listeners(c) == {u \in Users : cmt[c].thread \in room[u]}

Send(c) ==
  /\ CommentSend(c)
  /\ inbox' = [u \in Users |-> IF u \in Listeners(c) THEN Append(inbox[u], c) ELSE inbox[u]]
  /\ older' = [older EXCEPT ![c] = Of(cmt[c].thread, {"sent", "kept"})]
  /\ UNCHANGED <<at, post, count, view, load, joining, room, moves, slipped, pagingVars, intent>>

PageNext ==
  \/ \E u \in Users :
       \/ \E t \in Threads : Open(u, t) \/ Join(u, t)
       \/ Leave(u) \/ ShowPost(u) \/ Deliver(u) \/ Reconnect(u)
       \/ \E p \in Pages : More(u, p) \/ LoadRead(u, p) \/ LoadShow(u, p)
       \/ \E c \in Comments, target \in Comments \cup {Top} : Write(u, c, target)
  \/ \E c \in Comments : Send(c) \/ \E t \in Threads : WriteElsewhere(c, t)

Next == PageNext \/ (ServerNext /\ UNCHANGED pageVars)

Spec == PageInit /\ [][Next]_vars

------------------------------------------------------------------------------
(* Properties *)

\* The page's state has the shape of the component's and the socket's; only an open page
\* has its thread.
PageTypeOK ==
  /\ at \in [Users -> Threads \cup {NoThread}]
  /\ post \in [Users -> BOOLEAN] /\ \A u \in Users : post[u] => at[u] # NoThread
  /\ count \in [Users -> Nat]
  /\ view \in [Users -> SUBSET Comments]
  /\ load \in [Users -> [Pages ->
       [pc : {"none", "asked", "answered", "shown"}, got : SUBSET Comments]]]
  /\ joining \in [Users -> SUBSET Threads] /\ room \in [Users -> SUBSET Threads]
  /\ inbox \in [Users -> Seq(Comments)]
  /\ moves \in 0..MaxMoves
  /\ older \in [Comments -> SUBSET Comments]
  /\ slipped \in [Users -> SUBSET Comments]
  /\ later \in [Users -> SUBSET Comments] /\ jumped \in [Users -> SUBSET Comments]
  /\ outran \in [Users -> BOOLEAN]
  /\ intent \in [Comments -> Comments \cup {Top}]

\* What was asked for is on the page, which is in its room and has nothing to receive.
Live(u) ==
  /\ at[u] \in room[u] /\ inbox[u] = <<>>
  /\ \E p \in Pages : load[u][p].pc = "shown"
  /\ \A p \in Pages : load[u][p].pc \in {"none", "shown"}

\* The list moved under the pages read from it: a comment is gone from it, or a page was read
\* before an earlier one.
Shifted(u) ==
  \/ outran[u]
  \/ \E c \in Comments : cmt[c].pc = "gone" /\ cmt[c].parent = Top /\ cmt[c].thread = at[u]

\* Loading by pages and pushing together leave no comment out: a page that shows all it asked
\* for, is in its room and has nothing to receive shows every comment of the thread that
\* answers no other, unless it lies beyond the last page asked for; it was broadcast before
\* the page could hear and committed after it had read; a page was cut past it because the
\* list had moved; or its number is that of another one on the page, deleted since or of
\* another thread.
LivePageIsComplete ==
  \A u \in Users : Live(u) => \A c \in Roots(at[u]) :
    \/ c \in view[u] \cup slipped[u] \cup later[u]
    \/ c \in jumped[u] /\ Shifted(u)
    \/ \E d \in view[u] : cmt[d].num = cmt[c].num /\ (cmt[d].pc # "kept" \/ cmt[d].thread # at[u])

\* An answer hangs below the comment its writer saw, although the request carries only a
\* number, unless that comment is gone, was never kept, or was one of another thread.
AnswersWhereWritten ==
  \A c \in Comments :
    cmt[c].pc \in {"sent", "kept"} /\ intent[c] # Top =>
      \/ cmt[c].parent = intent[c]
      \/ cmt[intent[c]].pc \in {"gone", "void"}
      \/ cmt[intent[c]].thread # cmt[c].thread
=============================================================================
