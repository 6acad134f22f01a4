------------------------------- MODULE ExamNotices -------------------------------
(***************************************************************************)
(* An exam session is opened to a class, and its students hear of it twice:*)
(* news when it is made and a reminder an hour before it starts.  The event*)
(* is emitted inside the transaction, so its handler, and a job that is due*)
(* at once, may run before the commit or although there is none.  Every    *)
(* notice is a row, then a count, then a message on the socket; the page   *)
(* of one student shows a badge.  The server may crash: Redis             *)
(* keeps the jobs, everything in progress is lost, and the socket comes    *)
(* back outside its room.                                                  *)
(***************************************************************************)
EXTENDS Naturals, FiniteSets, Sequences

CONSTANTS
  Requests,    \* createExamSession requests for one class
  Students,
  Reader,      \* the student whose page is modelled
  Clicks,      \* the clicks on a notice there may be
  MaxStalls,   \* how often Bull delivers a job again that was active in a crash
  MaxMoves,    \* bound on students joining or leaving the class
  MaxCrashes,  \* bound on crashes
  MaxOpens,    \* bound on the times the page is opened
  NoNotice

Notices == [kind : {"news"}, of : Requests, to : Students, run : {0}]
           \cup [kind : {"reminder"}, of : Requests, to : Students, run : 0..MaxStalls]

ASSUME NoticesAssumption ==
  /\ IsFiniteSet(Requests) /\ IsFiniteSet(Students)
  /\ Reader \in Students /\ NoNotice \notin Notices
  /\ MaxStalls \in Nat /\ MaxMoves \in Nat /\ MaxCrashes \in Nat /\ MaxOpens \in Nat

VARIABLES
  learners,  \* the students of the class
  ses,       \* per request: how far its session has come
  hand,      \* per request: the handler of its event
  job,       \* per request: its reminder job, the stalls behind it, whether job_id is stored
  note,      \* per notice: its call, its row, and the count it will send
  header,    \* the reader's page: room, badge, the count it asked for
  wire,      \* the counts the socket has not delivered
  click,     \* per click: how far, of which notice, and the count it will send
  moves, crashes,
  early,     \* history: sessions whose reminder ran before they were committed
  away,      \* history: students who joined or left
  cut,       \* history: the page lost its room, or a call of its student, since it was opened
  raced,     \* history: the last count was taken while another was still under way
  ahead      \* history: how often the badge was lowered since it last showed a count

history == <<early, away, cut, raced, ahead>>
headerVars == <<header, click, cut, raced, ahead>>
serverVars == <<ses, hand, job, early>>
noticeVars == <<learners, ses, hand, job, note, header, wire, click, moves, crashes, history>>

NoNote == [call |-> "idle", row |-> "none", cnt |-> 0]
ClosedHeader == [opens |-> 0, room |-> "out", badge |-> 0,
               count |-> "none", counted |-> 0]

NoticesInit ==
  /\ learners \in SUBSET Students
  /\ ses = [r \in Requests |-> "idle"]
  /\ hand = [r \in Requests |-> "none"]
  /\ job = [r \in Requests |-> [pc |-> "none", run |-> 0, stored |-> FALSE]]
  /\ note = [n \in Notices |-> NoNote]
  /\ header = ClosedHeader /\ wire = <<>>
  /\ click = [c \in Clicks |-> [pc |-> "idle", of |-> NoNotice, cnt |-> 0]]
  /\ moves = 0 /\ crashes = 0
  /\ early = {} /\ away = {} /\ cut = FALSE /\ raced = FALSE /\ ahead = 0

Rows(row) == {n \in Notices : note[n].row = row}

------------------------------------------------------------------------------
(* createExamSession *)

InsertSession(r) ==
  /\ ses[r] = "idle"
  /\ ses' = [ses EXCEPT ![r] = "made"]
  /\ UNCHANGED <<learners, hand, job, note, headerVars, wire, moves, crashes, early, away>>

\* The last statement of the transaction starts the handler of 'exam.new'.
Emit(r) ==
  /\ ses[r] = "made"
  /\ ses' = [ses EXCEPT ![r] = "told"]
  /\ hand' = [hand EXCEPT ![r] = "queue"]
  /\ UNCHANGED <<learners, job, note, headerVars, wire, moves, crashes, early, away>>

Commit(r) ==
  /\ ses[r] = "told"
  /\ ses' = [ses EXCEPT ![r] = "kept"]
  /\ UNCHANGED <<learners, hand, job, note, headerVars, wire, moves, crashes, early, away>>

RollBack(r) ==
  /\ ses[r] \in {"made", "told"}
  /\ ses' = [ses EXCEPT ![r] = "void"]
  /\ UNCHANGED <<learners, hand, job, note, headerVars, wire, moves, crashes, early, away>>

------------------------------------------------------------------------------
(* handleSetupDeadlineNotify *)

QueueJob(r) ==
  /\ hand[r] = "queue"
  /\ hand' = [hand EXCEPT ![r] = "store"]
  /\ job' = [job EXCEPT ![r].pc = "queued"]
  /\ UNCHANGED <<learners, ses, note, headerVars, wire, moves, crashes, early, away>>

\* Redis refuses; the error is logged and there is no job.
QueueFails(r) ==
  /\ hand[r] = "queue"
  /\ hand' = [hand EXCEPT ![r] = "tell"]
  /\ job' = [job EXCEPT ![r].pc = "lost"]
  /\ UNCHANGED <<learners, ses, note, headerVars, wire, moves, crashes, early, away>>

\* job_id is written to the session, if it can be seen by now.
StoreJob(r) ==
  /\ hand[r] = "store"
  /\ hand' = [hand EXCEPT ![r] = "tell"]
  /\ job' = [job EXCEPT ![r].stored = ses[r] = "kept"]
  /\ UNCHANGED <<learners, ses, note, headerVars, wire, moves, crashes, early, away>>

Audience_Visible(r) == IF ses[r] = "kept" THEN learners ELSE {}

\* The students of the classes in the event, whatever has become of the session.
Audience(r) == learners

Called(receivers, kind, r, run) ==
  note' = [n \in Notices |->
             IF n.kind = kind /\ n.of = r /\ n.run = run /\ n.to \in receivers
             THEN [note[n] EXCEPT !.call = "called"] ELSE note[n]]

TellClass(r) ==
  /\ hand[r] = "tell"
  /\ hand' = [hand EXCEPT ![r] = "done"]
  /\ Called(Audience(r), "news", r, 0)
  /\ UNCHANGED <<learners, ses, job, headerVars, wire, moves, crashes, early, away>>

------------------------------------------------------------------------------
(* handleSetupDeadline, delivered by Bull *)

\* A delay that is not positive is due at once.
TakeJob(r) ==
  /\ job[r].pc = "queued"
  /\ job' = [job EXCEPT ![r].pc = "active"]
  /\ UNCHANGED <<learners, ses, hand, note, headerVars, wire, moves, crashes, early, away>>

Receivers_Stored(r) == IF job[r].stored THEN learners ELSE {}

\* The students of the classes where the session is open: none before it is committed.
Receivers(r) == IF ses[r] = "kept" THEN learners ELSE {}

SendReminders(r) ==
  /\ job[r].pc = "active"
  /\ job' = [job EXCEPT ![r].pc = "sent"]
  /\ Called(Receivers(r), "reminder", r, job[r].run)
  /\ early' = early \cup (IF ses[r] = "kept" THEN {} ELSE {r})
  /\ UNCHANGED <<learners, ses, hand, headerVars, wire, moves, crashes, away>>

\* The receivers cannot be read; the error is logged and the job counts as done.
RemindFails(r) ==
  /\ job[r].pc = "active"
  /\ job' = [job EXCEPT ![r].pc = "lost"]
  /\ UNCHANGED <<learners, ses, hand, note, headerVars, wire, moves, crashes, early, away>>

CompleteJob(r) ==
  /\ job[r].pc = "sent"
  /\ job' = [job EXCEPT ![r].pc = "done"]
  /\ UNCHANGED <<learners, ses, hand, note, headerVars, wire, moves, crashes, early, away>>

------------------------------------------------------------------------------
(* createNotification, markAsRead and the gateway *)

InsertNotice(n) ==
  /\ note[n].call = "called"
  /\ note' = [note EXCEPT ![n].call = "inserted", ![n].row = "unread"]
  /\ UNCHANGED <<learners, serverVars, headerVars, wire, moves, crashes, away>>

CountOf_All(s) == Cardinality({n \in Rows("unread") \cup Rows("read") : n.to = s})

CountOf(s) == Cardinality({n \in Rows("unread") : n.to = s})

UnderWay ==
  \/ header.count = "counted" \/ wire # <<>>
  \/ \E n \in Notices : n.to = Reader /\ note[n].call = "counted"
  \/ \E c \in Clicks : click[c].pc = "counted"

CountNotice(n) ==
  /\ note[n].call = "inserted"
  /\ note' = [note EXCEPT ![n].call = "counted", ![n].cnt = CountOf(n.to)]
  /\ raced' = IF n.to = Reader THEN UnderWay ELSE raced
  /\ UNCHANGED <<learners, serverVars, header, click, cut, ahead, wire, moves, crashes, away>>

\* The gateway sends to the room of the student; a page outside it misses the message.
Emitted(cnt) ==
  IF header.room = "in"
  THEN wire' = Append(wire, cnt) /\ UNCHANGED raced
  ELSE raced' = TRUE /\ UNCHANGED wire

PushNotice(n) ==
  /\ note[n].call = "counted"
  /\ note' = [note EXCEPT ![n].call = "done", ![n].cnt = 0]
  /\ IF n.to = Reader THEN Emitted(note[n].cnt) ELSE UNCHANGED <<wire, raced>>
  /\ UNCHANGED <<learners, serverVars, header, click, cut, ahead, moves, crashes, away>>

\* The row of the clicked notice is updated, the count is sent and the call is answered.
MarkAsRead(c) ==
  /\ click[c].pc = "asked"
  /\ note' = [note EXCEPT ![click[c].of].row = "read"]
  /\ click' = [click EXCEPT ![c].pc = "marked"]
  /\ UNCHANGED <<learners, serverVars, header, cut, raced, ahead, wire, moves, crashes, away>>

CountMarked(c) ==
  /\ click[c].pc = "marked"
  /\ click' = [click EXCEPT ![c].pc = "counted", ![c].cnt = CountOf(Reader)]
  /\ raced' = UnderWay
  /\ UNCHANGED <<learners, serverVars, note, header, cut, ahead, wire, moves, crashes, away>>

PushMarked(c) ==
  /\ click[c].pc = "counted"
  /\ click' = [click EXCEPT ![c].pc = "answered", ![c].cnt = 0]
  /\ Emitted(click[c].cnt)
  /\ UNCHANGED <<learners, serverVars, note, header, cut, ahead, moves, crashes, away>>

------------------------------------------------------------------------------
(* Header and NotificationPage *)

\* Mounting asks for the room and for the count, each on its own way.
OpenPage ==
  /\ header.opens < MaxOpens /\ \A c \in Clicks : click[c].pc \in {"idle", "done"}
  /\ header' = [ClosedHeader EXCEPT !.opens = header.opens + 1, !.room = "asked",
                                !.count = "asked"]
  /\ wire' = <<>> /\ cut' = FALSE /\ raced' = FALSE /\ ahead' = 0
  /\ UNCHANGED <<learners, serverVars, note, click, moves, crashes, away>>

\* Only mounting asks: a socket that comes back after a crash stays outside.
JoinRoom ==
  /\ header.room = "asked"
  /\ header' = [header EXCEPT !.room = "in"]
  /\ UNCHANGED <<learners, serverVars, note, click, cut, raced, ahead, wire, moves, crashes, away>>

ReadCount ==
  /\ header.count = "asked"
  /\ header' = [header EXCEPT !.count = "counted", !.counted = CountOf(Reader)]
  /\ raced' = UnderWay
  /\ UNCHANGED <<learners, serverVars, note, click, cut, ahead, wire, moves, crashes, away>>

ShowCount ==
  /\ header.count = "counted"
  /\ header' = [header EXCEPT !.count = "none", !.badge = header.counted, !.counted = 0]
  /\ ahead' = 0
  /\ UNCHANGED <<learners, serverVars, note, click, cut, raced, wire, moves, crashes, away>>

Receive ==
  /\ wire # <<>> /\ wire' = Tail(wire)
  /\ header' = [header EXCEPT !.badge = Head(wire)]
  /\ ahead' = 0
  /\ UNCHANGED <<learners, serverVars, note, click, cut, raced, moves, crashes, away>>

Click(c, n) ==
  /\ click[c].pc = "idle" /\ header.opens > 0 /\ n.to = Reader /\ note[n].row = "unread"
  /\ click' = [click EXCEPT ![c].pc = "asked", ![c].of = n]
  /\ UNCHANGED <<learners, serverVars, note, header, cut, raced, ahead, wire, moves, crashes, away>>

\* With the answer, or with none, which NotificationService.markAsRead catches and keeps to
\* itself, the page lowers the badge.
LowerBadge(c) ==
  /\ click[c].pc = "answered"
  /\ click' = [click EXCEPT ![c].pc = "done"]
  /\ header' = [header EXCEPT !.badge = IF @ > 0 THEN @ - 1 ELSE 0]
  /\ ahead' = ahead + 1
  /\ UNCHANGED <<learners, serverVars, note, cut, raced, wire, moves, crashes, away>>

------------------------------------------------------------------------------
(* Students come and go; the server crashes *)

Move(s) ==
  /\ moves < MaxMoves /\ moves' = moves + 1
  /\ learners' = IF s \in learners THEN learners \ {s} ELSE learners \cup {s}
  /\ away' = away \cup {s}
  /\ UNCHANGED <<serverVars, note, headerVars, wire, crashes>>

\* A job that was active is delivered again, as often as Bull allows.
Stalled(r) ==
  IF job[r].pc \notin {"active", "sent"} THEN job[r]
  ELSE IF job[r].run < MaxStalls THEN [job[r] EXCEPT !.pc = "queued", !.run = @ + 1]
  ELSE [job[r] EXCEPT !.pc = "lost"]

Crash ==
  /\ crashes < MaxCrashes /\ crashes' = crashes + 1
  /\ ses' = [r \in Requests |-> IF ses[r] \in {"made", "told"}
                                THEN "void" ELSE ses[r]]
  /\ hand' = [r \in Requests |-> IF hand[r] \in {"queue", "store", "tell"} THEN "died" ELSE hand[r]]
  /\ job' = [r \in Requests |-> Stalled(r)]
  /\ note' = [n \in Notices |-> IF note[n].call \in {"called", "inserted", "counted"}
                                THEN [note[n] EXCEPT !.call = "died", !.cnt = 0] ELSE note[n]]
  /\ click' = [c \in Clicks |-> IF click[c].pc \in {"asked", "marked", "counted"}
                                THEN [click[c] EXCEPT !.pc = "answered", !.cnt = 0] ELSE click[c]]
  /\ header' = [header EXCEPT !.room = IF @ = "in" THEN "out" ELSE @,
                          !.count = "none", !.counted = 0]
  /\ wire' = <<>>
  /\ cut' = TRUE
  /\ UNCHANGED <<learners, moves, early, away, raced, ahead>>

------------------------------------------------------------------------------

Serve(r) == InsertSession(r) \/ Emit(r) \/ Commit(r)
Handle(r) == QueueJob(r) \/ QueueFails(r) \/ StoreJob(r) \/ TellClass(r)
Remind(r) == TakeJob(r) \/ SendReminders(r) \/ CompleteJob(r)
Notify(n) == InsertNotice(n) \/ CountNotice(n) \/ PushNotice(n)

NoticesNext ==
  \/ \E r \in Requests : Serve(r) \/ RollBack(r) \/ Handle(r) \/ Remind(r) \/ RemindFails(r)
  \/ \E n \in Notices : Notify(n)
  \/ \E c \in Clicks : MarkAsRead(c) \/ CountMarked(c) \/ PushMarked(c) \/ LowerBadge(c)
  \/ \E c \in Clicks, n \in Notices : Click(c, n)
  \/ OpenPage \/ JoinRoom \/ ReadCount \/ ShowCount \/ Receive
  \/ \E s \in Students : Move(s)
  \/ Crash

\* What has been started goes on: the event loop runs handlers to their end, Bull delivers
\* what is queued, and a statement is answered.
Fairness ==
  /\ \A r \in Requests : WF_noticeVars(Handle(r)) /\ WF_noticeVars(Remind(r))
  /\ \A n \in Notices : WF_noticeVars(Notify(n))

NoticesSpec == NoticesInit /\ [][NoticesNext]_noticeVars /\ Fairness

------------------------------------------------------------------------------
(* Properties *)

\* Requests, jobs, calls and the page keep their shapes; a message on the socket is for a
\* page in its room.
NoticesTypeOK ==
  /\ learners \subseteq Students
  /\ \A r \in Requests :
       /\ ses[r] \in {"idle", "made", "told", "kept", "void"}
       /\ hand[r] \in {"none", "queue", "store", "tell", "done", "died"}
       /\ job[r].pc \in {"none", "queued", "active", "sent", "done", "lost"}
       /\ job[r].run \in 0..MaxStalls /\ job[r].stored \in BOOLEAN
  /\ \A n \in Notices :
       /\ note[n].call \in {"idle", "called", "inserted", "counted", "done", "died"}
       /\ note[n].row \in {"none", "unread", "read"} /\ note[n].cnt \in 0..Cardinality(Notices)
  /\ header.badge \in 0..Cardinality(Notices) /\ header.opens \in 0..MaxOpens
  /\ header.room \in {"out", "asked", "in"} /\ (wire # <<>> => header.room = "in")

\* When nothing is under way, the badge of an open page is the number of unread notices, less
\* what the page took off itself after the last count it was sent: it takes one off for each
\* click although the server sends the new count as well, so the badge may show one too few.
\* It is wrong in other ways only if two counts overlapped, or the page missed one outside its
\* room, and nothing was counted since, or if the server crashed.
Quiet ==
  /\ header.room = "in" /\ wire = <<>> /\ header.count = "none"
  /\ \A n \in Notices : n.to = Reader => note[n].call \in {"idle", "done", "died"}
  /\ \A c \in Clicks : click[c].pc \in {"idle", "done"}
BadgeIsUnread ==
  LET unread == Cardinality({n \in Rows("unread") : n.to = Reader})
  IN Quiet /\ ~raced /\ ~cut => header.badge = IF unread > ahead THEN unread - ahead ELSE 0

\* Every student who is in the class when a session is committed, and stays, is in the end
\* told of it, unless the server dies between the event and the row.
RowFor(kind, r, s) == \E n \in Notices \ Rows("none") : n.kind = kind /\ n.of = r /\ n.to = s
Died(kind, r, s) == \E n \in Notices : n.kind = kind /\ n.of = r /\ n.to = s /\ note[n].call = "died"
NewsComes ==
  \A r \in Requests, s \in Students :
    ses[r] = "kept" /\ s \in learners
      ~> RowFor("news", r, s) \/ s \in away \/ hand[r] = "died" \/ Died("news", r, s)

\* Every such student is in the end reminded of it, unless the job was due before the commit
\* (a session that starts within the hour), Redis had refused the job, the job could not read
\* whom to remind, or a crash took the handler before it queued the job, the last delivery of
\* the job, or the call.
RemindersCome ==
  \A r \in Requests, s \in Students :
    ses[r] = "kept" /\ s \in learners
      ~> \/ RowFor("reminder", r, s) \/ s \in away \/ r \in early
         \/ job[r].pc = "lost" \/ Died("reminder", r, s)
         \/ hand[r] = "died" /\ job[r].pc = "none"
=============================================================================
