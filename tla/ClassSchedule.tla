------------------------------ MODULE ClassSchedule ------------------------------
(***************************************************************************)
(* The weekly meetings of a tutor's classes, as ScheduleService keeps      *)
(* them and duplicateClass copies them.  createSchedule counts, compares   *)
(* and inserts within one READ COMMITTED transaction: it sees what others  *)
(* have committed and what it has inserted itself.  The meetings of a      *)
(* class are numbered in a row; a deletion closes the gap it leaves.       *)
(* One tutor, one weekday; the page deletes one meeting or all of them.    *)
(***************************************************************************)
EXTENDS Naturals, FiniteSets, Sequences

CONSTANTS
  Classes,
  Existing,   \* the classes there are at the start
  Meetings,   \* the meetings that may ever be inserted
  Creators,   \* requests that create meetings or copy a class
  Deleters,   \* requests that delete meetings
  Slots,      \* <<from, to>>: the times of a meeting
  Periods,    \* [start, weeks] of a class, in weeks
  MaxLength,  \* bound on the meetings of one request
  MaxMoves,   \* bound on the updates of classes
  NoClass, NoPeriod, NoSlot, NoCreator

ASSUME ConstantsAssumption ==
  /\ IsFiniteSet(Meetings) /\ MaxLength \in Nat /\ MaxMoves \in Nat
  /\ Existing \subseteq Classes /\ NoClass \notin Classes /\ NoPeriod \notin Periods
  /\ \A s \in Slots : s \in Nat \X Nat /\ s[1] < s[2]
  /\ \A p \in Periods : p.start \in Nat /\ p.weeks \in Nat

VARIABLES
  period,    \* per class: its period, or NoPeriod before it is made
  meet,      \* per meeting: free, sent (uncommitted), kept, gone, void; class, number, time, request
  req,       \* per creator: how far its request has come and what is left of it
  del,       \* per deleter: what its page showed, and whether that has gone stale
  moves,
  seen,      \* history: the meetings each meeting was compared with
  together,  \* history: pairs of requests that were in progress at the same time
  crossed,   \* history: classes with a deletion while a creation was in progress
  moved      \* history: classes whose period was updated

history == <<seen, together, crossed, moved>>
vars == <<period, meet, req, del, moves, history>>

Unused == [pc |-> "free", class |-> NoClass, num |-> 0, slot |-> NoSlot, by |-> NoCreator]
NoRequest == [pc |-> "idle", class |-> NoClass, from |-> NoClass, period |-> NoPeriod,
              next |-> 0, todo |-> <<>>]
NoDeletion == [pc |-> "idle", class |-> NoClass, num |-> 0, picked |-> {}, stale |-> FALSE]

Init ==
  /\ period \in [Classes -> Periods \cup {NoPeriod}]
  /\ \A c \in Classes : period[c] = NoPeriod <=> c \notin Existing
  /\ meet = [m \in Meetings |-> Unused]
  /\ req = [r \in Creators |-> NoRequest]
  /\ del = [d \in Deleters |-> NoDeletion]
  /\ moves = 0
  /\ seen = [m \in Meetings |-> {}]
  /\ together = {} /\ crossed = {} /\ moved = {}

Rows(pc) == {m \in Meetings : meet[m].pc = pc}
Kept(c) == {m \in Rows("kept") : meet[m].class = c}
Sent(r) == {m \in Rows("sent") : meet[m].by = r}
Running == {r \in Creators : req[r].pc \notin {"idle", "done"}}

------------------------------------------------------------------------------
(* createSchedule *)

FirstNumber(c) == 1 + Cardinality(Kept(c))

\* The transaction begins: it counts the meetings of the class and reads its period.
Begin(r, c, slots) ==
  req' = [req EXCEPT ![r] = [pc |-> "counted", class |-> c, from |-> NoClass,
                             period |-> period[c], next |-> FirstNumber(c), todo |-> slots]]

Accompanied(r) == together' = together \cup {{r, s} : s \in Running}

CreateSchedule(r, c, slots) ==
  /\ req[r].pc = "idle" /\ period[c] # NoPeriod /\ slots # <<>>
  /\ Begin(r, c, slots) /\ Accompanied(r)
  /\ UNCHANGED <<period, meet, del, moves, seen, crossed, moved>>

\* The first to start has not ended when the second starts.
SamePeriod(p, q) ==
  \/ p.start <= q.start /\ p.start + p.weeks >= q.start
  \/ p.start >= q.start /\ q.start + q.weeks >= p.start

SameTime_StartInside(old, new) == old[2] > new[1] /\ old[1] <= new[1]

\* The three cases of the query.
SameTime(old, new) ==
  \/ old[2] > new[1] /\ old[1] <= new[1]
  \/ old[2] >= new[2] /\ old[1] < new[2]
  \/ old = new

Visible(r) == Rows("kept") \cup Sent(r)

Clash(r) ==
  \E m \in Visible(r) : /\ SamePeriod(period[meet[m].class], req[r].period)
                        /\ SameTime(meet[m].slot, Head(req[r].todo))

\* The query for the next meeting of the list finds no other in its way.
Check(r) ==
  /\ req[r].pc = "counted" /\ req[r].todo # <<>> /\ ~Clash(r)
  /\ \E m \in Rows("free") :
       /\ meet' = [meet EXCEPT ![m] = [pc |-> "checked", class |-> req[r].class,
                     num |-> req[r].next, slot |-> Head(req[r].todo), by |-> r]]
       /\ seen' = [seen EXCEPT ![m] = Visible(r)]
  /\ req' = [req EXCEPT ![r] = [pc |-> "checked", class |-> req[r].class, from |-> req[r].from,
                             period |-> req[r].period, next |-> req[r].next + 1,
                             todo |-> Tail(req[r].todo)]]
  /\ UNCHANGED <<period, del, moves, together, crossed, moved>>

SameKey(m, n) == m # n /\ meet[m].class = meet[n].class /\ meet[m].num = meet[n].num

\* The insert waits for an uncommitted row with its key; a committed one refuses it.
Insert(r, m) ==
  /\ req[r].pc = "checked" /\ meet[m].pc = "checked" /\ meet[m].by = r
  /\ \A n \in Rows("sent") \cup Rows("kept") : ~SameKey(m, n)
  /\ meet' = [meet EXCEPT ![m].pc = "sent"]
  /\ req' = [req EXCEPT ![r].pc = "counted"]
  /\ UNCHANGED <<period, del, moves, history>>

Ended(r, pc) ==
  /\ meet' = [m \in Meetings |-> IF meet[m].by = r /\ meet[m].pc \in {"checked", "sent"}
                                 THEN [meet[m] EXCEPT !.pc = pc] ELSE meet[m]]
  /\ req' = [req EXCEPT ![r] = [NoRequest EXCEPT !.pc = "done"]]

Commit(r) ==
  /\ req[r].pc = "counted" /\ req[r].todo = <<>>
  /\ Ended(r, "kept")
  /\ UNCHANGED <<period, del, moves, history>>

\* A clash, a key that is taken or any failure rolls all of the list back.
Abort(r) ==
  /\ r \in Running
  /\ Ended(r, "void")
  /\ UNCHANGED <<period, del, moves, history>>

------------------------------------------------------------------------------
(* duplicateClass and updateClass *)

\* createClass commits the copy in a transaction of its own: whatever fails later, it stays.
DuplicateClass(r, from, to, p) ==
  /\ req[r].pc = "idle" /\ period[from] # NoPeriod /\ period[to] = NoPeriod
  /\ period' = [period EXCEPT ![to] = p]
  /\ req' = [req EXCEPT ![r] = [pc |-> "copying", class |-> to, from |-> from,
                             period |-> NoPeriod, next |-> 0, todo |-> <<>>]]
  /\ Accompanied(r)
  /\ UNCHANGED <<meet, del, moves, seen, crossed, moved>>

\* It then creates the meetings the original has now, in any order.
CopyMeetings(r) ==
  LET old == Kept(req[r].from)
  IN /\ req[r].pc = "copying" /\ Cardinality(old) <= MaxLength
     /\ \E order \in [1..Cardinality(old) -> old] :
          /\ \A m \in old : \E i \in DOMAIN order : order[i] = m
          /\ Begin(r, req[r].class, [i \in DOMAIN order |-> meet[order[i]].slot])
     /\ UNCHANGED <<period, meet, del, moves, history>>

UpdateClass(c, p) ==
  /\ period[c] \notin {NoPeriod, p} /\ moves < MaxMoves
  /\ period' = [period EXCEPT ![c] = p]
  /\ moves' = moves + 1
  /\ moved' = moved \cup {c}
  /\ UNCHANGED <<meet, req, del, seen, together, crossed>>

------------------------------------------------------------------------------
(* deleteSchedule *)

\* The page shows the meetings of a class; the tutor picks one, by its number, or all.
Pick(d, m) ==
  /\ del[d].pc = "idle" /\ meet[m].pc = "kept"
  /\ del' = [del EXCEPT ![d] = [pc |-> "one", class |-> meet[m].class, num |-> meet[m].num,
                                picked |-> {m}, stale |-> FALSE]]
  /\ UNCHANGED <<period, meet, req, moves, history>>

PickAll(d, c) ==
  /\ del[d].pc = "idle" /\ Kept(c) # {}
  /\ del' = [del EXCEPT ![d] = [pc |-> "all", class |-> c, num |-> 0,
                                picked |-> Kept(c), stale |-> FALSE]]
  /\ UNCHANGED <<period, meet, req, moves, history>>

Named_Above(d) == {m \in Kept(del[d].class) : meet[m].num = del[d].num + 1}

\* What the request names when it comes to be handled.
Named(d) ==
  {m \in Kept(del[d].class) : del[d].pc = "all" \/ meet[m].num = del[d].num}

NumberAfter_Kept(n, deleted) == n

\* Every number above the deleted one moves down.
NumberAfter(n, deleted) == n - Cardinality({m \in deleted : meet[m].num < n})

Deleted(d) ==
  [m \in Meetings |->
     IF m \in Named(d) THEN [meet[m] EXCEPT !.pc = "gone"]
     ELSE IF m \in Kept(del[d].class)
       THEN [meet[m] EXCEPT !.num = NumberAfter(@, Named(d))] ELSE meet[m]]

\* Rows the deletion cannot see keep their numbers; it waits when it would meet one of them.
Delete(d) ==
  LET c == del[d].class
  IN /\ del[d].pc \in {"one", "all"} /\ Named(d) # {}
     /\ meet' = Deleted(d)
     /\ \A m \in Kept(c) \ Named(d), n \in Rows("sent") :
          meet[n].class = c => meet[n].num # NumberAfter(meet[m].num, Named(d))
     /\ del' = [e \in Deleters |-> IF e = d THEN [del[d] EXCEPT !.pc = "done"]
                                   ELSE IF del[e].class = c THEN [del[e] EXCEPT !.stale = TRUE]
                                   ELSE del[e]]
     /\ crossed' = crossed \cup {x \in {c} : \E r \in Running : req[r].class = c}
     /\ UNCHANGED <<period, req, moves, seen, together, moved>>

\* No meeting has the number any more, or a statement failed.
DeleteAbort(d) ==
  /\ del[d].pc \in {"one", "all"}
  /\ del' = [del EXCEPT ![d].pc = "done"]
  /\ UNCHANGED <<period, meet, req, moves, history>>

------------------------------------------------------------------------------

SlotLists == UNION {[1..n -> Slots] : n \in 1..MaxLength}

Next ==
  \/ \E r \in Creators :
       \/ \E c \in Classes, slots \in SlotLists : CreateSchedule(r, c, slots)
       \/ \E c, e \in Classes, p \in Periods : DuplicateClass(r, c, e, p)
       \/ CopyMeetings(r) \/ Check(r) \/ Commit(r) \/ Abort(r)
       \/ \E m \in Meetings : Insert(r, m)
  \/ \E c \in Classes, p \in Periods : UpdateClass(c, p)
  \/ \E d \in Deleters :
       \/ \E m \in Meetings : Pick(d, m)
       \/ \E c \in Classes : PickAll(d, c)
       \/ Delete(d) \/ DeleteAbort(d)

Spec == Init /\ [][Next]_vars

------------------------------------------------------------------------------
(* Properties *)

\* Classes, meetings and requests keep their shapes; only rows of existing classes have numbers.
TypeOK ==
  /\ period \in [Classes -> Periods \cup {NoPeriod}]
  /\ meet \in [Meetings ->
       [pc : {"free", "checked", "sent", "kept", "gone", "void"}, class : Classes \cup {NoClass},
        num : Nat, slot : Slots \cup {NoSlot}, by : Creators \cup {NoCreator}]]
  /\ \A m \in Meetings : meet[m].pc # "free" => meet[m].num > 0 /\ period[meet[m].class] # NoPeriod
  /\ \A r \in Creators :
       /\ req[r].pc \in {"idle", "copying", "counted", "checked", "done"}
       /\ req[r].next \in Nat /\ Len(req[r].todo) <= MaxLength
  /\ \A d \in Deleters : del[d].pc \in {"idle", "one", "all", "done"} /\ del[d].picked \subseteq Meetings
  /\ moves \in 0..MaxMoves

Overlap(s, t) == s[1] < t[2] /\ t[1] < s[2]
StrictlyInside(s, t) == t[1] < s[1] /\ s[2] < t[2]

\* The tutor is never booked twice, except that the query misses a new meeting that strictly
\* contains an old one, two requests at once do not see each other's meetings, and nothing is
\* compared when the period of a class is updated.
DoubleBookingsExplained ==
  \A m, n \in Rows("kept") :
    /\ m # n /\ Overlap(meet[m].slot, meet[n].slot)
    /\ SamePeriod(period[meet[m].class], period[meet[n].class])
    => \/ n \in seen[m] /\ StrictlyInside(meet[n].slot, meet[m].slot)
       \/ m \in seen[n] /\ StrictlyInside(meet[m].slot, meet[n].slot)
       \/ n \notin seen[m] /\ m \notin seen[n] /\ {meet[m].by, meet[n].by} \in together
       \/ {meet[m].class, meet[n].class} \cap moved # {}

\* No two meetings of a class share a number, and the numbers are a row from one without a
\* gap, unless a deletion came while a creation was in progress: it cannot renumber rows that
\* are not committed, and createSchedule then meets a number that is taken.
NumbersAreARow ==
  \A c \in Classes :
    /\ \A m, n \in Kept(c) : SameKey(m, n) => m = n
    /\ c \notin crossed => {meet[m].num : m \in Kept(c)} = 1..Cardinality(Kept(c))

\* Numbers move when a meeting is deleted, so a page can delete another meeting than it
\* shows; that takes another deletion in the class since the page was loaded.
DeletesWhatWasSeen ==
  [][\A d \in Deleters : del[d].pc = "one" /\ ~del[d].stale /\ del'[d].pc = "done" =>
       Rows("gone")' \ Rows("gone") \subseteq del[d].picked]_vars
=============================================================================
