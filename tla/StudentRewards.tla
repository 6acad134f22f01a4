---------------------------- MODULE StudentRewards ----------------------------
(***************************************************************************)
(* The Student_analytics row of one student: water drops, experience and   *)
(* the streak of days.  Logging in, handing in an exam and watering the    *)
(* tree all call createOrUpdateAnalytics, which reads the row, decides     *)
(* from the day of its last activity and writes with atomic increments, by *)
(* an update or by an upsert.  The calls run at the same time.  The        *)
(* dashboard shows a number of drops of its own and waters as long as that *)
(* number is positive; the server does not look.                           *)
(***************************************************************************)
EXTENDS Integers, FiniteSets

CONSTANTS
  Calls,      \* calls of createOrUpdateAnalytics that can run at the same time
  Pages,      \* dashboards open
  Claim,      \* drops of a finished exam (actionConfig.drops_claim)
  ExpGain,    \* experience of one watering
  MaxDay,     \* bound on the days
  MaxEvents,  \* bound on the logins and finished exams
  NoRow, NoPage

Row == [drops : Int, exp : Nat, streak : Nat \ {0}, last : 0..MaxDay]

ASSUME ConstantsAssumption ==
  /\ NoRow \notin Row
  /\ IsFiniteSet(Calls) /\ Calls # {} /\ IsFiniteSet(Pages) /\ Pages # {} /\ NoPage \notin Pages
  /\ Claim \in Nat /\ ExpGain \in Nat /\ MaxDay \in Nat /\ MaxEvents \in Nat

VARIABLES
  today,   \* the day
  row,     \* the Student_analytics row
  call,    \* per call: how far it has come and what it read
  page,    \* per dashboard: the drops it shows, and whether a watering is on its way
  events,  \* logins and finished exams so far
  earned,  \* history: drops of the calls that succeeded, less those spent
  lost     \* history: calls that failed

vars == <<today, row, call, page, events, earned, lost>>

NoCall == [pc |-> "idle"]

Gain(kind) == CASE kind = "login" -> 1 [] kind = "exam" -> Claim [] kind = "water" -> -1
Exp(kind) == IF kind = "water" THEN ExpGain ELSE 0

Init ==
  /\ today = 0
  /\ row = NoRow
  /\ call = [c \in Calls |-> NoCall]
  /\ page = [p \in Pages |-> [shown |-> 0, busy |-> FALSE]]
  /\ events = 0 /\ earned = 0 /\ lost = 0

\* A call does not last longer than into the next day.
Midnight ==
  /\ today < MaxDay
  /\ \A c \in Calls : call[c].pc # "idle" => call[c].since = today
  /\ today' = today + 1
  /\ UNCHANGED <<row, call, page, events, earned, lost>>

------------------------------------------------------------------------------
(* createOrUpdateAnalytics *)

RecentEnough_TwoDays(last) == today - last <= 2

RecentEnough(last) == today - last <= 1

\* findFirst, and the decision taken from it.
Read(c, kind, p) ==
  /\ call[c].pc = "idle"
  /\ call' = [call EXCEPT ![c] =
       [pc |-> "read", kind |-> kind, page |-> p, since |-> today,
        goesOn |-> kind = "exam" /\ row # NoRow /\ RecentEnough(row.last),
        drops |-> IF row = NoRow THEN 0 ELSE row.drops]]

Event(c, kind) ==
  /\ kind \in {"login", "exam"} /\ events < MaxEvents
  /\ events' = events + 1
  /\ Read(c, kind, NoPage)
  /\ UNCHANGED <<today, row, page, earned, lost>>

DropsAfter_Overwritten(c) == call[c].drops + Gain(call[c].kind)

\* { increment } is computed by the database from the row as it is now.
DropsAfter(c) == row.drops + Gain(call[c].kind)

StreakAfter_Zero(c) ==
  IF call[c].goesOn THEN row.streak + 1
  ELSE IF call[c].kind = "exam" THEN 0 ELSE row.streak

StreakAfter(c) ==
  IF call[c].goesOn THEN row.streak + 1
  ELSE IF call[c].kind = "exam" THEN 1 ELSE row.streak

\* The answer of a watering is what its page shows from then on.
Answered(c, drops) ==
  [p \in Pages |-> IF p = call[c].page THEN [shown |-> drops, busy |-> FALSE] ELSE page[p]]

Succeeds(c) ==
  /\ call' = [call EXCEPT ![c] = NoCall]
  /\ page' = Answered(c, row'.drops)
  /\ earned' = earned + Gain(call[c].kind)
  /\ UNCHANGED <<today, events, lost>>

RowFound_WrongKey == FALSE

RowFound == row # NoRow

\* The update, or the upsert that finds the row.
Update(c) ==
  /\ call[c].pc = "read" /\ RowFound
  /\ row' = [drops |-> DropsAfter(c), exp |-> row.exp + Exp(call[c].kind),
             streak |-> StreakAfter(c), last |-> today]
  /\ Succeeds(c)

\* The upsert finds no row and goes on to insert one.
FindsNone(c) ==
  /\ call[c].pc = "read" /\ ~RowFound
  /\ call' = [call EXCEPT ![c].pc = "inserting"]
  /\ UNCHANGED <<today, row, page, events, earned, lost>>

Insert(c) ==
  /\ call[c].pc = "inserting" /\ row = NoRow
  /\ row' = [drops |-> Gain(call[c].kind), exp |-> Exp(call[c].kind), streak |-> 1, last |-> today]
  /\ Succeeds(c)

\* student_id is unique.  The login and the exam's event handler swallow the error.
InsertRefused(c) ==
  /\ call[c].pc = "inserting" /\ row # NoRow
  /\ call' = [call EXCEPT ![c] = NoCall]
  /\ page' = [p \in Pages |-> IF p = call[c].page THEN [page[p] EXCEPT !.busy = FALSE] ELSE page[p]]
  /\ lost' = lost + 1
  /\ UNCHANGED <<today, row, events, earned>>

------------------------------------------------------------------------------
(* The dashboard *)

Load(p) ==
  /\ ~page[p].busy
  /\ page' = [page EXCEPT ![p].shown = IF row = NoRow THEN 0 ELSE row.drops]
  /\ UNCHANGED <<today, row, call, events, earned, lost>>

MayWater_Zero(p) == page[p].shown >= 0 /\ ~page[p].busy

MayWater(p) == page[p].shown > 0 /\ ~page[p].busy

Water(p, c) ==
  /\ MayWater(p)
  /\ page' = [page EXCEPT ![p].busy = TRUE]
  /\ Read(c, "water", p)
  /\ UNCHANGED <<today, row, events, earned, lost>>

Next ==
  \/ Midnight
  \/ \E c \in Calls :
       \/ \E kind \in {"login", "exam"} : Event(c, kind)
       \/ Update(c) \/ FindsNone(c) \/ Insert(c) \/ InsertRefused(c)
       \/ \E p \in Pages : Water(p, c)
  \/ \E p \in Pages : Load(p)

Spec == Init /\ [][Next]_vars

------------------------------------------------------------------------------
(* Properties *)

Running == [pc : {"read", "inserting"}, kind : {"login", "exam", "water"},
            page : Pages \cup {NoPage}, since : 0..MaxDay, goesOn : BOOLEAN, drops : Int]

\* The row, the calls and the dashboards keep their shapes.
TypeOK ==
  /\ today \in 0..MaxDay
  /\ row \in Row \cup {NoRow}
  /\ call \in [Calls -> Running \cup {NoCall}]
  /\ page \in [Pages -> [shown : Int, busy : BOOLEAN]]
  /\ events \in 0..MaxEvents /\ earned \in Int /\ lost \in Nat

\* No increment of drops is lost to a concurrent one: the row holds what the calls that
\* succeeded gave, less what was spent.
DropsAddUp == row # NoRow => row.drops = earned

\* Every dashboard checks the drops it shows and the server checks nothing, so drops can
\* become negative, but by less than the number of dashboards open.
OverspendBounded == row # NoRow => row.drops > - Cardinality(Pages)

\* Rewards are lost only by calls that raced for the first row of the student: at least one
\* of the calls that can run at the same time succeeds, and later ones find the row.
LostOnlyAtFirst == lost < Cardinality(Calls)

\* The streak goes on only when the last activity was at most a day before the call read it;
\* the call may have crossed one midnight since.
StreakNeedsActivity ==
  [][row # NoRow /\ row'.streak > row.streak => today - row.last <= 2]_vars
==============================================================================
