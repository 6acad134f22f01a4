------------------------- MODULE StudentRewards_proofs -------------------------
(***************************************************************************)
(* What holds of the two numbers a student sees on every page: the drops   *)
(* and the streak of StudentRewards, for any number of calls, dashboards,  *)
(* days and events, and the badge of ExamNotices, for any number of        *)
(* sessions, students, clicks and crashes.                                 *)
(*                                                                         *)
(* StudentRewards: Settled says how the row, the drops earned and the      *)
(* calls lost go together; with TypeOK it is inductive.  On top of it      *)
(* Dashboards bounds what the dashboards can still spend, and Recent dates *)
(* the decision about the streak.                                          *)
(*                                                                         *)
(* ExamNotices: Alone says that a header which nothing has raced has at    *)
(* most one count on its way; Accurate that, once no row waits to be       *)
(* counted, it is the number of unread notices, or the badge already is.   *)
(***************************************************************************)
EXTENDS StudentRewards, ExamNotices, FiniteSetTheorems, SequenceTheorems, TLAPS

\* Calls whose upsert has found no row and is about to insert one.
Inserting == {c \in Calls : call[c].pc = "inserting"}

\* Before the first row nothing is earned or lost; once it exists it holds what was earned,
\* and the calls lost, with those that will be refused, leave out at least the one that
\* inserted it.
Settled ==
  IF row = NoRow THEN earned = 0 /\ lost = 0
  ELSE row.drops = earned /\ lost + Cardinality(Inserting) < Cardinality(Calls)

IInv == TypeOK /\ Settled

LEMMA InsertingFinite ==
  /\ IsFiniteSet(Inserting) /\ Cardinality(Inserting) \in Nat
  /\ Cardinality(Calls) \in Nat /\ Cardinality(Calls) > 0
  /\ Cardinality(Inserting) <= Cardinality(Calls)
<1>1. Inserting \subseteq Calls  BY DEF Inserting
<1>2. IsFiniteSet(Calls) /\ Calls # {}  BY ConstantsAssumption
<1>3. IsFiniteSet(Inserting) /\ Cardinality(Inserting) <= Cardinality(Calls)
  BY <1>1, <1>2, FS_Subset
<1>4. Cardinality(Inserting) \in Nat /\ Cardinality(Calls) \in Nat
  BY <1>2, <1>3, FS_CardinalityType
<1>5. Cardinality(Calls) > 0
  BY <1>2, <1>4, FS_EmptySet
<1> QED  BY <1>3, <1>4, <1>5

LEMMA GainTypes ==
  ASSUME NEW kind \in {"login", "exam", "water"}
  PROVE  Gain(kind) \in Int /\ Exp(kind) \in Nat
BY ConstantsAssumption DEF Gain, Exp

\* A call that ends no longer inserts; no other is disturbed.
LEMMA EndsOne ==
  ASSUME NEW c \in Calls, TypeOK, call' = [call EXCEPT ![c] = NoCall]
  PROVE  /\ Inserting' = Inserting \ {c}
         /\ call' \in [Calls -> Running \cup {NoCall}]
         /\ call[c].pc = "inserting" => Cardinality(Inserting') = Cardinality(Inserting) - 1
         /\ call[c].pc # "inserting" => Inserting' = Inserting
<1>1. call \in [Calls -> Running \cup {NoCall}]  BY DEF TypeOK
<1>2. Inserting' = Inserting \ {c}  BY <1>1 DEF Inserting, NoCall
<1>3. call' \in [Calls -> Running \cup {NoCall}]  BY <1>1
<1>4. ASSUME call[c].pc = "inserting"
      PROVE  Cardinality(Inserting') = Cardinality(Inserting) - 1
  <2>1. c \in Inserting  BY <1>4 DEF Inserting
  <2> QED  BY <1>2, <2>1, InsertingFinite, FS_RemoveElement
<1>5. ASSUME call[c].pc # "inserting" PROVE Inserting' = Inserting
  BY <1>2, <1>5 DEF Inserting
<1> QED  BY <1>2, <1>3, <1>4, <1>5

LEMMA InitIInv == Init => IInv
<1> SUFFICES ASSUME Init PROVE IInv  OBVIOUS
<1>1. TypeOK  BY ConstantsAssumption DEF Init, TypeOK
<1>2. Settled  BY DEF Init, Settled
<1> QED  BY <1>1, <1>2 DEF IInv

\* What a new call reads; the rest of the state is left alone.
LEMMA ReadKeeps ==
  ASSUME IInv, NEW c \in Calls, NEW kind \in {"login", "exam", "water"},
         NEW p \in Pages \cup {NoPage}, Read(c, kind, p)
  PROVE  call' \in [Calls -> Running \cup {NoCall}] /\ Inserting' = Inserting
<1>1. call \in [Calls -> Running \cup {NoCall}] /\ today \in 0..MaxDay /\ row \in Row \cup {NoRow}
  BY DEF IInv, TypeOK
<1> DEFINE drops == IF row = NoRow THEN 0 ELSE row.drops
           goesOn == kind = "exam" /\ row # NoRow /\ RecentEnough(row.last)
           new == [pc |-> "read", kind |-> kind, page |-> p, since |-> today,
                   goesOn |-> goesOn, drops |-> drops]
<1>2. drops \in Int  BY <1>1 DEF Row
<1>3. goesOn \in BOOLEAN  OBVIOUS
<1>4. call[c].pc = "idle" /\ call' = [call EXCEPT ![c] = new]  BY DEF Read
<1> HIDE DEF drops, goesOn
<1>5. new \in Running  BY <1>1, <1>2, <1>3 DEF Running
<1>6. new.pc = "read"  OBVIOUS
<1> HIDE DEF new
<1>7. call' \in [Calls -> Running \cup {NoCall}]  BY <1>1, <1>4, <1>5
<1>8. Inserting' = Inserting  BY <1>1, <1>4, <1>6 DEF Inserting
<1> QED  BY <1>7, <1>8

\* A call that succeeds leaves a row.
LEMMA SucceedsLeavesRow ==
  ASSUME TypeOK, NEW c \in Calls, Update(c) \/ Insert(c)
  PROVE  row' \in Row
<1>1. call \in [Calls -> Running \cup {NoCall}] /\ row \in Row \cup {NoRow} /\ today \in 0..MaxDay
  BY DEF TypeOK
<1>2. call[c] \in Running  BY <1>1 DEF Update, Insert, NoCall
<1>3. Gain(call[c].kind) \in Int /\ Exp(call[c].kind) \in Nat  BY <1>2, GainTypes DEF Running
<1>4. CASE Update(c)
  <2>1. row \in Row  BY <1>1, <1>4 DEF Update, RowFound
  <2>2. StreakAfter(c) \in Nat \ {0}  BY <2>1 DEF StreakAfter, Row
  <2> QED  BY <1>1, <1>3, <1>4, <2>1, <2>2 DEF Update, DropsAfter, Row
<1>5. CASE Insert(c)
  BY <1>1, <1>3, <1>5, ConstantsAssumption DEF Insert, Row
<1> QED  BY <1>4, <1>5

LEMMA NextIInv == IInv /\ [Next]_vars => IInv'
<1> SUFFICES ASSUME IInv, [Next]_vars PROVE IInv'  OBVIOUS
<1> USE DEF IInv
<1> USE ConstantsAssumption
<1>1. CASE Midnight
  <2>1. TypeOK'  BY <1>1 DEF Midnight, TypeOK
  <2>2. Inserting' = Inserting  BY <1>1 DEF Midnight, Inserting
  <2>3. Settled'  BY <1>1, <2>2 DEF Midnight, Settled
  <2> QED  BY <2>1, <2>3
<1>2. ASSUME NEW c \in Calls, NEW kind \in {"login", "exam"}, Event(c, kind) PROVE IInv'
  <2>1. Read(c, kind, NoPage)  BY <1>2 DEF Event
  <2>2. call' \in [Calls -> Running \cup {NoCall}] /\ Inserting' = Inserting
    BY <2>1, ReadKeeps
  <2>3. UNCHANGED <<today, row, page, earned, lost>> /\ events' \in 0..MaxEvents
    BY <1>2 DEF Event, TypeOK
  <2>4. TypeOK'  BY <2>2, <2>3 DEF TypeOK
  <2>5. Settled'  BY <2>2, <2>3 DEF Settled
  <2> QED  BY <2>4, <2>5
<1>3. ASSUME NEW c \in Calls, Update(c) PROVE IInv'
  <2> DEFINE gain == Gain(call[c].kind)
  <2>0. /\ call[c].pc = "read" /\ row # NoRow
        /\ row' = [drops |-> row.drops + gain, exp |-> row.exp + Exp(call[c].kind),
                   streak |-> StreakAfter(c), last |-> today]
        /\ call' = [call EXCEPT ![c] = NoCall]
        /\ page' = Answered(c, row'.drops)
        /\ earned' = earned + gain
        /\ UNCHANGED <<today, events, lost>>
    BY <1>3 DEF Update, Succeeds, RowFound, DropsAfter
  <2>1. call[c] \in Running  BY <2>0 DEF TypeOK, NoCall
  <2>2. gain \in Int /\ Exp(call[c].kind) \in Nat  BY <2>1, GainTypes DEF Running
  <2>3. row \in Row /\ today \in 0..MaxDay /\ earned \in Int  BY <2>0 DEF TypeOK
  <2> HIDE DEF gain
  <2>4. StreakAfter(c) \in Nat \ {0}  BY <2>3 DEF StreakAfter, Row
  <2>5. row' \in Row  BY <2>0, <2>2, <2>3, <2>4 DEF Row
  <2>6. row' # NoRow /\ row'.drops \in Int /\ row'.drops = row.drops + gain
    BY <2>0, <2>5 DEF Row
  <2>7. Inserting' = Inserting /\ call' \in [Calls -> Running \cup {NoCall}]
    BY <2>0, EndsOne
  <2>8. page' \in [Pages -> [shown : Int, busy : BOOLEAN]]
    BY <2>0, <2>6 DEF Answered, TypeOK
  <2>9. TypeOK'  BY <2>0, <2>2, <2>3, <2>5, <2>7, <2>8 DEF TypeOK
  <2>10. Settled'  BY <2>0, <2>2, <2>6, <2>7 DEF Settled
  <2> QED  BY <2>9, <2>10
<1>4. ASSUME NEW c \in Calls, FindsNone(c) PROVE IInv'
  <2>1. row = NoRow /\ call[c].pc = "read" /\ call' = [call EXCEPT ![c].pc = "inserting"]
        /\ UNCHANGED <<today, row, page, events, earned, lost>>
    BY <1>4 DEF FindsNone, RowFound
  <2>2. call[c] \in Running  BY <2>1 DEF TypeOK, NoCall
  <2>3. [call[c] EXCEPT !.pc = "inserting"] \in Running  BY <2>2 DEF Running
  <2>4. call' \in [Calls -> Running \cup {NoCall}]  BY <2>1, <2>3 DEF TypeOK
  <2>5. TypeOK'  BY <2>1, <2>4 DEF TypeOK
  <2>6. Settled'  BY <2>1 DEF Settled
  <2> QED  BY <2>5, <2>6
<1>5. ASSUME NEW c \in Calls, Insert(c) PROVE IInv'
  <2> DEFINE gain == Gain(call[c].kind)
  <2>0. /\ call[c].pc = "inserting" /\ row = NoRow
        /\ row' = [drops |-> gain, exp |-> Exp(call[c].kind), streak |-> 1, last |-> today]
        /\ call' = [call EXCEPT ![c] = NoCall]
        /\ page' = Answered(c, row'.drops)
        /\ earned' = earned + gain
        /\ UNCHANGED <<today, events, lost>>
    BY <1>5 DEF Insert, Succeeds
  <2>1. call[c] \in Running  BY <2>0 DEF TypeOK, NoCall
  <2>2. gain \in Int /\ Exp(call[c].kind) \in Nat  BY <2>1, GainTypes DEF Running
  <2>3. today \in 0..MaxDay /\ earned = 0 /\ lost = 0  BY <2>0 DEF TypeOK, Settled
  <2> HIDE DEF gain
  <2>4. row' \in Row  BY <2>0, <2>2, <2>3 DEF Row
  <2>5. row' # NoRow /\ row'.drops = gain  BY <2>0, <2>4
  <2>6. /\ Cardinality(Inserting') = Cardinality(Inserting) - 1
        /\ call' \in [Calls -> Running \cup {NoCall}]
    BY <2>0, EndsOne
  <2>7. page' \in [Pages -> [shown : Int, busy : BOOLEAN]]
    BY <2>0, <2>2, <2>5 DEF Answered, TypeOK
  <2>8. TypeOK'  BY <2>0, <2>2, <2>3, <2>4, <2>6, <2>7 DEF TypeOK
  <2>9. Settled'  BY <2>0, <2>2, <2>3, <2>5, <2>6, InsertingFinite DEF Settled
  <2> QED  BY <2>8, <2>9
<1>6. ASSUME NEW c \in Calls, InsertRefused(c) PROVE IInv'
  <2>0. /\ call[c].pc = "inserting" /\ row # NoRow
        /\ call' = [call EXCEPT ![c] = NoCall]
        /\ page' = [p \in Pages |-> IF p = call[c].page THEN [page[p] EXCEPT !.busy = FALSE] ELSE page[p]]
        /\ lost' = lost + 1
        /\ UNCHANGED <<today, row, events, earned>>
    BY <1>6 DEF InsertRefused
  <2>1. /\ Cardinality(Inserting') = Cardinality(Inserting) - 1
        /\ call' \in [Calls -> Running \cup {NoCall}]
    BY <2>0, EndsOne
  <2>2. page' \in [Pages -> [shown : Int, busy : BOOLEAN]]  BY <2>0 DEF TypeOK
  <2>3. TypeOK'  BY <2>0, <2>1, <2>2 DEF TypeOK
  <2>4. Settled'  BY <2>0, <2>1, InsertingFinite DEF Settled, TypeOK
  <2> QED  BY <2>3, <2>4
<1>7. ASSUME NEW p \in Pages, NEW c \in Calls, Water(p, c) PROVE IInv'
  <2>1. Read(c, "water", p) /\ page' = [page EXCEPT ![p].busy = TRUE]
        /\ UNCHANGED <<today, row, events, earned, lost>>
    BY <1>7 DEF Water
  <2>2. call' \in [Calls -> Running \cup {NoCall}] /\ Inserting' = Inserting
    BY <2>1, ReadKeeps
  <2>3. page' \in [Pages -> [shown : Int, busy : BOOLEAN]]  BY <2>1 DEF TypeOK
  <2>4. TypeOK'  BY <2>1, <2>2, <2>3 DEF TypeOK
  <2>5. Settled'  BY <2>1, <2>2 DEF Settled
  <2> QED  BY <2>4, <2>5
<1>8. ASSUME NEW p \in Pages, Load(p) PROVE IInv'
  <2>1. UNCHANGED <<today, row, call, events, earned, lost>>
        /\ page' = [page EXCEPT ![p].shown = IF row = NoRow THEN 0 ELSE row.drops]
    BY <1>8 DEF Load
  <2>2. (IF row = NoRow THEN 0 ELSE row.drops) \in Int  BY DEF TypeOK, Row
  <2>3. page' \in [Pages -> [shown : Int, busy : BOOLEAN]]  BY <2>1, <2>2 DEF TypeOK
  <2>4. Inserting' = Inserting  BY <2>1 DEF Inserting
  <2>5. TypeOK'  BY <2>1, <2>3 DEF TypeOK
  <2>6. Settled'  BY <2>1, <2>4 DEF Settled
  <2> QED  BY <2>5, <2>6
<1>9. CASE UNCHANGED vars
  <2>1. TypeOK'  BY <1>9 DEF vars, TypeOK
  <2>2. Inserting' = Inserting  BY <1>9 DEF vars, Inserting
  <2>3. Settled'  BY <1>9, <2>2 DEF vars, Settled
  <2> QED  BY <2>1, <2>3
<1> QED
  BY <1>1, <1>2, <1>3, <1>4, <1>5, <1>6, <1>7, <1>8, <1>9 DEF Next

\* IInv holds in every state createOrUpdateAnalytics can reach.
THEOREM Invariance == Spec => []IInv
BY InitIInv, NextIInv, PTL DEF Spec

\* Every variable of the analytics row, its calls and its dashboards keeps its type.
THEOREM TypeCorrect == Spec => []TypeOK
<1>1. IInv => TypeOK  BY DEF IInv
<1> QED  BY <1>1, Invariance, PTL

\* The increments of createOrUpdateAnalytics add up, whatever overlaps.
THEOREM IncrementsAddUp == Spec => []DropsAddUp
<1>1. IInv => DropsAddUp  BY DEF IInv, Settled, DropsAddUp
<1> QED  BY <1>1, Invariance, PTL

\* At least one of the calls that race for the first row is not lost, and none is later.
THEOREM LossesAreBounded == Spec => []LostOnlyAtFirst
<1>1. IInv => LostOnlyAtFirst
  BY InsertingFinite DEF IInv, Settled, LostOnlyAtFirst, TypeOK
<1> QED  BY <1>1, Invariance, PTL

------------------------------------------------------------------------------
(* OverspendBounded.  What a dashboard can still spend without the server looking is one   *)
(* drop: after that it shows the real number.  So drops can sink by the number of          *)
(* dashboards that show some, or have a watering on its way.                               *)

Wet == {p \in Pages : page[p].busy \/ page[p].shown > 0}

\* Each watering on its way is the only one of its dashboard.
OneWateringEach ==
  \A c \in Calls : call[c].pc # "idle" =>
    IF call[c].kind = "water"
      THEN /\ call[c].page \in Pages /\ page[call[c].page].busy
           /\ \A d \in Calls : call[d].pc # "idle" /\ call[d].page = call[c].page => d = c
      ELSE call[c].page = NoPage

Covered ==
  IF row = NoRow THEN Wet = {}
  ELSE row.drops - Cardinality(Wet) > - Cardinality(Pages)

Dashboards == OneWateringEach /\ Covered

LEMMA WetCount ==
  /\ Cardinality(Pages) \in Nat /\ Cardinality(Pages) > 0
  /\ IsFiniteSet(Wet) /\ Cardinality(Wet) \in Nat /\ Cardinality(Wet) <= Cardinality(Pages)
<1>1. Wet \subseteq Pages  BY DEF Wet
<1>2. IsFiniteSet(Pages) /\ Pages # {}  BY ConstantsAssumption
<1>3. IsFiniteSet(Wet) /\ Cardinality(Wet) <= Cardinality(Pages)  BY <1>1, <1>2, FS_Subset
<1>4. Cardinality(Wet) \in Nat /\ Cardinality(Pages) \in Nat  BY <1>2, <1>3, FS_CardinalityType
<1>5. Cardinality(Pages) > 0  BY <1>2, <1>4, FS_EmptySet
<1> QED  BY <1>3, <1>4, <1>5

\* The same of the next state.
LEMMA WetCountNext ==
  /\ IsFiniteSet(Wet') /\ Cardinality(Wet') \in Nat /\ Cardinality(Wet') <= Cardinality(Pages)
<1>1. Wet' \subseteq Pages  BY DEF Wet
<1>2. IsFiniteSet(Pages)  BY ConstantsAssumption
<1>3. IsFiniteSet(Wet') /\ Cardinality(Wet') <= Cardinality(Pages)  BY <1>1, <1>2, FS_Subset
<1> QED  BY <1>3, FS_CardinalityType

\* Fewer dashboards that may spend, or the same, do no harm.
LEMMA WetShrinks ==
  ASSUME Wet' \subseteq Wet PROVE Cardinality(Wet') <= Cardinality(Wet)
BY WetCount, FS_Subset

LEMMA InitDashboards == Init => Dashboards
BY DEF Init, Dashboards, OneWateringEach, Covered, Wet, NoCall

LEMMA NextDashboards == IInv /\ IInv' /\ Dashboards /\ [Next]_vars => Dashboards'
<1> SUFFICES ASSUME IInv, IInv', Dashboards, [Next]_vars PROVE Dashboards'  OBVIOUS
<1> USE ConstantsAssumption
<1>0. /\ call \in [Calls -> Running \cup {NoCall}] /\ row \in Row \cup {NoRow} /\ today \in 0..MaxDay
      /\ page \in [Pages -> [shown : Int, busy : BOOLEAN]]
      /\ row' \in Row \cup {NoRow} /\ NoRow \notin Row
      /\ OneWateringEach /\ Covered
  BY DEF IInv, TypeOK, Dashboards
<1>a. ASSUME row # NoRow PROVE row.drops \in Int
  BY <1>0, <1>a DEF Row
\* Steps that leave the row, the calls' pages and the dashboards alone.
<1>b. ASSUME UNCHANGED <<row, page>>,
             \A c \in Calls : call'[c].pc # "idle" =>
                 /\ call[c].pc # "idle"
                 /\ call'[c].kind = call[c].kind /\ call'[c].page = call[c].page
      PROVE  Dashboards'
  <2>1. OneWateringEach'  BY <1>0, <1>b DEF OneWateringEach
  <2>2. Wet' = Wet  BY <1>b DEF Wet
  <2>3. Covered'  BY <1>0, <1>b, <2>2 DEF Covered
  <2> QED  BY <2>1, <2>3 DEF Dashboards
<1>1. CASE Midnight
  BY <1>1, <1>b DEF Midnight
<1>2. ASSUME NEW c \in Calls, NEW kind \in {"login", "exam"}, Event(c, kind) PROVE Dashboards'
  <2>1. /\ call[c].pc = "idle" /\ UNCHANGED <<row, page>>
        /\ call'[c].kind = kind /\ call'[c].page = NoPage
        /\ \A d \in Calls \ {c} : call'[d] = call[d]
    BY <1>0, <1>2 DEF Event, Read
  <2>2. OneWateringEach'  BY <1>0, <2>1 DEF OneWateringEach
  <2>3. Wet' = Wet  BY <2>1 DEF Wet
  <2>4. Covered'  BY <1>0, <2>1, <2>3 DEF Covered
  <2> QED  BY <2>2, <2>4 DEF Dashboards
\* The calls left after one ends, when no other dashboard has changed.
<1>c. ASSUME NEW c \in Calls, call[c].pc # "idle", call' = [call EXCEPT ![c] = NoCall],
             \A p \in Pages : p # call[c].page => page'[p] = page[p]
      PROVE  OneWateringEach'
  <2>1. call'[c].pc = "idle" /\ \A d \in Calls \ {c} : call'[d] = call[d]
    BY <1>0, <1>c DEF NoCall
  <2>2. ASSUME NEW d \in Calls, call'[d].pc # "idle"
        PROVE  IF call'[d].kind = "water"
                 THEN /\ call'[d].page \in Pages /\ page'[call'[d].page].busy
                      /\ \A e \in Calls : call'[e].pc # "idle" /\ call'[e].page = call'[d].page => e = d
                 ELSE call'[d].page = NoPage
    <3>1. d # c /\ call'[d] = call[d]  BY <2>1, <2>2
    <3>2. CASE call[d].kind = "water"
      <4>1. /\ call[d].page \in Pages /\ page[call[d].page].busy
            /\ \A e \in Calls : call[e].pc # "idle" /\ call[e].page = call[d].page => e = d
        BY <1>0, <2>2, <3>1, <3>2 DEF OneWateringEach
      <4>2. call[c].page # call[d].page  BY <1>c, <3>1, <4>1
      <4>3. page'[call[d].page] = page[call[d].page]  BY <1>c, <4>1, <4>2
      <4> QED  BY <2>1, <3>1, <3>2, <4>1, <4>3
    <3>3. CASE call[d].kind # "water"
      BY <1>0, <2>2, <3>1, <3>3 DEF OneWateringEach
    <3> QED  BY <3>2, <3>3
  <2> QED  BY <2>2 DEF OneWateringEach
<1>3. ASSUME NEW c \in Calls, Update(c) PROVE Dashboards'
  <2>0. /\ call[c].pc = "read" /\ row # NoRow
        /\ row' = [drops |-> row.drops + Gain(call[c].kind), exp |-> row.exp + Exp(call[c].kind),
                   streak |-> StreakAfter(c), last |-> today]
        /\ call' = [call EXCEPT ![c] = NoCall]
        /\ page' = Answered(c, row'.drops)
    BY <1>3 DEF Update, Succeeds, RowFound, DropsAfter
  <2>1. row'.drops = row.drops + Gain(call[c].kind) /\ row.drops \in Int  BY <1>a, <2>0
  <2>2. \A p \in Pages : page'[p] = IF p = call[c].page
                                      THEN [shown |-> row'.drops, busy |-> FALSE] ELSE page[p]
    BY <2>0 DEF Answered
  <2>3. OneWateringEach'  BY <1>c, <2>0, <2>2
  <2>4. row' # NoRow  BY <1>0, <1>3, SucceedsLeavesRow DEF IInv
  <2>5. call[c].kind \in {"login", "exam", "water"}
    BY <1>0, <2>0 DEF Running, NoCall
  <2>6. CASE call[c].kind # "water"
    <3>1. Gain(call[c].kind) \in Nat  BY <2>5, <2>6 DEF Gain
    <3>2. Wet' = Wet  BY <1>0, <2>0, <2>2, <2>6 DEF OneWateringEach, Wet
    <3>3. Covered'  BY <1>0, <2>0, <2>1, <2>4, <3>1, <3>2, WetCount DEF Covered
    <3> QED  BY <2>3, <3>3 DEF Dashboards
  <2>7. CASE call[c].kind = "water"
    <3> DEFINE p == call[c].page
    <3>1. p \in Pages /\ p \in Wet  BY <1>0, <2>0, <2>7 DEF OneWateringEach, Wet
    <3>2. row'.drops = row.drops - 1  BY <2>1, <2>7 DEF Gain
    <3>3. CASE row'.drops > 0
      BY <2>3, <2>4, <3>3, <3>2, <2>1, WetCount, WetCountNext DEF Covered, Dashboards
    <3>4. CASE ~(row'.drops > 0)
      <4>1. Wet' = Wet \ {p}  BY <2>2, <3>1, <3>4 DEF Wet
      <4>2. Cardinality(Wet') = Cardinality(Wet) - 1  BY <3>1, <4>1, WetCount, FS_RemoveElement
      <4>3. Covered'  BY <1>0, <2>0, <2>1, <2>4, <3>2, <4>2, WetCount DEF Covered
      <4> QED  BY <2>3, <4>3 DEF Dashboards
    <3> QED  BY <3>3, <3>4
  <2> QED  BY <2>6, <2>7
<1>4. ASSUME NEW c \in Calls, FindsNone(c) PROVE Dashboards'
  <2>1. call[c] \in Running  BY <1>0, <1>4 DEF FindsNone, NoCall
  <2> QED  BY <1>0, <1>4, <1>b, <2>1 DEF FindsNone, Running
<1>5. ASSUME NEW c \in Calls, Insert(c) PROVE Dashboards'
  <2>0. /\ call[c].pc = "inserting" /\ row = NoRow
        /\ row' = [drops |-> Gain(call[c].kind), exp |-> Exp(call[c].kind), streak |-> 1, last |-> today]
        /\ call' = [call EXCEPT ![c] = NoCall]
        /\ page' = Answered(c, row'.drops)
    BY <1>5 DEF Insert, Succeeds
  <2>1. Wet = {}  BY <1>0, <2>0 DEF Covered
  <2>2. call[c].kind # "water" /\ call[c].page = NoPage
    BY <1>0, <2>0, <2>1 DEF OneWateringEach, Wet
  <2>3. call[c].kind \in {"login", "exam", "water"}
    BY <1>0, <2>0 DEF Running, NoCall
  <2>4. row'.drops \in Nat  BY <2>0, <2>2, <2>3 DEF Gain
  <2>5. \A p \in Pages : page'[p] = page[p]  BY <2>0, <2>2 DEF Answered
  <2>6. Cardinality(Wet') = 0  BY <2>1, <2>5, FS_EmptySet DEF Wet
  <2>7. OneWateringEach'  BY <1>c, <2>0, <2>5
  <2>8. row' # NoRow  BY <1>0, <1>5, SucceedsLeavesRow DEF IInv
  <2>9. Covered'  BY <2>4, <2>6, <2>8, WetCount DEF Covered
  <2> QED  BY <2>7, <2>9 DEF Dashboards
<1>6. ASSUME NEW c \in Calls, InsertRefused(c) PROVE Dashboards'
  <2>0. /\ call[c].pc = "inserting" /\ row # NoRow /\ row' = row
        /\ call' = [call EXCEPT ![c] = NoCall]
        /\ \A p \in Pages : page'[p] = IF p = call[c].page THEN [page[p] EXCEPT !.busy = FALSE]
                                       ELSE page[p]
    BY <1>6 DEF InsertRefused
  <2>1. OneWateringEach'  BY <1>c, <2>0
  <2>2. \A p \in Pages : page'[p].shown = page[p].shown /\ (page'[p].busy => page[p].busy)
    BY <1>0, <2>0
  <2>3. Wet' \subseteq Wet  BY <2>2 DEF Wet
  <2>4. Covered'  BY <1>0, <1>a, <2>0, <2>3, WetShrinks, WetCount, WetCountNext DEF Covered
  <2> QED  BY <2>1, <2>4 DEF Dashboards
<1>7. ASSUME NEW p \in Pages, NEW c \in Calls, Water(p, c) PROVE Dashboards'
  <2>0. /\ page[p].shown > 0 /\ ~page[p].busy /\ UNCHANGED row
        /\ page' = [page EXCEPT ![p].busy = TRUE]
        /\ call[c].pc = "idle" /\ call'[c].kind = "water" /\ call'[c].page = p
        /\ \A d \in Calls \ {c} : call'[d] = call[d]
    BY <1>0, <1>7 DEF Water, MayWater, Read
  <2>1. /\ page'[p].busy /\ page'[p].shown = page[p].shown
        /\ \A q \in Pages \ {p} : page'[q] = page[q]
    BY <1>0, <2>0
  <2>2. \A d \in Calls : call[d].pc # "idle" => call[d].page # p
    BY <1>0, <2>0 DEF OneWateringEach
  <2>3. OneWateringEach'  BY <1>0, <2>0, <2>1, <2>2 DEF OneWateringEach
  <2>4. Wet' = Wet  BY <2>0, <2>1 DEF Wet
  <2>5. Covered'  BY <1>0, <2>0, <2>4 DEF Covered
  <2> QED  BY <2>3, <2>5 DEF Dashboards
<1>8. ASSUME NEW p \in Pages, Load(p) PROVE Dashboards'
  <2> DEFINE n == IF row = NoRow THEN 0 ELSE row.drops
  <2>0. /\ ~page[p].busy /\ UNCHANGED <<row, call>>
        /\ page' = [page EXCEPT ![p].shown = n]
    BY <1>8 DEF Load
  <2>1. n \in Int  BY <1>a
  <2>2. /\ page'[p].shown = n /\ page'[p].busy = page[p].busy
        /\ \A q \in Pages \ {p} : page'[q] = page[q]
    BY <1>0, <2>0
  <2>3. \A q \in Pages : page'[q].busy = page[q].busy  BY <2>2
  <2>4. OneWateringEach'  BY <1>0, <2>0, <2>3 DEF OneWateringEach
  <2>5. CASE n > 0
    <3>1. row # NoRow /\ row' = row /\ row.drops > 0  BY <2>0, <2>5
    <3> QED  BY <2>4, <3>1, <1>a, WetCount, WetCountNext DEF Covered, Dashboards
  <2>6. CASE ~(n > 0)
    <3>1. Wet' \subseteq Wet  BY <2>0, <2>2, <2>6 DEF Wet
    <3>2. Covered'  BY <1>0, <1>a, <2>0, <3>1, WetShrinks, WetCount, WetCountNext DEF Covered
    <3> QED  BY <2>4, <3>2 DEF Dashboards
  <2> QED  BY <2>5, <2>6
<1>9. CASE UNCHANGED vars
  BY <1>9, <1>b DEF vars
<1> QED
  BY <1>1, <1>2, <1>3, <1>4, <1>5, <1>6, <1>7, <1>8, <1>9 DEF Next

\* However many dashboards water at once, each can spend at most one drop that is not there.
THEOREM OverspendIsBounded == Spec => []OverspendBounded
<1>1. IInv /\ Dashboards => OverspendBounded
  BY WetCount, ConstantsAssumption DEF IInv, TypeOK, Row, Dashboards, Covered, OverspendBounded
<1>2. Spec => []Dashboards
  BY InitDashboards, NextDashboards, Invariance, PTL DEF Spec
<1> QED  BY <1>1, <1>2, Invariance, PTL

------------------------------------------------------------------------------
(* StreakNeedsActivity.  The decision to go on is taken on the day of the read; the row    *)
(* can only have become more recent since, and at most one midnight has passed.            *)

Recent ==
  \A c \in Calls : call[c].pc # "idle" =>
    /\ call[c].since <= today /\ today <= call[c].since + 1
    /\ call[c].goesOn => row # NoRow /\ call[c].since - row.last <= 1

LEMMA InitRecent == Init => Recent
BY DEF Init, Recent, NoCall

LEMMA NextRecent == IInv /\ IInv' /\ Recent /\ [Next]_vars => Recent'
<1> SUFFICES ASSUME IInv, IInv', Recent, [Next]_vars PROVE Recent'  OBVIOUS
<1> USE ConstantsAssumption
<1>0. /\ call \in [Calls -> Running \cup {NoCall}] /\ today \in 0..MaxDay
      /\ row \in Row \cup {NoRow} /\ row' \in Row \cup {NoRow} /\ NoRow \notin Row
  BY DEF IInv, TypeOK
<1>1. CASE Midnight
  BY <1>0, <1>1 DEF Midnight, Recent, Running, NoCall
\* A call that reads, on a row and a day left alone.
<1>a. ASSUME NEW c \in Calls, NEW kind, NEW p, Read(c, kind, p), UNCHANGED <<today, row>>
      PROVE  Recent'
  <2>1. /\ call'[c].since = today
        /\ call'[c].goesOn => row # NoRow /\ RecentEnough(row.last)
        /\ \A d \in Calls \ {c} : call'[d] = call[d]
    BY <1>0, <1>a DEF Read
  <2>2. call'[c].goesOn => row # NoRow /\ call'[c].since - row.last <= 1
    BY <2>1 DEF RecentEnough
  <2> QED  BY <1>0, <1>a, <2>1, <2>2 DEF Recent
\* A call that ends, on a row that is now more recent, or left alone.
<1>b. ASSUME NEW c \in Calls, call' = [call EXCEPT ![c] = NoCall], UNCHANGED today,
             row' = row \/ (row' \in Row /\ row'.last = today)
      PROVE  Recent'
  <2>1. call'[c].pc = "idle" /\ \A d \in Calls \ {c} : call'[d] = call[d]
    BY <1>0, <1>b DEF NoCall
  <2>2. CASE row' = row
    BY <1>b, <2>1, <2>2 DEF Recent
  <2>3. CASE row' \in Row /\ row'.last = today
    <3>1. row' # NoRow  BY <1>0, <2>3
    <3>2. \A d \in Calls : call'[d].pc # "idle" => call'[d].since - row'.last <= 1
      <4> SUFFICES ASSUME NEW d \in Calls, call'[d].pc # "idle"
                   PROVE  call'[d].since - row'.last <= 1
        OBVIOUS
      <4>1. call'[d] = call[d] /\ call[d] \in Running  BY <1>0, <2>1 DEF NoCall
      <4> QED  BY <1>0, <2>3, <4>1 DEF Recent, Running
    <3> QED  BY <1>b, <2>1, <3>1, <3>2 DEF Recent
  <2> QED  BY <1>b, <2>2, <2>3
<1>2. ASSUME NEW c \in Calls, NEW kind \in {"login", "exam"}, Event(c, kind) PROVE Recent'
  BY <1>2, <1>a DEF Event
<1>3. ASSUME NEW c \in Calls, Update(c) \/ Insert(c) PROVE Recent'
  <2>1. row' \in Row  BY <1>3, SucceedsLeavesRow DEF IInv
  <2>2. row'.last = today  BY <1>3 DEF Update, Insert
  <2>3. call' = [call EXCEPT ![c] = NoCall] /\ UNCHANGED today
    BY <1>3 DEF Update, Insert, Succeeds
  <2> QED  BY <1>0, <1>b, <2>1, <2>2, <2>3
<1>4. ASSUME NEW c \in Calls, FindsNone(c) PROVE Recent'
  BY <1>0, <1>4 DEF FindsNone, Recent, Running, NoCall
<1>5. ASSUME NEW c \in Calls, InsertRefused(c) PROVE Recent'
  BY <1>5, <1>b DEF InsertRefused
<1>6. ASSUME NEW p \in Pages, NEW c \in Calls, Water(p, c) PROVE Recent'
  BY <1>6, <1>a DEF Water
<1>7. CASE UNCHANGED vars \/ \E p \in Pages : Load(p)
  BY <1>7 DEF vars, Load, Recent
<1> QED
  BY <1>1, <1>2, <1>3, <1>4, <1>5, <1>6, <1>7 DEF Next

\* The streak goes on only within two days of the last activity, whatever overlaps.
THEOREM StreakIsActive == Spec => StreakNeedsActivity
<1>1. IInv /\ Recent /\ [Next]_vars =>
        [row # NoRow /\ row'.streak > row.streak => today - row.last <= 2]_vars
  <2> SUFFICES ASSUME IInv, Recent, [Next]_vars, row # NoRow, row'.streak > row.streak
               PROVE  today - row.last <= 2
    OBVIOUS
  <2>1. /\ row \in Row /\ today \in 0..MaxDay
        /\ call \in [Calls -> Running \cup {NoCall}]
    BY DEF IInv, TypeOK
  <2>2. row' # row  BY <2>1 DEF Row
  <2>3. PICK c \in Calls : Update(c)
    BY <2>2 DEF Next, vars, Midnight, Event, FindsNone, Insert, InsertRefused, Water, Load
  <2>4. call[c] \in Running  BY <2>1, <2>3 DEF Update, NoCall
  <2>5. row'.streak = StreakAfter(c)  BY <2>3 DEF Update
  <2>6. call[c].goesOn  BY <2>1, <2>5 DEF StreakAfter, Row
  <2> QED  BY <2>1, <2>3, <2>4, <2>6 DEF Update, Recent, Row, Running
<1>2. Spec => []Recent
  BY InitRecent, NextRecent, Invariance, PTL DEF Spec
<1> QED  BY <1>1, <1>2, Invariance, PTL DEF Spec, StreakNeedsActivity
------------------------------------------------------------------------------
(* The badge *)

Counts == 0..Cardinality(Notices)
Noted == [call : {"idle", "called", "inserted", "counted", "done", "died"},
          row : {"none", "unread", "read"}, cnt : Counts]
Clicked == [pc : {"idle", "asked", "marked", "counted", "answered", "done"},
            of : Notices \cup {NoNotice}, cnt : Counts]
Header == [opens : 0..MaxOpens, room : {"out", "asked", "in"}, badge : Counts,
         count : {"none", "asked", "counted"}, counted : Counts]

Shape ==
  /\ learners \subseteq Students
  /\ ses \in [Requests -> {"idle", "made", "told", "kept", "void"}]
  /\ hand \in [Requests -> {"none", "queue", "store", "tell", "done", "died"}]
  /\ job \in [Requests -> [pc : {"none", "queued", "active", "sent", "done", "lost"},
                           run : 0..MaxStalls, stored : BOOLEAN]]
  /\ note \in [Notices -> Noted] /\ click \in [Clicks -> Clicked] /\ header \in Header
  /\ wire \in Seq(Counts) /\ (wire # <<>> => header.room = "in")
  /\ ahead \in Nat /\ raced \in BOOLEAN /\ cut \in BOOLEAN

\* A notice is called once: news by the handler that ends so, a reminder by one run of its job;
\* the handler starts once, and the job after it.
CalledBy(n) ==
  \/ n.kind = "news" /\ hand[n.of] \in {"done", "died"}
  \/ /\ n.kind = "reminder"
     /\ \/ n.run < job[n.of].run
        \/ n.run = job[n.of].run /\ job[n.of].pc \in {"sent", "done", "lost"}
CalledOnce ==
  /\ \A r \in Requests : /\ ses[r] \in {"idle", "made"} => hand[r] = "none"
                         /\ hand[r] \in {"none", "queue"} => job[r].pc = "none"
  /\ \A n \in Notices : note[n].call # "idle" => CalledBy(n)

\* The counts on their way to the page: by a notice, or by a click.
ByNotice(n) == n.to = Reader /\ note[n].call = "counted"
ByClick(c) == click[c].pc = "counted"

\* What is said of a header from the time its first count has been read, until it is raced or cut.
Watched == header.room # "out" /\ ~cut /\ ~raced /\ header.count # "asked"

\* Of the counts on their way there is one at most.
Alone ==
  Watched =>
    /\ Len(wire) <= 1
    /\ header.count = "counted" => wire = <<>>
    /\ \A n \in Notices : ByNotice(n) =>
         /\ header.count # "counted" /\ wire = <<>>
         /\ \A m \in Notices : ByNotice(m) => m = n
         /\ \A c \in Clicks : ~ByClick(c)
    /\ \A c \in Clicks : ByClick(c) =>
         /\ header.count # "counted" /\ wire = <<>>
         /\ \A d \in Clicks : ByClick(d) => d = c

\* No row of the reader has changed without being counted yet.
AllCounted ==
  /\ Watched
  /\ \A n \in Notices : n.to = Reader => note[n].call # "inserted"
  /\ \A c \in Clicks : click[c].pc # "marked"

\* Then the count on its way, or the badge, is what there is to read.
Accurate ==
  AllCounted =>
    /\ header.count = "counted" => header.counted = CountOf(Reader)
    /\ wire # <<>> => Head(wire) = CountOf(Reader)
    /\ \A n \in Notices : ByNotice(n) => note[n].cnt = CountOf(Reader)
    /\ \A c \in Clicks : ByClick(c) => click[c].cnt = CountOf(Reader)
    /\ ~UnderWay => header.badge = IF CountOf(Reader) > ahead THEN CountOf(Reader) - ahead ELSE 0

NoticesIInv == Shape /\ CalledOnce /\ Alone /\ Accurate

------------------------------------------------------------------------------
(* Counting *)

LEMMA NoticesFinite == IsFiniteSet(Notices)
<1> DEFINE Pairs == Requests \X Students
           Runs == Pairs \X (0..MaxStalls)
           News == [kind : {"news"}, of : Requests, to : Students, run : {0}]
           Reminders == [kind : {"reminder"}, of : Requests, to : Students, run : 0..MaxStalls]
           News_of == [p \in Pairs |-> [kind |-> "news", of |-> p[1], to |-> p[2], run |-> 0]]
           Reminder_of == [p \in Runs |-> [kind |-> "reminder", of |-> p[1][1], to |-> p[1][2], run |-> p[2]]]
<1>a. IsFiniteSet(Requests) /\ IsFiniteSet(Students) /\ MaxStalls \in Int  BY NoticesAssumption
<1>b. IsFiniteSet(Pairs)  BY <1>a, FS_Product
<1>c. 0 \in Int  OBVIOUS
<1>d. IsFiniteSet(0..MaxStalls)  BY <1>a, <1>c, FS_Interval
<1>1. IsFiniteSet(Pairs) /\ IsFiniteSet(0..MaxStalls)  BY <1>b, <1>d
<1>2. IsFiniteSet(Runs)  BY <1>1, FS_Product
<1>3. IsFiniteSet(News)
  <2>1. \A n \in News : \E p \in Pairs : n = News_of[p]
    <3> TAKE n \in News
    <3>1. <<n.of, n.to>> \in Pairs  OBVIOUS
    <3>2. n = News_of[<<n.of, n.to>>]  BY <3>1
    <3> QED  BY <3>1, <3>2
  <2>2. News_of \in [Pairs -> News]  OBVIOUS
  <2> HIDE DEF News, Pairs, News_of
  <2>3. News_of \in Surjection(Pairs, News)  BY <2>1, <2>2 DEF Surjection
  <2> QED  BY <1>1, <2>3, FS_Surjection
<1>4. IsFiniteSet(Reminders)
  <2>1. \A n \in Reminders : \E p \in Runs : n = Reminder_of[p]
    <3> TAKE n \in Reminders
    <3>1. <<<<n.of, n.to>>, n.run>> \in Runs  OBVIOUS
    <3>2. n = Reminder_of[<<<<n.of, n.to>>, n.run>>]  BY <3>1
    <3> QED  BY <3>1, <3>2
  <2>2. Reminder_of \in [Runs -> Reminders]  OBVIOUS
  <2> HIDE DEF Reminders, Runs, Reminder_of
  <2>3. Reminder_of \in Surjection(Runs, Reminders)  BY <2>1, <2>2 DEF Surjection
  <2> QED  BY <1>2, <2>3, FS_Surjection
<1> HIDE DEF News, Reminders
<1> QED  BY <1>3, <1>4, FS_Union DEF Notices, News, Reminders

LEMMA CountRange == \A s : CountOf(s) \in Counts /\ CountOf(s) \in Nat
<1> SUFFICES ASSUME NEW s PROVE CountOf(s) \in Counts /\ CountOf(s) \in Nat  OBVIOUS
<1>1. {n \in Rows("unread") : n.to = s} \subseteq Notices  BY DEF Rows
<1>2. /\ Cardinality({n \in Rows("unread") : n.to = s}) <= Cardinality(Notices)
      /\ IsFiniteSet({n \in Rows("unread") : n.to = s})
  BY <1>1, NoticesFinite, FS_Subset
<1>3. Cardinality(Notices) \in Nat /\ Cardinality({n \in Rows("unread") : n.to = s}) \in Nat
  BY <1>2, NoticesFinite, FS_CardinalityType
<1> QED  BY <1>2, <1>3 DEF CountOf, Counts

LEMMA CountsAreNumbers == Counts \subseteq Nat /\ 0 \in Counts
BY NoticesFinite, FS_CardinalityType DEF Counts

\* Only the rows of the reader's notices count.
LEMMA SameCount ==
  ASSUME \A n \in Notices : n.to = Reader => note'[n].row = note[n].row
  PROVE  CountOf(Reader)' = CountOf(Reader)
<1>1. {n \in Rows("unread")' : n.to = Reader} = {n \in Rows("unread") : n.to = Reader}  BY DEF Rows
<1> QED  BY <1>1 DEF CountOf

------------------------------------------------------------------------------
(* Steps *)

\* Who is asked about a page that is not watched has nothing to say.
LEMMA Unwatched == ~Watched' => Alone' /\ Accurate'
BY DEF Alone, Accurate, AllCounted

\* Steps after which the same counts are on their way, to the same badge.
LEMMA SameCounts ==
  ASSUME NoticesIInv, UNCHANGED wire, Watched' => Watched,
         header'.count = header.count, header'.counted = header.counted, header'.badge = header.badge,
         ahead' = ahead,
         \A n \in Notices : ByNotice(n)' <=> ByNotice(n),
         \A n \in Notices : ByNotice(n) => note'[n].cnt = note[n].cnt,
         \A c \in Clicks : ByClick(c)' <=> ByClick(c),
         \A c \in Clicks : ByClick(c) => click'[c].cnt = click[c].cnt,
         AllCounted' => AllCounted /\ CountOf(Reader)' = CountOf(Reader)
  PROVE  Alone' /\ Accurate'
<1>1. Alone'  BY DEF NoticesIInv, Alone
<1>2. UnderWay' <=> UnderWay
  <2>1. UnderWay <=> \/ header.count = "counted" \/ wire # <<>>
                     \/ \E n \in Notices : ByNotice(n)
                     \/ \E c \in Clicks : ByClick(c)
    BY DEF UnderWay, ByNotice, ByClick
  <2>2. UnderWay' <=> \/ header'.count = "counted" \/ wire' # <<>>
                      \/ \E n \in Notices : ByNotice(n)'
                      \/ \E c \in Clicks : ByClick(c)'
    BY DEF UnderWay, ByNotice, ByClick
  <2> QED  BY <2>1, <2>2
<1>3. Accurate'
  <2> SUFFICES ASSUME AllCounted' PROVE Accurate'  BY DEF Accurate
  <2>1. AllCounted /\ CountOf(Reader)' = CountOf(Reader)  OBVIOUS
  <2>2. /\ header'.count = "counted" => header'.counted = CountOf(Reader)
        /\ wire' # <<>> => Head(wire') = CountOf(Reader)
        /\ \A n \in Notices : ByNotice(n)' => note'[n].cnt = CountOf(Reader)
        /\ \A c \in Clicks : ByClick(c)' => click'[c].cnt = CountOf(Reader)
        /\ ~UnderWay' => header'.badge = IF CountOf(Reader) > ahead' THEN CountOf(Reader) - ahead' ELSE 0
    BY <1>2, <2>1 DEF NoticesIInv, Accurate
  <2> QED  BY <2>1, <2>2 DEF Accurate
<1> QED  BY <1>1, <1>3

\* The session, the handler of its event and its job, while no notice is called.
LEMMA RequestStep ==
  ASSUME NoticesIInv, NEW r \in Requests,
         \/ Serve(r) \/ RollBack(r) \/ QueueJob(r) \/ QueueFails(r) \/ StoreJob(r)
         \/ TakeJob(r) \/ RemindFails(r) \/ CompleteJob(r)
  PROVE  NoticesIInv'
<1> USE DEF NoticesIInv, Shape
<1>1. UNCHANGED <<learners, note, header, wire, click, cut, raced, ahead>>
  BY DEF Serve, InsertSession, Emit, Commit, RollBack, QueueJob, QueueFails, StoreJob, TakeJob,
         RemindFails, CompleteJob, headerVars
<1>2. Shape'
  <2>1. /\ ses' \in [Requests -> {"idle", "made", "told", "kept", "void"}]
        /\ hand' \in [Requests -> {"none", "queue", "store", "tell", "done", "died"}]
    BY DEF Serve, InsertSession, Emit, Commit, RollBack, QueueJob, QueueFails, StoreJob, TakeJob,
           RemindFails, CompleteJob
  <2>2. job' \in [Requests -> [pc : {"none", "queued", "active", "sent", "done", "lost"},
                               run : 0..MaxStalls, stored : BOOLEAN]]
    <3>1. CASE Serve(r) \/ RollBack(r)
      BY <3>1 DEF Serve, InsertSession, Emit, Commit, RollBack
    <3>2. CASE QueueJob(r)  BY <3>2 DEF QueueJob
    <3>3. CASE QueueFails(r)  BY <3>3 DEF QueueFails
    <3>4. CASE StoreJob(r)
      <4>1. PICK stored \in BOOLEAN : job' = [job EXCEPT ![r].stored = stored]  BY <3>4 DEF StoreJob
      <4> QED  BY <4>1
    <3>5. CASE TakeJob(r)  BY <3>5 DEF TakeJob
    <3>6. CASE CompleteJob(r)  BY <3>6 DEF CompleteJob
    <3>7. CASE RemindFails(r)  BY <3>7 DEF RemindFails
    <3> QED  BY <3>1, <3>2, <3>3, <3>4, <3>5, <3>6, <3>7
  <2> QED  BY <1>1, <2>1, <2>2
<1>3. CalledOnce'
  <2>a. \A q \in Requests : ses'[q] \in {"idle", "made"} => hand'[q] = "none"
    <3>1. Serve(r) \/ RollBack(r) => \A q \in Requests : ses'[q] \in {"idle", "made"} => hand'[q] = "none"
      BY DEF Serve, InsertSession, Emit, Commit, RollBack, CalledOnce
    <3>2. QueueJob(r) \/ QueueFails(r) \/ StoreJob(r) =>
            hand[r] \in {"queue", "store"} /\ ses' = ses /\ \E to : hand' = [hand EXCEPT ![r] = to]
      BY DEF QueueJob, QueueFails, StoreJob
    <3>3. TakeJob(r) \/ RemindFails(r) \/ CompleteJob(r) => ses' = ses /\ hand' = hand
      BY DEF TakeJob, RemindFails, CompleteJob
    <3> QED  BY <3>1, <3>2, <3>3 DEF CalledOnce
  <2>b. Serve(r) \/ RollBack(r)
          => \A q \in Requests : hand'[q] \in {"none", "queue"} => job'[q].pc = "none"
    BY DEF Serve, InsertSession, Emit, Commit, RollBack, CalledOnce
  <2>c. QueueJob(r) \/ QueueFails(r) \/ StoreJob(r)
          => \A q \in Requests : hand'[q] \in {"none", "queue"} => job'[q].pc = "none"
    BY DEF QueueJob, QueueFails, StoreJob, CalledOnce
  <2>d. TakeJob(r) \/ RemindFails(r) \/ CompleteJob(r)
          => \A q \in Requests : hand'[q] \in {"none", "queue"} => job'[q].pc = "none"
    BY DEF TakeJob, RemindFails, CompleteJob, CalledOnce
  <2>1. \A q \in Requests : /\ ses'[q] \in {"idle", "made"} => hand'[q] = "none"
                            /\ hand'[q] \in {"none", "queue"} => job'[q].pc = "none"
    BY <2>a, <2>b, <2>c, <2>d
  <2>2. \A q \in Requests :
          /\ hand[q] \in {"done", "died"} => hand'[q] = hand[q]
          /\ job'[q].run = job[q].run
          /\ job[q].pc \in {"sent", "done", "lost"} => job'[q].pc \in {"sent", "done", "lost"}
    BY DEF Serve, InsertSession, Emit, Commit, RollBack, QueueJob, QueueFails, StoreJob, TakeJob,
           RemindFails, CompleteJob, CalledOnce
  <2>3. \A n \in Notices : n.of \in Requests  BY DEF Notices
  <2>4. \A n \in Notices : CalledBy(n) => CalledBy(n)'  BY <2>2, <2>3 DEF CalledBy
  <2> QED  BY <1>1, <2>1, <2>4 DEF CalledOnce
<1>4. CountOf(Reader)' = CountOf(Reader)  BY <1>1, SameCount
<1>5. Alone' /\ Accurate'
  <2>1. (Watched' <=> Watched) /\ (AllCounted' <=> AllCounted)  BY <1>1 DEF Watched, AllCounted
  <2> QED  BY <1>1, <1>4, <2>1, SameCounts DEF ByNotice, ByClick
<1> QED  BY <1>2, <1>3, <1>5

\* Calling notices leaves their rows alone.
LEMMA CalledNotes ==
  ASSUME Shape, NEW receivers, NEW kind, NEW r, NEW run, Called(receivers, kind, r, run)
  PROVE  /\ note' \in [Notices -> Noted]
         /\ \A n \in Notices :
              /\ note'[n].row = note[n].row /\ note'[n].cnt = note[n].cnt
              /\ \/ note'[n].call = note[n].call
                 \/ n.kind = kind /\ n.of = r /\ n.run = run /\ note'[n].call = "called"
<1>1. note \in [Notices -> Noted]  BY DEF Shape
<1>2. note' = [n \in Notices |->
             IF n.kind = kind /\ n.of = r /\ n.run = run /\ n.to \in receivers
             THEN [note[n] EXCEPT !.call = "called"] ELSE note[n]]
  BY DEF Called
<1>3. ASSUME NEW n \in Notices
      PROVE  /\ note'[n] \in Noted
             /\ note'[n].row = note[n].row /\ note'[n].cnt = note[n].cnt
             /\ \/ note'[n].call = note[n].call
                \/ n.kind = kind /\ n.of = r /\ n.run = run /\ note'[n].call = "called"
  <2>1. [note[n] EXCEPT !.call = "called"] \in Noted
        /\ [note[n] EXCEPT !.call = "called"].row = note[n].row
        /\ [note[n] EXCEPT !.call = "called"].cnt = note[n].cnt
        /\ [note[n] EXCEPT !.call = "called"].call = "called"
    BY <1>1 DEF Noted
  <2>2. \/ note'[n] = note[n]
        \/ /\ n.kind = kind /\ n.of = r /\ n.run = run
           /\ note'[n] = [note[n] EXCEPT !.call = "called"]
    BY <1>2
  <2> QED  BY <1>1, <2>1, <2>2
<1>4. note' \in [Notices -> Noted]  BY <1>2, <1>3
<1> QED  BY <1>3, <1>4

\* Calls of notices that were not called before count nothing yet.
LEMMA CallStep ==
  ASSUME NoticesIInv, Shape', CalledOnce',
         UNCHANGED <<header, wire, click, cut, raced, ahead>>,
         \A n \in Notices : /\ note'[n].row = note[n].row /\ note'[n].cnt = note[n].cnt
                            /\ note'[n].call = note[n].call \/ (note[n].call = "idle" /\ note'[n].call = "called")
  PROVE  NoticesIInv'
<1>1. CountOf(Reader)' = CountOf(Reader)  BY SameCount
<1>2. /\ \A n \in Notices : ByNotice(n)' <=> ByNotice(n)
      /\ \A c \in Clicks : ByClick(c)' <=> ByClick(c)
  BY DEF ByNotice, ByClick
<1>3. (Watched' <=> Watched) /\ (AllCounted' <=> AllCounted)  BY DEF Watched, AllCounted
<1> QED  BY <1>1, <1>2, <1>3, SameCounts DEF NoticesIInv

LEMMA TellClassStep ==
  ASSUME NoticesIInv, NEW r \in Requests, TellClass(r)
  PROVE  NoticesIInv'
<1>1. /\ hand[r] = "tell" /\ hand' = [hand EXCEPT ![r] = "done"] /\ Called(Audience(r), "news", r, 0)
      /\ UNCHANGED <<learners, ses, job, header, wire, click, cut, raced, ahead>>
  BY DEF TellClass, headerVars
<1>2. Shape  BY DEF NoticesIInv
<1>3. /\ note' \in [Notices -> Noted]
      /\ \A n \in Notices :
           /\ note'[n].row = note[n].row /\ note'[n].cnt = note[n].cnt
           /\ \/ note'[n].call = note[n].call
              \/ n.kind = "news" /\ n.of = r /\ n.run = 0 /\ note'[n].call = "called"
  BY <1>1, <1>2, CalledNotes
<1>4. \A n \in Notices : n.kind = "news" /\ n.of = r => note[n].call = "idle"
  BY <1>1 DEF NoticesIInv, CalledOnce, CalledBy
<1>5. Shape'  BY <1>1, <1>2, <1>3 DEF Shape
<1>6. CalledOnce'
  <2>1. \A q \in Requests : /\ ses'[q] \in {"idle", "made"} => hand'[q] = "none"
                            /\ hand'[q] \in {"none", "queue"} => job'[q].pc = "none"
    BY <1>1, <1>2 DEF NoticesIInv, CalledOnce, Shape
  <2>2. \A n \in Notices : CalledBy(n) \/ (n.kind = "news" /\ n.of = r) => CalledBy(n)'
    BY <1>1, <1>2 DEF CalledBy, Shape, Notices
  <2>3. \A n \in Notices : note'[n].call # "idle" => CalledBy(n)'
    BY <1>3, <2>2 DEF NoticesIInv, CalledOnce
  <2> QED  BY <2>1, <2>3 DEF CalledOnce
<1> QED  BY <1>1, <1>3, <1>4, <1>5, <1>6, CallStep

LEMMA SendRemindersStep ==
  ASSUME NoticesIInv, NEW r \in Requests, SendReminders(r)
  PROVE  NoticesIInv'
<1>1. /\ job[r].pc = "active" /\ job' = [job EXCEPT ![r].pc = "sent"]
      /\ Called(Receivers(r), "reminder", r, job[r].run)
      /\ UNCHANGED <<learners, ses, hand, header, wire, click, cut, raced, ahead>>
  BY DEF SendReminders, headerVars
<1>2. Shape  BY DEF NoticesIInv
<1>3. /\ note' \in [Notices -> Noted]
      /\ \A n \in Notices :
           /\ note'[n].row = note[n].row /\ note'[n].cnt = note[n].cnt
           /\ \/ note'[n].call = note[n].call
              \/ n.kind = "reminder" /\ n.of = r /\ n.run = job[r].run /\ note'[n].call = "called"
  BY <1>1, <1>2, CalledNotes
<1>4. \A n \in Notices : n.kind = "reminder" /\ n.of = r /\ n.run = job[r].run => note[n].call = "idle"
  <2> SUFFICES ASSUME NEW n \in Notices, n.kind = "reminder", n.of = r, n.run = job[r].run
               PROVE  ~CalledBy(n)
    BY DEF NoticesIInv, CalledOnce
  <2>1. job[r].run \in Nat  BY <1>2, NoticesAssumption DEF Shape
  <2> QED  BY <1>1, <2>1 DEF CalledBy
<1>a. /\ job' \in [Requests -> [pc : {"none", "queued", "active", "sent", "done", "lost"},
                                run : 0..MaxStalls, stored : BOOLEAN]]
      /\ job'[r].pc = "sent" /\ job'[r].run = job[r].run
      /\ \A q \in Requests \ {r} : job'[q] = job[q]
  BY <1>1, <1>2 DEF Shape
<1>5. Shape'  BY <1>1, <1>2, <1>3, <1>a DEF Shape
<1>6. CalledOnce'
  <2>1. \A q \in Requests : /\ ses'[q] \in {"idle", "made"} => hand'[q] = "none"
                            /\ hand'[q] \in {"none", "queue"} => job'[q].pc = "none"
    BY <1>1, <1>a DEF NoticesIInv, CalledOnce
  <2>2. \A n \in Notices : CalledBy(n) \/ (n.kind = "reminder" /\ n.of = r /\ n.run = job[r].run) => CalledBy(n)'
    BY <1>1, <1>a DEF CalledBy, Notices
  <2>3. \A n \in Notices : note'[n].call # "idle" => CalledBy(n)'
    BY <1>3, <2>2 DEF NoticesIInv, CalledOnce
  <2> QED  BY <2>1, <2>3 DEF CalledOnce
<1> QED  BY <1>1, <1>3, <1>4, <1>5, <1>6, CallStep

\* Where the server's part is as it was, and no notice is called, every call was made once.
LEMMA CallsKept ==
  ASSUME CalledOnce, UNCHANGED <<ses, hand, job>>,
         \A n \in Notices : note'[n].call = "idle" <=> note[n].call = "idle"
  PROVE  CalledOnce'
BY DEF CalledOnce, CalledBy

LEMMA InsertStep ==
  ASSUME NoticesIInv, NEW n \in Notices, InsertNotice(n)
  PROVE  NoticesIInv'
<1>1. /\ note[n].call = "called"
      /\ note' = [note EXCEPT ![n].call = "inserted", ![n].row = "unread"]
      /\ UNCHANGED <<learners, ses, hand, job, header, wire, click, cut, raced, ahead>>
  BY DEF InsertNotice, serverVars, headerVars
<1>2. Shape  BY DEF NoticesIInv
<1>3. /\ note' \in [Notices -> Noted] /\ note'[n].call = "inserted" /\ note'[n].cnt = note[n].cnt
      /\ \A m \in Notices \ {n} : note'[m] = note[m]
  BY <1>1, <1>2 DEF Shape, Noted
<1>4. Shape'  BY <1>1, <1>2, <1>3 DEF Shape
<1>5. CalledOnce'  BY <1>1, <1>3, CallsKept DEF NoticesIInv
<1>6. /\ \A m \in Notices : ByNotice(m)' <=> ByNotice(m)
      /\ \A m \in Notices : ByNotice(m) => note'[m].cnt = note[m].cnt
      /\ \A c \in Clicks : ByClick(c)' <=> ByClick(c)
  BY <1>1, <1>3 DEF ByNotice, ByClick
<1>7. Watched' <=> Watched  BY <1>1 DEF Watched
<1>8. AllCounted' => AllCounted /\ CountOf(Reader)' = CountOf(Reader)
  <2> SUFFICES ASSUME AllCounted' PROVE AllCounted /\ CountOf(Reader)' = CountOf(Reader)  OBVIOUS
  <2>1. n.to # Reader  BY <1>3 DEF AllCounted
  <2>2. AllCounted  BY <1>1, <1>3, <1>7, <2>1 DEF AllCounted
  <2> QED  BY <1>3, <2>1, <2>2, SameCount
<1> QED  BY <1>1, <1>4, <1>5, <1>6, <1>7, <1>8, SameCounts DEF NoticesIInv

LEMMA MarkStep ==
  ASSUME NoticesIInv, NEW c \in Clicks, MarkAsRead(c)
  PROVE  NoticesIInv'
<1>1. /\ click[c].pc = "asked" /\ note' = [note EXCEPT ![click[c].of].row = "read"]
      /\ click' = [click EXCEPT ![c].pc = "marked"]
      /\ UNCHANGED <<learners, ses, hand, job, header, wire, cut, raced, ahead>>
  BY DEF MarkAsRead, serverVars
<1>2. Shape  BY DEF NoticesIInv
<1>3. /\ note' \in [Notices -> Noted]
      /\ \A m \in Notices : note'[m].call = note[m].call /\ note'[m].cnt = note[m].cnt
  <2>1. note \in [Notices -> Noted]  BY <1>2 DEF Shape
  <2>2. PICK k : k = click[c].of  OBVIOUS
  <2>3. note' = [note EXCEPT ![k].row = "read"]  BY <1>1, <2>2
  <2> QED  BY <2>1, <2>3 DEF Noted
<1>4. /\ click' \in [Clicks -> Clicked] /\ click'[c].pc = "marked"
      /\ \A d \in Clicks \ {c} : click'[d] = click[d]
  BY <1>1, <1>2 DEF Shape, Clicked
<1>5. Shape'  BY <1>1, <1>2, <1>3, <1>4 DEF Shape
<1>6. CalledOnce'  BY <1>1, <1>3, CallsKept DEF NoticesIInv
<1>7. /\ \A m \in Notices : ByNotice(m)' <=> ByNotice(m)
      /\ \A d \in Clicks : ByClick(d)' <=> ByClick(d)
      /\ \A d \in Clicks : ByClick(d) => click'[d].cnt = click[d].cnt
  BY <1>1, <1>3, <1>4 DEF ByNotice, ByClick
<1>8. Watched' <=> Watched  BY <1>1 DEF Watched
<1>9. ~AllCounted'  BY <1>4 DEF AllCounted
<1> QED  BY <1>1, <1>3, <1>5, <1>6, <1>7, <1>8, <1>9, SameCounts DEF NoticesIInv

LEMMA ClickStep ==
  ASSUME NoticesIInv, NEW c \in Clicks, NEW n \in Notices, Click(c, n)
  PROVE  NoticesIInv'
<1>1. /\ click[c].pc = "idle" /\ click' = [click EXCEPT ![c].pc = "asked", ![c].of = n]
      /\ UNCHANGED <<learners, ses, hand, job, note, header, wire, cut, raced, ahead>>
  BY DEF Click, serverVars
<1>2. Shape  BY DEF NoticesIInv
<1>3. /\ click' \in [Clicks -> Clicked] /\ click'[c].pc = "asked"
      /\ \A d \in Clicks \ {c} : click'[d] = click[d]
  BY <1>1, <1>2 DEF Shape, Clicked
<1>4. Shape'  BY <1>1, <1>2, <1>3 DEF Shape
<1>5. CalledOnce'  BY <1>1, CallsKept DEF NoticesIInv
<1>6. CountOf(Reader)' = CountOf(Reader)  BY <1>1, SameCount
<1>7. /\ \A m \in Notices : ByNotice(m)' <=> ByNotice(m)
      /\ \A d \in Clicks : ByClick(d)' <=> ByClick(d)
      /\ \A d \in Clicks : ByClick(d) => click'[d].cnt = click[d].cnt
  BY <1>1, <1>3 DEF ByNotice, ByClick
<1>8. (Watched' <=> Watched) /\ (AllCounted' <=> AllCounted)  BY <1>1, <1>3 DEF Watched, AllCounted
<1> QED  BY <1>1, <1>4, <1>5, <1>6, <1>7, <1>8, SameCounts DEF NoticesIInv

LEMMA MoveStep ==
  ASSUME NoticesIInv, NEW s \in Students, Move(s)
  PROVE  NoticesIInv'
<1>1. /\ learners' \subseteq Students
      /\ UNCHANGED <<ses, hand, job, note, header, click, wire, cut, raced, ahead>>
  BY DEF Move, serverVars, headerVars, NoticesIInv, Shape
<1>2. Shape'  BY <1>1 DEF NoticesIInv, Shape
<1>3. CalledOnce'  BY <1>1, CallsKept DEF NoticesIInv
<1> QED  BY <1>1, <1>2, <1>3, CallStep

LEMMA WhatIsUnderWay ==
  UnderWay <=> \/ header.count = "counted" \/ wire # <<>>
               \/ \E n \in Notices : ByNotice(n)
               \/ \E c \in Clicks : ByClick(c)
BY DEF UnderWay, ByNotice, ByClick

LEMMA EmptyWire == Len(<<>>) <= 1
BY EmptySeq

\* A count that is taken while no other is under way is the only one, and right.
LEMMA CountNoticeStep ==
  ASSUME NoticesIInv, NEW n \in Notices, CountNotice(n)
  PROVE  NoticesIInv'
<1>1. /\ note[n].call = "inserted"
      /\ note' = [note EXCEPT ![n].call = "counted", ![n].cnt = CountOf(n.to)]
      /\ raced' = IF n.to = Reader THEN UnderWay ELSE raced
      /\ UNCHANGED <<learners, ses, hand, job, header, wire, click, cut, ahead>>
  BY DEF CountNotice, serverVars
<1>2. Shape  BY DEF NoticesIInv
<1>3. /\ note' \in [Notices -> Noted] /\ note'[n].call = "counted" /\ note'[n].row = note[n].row
      /\ note'[n].cnt = CountOf(n.to)
      /\ \A m \in Notices \ {n} : note'[m] = note[m]
  BY <1>1, <1>2, CountRange DEF Shape, Noted
<1>4. UnderWay \in BOOLEAN  BY DEF UnderWay
<1>5. Shape'  BY <1>1, <1>2, <1>3, <1>4 DEF Shape
<1>6. CalledOnce'  BY <1>1, <1>3, CallsKept DEF NoticesIInv
<1>7. CountOf(Reader)' = CountOf(Reader)  BY <1>3, SameCount
<1>8. \A c \in Clicks : ByClick(c)' <=> ByClick(c)  BY <1>1 DEF ByClick
<1>9. CASE n.to # Reader
  <2>1. /\ \A m \in Notices : ByNotice(m)' <=> ByNotice(m)
        /\ \A m \in Notices : ByNotice(m) => note'[m].cnt = note[m].cnt
    BY <1>3, <1>9 DEF ByNotice
  <2>2. (Watched' <=> Watched) /\ (AllCounted' => AllCounted)  BY <1>1, <1>3, <1>9 DEF Watched, AllCounted
  <2> QED  BY <1>1, <1>5, <1>6, <1>7, <1>8, <2>1, <2>2, SameCounts DEF NoticesIInv
<1>10. CASE n.to = Reader /\ UnderWay
  BY <1>1, <1>5, <1>6, <1>10, Unwatched DEF NoticesIInv, Watched
<1>11. CASE n.to = Reader /\ ~UnderWay
  <2>1. /\ header.count # "counted" /\ wire = <<>>
        /\ \A m \in Notices : ~ByNotice(m)
        /\ \A c \in Clicks : ~ByClick(c)
    BY <1>11, WhatIsUnderWay
  <2>2. \A m \in Notices : ByNotice(m)' <=> m = n  BY <1>3, <1>11, <2>1 DEF ByNotice
  <2>3. Alone'  BY <1>1, <1>8, <2>1, <2>2, EmptyWire DEF Alone
  <2>4. UnderWay'  BY <1>3, <1>11 DEF UnderWay
  <2>5. Accurate'  BY <1>1, <1>3, <1>7, <1>8, <1>11, <2>1, <2>2, <2>4 DEF Accurate
  <2> QED  BY <1>5, <1>6, <2>3, <2>5 DEF NoticesIInv
<1> QED  BY <1>9, <1>10, <1>11

LEMMA CountMarkedStep ==
  ASSUME NoticesIInv, NEW c \in Clicks, CountMarked(c)
  PROVE  NoticesIInv'
<1>1. /\ click[c].pc = "marked" /\ raced' = UnderWay
      /\ click' = [click EXCEPT ![c].pc = "counted", ![c].cnt = CountOf(Reader)]
      /\ UNCHANGED <<learners, ses, hand, job, note, header, wire, cut, ahead>>
  BY DEF CountMarked, serverVars
<1>2. Shape  BY DEF NoticesIInv
<1>3. /\ click' \in [Clicks -> Clicked] /\ click'[c].pc = "counted" /\ click'[c].cnt = CountOf(Reader)
      /\ \A d \in Clicks \ {c} : click'[d] = click[d]
  BY <1>1, <1>2, CountRange DEF Shape, Clicked
<1>4. UnderWay \in BOOLEAN  BY DEF UnderWay
<1>5. Shape'  BY <1>1, <1>2, <1>3, <1>4 DEF Shape
<1>6. CalledOnce'  BY <1>1, CallsKept DEF NoticesIInv
<1>7. CountOf(Reader)' = CountOf(Reader)  BY <1>1, SameCount
<1>8. \A m \in Notices : ByNotice(m)' <=> ByNotice(m)  BY <1>1 DEF ByNotice
<1>9. CASE UnderWay
  BY <1>1, <1>5, <1>6, <1>9, Unwatched DEF NoticesIInv, Watched
<1>10. CASE ~UnderWay
  <2>1. /\ header.count # "counted" /\ wire = <<>>
        /\ \A m \in Notices : ~ByNotice(m)
        /\ \A d \in Clicks : ~ByClick(d)
    BY <1>10, WhatIsUnderWay
  <2>2. \A d \in Clicks : ByClick(d)' <=> d = c  BY <1>3, <2>1 DEF ByClick
  <2>3. Alone'  BY <1>1, <1>8, <2>1, <2>2, EmptyWire DEF Alone
  <2>4. UnderWay'  BY <1>3 DEF UnderWay
  <2>5. Accurate'  BY <1>1, <1>3, <1>7, <1>8, <2>1, <2>2, <2>4 DEF Accurate
  <2> QED  BY <1>5, <1>6, <2>3, <2>5 DEF NoticesIInv
<1> QED  BY <1>9, <1>10

LEMMA ReadCountStep ==
  ASSUME NoticesIInv, ReadCount
  PROVE  NoticesIInv'
<1>1. /\ header.count = "asked" /\ raced' = UnderWay
      /\ header' = [header EXCEPT !.count = "counted", !.counted = CountOf(Reader)]
      /\ UNCHANGED <<learners, ses, hand, job, note, click, wire, cut, ahead>>
  BY DEF ReadCount, serverVars
<1>2. Shape  BY DEF NoticesIInv
<1>3. /\ header' \in Header /\ header'.count = "counted" /\ header'.counted = CountOf(Reader)
      /\ header'.room = header.room
  BY <1>1, <1>2, CountRange DEF Shape, Header
<1>4. UnderWay \in BOOLEAN  BY DEF UnderWay
<1>5. Shape'  BY <1>1, <1>2, <1>3, <1>4 DEF Shape
<1>6. CalledOnce'  BY <1>1, CallsKept DEF NoticesIInv
<1>7. CountOf(Reader)' = CountOf(Reader)  BY <1>1, SameCount
<1>8. /\ \A m \in Notices : ByNotice(m)' <=> ByNotice(m)
      /\ \A d \in Clicks : ByClick(d)' <=> ByClick(d)
  BY <1>1 DEF ByNotice, ByClick
<1>9. CASE UnderWay
  BY <1>1, <1>5, <1>6, <1>9, Unwatched DEF NoticesIInv, Watched
<1>10. CASE ~UnderWay
  <2>1. /\ wire = <<>>
        /\ \A m \in Notices : ~ByNotice(m)
        /\ \A d \in Clicks : ~ByClick(d)
    BY <1>10, WhatIsUnderWay
  <2>2. Alone'  BY <1>1, <1>8, <2>1, EmptyWire DEF Alone
  <2>3. UnderWay'  BY <1>3 DEF UnderWay
  <2>4. Accurate'  BY <1>1, <1>3, <1>7, <1>8, <2>1, <2>3 DEF Accurate
  <2> QED  BY <1>5, <1>6, <2>2, <2>4 DEF NoticesIInv
<1> QED  BY <1>9, <1>10

\* A count that goes on the socket is the only one there, if no other was under way.
LEMMA OnTheWire ==
  ASSUME NEW cnt \in Counts, wire = <<>>, wire' = Append(wire, cnt)
  PROVE  wire' # <<>> /\ Len(wire') = 1 /\ Head(wire') = cnt
<1>1. wire \in Seq(Counts) /\ Len(wire) = 0  BY EmptySeq
<1>2. Append(wire, cnt) \in Seq(Counts) /\ Len(Append(wire, cnt)) = 1 /\ Append(wire, cnt)[1] = cnt
  BY <1>1, AppendProperties
<1>3. wire' # <<>>  BY <1>2, EmptySeq
<1>4. Head(wire') = wire'[1]  BY <1>2, <1>3, HeadTailProperties
<1> QED  BY <1>2, <1>3, <1>4

LEMMA PushNoticeStep ==
  ASSUME NoticesIInv, NEW n \in Notices, PushNotice(n)
  PROVE  NoticesIInv'
<1>1. /\ note[n].call = "counted" /\ note' = [note EXCEPT ![n].call = "done", ![n].cnt = 0]
      /\ IF n.to = Reader THEN Emitted(note[n].cnt) ELSE UNCHANGED <<wire, raced>>
      /\ UNCHANGED <<learners, ses, hand, job, header, click, cut, ahead>>
  BY DEF PushNotice, serverVars
<1>2. Shape  BY DEF NoticesIInv
<1>3. /\ note' \in [Notices -> Noted] /\ note'[n].call = "done" /\ note'[n].row = note[n].row
      /\ \A m \in Notices \ {n} : note'[m] = note[m]
      /\ note[n].cnt \in Counts
  BY <1>1, <1>2, CountsAreNumbers DEF Shape, Noted
<1>4. \/ UNCHANGED <<wire, raced>> /\ n.to # Reader
      \/ /\ n.to = Reader /\ header.room = "in" /\ wire' = Append(wire, note[n].cnt) /\ raced' = raced
      \/ n.to = Reader /\ header.room # "in" /\ raced' = TRUE /\ wire' = wire
  BY <1>1 DEF Emitted
<1>5. Shape'
  <2>a. PICK k \in Counts : k = note[n].cnt  BY <1>3
  <2>b. wire \in Seq(Counts)  BY <1>2 DEF Shape
  <2>c. Append(wire, k) \in Seq(Counts)  BY <2>b, AppendProperties
  <2>1. wire' \in Seq(Counts)  BY <1>4, <2>a, <2>b, <2>c
  <2> QED  BY <1>1, <1>2, <1>3, <1>4, <2>1 DEF Shape
<1>6. CalledOnce'  BY <1>1, <1>3, CallsKept DEF NoticesIInv
<1>7. CountOf(Reader)' = CountOf(Reader)  BY <1>3, SameCount
<1>8. \A c \in Clicks : ByClick(c)' <=> ByClick(c)  BY <1>1 DEF ByClick
<1>9. CASE n.to # Reader
  <2>1. /\ \A m \in Notices : ByNotice(m)' <=> ByNotice(m)
        /\ \A m \in Notices : ByNotice(m) => note'[m].cnt = note[m].cnt
    BY <1>3, <1>9 DEF ByNotice
  <2>2. (Watched' <=> Watched) /\ (AllCounted' => AllCounted)
    BY <1>1, <1>3, <1>4, <1>9 DEF Watched, AllCounted
  <2> QED  BY <1>1, <1>4, <1>5, <1>6, <1>7, <1>8, <1>9, <2>1, <2>2, SameCounts DEF NoticesIInv
<1>10. CASE ~Watched'  BY <1>5, <1>6, <1>10, Unwatched DEF NoticesIInv
<1>11. CASE n.to = Reader /\ Watched'
  <2>1. header.room = "in" /\ wire' = Append(wire, note[n].cnt) /\ Watched
    BY <1>1, <1>4, <1>11 DEF Watched
  <2>2. /\ header.count # "counted" /\ wire = <<>>
        /\ \A m \in Notices : ByNotice(m) => m = n
        /\ \A c \in Clicks : ~ByClick(c)
    BY <1>1, <1>11, <2>1 DEF NoticesIInv, Alone, ByNotice
  <2>3. wire' # <<>> /\ Len(wire') = 1 /\ Head(wire') = note[n].cnt
    BY <1>3, <2>1, <2>2, OnTheWire
  <2>4. \A m \in Notices : ~ByNotice(m)'  BY <1>3, <2>2 DEF ByNotice
  <2>5. Alone'  BY <1>1, <1>8, <2>2, <2>3, <2>4 DEF Alone
  <2>6. UnderWay'  BY <2>3 DEF UnderWay
  <2>7. AllCounted' => AllCounted  BY <1>1, <1>3, <2>1 DEF AllCounted
  <2>8. AllCounted => note[n].cnt = CountOf(Reader)
    BY <1>1, <1>11 DEF NoticesIInv, Accurate, ByNotice
  <2>9. Accurate'  BY <1>1, <1>7, <1>8, <2>2, <2>3, <2>4, <2>6, <2>7, <2>8 DEF Accurate
  <2> QED  BY <1>5, <1>6, <2>5, <2>9 DEF NoticesIInv
<1> QED  BY <1>9, <1>10, <1>11

LEMMA PushMarkedStep ==
  ASSUME NoticesIInv, NEW c \in Clicks, PushMarked(c)
  PROVE  NoticesIInv'
<1>1. /\ click[c].pc = "counted" /\ click' = [click EXCEPT ![c].pc = "answered", ![c].cnt = 0]
      /\ Emitted(click[c].cnt)
      /\ UNCHANGED <<learners, ses, hand, job, note, header, cut, ahead>>
  BY DEF PushMarked, serverVars
<1>2. Shape  BY DEF NoticesIInv
<1>3. /\ click' \in [Clicks -> Clicked] /\ click'[c].pc = "answered"
      /\ \A d \in Clicks \ {c} : click'[d] = click[d]
      /\ click[c].cnt \in Counts
  BY <1>1, <1>2, CountsAreNumbers DEF Shape, Clicked
<1>4. \/ header.room = "in" /\ wire' = Append(wire, click[c].cnt) /\ raced' = raced
      \/ header.room # "in" /\ raced' = TRUE /\ wire' = wire
  BY <1>1 DEF Emitted
<1>5. Shape'
  <2>a. PICK k \in Counts : k = click[c].cnt  BY <1>3
  <2>b. wire \in Seq(Counts)  BY <1>2 DEF Shape
  <2>c. Append(wire, k) \in Seq(Counts)  BY <2>b, AppendProperties
  <2>1. wire' \in Seq(Counts)  BY <1>4, <2>a, <2>b, <2>c
  <2> QED  BY <1>1, <1>2, <1>3, <1>4, <2>1 DEF Shape
<1>6. CalledOnce'  BY <1>1, CallsKept DEF NoticesIInv
<1>7. CountOf(Reader)' = CountOf(Reader)  BY <1>1, SameCount
<1>8. \A m \in Notices : ByNotice(m)' <=> ByNotice(m)  BY <1>1 DEF ByNotice
<1>9. CASE ~Watched'  BY <1>5, <1>6, <1>9, Unwatched DEF NoticesIInv
<1>10. CASE Watched'
  <2>1. header.room = "in" /\ wire' = Append(wire, click[c].cnt) /\ Watched
    BY <1>1, <1>4, <1>10 DEF Watched
  <2>2. /\ header.count # "counted" /\ wire = <<>>
        /\ \A m \in Notices : ~ByNotice(m)
        /\ \A d \in Clicks : ByClick(d) => d = c
    BY <1>1, <2>1 DEF NoticesIInv, Alone, ByClick
  <2>3. wire' # <<>> /\ Len(wire') = 1 /\ Head(wire') = click[c].cnt
    BY <1>3, <2>1, <2>2, OnTheWire
  <2>4. \A d \in Clicks : ~ByClick(d)'  BY <1>3, <2>2 DEF ByClick
  <2>5. Alone'  BY <1>1, <1>8, <2>2, <2>3, <2>4 DEF Alone
  <2>6. UnderWay'  BY <2>3 DEF UnderWay
  <2>7. AllCounted' => AllCounted  BY <1>1, <1>3, <2>1 DEF AllCounted
  <2>8. AllCounted => click[c].cnt = CountOf(Reader)
    BY <1>1 DEF NoticesIInv, Accurate, ByClick
  <2>9. Accurate'  BY <1>1, <1>7, <1>8, <2>2, <2>3, <2>4, <2>6, <2>7, <2>8 DEF Accurate
  <2> QED  BY <1>5, <1>6, <2>5, <2>9 DEF NoticesIInv
<1> QED  BY <1>9, <1>10

LEMMA JoinRoomStep ==
  ASSUME NoticesIInv, JoinRoom
  PROVE  NoticesIInv'
<1>1. /\ header.room = "asked" /\ header' = [header EXCEPT !.room = "in"]
      /\ UNCHANGED <<learners, ses, hand, job, note, click, wire, cut, raced, ahead>>
  BY DEF JoinRoom, serverVars
<1>2. Shape  BY DEF NoticesIInv
<1>3. /\ header' \in Header /\ header'.room = "in" /\ header'.count = header.count
      /\ header'.counted = header.counted /\ header'.badge = header.badge
  BY <1>1, <1>2 DEF Shape, Header
<1>4. Shape'  BY <1>1, <1>2, <1>3 DEF Shape
<1>5. CalledOnce'  BY <1>1, CallsKept DEF NoticesIInv
<1>6. CountOf(Reader)' = CountOf(Reader)  BY <1>1, SameCount
<1>7. /\ \A m \in Notices : ByNotice(m)' <=> ByNotice(m)
      /\ \A d \in Clicks : ByClick(d)' <=> ByClick(d)
  BY <1>1 DEF ByNotice, ByClick
<1>8. (Watched' <=> Watched) /\ (AllCounted' <=> AllCounted)  BY <1>1, <1>3 DEF Watched, AllCounted
<1> QED  BY <1>1, <1>3, <1>4, <1>5, <1>6, <1>7, <1>8, SameCounts DEF NoticesIInv

\* The page that has been opened knows nothing until its count has been read.
LEMMA OpenPageStep ==
  ASSUME NoticesIInv, OpenPage
  PROVE  NoticesIInv'
<1>1. /\ header.opens < MaxOpens
      /\ header' = [ClosedHeader EXCEPT !.opens = header.opens + 1, !.room = "asked", !.count = "asked"]
      /\ wire' = <<>> /\ cut' = FALSE /\ raced' = FALSE /\ ahead' = 0
      /\ UNCHANGED <<learners, ses, hand, job, note, click>>
  BY DEF OpenPage, serverVars
<1>2. Shape  BY DEF NoticesIInv
<1>3. header' \in Header /\ header'.count = "asked"
  <2>1. header' = [opens |-> header.opens + 1, room |-> "asked", badge |-> 0, count |-> "asked",
                 counted |-> 0]
    BY <1>1 DEF ClosedHeader
  <2>2. header.opens + 1 \in 0..MaxOpens  BY <1>1, <1>2, NoticesAssumption DEF Shape, Header
  <2> QED  BY <2>1, <2>2, CountsAreNumbers DEF Header
<1>4. wire' \in Seq(Counts)  BY <1>1, EmptySeq
<1>5. Shape'  BY <1>1, <1>2, <1>3, <1>4 DEF Shape
<1>6. CalledOnce'  BY <1>1, CallsKept DEF NoticesIInv
<1> QED  BY <1>3, <1>5, <1>6, Unwatched DEF NoticesIInv, Watched

LEMMA CrashStep ==
  ASSUME NoticesIInv, Crash
  PROVE  NoticesIInv'
<1>1. /\ ses' = [r \in Requests |-> IF ses[r] \in {"made", "told"} THEN "void" ELSE ses[r]]
      /\ hand' = [r \in Requests |-> IF hand[r] \in {"queue", "store", "tell"} THEN "died" ELSE hand[r]]
      /\ job' = [r \in Requests |-> Stalled(r)]
      /\ note' = [n \in Notices |-> IF note[n].call \in {"called", "inserted", "counted"}
                                     THEN [note[n] EXCEPT !.call = "died", !.cnt = 0] ELSE note[n]]
      /\ click' = [c \in Clicks |-> IF click[c].pc \in {"asked", "marked", "counted"}
                                     THEN [click[c] EXCEPT !.pc = "answered", !.cnt = 0] ELSE click[c]]
      /\ header' = [header EXCEPT !.room = IF @ = "in" THEN "out" ELSE @, !.count = "none", !.counted = 0]
      /\ wire' = <<>> /\ cut' = TRUE
      /\ UNCHANGED <<learners, raced, ahead>>
  BY DEF Crash
<1>2. Shape  BY DEF NoticesIInv
<1>3. \A r \in Requests :
        /\ Stalled(r) \in [pc : {"none", "queued", "active", "sent", "done", "lost"},
                           run : 0..MaxStalls, stored : BOOLEAN]
        /\ \/ /\ Stalled(r).run = job[r].run
              /\ job[r].pc = "none" => Stalled(r).pc = "none"
              /\ job[r].pc \in {"sent", "done", "lost"} => Stalled(r).pc \in {"sent", "done", "lost"}
           \/ Stalled(r).run = job[r].run + 1 /\ job[r].pc # "none"
  <2> SUFFICES ASSUME NEW r \in Requests
               PROVE /\ Stalled(r) \in [pc : {"none", "queued", "active", "sent", "done", "lost"},
                           run : 0..MaxStalls, stored : BOOLEAN]
                     /\ \/ /\ Stalled(r).run = job[r].run
                           /\ job[r].pc = "none" => Stalled(r).pc = "none"
                           /\ job[r].pc \in {"sent", "done", "lost"} => Stalled(r).pc \in {"sent", "done", "lost"}
                        \/ Stalled(r).run = job[r].run + 1 /\ job[r].pc # "none"
    OBVIOUS
  <2>1. PICK j : j = job[r]  OBVIOUS
  <2>2. j \in [pc : {"none", "queued", "active", "sent", "done", "lost"},
               run : 0..MaxStalls, stored : BOOLEAN]
    BY <1>2, <2>1 DEF Shape
  <2>3. CASE j.pc \notin {"active", "sent"}  BY <2>1, <2>2, <2>3 DEF Stalled
  <2>4. CASE j.pc \in {"active", "sent"} /\ j.run < MaxStalls
    <3>1. Stalled(r) = [j EXCEPT !.pc = "queued", !.run = j.run + 1]  BY <2>1, <2>4 DEF Stalled
    <3>2. j.run + 1 \in 0..MaxStalls  BY <2>2, <2>4, NoticesAssumption
    <3> QED  BY <2>1, <2>2, <2>4, <3>1, <3>2
  <2>5. CASE j.pc \in {"active", "sent"} /\ ~(j.run < MaxStalls)
    <3>1. Stalled(r) = [j EXCEPT !.pc = "lost"]  BY <2>1, <2>5 DEF Stalled
    <3> QED  BY <2>1, <2>2, <2>5, <3>1
  <2> QED  BY <2>3, <2>4, <2>5
<1>4. /\ note' \in [Notices -> Noted]
      /\ \A n \in Notices : note'[n].call = "idle" <=> note[n].call = "idle"
  BY <1>1, <1>2, CountsAreNumbers DEF Shape, Noted
<1>5. click' \in [Clicks -> Clicked]  BY <1>1, <1>2, CountsAreNumbers DEF Shape, Clicked
<1>6. header' \in Header
  <2>1. header' = [opens |-> header.opens, room |-> IF header.room = "in" THEN "out" ELSE header.room,
                 badge |-> header.badge, count |-> "none", counted |-> 0]
    BY <1>1, <1>2 DEF Shape, Header
  <2> QED  BY <1>2, <2>1, CountsAreNumbers DEF Shape, Header
<1>7. wire' \in Seq(Counts)  BY <1>1, EmptySeq
<1>8. Shape'  BY <1>1, <1>2, <1>3, <1>4, <1>5, <1>6, <1>7 DEF Shape
<1>9. CalledOnce'
  <2>1. \A q \in Requests : /\ ses'[q] \in {"idle", "made"} => hand'[q] = "none"
                            /\ hand'[q] \in {"none", "queue"} => job'[q].pc = "none"
    BY <1>1, <1>2, <1>3 DEF NoticesIInv, CalledOnce, Shape
  <2>2. \A n \in Notices : n.of \in Requests /\ n.run \in Nat
    BY NoticesAssumption DEF Notices
  <2>3. \A n \in Notices : CalledBy(n) => CalledBy(n)'
    <3> SUFFICES ASSUME NEW n \in Notices, CalledBy(n) PROVE CalledBy(n)'  OBVIOUS
    <3>1. hand[n.of] \in {"done", "died"} => hand'[n.of] \in {"done", "died"}  BY <1>1, <2>2
    <3>a. PICK r \in Requests : r = n.of  BY <2>2
    <3>b. job'[r] = Stalled(r)  BY <1>1
    <3>c. job[r].run \in 0..MaxStalls  BY <1>2 DEF Shape
    <3>2. job'[n.of] = Stalled(n.of) /\ job[n.of].run \in Nat
      BY <3>a, <3>b, <3>c, NoticesAssumption
    <3>3. \/ n.run < job[n.of].run
          \/ n.run = job[n.of].run /\ job[n.of].pc \in {"sent", "done", "lost"}
          => \/ n.run < job'[n.of].run
             \/ n.run = job'[n.of].run /\ job'[n.of].pc \in {"sent", "done", "lost"}
      BY <1>3, <2>2, <3>2
    <3> QED  BY <3>1, <3>3 DEF CalledBy
  <2> QED  BY <1>4, <2>1, <2>3 DEF NoticesIInv, CalledOnce
<1> QED  BY <1>1, <1>8, <1>9, Unwatched DEF NoticesIInv, Watched

LEMMA ShowCountStep ==
  ASSUME NoticesIInv, ShowCount
  PROVE  NoticesIInv'
<1>1. /\ header.count = "counted"
      /\ header' = [header EXCEPT !.count = "none", !.badge = header.counted, !.counted = 0]
      /\ ahead' = 0
      /\ UNCHANGED <<learners, ses, hand, job, note, click, cut, raced, wire>>
  BY DEF ShowCount, serverVars
<1>2. Shape  BY DEF NoticesIInv
<1>3. /\ header' \in Header /\ header'.count = "none" /\ header'.badge = header.counted
      /\ header'.room = header.room
  BY <1>1, <1>2, CountsAreNumbers DEF Shape, Header
<1>4. Shape'  BY <1>1, <1>2, <1>3 DEF Shape
<1>5. CalledOnce'  BY <1>1, CallsKept DEF NoticesIInv
<1>6. CountOf(Reader)' = CountOf(Reader)  BY <1>1, SameCount
<1>7. /\ \A m \in Notices : ByNotice(m)' <=> ByNotice(m)
      /\ \A d \in Clicks : ByClick(d)' <=> ByClick(d)
  BY <1>1 DEF ByNotice, ByClick
<1>8. (Watched' => Watched) /\ (AllCounted' => AllCounted)  BY <1>1, <1>3 DEF Watched, AllCounted
<1>9. Watched => /\ wire = <<>> /\ \A m \in Notices : ~ByNotice(m)
                 /\ \A d \in Clicks : ~ByClick(d)
  BY <1>1 DEF NoticesIInv, Alone
<1>10. Alone'  BY <1>1, <1>3, <1>7, <1>8, <1>9, EmptyWire DEF Alone
<1>11. AllCounted => header.counted = CountOf(Reader)  BY <1>1 DEF NoticesIInv, Accurate
<1>12. CountOf(Reader) \in Nat  BY CountRange
<1>13. AllCounted' => header'.badge = IF CountOf(Reader) > ahead' THEN CountOf(Reader) - ahead' ELSE 0
  BY <1>1, <1>3, <1>8, <1>11, <1>12
<1>14. AllCounted => Watched  BY DEF AllCounted
<1>15. Accurate'  BY <1>1, <1>3, <1>6, <1>7, <1>8, <1>9, <1>13, <1>14 DEF Accurate
<1> QED  BY <1>4, <1>5, <1>10, <1>15 DEF NoticesIInv

\* The message that is taken was the only one.
LEMMA ReceiveStep ==
  ASSUME NoticesIInv, Receive
  PROVE  NoticesIInv'
<1>1. /\ wire # <<>> /\ wire' = Tail(wire) /\ header' = [header EXCEPT !.badge = Head(wire)]
      /\ ahead' = 0
      /\ UNCHANGED <<learners, ses, hand, job, note, click, cut, raced>>
  BY DEF Receive, serverVars
<1>2. Shape  BY DEF NoticesIInv
<1>a. PICK head, tail : head = Head(wire) /\ tail = Tail(wire)  OBVIOUS
<1>b. wire \in Seq(Counts)  BY <1>2 DEF Shape
<1>c. head \in Counts /\ tail \in Seq(Counts) /\ Len(tail) = Len(wire) - 1
  BY <1>1, <1>a, <1>b, HeadTailProperties
<1>3. /\ header' \in Header /\ header'.count = header.count /\ header'.badge = head
      /\ header'.room = header.room
  BY <1>1, <1>2, <1>a, <1>c DEF Shape, Header
<1>4. wire' = tail  BY <1>1, <1>a
<1>5. Shape'
  <2>1. header.room = "in"  BY <1>1, <1>2 DEF Shape
  <2> QED  BY <1>1, <1>2, <1>3, <1>4, <1>c, <2>1 DEF Shape
<1>6. CalledOnce'  BY <1>1, CallsKept DEF NoticesIInv
<1>7. CountOf(Reader)' = CountOf(Reader)  BY <1>1, SameCount
<1>8. /\ \A m \in Notices : ByNotice(m)' <=> ByNotice(m)
      /\ \A d \in Clicks : ByClick(d)' <=> ByClick(d)
  BY <1>1 DEF ByNotice, ByClick
<1>9. (Watched' => Watched) /\ (AllCounted' => AllCounted)  BY <1>1, <1>3 DEF Watched, AllCounted
<1>10. Watched => /\ header.count # "counted" /\ \A m \in Notices : ~ByNotice(m)
                  /\ \A d \in Clicks : ~ByClick(d)
                  /\ Len(wire) <= 1
  BY <1>1 DEF NoticesIInv, Alone
<1>11. Watched => wire' = <<>>
  <2> SUFFICES ASSUME Watched PROVE wire' = <<>>  OBVIOUS
  <2>1. Len(wire) <= 1  BY <1>10
  <2>2. Len(wire) \in Nat /\ Len(tail) \in Nat  BY <1>b, <1>c, LenProperties
  <2>3. Len(tail) = 0  BY <1>c, <2>1, <2>2
  <2>4. tail = <<>>  BY <1>c, <2>3, EmptySeq
  <2> QED  BY <1>4, <2>4
<1>12. Alone'  BY <1>3, <1>8, <1>9, <1>10, <1>11, EmptyWire DEF Alone
<1>13. AllCounted => head = CountOf(Reader)  BY <1>1, <1>a DEF NoticesIInv, Accurate
<1>14. CountOf(Reader) \in Nat  BY CountRange
<1>15. AllCounted' => header'.badge = IF CountOf(Reader) > ahead' THEN CountOf(Reader) - ahead' ELSE 0
  BY <1>1, <1>3, <1>9, <1>13, <1>14
<1>16. AllCounted => Watched  BY DEF AllCounted
<1>17. Accurate'  BY <1>3, <1>7, <1>8, <1>9, <1>10, <1>11, <1>15, <1>16 DEF Accurate
<1> QED  BY <1>5, <1>6, <1>12, <1>17 DEF NoticesIInv

LEMMA LowerBadgeStep ==
  ASSUME NoticesIInv, NEW c \in Clicks, LowerBadge(c)
  PROVE  NoticesIInv'
<1>1. /\ click[c].pc = "answered" /\ click' = [click EXCEPT ![c].pc = "done"]
      /\ header' = [header EXCEPT !.badge = IF header.badge > 0 THEN header.badge - 1 ELSE 0]
      /\ ahead' = ahead + 1
      /\ UNCHANGED <<learners, ses, hand, job, note, cut, raced, wire>>
  BY DEF LowerBadge, serverVars
<1>2. Shape  BY DEF NoticesIInv
<1>3. /\ click' \in [Clicks -> Clicked] /\ click'[c].pc = "done"
      /\ \A d \in Clicks \ {c} : click'[d] = click[d]
  BY <1>1, <1>2 DEF Shape, Clicked
<1>a. header.badge \in 0..Cardinality(Notices) /\ Cardinality(Notices) \in Nat /\ ahead \in Nat
  BY <1>2, NoticesFinite, FS_CardinalityType DEF Shape, Header, Counts
<1>b. PICK b : b = IF header.badge > 0 THEN header.badge - 1 ELSE 0  OBVIOUS
<1>c. b \in Counts  BY <1>a, <1>b DEF Counts
<1>4. /\ header' \in Header /\ header'.badge = b /\ header'.count = header.count
      /\ header'.counted = header.counted /\ header'.room = header.room
  <2>1. header' = [header EXCEPT !.badge = b]  BY <1>1, <1>b
  <2> QED  BY <1>2, <1>c, <2>1 DEF Shape, Header
<1>5. Shape'
  <2>1. ahead' \in Nat  BY <1>1, <1>a
  <2> QED  BY <1>1, <1>2, <1>3, <1>4, <2>1 DEF Shape
<1>6. CalledOnce'  BY <1>1, CallsKept DEF NoticesIInv
<1>7. CountOf(Reader)' = CountOf(Reader)  BY <1>1, SameCount
<1>8. /\ \A m \in Notices : ByNotice(m)' <=> ByNotice(m)
      /\ \A d \in Clicks : ByClick(d)' <=> ByClick(d)
      /\ \A d \in Clicks : ByClick(d) => click'[d].cnt = click[d].cnt
  BY <1>1, <1>3 DEF ByNotice, ByClick
<1>9. (Watched' <=> Watched) /\ (AllCounted' <=> AllCounted)
  BY <1>1, <1>3, <1>4 DEF Watched, AllCounted
<1>10. Alone'  BY <1>1, <1>4, <1>8, <1>9 DEF NoticesIInv, Alone
<1>11. UnderWay' <=> UnderWay
  <2>1. UnderWay' <=> \/ header'.count = "counted" \/ wire' # <<>>
                      \/ \E m \in Notices : ByNotice(m)'
                      \/ \E d \in Clicks : ByClick(d)'
    BY DEF UnderWay, ByNotice, ByClick
  <2> QED  BY <1>1, <1>4, <1>8, <2>1, WhatIsUnderWay
<1>12. CountOf(Reader) \in Nat  BY CountRange
<1>13. AllCounted /\ ~UnderWay
         => header'.badge = IF CountOf(Reader) > ahead' THEN CountOf(Reader) - ahead' ELSE 0
  <2>1. PICK k \in Nat : k = CountOf(Reader)  BY <1>12
  <2> SUFFICES ASSUME AllCounted, ~UnderWay
               PROVE  header'.badge = IF k > ahead' THEN k - ahead' ELSE 0
    BY <2>1
  <2>2. header.badge = IF k > ahead THEN k - ahead ELSE 0  BY <2>1 DEF NoticesIInv, Accurate
  <2> QED  BY <1>1, <1>4, <1>a, <1>b, <2>2
<1>14. Accurate'
  <2>1. AllCounted => /\ header'.count = "counted" => header'.counted = CountOf(Reader)
                      /\ wire' # <<>> => Head(wire') = CountOf(Reader)
                      /\ \A m \in Notices : ByNotice(m)' => note'[m].cnt = CountOf(Reader)
                      /\ \A d \in Clicks : ByClick(d)' => click'[d].cnt = CountOf(Reader)
    BY <1>1, <1>4, <1>8 DEF NoticesIInv, Accurate
  <2> QED  BY <1>7, <1>9, <1>11, <1>13, <2>1 DEF Accurate
<1> QED  BY <1>5, <1>6, <1>10, <1>14 DEF NoticesIInv

------------------------------------------------------------------------------
(* The theorem *)

LEMMA InitAccurate == NoticesInit => NoticesIInv
<1> SUFFICES ASSUME NoticesInit PROVE NoticesIInv  OBVIOUS
<1>1. note \in [Notices -> Noted] /\ \A n \in Notices : note[n].call = "idle"
  BY CountsAreNumbers DEF NoticesInit, NoNote, Noted
<1>2. click \in [Clicks -> Clicked]  BY CountsAreNumbers DEF NoticesInit, Clicked
<1>3. header \in Header /\ header.room = "out"
  BY CountsAreNumbers, NoticesAssumption DEF NoticesInit, ClosedHeader, Header
<1>4. wire \in Seq(Counts) /\ wire = <<>>  BY EmptySeq DEF NoticesInit
<1>5. job \in [Requests -> [pc : {"none", "queued", "active", "sent", "done", "lost"},
                           run : 0..MaxStalls, stored : BOOLEAN]]
  BY NoticesAssumption DEF NoticesInit
<1>6. Shape  BY <1>1, <1>2, <1>3, <1>4, <1>5 DEF NoticesInit, Shape
<1>7. CalledOnce  BY <1>1 DEF NoticesInit, CalledOnce
<1>8. Alone /\ Accurate  BY <1>3 DEF Alone, Accurate, AllCounted, Watched
<1> QED  BY <1>6, <1>7, <1>8 DEF NoticesIInv

LEMMA NextAccurate == NoticesIInv /\ [NoticesNext]_noticeVars => NoticesIInv'
<1> SUFFICES ASSUME NoticesIInv, [NoticesNext]_noticeVars PROVE NoticesIInv'  OBVIOUS
<1>1. CASE UNCHANGED noticeVars
  <2>1. UNCHANGED <<learners, ses, hand, job, note, header, wire, click, cut, raced, ahead>>
    BY <1>1 DEF noticeVars, history
  <2>2. Shape'  BY <2>1 DEF NoticesIInv, Shape
  <2>3. CalledOnce'  BY <2>1, CallsKept DEF NoticesIInv
  <2> QED  BY <2>1, <2>2, <2>3, CallStep
<1>2. ASSUME NEW r \in Requests, Serve(r) \/ RollBack(r) \/ Handle(r) \/ Remind(r) \/ RemindFails(r)
      PROVE  NoticesIInv'
  BY <1>2, RequestStep, TellClassStep, SendRemindersStep DEF Handle, Remind
<1>3. ASSUME NEW n \in Notices, Notify(n)  PROVE NoticesIInv'
  BY <1>3, InsertStep, CountNoticeStep, PushNoticeStep DEF Notify
<1>4. ASSUME NEW c \in Clicks, MarkAsRead(c) \/ CountMarked(c) \/ PushMarked(c) \/ LowerBadge(c)
      PROVE  NoticesIInv'
  BY <1>4, MarkStep, CountMarkedStep, PushMarkedStep, LowerBadgeStep
<1>5. ASSUME NEW c \in Clicks, NEW n \in Notices, Click(c, n)  PROVE NoticesIInv'
  BY <1>5, ClickStep
<1>6. CASE OpenPage \/ JoinRoom \/ ReadCount \/ ShowCount \/ Receive
  BY <1>6, OpenPageStep, JoinRoomStep, ReadCountStep, ShowCountStep, ReceiveStep
<1>7. ASSUME NEW s \in Students, Move(s)  PROVE NoticesIInv'
  BY <1>7, MoveStep
<1>8. CASE Crash  BY <1>8, CrashStep
<1> QED  BY <1>1, <1>2, <1>3, <1>4, <1>5, <1>6, <1>7, <1>8 DEF NoticesNext

\* The strengthened invariant holds in every state.
THEOREM NoticesInvariant == NoticesSpec => []NoticesIInv
BY InitAccurate, NextAccurate, PTL DEF NoticesSpec

\* When nothing is under way, the badge of an open page is the number of unread notices less
\* what the page took off itself, unless two counts overlapped, the page missed one outside
\* its room, or the server crashed.
THEOREM QuietBadgeIsRight == NoticesSpec => []BadgeIsUnread
<1>1. NoticesIInv => BadgeIsUnread
  <2> SUFFICES ASSUME NoticesIInv, Quiet, ~raced, ~cut
               PROVE  header.badge = IF CountOf(Reader) > ahead THEN CountOf(Reader) - ahead ELSE 0
    BY DEF BadgeIsUnread, CountOf
  <2>1. AllCounted  BY DEF Quiet, AllCounted, Watched
  <2>2. ~UnderWay  BY DEF Quiet, UnderWay
  <2> QED  BY <2>1, <2>2 DEF NoticesIInv, Accurate
<1> QED  BY <1>1, NoticesInvariant, PTL
------------------------------------------------------------------------------
(* Nobody is forgotten *)

\* A notice that has a row, or whose call is under way before it or died over it.
Held(n) == note[n].call \in {"called", "died"} \/ note[n].row # "none"
HeldFor(kind, r, s) ==
  \E n \in Notices : n.kind = kind /\ n.of = r /\ n.to = s /\ Held(n)
Announced(r) == ses[r] \in {"told", "kept"}

NewsHeld(r, s) ==
  hand[r] \in {"queue", "store", "tell", "died"} \/ HeldFor("news", r, s)
ReminderHeld(r, s) ==
  \/ hand[r] \in {"queue", "died"} /\ job[r].pc = "none"
  \/ job[r].pc \in {"queued", "active", "lost"} \/ r \in early
  \/ HeldFor("reminder", r, s)

\* From the event on, the news and the reminder of whoever stays in the class are somewhere.
NoneForgotten ==
  \A r \in Requests : Announced(r) =>
    \A s \in learners \ away : NewsHeld(r, s) /\ ReminderHeld(r, s)

\* A notice once called stays held: only its own steps and a crash take the call away.
LEMMA HeldStaysHeld ==
  ASSUME Shape, [NoticesNext]_noticeVars
  PROVE  \A n \in Notices : Held(n) => Held(n)'
<1>1. CASE UNCHANGED note  BY <1>1 DEF Held
<1>2. ASSUME NEW receivers, NEW kind, NEW r, NEW run, Called(receivers, kind, r, run)
      PROVE  \A n \in Notices : Held(n) => Held(n)'
  BY <1>2, CalledNotes DEF Held
<1>3. ASSUME NEW n \in Notices, Notify(n)  PROVE \A m \in Notices : Held(m) => Held(m)'
  <2>1. note \in [Notices -> Noted]  BY DEF Shape
  <2>2. CASE InsertNotice(n)
    <3>1. note' = [note EXCEPT ![n].call = "inserted", ![n].row = "unread"]
      BY <2>2 DEF InsertNotice
    <3> QED  BY <2>1, <3>1 DEF Held, Noted
  <2>3. CASE CountNotice(n)
    <3>1. /\ note[n].call = "inserted"
          /\ note' = [note EXCEPT ![n].call = "counted", ![n].cnt = CountOf(n.to)]
      BY <2>3 DEF CountNotice
    <3> QED  BY <2>1, <3>1 DEF Held, Noted
  <2>4. CASE PushNotice(n)
    <3>1. /\ note[n].call = "counted"
          /\ note' = [note EXCEPT ![n].call = "done", ![n].cnt = 0]
      BY <2>4 DEF PushNotice
    <3> QED  BY <2>1, <3>1 DEF Held, Noted
  <2> QED  BY <1>3, <2>2, <2>3, <2>4 DEF Notify
<1>4. ASSUME NEW c \in Clicks, MarkAsRead(c)  PROVE \A n \in Notices : Held(n) => Held(n)'
  <2>1. note \in [Notices -> Noted]  BY DEF Shape
  <2>2. note' = [note EXCEPT ![click[c].of].row = "read"]  BY <1>4 DEF MarkAsRead
  <2> QED  BY <2>1, <2>2 DEF Held, Noted
<1>5. CASE Crash
  <2>1. note \in [Notices -> Noted]  BY DEF Shape
  <2>2. note' = [n \in Notices |-> IF note[n].call \in {"called", "inserted", "counted"}
                                THEN [note[n] EXCEPT !.call = "died", !.cnt = 0] ELSE note[n]]
    BY <1>5 DEF Crash
  <2> QED  BY <2>1, <2>2 DEF Held, Noted
<1>6. ASSUME NEW r \in Requests, Serve(r) \/ RollBack(r) \/ Handle(r) \/ Remind(r) \/ RemindFails(r)
      PROVE  \A n \in Notices : Held(n) => Held(n)'
  <2>1. CASE TellClass(r)  BY <1>2, <2>1 DEF TellClass
  <2>2. CASE SendReminders(r)  BY <1>2, <2>2 DEF SendReminders
  <2>3. CASE Serve(r) \/ RollBack(r) \/ QueueJob(r) \/ QueueFails(r) \/ StoreJob(r)
             \/ TakeJob(r) \/ RemindFails(r) \/ CompleteJob(r)
    BY <1>1, <2>3 DEF Serve, InsertSession, Emit, Commit, RollBack, QueueJob, QueueFails,
                      StoreJob, TakeJob, RemindFails, CompleteJob
  <2> QED  BY <1>6, <2>1, <2>2, <2>3 DEF Handle, Remind
<1>7. CASE \E c \in Clicks : CountMarked(c) \/ PushMarked(c) \/ LowerBadge(c)
  BY <1>1, <1>7 DEF CountMarked, PushMarked, LowerBadge
<1>8. CASE OpenPage \/ JoinRoom \/ ReadCount \/ ShowCount \/ Receive
  BY <1>1, <1>8 DEF OpenPage, JoinRoom, ReadCount, ShowCount, Receive
<1>9. CASE \E c \in Clicks, n \in Notices : Click(c, n)  BY <1>1, <1>9 DEF Click
<1>10. CASE \E s \in Students : Move(s)  BY <1>1, <1>10 DEF Move
<1>11. CASE UNCHANGED noticeVars  BY <1>1, <1>11 DEF noticeVars
<1> QED  BY <1>3, <1>4, <1>5, <1>6, <1>7, <1>8, <1>9, <1>10, <1>11 DEF NoticesNext

\* Whoever is called is held.
LEMMA CalledIsHeld ==
  ASSUME Shape, NEW r, NEW kind, NEW run, NEW receivers, NEW s \in receivers,
         [kind |-> kind, of |-> r, to |-> s, run |-> run] \in Notices,
         Called(receivers, kind, r, run)
  PROVE  HeldFor(kind, r, s)'
<1> DEFINE n == [kind |-> kind, of |-> r, to |-> s, run |-> run]
<1>1. n.kind = kind /\ n.of = r /\ n.to = s /\ n.run = run  OBVIOUS
<1>2. n \in Notices  OBVIOUS
<1>3. note[n] \in Noted  BY <1>2 DEF Shape
<1> HIDE DEF n
<1>4. note'[n] = [note[n] EXCEPT !.call = "called"]  BY <1>1, <1>2 DEF Called
<1>5. Held(n)'  BY <1>3, <1>4 DEF Held, Noted
<1> QED  BY <1>1, <1>2, <1>5 DEF HeldFor

\* Where the request's part is as it was, what was held is held.
LEMMA HeldWhereLeft ==
  ASSUME Shape, [NoticesNext]_noticeVars, NEW r \in Requests, NEW s,
         ses'[r] = ses[r], hand'[r] = hand[r], job'[r] = job[r], early \subseteq early',
         Announced(r), NewsHeld(r, s) /\ ReminderHeld(r, s)
  PROVE  NewsHeld(r, s)' /\ ReminderHeld(r, s)'
<1>1. \A n \in Notices : Held(n) => Held(n)'  BY HeldStaysHeld
<1>2. /\ HeldFor("news", r, s) => HeldFor("news", r, s)'
      /\ HeldFor("reminder", r, s) => HeldFor("reminder", r, s)'
  BY <1>1 DEF HeldFor
<1> QED  BY <1>2 DEF NewsHeld, ReminderHeld

\* A step of a request leaves the other requests and the class alone.
LEMMA RequestFrame ==
  ASSUME Shape, NEW r \in Requests, Serve(r) \/ RollBack(r) \/ Handle(r) \/ Remind(r) \/ RemindFails(r)
  PROVE  /\ UNCHANGED <<learners, away>> /\ early \subseteq early'
         /\ \A q \in Requests \ {r} : ses'[q] = ses[q] /\ hand'[q] = hand[q] /\ job'[q] = job[q]
<1>1. CASE Serve(r) \/ RollBack(r)
  BY <1>1 DEF Serve, InsertSession, Emit, Commit, RollBack, Shape
<1>2. CASE Handle(r)
  BY <1>2 DEF Handle, QueueJob, QueueFails, StoreJob, TellClass, Shape
<1>3. CASE TakeJob(r) \/ RemindFails(r) \/ CompleteJob(r)
  BY <1>3 DEF TakeJob, RemindFails, CompleteJob, Shape
<1>4. CASE SendReminders(r)  BY <1>4 DEF SendReminders, Shape
<1> QED  BY <1>1, <1>2, <1>3, <1>4 DEF Remind

\* The request's own steps hand on what is held.
LEMMA RequestHolds ==
  ASSUME NoticesIInv, [NoticesNext]_noticeVars, NEW r \in Requests, NEW s \in learners,
         Serve(r) \/ RollBack(r) \/ Handle(r) \/ Remind(r) \/ RemindFails(r), Announced(r)',
         Announced(r) => NewsHeld(r, s) /\ ReminderHeld(r, s)
  PROVE  NewsHeld(r, s)' /\ ReminderHeld(r, s)'
<1>a. Shape  BY DEF NoticesIInv
<1>b. /\ ses \in [Requests -> {"idle", "made", "told", "kept", "void"}]
      /\ hand \in [Requests -> {"none", "queue", "store", "tell", "done", "died"}]
      /\ job \in [Requests -> [pc : {"none", "queued", "active", "sent", "done", "lost"},
                           run : 0..MaxStalls, stored : BOOLEAN]]
      /\ s \in Students
  BY <1>a DEF Shape
<1>c. \A n \in Notices : Held(n) => Held(n)'  BY <1>a, HeldStaysHeld
<1>d. /\ HeldFor("news", r, s) => HeldFor("news", r, s)'
      /\ HeldFor("reminder", r, s) => HeldFor("reminder", r, s)'
  BY <1>c DEF HeldFor
<1>e. early \subseteq early'  BY <1>a, RequestFrame
<1>1. CASE InsertSession(r)
  BY <1>1, <1>b DEF InsertSession, Announced
<1>2. CASE Emit(r)
  <2>1. hand[r] = "none" /\ job[r].pc = "none"
    BY <1>2 DEF Emit, NoticesIInv, CalledOnce
  <2> QED  BY <1>2, <1>b, <2>1 DEF Emit, NewsHeld, ReminderHeld
<1>3. CASE Commit(r)
  <2>1. Announced(r)  BY <1>3 DEF Commit, Announced
  <2> QED  BY <1>3, <1>d, <2>1 DEF Commit, NewsHeld, ReminderHeld
<1>4. CASE RollBack(r)  BY <1>4, <1>b DEF RollBack, Announced
<1>5. CASE Handle(r) \/ Remind(r) \/ RemindFails(r)
  <2>1. UNCHANGED ses
    BY <1>5 DEF Handle, QueueJob, QueueFails, StoreJob, TellClass, Remind, TakeJob,
                SendReminders, RemindFails, CompleteJob
  <2>2. NewsHeld(r, s) /\ ReminderHeld(r, s)  BY <2>1 DEF Announced
  <2>3. CASE QueueJob(r)
    <3>1. hand'[r] = "store" /\ job'[r].pc = "queued"  BY <2>3, <1>b DEF QueueJob
    <3> QED  BY <3>1 DEF NewsHeld, ReminderHeld
  <2>4. CASE QueueFails(r)
    <3>1. hand'[r] = "tell" /\ job'[r].pc = "lost"  BY <2>4, <1>b DEF QueueFails
    <3> QED  BY <3>1 DEF NewsHeld, ReminderHeld
  <2>5. CASE StoreJob(r)
    <3>1. hand[r] = "store" /\ hand'[r] = "tell" /\ job'[r].pc = job[r].pc /\ UNCHANGED early
      BY <2>5, <1>b DEF StoreJob
    <3> QED  BY <2>2, <3>1, <1>d DEF NewsHeld, ReminderHeld
  <2>6. CASE TellClass(r)
    <3>1. hand[r] = "tell" /\ job' = job /\ UNCHANGED early /\ Called(learners, "news", r, 0)
      BY <2>6 DEF TellClass, Audience
    <3>2. [kind |-> "news", of |-> r, to |-> s, run |-> 0] \in Notices  BY <1>b DEF Notices
    <3>3. HeldFor("news", r, s)'  BY <1>a, <3>1, <3>2, CalledIsHeld
    <3> QED  BY <2>2, <3>1, <3>3, <1>d DEF NewsHeld, ReminderHeld
  <2>7. CASE TakeJob(r)
    <3>1. job'[r].pc = "active" /\ UNCHANGED hand  BY <2>7, <1>b DEF TakeJob
    <3> QED  BY <2>2, <3>1, <1>d DEF NewsHeld, ReminderHeld
  <2>8. CASE SendReminders(r)
    <3>1. UNCHANGED hand /\ Called(Receivers(r), "reminder", r, job[r].run)
      BY <2>8 DEF SendReminders
    <3>2. NewsHeld(r, s)'  BY <2>2, <3>1, <1>d DEF NewsHeld
    <3>3. CASE ses[r] = "kept"
      <4>1. s \in Receivers(r)  BY <3>3 DEF Receivers
      <4>2. [kind |-> "reminder", of |-> r, to |-> s, run |-> job[r].run] \in Notices
        BY <1>b DEF Notices
      <4>3. HeldFor("reminder", r, s)'  BY <1>a, <3>1, <4>1, <4>2, CalledIsHeld
      <4> QED  BY <3>2, <4>3 DEF ReminderHeld
    <3>4. CASE ses[r] # "kept"
      <4>1. r \in early'  BY <2>8, <3>4 DEF SendReminders
      <4> QED  BY <3>2, <4>1 DEF ReminderHeld
    <3> QED  BY <3>3, <3>4
  <2>9. CASE CompleteJob(r)
    <3>1. job[r].pc = "sent" /\ UNCHANGED <<hand, early>>  BY <2>9 DEF CompleteJob
    <3> QED  BY <2>2, <3>1, <1>d DEF NewsHeld, ReminderHeld
  <2>10. CASE RemindFails(r)
    <3>1. job[r].pc = "active" /\ job'[r].pc = "lost" /\ UNCHANGED <<hand, early>>
      BY <2>10, <1>b DEF RemindFails
    <3> QED  BY <2>2, <3>1, <1>d DEF NewsHeld, ReminderHeld
  <2> QED  BY <1>5, <2>3, <2>4, <2>5, <2>6, <2>7, <2>8, <2>9, <2>10 DEF Handle, Remind
<1> QED  BY <1>1, <1>2, <1>3, <1>4, <1>5 DEF Serve

\* A crash loses the handler, which is said, and gives the job back or loses it.
LEMMA CrashHolds ==
  ASSUME Shape, Crash, NEW r \in Requests, NEW s, Announced(r)',
         Announced(r) => NewsHeld(r, s) /\ ReminderHeld(r, s)
  PROVE  NewsHeld(r, s)' /\ ReminderHeld(r, s)'
<1>1. \A n \in Notices : Held(n) => Held(n)'  BY HeldStaysHeld DEF NoticesNext
<1>2. /\ HeldFor("news", r, s) => HeldFor("news", r, s)'
      /\ HeldFor("reminder", r, s) => HeldFor("reminder", r, s)'
  BY <1>1 DEF HeldFor
<1>3. /\ ses[r] = "kept" /\ UNCHANGED early
      /\ hand'[r] = IF hand[r] \in {"queue", "store", "tell"} THEN "died" ELSE hand[r]
      /\ job'[r] = Stalled(r)
  BY DEF Crash, Announced, Shape
<1>4. NewsHeld(r, s) /\ ReminderHeld(r, s)  BY <1>3 DEF Announced
<1>5. job[r] \in [pc : {"none", "queued", "active", "sent", "done", "lost"},
                  run : 0..MaxStalls, stored : BOOLEAN]
  BY DEF Shape
<1>6. \/ job[r].pc \notin {"active", "sent"} /\ job'[r] = job[r]
      \/ job[r].pc \in {"active", "sent"} /\ job'[r].pc \in {"queued", "lost"}
  BY <1>3, <1>5 DEF Stalled
<1> QED  BY <1>2, <1>3, <1>4, <1>6 DEF NewsHeld, ReminderHeld

LEMMA NextForgetsNone ==
  NoticesIInv /\ NoneForgotten /\ [NoticesNext]_noticeVars => NoneForgotten'
<1> SUFFICES ASSUME NoticesIInv, NoneForgotten, [NoticesNext]_noticeVars,
                    NEW r \in Requests, Announced(r)', NEW s \in learners' \ away'
             PROVE  NewsHeld(r, s)' /\ ReminderHeld(r, s)'
  BY DEF NoneForgotten
<1>a. Shape  BY DEF NoticesIInv
<1>1. ASSUME NEW q \in Requests, Serve(q) \/ RollBack(q) \/ Handle(q) \/ Remind(q) \/ RemindFails(q)
      PROVE  NewsHeld(r, s)' /\ ReminderHeld(r, s)'
  <2>1. /\ UNCHANGED <<learners, away>> /\ early \subseteq early'
        /\ \A p \in Requests \ {q} : ses'[p] = ses[p] /\ hand'[p] = hand[p] /\ job'[p] = job[p]
    BY <1>1, <1>a, RequestFrame
  <2>2. Announced(r) => NewsHeld(r, s) /\ ReminderHeld(r, s)  BY <2>1 DEF NoneForgotten
  <2>3. CASE q = r  BY <1>1, <2>1, <2>2, <2>3, RequestHolds
  <2>4. CASE q # r
    <3>1. ses'[r] = ses[r] /\ hand'[r] = hand[r] /\ job'[r] = job[r]  BY <2>1, <2>4
    <3>2. Announced(r)  BY <3>1 DEF Announced
    <3> QED  BY <1>a, <2>1, <2>2, <3>1, <3>2, HeldWhereLeft
  <2> QED  BY <2>3, <2>4
<1>2. CASE Crash
  <2>1. UNCHANGED <<learners, away>>  BY <1>2 DEF Crash
  <2>2. Announced(r) => NewsHeld(r, s) /\ ReminderHeld(r, s)  BY <2>1 DEF NoneForgotten
  <2> QED  BY <1>a, <1>2, <2>2, CrashHolds
<1>3. CASE UNCHANGED serverVars /\ s \in learners \ away
  <2>1. ses' = ses /\ hand' = hand /\ job' = job /\ early' = early  BY <1>3 DEF serverVars
  <2>2. Announced(r)  BY <2>1 DEF Announced
  <2>3. NewsHeld(r, s) /\ ReminderHeld(r, s)  BY <1>3, <2>2 DEF NoneForgotten
  <2> QED  BY <1>a, <2>1, <2>2, <2>3, HeldWhereLeft
<1>4. ASSUME NEW n \in Notices, Notify(n)  PROVE UNCHANGED <<serverVars, learners, away>>
  BY <1>4 DEF Notify, InsertNotice, CountNotice, PushNotice
<1>5. ASSUME NEW c \in Clicks, MarkAsRead(c) \/ CountMarked(c) \/ PushMarked(c) \/ LowerBadge(c)
      PROVE  UNCHANGED <<serverVars, learners, away>>
  BY <1>5 DEF MarkAsRead, CountMarked, PushMarked, LowerBadge
<1>6. ASSUME NEW c \in Clicks, NEW n \in Notices, Click(c, n)
      PROVE  UNCHANGED <<serverVars, learners, away>>
  BY <1>6 DEF Click
<1>7. CASE OpenPage \/ JoinRoom \/ ReadCount \/ ShowCount \/ Receive
  <2>1. UNCHANGED <<serverVars, learners, away>>
    BY <1>7 DEF OpenPage, JoinRoom, ReadCount, ShowCount, Receive
  <2> QED  BY <1>3, <2>1
<1>8. ASSUME NEW t \in Students, Move(t)  PROVE UNCHANGED serverVars /\ s \in learners \ away
  BY <1>8 DEF Move
<1>9. CASE UNCHANGED noticeVars  BY <1>3, <1>9 DEF noticeVars, history, serverVars
<1> QED  BY <1>1, <1>2, <1>3, <1>4, <1>5, <1>6, <1>7, <1>8, <1>9 DEF NoticesNext

\* Whoever is in the class when a session is kept, and stays, has the row of its news and of
\* its reminder, or there is something under way that fairness drives to it (the handler, the
\* job, the call), or one of the exceptions of NewsComes and RemindersCome has happened: no
\* step of createExamSession, its handler, its job or a crash drops a student silently.
Coming(kind, r, s) ==
  \E n \in Notices : n.kind = kind /\ n.of = r /\ n.to = s /\ note[n].call = "called"
NewsIsComing ==
  \A r \in Requests, s \in Students : ses[r] = "kept" /\ s \in learners =>
    \/ RowFor("news", r, s) \/ s \in away \/ hand[r] = "died" \/ Died("news", r, s)
    \/ hand[r] \in {"queue", "store", "tell"} \/ Coming("news", r, s)
ReminderIsComing ==
  \A r \in Requests, s \in Students : ses[r] = "kept" /\ s \in learners =>
    \/ RowFor("reminder", r, s) \/ s \in away \/ r \in early
    \/ job[r].pc = "lost" \/ Died("reminder", r, s)
    \/ hand[r] = "died" /\ job[r].pc = "none"
    \/ hand[r] = "queue" \/ job[r].pc \in {"queued", "active"} \/ Coming("reminder", r, s)

THEOREM NobodyIsForgotten == NoticesSpec => [](NewsIsComing /\ ReminderIsComing)
<1>1. NoticesInit => NoneForgotten  BY DEF NoticesInit, NoneForgotten, Announced
<1>2. NoneForgotten => NewsIsComing /\ ReminderIsComing
  <2> SUFFICES ASSUME NoneForgotten PROVE NewsIsComing /\ ReminderIsComing  OBVIOUS
  <2>1. ASSUME NEW r \in Requests, NEW s, NEW kind, HeldFor(kind, r, s)
        PROVE  RowFor(kind, r, s) \/ Died(kind, r, s) \/ Coming(kind, r, s)
    BY <2>1 DEF HeldFor, Held, RowFor, Rows, Died, Coming
  <2> QED
    BY <2>1 DEF NoneForgotten, Announced, NewsHeld, ReminderHeld, NewsIsComing, ReminderIsComing
<1> QED  BY <1>1, <1>2, NextForgetsNone, NoticesInvariant, PTL DEF NoticesSpec
==============================================================================
