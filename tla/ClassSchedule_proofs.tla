-------------------------- MODULE ClassSchedule_proofs --------------------------
(***************************************************************************)
(* What holds of ClassSchedule for any classes, meetings, creations and    *)
(* deletions.  Numbering says of a creation which numbers its meetings     *)
(* have while nothing has been deleted beside it; Comparing, what is still *)
(* true of the comparisons a meeting has passed; Picking, that a page      *)
(* which has not gone stale names the meeting it shows.                    *)
(***************************************************************************)
EXTENDS ClassSchedule, FiniteSetTheorems, SequenceTheorems, TLAPS

MeetRow == [pc : {"free", "checked", "sent", "kept", "gone", "void"}, class : Classes \cup {NoClass},
            num : Nat, slot : Slots \cup {NoSlot}, by : Creators \cup {NoCreator}]
ReqState == [pc : {"idle", "copying", "counted", "checked", "done"}, class : Classes \cup {NoClass},
             from : Classes \cup {NoClass}, period : Periods \cup {NoPeriod}, next : Nat,
             todo : Seq(Slots)]
DelState == [pc : {"idle", "one", "all", "done"}, class : Classes \cup {NoClass}, num : Nat,
             picked : SUBSET Meetings, stale : BOOLEAN]

Shape ==
  /\ period \in [Classes -> Periods \cup {NoPeriod}] /\ meet \in [Meetings -> MeetRow]
  /\ req \in [Creators -> ReqState] /\ del \in [Deleters -> DelState] /\ moves \in 0..MaxMoves
  /\ seen \in [Meetings -> SUBSET Meetings] /\ crossed \subseteq Classes
  /\ \A r \in Creators : Len(req[r].todo) <= MaxLength

\* A row that has been made has its class, its number, its time and its request.
Made(m) ==
  meet[m].pc # "free" =>
    /\ meet[m].num > 0 /\ meet[m].class \in Classes /\ period[meet[m].class] # NoPeriod
    /\ meet[m].slot \in Slots /\ meet[m].by \in Creators
MadeRight == \A m \in Meetings : Made(m)

\* A request has the rows that are not committed, and the last of them has its last number.
Listing(r) == req[r].pc \in {"counted", "checked"}
Open(m) == meet[m].pc \in {"checked", "sent"}
Requesting ==
  /\ \A r \in Creators :
       /\ Listing(r) \/ req[r].pc = "copying" =>
            req[r].class \in Classes /\ period[req[r].class] # NoPeriod
       /\ req[r].pc = "copying" => req[r].from \in Classes
       /\ Listing(r) =>
            /\ req[r].next > 0 /\ req[r].period \in Periods
            /\ req[r].class \in moved \/ req[r].period = period[req[r].class]
  /\ \A m \in Meetings :
       /\ Open(m) => Listing(meet[m].by) /\ meet[m].class = req[meet[m].by].class
       /\ meet[m].pc = "checked" =>
            req[meet[m].by].pc = "checked" /\ meet[m].num = req[meet[m].by].next - 1
  /\ \A m, n \in Rows("checked") : meet[m].by = meet[n].by => m = n

Keys == \A m, n \in Rows("sent") \cup Rows("kept") : ~SameKey(m, n)

\* The number of the next row a request inserts.
Upcoming(r) == IF req[r].pc = "checked" THEN req[r].next - 1 ELSE req[r].next

\* The rows a request has inserted follow those of the class: who has inserted none may have
\* been overtaken.
Numbering ==
  \A c \in Classes \ crossed :
    /\ {meet[m].num : m \in Kept(c)} = 1..Cardinality(Kept(c))
    /\ \A r \in Creators : Listing(r) /\ req[r].class = c =>
         {meet[m].num : m \in Sent(r)} = (Cardinality(Kept(c)) + 1)..(Upcoming(r) - 1)

Live == {m \in Meetings : meet[m].pc \in {"checked", "sent", "kept"}}
Explained(m, n) ==
  /\ m # n /\ Overlap(meet[m].slot, meet[n].slot)
  /\ SamePeriod(period[meet[m].class], period[meet[n].class])
  => \/ n \in seen[m] /\ StrictlyInside(meet[n].slot, meet[m].slot)
     \/ m \in seen[n] /\ StrictlyInside(meet[m].slot, meet[n].slot)
     \/ n \notin seen[m] /\ m \notin seen[n] /\ {meet[m].by, meet[n].by} \in together
     \/ {meet[m].class, meet[n].class} \cap moved # {}

Comparing ==
  /\ \A m, n \in Meetings : n \in seen[m] => meet[n].pc # "free"
  /\ \A r, s \in Running : r # s => {r, s} \in together
  /\ \A m, n \in Live : Explained(m, n)

Shown(d, m) ==
  /\ del[d].picked = {m} /\ meet[m].pc = "kept"
  /\ meet[m].class = del[d].class /\ meet[m].num = del[d].num
Picking == \A d \in Deleters : del[d].pc = "one" /\ ~del[d].stale => \E m \in Meetings : Shown(d, m)

IInv == Shape /\ MadeRight /\ Requesting /\ Keys /\ Numbering /\ Comparing /\ Picking

------------------------------------------------------------------------------
(* Facts about the rows *)

\* Numbers that are different for different elements are as many as the elements.
LEMMA ImageCardinality ==
  ASSUME NEW T, IsFiniteSet(T), NEW f, \A a, b \in T : f[a] = f[b] => a = b
  PROVE  Cardinality({f[a] : a \in T}) = Cardinality(T)
<1> DEFINE I == {f[a] : a \in T}
           g == [a \in T |-> f[a]]
<1>1. g \in [T -> I] /\ \A a \in T : g[a] = f[a]  OBVIOUS
<1>2. \A i \in I : \E a \in T : g[a] = i  OBVIOUS
<1>3. g \in Bijection(T, I)
  <2> HIDE DEF g, I
  <2>1. g \in Injection(T, I)  BY <1>1 DEF Injection, IsInjective
  <2>2. g \in Surjection(T, I)  BY <1>1, <1>2 DEF Surjection
  <2> QED  BY <2>1, <2>2 DEF Bijection
<1>4. ExistsBijection(T, I)  BY <1>3 DEF ExistsBijection
<1> QED  BY <1>4, FS_Bijection

LEMMA MeetingsFinite ==
  ASSUME NEW S \in SUBSET Meetings
  PROVE  IsFiniteSet(S) /\ Cardinality(S) \in Nat
BY ConstantsAssumption, FS_Subset, FS_CardinalityType

LEMMA KeptFinite ==
  ASSUME NEW c
  PROVE  Kept(c) \subseteq Meetings /\ IsFiniteSet(Kept(c)) /\ Cardinality(Kept(c)) \in Nat
<1>1. Kept(c) \in SUBSET Meetings  BY DEF Kept, Rows
<1> QED  BY <1>1, MeetingsFinite

\* Meetings with numbers of their own that are a row from one are as many as the last number.
LEMMA RowOfNumbers ==
  ASSUME NEW T \in SUBSET Meetings, NEW num, NEW n \in Nat, {num[m] : m \in T} = 1..n,
         \A a, b \in T : num[a] = num[b] => a = b
  PROVE  Cardinality(T) = n
<1>1. IsFiniteSet(T)  BY MeetingsFinite
<1>2. Cardinality({num[m] : m \in T}) = Cardinality(T)  BY <1>1, ImageCardinality
<1>3. Cardinality(1..n) = n
  <2>1. Cardinality(1..n) = IF 1 > n THEN 0 ELSE n - 1 + 1  BY FS_Interval
  <2> QED  BY <2>1
<1> QED  BY <1>2, <1>3

LEMMA ShapeFields ==
  ASSUME Shape
  PROVE  /\ \A m \in Meetings :
              /\ meet[m].pc \in {"free", "checked", "sent", "kept", "gone", "void"}
              /\ meet[m].class \in Classes \cup {NoClass} /\ meet[m].num \in Nat
              /\ meet[m].slot \in Slots \cup {NoSlot} /\ meet[m].by \in Creators \cup {NoCreator}
         /\ \A r \in Creators :
              /\ req[r].pc \in {"idle", "copying", "counted", "checked", "done"}
              /\ req[r].class \in Classes \cup {NoClass} /\ req[r].from \in Classes \cup {NoClass}
              /\ req[r].period \in Periods \cup {NoPeriod} /\ req[r].next \in Nat
              /\ req[r].todo \in Seq(Slots)
         /\ \A d \in Deleters :
              /\ del[d].pc \in {"idle", "one", "all", "done"} /\ del[d].num \in Nat
              /\ del[d].class \in Classes \cup {NoClass} /\ del[d].picked \subseteq Meetings
              /\ del[d].stale \in BOOLEAN
BY DEF Shape, MeetRow, ReqState, DelState

LEMMA InitIInv == Init => IInv
<1> SUFFICES ASSUME Init PROVE IInv  OBVIOUS
<1>1. /\ \A m \in Meetings : meet[m] = Unused /\ seen[m] = {}
      /\ \A r \in Creators : req[r] = NoRequest
      /\ \A d \in Deleters : del[d] = NoDeletion
      /\ moves = 0 /\ together = {} /\ crossed = {} /\ moved = {}
  BY DEF Init
<1>2. /\ \A m \in Meetings : meet[m].pc = "free"
      /\ \A r \in Creators : req[r].pc = "idle" /\ req[r].todo = <<>>
      /\ \A d \in Deleters : del[d].pc = "idle"
  BY <1>1 DEF Unused, NoRequest, NoDeletion
<1>3. Shape
  <2>1. Unused \in MeetRow  BY DEF Unused, MeetRow
  <2>2. NoRequest \in ReqState  BY DEF NoRequest, ReqState
  <2>3. NoDeletion \in DelState  BY DEF NoDeletion, DelState
  <2>4. \A r \in Creators : Len(req[r].todo) <= MaxLength  BY <1>2, ConstantsAssumption
  <2>5. /\ meet \in [Meetings -> MeetRow] /\ req \in [Creators -> ReqState]
        /\ del \in [Deleters -> DelState] /\ seen \in [Meetings -> SUBSET Meetings]
    BY <2>1, <2>2, <2>3 DEF Init
  <2> QED  BY <1>1, <2>4, <2>5, ConstantsAssumption DEF Shape, Init
<1>4. MadeRight /\ Requesting /\ Keys /\ Picking
  BY <1>2 DEF MadeRight, Made, Requesting, Listing, Open, Keys, Rows, Picking
<1>5. Numbering
  <2>1. \A c : Kept(c) = {}  BY <1>2 DEF Kept, Rows
  <2>2. Cardinality({}) = 0  BY FS_EmptySet
  <2>3. \A c : {meet[m].num : m \in Kept(c)} = 1..Cardinality(Kept(c))  BY <2>1, <2>2
  <2> QED  BY <1>2, <2>3 DEF Numbering, Listing
<1>6. Comparing  BY <1>1, <1>2 DEF Comparing, Running, Live
<1> QED  BY <1>3, <1>4, <1>5, <1>6 DEF IInv

------------------------------------------------------------------------------
(* What a step leaves as it was *)

\* A page keeps naming the meeting it shows while kept rows stay.
LEMMA PickingKept ==
  ASSUME IInv, del' = del,
         \A m \in Rows("kept") : /\ meet'[m].pc = "kept" /\ meet'[m].class = meet[m].class
                                 /\ meet'[m].num = meet[m].num
  PROVE  Picking'
<1>1. ASSUME NEW d \in Deleters, NEW m \in Meetings, Shown(d, m) PROVE Shown(d, m)'
  <2>1. m \in Rows("kept")  BY <1>1 DEF Shown, Rows
  <2> QED  BY <1>1, <2>1 DEF Shown
<1> QED  BY <1>1 DEF IInv, Picking

\* What explained two meetings goes on to, when none is added.
LEMMA ComparingKept ==
  ASSUME IInv, seen' = seen, together \subseteq together', moved \subseteq moved',
         \A m \in Meetings : meet[m].pc # "free" =>
           /\ meet'[m].pc # "free" /\ meet'[m].class = meet[m].class
           /\ meet'[m].slot = meet[m].slot /\ meet'[m].by = meet[m].by,
         Live' \subseteq Live,
         \A r, s \in Running' : r # s => {r, s} \in together',
         \A c \in Classes : period[c] # NoPeriod => period'[c] = period[c] \/ c \in moved'
  PROVE  Comparing'
<1>1. ASSUME NEW m \in Live', NEW n \in Live' PROVE Explained(m, n)'
  <2>1. m \in Live /\ n \in Live /\ Explained(m, n)  BY <1>1 DEF IInv, Comparing
  <2>2. /\ m \in Meetings /\ n \in Meetings /\ meet[m].pc # "free" /\ meet[n].pc # "free"
        /\ meet[m].class \in Classes /\ period[meet[m].class] # NoPeriod
        /\ meet[n].class \in Classes /\ period[meet[n].class] # NoPeriod
    BY <2>1 DEF Live, IInv, MadeRight, Made
  <2>3. /\ meet'[m].class = meet[m].class /\ meet'[m].slot = meet[m].slot /\ meet'[m].by = meet[m].by
        /\ meet'[n].class = meet[n].class /\ meet'[n].slot = meet[n].slot /\ meet'[n].by = meet[n].by
    BY <2>2
  <2>4. CASE meet[m].class \in moved' \/ meet[n].class \in moved'  BY <2>3, <2>4 DEF Explained
  <2>5. CASE meet[m].class \notin moved' /\ meet[n].class \notin moved'
    <3>1. /\ period'[meet[m].class] = period[meet[m].class]
          /\ period'[meet[n].class] = period[meet[n].class]
      BY <2>2, <2>5
    <3> QED  BY <2>1, <2>3, <3>1 DEF Explained
  <2> QED  BY <2>4, <2>5
<1>2. ASSUME NEW m \in Meetings, NEW n \in Meetings, n \in seen'[m] PROVE meet'[n].pc # "free"
  BY <1>2 DEF IInv, Comparing
<1> QED  BY <1>1, <1>2 DEF Comparing

------------------------------------------------------------------------------
(* Requests that begin, and classes that are made and moved *)

\* A request has no rows when it begins.
LEMMA NewRequest ==
  ASSUME IInv, NEW r \in Creators, NEW q \in ReqState, req' = [req EXCEPT ![r] = q],
         req[r].pc \in {"idle", "copying"}, q.pc \in {"counted", "copying"},
         Len(q.todo) <= MaxLength, q.class \in Classes, period'[q.class] # NoPeriod,
         q.pc = "copying" => q.from \in Classes,
         q.pc = "counted" => /\ q.next = FirstNumber(q.class) /\ q.period \in Periods
                             /\ q.period = period'[q.class],
         period' \in [Classes -> Periods \cup {NoPeriod}],
         \A c \in Classes : period[c] # NoPeriod => period'[c] = period[c],
         UNCHANGED <<meet, del, moves, seen, crossed, moved>>,
         together \subseteq together', \A s \in Running \ {r} : {r, s} \in together'
  PROVE  IInv'
<1>1. /\ req' \in [Creators -> ReqState] /\ req'[r] = q
      /\ \A s \in Creators \ {r} : req'[s] = req[s]
  BY DEF IInv, Shape
<1>2. Shape'  BY <1>1 DEF IInv, Shape
<1>3. MadeRight'  BY DEF IInv, MadeRight, Made
<1>4. ASSUME NEW m \in Meetings, Open(m) PROVE meet[m].by \in Creators \ {r}
  <2>1. meet[m].by \in Creators /\ Listing(meet[m].by)
    BY <1>4 DEF IInv, MadeRight, Made, Requesting, Open
  <2> QED  BY <2>1 DEF Listing
<1>5. Requesting'
  <2>1. q.pc = "counted" => q.next > 0
    <3>1. Cardinality(Kept(q.class)) \in Nat  BY KeptFinite
    <3> QED  BY <3>1 DEF FirstNumber
  <2>2. ASSUME NEW s \in Creators
        PROVE  /\ Listing(s)' \/ req'[s].pc = "copying" =>
                    req'[s].class \in Classes /\ period'[req'[s].class] # NoPeriod
               /\ req'[s].pc = "copying" => req'[s].from \in Classes
               /\ Listing(s)' =>
                    /\ req'[s].next > 0 /\ req'[s].period \in Periods
                    /\ req'[s].class \in moved \/ req'[s].period = period'[req'[s].class]
    <3>1. CASE s = r  BY <1>1, <2>1, <3>1 DEF Listing
    <3>2. CASE s # r
      <4>1. req'[s] = req[s] /\ Listing(s)' = Listing(s)  BY <1>1, <3>2 DEF Listing
      <4>2. /\ Listing(s) \/ req[s].pc = "copying" =>
                 req[s].class \in Classes /\ period[req[s].class] # NoPeriod
            /\ req[s].pc = "copying" => req[s].from \in Classes
            /\ Listing(s) =>
                 /\ req[s].next > 0 /\ req[s].period \in Periods
                 /\ req[s].class \in moved \/ req[s].period = period[req[s].class]
        BY DEF IInv, Requesting
      <4> QED  BY <4>1, <4>2
    <3> QED  BY <3>1, <3>2
  <2>3. ASSUME NEW m \in Meetings
        PROVE  /\ Open(m)' => Listing(meet[m].by)' /\ meet[m].class = req'[meet[m].by].class
               /\ meet[m].pc = "checked" =>
                    req'[meet[m].by].pc = "checked" /\ meet[m].num = req'[meet[m].by].next - 1
    <3>1. CASE Open(m)
      <4>1. req'[meet[m].by] = req[meet[m].by]  BY <1>1, <1>4, <3>1
      <4>2. Listing(meet[m].by)' = Listing(meet[m].by)  BY <4>1 DEF Listing
      <4> QED  BY <3>1, <4>1, <4>2 DEF IInv, Requesting
    <3>2. CASE ~Open(m)  BY <3>2 DEF Open
    <3> QED  BY <3>1, <3>2
  <2>4. \A m, n \in Rows("checked")' : meet'[m].by = meet'[n].by => m = n
    BY DEF IInv, Requesting, Rows
  <2> QED  BY <2>2, <2>3, <2>4 DEF Requesting
<1>6. Keys'  BY DEF IInv, Keys, SameKey, Rows
<1>7. Numbering'
  <2>1. \A c : Kept(c)' = Kept(c)  BY DEF Kept, Rows
  <2>2. \A s : Sent(s)' = Sent(s)  BY DEF Sent, Rows
  <2>3. \A s \in Creators \ {r} : Upcoming(s)' = Upcoming(s) /\ Listing(s)' = Listing(s)
    BY <1>1 DEF Upcoming, Listing
  <2>4. ASSUME NEW c \in Classes \ crossed, Listing(r)', req'[r].class = c
        PROVE  {meet[m].num : m \in Sent(r)} = (Cardinality(Kept(c)) + 1)..(Upcoming(r)' - 1)
    <3>1. Sent(r) = {}  BY <1>4 DEF Sent, Rows, Open
    <3>2. Upcoming(r)' = 1 + Cardinality(Kept(c))  BY <1>1, <2>4 DEF Upcoming, Listing, FirstNumber
    <3>3. Cardinality(Kept(c)) \in Nat  BY KeptFinite
    <3> QED  BY <3>1, <3>2, <3>3
  <2>5. ASSUME NEW c \in Classes \ crossed, NEW s \in Creators, Listing(s)', req'[s].class = c
        PROVE  {meet[m].num : m \in Sent(s)} = (Cardinality(Kept(c)) + 1)..(Upcoming(s)' - 1)
    <3>1. CASE s = r  BY <2>4, <2>5, <3>1
    <3>2. CASE s # r  BY <1>1, <2>3, <2>5, <3>2 DEF IInv, Numbering
    <3> QED  BY <3>1, <3>2
  <2> QED  BY <2>1, <2>2, <2>5 DEF IInv, Numbering
<1>8. Comparing'
  <2>1. Live' = Live  BY DEF Live
  <2>2. ASSUME NEW s \in Running', NEW t \in Running', s # t PROVE {s, t} \in together'
    <3>1. s \in Creators /\ t \in Creators /\ (s # r => s \in Running) /\ (t # r => t \in Running)
      BY <1>1, <2>2 DEF Running
    <3>2. CASE s = r  BY <2>2, <3>1, <3>2
    <3>3. CASE t = r
      <4>1. {s, t} = {t, s}  OBVIOUS
      <4> QED  BY <2>2, <3>1, <3>3, <4>1
    <3>4. CASE s # r /\ t # r  BY <2>2, <3>1, <3>4 DEF IInv, Comparing
    <3> QED  BY <3>2, <3>3, <3>4
  <2> QED  BY <2>1, <2>2, ComparingKept
<1>9. Picking'  BY PickingKept DEF Rows
<1> QED  BY <1>2, <1>3, <1>5, <1>6, <1>7, <1>8, <1>9 DEF IInv

LEMMA CreateStep ==
  ASSUME IInv, NEW r \in Creators, NEW c \in Classes, NEW slots \in SlotLists, CreateSchedule(r, c, slots)
  PROVE  IInv'
<1> DEFINE q == [pc |-> "counted", class |-> c, from |-> NoClass, period |-> period[c],
                 next |-> FirstNumber(c), todo |-> slots]
<1>1. /\ req[r].pc = "idle" /\ period[c] # NoPeriod /\ req' = [req EXCEPT ![r] = q]
      /\ together' = together \cup {{r, s} : s \in Running}
      /\ UNCHANGED <<period, meet, del, moves, seen, crossed, moved>>
  BY DEF CreateSchedule, Begin, Accompanied
<1>2. slots \in Seq(Slots) /\ Len(slots) <= MaxLength
  <2>1. PICK n \in 1..MaxLength : slots \in [1..n -> Slots]  BY DEF SlotLists
  <2>2. n \in Nat  BY <2>1, ConstantsAssumption
  <2>3. slots \in Seq(Slots) /\ Len(slots) = n  BY <2>1, <2>2
  <2> QED  BY <2>1, <2>3
<1>3. period[c] \in Periods /\ period \in [Classes -> Periods \cup {NoPeriod}]  BY <1>1 DEF IInv, Shape
<1>4. FirstNumber(c) \in Nat  BY KeptFinite DEF FirstNumber
<1>5. q \in ReqState  BY <1>2, <1>3, <1>4 DEF ReqState
<1>6. /\ q.pc = "counted" /\ q.class = c /\ q.next = FirstNumber(c) /\ q.period = period[c]
      /\ q.todo = slots
  OBVIOUS
<1> HIDE DEF q
<1>7. \A s \in Running \ {r} : {r, s} \in together'  BY <1>1
<1> QED  BY <1>1, <1>2, <1>3, <1>5, <1>6, <1>7, NewRequest

LEMMA DuplicateStep ==
  ASSUME IInv, NEW r \in Creators, NEW from \in Classes, NEW to \in Classes, NEW p \in Periods,
         DuplicateClass(r, from, to, p)
  PROVE  IInv'
<1> DEFINE q == [pc |-> "copying", class |-> to, from |-> from, period |-> NoPeriod, next |-> 0, todo |-> <<>>]
<1>1. /\ req[r].pc = "idle" /\ period[to] = NoPeriod /\ period' = [period EXCEPT ![to] = p]
      /\ req' = [req EXCEPT ![r] = q]
      /\ together' = together \cup {{r, s} : s \in Running}
      /\ UNCHANGED <<meet, del, moves, seen, crossed, moved>>
  BY DEF DuplicateClass, Accompanied
<1>3. q \in ReqState /\ q.pc = "copying" /\ q.class = to /\ q.from = from /\ q.todo = <<>>
  BY DEF ReqState
<1>4. Len(q.todo) <= MaxLength  BY <1>3, ConstantsAssumption
<1> HIDE DEF q
<1>5. period \in [Classes -> Periods \cup {NoPeriod}]  BY DEF IInv, Shape
<1>6. /\ period' \in [Classes -> Periods \cup {NoPeriod}] /\ period'[to] = p
      /\ \A c \in Classes : period[c] # NoPeriod => period'[c] = period[c]
  BY <1>1, <1>5
<1>7. p # NoPeriod  BY ConstantsAssumption
<1>8. \A s \in Running \ {r} : {r, s} \in together'  BY <1>1
<1> QED  BY <1>1, <1>3, <1>4, <1>6, <1>7, <1>8, NewRequest

LEMMA CopyStep ==
  ASSUME IInv, NEW r \in Creators, CopyMeetings(r)
  PROVE  IInv'
<1> DEFINE old == Kept(req[r].from)
           c == req[r].class
<1>1. /\ req[r].pc = "copying" /\ Cardinality(old) <= MaxLength
      /\ UNCHANGED <<period, meet, del, moves, seen, together, crossed, moved>>
  BY DEF CopyMeetings, history
<1>2. PICK order \in [1..Cardinality(old) -> old] :
        Begin(r, c, [i \in DOMAIN order |-> meet[order[i]].slot])
  BY DEF CopyMeetings
<1> DEFINE slots == [i \in DOMAIN order |-> meet[order[i]].slot]
           q == [pc |-> "counted", class |-> c, from |-> NoClass, period |-> period[c],
                 next |-> FirstNumber(c), todo |-> slots]
<1>3. req' = [req EXCEPT ![r] = q]  BY <1>2 DEF Begin
<1>4. slots \in Seq(Slots) /\ Len(slots) <= MaxLength
  <2>1. Cardinality(old) \in Nat  BY KeptFinite
  <2>2. \A m \in old : meet[m].slot \in Slots  BY DEF Kept, Rows, IInv, MadeRight, Made
  <2>3. DOMAIN order = 1..Cardinality(old)  BY <1>2
  <2> HIDE DEF old
  <2>4. slots \in [1..Cardinality(old) -> Slots]  BY <1>2, <2>2, <2>3
  <2> HIDE DEF slots
  <2> QED  BY <1>1, <2>1, <2>4
<1>5. c \in Classes /\ period[c] # NoPeriod /\ period[c] \in Periods
      /\ period \in [Classes -> Periods \cup {NoPeriod}]
  BY <1>1 DEF IInv, Shape, Requesting
<1> HIDE DEF slots
<1>6. FirstNumber(c) \in Nat  BY KeptFinite DEF FirstNumber
<1>7. q \in ReqState  BY <1>4, <1>5, <1>6 DEF ReqState
<1>8. /\ q.pc = "counted" /\ q.class = c /\ q.next = FirstNumber(c) /\ q.period = period[c]
      /\ q.todo = slots
  OBVIOUS
<1> HIDE DEF q, c
<1>9. \A s \in Running \ {r} : {r, s} \in together'
  <2>1. r \in Running  BY <1>1 DEF Running
  <2> QED  BY <1>1, <2>1 DEF IInv, Comparing
<1> QED  BY <1>1, <1>3, <1>4, <1>5, <1>7, <1>8, <1>9, NewRequest

LEMMA UpdateStep ==
  ASSUME IInv, NEW c \in Classes, NEW p \in Periods, UpdateClass(c, p)
  PROVE  IInv'
<1>1. /\ period[c] # NoPeriod /\ moves < MaxMoves /\ period' = [period EXCEPT ![c] = p]
      /\ moves' = moves + 1 /\ moved' = moved \cup {c}
      /\ UNCHANGED <<meet, req, del, seen, together, crossed>>
  BY DEF UpdateClass
<1>2. period \in [Classes -> Periods \cup {NoPeriod}] /\ p # NoPeriod
  BY ConstantsAssumption DEF IInv, Shape
<1>3. /\ period' \in [Classes -> Periods \cup {NoPeriod}]
      /\ \A e \in Classes : /\ period[e] # NoPeriod => period'[e] # NoPeriod
                            /\ e # c => period'[e] = period[e]
  BY <1>1, <1>2
<1>4. Shape'
  <2>1. moves' \in 0..MaxMoves  BY <1>1, ConstantsAssumption DEF IInv, Shape
  <2> QED  BY <1>1, <1>3, <2>1 DEF IInv, Shape
<1>5. MadeRight'  BY <1>1, <1>3 DEF IInv, MadeRight, Made
<1>6. Requesting'
  <2>1. /\ \A r : Listing(r)' = Listing(r) /\ \A m : Open(m)' = Open(m)
        /\ Rows("checked")' = Rows("checked")
    BY <1>1 DEF Listing, Open, Rows
  <2>2. ASSUME NEW r \in Creators
        PROVE  /\ Listing(r) \/ req[r].pc = "copying" =>
                    req[r].class \in Classes /\ period'[req[r].class] # NoPeriod
               /\ req[r].pc = "copying" => req[r].from \in Classes
               /\ Listing(r) =>
                    /\ req[r].next > 0 /\ req[r].period \in Periods
                    /\ req[r].class \in moved' \/ req[r].period = period'[req[r].class]
    BY <1>1, <1>3 DEF IInv, Requesting
  <2> QED  BY <1>1, <2>1, <2>2 DEF IInv, Requesting, Listing
<1>7. Keys'  BY <1>1 DEF IInv, Keys, SameKey, Rows
<1>8. Numbering'
  <2>1. /\ \A e : Kept(e)' = Kept(e) /\ \A r : Sent(r)' = Sent(r)
        /\ \A r : Listing(r)' = Listing(r) /\ Upcoming(r)' = Upcoming(r)
    BY <1>1 DEF Kept, Sent, Rows, Listing, Upcoming
  <2> QED  BY <1>1, <2>1 DEF IInv, Numbering
<1>9. Comparing'
  <2>1. Live' = Live /\ Running' = Running  BY <1>1 DEF Live, Running
  <2>2. \A r, s \in Running' : r # s => {r, s} \in together'  BY <1>1, <2>1 DEF IInv, Comparing
  <2>3. \A e \in Classes : period[e] # NoPeriod => period'[e] = period[e] \/ e \in moved'
    BY <1>1, <1>3
  <2> QED  BY <1>1, <2>1, <2>2, <2>3, ComparingKept
<1>10. Picking'  BY <1>1, PickingKept DEF Rows
<1> QED  BY <1>4, <1>5, <1>6, <1>7, <1>8, <1>9, <1>10 DEF IInv

------------------------------------------------------------------------------
(* The next meeting of a request *)

\* The three cases of createSchedule's query find exactly the old meetings that overlap the new
\* one, except those strictly inside it; touching is no clash.  Classes are compared whenever
\* some week belongs to both, their last included.
THEOREM QueryFinds ==
  /\ \A old, new \in Slots :
       SameTime(old, new) <=> Overlap(old, new) /\ ~StrictlyInside(old, new)
  /\ \A p, q \in Periods :
       SamePeriod(p, q) <=>
         \E week \in Nat : /\ p.start <= week /\ week <= p.start + p.weeks
                           /\ q.start <= week /\ week <= q.start + q.weeks
<1>1. ASSUME NEW old \in Slots, NEW new \in Slots
      PROVE  SameTime(old, new) <=> Overlap(old, new) /\ ~StrictlyInside(old, new)
  <2>1. \A s \in Slots : s[1] \in Nat /\ s[2] \in Nat /\ s[1] < s[2]  BY ConstantsAssumption
  <2>2. PICK a, b, c, d : a = old[1] /\ b = old[2] /\ c = new[1] /\ d = new[2]  OBVIOUS
  <2>3. a \in Nat /\ b \in Nat /\ c \in Nat /\ d \in Nat /\ a < b /\ c < d  BY <2>1, <2>2
  <2>4. (b > c /\ a <= c) \/ (b >= d /\ a < d) <=> a < d /\ c < b /\ ~ (c < a /\ b < d)
    BY <2>3
  <2>5. old = new => a = c /\ b = d  BY <2>2
  <2> QED  BY <2>2, <2>3, <2>4, <2>5 DEF SameTime, Overlap, StrictlyInside
<1>2. ASSUME NEW p \in Periods, NEW q \in Periods
      PROVE  SamePeriod(p, q) <=>
               \E week \in Nat : /\ p.start <= week /\ week <= p.start + p.weeks
                                 /\ q.start <= week /\ week <= q.start + q.weeks
  <2>1. \A x \in Periods : x.start \in Nat /\ x.weeks \in Nat  BY ConstantsAssumption
  <2>2. PICK s, m, t, n : s = p.start /\ m = p.weeks /\ t = q.start /\ n = q.weeks  OBVIOUS
  <2>3. s \in Nat /\ m \in Nat /\ t \in Nat /\ n \in Nat  BY <2>1, <2>2
  <2>4. CASE s <= t /\ s + m >= t  BY <2>2, <2>3, <2>4 DEF SamePeriod
  <2>5. CASE s >= t /\ t + n >= s  BY <2>2, <2>3, <2>5 DEF SamePeriod
  <2>6. CASE ~ (s <= t /\ s + m >= t) /\ ~ (s >= t /\ t + n >= s)
    <3>1. ~ SamePeriod(p, q)  BY <2>2, <2>6 DEF SamePeriod
    <3>2. ASSUME NEW w \in Nat, s <= w, w <= s + m, t <= w, w <= t + n PROVE FALSE
      BY <2>3, <2>6, <3>2
    <3> QED  BY <2>2, <3>1, <3>2
  <2> QED  BY <2>4, <2>5, <2>6
<1> QED  BY <1>1, <1>2

LEMMA CheckStep ==
  ASSUME IInv, NEW r \in Creators, Check(r)
  PROVE  IInv'
<1>a. PICK c : c = req[r].class  OBVIOUS
<1>b. PICK n : n = req[r].next  OBVIOUS
<1>c. PICK new : new = Head(req[r].todo)  OBVIOUS
<1> DEFINE row == [pc |-> "checked", class |-> c, num |-> n, slot |-> new, by |-> r]
<1>0. /\ req[r].pc = "counted" /\ req[r].todo # <<>> /\ ~Clash(r)
      /\ UNCHANGED <<period, del, moves, together, crossed, moved>>
  BY DEF Check
<1>d. req' = [req EXCEPT ![r] = [pc |-> "checked", class |-> req[r].class, from |-> req[r].from,
                                period |-> req[r].period, next |-> req[r].next + 1,
                                todo |-> Tail(req[r].todo)]]
  BY DEF Check
<1>1. PICK m \in Rows("free") :
        /\ meet' = [meet EXCEPT ![m] = row]
        /\ seen' = [seen EXCEPT ![m] = Visible(r)]
  BY <1>a, <1>b, <1>c DEF Check
<1>2. m \in Meetings /\ meet[m].pc = "free"  BY DEF Rows
<1>3. /\ c \in Classes /\ period[c] # NoPeriod /\ n > 0 /\ n \in Nat /\ req[r].period \in Periods
      /\ (c \in moved \/ req[r].period = period[c])
  BY <1>0, <1>a, <1>b, ShapeFields DEF IInv, Requesting, Listing
<1>4. new \in Slots /\ Tail(req[r].todo) \in Seq(Slots) /\ Len(Tail(req[r].todo)) <= MaxLength
  <2>1. req[r].todo \in Seq(Slots) /\ Len(req[r].todo) <= MaxLength  BY ShapeFields DEF IInv, Shape
  <2>2. /\ Head(req[r].todo) \in Slots /\ Tail(req[r].todo) \in Seq(Slots)
        /\ Len(Tail(req[r].todo)) = Len(req[r].todo) - 1 /\ Len(req[r].todo) \in Nat
    BY <1>0, <2>1, HeadTailProperties, LenProperties
  <2> QED  BY <1>c, <2>1, <2>2, ConstantsAssumption
<1>5. row \in MeetRow  BY <1>3, <1>4 DEF MeetRow
<1>6. /\ row.pc = "checked" /\ row.class = c /\ row.num = n /\ row.slot = new /\ row.by = r
  OBVIOUS
<1> HIDE DEF row
<1>7. /\ meet' \in [Meetings -> MeetRow] /\ meet'[m] = row
      /\ \A x \in Meetings \ {m} : meet'[x] = meet[x]
      /\ seen' \in [Meetings -> SUBSET Meetings] /\ seen'[m] = Visible(r)
      /\ \A x \in Meetings \ {m} : seen'[x] = seen[x]
  <2>1. Visible(r) \subseteq Meetings  BY DEF Visible, Rows, Sent
  <2> QED  BY <1>1, <1>2, <1>5, <2>1 DEF IInv, Shape
<1>8. /\ req'[r].pc = "checked" /\ req'[r].class = c /\ req'[r].period = req[r].period
      /\ req'[r].next = n + 1 /\ req'[r].todo = Tail(req[r].todo) /\ req'[r] \in ReqState
      /\ req' \in [Creators -> ReqState]
      /\ \A s \in Creators \ {r} : req'[s] = req[s]
  <2> DEFINE q == [pc |-> "checked", class |-> req[r].class, from |-> req[r].from,
                   period |-> req[r].period, next |-> req[r].next + 1, todo |-> Tail(req[r].todo)]
  <2>1. q \in ReqState
    <3>1. /\ req[r].class \in Classes \cup {NoClass} /\ req[r].from \in Classes \cup {NoClass}
          /\ req[r].period \in Periods \cup {NoPeriod} /\ req[r].next + 1 \in Nat
      BY ShapeFields DEF IInv
    <3> QED  BY <1>4, <3>1 DEF ReqState
  <2>2. q.pc = "checked" /\ q.class = c /\ q.period = req[r].period
        /\ q.next = n + 1 /\ q.todo = Tail(req[r].todo)
    BY <1>a, <1>b
  <2>3. req' = [req EXCEPT ![r] = q]  BY <1>d
  <2> HIDE DEF q
  <2>4. req \in [Creators -> ReqState]  BY DEF IInv, Shape
  <2>5. /\ req'[r] = q /\ req' \in [Creators -> ReqState]
        /\ \A s \in Creators \ {r} : req'[s] = req[s]
    BY <2>1, <2>3, <2>4
  <2> QED  BY <2>1, <2>2, <2>5
<1>9. Shape'  BY <1>0, <1>4, <1>7, <1>8 DEF IInv, Shape
<1>10. MadeRight'
  <2>1. Made(m)'  BY <1>0, <1>3, <1>4, <1>6, <1>7 DEF Made
  <2>2. ASSUME NEW x \in Meetings \ {m} PROVE Made(x)'
    BY <1>0, <1>7 DEF IInv, MadeRight, Made
  <2> QED  BY <2>1, <2>2 DEF MadeRight
<1>11. /\ \A s \in Creators : Listing(s)' = Listing(s) /\ Upcoming(s)' = Upcoming(s)
       /\ \A s \in Creators : req'[s].class = req[s].class
       /\ Running' = Running
       /\ \A x \in Rows("checked") : meet[x].by # r
  <2>1. ASSUME NEW s \in Creators
        PROVE  /\ Listing(s)' = Listing(s) /\ Upcoming(s)' = Upcoming(s)
               /\ req'[s].class = req[s].class /\ (s \in Running' <=> s \in Running)
    <3>1. CASE s = r  BY <1>0, <1>3, <1>8, <1>a, <1>b, <3>1 DEF Listing, Upcoming, Running
    <3>2. CASE s # r  BY <1>8, <3>2 DEF Listing, Upcoming, Running
    <3> QED  BY <3>1, <3>2
  <2>2. Running' = Running  BY <2>1 DEF Running
  <2>3. \A x \in Rows("checked") : meet[x].by # r  BY <1>0 DEF IInv, Requesting, Rows
  <2> QED  BY <2>1, <2>2, <2>3
<1>12. Requesting'
  <2>1. ASSUME NEW s \in Creators
        PROVE  /\ Listing(s)' \/ req'[s].pc = "copying" =>
                    req'[s].class \in Classes /\ period'[req'[s].class] # NoPeriod
               /\ req'[s].pc = "copying" => req'[s].from \in Classes
               /\ Listing(s)' =>
                    /\ req'[s].next > 0 /\ req'[s].period \in Periods
                    /\ req'[s].class \in moved' \/ req'[s].period = period'[req'[s].class]
    <3>1. CASE s = r  BY <1>0, <1>3, <1>8, <3>1
    <3>2. CASE s # r
      <4>1. req'[s] = req[s] /\ Listing(s)' = Listing(s)  BY <1>8, <1>11, <3>2
      <4>2. /\ Listing(s) \/ req[s].pc = "copying" =>
                 req[s].class \in Classes /\ period[req[s].class] # NoPeriod
            /\ req[s].pc = "copying" => req[s].from \in Classes
            /\ Listing(s) =>
                 /\ req[s].next > 0 /\ req[s].period \in Periods
                 /\ req[s].class \in moved \/ req[s].period = period[req[s].class]
        BY DEF IInv, Requesting
      <4> QED  BY <1>0, <4>1, <4>2
    <3> QED  BY <3>1, <3>2
  <2>2. ASSUME NEW x \in Meetings
        PROVE  /\ Open(x)' => Listing(meet[x].by)' /\ meet'[x].class = req'[meet'[x].by].class
               /\ meet'[x].pc = "checked" =>
                    req'[meet'[x].by].pc = "checked" /\ meet'[x].num = req'[meet'[x].by].next - 1
    <3>1. CASE x = m  BY <1>3, <1>6, <1>7, <1>8, <3>1 DEF Listing
    <3>2. CASE x # m
      <4>1. meet'[x] = meet[x] /\ Open(x)' = Open(x)  BY <1>7, <3>2 DEF Open
      <4>2. ASSUME Open(x)
            PROVE  /\ meet[x].by \in Creators /\ Listing(meet[x].by)
                   /\ meet[x].class = req[meet[x].by].class
        BY <4>2 DEF IInv, MadeRight, Made, Requesting, Open
      <4>4. ASSUME Open(x) PROVE Listing(meet[x].by)'
        <5>1. PICK s \in Creators : s = meet[x].by  BY <4>2, <4>4
        <5>2. Listing(s)'  BY <1>11, <4>2, <4>4, <5>1
        <5> QED  BY <4>1, <5>1, <5>2 DEF Listing
      <4>5. ASSUME meet[x].pc = "checked"
            PROVE  req'[meet[x].by].pc = "checked" /\ meet[x].num = req'[meet[x].by].next - 1
        <5>1. x \in Rows("checked") /\ Open(x)  BY <4>5 DEF Rows, Open
        <5>2. req'[meet[x].by] = req[meet[x].by]  BY <1>8, <1>11, <4>2, <5>1
        <5> QED  BY <4>5, <5>2 DEF IInv, Requesting
      <4> QED  BY <1>11, <4>1, <4>2, <4>4, <4>5
    <3> QED  BY <3>1, <3>2
  <2>3. ASSUME NEW x \in Rows("checked")', NEW y \in Rows("checked")', meet'[x].by = meet'[y].by
        PROVE  x = y
    <3>1. \A z \in {x, y} : z = m \/ (z \in Rows("checked") /\ meet'[z] = meet[z])
      BY <1>7, <2>3 DEF Rows
    <3> QED  BY <1>6, <1>7, <1>11, <2>3, <3>1 DEF IInv, Requesting
  <2> QED  BY <2>1, <2>2, <2>3 DEF Requesting
<1>13. /\ \A pc \in {"sent", "kept"} : Rows(pc)' = Rows(pc) /\ m \notin Rows(pc)
  BY <1>2, <1>6, <1>7 DEF Rows
<1>14. /\ \A e : Kept(e)' = Kept(e) /\ \A s : Sent(s)' = Sent(s)
       /\ \A x \in Rows("sent") \cup Rows("kept") : x \in Meetings /\ meet'[x] = meet[x]
  BY <1>7, <1>13 DEF Kept, Sent, Rows
<1>15. Keys'  BY <1>13, <1>14 DEF IInv, Keys, SameKey
<1>16. Numbering'
  <2>1. ASSUME NEW e
        PROVE  {meet'[x].num : x \in Kept(e)} = {meet[x].num : x \in Kept(e)}
    BY <1>14 DEF Kept
  <2>2. ASSUME NEW s
        PROVE  {meet'[x].num : x \in Sent(s)} = {meet[x].num : x \in Sent(s)}
    BY <1>14 DEF Sent
  <2> QED  BY <1>0, <1>11, <1>14, <2>1, <2>2 DEF IInv, Numbering
<1>17. \A x \in Live : x \in Meetings /\ x # m /\ meet'[x] = meet[x] /\ meet[x].slot \in Slots
                     /\ seen'[x] = seen[x] /\ m \notin seen[x]
  BY <1>2, <1>7 DEF Live, IInv, MadeRight, Made, Comparing
<1>18. ASSUME NEW x \in Live PROVE Explained(m, x)' /\ Explained(x, m)'
  <2>1. SUFFICES ASSUME Overlap(meet[x].slot, new), SamePeriod(period[meet[x].class], period[c]),
                        c \notin moved, meet[x].class \notin moved
                 PROVE  \/ x \in Visible(r) /\ StrictlyInside(meet[x].slot, new)
                        \/ x \notin Visible(r) /\ {r, meet[x].by} \in together
    <3>1. /\ Overlap(new, meet[x].slot) <=> Overlap(meet[x].slot, new)
          /\ SamePeriod(period[meet[x].class], period[c]) <=> SamePeriod(period[c], period[meet[x].class])
      BY DEF Overlap, SamePeriod
    <3>2. {meet[x].by, r} = {r, meet[x].by} /\ {meet[x].class, c} = {c, meet[x].class}  OBVIOUS
    <3> QED  BY <1>0, <1>6, <1>7, <1>17, <2>1, <3>1, <3>2 DEF Explained
  <2>2. CASE x \in Visible(r)
    <3>1. ~SameTime(meet[x].slot, new)  BY <1>0, <1>3, <1>c, <2>1, <2>2 DEF Clash
    <3> QED  BY <1>4, <1>17, <2>1, <2>2, <3>1, QueryFinds
  <2>3. CASE x \notin Visible(r)
    <3>1. Open(x) /\ meet[x].by # r
      BY <1>11, <1>17, <2>3 DEF Visible, Live, Rows, Sent, Open
    <3>2. meet[x].by \in Creators /\ Listing(meet[x].by)
      BY <1>17, <3>1 DEF IInv, MadeRight, Made, Requesting, Open
    <3>3. meet[x].by \in Running /\ r \in Running  BY <1>0, <3>2 DEF Running, Listing
    <3> QED  BY <2>3, <3>1, <3>3 DEF IInv, Comparing
  <2> QED  BY <2>2, <2>3
<1>19. Comparing'
  <2>1. ASSUME NEW x \in Live', NEW y \in Live' PROVE Explained(x, y)'
    <3>1. \A z \in {x, y} : z = m \/ z \in Live  BY <1>7, <2>1 DEF Live
    <3>2. CASE x = m /\ y = m  BY <3>2 DEF Explained
    <3>3. CASE x = m /\ y \in Live  BY <1>18, <3>3
    <3>4. CASE y = m /\ x \in Live  BY <1>18, <3>4
    <3>5. CASE x \in Live /\ y \in Live
      <4>1. Explained(x, y)  BY <3>5 DEF IInv, Comparing
      <4> QED  BY <1>0, <1>17, <3>5, <4>1 DEF Explained
    <3> QED  BY <3>1, <3>2, <3>3, <3>4, <3>5
  <2>2. ASSUME NEW x \in Meetings, NEW y \in Meetings, y \in seen'[x] PROVE meet'[y].pc # "free"
    <3>1. CASE x = m
      <4>1. y \in Rows("kept") \cup Rows("sent")  BY <1>7, <2>2, <3>1 DEF Visible, Sent
      <4> QED  BY <1>14, <4>1 DEF Rows
    <3>2. CASE x # m
      <4>1. meet[y].pc # "free"  BY <1>7, <2>2, <3>2 DEF IInv, Comparing
      <4> QED  BY <1>2, <1>7, <4>1
    <3> QED  BY <3>1, <3>2
  <2> QED  BY <1>0, <1>11, <2>1, <2>2 DEF IInv, Comparing
<1>20. Picking'  BY <1>0, <1>14, PickingKept DEF Rows
<1> QED  BY <1>9, <1>10, <1>12, <1>15, <1>16, <1>19, <1>20 DEF IInv

\* The number an insert goes through with is above those of the class.
LEMMA InsertStep ==
  ASSUME IInv, NEW r \in Creators, NEW m \in Meetings, Insert(r, m)
  PROVE  IInv'
<1>0. /\ req[r].pc = "checked" /\ meet[m].pc = "checked" /\ meet[m].by = r
      /\ \A n \in Rows("sent") \cup Rows("kept") : ~SameKey(m, n)
      /\ meet' = [meet EXCEPT ![m].pc = "sent"] /\ req' = [req EXCEPT ![r].pc = "counted"]
      /\ UNCHANGED <<period, del, moves, seen, together, crossed, moved>>
  BY DEF Insert, history
<1>a. PICK u : u = meet[m].num  OBVIOUS
<1>b. PICK c : c = meet[m].class  OBVIOUS
<1>1. /\ meet \in [Meetings -> MeetRow] /\ meet[m] \in MeetRow
      /\ req \in [Creators -> ReqState] /\ req[r] \in ReqState
  BY DEF IInv, Shape
<1>2. /\ meet'[m].pc = "sent" /\ meet'[m].class = c /\ meet'[m].num = u
      /\ meet'[m].slot = meet[m].slot /\ meet'[m].by = r /\ meet' \in [Meetings -> MeetRow]
      /\ \A x \in Meetings \ {m} : meet'[x] = meet[x]
  BY <1>0, <1>1, <1>a, <1>b DEF MeetRow
<1>3. /\ req'[r].pc = "counted" /\ req'[r].class = req[r].class /\ req'[r].from = req[r].from
      /\ req'[r].period = req[r].period /\ req'[r].next = req[r].next
      /\ req'[r].todo = req[r].todo /\ req' \in [Creators -> ReqState]
      /\ \A s \in Creators \ {r} : req'[s] = req[s]
  BY <1>0, <1>1 DEF ReqState
<1>4. \A x \in Meetings : /\ meet'[x].class = meet[x].class /\ meet'[x].num = meet[x].num
                          /\ meet'[x].slot = meet[x].slot /\ meet'[x].by = meet[x].by
  BY <1>0, <1>2, <1>a, <1>b
<1>5. /\ c \in Classes /\ u \in Nat /\ u > 0 /\ req[r].class = c
      /\ u = req[r].next - 1 /\ req[r].next \in Nat
  BY <1>0, <1>a, <1>b, ShapeFields DEF IInv, MadeRight, Made, Requesting, Open
<1>6. \A s \in Creators : /\ req'[s].class = req[s].class /\ Listing(s)' = Listing(s)
                          /\ req'[s].from = req[s].from /\ req'[s].period = req[s].period
                          /\ req'[s].next = req[s].next
                          /\ (req'[s].pc = "copying") = (req[s].pc = "copying")
  BY <1>0, <1>3 DEF Listing
<1>7. Shape'
  <2>1. \A s \in Creators : Len(req'[s].todo) <= MaxLength  BY <1>3 DEF IInv, Shape
  <2> QED  BY <1>0, <1>2, <1>3, <2>1 DEF IInv, Shape
<1>8. MadeRight'
  <2>1. \A x \in Meetings : meet'[x].pc # "free" => meet[x].pc # "free"  BY <1>0, <1>2
  <2> QED  BY <1>0, <1>4, <2>1 DEF IInv, MadeRight, Made
<1>9. Requesting'
  <2>1. ASSUME NEW s \in Creators
        PROVE  /\ Listing(s)' \/ req'[s].pc = "copying" =>
                    req'[s].class \in Classes /\ period'[req'[s].class] # NoPeriod
               /\ req'[s].pc = "copying" => req'[s].from \in Classes
               /\ Listing(s)' =>
                    /\ req'[s].next > 0 /\ req'[s].period \in Periods
                    /\ req'[s].class \in moved' \/ req'[s].period = period'[req'[s].class]
    BY <1>0, <1>6 DEF IInv, Requesting
  <2>2. ASSUME NEW x \in Meetings
        PROVE  /\ Open(x)' => Listing(meet[x].by)' /\ meet'[x].class = req'[meet'[x].by].class
               /\ meet'[x].pc = "checked" =>
                    req'[meet'[x].by].pc = "checked" /\ meet'[x].num = req'[meet'[x].by].next - 1
    <3>1. Open(x)' => Open(x)  BY <1>0, <1>2 DEF Open
    <3>2. ASSUME Open(x) PROVE Listing(meet[x].by)' /\ meet[x].class = req'[meet[x].by].class
      <4>1. meet[x].by \in Creators /\ Listing(meet[x].by) /\ meet[x].class = req[meet[x].by].class
        BY <3>2 DEF IInv, MadeRight, Made, Requesting, Open
      <4>2. PICK s \in Creators : s = meet[x].by  BY <4>1
      <4>3. Listing(s)' /\ req'[s].class = req[s].class  BY <1>6, <4>1, <4>2
      <4> QED  BY <1>4, <4>1, <4>2, <4>3 DEF Listing
    <3>3. ASSUME meet'[x].pc = "checked"
          PROVE  req'[meet[x].by].pc = "checked" /\ meet[x].num = req'[meet[x].by].next - 1
      <4>1. x # m /\ meet[x].pc = "checked"  BY <1>2, <3>3
      <4>2. meet[x].by # r  BY <1>0, <4>1 DEF IInv, Requesting, Rows
      <4>3. meet[x].by \in Creators  BY <4>1 DEF IInv, MadeRight, Made
      <4> QED  BY <1>3, <4>1, <4>2, <4>3 DEF IInv, Requesting
    <3> QED  BY <1>4, <3>1, <3>2, <3>3
  <2>3. ASSUME NEW x \in Rows("checked")', NEW y \in Rows("checked")', meet'[x].by = meet'[y].by
        PROVE  x = y
    <3>1. x \in Rows("checked") /\ y \in Rows("checked")  BY <1>2 DEF Rows
    <3>2. meet[x].by = meet[y].by  BY <1>4, <2>3, <3>1 DEF Rows
    <3> QED  BY <3>1, <3>2 DEF IInv, Requesting
  <2> QED  BY <2>1, <2>2, <2>3 DEF Requesting
<1>10. /\ Rows("kept")' = Rows("kept") /\ Rows("sent")' = Rows("sent") \cup {m}
       /\ \A e : Kept(e)' = Kept(e) /\ Sent(r)' = Sent(r) \cup {m}
       /\ \A s \in Creators \ {r} : Sent(s)' = Sent(s)
  <2>1. Rows("kept")' = Rows("kept") /\ Rows("sent")' = Rows("sent") \cup {m}  BY <1>0, <1>2 DEF Rows
  <2>2. ASSUME NEW e PROVE Kept(e)' = Kept(e)
    <3>1. \A x \in Rows("kept") : x \in Meetings  BY DEF Rows
    <3> QED  BY <1>4, <2>1, <3>1 DEF Kept
  <2>3. \A x \in Rows("sent") : x \in Meetings  BY DEF Rows
  <2>4. Sent(r)' = Sent(r) \cup {m}  BY <1>0, <1>4, <2>1, <2>3 DEF Sent
  <2>5. ASSUME NEW s \in Creators \ {r} PROVE Sent(s)' = Sent(s)
    BY <1>0, <1>4, <2>1, <2>3 DEF Sent
  <2> QED  BY <2>1, <2>2, <2>4, <2>5
<1>11. Keys'
  <2>1. \A x, y \in Meetings : SameKey(x, y)' = SameKey(x, y)  BY <1>4 DEF SameKey
  <2>2. \A x \in Rows("sent") \cup Rows("kept") : x \in Meetings  BY DEF Rows
  <2>3. \A x \in Rows("sent") \cup Rows("kept") : ~SameKey(m, x) /\ ~SameKey(x, m)
    BY <1>0 DEF SameKey
  <2>4. ~SameKey(m, m)  BY DEF SameKey
  <2> QED  BY <1>10, <2>1, <2>2, <2>3, <2>4 DEF IInv, Keys
<1>12. Numbering'
  <2>1. ASSUME NEW e
        PROVE  {meet'[x].num : x \in Kept(e)} = {meet[x].num : x \in Kept(e)}
    BY <1>4 DEF Kept, Rows
  <2>2. ASSUME NEW s
        PROVE  {meet'[x].num : x \in Sent(s)} = {meet[x].num : x \in Sent(s)}
    BY <1>4 DEF Sent, Rows
  <2>3. ASSUME NEW e \in Classes \ crossed, NEW s \in Creators, Listing(s), req[s].class = e
        PROVE  {meet'[x].num : x \in Sent(s)'} = (Cardinality(Kept(e)) + 1)..(Upcoming(s)' - 1)
    <3>1. {meet[x].num : x \in Sent(s)} = (Cardinality(Kept(e)) + 1)..(Upcoming(s) - 1)
      BY <2>3 DEF IInv, Numbering
    <3>2. CASE s # r
      <4>1. Upcoming(s)' = Upcoming(s)  BY <1>3, <3>2 DEF Upcoming
      <4> QED  BY <1>10, <2>2, <3>1, <3>2, <4>1
    <3>3. CASE s = r
      <4>1. Upcoming(r) = u /\ Upcoming(r)' = u + 1  BY <1>0, <1>3, <1>5 DEF Upcoming
      <4>2. PICK K \in Nat : K = Cardinality(Kept(e))  BY KeptFinite
      <4>3. u > K
        <5>1. SUFFICES ASSUME u <= K PROVE FALSE  BY <1>5
        <5>2. u \in 1..K  BY <1>5, <5>1
        <5>3. {meet[x].num : x \in Kept(e)} = 1..K  BY <4>2 DEF IInv, Numbering
        <5>4. PICK x \in Kept(e) : meet[x].num = u  BY <5>2, <5>3
        <5>5. x \in Rows("kept") /\ x # m /\ meet[x].class = c
          BY <1>0, <1>5, <2>3, <3>3, <5>4 DEF Kept, Rows
        <5> QED  BY <1>0, <1>a, <1>b, <5>4, <5>5 DEF SameKey
      <4>4. {meet'[x].num : x \in Sent(r)'} = {meet[x].num : x \in Sent(r)} \cup {u}
        <5>1. {meet'[x].num : x \in Sent(r)'} = {meet'[x].num : x \in Sent(r)} \cup {meet'[m].num}
          BY <1>10
        <5> QED  BY <1>2, <2>2, <5>1
      <4>5. ((K + 1)..(u - 1)) \cup {u} = (K + 1)..((u + 1) - 1)  BY <1>5, <4>3
      <4> QED  BY <3>1, <3>3, <4>1, <4>2, <4>4, <4>5
    <3> QED  BY <3>2, <3>3
  <2> QED  BY <1>0, <1>6, <1>10, <2>1, <2>3 DEF IInv, Numbering
<1>13. Comparing'
  <2>1. Live' \subseteq Live  BY <1>0, <1>2 DEF Live
  <2>2. Running' = Running  BY <1>0, <1>3 DEF Running
  <2>3. \A s, t \in Running' : s # t => {s, t} \in together'  BY <1>0, <2>2 DEF IInv, Comparing
  <2>4. \A x \in Meetings : meet[x].pc # "free" => meet'[x].pc # "free"  BY <1>0, <1>2
  <2> QED  BY <1>0, <1>4, <2>1, <2>3, <2>4, ComparingKept
<1>14. Picking'
  <2>1. \A x \in Rows("kept") : meet'[x].pc = "kept" /\ x \in Meetings  BY <1>0, <1>2 DEF Rows
  <2> QED  BY <1>0, <1>4, <2>1, PickingKept
<1> QED  BY <1>7, <1>8, <1>9, <1>11, <1>12, <1>13, <1>14 DEF IInv
------------------------------------------------------------------------------
(* A request ends *)

\* Who has inserted a meeting of a class before the commit would share its first number.
LEMMA EndedStep ==
  ASSUME IInv, NEW r \in Running, NEW pc \in {"kept", "void"}, Ended(r, pc),
         pc = "kept" => req[r].pc = "counted", UNCHANGED <<period, del, moves, history>>
  PROVE  IInv'
<1>0. UNCHANGED <<period, del, moves, seen, together, crossed, moved>>  BY DEF history
<1>a. r \in Creators  BY DEF Running
<1> DEFINE S == {m \in Meetings : meet[m].by = r /\ Open(m)}
<1>1. meet \in [Meetings -> MeetRow] /\ req \in [Creators -> ReqState]  BY DEF IInv, Shape
<1>2. /\ meet' \in [Meetings -> MeetRow]
      /\ \A x \in S : meet'[x].pc = pc
      /\ \A x \in Meetings \ S : meet'[x] = meet[x]
      /\ \A x \in Meetings : /\ meet'[x].class = meet[x].class /\ meet'[x].num = meet[x].num
                             /\ meet'[x].slot = meet[x].slot /\ meet'[x].by = meet[x].by
  <2>1. meet' = [m \in Meetings |-> IF m \in S THEN [meet[m] EXCEPT !.pc = pc] ELSE meet[m]]
    BY DEF Ended, Open
  <2>2. ASSUME NEW x \in S
        PROVE  /\ meet'[x].pc = pc /\ meet'[x] \in MeetRow
               /\ meet'[x].class = meet[x].class /\ meet'[x].num = meet[x].num
               /\ meet'[x].slot = meet[x].slot /\ meet'[x].by = meet[x].by
    <3>1. x \in Meetings /\ meet[x] \in MeetRow /\ meet'[x] = [meet[x] EXCEPT !.pc = pc]
      BY <1>1, <2>1
    <3> QED  BY <3>1 DEF MeetRow
  <2>3. \A x \in Meetings \ S : meet'[x] = meet[x]  BY <2>1
  <2>4. meet' = [x \in Meetings |-> meet'[x]]  BY <2>1
  <2>5. \A x \in Meetings : meet'[x] \in MeetRow  BY <1>1, <2>2, <2>3
  <2>6. S \subseteq Meetings  OBVIOUS
  <2> HIDE DEF S
  <2>7. meet' \in [Meetings -> MeetRow]  BY <2>4, <2>5
  <2> QED  BY <2>2, <2>3, <2>6, <2>7
<1>3. /\ \A x \in S : x \in Meetings /\ meet[x].by = r /\ meet[x].pc \in {"checked", "sent"}
      /\ \A x \in Meetings \ S : meet[x].by # r \/ ~Open(x)
  BY DEF Open
<1> HIDE DEF S
<1>4. /\ req'[r].pc = "done" /\ req'[r].todo = <<>> /\ req' \in [Creators -> ReqState]
      /\ \A s \in Creators \ {r} : req'[s] = req[s]
  <2> DEFINE q == [NoRequest EXCEPT !.pc = "done"]
  <2>0. q = [pc |-> "done", class |-> NoClass, from |-> NoClass, period |-> NoPeriod,
             next |-> 0, todo |-> <<>>]
    BY DEF NoRequest
  <2>1. q \in ReqState /\ q.pc = "done" /\ q.todo = <<>>
    <3> HIDE DEF q
    <3> QED  BY <2>0 DEF ReqState
  <2>2. req' = [req EXCEPT ![r] = q]  BY DEF Ended
  <2> HIDE DEF q
  <2> QED  BY <1>1, <1>a, <2>1, <2>2
<1>5. Shape'
  <2>1. \A s \in Creators : Len(req'[s].todo) <= MaxLength  BY <1>4, ConstantsAssumption DEF IInv, Shape
  <2> QED  BY <1>0, <1>2, <1>4, <2>1 DEF IInv, Shape
<1>6. \A x \in Meetings : (meet'[x].pc = "free") = (meet[x].pc = "free")  BY <1>2, <1>3
<1>7. MadeRight'  BY <1>0, <1>2, <1>6 DEF IInv, MadeRight, Made
<1>8. \A x \in Meetings : (Open(x))' => Open(x) /\ x \notin S /\ meet'[x] = meet[x] /\ meet[x].by # r
  BY <1>2, <1>3 DEF Open
<1>9. Requesting'
  <2>1. ASSUME NEW s \in Creators
        PROVE  /\ Listing(s)' \/ req'[s].pc = "copying" =>
                    req'[s].class \in Classes /\ period'[req'[s].class] # NoPeriod
               /\ req'[s].pc = "copying" => req'[s].from \in Classes
               /\ Listing(s)' =>
                    /\ req'[s].next > 0 /\ req'[s].period \in Periods
                    /\ req'[s].class \in moved' \/ req'[s].period = period'[req'[s].class]
    <3>1. CASE s = r  BY <1>4, <3>1 DEF Listing
    <3>2. CASE s # r
      <4>1. req'[s] = req[s] /\ Listing(s)' = Listing(s)  BY <1>4, <3>2 DEF Listing
      <4> QED  BY <1>0, <4>1 DEF IInv, Requesting
    <3> QED  BY <3>1, <3>2
  <2>2. ASSUME NEW x \in Meetings, Open(x)'
        PROVE  Listing(meet[x].by)' /\ meet'[x].class = req'[meet'[x].by].class
    <3>1. Open(x) /\ meet'[x] = meet[x] /\ meet[x].by # r  BY <1>8, <2>2
    <3>2. meet[x].by \in Creators /\ Listing(meet[x].by) /\ meet[x].class = req[meet[x].by].class
      BY <3>1 DEF IInv, MadeRight, Made, Requesting, Open
    <3>3. req'[meet[x].by] = req[meet[x].by]  BY <1>4, <3>1, <3>2
    <3> QED  BY <3>1, <3>2, <3>3 DEF Listing
  <2>3. ASSUME NEW x \in Meetings, meet'[x].pc = "checked"
        PROVE  req'[meet'[x].by].pc = "checked" /\ meet'[x].num = req'[meet'[x].by].next - 1
    <3>1. Open(x)'  BY <2>3 DEF Open
    <3>2. Open(x) /\ meet'[x] = meet[x] /\ meet[x].by # r  BY <1>8, <3>1
    <3>3. meet[x].by \in Creators  BY <3>2 DEF IInv, MadeRight, Made, Open
    <3>4. req'[meet[x].by] = req[meet[x].by]  BY <1>4, <3>2, <3>3
    <3> QED  BY <2>3, <3>2, <3>4 DEF IInv, Requesting
  <2>4. ASSUME NEW x \in Rows("checked")', NEW y \in Rows("checked")', meet'[x].by = meet'[y].by
        PROVE  x = y
    <3>1. x \in Meetings /\ y \in Meetings /\ (Open(x))' /\ (Open(y))'  BY DEF Rows, Open
    <3>2. meet'[x] = meet[x] /\ meet'[y] = meet[y]  BY <1>8, <3>1
    <3> QED  BY <2>4, <3>2 DEF IInv, Requesting, Rows
  <2> QED  BY <2>1, <2>2, <2>3, <2>4 DEF Requesting
<1>10. pc = "kept" => S = Sent(r)
  <2>1. ASSUME pc = "kept", NEW x \in S PROVE x \in Sent(r)
    BY <1>3, <2>1 DEF IInv, Requesting, Sent, Rows
  <2>2. ASSUME NEW x \in Sent(r) PROVE x \in S  BY <1>3 DEF Sent, Rows, Open
  <2> QED  BY <2>1, <2>2
<1>11. /\ Rows("sent")' = Rows("sent") \ S
       /\ Rows("kept")' = IF pc = "kept" THEN Rows("kept") \cup S ELSE Rows("kept")
  <2>1. \A x \in Rows("sent")' : x \in Rows("sent") \ S  BY <1>2 DEF Rows
  <2>2. \A x \in Rows("sent") \ S : x \in Rows("sent")'  BY <1>2 DEF Rows
  <2>3. \A x \in Rows("kept") : x \in Rows("kept")'  BY <1>2, <1>3 DEF Rows
  <2>4. \A x \in Rows("kept")' : x \in Rows("kept") \/ (pc = "kept" /\ x \in S)  BY <1>2 DEF Rows
  <2>5. \A x \in S : pc = "kept" => x \in Rows("kept")'  BY <1>2, <1>3 DEF Rows
  <2> QED  BY <2>1, <2>2, <2>3, <2>4, <2>5
<1>12. Keys'
  <2>1. \A x, y \in Meetings : SameKey(x, y)' = SameKey(x, y)  BY <1>2 DEF SameKey
  <2>2. \A x \in Rows("sent")' \cup Rows("kept")' : x \in Rows("sent") \cup Rows("kept") /\ x \in Meetings
    BY <1>10, <1>11 DEF Sent, Rows
  <2> QED  BY <2>1, <2>2 DEF IInv, Keys
<1>13. /\ \A s \in Creators \ {r} : /\ Sent(s)' = Sent(s) /\ Listing(s)' = Listing(s)
                                    /\ Upcoming(s)' = Upcoming(s)
       /\ ~Listing(r)'
  <2>1. ASSUME NEW s \in Creators \ {r} PROVE Sent(s)' = Sent(s)
    <3>1. \A x \in Rows("sent") : x \in Meetings  BY DEF Rows
    <3>2. \A x \in Rows("sent") : meet'[x].by = meet[x].by  BY <1>2, <3>1
    <3> QED  BY <1>3, <1>11, <3>2 DEF Sent
  <2>2. \A s \in Creators \ {r} : Listing(s)' = Listing(s) /\ Upcoming(s)' = Upcoming(s)
    BY <1>4 DEF Listing, Upcoming
  <2>3. ~Listing(r)'  BY <1>4 DEF Listing
  <2> QED  BY <2>1, <2>2, <2>3
<1>14. /\ \A T : T \subseteq Meetings => {meet'[x].num : x \in T} = {meet[x].num : x \in T}
       /\ \A e : Kept(e) \subseteq Meetings /\ \A s : Sent(s) \subseteq Meetings
  <2>1. ASSUME NEW T, T \subseteq Meetings PROVE {meet'[x].num : x \in T} = {meet[x].num : x \in T}
    <3>1. \A x \in T : meet'[x].num = meet[x].num  BY <1>2, <2>1
    <3> QED  BY <3>1
  <2>2. \A e : Kept(e) \subseteq Meetings  BY DEF Kept, Rows
  <2>3. \A s : Sent(s) \subseteq Meetings  BY DEF Sent, Rows
  <2> QED  BY <2>1, <2>2, <2>3
<1>15. ASSUME NEW e, pc = "void" \/ S = {} \/ e # req[r].class
       PROVE  Kept(e)' = Kept(e)
  <2>1. \A x \in S : meet[x].class = req[r].class  BY <1>3 DEF IInv, Requesting, Open
  <2>2. \A x \in Rows("kept") \cup S : x \in Meetings  BY <1>3 DEF Rows
  <2>3. \A x \in Rows("kept") \cup S : meet'[x].class = meet[x].class  BY <1>2, <2>2
  <2> QED  BY <1>11, <1>15, <2>1, <2>3 DEF Kept
<1>16. Numbering'
  <2> SUFFICES ASSUME NEW e \in Classes \ crossed
               PROVE  /\ {meet'[m].num : m \in Kept(e)'} = 1..Cardinality(Kept(e)')
                      /\ \A s \in Creators \ {r} : Listing(s) /\ req[s].class = e =>
                           {meet[m].num : m \in Sent(s)} = (Cardinality(Kept(e)') + 1)..(Upcoming(s) - 1)
    <3>1. ASSUME NEW e \in Classes \ crossed, NEW s \in Creators, Listing(s)', req'[s].class = e,
                 {meet[m].num : m \in Sent(s)} = (Cardinality(Kept(e)') + 1)..(Upcoming(s) - 1)
          PROVE  {meet'[m].num : m \in Sent(s)'} = (Cardinality(Kept(e)') + 1)..(Upcoming(s)' - 1)
      <4>1. s # r /\ Sent(s)' = Sent(s) /\ Upcoming(s)' = Upcoming(s)  BY <1>13, <3>1
      <4>2. {meet'[m].num : m \in Sent(s)} = {meet[m].num : m \in Sent(s)}  BY <1>14
      <4> QED  BY <3>1, <4>1, <4>2
    <3> QED  BY <1>0, <1>4, <1>13, <3>1 DEF Numbering
  <2>1. /\ {meet[m].num : m \in Kept(e)} = 1..Cardinality(Kept(e))
        /\ \A s \in Creators : Listing(s) /\ req[s].class = e =>
             {meet[m].num : m \in Sent(s)} = (Cardinality(Kept(e)) + 1)..(Upcoming(s) - 1)
    BY DEF IInv, Numbering
  <2>2. CASE pc = "void" \/ S = {} \/ e # req[r].class
    <3>1. Kept(e)' = Kept(e)  BY <1>15, <2>2
    <3>2. {meet'[m].num : m \in Kept(e)} = {meet[m].num : m \in Kept(e)}  BY <1>14
    <3> QED  BY <2>1, <3>1, <3>2
  <2>3. CASE ~(pc = "void" \/ S = {} \/ e # req[r].class)
    <3>0. pc = "kept" /\ S # {} /\ e = req[r].class /\ S = Sent(r)  BY <1>10, <2>3
    <3>a. PICK K \in Nat : K = Cardinality(Kept(e))  BY KeptFinite
    <3>b. PICK U \in Nat : U = req[r].next  BY <1>a, ShapeFields DEF IInv
    <3>1. Listing(r) /\ Upcoming(r) = U  BY <3>0, <3>b DEF Listing, Upcoming
    <3>2. {meet[m].num : m \in S} = (K + 1)..(U - 1)  BY <1>a, <2>1, <3>0, <3>a, <3>1
    <3>3. U - 1 >= K + 1
      <4>1. PICK x \in S : TRUE  BY <3>0
      <4>2. meet[x].num \in (K + 1)..(U - 1)  BY <3>2, <4>1
      <4> QED  BY <4>2
    <3>4. Kept(e)' = Kept(e) \cup S
      <4>1. \A x \in S : meet[x].class = e  BY <1>3, <3>0 DEF IInv, Requesting, Open
      <4>2. \A x \in Rows("kept") \cup S : x \in Meetings  BY <1>3 DEF Rows
      <4>3. \A x \in Rows("kept") \cup S : meet'[x].class = meet[x].class  BY <1>2, <4>2
      <4> QED  BY <1>11, <3>0, <4>1, <4>3 DEF Kept
    <3>5. PICK T \in SUBSET Meetings : T = Kept(e) \cup S
      BY <1>3, <1>14
    <3>6. {meet[m].num : m \in T} = 1..(U - 1)
      <4>1. {meet[m].num : m \in T} = {meet[m].num : m \in Kept(e)} \cup {meet[m].num : m \in S}
        BY <3>5
      <4>2. (1..K) \cup ((K + 1)..(U - 1)) = 1..(U - 1)  BY <3>3
      <4> QED  BY <2>1, <3>2, <3>a, <4>1, <4>2
    <3>7. Cardinality(T) = U - 1
      <4>1. PICK num : num = [m \in T |-> meet[m].num]  OBVIOUS
      <4>2. {num[m] : m \in T} = 1..(U - 1)  BY <3>6, <4>1
      <4>3. ASSUME NEW a \in T, NEW b \in T, num[a] = num[b] PROVE a = b
        <5>1. meet[a].class = e /\ meet[b].class = e
          BY <1>3, <3>0, <3>5 DEF Kept, IInv, Requesting, Open
        <5>2. a \in Rows("sent") \cup Rows("kept") /\ b \in Rows("sent") \cup Rows("kept")
          BY <3>0, <3>5 DEF Kept, Sent
        <5>3. meet[a].num = meet[b].num  BY <4>1, <4>3
        <5> QED  BY <5>1, <5>2, <5>3 DEF IInv, Keys, SameKey
      <4>4. U - 1 \in Nat  BY <3>3
      <4> QED  BY <4>2, <4>3, <4>4, RowOfNumbers
    <3>8. {meet'[m].num : m \in T} = {meet[m].num : m \in T}  BY <1>14
    <3>9. ASSUME NEW s \in Creators \ {r}, Listing(s), req[s].class = e
          PROVE  {meet[m].num : m \in Sent(s)} = U..(Upcoming(s) - 1)
      <4>1. {meet[m].num : m \in Sent(s)} = (K + 1)..(Upcoming(s) - 1)  BY <2>1, <3>a, <3>9
      <4>2. Upcoming(s) \in Int
        <5>1. req[s].next \in Nat  BY ShapeFields DEF IInv
        <5> QED  BY <5>1 DEF Upcoming
      <4>3. Upcoming(s) - 1 < K + 1
        <5>1. SUFFICES ASSUME K + 1 <= Upcoming(s) - 1 PROVE FALSE  BY <4>2
        <5>2. K + 1 \in (K + 1)..(Upcoming(s) - 1) /\ K + 1 \in (K + 1)..(U - 1)
          BY <3>3, <4>2, <5>1
        <5>3. PICK x \in Sent(s) : meet[x].num = K + 1  BY <4>1, <5>2
        <5>4. PICK y \in S : meet[y].num = K + 1  BY <3>2, <5>2
        <5>5. x \in Rows("sent") /\ meet[x].by = s /\ y \in Rows("sent") /\ meet[y].by = r
          BY <3>0, <5>3, <5>4 DEF Sent
        <5>6. meet[x].class = e /\ meet[y].class = e
          BY <3>0, <3>9, <5>5 DEF IInv, Requesting, Open, Rows
        <5> QED  BY <5>3, <5>4, <5>5, <5>6 DEF IInv, Keys, SameKey
      <4> QED  BY <3>3, <4>1, <4>2, <4>3
    <3>10. Kept(e)' = T /\ Cardinality(Kept(e)') + 1 = U  BY <3>3, <3>4, <3>5, <3>7
    <3>11. {meet'[m].num : m \in Kept(e)'} = 1..Cardinality(Kept(e)')  BY <3>6, <3>7, <3>8, <3>10
    <3> QED  BY <3>9, <3>10, <3>11
  <2> QED  BY <2>2, <2>3
<1>17. Comparing'
  <2>1. Live' \subseteq Live
    <3>1. \A x \in Meetings : x \in S => meet[x].pc \in {"checked", "sent"}  BY <1>3
    <3> QED  BY <1>2, <3>1 DEF Live
  <2>2. Running' \subseteq Running  BY <1>4 DEF Running
  <2>3. \A s, t \in Running' : s # t => {s, t} \in together'  BY <1>0, <2>2 DEF IInv, Comparing
  <2> QED  BY <1>0, <1>2, <1>6, <2>1, <2>3, ComparingKept
<1>18. Picking'
  <2>1. \A x \in Rows("kept") : meet'[x].pc = "kept" /\ x \in Meetings  BY <1>2, <1>3 DEF Rows
  <2> QED  BY <1>0, <1>2, <2>1, PickingKept
<1> QED  BY <1>5, <1>7, <1>9, <1>12, <1>16, <1>17, <1>18 DEF IInv
------------------------------------------------------------------------------
(* The pages, and what they delete *)

\* A page that is opened or given up touches nothing else.
LEMMA PageStep ==
  ASSUME IInv, NEW d \in Deleters, NEW q \in DelState, del' = [del EXCEPT ![d] = q],
         UNCHANGED <<period, meet, req, moves, history>>,
         q.pc = "one" => \E m \in Meetings : /\ q.picked = {m} /\ meet[m].pc = "kept"
                                             /\ meet[m].class = q.class /\ meet[m].num = q.num
  PROVE  IInv'
<1>0. UNCHANGED <<period, meet, req, moves, seen, together, crossed, moved>>  BY DEF history
<1>1. /\ del' \in [Deleters -> DelState] /\ del'[d] = q
      /\ \A e \in Deleters \ {d} : del'[e] = del[e]
  BY DEF IInv, Shape
<1>2. Shape'  BY <1>0, <1>1 DEF IInv, Shape
<1>3. MadeRight' /\ Requesting' /\ Keys'
  BY <1>0 DEF IInv, MadeRight, Made, Requesting, Listing, Open, Rows, Keys, SameKey
<1>4. Numbering'  BY <1>0 DEF IInv, Numbering, Kept, Rows, Listing, Sent, Upcoming
<1>5. Comparing'  BY <1>0 DEF IInv, Comparing, Running, Live, Explained
<1>6. Picking'
  <2>1. ASSUME NEW e \in Deleters, del'[e].pc = "one", ~del'[e].stale
        PROVE  \E m \in Meetings : Shown(e, m)'
    <3>1. CASE e = d  BY <1>0, <1>1, <2>1, <3>1 DEF Shown
    <3>2. CASE e # d
      <4>1. PICK m \in Meetings : Shown(e, m)  BY <1>1, <2>1, <3>2 DEF IInv, Picking
      <4>2. Shown(e, m)'  BY <1>0, <1>1, <3>2, <4>1 DEF Shown
      <4> QED  BY <4>2
    <3> QED  BY <3>1, <3>2
  <2> QED  BY <2>1 DEF Picking
<1> QED  BY <1>2, <1>3, <1>4, <1>5, <1>6 DEF IInv

LEMMA PickStep ==
  ASSUME IInv, NEW d \in Deleters, NEW m \in Meetings, Pick(d, m)
  PROVE  IInv'
<1> DEFINE q == [pc |-> "one", class |-> meet[m].class, num |-> meet[m].num,
                 picked |-> {m}, stale |-> FALSE]
<1>1. meet[m].pc = "kept" /\ del' = [del EXCEPT ![d] = q] /\ UNCHANGED <<period, meet, req, moves, history>>
  BY DEF Pick
<1>2. q \in DelState
  <2>1. meet[m].class \in Classes \cup {NoClass} /\ meet[m].num \in Nat  BY ShapeFields DEF IInv
  <2> QED  BY <2>1 DEF DelState
<1>3. q.picked = {m} /\ q.class = meet[m].class /\ q.num = meet[m].num  OBVIOUS
<1> HIDE DEF q
<1> QED  BY <1>1, <1>2, <1>3, PageStep

LEMMA PickAllStep ==
  ASSUME IInv, NEW d \in Deleters, NEW c \in Classes, PickAll(d, c)
  PROVE  IInv'
<1> DEFINE q == [pc |-> "all", class |-> c, num |-> 0, picked |-> Kept(c), stale |-> FALSE]
<1>1. del' = [del EXCEPT ![d] = q] /\ UNCHANGED <<period, meet, req, moves, history>>
  BY DEF PickAll
<1>2. q \in DelState  BY KeptFinite DEF DelState
<1>3. q.pc # "one"  OBVIOUS
<1> HIDE DEF q
<1> QED  BY <1>1, <1>2, <1>3, PageStep

LEMMA DeleteAbortStep ==
  ASSUME IInv, NEW d \in Deleters, DeleteAbort(d)
  PROVE  IInv'
<1> DEFINE q == [del[d] EXCEPT !.pc = "done"]
<1>1. del' = [del EXCEPT ![d] = q] /\ UNCHANGED <<period, meet, req, moves, history>>
  BY DEF DeleteAbort
<1>2. del[d] \in DelState  BY DEF IInv, Shape
<1>3. q \in DelState /\ q.pc # "one"  BY <1>2 DEF DelState
<1> HIDE DEF q
<1> QED  BY <1>1, <1>3, PageStep

\* The row of numbers from one, without one of them and moved down, is a row from one.
LEMMA MovedDown ==
  ASSUME NEW n \in Nat, NEW k \in 1..n
  PROVE  {IF k < i THEN i - 1 ELSE i : i \in (1..n) \ {k}} = 1..(n - 1)
<1> DEFINE M == {IF k < i THEN i - 1 ELSE i : i \in (1..n) \ {k}}
<1>1. M \subseteq 1..(n - 1)  OBVIOUS
<1>2. ASSUME NEW j \in 1..(n - 1) PROVE j \in M
  <2>1. CASE j < k
    <3>1. j \in (1..n) \ {k} /\ ~ (k < j)  BY <2>1
    <3> QED  BY <3>1
  <2>2. CASE j >= k
    <3>1. j + 1 \in (1..n) \ {k} /\ k < j + 1 /\ (j + 1) - 1 = j  BY <2>2
    <3> QED  BY <3>1
  <2> QED  BY <2>1, <2>2
<1> QED  BY <1>1, <1>2

\* A deletion names one meeting of the class or all of them.
LEMMA NamedIs ==
  ASSUME IInv, NEW d \in Deleters, del[d].pc \in {"one", "all"}, Named(d) # {}
  PROVE  /\ del[d].class \in Classes /\ Named(d) \subseteq Kept(del[d].class)
         /\ del[d].pc = "all" => Named(d) = Kept(del[d].class)
         /\ del[d].pc = "one" => \E x \in Kept(del[d].class) : Named(d) = {x} /\ meet[x].num = del[d].num
<1>1. PICK x \in Named(d) : TRUE  OBVIOUS
<1>2. Named(d) \subseteq Kept(del[d].class)  BY DEF Named
<1>3. del[d].class \in Classes  BY <1>1, <1>2 DEF Kept, Rows, IInv, MadeRight, Made
<1>4. del[d].pc = "all" => Named(d) = Kept(del[d].class)  BY DEF Named
<1>5. ASSUME del[d].pc = "one" PROVE Named(d) = {x} /\ meet[x].num = del[d].num
  <2>1. \A y \in Named(d) : /\ y \in Rows("kept") /\ meet[y].class = del[d].class
                            /\ meet[y].num = del[d].num
    BY <1>5 DEF Named, Kept
  <2>2. \A y \in Named(d) : y = x  BY <1>1, <2>1 DEF IInv, Keys, SameKey
  <2> QED  BY <1>1, <2>1, <2>2
<1> QED  BY <1>1, <1>2, <1>3, <1>4, <1>5

\* The meetings that stay keep numbers of their own, and a row stays a row.
LEMMA NumbersAfter ==
  ASSUME IInv, NEW d \in Deleters, del[d].pc \in {"one", "all"}, Named(d) # {},
         NEW c, c = del[d].class, NEW stay, stay = Kept(c) \ Named(d)
  PROVE  /\ \A y \in stay : /\ NumberAfter(meet[y].num, Named(d)) \in Nat
                            /\ NumberAfter(meet[y].num, Named(d)) > 0
         /\ \A y, z \in stay :
              NumberAfter(meet[y].num, Named(d)) = NumberAfter(meet[z].num, Named(d)) => y = z
         /\ {meet[y].num : y \in Kept(c)} = 1..Cardinality(Kept(c)) =>
              {NumberAfter(meet[y].num, Named(d)) : y \in stay} = 1..Cardinality(stay)
<1>1. CASE del[d].pc = "all"
  <2>1. stay = {}  BY <1>1, NamedIs
  <2>2. Cardinality(stay) = 0  BY <2>1, FS_EmptySet
  <2>3. 1..0 = {}  OBVIOUS
  <2> QED  BY <2>1, <2>2, <2>3
<1>2. CASE del[d].pc = "one"
  <2>1. PICK x \in Kept(c) : Named(d) = {x} /\ meet[x].num = del[d].num  BY <1>2, NamedIs
  <2>2. \A y \in Kept(c) : y \in Meetings /\ meet[y].num \in Nat /\ meet[y].num > 0
    BY ShapeFields DEF IInv, MadeRight, Made, Kept, Rows
  <2>3. PICK k \in Nat : k = meet[x].num /\ k > 0  BY <2>2
  <2>4. \A y, z \in Kept(c) : meet[y].num = meet[z].num => y = z
    BY DEF IInv, Keys, SameKey, Kept
  <2>5. ASSUME NEW n \in Nat PROVE NumberAfter(n, Named(d)) = IF k < n THEN n - 1 ELSE n
    <3>1. CASE k < n
      <4>1. {m \in Named(d) : meet[m].num < n} = {x}  BY <2>1, <2>3, <3>1
      <4>2. Cardinality({x}) = 1  BY FS_Singleton
      <4> QED  BY <3>1, <4>1, <4>2 DEF NumberAfter
    <3>2. CASE ~(k < n)
      <4>1. {m \in Named(d) : meet[m].num < n} = {}  BY <2>1, <2>3, <3>2
      <4>2. Cardinality({}) = 0  BY FS_EmptySet
      <4>3. Cardinality({m \in Named(d) : meet[m].num < n}) = 0  BY <4>1, <4>2
      <4>4. n - 0 = n  OBVIOUS
      <4> QED  BY <3>2, <4>3, <4>4 DEF NumberAfter
    <3> QED  BY <3>1, <3>2
  <2>6. ASSUME NEW y \in stay
        PROVE  /\ meet[y].num \in Nat /\ meet[y].num > 0 /\ meet[y].num # k /\ y \in Kept(c)
               /\ NumberAfter(meet[y].num, Named(d)) = IF k < meet[y].num THEN meet[y].num - 1 ELSE meet[y].num
    <3>1. y \in Kept(c) /\ y # x  BY <2>1
    <3>2. meet[y].num \in Nat /\ meet[y].num > 0 /\ meet[y].num # k  BY <2>1, <2>2, <2>3, <2>4, <3>1
    <3> QED  BY <2>5, <3>1, <3>2
  <2>7. ASSUME NEW y \in stay
        PROVE  NumberAfter(meet[y].num, Named(d)) \in Nat /\ NumberAfter(meet[y].num, Named(d)) > 0
    BY <2>3, <2>6
  <2>8. ASSUME NEW y \in stay, NEW z \in stay,
               NumberAfter(meet[y].num, Named(d)) = NumberAfter(meet[z].num, Named(d))
        PROVE  y = z
    <3>1. meet[y].num = meet[z].num  BY <2>3, <2>6, <2>8
    <3> QED  BY <2>4, <2>6, <3>1
  <2>9. ASSUME {meet[y].num : y \in Kept(c)} = 1..Cardinality(Kept(c))
        PROVE  {NumberAfter(meet[y].num, Named(d)) : y \in stay} = 1..Cardinality(stay)
    <3>1. PICK K \in Nat : K = Cardinality(Kept(c))  BY KeptFinite
    <3>2. Cardinality(stay) = K - 1
      <4>1. IsFiniteSet(Kept(c)) /\ stay = Kept(c) \ {x}  BY <2>1, KeptFinite
      <4> QED  BY <2>1, <3>1, <4>1, FS_RemoveElement
    <3>3. k \in 1..K  BY <2>1, <2>3, <2>9, <3>1
    <3>4. {meet[y].num : y \in stay} = (1..K) \ {k}
      <4>1. \A y \in Kept(c) : (y \in stay) = (meet[y].num # k)  BY <2>1, <2>3, <2>4
      <4>2. {meet[y].num : y \in stay} = {meet[y].num : y \in Kept(c)} \ {k}  BY <4>1, <2>6
      <4> QED  BY <2>9, <3>1, <4>2
    <3> DEFINE down(i) == IF k < i THEN i - 1 ELSE i
    <3>5. {NumberAfter(meet[y].num, Named(d)) : y \in stay} = {down(meet[y].num) : y \in stay}
      BY <2>6
    <3>6. {down(meet[y].num) : y \in stay} = {down(i) : i \in {meet[y].num : y \in stay}}
      <4> HIDE DEF down
      <4> QED  OBVIOUS
    <3>7. {down(i) : i \in (1..K) \ {k}} = 1..(K - 1)  BY <3>3, MovedDown
    <3> HIDE DEF down
    <3> QED  BY <3>2, <3>4, <3>5, <3>6, <3>7
  <2> QED  BY <2>7, <2>8, <2>9
<1> QED  BY <1>1, <1>2
\* The rows a deletion cannot see keep their numbers, and it goes through only past them.
LEMMA DeleteStep ==
  ASSUME IInv, NEW d \in Deleters, Delete(d)
  PROVE  IInv'
<1>a. PICK c : c = del[d].class  OBVIOUS
<1>b. PICK D : D = Named(d)  OBVIOUS
<1>c. PICK stay : stay = Kept(c) \ D  OBVIOUS
<1> DEFINE A(y) == NumberAfter(meet[y].num, D)
<1>0. /\ del[d].pc \in {"one", "all"} /\ D # {} /\ meet' = Deleted(d)
      /\ UNCHANGED <<period, req, moves, seen, together, moved>>
  BY <1>b DEF Delete
<1>1. \A m \in stay, n \in Rows("sent") : meet[n].class = c => meet[n].num # NumberAfter(meet[m].num, Named(d))
  BY <1>a, <1>b, <1>c DEF Delete
<1>2. del' = [e \in Deleters |-> IF e = d THEN [del[d] EXCEPT !.pc = "done"]
                                 ELSE IF del[e].class = c THEN [del[e] EXCEPT !.stale = TRUE]
                                 ELSE del[e]]
  BY <1>a DEF Delete
<1>3. crossed' = crossed \cup {x \in {c} : \E r \in Running : req[r].class = c}
  BY <1>a DEF Delete
<1>4. c \in Classes /\ D \subseteq Kept(c)  BY <1>0, <1>a, <1>b, NamedIs
<1>5. /\ \A y \in stay : A(y) \in Nat /\ A(y) > 0
      /\ \A y, z \in stay : A(y) = A(z) => y = z
      /\ {meet[y].num : y \in Kept(c)} = 1..Cardinality(Kept(c)) => {A(y) : y \in stay} = 1..Cardinality(stay)
  BY <1>0, <1>a, <1>b, <1>c, NumbersAfter
<1>6. \A m \in stay, n \in Rows("sent") : meet[n].class = c => meet[n].num # A(m)
  BY <1>1, <1>b
<1>7. meet' = [m \in Meetings |-> IF m \in D THEN [meet[m] EXCEPT !.pc = "gone"]
                                  ELSE IF m \in Kept(c) THEN [meet[m] EXCEPT !.num = A(m)] ELSE meet[m]]
  BY <1>0, <1>a, <1>b DEF Deleted
<1> HIDE DEF A
<1>8. /\ meet \in [Meetings -> MeetRow] /\ del \in [Deleters -> DelState]
      /\ \A y \in Kept(c) : y \in Meetings /\ meet[y].pc = "kept" /\ meet[y].class = c
  BY DEF IInv, Shape, Kept, Rows
<1>9. ASSUME NEW y \in D
      PROVE  /\ meet'[y].pc = "gone" /\ meet'[y].num = meet[y].num /\ meet'[y].class = meet[y].class
             /\ meet'[y].slot = meet[y].slot /\ meet'[y].by = meet[y].by /\ meet'[y] \in MeetRow
  <2>1. y \in Meetings /\ meet[y] \in MeetRow /\ meet'[y] = [meet[y] EXCEPT !.pc = "gone"]
    BY <1>4, <1>7, <1>8
  <2> QED  BY <2>1 DEF MeetRow
<1>10. ASSUME NEW y \in stay
       PROVE  /\ meet'[y].pc = "kept" /\ meet'[y].num = A(y) /\ meet'[y].class = c
              /\ meet'[y].slot = meet[y].slot /\ meet'[y].by = meet[y].by /\ meet'[y] \in MeetRow
  <2>1. y \in Meetings /\ y \in Kept(c) /\ meet[y] \in MeetRow  BY <1>8, <1>c
  <2>2. meet'[y] = [meet[y] EXCEPT !.num = A(y)]  BY <1>7, <1>c, <2>1
  <2>3. A(y) \in Nat  BY <1>5
  <2> QED  BY <1>8, <2>1, <2>2, <2>3 DEF MeetRow
<1>11. \A y \in Meetings \ Kept(c) : meet'[y] = meet[y]  BY <1>4, <1>7
<1>12. \A y \in Meetings : y \in D \/ y \in stay \/ y \notin Kept(c)  BY <1>c
<1>13. \A y \in Meetings : /\ meet'[y].class = meet[y].class /\ meet'[y].slot = meet[y].slot
                           /\ meet'[y].by = meet[y].by /\ meet'[y] \in MeetRow
                           /\ (meet'[y].pc = "free") = (meet[y].pc = "free")
                           /\ meet'[y].pc \in {"checked", "sent", "kept"} => meet'[y].pc = meet[y].pc
  <2>1. \A y \in D : meet'[y].class = meet[y].class /\ meet[y].pc = "kept"  BY <1>4, <1>8, <1>9
  <2>2. \A y \in stay : meet'[y].class = meet[y].class /\ meet[y].pc = "kept"  BY <1>8, <1>10, <1>c
  <2> QED  BY <1>8, <1>9, <1>10, <1>11, <1>12, <2>1, <2>2
<1>14. Shape'
  <2>1. meet' = [m \in Meetings |-> meet'[m]]  BY <1>7
  <2>2. meet' \in [Meetings -> MeetRow]  BY <1>13, <2>1
  <2>3. ASSUME NEW e \in Deleters PROVE del'[e] \in DelState
    <3>1. del[e] \in DelState /\ del[d] \in DelState  BY <1>8
    <3> QED  BY <1>2, <3>1 DEF DelState
  <2>4. del' \in [Deleters -> DelState]  BY <1>2, <2>3
  <2>5. crossed' \subseteq Classes  BY <1>3, <1>4 DEF IInv, Shape
  <2> QED  BY <1>0, <2>2, <2>4, <2>5 DEF IInv, Shape
<1>15. MadeRight'
  <2>1. ASSUME NEW y \in Meetings, meet'[y].pc # "free" PROVE meet'[y].num > 0
    <3>1. meet[y].num > 0  BY <1>13, <2>1 DEF IInv, MadeRight, Made
    <3> QED  BY <1>5, <1>9, <1>10, <1>11, <1>12, <3>1
  <2> QED  BY <1>0, <1>13, <2>1 DEF IInv, MadeRight, Made
<1>16. \A pc \in {"checked", "sent"} : \A y \in Meetings : meet'[y].pc = pc => meet'[y] = meet[y]
  BY <1>9, <1>10, <1>11, <1>12
<1>17. /\ \A pc \in {"checked", "sent"} : Rows(pc)' = Rows(pc)
       /\ \A pc \in {"checked", "sent"} : \A y \in Rows(pc) : meet'[y] = meet[y]
  <2>1. \A pc \in {"checked", "sent"} : \A y \in Meetings : meet[y].pc = pc => meet'[y] = meet[y]
    BY <1>8, <1>11
  <2> QED  BY <1>16, <2>1 DEF Rows
<1>18. Requesting'
  <2>1. \A r : Listing(r)' = Listing(r)  BY <1>0 DEF Listing
  <2>2. \A y \in Meetings : (Open(y))' => Open(y) /\ meet'[y] = meet[y]  BY <1>16 DEF Open
  <2>3. ASSUME NEW y \in Meetings
        PROVE  /\ Open(y)' => Listing(meet[y].by)' /\ meet'[y].class = req'[meet'[y].by].class
               /\ meet'[y].pc = "checked" =>
                    req'[meet'[y].by].pc = "checked" /\ meet'[y].num = req'[meet'[y].by].next - 1
    <3>1. ASSUME (Open(y))'
          PROVE  Listing(meet[y].by)' /\ meet'[y].class = req'[meet'[y].by].class
      <4>1. Open(y) /\ meet'[y] = meet[y]  BY <2>2, <3>1
      <4>2. Listing(meet[y].by) /\ meet[y].class = req[meet[y].by].class  BY <4>1 DEF IInv, Requesting
      <4> QED  BY <1>0, <4>1, <4>2 DEF Listing
    <3>2. ASSUME meet'[y].pc = "checked"
          PROVE  req'[meet'[y].by].pc = "checked" /\ meet'[y].num = req'[meet'[y].by].next - 1
      <4>1. meet'[y] = meet[y]  BY <1>16, <3>2
      <4> QED  BY <1>0, <3>2, <4>1 DEF IInv, Requesting
    <3> QED  BY <3>1, <3>2
  <2>4. \A y, z \in Rows("checked")' : meet'[y].by = meet'[z].by => y = z
    BY <1>17 DEF IInv, Requesting
  <2>5. ASSUME NEW r \in Creators
        PROVE  /\ Listing(r) \/ req[r].pc = "copying" =>
                    req[r].class \in Classes /\ period'[req[r].class] # NoPeriod
               /\ req[r].pc = "copying" => req[r].from \in Classes
               /\ Listing(r) =>
                    /\ req[r].next > 0 /\ req[r].period \in Periods
                    /\ req[r].class \in moved' \/ req[r].period = period'[req[r].class]
    BY <1>0 DEF IInv, Requesting
  <2> QED  BY <1>0, <2>1, <2>3, <2>4, <2>5 DEF Requesting
<1>19. \A y \in Rows("kept")' : y \in Rows("kept") /\ y \in Meetings /\ y \notin D
  BY <1>9, <1>13 DEF Rows
<1>20. /\ Kept(c)' = stay
       /\ \A e \in Classes \ {c} : Kept(e)' = Kept(e) /\ \A y \in Kept(e) : meet'[y] = meet[y]
  <2>1. \A y \in Rows("kept")' : meet'[y].class = meet[y].class  BY <1>13, <1>19
  <2>2. \A y \in Kept(c)' : y \in stay  BY <1>19, <1>c, <2>1 DEF Kept
  <2>3. \A y \in stay : y \in Kept(c)'  BY <1>8, <1>10, <1>c DEF Kept, Rows
  <2>4. ASSUME NEW e \in Classes \ {c}, NEW y \in Kept(e)
        PROVE  meet'[y] = meet[y] /\ y \in Kept(e)'
    <3>1. y \in Meetings \ Kept(c)  BY <2>4 DEF Kept, Rows
    <3> QED  BY <1>11, <2>4, <3>1 DEF Kept, Rows
  <2>5. \A e : \A y \in Kept(e)' : y \in Kept(e)  BY <1>19, <2>1 DEF Kept
  <2> QED  BY <2>2, <2>3, <2>4, <2>5
<1>21. Keys'
  <2>1. ASSUME NEW y \in (Rows("sent") \cup Rows("kept"))', NEW z \in (Rows("sent") \cup Rows("kept"))',
               y # z, meet'[y].class = meet'[z].class, meet'[y].num = meet'[z].num
        PROVE  FALSE
    <3>1. \A x \in {y, z} : /\ x \in Rows("sent") \cup Rows("kept") /\ x \in Meetings
                            /\ meet'[x].class = meet[x].class
      BY <1>13, <1>17, <1>19, <2>1 DEF Rows
    <3>2. ASSUME NEW x \in {y, z} PROVE x \in stay \/ meet'[x] = meet[x]
      BY <1>8, <1>9, <1>11, <1>12, <2>1, <3>1 DEF Rows
    <3>3. CASE y \in stay /\ z \in stay  BY <1>5, <1>10, <2>1, <3>3
    <3>4. CASE meet'[y] = meet[y] /\ meet'[z] = meet[z]
      BY <2>1, <3>1, <3>4 DEF IInv, Keys, SameKey
    <3>5. ASSUME NEW x \in {y, z}, NEW w \in {y, z}, x # w, x \in stay, w \notin stay PROVE FALSE
      <4>1. meet'[w] = meet[w] /\ meet[w].class = c /\ meet[w].num = A(x)
        BY <1>10, <2>1, <3>2, <3>5
      <4>2. w \in Rows("sent")  
        <5>1. w \in Rows("kept") => w \in Kept(c)  BY <4>1 DEF Kept
        <5>2. w \notin D
          <6>1. meet'[w].pc # "gone"  BY <2>1, <3>5 DEF Rows
          <6> QED  BY <1>9, <6>1
        <5> QED  BY <1>c, <3>1, <3>5, <5>1, <5>2
      <4> QED  BY <1>6, <3>5, <4>1, <4>2
    <3> QED  BY <2>1, <3>2, <3>3, <3>4, <3>5
  <2> QED  BY <2>1 DEF Keys, SameKey
<1>22. Numbering'
  <2>1. \A r : Listing(r)' = Listing(r) /\ Upcoming(r)' = Upcoming(r)  BY <1>0 DEF Listing, Upcoming
  <2>2. ASSUME NEW r PROVE Sent(r)' = Sent(r) /\ \A y \in Sent(r) : meet'[y] = meet[y]
    BY <1>17 DEF Sent
  <2>3. ASSUME NEW e \in Classes \ crossed'
        PROVE  /\ {meet'[m].num : m \in Kept(e)'} = 1..Cardinality(Kept(e)')
               /\ \A r \in Creators : Listing(r) /\ req[r].class = e =>
                    {meet'[m].num : m \in Sent(r)'} = (Cardinality(Kept(e)') + 1)..(Upcoming(r) - 1)
    <3>1. e \in Classes \ crossed  BY <1>3
    <3>2. /\ {meet[m].num : m \in Kept(e)} = 1..Cardinality(Kept(e))
          /\ \A r \in Creators : Listing(r) /\ req[r].class = e =>
               {meet[m].num : m \in Sent(r)} = (Cardinality(Kept(e)) + 1)..(Upcoming(r) - 1)
      BY <3>1 DEF IInv, Numbering
    <3>3. CASE e = c
      <4>1. {A(y) : y \in stay} = 1..Cardinality(stay)  BY <1>5, <3>2, <3>3
      <4>2. {meet'[y].num : y \in stay} = {A(y) : y \in stay}  BY <1>10
      <4>3. \A r \in Creators : ~(Listing(r) /\ req[r].class = c)
        BY <1>3, <2>3, <3>3 DEF Listing, Running
      <4> QED  BY <1>20, <3>3, <4>1, <4>2, <4>3
    <3>4. CASE e # c
      <4>1. Kept(e)' = Kept(e) /\ \A y \in Kept(e) : meet'[y] = meet[y]  BY <1>20, <3>4
      <4>2. {meet'[y].num : y \in Kept(e)} = {meet[y].num : y \in Kept(e)}  BY <4>1
      <4>3. ASSUME NEW r \in Creators
            PROVE  {meet'[m].num : m \in Sent(r)'} = {meet[m].num : m \in Sent(r)}
        BY <2>2
      <4> QED  BY <3>2, <4>1, <4>2, <4>3
    <3> QED  BY <3>3, <3>4
  <2> QED  BY <1>0, <2>1, <2>3 DEF Numbering
<1>23. Comparing'
  <2>1. Live' \subseteq Live  BY <1>13 DEF Live
  <2>2. Running' = Running  BY <1>0 DEF Running
  <2>3. \A r, s \in Running' : r # s => {r, s} \in together'  BY <1>0, <2>2 DEF IInv, Comparing
  <2> QED  BY <1>0, <1>13, <2>1, <2>3, ComparingKept
<1>24. Picking'
  <2>1. ASSUME NEW e \in Deleters, del'[e].pc = "one", ~del'[e].stale
        PROVE  \E m \in Meetings : Shown(e, m)'
    <3>1. del[e] \in DelState /\ del[d] \in DelState  BY <1>8
    <3>2. e # d  BY <1>2, <2>1, <3>1 DEF DelState
    <3>3. del[e].class # c /\ del'[e] = del[e]  BY <1>2, <2>1, <3>1, <3>2 DEF DelState
    <3>4. PICK m \in Meetings : Shown(e, m)  BY <2>1, <3>3 DEF IInv, Picking
    <3>5. meet'[m] = meet[m]
      <4>1. m \notin Kept(c)  BY <3>3, <3>4 DEF Shown, Kept
      <4> QED  BY <1>11, <4>1
    <3>6. Shown(e, m)'  BY <3>3, <3>4, <3>5 DEF Shown
    <3> QED  BY <3>6
  <2> QED  BY <2>1 DEF Picking
<1> QED  BY <1>14, <1>15, <1>18, <1>21, <1>22, <1>23, <1>24 DEF IInv

LEMMA Unchanged == IInv /\ UNCHANGED vars => IInv'
<1> SUFFICES ASSUME IInv, UNCHANGED vars PROVE IInv'  OBVIOUS
<1>1. UNCHANGED <<period, meet, req, del, moves, seen, together, crossed, moved>>  BY DEF vars, history
<1>2. Shape' /\ MadeRight' /\ Requesting' /\ Keys' /\ Picking'
  BY <1>1 DEF IInv, Shape, MadeRight, Made, Requesting, Listing, Open, Rows, Keys, SameKey, Picking, Shown
<1>3. Numbering'  BY <1>1 DEF IInv, Numbering, Kept, Rows, Listing, Sent, Upcoming
<1>4. Comparing'  BY <1>1 DEF IInv, Comparing, Running, Live, Explained
<1> QED  BY <1>2, <1>3, <1>4 DEF IInv

------------------------------------------------------------------------------
(* The theorems *)

LEMMA NextIInv == IInv /\ [Next]_vars => IInv'
<1> SUFFICES ASSUME IInv, [Next]_vars PROVE IInv'  OBVIOUS
<1>1. ASSUME NEW r \in Creators, NEW c \in Classes, NEW slots \in SlotLists, CreateSchedule(r, c, slots)
      PROVE  IInv'
  BY <1>1, CreateStep
<1>2. ASSUME NEW r \in Creators, NEW c \in Classes, NEW e \in Classes, NEW p \in Periods,
             DuplicateClass(r, c, e, p)
      PROVE  IInv'
  BY <1>2, DuplicateStep
<1>3. ASSUME NEW r \in Creators, CopyMeetings(r) PROVE IInv'  BY <1>3, CopyStep
<1>4. ASSUME NEW r \in Creators, Check(r) PROVE IInv'  BY <1>4, CheckStep
<1>5. ASSUME NEW r \in Creators, Commit(r) PROVE IInv'
  <2>1. r \in Running /\ req[r].pc = "counted"  BY <1>5 DEF Commit, Running
  <2> QED  BY <1>5, <2>1, EndedStep DEF Commit
<1>6. ASSUME NEW r \in Creators, Abort(r) PROVE IInv'  BY <1>6, EndedStep DEF Abort
<1>7. ASSUME NEW r \in Creators, NEW m \in Meetings, Insert(r, m) PROVE IInv'  BY <1>7, InsertStep
<1>8. ASSUME NEW c \in Classes, NEW p \in Periods, UpdateClass(c, p) PROVE IInv'  BY <1>8, UpdateStep
<1>9. ASSUME NEW d \in Deleters, NEW m \in Meetings, Pick(d, m) PROVE IInv'  BY <1>9, PickStep
<1>10. ASSUME NEW d \in Deleters, NEW c \in Classes, PickAll(d, c) PROVE IInv'  BY <1>10, PickAllStep
<1>11. ASSUME NEW d \in Deleters, Delete(d) PROVE IInv'  BY <1>11, DeleteStep
<1>12. ASSUME NEW d \in Deleters, DeleteAbort(d) PROVE IInv'  BY <1>12, DeleteAbortStep
<1>13. CASE UNCHANGED vars  BY <1>13, Unchanged
<1> QED
  BY <1>1, <1>2, <1>3, <1>4, <1>5, <1>6, <1>7, <1>8, <1>9, <1>10, <1>11, <1>12, <1>13 DEF Next

\* Whatever is created, copied, moved and deleted beside each other, the parts of the
\* invariant hold.
THEOREM Inductive == Spec => []IInv
<1>1. Init => IInv  BY InitIInv
<1>2. IInv /\ [Next]_vars => IInv'  BY NextIInv
<1> QED  BY <1>1, <1>2, PTL DEF Spec

\* Rows, requests and pages keep their shapes, and only rows of classes that exist have numbers.
THEOREM TypeCorrect == Spec => []TypeOK
<1>1. IInv => TypeOK
  <2> SUFFICES ASSUME IInv PROVE TypeOK  OBVIOUS
  <2>1. \A r \in Creators : /\ req[r].pc \in {"idle", "copying", "counted", "checked", "done"}
                            /\ req[r].next \in Nat /\ Len(req[r].todo) <= MaxLength
    BY ShapeFields DEF IInv, Shape
  <2>2. \A d \in Deleters : del[d].pc \in {"idle", "one", "all", "done"} /\ del[d].picked \subseteq Meetings
    BY ShapeFields DEF IInv
  <2>3. \A m \in Meetings : meet[m].pc # "free" => meet[m].num > 0 /\ period[meet[m].class] # NoPeriod
    BY DEF IInv, MadeRight, Made
  <2> QED  BY <2>1, <2>2, <2>3 DEF TypeOK, IInv, Shape, MeetRow
<1> QED  BY <1>1, Inductive, PTL

\* createSchedule's numbers: no two meetings of a class ever share one, and without a deletion
\* beside a creation they are a row from one without a gap.
THEOREM NumbersInARow == Spec => []NumbersAreARow
<1>1. IInv => NumbersAreARow
  <2> SUFFICES ASSUME IInv, NEW c \in Classes
               PROVE  /\ \A m, n \in Kept(c) : SameKey(m, n) => m = n
                      /\ c \notin crossed => {meet[m].num : m \in Kept(c)} = 1..Cardinality(Kept(c))
    BY DEF NumbersAreARow
  <2>1. \A m, n \in Kept(c) : SameKey(m, n) => m = n  BY DEF IInv, Keys, Kept
  <2>2. c \notin crossed => {meet[m].num : m \in Kept(c)} = 1..Cardinality(Kept(c))
    BY DEF IInv, Numbering
  <2> QED  BY <2>1, <2>2
<1> QED  BY <1>1, Inductive, PTL

\* The tutor is booked twice only where the query of createSchedule cannot see it: a new meeting
\* around an old one, two requests at once, a class whose period was updated.
THEOREM EveryDoubleBookingIsExplained == Spec => []DoubleBookingsExplained
<1>1. IInv => DoubleBookingsExplained
  <2>1. Rows("kept") \subseteq Live  BY DEF Rows, Live
  <2> QED  BY <2>1 DEF IInv, Comparing, Explained, DoubleBookingsExplained
<1> QED  BY <1>1, Inductive, PTL

\* deleteSchedule is given a number: it deletes the meeting the page showed under it, unless
\* another deletion of the class has moved the numbers since the page was loaded.
THEOREM DeletesOnlyWhatWasSeen == Spec => DeletesWhatWasSeen
<1> DEFINE Step == \A d \in Deleters : del[d].pc = "one" /\ ~del[d].stale /\ del'[d].pc = "done" =>
                     Rows("gone")' \ Rows("gone") \subseteq del[d].picked
<1>1. IInv /\ [Next]_vars => [Step]_vars
  <2> SUFFICES ASSUME IInv, Next, NEW d \in Deleters,
                      del[d].pc = "one", ~del[d].stale, del'[d].pc = "done",
                      NEW x \in Rows("gone")' \ Rows("gone")
               PROVE  x \in del[d].picked
    BY DEF Step
  <2>1. PICK m \in Meetings : Shown(d, m)  BY DEF IInv, Picking
  <2>2. del' # del  OBVIOUS
  <2>3. ASSUME NEW e \in Deleters, Delete(e) PROVE x \in del[d].picked
    <3>1. e = d
      <4>1. SUFFICES ASSUME e # d PROVE FALSE  OBVIOUS
      <4>2. del'[d] = [del[d] EXCEPT !.stale = TRUE] \/ del'[d] = del[d]  BY <2>3, <4>1 DEF Delete
      <4>3. del[d] \in DelState  BY DEF IInv, Shape
      <4> QED  BY <4>2, <4>3 DEF DelState
    <3>2. x \in Named(d)
      <4>1. x \in Meetings /\ meet'[x].pc = "gone" /\ meet[x].pc # "gone"  BY DEF Rows
      <4>2. meet'[x] = IF x \in Named(d) THEN [meet[x] EXCEPT !.pc = "gone"]
                       ELSE IF x \in Kept(del[d].class)
                         THEN [meet[x] EXCEPT !.num = NumberAfter(meet[x].num, Named(d))] ELSE meet[x]
        BY <2>3, <3>1, <4>1 DEF Delete, Deleted
      <4>3. meet[x] \in MeetRow  BY <4>1 DEF IInv, Shape
      <4> QED  BY <4>1, <4>2, <4>3 DEF MeetRow
    <3>3. /\ x \in Rows("kept") /\ meet[x].class = del[d].class /\ meet[x].num = del[d].num
          /\ m \in Rows("kept") /\ meet[m].class = del[d].class /\ meet[m].num = del[d].num
      BY <2>1, <3>2 DEF Named, Kept, Rows, Shown
    <3>4. x = m  BY <3>3 DEF IInv, Keys, SameKey
    <3> QED  BY <2>1, <3>4 DEF Shown
  <2>4. ASSUME meet' = meet PROVE FALSE  BY <2>4 DEF Rows
  <2>5. \E e \in Deleters : Delete(e) \/ meet' = meet
    <3>1. CASE \E r \in Creators :
                 \/ \E c \in Classes, slots \in SlotLists : CreateSchedule(r, c, slots)
                 \/ \E c, e \in Classes, p \in Periods : DuplicateClass(r, c, e, p)
                 \/ CopyMeetings(r) \/ Check(r) \/ Commit(r) \/ Abort(r)
                 \/ \E n \in Meetings : Insert(r, n)
      BY <2>2, <3>1 DEF CreateSchedule, DuplicateClass, CopyMeetings, Check, Commit, Abort, Insert
    <3>2. CASE \E c \in Classes, p \in Periods : UpdateClass(c, p)  BY <2>2, <3>2 DEF UpdateClass
    <3>3. CASE \E e \in Deleters :
                 \/ \E n \in Meetings : Pick(e, n)
                 \/ \E c \in Classes : PickAll(e, c)
                 \/ Delete(e) \/ DeleteAbort(e)
      BY <3>3 DEF Pick, PickAll, DeleteAbort
    <3> QED  BY <3>1, <3>2, <3>3 DEF Next
  <2> QED  BY <2>3, <2>4, <2>5
<1> HIDE DEF Step
<1>2. Spec => [][Step]_vars  BY <1>1, Inductive, PTL DEF Spec
<1> QED  BY <1>2 DEF DeletesWhatWasSeen, Step

=================================================================================
