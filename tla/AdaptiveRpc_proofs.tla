-------------------------- MODULE AdaptiveRpc_proofs --------------------------
(***************************************************************************)
(* What holds of AdaptiveRpc for any number of calls, retrainings, losses  *)
(* of the consumer and restarts of the service, and that it implements     *)
(* KnowledgeRpc.  A call leaves no trace before it is made; its request is *)
(* in one place; and no answer on its way was computed from parameters     *)
(* older than the call.                                                    *)
(***************************************************************************)
EXTENDS AdaptiveRpc, SequenceTheorems, TLAPS

Reply == [call : Calls, version : 1..MaxVersion]

\* A call not made yet has no request, is not in the consumer's hands and has no answer.
Fresh ==
  \A c \in Calls : caller[c] = "idle" =>
    /\ \A i \in DOMAIN requests : requests[i].call # c
    /\ work.pc # "none" => work.request.call # c
    /\ \A i \in DOMAIN replies : replies[i].call # c

\* The conjuncts of NoCallForgotten, each about the whole queue.
Somewhere ==
  \A c \in Calls :
    caller[c] = "waiting" => Queued(c) \/ Held(c) \/ ReplyComing(c) \/ c \in dropped
OneRequest ==
  /\ \A i, j \in DOMAIN requests : requests[i].call = requests[j].call => i = j
  /\ work.pc # "none" => \A i \in DOMAIN requests : requests[i].call # work.request.call

\* What has been computed for a call is not older than the call, nor newer than the parameters.
NotStale ==
  /\ \A c \in Calls : asked[c] <= version
  /\ work.pc \in {"computed", "replied"} =>
       asked[work.request.call] <= work.version /\ work.version <= version
  /\ \A i \in DOMAIN replies :
       asked[replies[i].call] <= replies[i].version /\ replies[i].version <= version

IInv == TypeOK /\ Fresh /\ Somewhere /\ OneRequest /\ NotStale

------------------------------------------------------------------------------
(* What the queue operations do to the places of a queue *)

LEMMA Appended ==
  ASSUME NEW S, NEW s \in Seq(S), NEW e \in S, NEW t, t = Append(s, e)
  PROVE  /\ t \in Seq(S)
         /\ \A i \in DOMAIN s : i \in DOMAIN t /\ t[i] = s[i]
         /\ \E l \in DOMAIN t : t[l] = e /\ \A i \in DOMAIN t : i = l \/ i \in DOMAIN s
<1>1. Len(s) \in Nat /\ DOMAIN s = 1..Len(s)  BY LenProperties
<1>2. /\ t \in Seq(S) /\ Len(t) = Len(s) + 1 /\ t[Len(s) + 1] = e
      /\ \A i \in 1..Len(s) : t[i] = s[i]
  BY AppendProperties
<1>3. DOMAIN t = 1..Len(s) + 1  BY <1>2, LenProperties
<1>4. Len(s) + 1 \in DOMAIN t /\ \A i \in DOMAIN t : i = Len(s) + 1 \/ i \in DOMAIN s
  BY <1>1, <1>3
<1>5. \A i \in DOMAIN s : i \in DOMAIN t /\ t[i] = s[i]  BY <1>1, <1>2, <1>3
<1> QED  BY <1>2, <1>4, <1>5

LEMMA Taken ==
  ASSUME NEW S, NEW s \in Seq(S), s # <<>>, NEW t, t = Tail(s)
  PROVE  /\ t \in Seq(S) /\ Head(s) \in S /\ Head(s) = s[1] /\ 1 \in DOMAIN s
         /\ \A i \in DOMAIN t : i \in Nat /\ i + 1 \in DOMAIN s /\ i + 1 # 1 /\ t[i] = s[i + 1]
         /\ \A j \in DOMAIN s : j # 1 => j - 1 \in DOMAIN t /\ t[j - 1] = s[j]
<1>1. Len(s) \in Nat /\ DOMAIN s = 1..Len(s)  BY LenProperties
<1>2. /\ t \in Seq(S) /\ Head(s) \in S /\ Len(t) = Len(s) - 1
      /\ \A i \in 1..Len(t) : t[i] = s[i + 1]
  BY HeadTailProperties
<1>3. Len(s) # 0 /\ Head(s) = s[1]  BY EmptySeq
<1>4. DOMAIN t = 1..Len(s) - 1  BY <1>2, LenProperties
<1>5. 1 \in DOMAIN s  BY <1>1, <1>3
<1>6. ASSUME NEW i \in DOMAIN t
      PROVE  i \in Nat /\ i + 1 \in DOMAIN s /\ i + 1 # 1 /\ t[i] = s[i + 1]
  BY <1>1, <1>2, <1>4
<1>7. ASSUME NEW j \in DOMAIN s, j # 1 PROVE j - 1 \in DOMAIN t /\ t[j - 1] = s[j]
  <2>1. j - 1 \in 1..Len(t) /\ j = (j - 1) + 1  BY <1>1, <1>2, <1>7
  <2> QED  BY <1>2, <1>4, <2>1
<1> QED  BY <1>2, <1>3, <1>5, <1>6, <1>7

LEMMA Returned ==
  ASSUME NEW S, NEW s \in Seq(S), NEW e \in S, NEW t, t = <<e>> \o s
  PROVE  /\ t \in Seq(S) /\ 1 \in DOMAIN t /\ t[1] = e
         /\ \A i \in DOMAIN s : i + 1 \in DOMAIN t /\ t[i + 1] = s[i]
         /\ \A j \in DOMAIN t : j \in Nat /\ (j # 1 => j - 1 \in DOMAIN s /\ t[j] = s[j - 1])
<1>1. Len(s) \in Nat /\ DOMAIN s = 1..Len(s)  BY LenProperties
<1> DEFINE h == <<e>>
<1>2. h \in Seq(S) /\ Len(h) = 1 /\ h[1] = e  OBVIOUS
<1>3. /\ t \in Seq(S) /\ Len(t) = 1 + Len(s)
      /\ \A i \in 1..1 + Len(s) : t[i] = IF i <= 1 THEN h[i] ELSE s[i - 1]
  <2> HIDE DEF h
  <2> QED  BY <1>2, ConcatProperties
<1>4. DOMAIN t = 1..1 + Len(s)  BY <1>3, LenProperties
<1>5. 1 \in DOMAIN t /\ t[1] = e
  <2> HIDE DEF h
  <2> QED  BY <1>1, <1>2, <1>3, <1>4
<1>6. ASSUME NEW i \in DOMAIN s PROVE i + 1 \in DOMAIN t /\ t[i + 1] = s[i]
  <2>1. i + 1 \in 1..1 + Len(s) /\ ~(i + 1 <= 1) /\ (i + 1) - 1 = i  BY <1>1
  <2> QED  BY <1>3, <1>4, <2>1
<1>7. ASSUME NEW j \in DOMAIN t, j # 1 PROVE j - 1 \in DOMAIN s /\ t[j] = s[j - 1]
  <2>1. j \in 1..1 + Len(s) /\ ~(j <= 1) /\ j - 1 \in DOMAIN s  BY <1>1, <1>4, <1>7
  <2> QED  BY <1>1, <1>3, <2>1
<1>8. \A j \in DOMAIN t : j \in Nat  BY <1>1, <1>4
<1> QED  BY <1>3, <1>5, <1>6, <1>7, <1>8

------------------------------------------------------------------------------
(* The shapes *)

LEMMA Shapes ==
  ASSUME TypeOK
  PROVE  /\ requests \in Seq(Request) /\ replies \in Seq(Reply)
         /\ \A i \in DOMAIN requests : requests[i] \in Request
         /\ \A i \in DOMAIN replies : replies[i] \in Reply
         /\ work.pc \in {"none", "delivered", "computed", "replied"}
         /\ work.pc # "none" => work.request \in Request
         /\ work.pc \in {"computed", "replied"} => work.version \in 1..MaxVersion
         /\ version \in Nat
<1>1. requests \in Seq(Request) /\ replies \in Seq(Reply)  BY DEF TypeOK, Reply
<1>2. DOMAIN requests = 1..Len(requests) /\ DOMAIN replies = 1..Len(replies)
  BY <1>1, LenProperties
<1>3. /\ \A i \in DOMAIN requests : requests[i] \in Request
      /\ \A i \in DOMAIN replies : replies[i] \in Reply
  BY <1>1, <1>2, ElementOfSeq
<1>4. /\ work.pc \in {"none", "delivered", "computed", "replied"}
      /\ work.pc # "none" => work.request \in Request
      /\ work.pc \in {"computed", "replied"} => work.version \in 1..MaxVersion
  BY DEF TypeOK, Work
<1>5. version \in Nat  BY BoundsAssumption DEF TypeOK
<1> QED  BY <1>1, <1>3, <1>4, <1>5

LEMMA InitIInv == Init => IInv
<1> SUFFICES ASSUME Init PROVE IInv  OBVIOUS
<1> USE BoundsAssumption DEF Init
<1>1. TypeOK
  <2>1. <<>> \in Seq(Request) /\ <<>> \in Seq([call : Calls, version : 1..MaxVersion])
    BY EmptySeq
  <2>2. NoWork \in Work  BY DEF Work, NoWork
  <2> QED  BY <2>1, <2>2 DEF TypeOK
<1>2. DOMAIN requests = {} /\ DOMAIN replies = {} /\ work.pc = "none"  BY DEF NoWork
<1>3. Fresh /\ Somewhere /\ OneRequest  BY <1>2 DEF Fresh, Somewhere, OneRequest
<1>4. NotStale  BY <1>2 DEF NotStale
<1> QED  BY <1>1, <1>3, <1>4 DEF IInv

------------------------------------------------------------------------------
(* The tutor service *)

LEMMA AskStep ==
  ASSUME IInv, NEW c \in Calls, Ask(c)
  PROVE  IInv'
<1> DEFINE m == [call |-> c, replyTo |-> epoch]
<1>0. /\ caller[c] = "idle" /\ caller' = [caller EXCEPT ![c] = "waiting"]
      /\ asked' = [asked EXCEPT ![c] = version]
      /\ UNCHANGED <<version, answer, epoch, declared, replies, worker, work, losses>>
      /\ caller \in [Calls -> {"idle", "waiting", "answered", "gone"}]
      /\ asked \in [Calls -> 0..MaxVersion] /\ version \in 1..MaxVersion
  BY DEF Ask, IInv, TypeOK
<1>1. /\ caller'[c] = "waiting" /\ asked'[c] = version
      /\ \A d \in Calls : d = c \/ (caller'[d] = caller[d] /\ asked'[d] = asked[d])
  BY <1>0
<1>2. /\ requests \in Seq(Request) /\ m \in Request
      /\ \A i \in DOMAIN requests : requests[i].call # c /\ requests[i].call \in Calls
      /\ work.pc # "none" => work.request.call # c /\ work.request.call \in Calls
      /\ \A i \in DOMAIN replies : replies[i].call # c /\ replies[i].call \in Calls
      /\ m.call = c
  BY <1>0, Shapes DEF IInv, TypeOK, Fresh, Request, Reply
<1> HIDE DEF m
<1>3. NotStale'
  <2>1. \A d \in Calls : asked'[d] <= version'  BY <1>0, <1>1 DEF IInv, NotStale
  <2> QED  BY <1>0, <1>1, <1>2, <2>1, Shapes DEF IInv, NotStale
<1>4. caller' \in [Calls -> {"idle", "waiting", "answered", "gone"}]
      /\ asked' \in [Calls -> 0..MaxVersion]
  <2>1. version \in 0..MaxVersion  BY <1>0, BoundsAssumption
  <2> QED  BY <1>0, <2>1
<1>5. CASE declared
  <2>1. requests' = Append(requests, m) /\ dropped' = dropped
    BY <1>5 DEF Ask, SendToQueue, m
  <2>2. /\ requests' \in Seq(Request)
        /\ \A i \in DOMAIN requests : i \in DOMAIN requests' /\ requests'[i] = requests[i]
    BY <1>2, <2>1, Appended
  <2>3. PICK l \in DOMAIN requests' :
          requests'[l] = m /\ \A i \in DOMAIN requests' : i = l \/ i \in DOMAIN requests
    BY <1>2, <2>1, Appended
  <2>4. Fresh'  BY <1>0, <1>1, <1>2, <2>2, <2>3 DEF IInv, Fresh
  <2>5. Somewhere'
    <3>1. Queued(c)'  BY <1>0, <2>3 DEF Queued, m
    <3>2. ASSUME NEW d \in Calls, d # c, caller'[d] = "waiting"
          PROVE  Queued(d)' \/ Held(d)' \/ ReplyComing(d)' \/ d \in dropped'
      BY <1>0, <1>1, <2>1, <2>2, <3>2 DEF IInv, Somewhere, Queued, Held, ReplyComing
    <3> QED  BY <3>1, <3>2 DEF Somewhere
  <2>6. OneRequest'
    <3>1. \A i \in DOMAIN requests' : i = l \/ (i \in DOMAIN requests /\ requests'[i] = requests[i])
      BY <2>2, <2>3
    <3>2. ASSUME NEW i \in DOMAIN requests', NEW j \in DOMAIN requests',
                 requests'[i].call = requests'[j].call
          PROVE  i = j
      <4>1. CASE i = l \/ j = l  BY <1>2, <2>3, <3>1, <3>2, <4>1
      <4>2. CASE i # l /\ j # l  BY <3>1, <3>2, <4>2 DEF IInv, OneRequest
      <4> QED  BY <4>1, <4>2
    <3>3. ASSUME work.pc # "none", NEW i \in DOMAIN requests'
          PROVE  requests'[i].call # work.request.call
      BY <1>2, <2>3, <3>1, <3>3 DEF IInv, OneRequest
    <3> QED  BY <1>0, <3>2, <3>3 DEF OneRequest
  <2>7. TypeOK'  BY <1>0, <1>4, <2>1, <2>2 DEF IInv, TypeOK
  <2> QED  BY <1>3, <2>4, <2>5, <2>6, <2>7 DEF IInv
<1>6. CASE ~declared
  <2>1. requests' = requests /\ dropped' = dropped \cup {c}
    BY <1>6 DEF Ask, SendToQueue
  <2>2. TypeOK'  BY <1>0, <1>4, <2>1 DEF IInv, TypeOK
  <2>3. Fresh' /\ OneRequest'  BY <1>0, <1>1, <2>1 DEF IInv, Fresh, OneRequest
  <2>4. Somewhere'
    BY <1>0, <1>1, <2>1 DEF IInv, Somewhere, Queued, Held, ReplyComing
  <2> QED  BY <1>3, <2>2, <2>3, <2>4 DEF IInv
<1> QED  BY <1>5, <1>6

\* The answer received is for a call in Calls, from parameters not older than the call.
LEMMA Received ==
  ASSUME IInv, replies # <<>>
  PROVE  LET r == Head(replies)
         IN /\ r.call \in Calls /\ r.version \in 1..MaxVersion
            /\ caller[r.call] # "idle" /\ asked[r.call] <= r.version /\ r.version <= version
<1>1. Head(replies) \in Reply /\ 1 \in DOMAIN replies /\ replies[1] = Head(replies)
  BY Shapes, Taken DEF IInv
<1> QED  BY <1>1 DEF IInv, Fresh, NotStale, Reply

LEMMA ReceiveReplyStep ==
  ASSUME IInv, ReceiveReply
  PROVE  IInv'
<1> DEFINE c == Head(replies).call
           v == Head(replies).version
<1>0. /\ replies # <<>> /\ replies' = Tail(replies)
      /\ UNCHANGED <<version, asked, epoch, declared, requests, worker, work, dropped, losses>>
      /\ caller \in [Calls -> {"idle", "waiting", "answered", "gone"}]
      /\ answer \in [Calls -> 0..MaxVersion]
  BY DEF ReceiveReply, IInv, TypeOK
<1>1. c \in Calls /\ v \in 1..MaxVersion /\ caller[c] # "idle"  BY <1>0, Received
<1>2. replies' \in Seq(Reply)  BY <1>0, Shapes, Taken DEF IInv
<1>3. /\ \A i \in DOMAIN replies' : \E j \in DOMAIN replies : replies[j] = replies'[i]
      /\ \A j \in DOMAIN replies :
           replies[j].call = c \/ \E i \in DOMAIN replies' : replies[j] = replies'[i]
  <2>1. replies \in Seq(Reply)  BY Shapes DEF IInv
  <2>2. Head(replies) = replies[1]  BY <1>0, <2>1, Taken
  <2>3. \A i \in DOMAIN replies' : i + 1 \in DOMAIN replies /\ replies'[i] = replies[i + 1]
    BY <1>0, <2>1, Taken
  <2>4. \A j \in DOMAIN replies : j # 1 => j - 1 \in DOMAIN replies' /\ replies'[j - 1] = replies[j]
    BY <1>0, <2>1, Taken
  <2> QED  BY <2>2, <2>3, <2>4
<1>4. IF caller[c] = "waiting"
        THEN caller' = [caller EXCEPT ![c] = "answered"] /\ answer' = [answer EXCEPT ![c] = v]
        ELSE UNCHANGED <<caller, answer>>
  BY DEF ReceiveReply, IsPending
<1> HIDE DEF c, v
<1>5. /\ caller' \in [Calls -> {"idle", "waiting", "answered", "gone"}]
      /\ answer' \in [Calls -> 0..MaxVersion]
      /\ caller'[c] \notin {"idle", "waiting"}
      /\ \A d \in Calls : d = c \/ caller'[d] = caller[d]
  <2>1. v \in 0..MaxVersion  BY <1>1, BoundsAssumption
  <2>2. answer' \in [Calls -> 0..MaxVersion]  BY <1>0, <1>1, <1>4, <2>1
  <2>3. caller' \in [Calls -> {"idle", "waiting", "answered", "gone"}]  BY <1>0, <1>1, <1>4
  <2>4. caller[c] \in {"idle", "waiting", "answered", "gone"}  BY <1>0, <1>1
  <2>5. caller'[c] \notin {"idle", "waiting"}  BY <1>0, <1>1, <1>4, <2>4
  <2>6. \A d \in Calls : d = c \/ caller'[d] = caller[d]  BY <1>0, <1>1, <1>4
  <2> QED  BY <2>2, <2>3, <2>5, <2>6
<1>6. TypeOK'  BY <1>0, <1>2, <1>5 DEF IInv, TypeOK, Reply
<1>7. Fresh'  BY <1>0, <1>3, <1>5 DEF IInv, Fresh
<1>8. Somewhere'
  <2>1. ASSUME NEW d \in Calls, caller'[d] = "waiting"
        PROVE  Queued(d)' \/ Held(d)' \/ ReplyComing(d)' \/ d \in dropped'
    <3>1. d # c /\ caller[d] = "waiting"  BY <1>5, <2>1
    <3>2. Queued(d) \/ Held(d) \/ ReplyComing(d) \/ d \in dropped  BY <3>1 DEF IInv, Somewhere
    <3>3. (Queued(d) => Queued(d)') /\ (Held(d) => Held(d)')  BY <1>0 DEF Queued, Held
    <3>4. ReplyComing(d) => ReplyComing(d)'  BY <1>3, <3>1 DEF ReplyComing
    <3> QED  BY <1>0, <3>2, <3>3, <3>4
  <2> QED  BY <2>1 DEF Somewhere
<1>9. OneRequest' /\ NotStale'  BY <1>0, <1>3 DEF IInv, OneRequest, NotStale
<1> QED  BY <1>6, <1>7, <1>8, <1>9 DEF IInv

LEMMA RestartServiceStep ==
  ASSUME IInv, RestartService
  PROVE  IInv'
<1>0. /\ epoch < MaxRestarts /\ epoch' = epoch + 1 /\ replies' = <<>>
      /\ caller' = [c \in Calls |-> IF caller[c] = "waiting" THEN "gone" ELSE caller[c]]
      /\ UNCHANGED <<version, asked, answer, declared, requests, worker, work, dropped, losses>>
  BY DEF RestartService
<1>1. DOMAIN replies' = {} /\ <<>> \in Seq([call : Calls, version : 1..MaxVersion])
  BY <1>0, EmptySeq
<1>2. \A c \in Calls : caller'[c] # "waiting" /\ (caller'[c] = "idle" => caller[c] = "idle")
  BY <1>0
<1>3. TypeOK'  BY <1>0, <1>1, BoundsAssumption DEF IInv, TypeOK
<1>4. Fresh' /\ Somewhere'  BY <1>0, <1>1, <1>2 DEF IInv, Fresh, Somewhere
<1>5. OneRequest' /\ NotStale'  BY <1>0, <1>1 DEF IInv, OneRequest, NotStale
<1> QED  BY <1>3, <1>4, <1>5 DEF IInv

------------------------------------------------------------------------------
(* The consumer *)

\* A step that keeps the calls, the queues and the work in hand.
LEMMA Elsewhere ==
  ASSUME IInv, TypeOK', UNCHANGED <<caller, asked, epoch, requests, replies, work, dropped>>,
         version' \in Nat, version <= version'
  PROVE  IInv'
<1>1. Fresh' /\ OneRequest'  BY DEF IInv, Fresh, OneRequest
<1>2. Somewhere'  BY DEF IInv, Somewhere, Queued, Held, ReplyComing
<1>3. NotStale'
  <2>1. \A c \in Calls : asked[c] \in Nat  BY BoundsAssumption DEF IInv, TypeOK
  <2>2. version \in Nat /\ (work.pc \in {"computed", "replied"} => work.version \in Nat)
        /\ \A i \in DOMAIN replies : replies[i].version \in Nat
    BY Shapes, BoundsAssumption DEF IInv, Reply
  <2>3. \A c \in Calls : asked[c] <= version'  BY <2>1, <2>2 DEF IInv, NotStale
  <2>4. work.pc \in {"computed", "replied"} => work.version <= version'
    BY <2>2 DEF IInv, NotStale
  <2>5. \A i \in DOMAIN replies : replies[i].version <= version'  BY <2>2 DEF IInv, NotStale
  <2> QED  BY <2>3, <2>4, <2>5 DEF IInv, NotStale
<1> QED  BY <1>1, <1>2, <1>3 DEF IInv

LEMMA DeliverStep ==
  ASSUME IInv, Deliver
  PROVE  IInv'
<1> DEFINE m == Head(requests)
<1>0. /\ work.pc = "none" /\ requests # <<>> /\ requests' = Tail(requests)
      /\ work' = [pc |-> "delivered", request |-> m]
      /\ UNCHANGED <<callVars, epoch, declared, replies, worker, dropped, losses>>
      /\ requests \in Seq(Request)
  BY Shapes DEF Deliver, Holding, IInv
<1>1. /\ requests' \in Seq(Request) /\ m \in Request  BY <1>0, Taken
<1>2. /\ m = requests[1] /\ 1 \in DOMAIN requests
      /\ \A i \in DOMAIN requests' :
           i \in Nat /\ i + 1 \in DOMAIN requests /\ i + 1 # 1 /\ requests'[i] = requests[i + 1]
      /\ \A j \in DOMAIN requests :
           j # 1 => j - 1 \in DOMAIN requests' /\ requests'[j - 1] = requests[j]
  BY <1>0, Taken
<1> HIDE DEF m
<1>3. work'.pc = "delivered" /\ work'.request = m  BY <1>0
<1>4. TypeOK'
  <2>1. work' \in Work  BY <1>0, <1>1 DEF Work
  <2> QED  BY <1>0, <1>1, <2>1 DEF IInv, TypeOK, callVars
<1>5. Fresh'
  <2>1. \A i \in DOMAIN requests' : \E j \in DOMAIN requests : requests[j] = requests'[i]
    BY <1>2
  <2> QED  BY <1>0, <1>2, <1>3, <2>1 DEF IInv, Fresh, callVars
<1>6. Somewhere'
  <2>1. ASSUME NEW c \in Calls, caller'[c] = "waiting"
        PROVE  Queued(c)' \/ Held(c)' \/ ReplyComing(c)' \/ c \in dropped'
    <3>1. Queued(c) \/ ReplyComing(c) \/ c \in dropped
      BY <1>0, <2>1 DEF IInv, Somewhere, Held, callVars
    <3>2. Queued(c) => Queued(c)' \/ Held(c)'
      BY <1>0, <1>2, <1>3 DEF Queued, Held
    <3>3. ReplyComing(c) => ReplyComing(c)'  BY <1>0 DEF ReplyComing
    <3> QED  BY <1>0, <3>1, <3>2, <3>3
  <2> QED  BY <2>1 DEF Somewhere
<1>7. OneRequest'
  <2>1. ASSUME NEW i \in DOMAIN requests', NEW k \in DOMAIN requests',
               requests'[i].call = requests'[k].call
        PROVE  i = k
    <3>1. i + 1 \in DOMAIN requests /\ requests[i + 1] = requests'[i]  BY <1>2
    <3>2. k + 1 \in DOMAIN requests /\ requests[k + 1] = requests'[k]  BY <1>2
    <3>3. i + 1 = k + 1  BY <2>1, <3>1, <3>2 DEF IInv, OneRequest
    <3>4. i \in Nat /\ k \in Nat  BY <1>2
    <3> QED  BY <3>3, <3>4
  <2>2. ASSUME NEW i \in DOMAIN requests' PROVE requests'[i].call # m.call
    BY <1>2 DEF IInv, OneRequest
  <2> QED  BY <1>3, <2>1, <2>2 DEF OneRequest
<1>8. NotStale'  BY <1>0, <1>3 DEF IInv, NotStale, callVars
<1> QED  BY <1>4, <1>5, <1>6, <1>7, <1>8 DEF IInv

LEMMA ComputeStep ==
  ASSUME IInv, Compute
  PROVE  IInv'
<1>0. /\ work.pc = "delivered"
      /\ work' = [pc |-> "computed", request |-> work.request, version |-> version]
      /\ UNCHANGED <<callVars, epoch, declared, requests, replies, worker, dropped, losses>>
      /\ work.request \in Request /\ version \in 1..MaxVersion
  BY Shapes DEF Compute, Holding, ParamsRead, IInv, TypeOK
<1>1. work'.pc = "computed" /\ work'.request = work.request /\ work'.version = version
  BY <1>0
<1>2. TypeOK'
  <2>1. work' \in Work  BY <1>0 DEF Work
  <2> QED  BY <1>0, <2>1 DEF IInv, TypeOK, callVars
<1>3. Fresh' /\ OneRequest'  BY <1>0, <1>1 DEF IInv, Fresh, OneRequest, callVars
<1>4. Somewhere'
  BY <1>0, <1>1 DEF IInv, Somewhere, Queued, Held, ReplyComing, callVars
<1>5. NotStale'
  <2>1. work.request.call \in Calls /\ version <= version  BY <1>0, BoundsAssumption DEF Request
  <2> QED  BY <1>0, <1>1, <2>1 DEF IInv, NotStale, callVars
<1> QED  BY <1>2, <1>3, <1>4, <1>5 DEF IInv

LEMMA PublishStep ==
  ASSUME IInv, Publish
  PROVE  IInv'
<1> DEFINE r == [call |-> work.request.call, version |-> work.version]
<1>0. /\ work.pc = "computed" /\ work' = [work EXCEPT !.pc = "replied"]
      /\ replies' = IF work.request.replyTo # epoch THEN replies ELSE Append(replies, r)
      /\ UNCHANGED <<callVars, epoch, declared, requests, worker, dropped, losses>>
      /\ work.request \in Request /\ work.version \in 1..MaxVersion
      /\ replies \in Seq(Reply)
      /\ work \in [pc : {"computed", "replied"}, request : Request, version : 1..MaxVersion]
  BY Shapes DEF Publish, Holding, IInv, TypeOK, Work
<1>1. work'.pc = "replied" /\ work'.request = work.request /\ work'.version = work.version
      /\ work' \in Work
  BY <1>0 DEF Work
<1>2. /\ r \in Reply /\ r.call = work.request.call /\ r.version = work.version
      /\ work.request.call \in Calls
  BY <1>0 DEF Request, Reply
<1> HIDE DEF r
<1>3. /\ replies' \in Seq(Reply)
      /\ \A i \in DOMAIN replies : i \in DOMAIN replies' /\ replies'[i] = replies[i]
      /\ \A i \in DOMAIN replies' :
           replies'[i] = r \/ (i \in DOMAIN replies /\ replies'[i] = replies[i])
      /\ work.request.replyTo = epoch => \E i \in DOMAIN replies' : replies'[i] = r
  <2>1. CASE work.request.replyTo # epoch  BY <1>0, <2>1
  <2>2. CASE work.request.replyTo = epoch
    <3>1. replies' = Append(replies, r)  BY <1>0, <2>2
    <3>2. /\ replies' \in Seq(Reply)
          /\ \A i \in DOMAIN replies : i \in DOMAIN replies' /\ replies'[i] = replies[i]
      BY <1>0, <1>2, <3>1, Appended
    <3>3. PICK l \in DOMAIN replies' :
            replies'[l] = r /\ \A i \in DOMAIN replies' : i = l \/ i \in DOMAIN replies
      BY <1>0, <1>2, <3>1, Appended
    <3> QED  BY <3>2, <3>3
  <2> QED  BY <2>1, <2>2
<1>4. TypeOK'  BY <1>0, <1>1, <1>3 DEF IInv, TypeOK, callVars, Reply
<1>5. Fresh'  BY <1>0, <1>1, <1>2, <1>3 DEF IInv, Fresh, callVars
<1>6. Somewhere'
  <2>1. ASSUME NEW c \in Calls, caller'[c] = "waiting"
        PROVE  Queued(c)' \/ Held(c)' \/ ReplyComing(c)' \/ c \in dropped'
    <3>1. Queued(c) \/ Held(c) \/ ReplyComing(c) \/ c \in dropped
      BY <1>0, <2>1 DEF IInv, Somewhere, callVars
    <3>2. Queued(c) => Queued(c)'  BY <1>0 DEF Queued
    <3>3. Held(c) => ReplyComing(c)'  BY <1>2, <1>3 DEF Held, ReplyComing
    <3>4. ReplyComing(c) => ReplyComing(c)'  BY <1>3 DEF ReplyComing
    <3> QED  BY <1>0, <3>1, <3>2, <3>3, <3>4
  <2> QED  BY <2>1 DEF Somewhere
<1>7. OneRequest'  BY <1>0, <1>1 DEF IInv, OneRequest
<1>8. NotStale'  BY <1>0, <1>1, <1>2, <1>3 DEF IInv, NotStale, callVars
<1> QED  BY <1>4, <1>5, <1>6, <1>7, <1>8 DEF IInv

LEMMA AckStep ==
  ASSUME IInv, Ack
  PROVE  IInv'
<1>0. /\ work.pc = "replied" /\ work' = NoWork /\ work'.pc = "none"
      /\ UNCHANGED <<callVars, epoch, declared, requests, replies, worker, dropped, losses>>
  BY DEF Ack, Holding, NoWork
<1>1. TypeOK'
  <2>1. work' \in Work  BY <1>0 DEF Work, NoWork
  <2> QED  BY <1>0, <2>1 DEF IInv, TypeOK, callVars
<1>2. Fresh' /\ OneRequest'  BY <1>0 DEF IInv, Fresh, OneRequest, callVars
<1>3. Somewhere'
  BY <1>0 DEF IInv, Somewhere, Queued, Held, ReplyComing, callVars
<1>4. NotStale'  BY <1>0 DEF IInv, NotStale, callVars
<1> QED  BY <1>1, <1>2, <1>3, <1>4 DEF IInv

\* The consumer is lost: what it held goes back to the head of the queue.
LEMMA WorkerFailsStep ==
  ASSUME IInv, WorkerFails
  PROVE  IInv'
<1> DEFINE m == work.request
<1>0. /\ work' = NoWork /\ work'.pc = "none" /\ worker' = "dead"
      /\ losses' \in 0..MaxLosses /\ requests' = Unacked \o requests
      /\ UNCHANGED <<callVars, epoch, declared, replies, dropped>>
      /\ requests \in Seq(Request) /\ NoWork \in Work
  BY Shapes, BoundsAssumption DEF WorkerFails, NoWork, Work, IInv, TypeOK
<1>1. NotStale'  BY <1>0 DEF IInv, NotStale, callVars
<1>2. CASE work.pc = "none"
  <2>1. requests' = requests
    <3>1. requests' = <<>> \o requests  BY <1>0, <1>2 DEF Unacked, Holding
    <3> QED  BY <1>0, <3>1, ConcatEmptySeq
  <2>2. TypeOK'  BY <1>0, <2>1 DEF IInv, TypeOK, callVars
  <2>3. Fresh' /\ OneRequest'  BY <1>0, <2>1 DEF IInv, Fresh, OneRequest, callVars
  <2>4. Somewhere'
    BY <1>0, <1>2, <2>1 DEF IInv, Somewhere, Queued, Held, ReplyComing, callVars
  <2> QED  BY <1>1, <2>2, <2>3, <2>4 DEF IInv
<1>3. CASE work.pc # "none"
  <2>1. requests' = <<m>> \o requests  BY <1>0, <1>3 DEF Unacked, Holding
  <2>2. m \in Request  BY <1>3, Shapes DEF IInv
  <2>3. requests' \in Seq(Request)  BY <1>0, <2>1, <2>2, Returned
  <2>4. /\ 1 \in DOMAIN requests' /\ requests'[1] = m
        /\ \A i \in DOMAIN requests : i + 1 \in DOMAIN requests' /\ requests'[i + 1] = requests[i]
        /\ \A j \in DOMAIN requests' :
             j \in Nat /\ (j # 1 => j - 1 \in DOMAIN requests /\ requests'[j] = requests[j - 1])
    BY <1>0, <2>1, <2>2, Returned
  <2>5. TypeOK'  BY <1>0, <2>3 DEF IInv, TypeOK, callVars
  <2>6. Fresh'  BY <1>0, <1>3, <2>4 DEF IInv, Fresh, callVars
  <2>7. Somewhere'
    <3>1. ASSUME NEW c \in Calls, caller'[c] = "waiting"
          PROVE  Queued(c)' \/ Held(c)' \/ ReplyComing(c)' \/ c \in dropped'
      <4>1. Queued(c) \/ Held(c) \/ ReplyComing(c) \/ c \in dropped
        BY <1>0, <3>1 DEF IInv, Somewhere, callVars
      <4>2. ASSUME Queued(c) PROVE Queued(c)'
        <5>1. PICK i \in DOMAIN requests : requests[i] = [call |-> c, replyTo |-> epoch]
          BY <4>2 DEF Queued
        <5>2. i + 1 \in DOMAIN requests' /\ requests'[i + 1] = [call |-> c, replyTo |-> epoch]
          BY <2>4, <5>1
        <5> QED  BY <1>0, <5>2 DEF Queued
      <4>3. Held(c) => Queued(c)'  BY <1>0, <2>4 DEF Held, Queued
      <4>4. ReplyComing(c) => ReplyComing(c)'  BY <1>0 DEF ReplyComing
      <4> QED  BY <1>0, <4>1, <4>2, <4>3, <4>4
    <3> QED  BY <3>1 DEF Somewhere
  <2>8. OneRequest'
    <3>1. \A i \in DOMAIN requests : requests[i].call # m.call  BY <1>3 DEF IInv, OneRequest
    <3>2. ASSUME NEW i \in DOMAIN requests', NEW j \in DOMAIN requests',
                 requests'[i].call = requests'[j].call
          PROVE  i = j
      <4>1. CASE i = 1 \/ j = 1  BY <2>4, <3>1, <3>2, <4>1
      <4>2. CASE i # 1 /\ j # 1
        <5>1. /\ i - 1 \in DOMAIN requests /\ requests'[i] = requests[i - 1]
              /\ j - 1 \in DOMAIN requests /\ requests'[j] = requests[j - 1]
          BY <2>4, <4>2
        <5>2. i - 1 = j - 1  BY <3>2, <5>1 DEF IInv, OneRequest
        <5> QED  BY <2>4, <5>2
      <4> QED  BY <4>1, <4>2
    <3> QED  BY <1>0, <3>2 DEF OneRequest
  <2> QED  BY <1>1, <2>5, <2>6, <2>7, <2>8 DEF IInv
<1> QED  BY <1>2, <1>3

LEMMA NextIInv ==
  ASSUME IInv, [Next]_vars
  PROVE  IInv'
<1>0. version \in Nat /\ MaxVersion \in Nat  BY Shapes, BoundsAssumption DEF IInv
<1>1. ASSUME NEW c \in Calls, Ask(c) PROVE IInv'  BY <1>1, AskStep
<1>2. CASE ReceiveReply  BY <1>2, ReceiveReplyStep
<1>3. CASE RestartService  BY <1>3, RestartServiceStep
<1>4. CASE Connect
  BY <1>0, <1>4, Elsewhere DEF Connect, IInv, TypeOK, callVars
<1>5. CASE Deliver  BY <1>5, DeliverStep
<1>6. CASE Compute  BY <1>6, ComputeStep
<1>7. CASE Publish  BY <1>7, PublishStep
<1>8. CASE Ack  BY <1>8, AckStep
<1>9. CASE WorkerFails  BY <1>9, WorkerFailsStep
<1>10. CASE RestartWorker
  BY <1>0, <1>10, Elsewhere DEF RestartWorker, IInv, TypeOK, callVars
<1>11. CASE Retrain
  <2>1. version' \in 1..MaxVersion /\ version' \in Nat /\ version <= version'
    BY <1>0, <1>11 DEF Retrain
  <2> QED  BY <1>11, <2>1, Elsewhere DEF Retrain, IInv, TypeOK
<1>12. CASE UNCHANGED vars
  BY <1>0, <1>12, Elsewhere DEF vars, callVars, IInv, TypeOK
<1> QED
  BY <1>1, <1>2, <1>3, <1>4, <1>5, <1>6, <1>7, <1>8, <1>9, <1>10, <1>11, <1>12
     DEF Next, WorkerNext

------------------------------------------------------------------------------
(* The theorems *)

\* Whatever is asked, lost, redelivered and restarted, and in whatever order, the parts of
\* the inductive invariant hold.
THEOREM Inductive == Spec => []IInv
BY InitIInv, NextIInv, PTL DEF Spec

\* The messages in both queues, the consumer's work and the map of pending calls keep the
\* shapes the two programs give them.
THEOREM TypeCorrect == Spec => []TypeOK
<1>1. IInv => TypeOK  BY DEF IInv
<1> QED  BY <1>1, Inductive, PTL

\* The acknowledgement after the answer: while sendAndWait waits, its request or its answer
\* is somewhere, in one place, through every loss of the consumer, unless it was sent
\* before the consumer declared the queue.
THEOREM NothingForgotten == Spec => []NoCallForgotten
<1>1. IInv => NoCallForgotten
  BY DEF IInv, Somewhere, OneRequest, NoCallForgotten, Holding
<1> QED  BY <1>1, Inductive, PTL

\* A step of the two programs and the queues between them is a step of the promise, or one
\* that its caller does not see.
LEMMA StepRefines ==
  ASSUME IInv, [Next]_vars
  PROVE  [Abstract!Next]_(Abstract!vars)
<1> USE DEF Abstract!vars
<1>1. ASSUME NEW c \in Calls, Ask(c) PROVE Abstract!Next
  <2>1. Abstract!Ask(c)  BY <1>1 DEF Ask, Abstract!Ask
  <2> QED  BY <2>1 DEF Abstract!Next
<1>2. CASE ReceiveReply
  <2> DEFINE c == Head(replies).call
             v == Head(replies).version
  <2>1. /\ UNCHANGED <<version, asked>>
        /\ IF caller[c] = "waiting"
             THEN caller' = [caller EXCEPT ![c] = "answered"] /\ answer' = [answer EXCEPT ![c] = v]
             ELSE UNCHANGED <<caller, answer>>
    BY <1>2 DEF ReceiveReply, IsPending
  <2>2. c \in Calls /\ v \in asked[c]..version
    <3>1. /\ c \in Calls /\ v \in 1..MaxVersion
          /\ asked[c] <= v /\ v <= version
      BY <1>2, Received DEF ReceiveReply
    <3>2. asked[c] \in Nat /\ version \in Nat  BY <3>1, Shapes, BoundsAssumption DEF IInv, TypeOK
    <3> QED  BY <3>1, <3>2
  <2> HIDE DEF c, v
  <2>3. CASE caller[c] = "waiting"
    <3>1. Abstract!Answer(c)  BY <2>1, <2>2, <2>3 DEF Abstract!Answer
    <3> QED  BY <2>2, <3>1 DEF Abstract!Next
  <2>4. CASE caller[c] # "waiting"  BY <2>1, <2>4
  <2> QED  BY <2>3, <2>4
<1>3. CASE RestartService
  <2>1. Abstract!Vanish  BY <1>3 DEF RestartService, Abstract!Vanish
  <2> QED  BY <2>1 DEF Abstract!Next
<1>4. CASE WorkerNext
  BY <1>4 DEF WorkerNext, Connect, Deliver, Compute, Publish, Ack, WorkerFails, RestartWorker,
              callVars
<1>5. CASE Retrain
  <2>1. Abstract!Retrain  BY <1>5 DEF Retrain, Abstract!Retrain
  <2> QED  BY <2>1 DEF Abstract!Next
<1>6. CASE UNCHANGED vars  BY <1>6 DEF vars, callVars
<1> QED  BY <1>1, <1>2, <1>3, <1>4, <1>5, <1>6 DEF Next

\* sendAndWait over RabbitMQ, with requests computed twice and answers to a process that is
\* gone, answers each call at most once and from parameters current since the question.
THEOREM RpcKeepsThePromise == Spec => KeepsThePromise
<1>1. Init => Abstract!Init  BY DEF Init, Abstract!Init
<1> QED  BY <1>1, StepRefines, Inductive, PTL DEF Spec, KeepsThePromise, Abstract!Spec

\* What the promise means to the callers of sendAndWait, whatever happens between the two
\* programs: an answer was computed from parameters that were current at some moment since
\* the question, and who was answered, or is gone, is so for good.
Current(c) == caller[c] = "answered" => answer[c] \in asked[c]..version
Final(c) == caller[c] \in {"answered", "gone"} => caller'[c] = caller[c] /\ answer'[c] = answer[c]

LEMMA PromiseMeans ==
  ASSUME TypeOK, \A c \in Calls : Current(c), [Abstract!Next]_(Abstract!vars), NEW c \in Calls
  PROVE  Current(c)' /\ Final(c)
<1>1. /\ caller \in [Calls -> {"idle", "waiting", "answered", "gone"}]
      /\ asked \in [Calls -> 0..MaxVersion] /\ answer \in [Calls -> 0..MaxVersion]
      /\ version \in Nat /\ asked[c] \in Nat /\ answer[c] \in Nat
  BY BoundsAssumption DEF TypeOK
<1>2. caller[c] = "answered" => asked[c] <= answer[c] /\ answer[c] <= version
  BY <1>1 DEF Current
<1>3. CASE Abstract!Retrain
  <2>1. version' = version + 1 /\ UNCHANGED <<caller, asked, answer>>  BY <1>3 DEF Abstract!Retrain
  <2>2. answer[c] <= version => answer[c] <= version + 1  BY <1>1
  <2> QED  BY <1>1, <1>2, <2>1, <2>2 DEF Current, Final
<1>4. CASE Abstract!Vanish
  <2>1. /\ caller' = [d \in Calls |-> IF caller[d] = "waiting" THEN "gone" ELSE caller[d]]
        /\ UNCHANGED <<version, asked, answer>>
    BY <1>4 DEF Abstract!Vanish
  <2> QED  BY <1>1, <1>2, <2>1 DEF Current, Final
<1>5. ASSUME NEW d \in Calls, Abstract!Ask(d) PROVE Current(c)' /\ Final(c)
  <2>1. /\ caller[d] = "idle" /\ caller' = [caller EXCEPT ![d] = "waiting"]
        /\ asked' = [asked EXCEPT ![d] = version] /\ UNCHANGED <<version, answer>>
    BY <1>5 DEF Abstract!Ask
  <2>2. CASE c = d  BY <1>1, <2>1, <2>2 DEF Current, Final
  <2>3. CASE c # d  BY <1>1, <1>2, <2>1, <2>3 DEF Current, Final
  <2> QED  BY <2>2, <2>3
<1>6. ASSUME NEW d \in Calls, Abstract!Answer(d) PROVE Current(c)' /\ Final(c)
  <2>1. PICK v \in asked[d]..version :
          /\ caller[d] = "waiting" /\ answer' = [answer EXCEPT ![d] = v]
          /\ caller' = [caller EXCEPT ![d] = "answered"] /\ UNCHANGED <<version, asked>>
    BY <1>6 DEF Abstract!Answer
  <2>2. CASE c = d  BY <1>1, <2>1, <2>2 DEF Current, Final
  <2>3. CASE c # d  BY <1>1, <1>2, <2>1, <2>3 DEF Current, Final
  <2> QED  BY <2>2, <2>3
<1>7. CASE UNCHANGED Abstract!vars
  BY <1>1, <1>7 DEF Current, Final, Abstract!vars
<1> QED  BY <1>3, <1>4, <1>5, <1>6, <1>7 DEF Abstract!Next

\* Nobody gets an answer computed before the question was asked, although requests are
\* computed again after a failure and answers wait in queues while the model is retrained.
THEOREM AnswersAreCurrent == Spec => [](\A c \in Calls : Current(c))
<1>1. Init => \A c \in Calls : Current(c)  BY DEF Init, Current
<1>2. IInv /\ (\A c \in Calls : Current(c)) /\ [Next]_vars => (\A c \in Calls : Current(c))'
  BY StepRefines, PromiseMeans DEF IInv
<1> QED  BY <1>1, <1>2, Inductive, PTL DEF Spec

\* A second reply to a call, or one that arrives after a restart, changes nothing.
THEOREM AnswersAreFinal == Spec => [][\A c \in Calls : Final(c)]_vars
<1> DEFINE Step == \A c \in Calls : Final(c)
           Now == \A c \in Calls : Current(c)
<1>1. IInv /\ Now /\ [Next]_vars => [Step]_vars
  <2> SUFFICES ASSUME IInv, Now, [Next]_vars PROVE Step  OBVIOUS
  <2>1. [Abstract!Next]_(Abstract!vars)  BY StepRefines
  <2> QED  BY <2>1, PromiseMeans DEF IInv
<1>2. Spec => []Now  BY AnswersAreCurrent
<1> HIDE DEF Step, Now
<1>3. Spec => [][Step]_vars  BY <1>1, <1>2, Inductive, PTL DEF Spec
<1> QED  BY <1>3 DEF Step
================================================================================
