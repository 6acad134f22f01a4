------------------------------ MODULE AdaptiveRpc ------------------------------
(***************************************************************************)
(* The call of the tutor service to the adaptive learning service over     *)
(* RabbitMQ (rabbitmq.service.ts and worker/consumer.py).  A request goes  *)
(* to a durable queue; the consumer takes one at a time (prefetch 1),      *)
(* reads the parameters, publishes the answer to the reply queue of the    *)
(* process that asked, then acknowledges.  A request not acknowledged goes *)
(* back to the head of the queue when the consumer's connection is lost,   *)
(* so it may be answered twice; the map of pending calls keeps one answer. *)
(***************************************************************************)
EXTENDS Naturals, Sequences

CONSTANTS
  Calls,       \* correlation identifiers, each used once
  MaxVersion,  \* bound on the retrainings
  MaxLosses,   \* bound on the failures that stop the consumer
  MaxRestarts  \* bound on the restarts of the tutor service

ASSUME BoundsAssumption ==
  /\ MaxVersion \in Nat \ {0} /\ MaxLosses \in Nat /\ MaxRestarts \in Nat

VARIABLES
  version, caller, asked, answer, \* as in KnowledgeRpc
  epoch,     \* the incarnation of the tutor service; each has its own reply queue
  declared,  \* whether the request queue exists
  requests,  \* the request queue
  replies,   \* the reply queue of the current incarnation
  worker,    \* the consumer thread: connecting, ready, or dead
  work,      \* the request it holds unacknowledged, and how far it has come
  dropped,   \* calls sent before the queue existed
  losses     \* failures that stopped the consumer

callVars == <<version, caller, asked, answer>>
vars == <<callVars, epoch, declared, requests, replies, worker, work, dropped, losses>>

NoWork == [pc |-> "none"]
Holding(pc) == work.pc = pc

Init ==
  /\ version = 1
  /\ caller = [c \in Calls |-> "idle"]
  /\ asked = [c \in Calls |-> 0]
  /\ answer = [c \in Calls |-> 0]
  /\ epoch = 0
  /\ declared \in BOOLEAN
  /\ requests = <<>> /\ replies = <<>>
  /\ worker = "connecting"
  /\ work = NoWork
  /\ dropped = {}
  /\ losses = 0

------------------------------------------------------------------------------
(* The tutor service *)

\* The default exchange drops a message for a queue that does not exist and tells no one.
SendToQueue(c) ==
  IF declared
    THEN /\ requests' = Append(requests, [call |-> c, replyTo |-> epoch])
         /\ UNCHANGED dropped
    ELSE /\ dropped' = dropped \cup {c}
         /\ UNCHANGED requests

Ask(c) ==
  /\ caller[c] = "idle"
  /\ caller' = [caller EXCEPT ![c] = "waiting"]
  /\ asked' = [asked EXCEPT ![c] = version]
  /\ SendToQueue(c)
  /\ UNCHANGED <<version, answer, epoch, declared, replies, worker, work, losses>>

IsPending(c) == caller[c] = "waiting"

ReceiveReply ==
  LET c == Head(replies).call
  IN /\ replies # <<>>
     /\ replies' = Tail(replies)
     /\ IF IsPending(c)
          THEN /\ caller' = [caller EXCEPT ![c] = "answered"]
               /\ answer' = [answer EXCEPT ![c] = Head(replies).version]
          ELSE UNCHANGED <<caller, answer>>
     /\ UNCHANGED <<version, asked, epoch, declared, requests, worker, work, dropped, losses>>

\* The pending map and the exclusive reply queue vanish with the process.
RestartService ==
  /\ epoch < MaxRestarts
  /\ epoch' = epoch + 1
  /\ caller' = [c \in Calls |-> IF caller[c] = "waiting" THEN "gone" ELSE caller[c]]
  /\ replies' = <<>>
  /\ UNCHANGED <<version, asked, answer, declared, requests, worker, work, dropped, losses>>

------------------------------------------------------------------------------
(* The consumer *)

Connect ==
  /\ worker = "connecting"
  /\ worker' = "ready" /\ declared' = TRUE
  /\ UNCHANGED <<callVars, epoch, requests, replies, work, dropped, losses>>

Deliver ==
  /\ worker = "ready" /\ Holding("none") /\ requests # <<>>
  /\ work' = [pc |-> "delivered", request |-> Head(requests)]
  /\ requests' = Tail(requests)
  /\ UNCHANGED <<callVars, epoch, declared, replies, worker, dropped, losses>>

ParamsRead_AtStart == 1
ParamsRead_Missing == 0

ParamsRead == version

Compute ==
  /\ Holding("delivered")
  /\ work' = [pc |-> "computed", request |-> work.request, version |-> ParamsRead]
  /\ UNCHANGED <<callVars, epoch, declared, requests, replies, worker, dropped, losses>>

Publish ==
  /\ Holding("computed")
  /\ work' = [work EXCEPT !.pc = "replied"]
  /\ replies' = IF work.request.replyTo # epoch THEN replies
                ELSE Append(replies, [call |-> work.request.call, version |-> work.version])
  /\ UNCHANGED <<callVars, epoch, declared, requests, worker, dropped, losses>>

Ack ==
  /\ Holding("replied")
  /\ work' = NoWork
  /\ UNCHANGED <<callVars, epoch, declared, requests, replies, worker, dropped, losses>>

Unacked_AutoAck == <<>>

Unacked == IF Holding("none") THEN <<>> ELSE <<work.request>>

\* RabbitMQ or the database fails.  Both handlers end in time.sleep, but `time' is the
\* function imported from the module time: the AttributeError ends the thread.
WorkerFails ==
  /\ worker # "dead" /\ losses < MaxLosses
  /\ losses' = losses + 1
  /\ worker' = "dead"
  /\ requests' = Unacked \o requests
  /\ work' = NoWork
  /\ UNCHANGED <<callVars, epoch, declared, replies, dropped>>

\* Somebody restarts the adaptive service; the process itself has not ended.
RestartWorker ==
  /\ worker = "dead"
  /\ worker' = "connecting"
  /\ UNCHANGED <<callVars, epoch, declared, requests, replies, work, dropped, losses>>

\* The Celery task writes new parameters.
Retrain ==
  /\ version < MaxVersion
  /\ version' = version + 1
  /\ UNCHANGED <<caller, asked, answer, epoch, declared, requests, replies, worker, work,
                 dropped, losses>>

WorkerNext == Connect \/ Deliver \/ Compute \/ Publish \/ Ack \/ WorkerFails \/ RestartWorker

Next == (\E c \in Calls : Ask(c)) \/ ReceiveReply \/ RestartService \/ WorkerNext \/ Retrain

Spec == Init /\ [][Next]_vars

\* The broker delivers, and both programs handle what they are delivered.  Nothing obliges
\* anybody to restart the consumer.
Fairness ==
  /\ WF_vars(ReceiveReply) /\ WF_vars(Connect) /\ WF_vars(Deliver)
  /\ WF_vars(Compute) /\ WF_vars(Publish) /\ WF_vars(Ack)

FairSpec == Spec /\ Fairness

------------------------------------------------------------------------------
(* Properties *)

Request == [call : Calls, replyTo : 0..MaxRestarts]
Work == [pc : {"none"}] \cup [pc : {"delivered"}, request : Request]
        \cup [pc : {"computed", "replied"}, request : Request, version : 1..MaxVersion]

\* The variables keep the shapes of the messages and maps of rabbitmq.service.ts and
\* consumer.py.
TypeOK ==
  /\ version \in 1..MaxVersion
  /\ caller \in [Calls -> {"idle", "waiting", "answered", "gone"}]
  /\ asked \in [Calls -> 0..MaxVersion] /\ answer \in [Calls -> 0..MaxVersion]
  /\ epoch \in 0..MaxRestarts /\ declared \in BOOLEAN
  /\ requests \in Seq(Request) /\ replies \in Seq([call : Calls, version : 1..MaxVersion])
  /\ worker \in {"connecting", "ready", "dead"}
  /\ work \in Work
  /\ dropped \subseteq Calls
  /\ losses \in 0..MaxLosses

Queued(c) == \E i \in DOMAIN requests : requests[i] = [call |-> c, replyTo |-> epoch]
Held(c) == work.pc \in {"delivered", "computed"} /\ work.request = [call |-> c, replyTo |-> epoch]
ReplyComing(c) == \E i \in DOMAIN replies : replies[i].call = c

\* A call that waits is still somewhere: its request queued or in the consumer's hands, or
\* its answer in the reply queue, through every loss and restart of the consumer; only a
\* call made before the consumer first declared the queue waits for nothing.  And it is in
\* one place: redelivery repeats a computation, it never runs two of them at once.
NoCallForgotten ==
  \A c \in Calls :
    LET places == {i \in DOMAIN requests : requests[i].call = c}
    IN /\ caller[c] = "waiting" => Queued(c) \/ Held(c) \/ ReplyComing(c) \/ c \in dropped
       /\ \A i, j \in places : i = j
       /\ ~Holding("none") => (work.request.call = c => places = {})

\* sendAndWait over RabbitMQ keeps the promise of KnowledgeRpc: the abstract caller sees
\* neither the queues nor the consumer.
Abstract == INSTANCE KnowledgeRpc
              WITH Calls <- Calls, version <- version, caller <- caller,
                   asked <- asked, answer <- answer
KeepsThePromise == Abstract!Spec

\* sendAndWait has no timeout, so a call can only wait for ever if the consumer's thread
\* has died or the queue did not exist yet when the call was sent.
WaitingEnds ==
  \A c \in Calls :
    (caller[c] = "waiting" /\ c \notin dropped) ~> (caller[c] # "waiting" \/ worker = "dead")
==============================================================================
