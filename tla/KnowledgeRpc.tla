----------------------------- MODULE KnowledgeRpc -----------------------------
(***************************************************************************)
(* What RabbitMQService.sendAndWait promises the adaptive exam: a call is  *)
(* answered at most once, with the knowledge computed from parameters that *)
(* were current at some moment between the question and the answer; it may *)
(* also end without an answer, when the service that asked has gone.       *)
(***************************************************************************)
EXTENDS Naturals

CONSTANT Calls

VARIABLES
  version,  \* of the student's BKT parameters (model_metadata)
  caller,   \* per call: idle, waiting, answered or gone
  asked,    \* the version when the call was made
  answer    \* the version the answer was computed from

vars == <<version, caller, asked, answer>>

Init ==
  /\ version = 1
  /\ caller = [c \in Calls |-> "idle"]
  /\ asked = [c \in Calls |-> 0]
  /\ answer = [c \in Calls |-> 0]

Retrain ==
  /\ version' = version + 1
  /\ UNCHANGED <<caller, asked, answer>>

Ask(c) ==
  /\ caller[c] = "idle"
  /\ caller' = [caller EXCEPT ![c] = "waiting"]
  /\ asked' = [asked EXCEPT ![c] = version]
  /\ UNCHANGED <<version, answer>>

Answer(c) ==
  /\ caller[c] = "waiting"
  /\ \E v \in asked[c]..version : answer' = [answer EXCEPT ![c] = v]
  /\ caller' = [caller EXCEPT ![c] = "answered"]
  /\ UNCHANGED <<version, asked>>

Vanish ==
  /\ caller' = [c \in Calls |-> IF caller[c] = "waiting" THEN "gone" ELSE caller[c]]
  /\ UNCHANGED <<version, asked, answer>>

Next == Retrain \/ Vanish \/ \E c \in Calls : Ask(c) \/ Answer(c)

Spec == Init /\ [][Next]_vars
==============================================================================
