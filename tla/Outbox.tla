------------------------------- MODULE Outbox -------------------------------
(***************************************************************************)
(* What the way from the collecting threads to the web server promises:    *)
(* every message pushed on a queue is handed to the connection exactly     *)
(* once, and the messages of one queue in the order they were pushed.      *)
(* A message is known by its queue and its number among the pushes there.  *)
(***************************************************************************)
EXTENDS Integers

CONSTANTS
  Queues,    \* the queues that are served
  NoMessage  \* nothing was handed over yet

VARIABLES
  pushed,  \* per queue, the number of messages pushed
  sent,    \* per queue, the number of messages handed over
  last     \* the message handed over most recently

vars == <<pushed, sent, last>>

Message(q, n) == [queue |-> q, num |-> n]

Init ==
  /\ pushed = [q \in Queues |-> 0]
  /\ sent = [q \in Queues |-> 0]
  /\ last = NoMessage

Push(q) ==
  /\ pushed' = [pushed EXCEPT ![q] = @ + 1]
  /\ UNCHANGED <<sent, last>>

HandOver(q) ==
  /\ sent[q] < pushed[q]
  /\ sent' = [sent EXCEPT ![q] = @ + 1]
  /\ last' = Message(q, sent[q] + 1)
  /\ UNCHANGED pushed

Next == \E q \in Queues : Push(q) \/ HandOver(q)

Spec == Init /\ [][Next]_vars

\* No queue waits for ever.
Fairness == \A q \in Queues : WF_vars(HandOver(q))

=============================================================================
