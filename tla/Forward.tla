------------------------------- MODULE Forward -------------------------------
(***************************************************************************)
(* The forwarding of queued records to the web server: the two lists       *)
(* jsnmplist and jlist of KeepAlive.cpp, the threads that push on them     *)
(* and ConsumerTask, which takes from both in turn and sends each record   *)
(* as a request on a ZMQ_REQ socket.                                       *)
(*                                                                         *)
(* A record is known by the number of its push.  Each list has a mutex.    *)
(* The producers hold it while they append; ConsumerTask holds it to look  *)
(* at the front and again to pop it, but not to ask for the size, nor      *)
(* between the look and the pop.                                           *)
(***************************************************************************)
EXTENDS Integers, Sequences, FiniteSets

CONSTANTS
  MaxPushed,  \* bound: pushes per list
  MaxErrors,  \* bound: failed send and recv calls
  MaxLost,    \* bound: requests the web server takes and never answers
  NoThread,   \* no producer holds the mutex
  NoMessage   \* nothing was sent yet

Queues    == {"jsnmplist", "jlist"}
Producers == {"RecvUdp", "RecvSnmp", "Alive"}

ASSUME ForwardAssumption ==
  /\ MaxPushed \in Nat /\ MaxErrors \in Nat /\ MaxLost \in Nat
  /\ NoThread \notin Producers

\* The lists a thread pushes on: RecvUdp its packets and the nodes that come
\* back, the SNMP callback its traps, the SIGALRM handler the nodes and the
\* SNMP platforms that fall silent.
Feeds == {<<"RecvUdp", "jlist">>, <<"RecvSnmp", "jsnmplist">>,
          <<"Alive", "jlist">>, <<"Alive", "jsnmplist">>}

Message == [queue : Queues, num : Nat \ {0}]
Request == [socket : Nat, queue : Queues, num : Nat \ {0}]

VARIABLES
  queue,    \* the lists
  pushed,   \* per list, the number of pushes
  holder,   \* per list, the producer that holds its mutex
  pc,       \* the point ConsumerTask has reached
  turn,     \* the list it serves
  it,       \* the front it looked at
  socket,   \* the number of the socket it uses
  wire,     \* the requests on their way to the web server
  answered, \* the reply to the request of the current socket is there
  heard,    \* the records the web server took, in order
  lost,     \* the requests the web server will not answer
  errors,   \* the number of failed calls
  sent,     \* history: per list, the number of requests sent
  last,     \* history: the record sent most recently
  ahead     \* history: per list, requests from the other since its front waits

listVars == <<queue, pushed, holder>>
linkVars == <<socket, wire, answered, heard, lost, errors>>
vars == <<queue, pushed, holder, pc, turn, it, socket, wire, answered, heard,
          lost, errors, sent, last, ahead>>

Init ==
  /\ queue = [q \in Queues |-> << >>]
  /\ pushed = [q \in Queues |-> 0]
  /\ holder = [q \in Queues |-> NoThread]
  /\ pc = "connect" /\ turn = "jsnmplist" /\ it = 0
  /\ socket = 0 /\ wire = {} /\ answered = FALSE
  /\ heard = << >> /\ lost = {} /\ errors = 0
  /\ sent = [q \in Queues |-> 0]
  /\ last = NoMessage
  /\ ahead = [q \in Queues |-> 0]

-----------------------------------------------------------------------------
(* The producers: add_json_str and add_snmp_json_str                       *)

Holds(p) == \E q \in Queues : holder[q] = p

\* Faulty: the record is put in front of those that wait.
InsertInFront(p, q) ==
  /\ <<p, q>> \in Feeds /\ ~Holds(p)
  /\ holder[q] = NoThread
  /\ pushed[q] < MaxPushed
  /\ holder' = [holder EXCEPT ![q] = p]
  /\ queue' = [queue EXCEPT ![q] = <<pushed[q] + 1>> \o @]
  /\ pushed' = [pushed EXCEPT ![q] = @ + 1]
  /\ UNCHANGED <<pc, turn, it, sent, last, ahead>>
  /\ UNCHANGED linkVars

\* The mutex is taken and the record appended ...
Insert(p, q) ==
  /\ <<p, q>> \in Feeds /\ ~Holds(p)
  /\ holder[q] = NoThread
  /\ pushed[q] < MaxPushed
  /\ holder' = [holder EXCEPT ![q] = p]
  /\ queue' = [queue EXCEPT ![q] = Append(@, pushed[q] + 1)]
  /\ pushed' = [pushed EXCEPT ![q] = @ + 1]
  /\ UNCHANGED <<pc, turn, it, sent, last, ahead>>
  /\ UNCHANGED linkVars

\* ... and the mutex released.
Release(p, q) ==
  /\ holder[q] = p
  /\ holder' = [holder EXCEPT ![q] = NoThread]
  /\ UNCHANGED <<queue, pushed, pc, turn, it, sent, last, ahead>>
  /\ UNCHANGED linkVars

-----------------------------------------------------------------------------
(* ConsumerTask                                                            *)

\* At TODO: a new context and socket, and the loop starts with jsnmplist.
Connect ==
  /\ pc = "connect"
  /\ socket' = socket + 1
  /\ answered' = FALSE
  /\ turn' = "jsnmplist"
  /\ pc' = "size"
  /\ UNCHANGED <<it, wire, heard, lost, errors, sent, last, ahead>>
  /\ UNCHANGED listVars

\* Faulty: a continue after the reply, so that jsnmplist is drained first.
OtherDrains(q) == "jsnmplist"

\* The list whose turn comes after q, answered or empty.
Other(q) == IF q = "jsnmplist" THEN "jlist" ELSE "jsnmplist"

\* Faulty: the last record of a list is not seen.
SizesKeepOne(q) == {Len(queue[q]) - 1}

\* What size() may return: it is called without the mutex, so while a producer
\* is appending it may still miss the new record.
Sizes(q) ==
  IF holder[q] = NoThread THEN {Len(queue[q])}
                          ELSE {Len(queue[q]) - 1, Len(queue[q])}

Size ==
  /\ pc = "size"
  /\ \E n \in Sizes(turn) :
       \/ n > 0  /\ pc' = "peek" /\ UNCHANGED turn
       \/ n <= 0 /\ turn' = Other(turn) /\ UNCHANGED pc
  /\ UNCHANGED <<it, sent, last, ahead>>
  /\ UNCHANGED listVars
  /\ UNCHANGED linkVars

\* begin() under the mutex; the record is read and copied after its release.
Peek ==
  /\ pc = "peek"
  /\ holder[turn] = NoThread
  /\ it' = Head(queue[turn])
  /\ pc' = "send"
  /\ UNCHANGED <<turn, sent, last, ahead>>
  /\ UNCHANGED listVars
  /\ UNCHANGED linkVars

\* A record of q that waits where size() is sure to see it.
Waits(q) == IF holder[q] = NoThread THEN Len(queue[q]) > 0 ELSE Len(queue[q]) > 1

Send ==
  /\ pc = "send"
  /\ wire' = wire \cup {[socket |-> socket, queue |-> turn, num |-> it]}
  /\ sent' = [sent EXCEPT ![turn] = @ + 1]
  /\ last' = [queue |-> turn, num |-> it]
  /\ ahead' = [q \in Queues |-> IF q = turn \/ ~Waits(q) THEN 0 ELSE ahead[q] + 1]
  /\ pc' = "pop"
  /\ UNCHANGED <<turn, it, socket, answered, heard, lost, errors>>
  /\ UNCHANGED listVars

\* Faulty: the record is taken off the list although it was not sent.
SendFailsPops ==
  /\ pc = "send"
  /\ errors < MaxErrors
  /\ errors' = errors + 1
  /\ queue' = [queue EXCEPT ![turn] = Tail(@)]
  /\ pc' = "connect"
  /\ UNCHANGED <<pushed, holder, turn, it, socket, wire, answered, heard, lost>>
  /\ UNCHANGED <<sent, last, ahead>>

\* send < 0: goto TODO, with the record still at the front.
SendFails ==
  /\ pc = "send"
  /\ errors < MaxErrors
  /\ errors' = errors + 1
  /\ pc' = "connect"
  /\ UNCHANGED <<turn, it, socket, wire, answered, heard, lost, sent, last, ahead>>
  /\ UNCHANGED listVars

\* Faulty: a reply that came before the pop is thrown away.
PopDropsReply ==
  /\ pc = "pop"
  /\ holder[turn] = NoThread
  /\ queue' = [queue EXCEPT ![turn] = Tail(@)]
  /\ answered' = FALSE
  /\ pc' = "recv"
  /\ UNCHANGED <<pushed, holder, turn, it, socket, wire, heard, lost, errors>>
  /\ UNCHANGED <<sent, last, ahead>>

Pop ==
  /\ pc = "pop"
  /\ holder[turn] = NoThread
  /\ queue' = [queue EXCEPT ![turn] = Tail(@)]
  /\ pc' = "recv"
  /\ UNCHANGED <<pushed, holder, turn, it, sent, last, ahead>>
  /\ UNCHANGED linkVars

\* Faulty: the next request is sent without the reply to this one.
RecvEarly ==
  /\ pc = "recv"
  /\ answered' = FALSE
  /\ turn' = Other(turn)
  /\ pc' = "size"
  /\ UNCHANGED <<it, socket, wire, heard, lost, errors, sent, last, ahead>>
  /\ UNCHANGED listVars

\* recv blocks, without a timeout, until the reply is there.
Recv ==
  /\ pc = "recv"
  /\ answered
  /\ answered' = FALSE
  /\ turn' = Other(turn)
  /\ pc' = "size"
  /\ UNCHANGED <<it, socket, wire, heard, lost, errors, sent, last, ahead>>
  /\ UNCHANGED listVars

\* recv < 0: goto TODO; the record is gone from the list, answered or not.
RecvFails ==
  /\ pc = "recv"
  /\ errors < MaxErrors
  /\ errors' = errors + 1
  /\ pc' = "connect"
  /\ UNCHANGED <<turn, it, socket, wire, answered, heard, lost, sent, last, ahead>>
  /\ UNCHANGED listVars

ConsumerTask ==
  \/ Connect
  \/ Size
  \/ Peek
  \/ Send
  \/ SendFails
  \/ Pop
  \/ Recv
  \/ RecvFails

-----------------------------------------------------------------------------
(* The web server and the network                                          *)

\* Requests of different sockets arrive in any order.
WebTakes(r) ==
  /\ wire' = wire \ {r}
  /\ heard' = Append(heard, [queue |-> r.queue, num |-> r.num])
  /\ answered' = (answered \/ r.socket = socket)
  /\ UNCHANGED <<pc, turn, it, socket, lost, errors, sent, last, ahead>>
  /\ UNCHANGED listVars

WebLoses(r) ==
  /\ Cardinality(lost) < MaxLost
  /\ wire' = wire \ {r}
  /\ lost' = lost \cup {r}
  /\ UNCHANGED <<pc, turn, it, socket, answered, heard, errors, sent, last, ahead>>
  /\ UNCHANGED listVars

-----------------------------------------------------------------------------
Next ==
  \/ \E p \in Producers, q \in Queues : Insert(p, q)
  \/ \E p \in Producers, q \in Queues : Release(p, q)
  \/ ConsumerTask
  \/ \E r \in wire : WebTakes(r)
  \/ \E r \in wire : WebLoses(r)

Spec == Init /\ [][Next]_vars

\* A mutex is held for a moment, ConsumerTask is scheduled, its calls succeed
\* once the errors stop, and the web server takes what reaches it.  Nothing
\* needs to be pushed.
Fairness ==
  /\ \A p \in Producers, q \in Queues : WF_vars(Release(p, q))
  /\ WF_vars(Connect) /\ WF_vars(Size) /\ WF_vars(Send) /\ WF_vars(Recv)
  /\ WF_vars(Peek) /\ WF_vars(Pop)
  /\ WF_vars(\E r \in wire : WebTakes(r))

FairSpec == Spec /\ Fairness

-----------------------------------------------------------------------------
(* Properties                                                              *)

TypeOK ==
  /\ queue \in [Queues -> Seq(Nat \ {0})]
  /\ pushed \in [Queues -> Nat]
  /\ holder \in [Queues -> Producers \cup {NoThread}]
  /\ pc \in {"connect", "size", "peek", "send", "pop", "recv"}
  /\ turn \in Queues /\ it \in Nat
  /\ socket \in Nat /\ answered \in BOOLEAN /\ errors \in Nat
  /\ wire \subseteq Request /\ lost \subseteq Request
  /\ heard \in Seq(Message)
  /\ sent \in [Queues -> Nat]
  /\ last \in Message \cup {NoMessage}
  /\ ahead \in [Queues -> Nat]

\* The record ConsumerTask pops is the one it sent, although it let go of the
\* mutex in between and the list grew meanwhile.
PopMatchesSend ==
  pc = "pop" => Len(queue[turn]) > 0 /\ Head(queue[turn]) = it

\* Without errors the web server hears the records of one list in the order
\* they were pushed.  (After an error the request of the old socket may arrive
\* behind those of the new one.)
InOrder ==
  errors = 0 => \A i, j \in DOMAIN heard :
    i < j /\ heard[i].queue = heard[j].queue => heard[i].num < heard[j].num

\* A record at the front of jsnmplist lets one record of jlist pass before it
\* is sent.  For jlist it is one more for every failed call, since ConsumerTask
\* then begins with jsnmplist again.
BoundedBypass ==
  /\ ahead["jsnmplist"] <= 1
  /\ ahead["jlist"] <= 1 + errors

\* The requests the web server has not answered.
Unanswered == wire \cup lost

\* ConsumerTask waits for a reply only while its request is on the way or after
\* the web server lost it; in the second case it waits for ever.
WaitsForItsRequest ==
  pc = "recv" /\ ~answered =>
    [socket |-> socket, queue |-> turn, num |-> it] \in Unanswered

\* No socket has two requests the web server has not answered.
Lockstep ==
  \A r, s \in Unanswered : r.socket = s.socket => r = s

(* The parts that make the invariants above inductive.                     *)

\* The records of q that were popped: all that were sent but the one whose pop
\* is still to come.
Popped(q) == IF pc = "pop" /\ turn = q THEN sent[q] - 1 ELSE sent[q]

\* A list holds what was pushed on it and not popped, in order.
QueueInv ==
  \A q \in Queues :
    /\ Len(queue[q]) = pushed[q] - Popped(q)
    /\ \A i \in DOMAIN queue[q] : queue[q][i] = Popped(q) + i

\* From the look at the size to the pop the list is not empty, and from the
\* look at the front to the pop its front stays.
CursorInv ==
  /\ pc \in {"peek", "send", "pop"} => Len(queue[turn]) > 0
  /\ pc \in {"send", "pop"} => it = queue[turn][1]

\* What may have passed a record when ConsumerTask is where it could pass again.
BypassInv ==
  /\ \A q \in Queues : ahead[q] > 0 => Waits(q)
  /\ pc \in {"pop", "recv"} => ahead[turn] = 0
  /\ turn = "jlist" /\ pc \in {"size", "peek", "send"} => ahead["jsnmplist"] = 0
  /\ turn = "jsnmplist" /\ pc \in {"size", "peek", "send"} => ahead["jlist"] <= errors
  /\ pc = "connect" => ahead["jlist"] <= errors
  /\ BoundedBypass

\* The socket in use has an unanswered request only between send and recv, and
\* then it is the one ConsumerTask sent last.
LinkInv ==
  /\ \A r \in Unanswered : r.socket <= socket
  /\ wire \cap lost = {}
  /\ Lockstep
  /\ pc \in {"size", "peek", "send"} =>
       ~answered /\ \A r \in Unanswered : r.socket # socket
  /\ pc \in {"pop", "recv"} =>
       \/ answered /\ \A r \in Unanswered : r.socket # socket
       \/ ~answered /\ [socket |-> socket, queue |-> turn, num |-> it] \in Unanswered

\* Until a call fails there is one socket, and what is on the wire is the record sent
\* last: the web server has heard no later one of its list.
OrderInv ==
  errors = 0 =>
    /\ pc = "connect" => Unanswered = {}
    /\ \A r \in Unanswered : r.socket = socket
    /\ \A i \in DOMAIN heard : heard[i].num <= sent[heard[i].queue]
    /\ \A r \in wire :
         /\ r.num <= sent[r.queue]
         /\ \A i \in DOMAIN heard : heard[i].queue = r.queue => heard[i].num < r.num

\* What holds of ConsumerTask, the lists and the connection at every point: the
\* inductive invariant, with which requests of the REQ socket are out.
FInv ==
  /\ TypeOK
  /\ QueueInv
  /\ CursorInv
  /\ BypassInv
  /\ LinkInv
  /\ OrderInv

\* What the outside sees of the lists: the counts of records pushed and sent, and
\* the record sent last.
Out == INSTANCE Outbox WITH
  Queues <- Queues, NoMessage <- NoMessage,
  pushed <- pushed, sent <- sent, last <- last

\* Both lists together are an outbox: what is sent is the next record in order
\* of pushing, whatever calls fail and whoever pushes meanwhile.
ImplementsOutbox == Out!Spec

\* And as long as the web server answers, no record stays in a list for ever.
DrainsLikeOutbox == [](lost = {}) => Out!Fairness

=============================================================================
