---------------------------- MODULE ForwardProofs ----------------------------
(***************************************************************************)
(* Proofs about the forwarding of records, for any number of records,      *)
(* errors and lost requests: each list is forwarded in order and nothing   *)
(* twice (Forward implements Outbox), the pop takes what was sent, one     *)
(* list delays the other by at most one record, and a socket never has two *)
(* requests under way.                                                     *)
(***************************************************************************)
EXTENDS Forward, SequenceTheorems, TLAPS

-----------------------------------------------------------------------------
(* Type correctness.                                                       *)

\* Before anything runs, every variable has its type.
LEMMA InitType == Init => TypeOK
<1> SUFFICES ASSUME Init
             PROVE  TypeOK
  OBVIOUS
<1>1. /\ queue \in [Queues -> Seq(Nat \ {0})]
      /\ pushed \in [Queues -> Nat]
      /\ holder \in [Queues -> Producers \cup {NoThread}]
      /\ sent \in [Queues -> Nat]
      /\ ahead \in [Queues -> Nat]
  BY DEF Init
<1>2. turn \in Queues
  BY DEF Init, Queues
<1>3. /\ wire \subseteq Request /\ lost \subseteq Request
      /\ heard \in Seq(Message)
      /\ last \in Message \cup {NoMessage}
  BY DEF Init
<1>4. answered \in BOOLEAN
  BY DEF Init
<1> QED
  BY <1>1, <1>2, <1>3, <1>4 DEF Init, TypeOK

\* A push keeps the types.
LEMMA InsertType ==
  ASSUME TypeOK, NEW p \in Producers, NEW q \in Queues, Insert(p, q)
  PROVE  TypeOK'
<1>1. /\ queue' = [queue EXCEPT ![q] = Append(@, pushed[q] + 1)]
      /\ pushed' = [pushed EXCEPT ![q] = @ + 1]
      /\ holder' = [holder EXCEPT ![q] = p]
  BY DEF Insert
<1>2. pushed[q] \in Nat /\ pushed[q] + 1 \in Nat \ {0} /\ queue[q] \in Seq(Nat \ {0})
  BY DEF TypeOK
<1>3. Append(queue[q], pushed[q] + 1) \in Seq(Nat \ {0})
  BY <1>2
<1>4. queue' \in [Queues -> Seq(Nat \ {0})]
  BY <1>1, <1>3 DEF TypeOK
<1>5. pushed' \in [Queues -> Nat] /\ holder' \in [Queues -> Producers \cup {NoThread}]
  BY <1>1, <1>2 DEF TypeOK
<1> QED
  BY <1>4, <1>5 DEF Insert, linkVars, TypeOK

\* The entries of the lists are record numbers.
LEMMA FrontType ==
  ASSUME TypeOK, Len(queue[turn]) > 0
  PROVE  /\ queue[turn] \in Seq(Nat \ {0})
         /\ Head(queue[turn]) = queue[turn][1]
         /\ Head(queue[turn]) \in Nat \ {0}
         /\ Tail(queue[turn]) \in Seq(Nat \ {0})
<1>1. queue[turn] \in Seq(Nat \ {0}) /\ queue[turn] # << >>
  BY DEF TypeOK
<1> QED
  BY <1>1

\* A step of ConsumerTask keeps the types.
LEMMA ConsumerType ==
  ASSUME TypeOK, CursorInv, ConsumerTask
  PROVE  TypeOK'
<1>0. "jsnmplist" \in Queues /\ \A q \in Queues : Other(q) \in Queues
  BY DEF Queues, Other
<1>1. CASE Connect
  <2>1. answered' \in BOOLEAN
    BY <1>1 DEF Connect
  <2>2. socket' \in Nat /\ turn' \in Queues /\ pc' = "size"
    BY <1>0, <1>1 DEF Connect, TypeOK
  <2>3. UNCHANGED <<queue, pushed, holder, it, wire, heard, lost, errors, sent, last, ahead>>
    BY <1>1 DEF Connect, listVars
  <2> QED
    BY <2>1, <2>2, <2>3 DEF TypeOK
<1>2. CASE Size
  BY <1>0, <1>2 DEF Size, listVars, linkVars, TypeOK
<1>3. CASE Peek
  <2>1. it' \in Nat /\ pc' = "send"
    BY <1>3, FrontType DEF Peek, CursorInv
  <2> QED
    BY <1>3, <2>1 DEF Peek, listVars, linkVars, TypeOK
<1>4. CASE Send
  <2>1. it \in Nat \ {0} /\ turn \in Queues /\ socket \in Nat
    BY <1>4, FrontType DEF Send, CursorInv, TypeOK
  <2>2. [socket |-> socket, queue |-> turn, num |-> it] \in Request
    BY <2>1 DEF Request
  <2>3. [queue |-> turn, num |-> it] \in Message
    BY <2>1 DEF Message
  <2>4. ahead' \in [Queues -> Nat]
    BY <1>4 DEF Send, TypeOK
  <2>5. sent' \in [Queues -> Nat]
    BY <1>4 DEF Send, TypeOK
  <2>6. wire' \subseteq Request /\ last' \in Message \cup {NoMessage}
    BY <1>4, <2>2, <2>3 DEF Send, TypeOK
  <2> QED
    BY <1>4, <2>4, <2>5, <2>6 DEF Send, listVars, TypeOK
<1>5. CASE SendFails \/ RecvFails
  BY <1>5 DEF SendFails, RecvFails, listVars, TypeOK
<1>7. CASE Recv
  <2>1. answered' \in BOOLEAN
    BY <1>7 DEF Recv
  <2>2. turn' \in Queues /\ pc' = "size"
    BY <1>0, <1>7 DEF Recv, TypeOK
  <2>3. UNCHANGED <<queue, pushed, holder, it, socket, wire, heard, lost, errors,
                    sent, last, ahead>>
    BY <1>7 DEF Recv, listVars
  <2> QED
    BY <2>1, <2>2, <2>3 DEF TypeOK
<1>6. CASE Pop
  <2>1. Tail(queue[turn]) \in Seq(Nat \ {0}) /\ turn \in Queues
    BY <1>6, FrontType DEF Pop, CursorInv, TypeOK
  <2>2. queue' \in [Queues -> Seq(Nat \ {0})]
    BY <1>6, <2>1 DEF Pop, TypeOK
  <2> QED
    BY <1>6, <2>2 DEF Pop, linkVars, TypeOK
<1> QED
  BY <1>1, <1>2, <1>3, <1>4, <1>5, <1>6, <1>7 DEF ConsumerTask

\* A step keeps the types.
LEMMA NextType == TypeOK /\ CursorInv /\ [Next]_vars => TypeOK'
<1> SUFFICES ASSUME TypeOK, CursorInv, [Next]_vars
             PROVE  TypeOK'
  OBVIOUS
<1>1. ASSUME NEW p \in Producers, NEW q \in Queues, Release(p, q)
      PROVE  TypeOK'
  BY <1>1 DEF Release, linkVars, TypeOK
<1>2. ASSUME NEW r \in wire, WebTakes(r)
      PROVE  TypeOK'
  <2>1. [queue |-> r.queue, num |-> r.num] \in Message
    BY DEF TypeOK, Request, Message
  <2>2. heard' \in Seq(Message)
    BY <1>2, <2>1 DEF WebTakes, TypeOK
  <2>3. answered' \in BOOLEAN
    BY <1>2 DEF WebTakes, TypeOK
  <2> QED
    BY <1>2, <2>2, <2>3 DEF WebTakes, listVars, TypeOK
<1>3. ASSUME NEW r \in wire, WebLoses(r)
      PROVE  TypeOK'
  BY <1>3 DEF WebLoses, listVars, TypeOK
<1>4. CASE UNCHANGED vars
  BY <1>4 DEF vars, TypeOK
<1> QED
  BY InsertType, ConsumerType, <1>1, <1>2, <1>3, <1>4 DEF Next

-----------------------------------------------------------------------------
(* The lists and the cursor.                                               *)

\* A push appends to one list and leaves its front alone.
LEMMA InsertQueue ==
  ASSUME TypeOK, NEW p \in Producers, NEW q \in Queues, Insert(p, q)
  PROVE  /\ queue' = [queue EXCEPT ![q] = Append(@, pushed[q] + 1)]
         /\ Len(queue'[q]) = Len(queue[q]) + 1
         /\ DOMAIN queue'[q] = 1 .. Len(queue[q]) + 1
         /\ queue'[q][Len(queue[q]) + 1] = pushed[q] + 1
         /\ \A i \in 1 .. Len(queue[q]) : queue'[q][i] = queue[q][i]
<1>1. queue[q] \in Seq(Nat \ {0}) /\ queue'[q] = Append(queue[q], pushed[q] + 1)
  BY DEF Insert, TypeOK
<1> QED
  BY <1>1 DEF Insert

\* Steps that change neither a list nor a count, and neither reach nor leave
\* the point before the pop, keep QueueInv.
LEMMA SameQueues ==
  ASSUME QueueInv, UNCHANGED <<queue, pushed, sent>>,
         \/ UNCHANGED <<pc, turn>>
         \/ pc # "pop" /\ pc' # "pop"
  PROVE  QueueInv'
<1>1. \A q \in Queues : Popped(q)' = Popped(q)
  BY DEF Popped
<1> QED
  BY <1>1 DEF QueueInv

\* The lists hold what was pushed and not popped, in order.
LEMMA NextQueue == FInv /\ [Next]_vars => QueueInv'
<1> SUFFICES ASSUME TypeOK, QueueInv, CursorInv, [Next]_vars
             PROVE  QueueInv'
  BY DEF FInv
<1>1. ASSUME NEW p \in Producers, NEW q \in Queues, Insert(p, q)
      PROVE  QueueInv'
  <2>1. pushed[q] \in Nat /\ sent[q] \in Nat /\ queue[q] \in Seq(Nat \ {0})
    BY DEF TypeOK
  <2>2. \A k \in Queues : Popped(k)' = Popped(k) /\ Popped(k) \in Int
    BY <1>1 DEF Insert, Popped, TypeOK
  <2>3. Len(queue[q]) = pushed[q] - Popped(q)
        /\ \A i \in 1 .. Len(queue[q]) : queue[q][i] = Popped(q) + i
    BY <2>1 DEF QueueInv
  <2>4. pushed' = [pushed EXCEPT ![q] = @ + 1]
    BY <1>1 DEF Insert
  <2>5. ASSUME NEW k \in Queues
        PROVE  /\ Len(queue'[k]) = pushed'[k] - Popped(k)'
               /\ \A i \in DOMAIN queue'[k] : queue'[k][i] = Popped(k)' + i
    <3>1. CASE k = q
      <4>1. Len(queue'[q]) = pushed'[q] - Popped(q)'
        <5>1. pushed'[q] = pushed[q] + 1
          BY <2>4 DEF TypeOK
        <5>2. Len(queue'[q]) = Len(queue[q]) + 1
          BY <1>1, InsertQueue
        <5>3. Popped(q)' = Popped(q) /\ Popped(q) \in Int
          BY <2>2
        <5> QED
          BY <2>1, <2>3, <5>1, <5>2, <5>3
      <4>2. ASSUME NEW i \in DOMAIN queue'[q]
            PROVE  queue'[q][i] = Popped(q)' + i
        <5>1. Len(queue[q]) \in Nat
          BY <2>1
        <5>2. i \in 1 .. Len(queue[q]) \/ i = Len(queue[q]) + 1
          BY <1>1, <5>1, InsertQueue
        <5>3. CASE i \in 1 .. Len(queue[q])
          BY <1>1, <2>2, <2>3, <5>3, InsertQueue
        <5>4. CASE i = Len(queue[q]) + 1
          BY <1>1, <2>1, <2>2, <2>3, <5>4, InsertQueue
        <5> QED
          BY <5>2, <5>3, <5>4
      <4> QED
        BY <3>1, <4>1, <4>2
    <3>2. CASE k # q
      <4>1. queue'[k] = queue[k] /\ pushed'[k] = pushed[k]
        BY <1>1, <2>4, <3>2, InsertQueue DEF TypeOK
      <4>2. Popped(k)' = Popped(k)
        BY <2>2
      <4> QED
        BY <4>1, <4>2 DEF QueueInv
    <3> QED
      BY <3>1, <3>2
  <2> QED
    BY <2>5 DEF QueueInv
<1>2. CASE Send
  <2>1. \A k \in Queues : Popped(k)' = Popped(k)
    BY <1>2 DEF Send, Popped, TypeOK
  <2> QED
    BY <1>2, <2>1 DEF Send, listVars, QueueInv
<1>3. CASE Pop
  <2>1. /\ pc = "pop" /\ pc' = "recv" /\ turn \in Queues
        /\ queue' = [queue EXCEPT ![turn] = Tail(@)]
        /\ UNCHANGED <<pushed, sent, turn>>
    BY <1>3 DEF Pop, TypeOK
  <2>2. queue[turn] \in Seq(Nat \ {0}) /\ Len(queue[turn]) > 0
    BY <2>1 DEF TypeOK, CursorInv
  <2>3. pushed[turn] \in Nat /\ sent[turn] \in Nat
    BY <2>1 DEF TypeOK
  <2>4. /\ Len(queue[turn]) = pushed[turn] - (sent[turn] - 1)
        /\ \A i \in DOMAIN queue[turn] : queue[turn][i] = sent[turn] - 1 + i
    BY <2>1 DEF QueueInv, Popped
  <2>5. queue'[turn] = Tail(queue[turn])
    BY <2>1 DEF TypeOK
  <2>6. Len(queue'[turn]) = pushed[turn] - sent[turn]
    BY <2>2, <2>3, <2>4, <2>5
  <2>7. \A i \in DOMAIN queue'[turn] : queue'[turn][i] = sent[turn] + i
    <3>1. ASSUME NEW i \in DOMAIN queue'[turn]
          PROVE  queue'[turn][i] = sent[turn] + i
      <4>1. i \in Nat /\ i + 1 \in DOMAIN queue[turn]
        BY <2>2, <2>5
      <4>2. queue'[turn][i] = queue[turn][i + 1]
        BY <2>2, <2>5
      <4>3. queue[turn][i + 1] = sent[turn] - 1 + (i + 1)
        BY <2>4, <4>1
      <4> QED
        BY <2>3, <4>1, <4>2, <4>3
    <3> QED
      BY <3>1
  <2>8. ASSUME NEW k \in Queues
        PROVE  /\ Len(queue'[k]) = pushed'[k] - Popped(k)'
               /\ \A i \in DOMAIN queue'[k] : queue'[k][i] = Popped(k)' + i
    <3>1. Popped(k)' = sent[k]
      BY <2>1 DEF Popped
    <3>2. CASE k = turn
      BY <2>1, <2>6, <2>7, <3>1, <3>2
    <3>3. CASE k # turn
      BY <2>1, <3>1, <3>3 DEF QueueInv, Popped, TypeOK
    <3> QED
      BY <3>2, <3>3
  <2> QED
    BY <2>8 DEF QueueInv
<1>4. CASE Connect \/ Size \/ Peek \/ SendFails \/ Recv \/ RecvFails
  <2>1. UNCHANGED <<queue, pushed, sent>> /\ pc # "pop" /\ pc' # "pop"
    BY <1>4 DEF Connect, Size, Peek, SendFails, Recv, RecvFails, listVars
  <2> QED
    BY <2>1, SameQueues
<1>5. CASE \/ \E p \in Producers, q \in Queues : Release(p, q)
           \/ \E r \in wire : WebTakes(r) \/ WebLoses(r)
           \/ UNCHANGED vars
  <2>1. UNCHANGED <<queue, pushed, sent, pc, turn>>
    BY <1>5 DEF Release, WebTakes, WebLoses, listVars, vars
  <2> QED
    BY <2>1, SameQueues
<1> QED
  BY <1>1, <1>2, <1>3, <1>4, <1>5 DEF Next, ConsumerTask

\* ConsumerTask stays at a front that is there.
LEMMA NextCursor == FInv /\ [Next]_vars => CursorInv'
<1> SUFFICES ASSUME TypeOK, CursorInv, [Next]_vars
             PROVE  CursorInv'
  BY DEF FInv
<1>0. turn \in Queues /\ queue[turn] \in Seq(Nat \ {0}) /\ Len(queue[turn]) \in Nat
  BY DEF TypeOK
<1>1. ASSUME NEW p \in Producers, NEW q \in Queues, Insert(p, q)
      PROVE  CursorInv'
  <2>1. UNCHANGED <<pc, turn, it>>
    BY <1>1 DEF Insert
  <2>2. CASE q = turn
    BY <1>0, <1>1, <2>1, <2>2, InsertQueue DEF CursorInv
  <2>3. CASE q # turn
    BY <1>0, <1>1, <2>1, <2>3, InsertQueue DEF CursorInv, TypeOK
  <2> QED
    BY <2>2, <2>3
<1>2. CASE Size
  <2>1. PICK n \in Sizes(turn) : \/ n > 0 /\ pc' = "peek" /\ UNCHANGED turn
                                 \/ n <= 0 /\ UNCHANGED pc
    BY <1>2 DEF Size
  <2>2. n \in {Len(queue[turn]) - 1, Len(queue[turn])}
    BY <2>1 DEF Sizes
  <2> QED
    BY <1>0, <1>2, <2>1, <2>2 DEF Size, CursorInv, listVars
<1>3. CASE Peek
  BY <1>3, FrontType DEF Peek, CursorInv, listVars
<1>4. CASE Connect \/ Send \/ SendFails \/ Pop \/ Recv \/ RecvFails
  BY <1>4 DEF Connect, Send, SendFails, Pop, Recv, RecvFails, CursorInv, listVars
<1>5. CASE \/ \E p \in Producers, q \in Queues : Release(p, q)
           \/ \E r \in wire : WebTakes(r) \/ WebLoses(r)
           \/ UNCHANGED vars
  <2>1. UNCHANGED <<queue, pc, turn, it>>
    BY <1>5 DEF Release, WebTakes, WebLoses, listVars, vars
  <2> QED
    BY <2>1 DEF CursorInv
<1> QED
  BY <1>1, <1>2, <1>3, <1>4, <1>5 DEF Next, ConsumerTask

\* The front ConsumerTask has looked at is the record after those it sent.
LEMMA SendsNext ==
  ASSUME TypeOK, QueueInv, CursorInv, pc = "send"
  PROVE  sent[turn] < pushed[turn] /\ it = sent[turn] + 1 /\ sent[turn] \in Nat
<1>1. /\ turn \in Queues /\ queue[turn] \in Seq(Nat \ {0})
      /\ sent[turn] \in Nat /\ pushed[turn] \in Nat
  BY DEF TypeOK
<1>2. Len(queue[turn]) > 0 /\ it = queue[turn][1]
  BY DEF CursorInv
<1>3. 1 \in DOMAIN queue[turn]
  BY <1>1, <1>2
<1>4. Len(queue[turn]) = pushed[turn] - sent[turn] /\ queue[turn][1] = sent[turn] + 1
  BY <1>1, <1>3 DEF QueueInv, Popped
<1> QED
  BY <1>1, <1>2, <1>4

-----------------------------------------------------------------------------
(* How long a front waits.                                                 *)

\* The two lists, and what is known of their counts.
LEMMA TwoQueues ==
  ASSUME TypeOK
  PROVE  /\ "jsnmplist" \in Queues /\ "jlist" \in Queues
         /\ turn = "jsnmplist" \/ turn = "jlist"
         /\ ahead["jsnmplist"] \in Nat /\ ahead["jlist"] \in Nat /\ errors \in Nat
         /\ Other("jsnmplist") = "jlist" /\ Other("jlist") = "jsnmplist"
BY DEF TypeOK, Queues, Other

\* Neither list is passed more often than BoundedBypass says.
LEMMA NextBypass == FInv /\ [Next]_vars => BypassInv'
<1> SUFFICES ASSUME TypeOK, BypassInv, [Next]_vars
             PROVE  BypassInv'
  BY DEF FInv
<1>0. /\ "jsnmplist" \in Queues /\ "jlist" \in Queues
      /\ turn = "jsnmplist" \/ turn = "jlist"
      /\ ahead["jsnmplist"] \in Nat /\ ahead["jlist"] \in Nat /\ errors \in Nat
      /\ Other("jsnmplist") = "jlist" /\ Other("jlist") = "jsnmplist"
  BY TwoQueues
<1>1. ASSUME UNCHANGED <<pc, turn, errors, ahead>>,
             \A q \in Queues : Waits(q) => Waits(q)'
      PROVE  BypassInv'
  BY <1>1 DEF BypassInv, BoundedBypass
<1>2. ASSUME NEW p \in Producers, NEW q \in Queues, Insert(p, q)
      PROVE  BypassInv'
  <2>1. Len(queue'[q]) = Len(queue[q]) + 1 /\ Len(queue[q]) \in Nat
    BY <1>2, InsertQueue DEF TypeOK
  <2>2. holder[q] = NoThread /\ holder'[q] # NoThread
    BY <1>2, ForwardAssumption DEF Insert, TypeOK
  <2>3. Waits(q) => Waits(q)'
    BY <2>1, <2>2 DEF Waits
  <2>4. \A k \in Queues : k # q => (Waits(k) => Waits(k)')
    BY <1>2, InsertQueue DEF Insert, Waits, TypeOK
  <2> QED
    BY <1>1, <1>2, <2>3, <2>4 DEF Insert, linkVars
<1>3. ASSUME NEW p \in Producers, NEW q \in Queues, Release(p, q)
      PROVE  BypassInv'
  <2>1. \A k \in Queues : Waits(k) => Waits(k)'
    BY <1>3 DEF Release, Waits, TypeOK
  <2> QED
    BY <1>1, <1>3, <2>1 DEF Release, linkVars
<1>4. CASE Connect
  BY <1>0, <1>4 DEF Connect, listVars, BypassInv, BoundedBypass, Waits
<1>5. CASE Size
  <2>1. PICK n \in Sizes(turn) :
          \/ n > 0  /\ pc' = "peek" /\ UNCHANGED turn
          \/ n <= 0 /\ turn' = Other(turn) /\ UNCHANGED pc
    BY <1>5 DEF Size
  <2>2. UNCHANGED <<queue, holder, errors, ahead>> /\ pc = "size"
    BY <1>5 DEF Size, listVars, linkVars
  <2>3. CASE n > 0 /\ pc' = "peek" /\ UNCHANGED turn
    BY <2>2, <2>3 DEF BypassInv, BoundedBypass, Waits
  <2>4. CASE n <= 0 /\ turn' = Other(turn) /\ UNCHANGED pc
    <3>1. Len(queue[turn]) \in Nat
      BY DEF TypeOK
    <3>2. ~Waits(turn)
      BY <2>1, <2>4, <3>1 DEF Sizes, Waits
    <3>3. ahead[turn] = 0
      BY <1>0, <3>2 DEF BypassInv
    <3> QED
      BY <1>0, <2>2, <2>4, <3>3 DEF BypassInv, BoundedBypass, Waits
  <2> QED
    BY <2>1, <2>3, <2>4
<1>6. CASE Peek
  BY <1>6 DEF Peek, listVars, linkVars, BypassInv, BoundedBypass, Waits
<1>7. CASE Send
  <2>1. /\ pc = "send" /\ pc' = "pop"
        /\ UNCHANGED <<queue, holder, turn, errors>>
        /\ \A q \in Queues :
             ahead'[q] = IF q = turn \/ ~Waits(q) THEN 0 ELSE ahead[q] + 1
    BY <1>7 DEF Send, listVars
  <2>2. \A q \in Queues : ahead'[q] > 0 => Waits(q)'
    BY <2>1 DEF Waits
  <2>3. ahead'[turn] = 0
    BY <1>0, <2>1
  <2>4. BoundedBypass'
    BY <1>0, <2>1 DEF BypassInv, BoundedBypass
  <2> QED
    BY <2>1, <2>2, <2>3, <2>4 DEF BypassInv
<1>8. CASE SendFails
  BY <1>0, <1>8 DEF SendFails, listVars, BypassInv, BoundedBypass, Waits
<1>9. CASE Pop
  <2>1. \A q \in Queues : q # turn => queue'[q] = queue[q]
    BY <1>9 DEF Pop, TypeOK
  <2> QED
    BY <1>0, <1>9, <2>1 DEF Pop, linkVars, BypassInv, BoundedBypass, Waits
<1>10. CASE Recv
  BY <1>0, <1>10 DEF Recv, listVars, BypassInv, BoundedBypass, Waits
<1>11. CASE RecvFails
  BY <1>0, <1>11 DEF RecvFails, listVars, BypassInv, BoundedBypass, Waits
<1>12. CASE (\E r \in wire : WebTakes(r) \/ WebLoses(r)) \/ UNCHANGED vars
  <2>1. UNCHANGED <<queue, holder, pc, turn, errors, ahead>>
    BY <1>12 DEF WebTakes, WebLoses, listVars, vars
  <2> QED
    BY <1>1, <2>1 DEF Waits
<1> QED
  BY <1>2, <1>3, <1>4, <1>5, <1>6, <1>7, <1>8, <1>9, <1>10, <1>11, <1>12
  DEF Next, ConsumerTask

-----------------------------------------------------------------------------
(* The socket.                                                             *)

\* A socket has at most one unanswered request, and recv waits for it.
LEMMA NextLink == FInv /\ [Next]_vars => LinkInv'
<1> SUFFICES ASSUME TypeOK, LinkInv, [Next]_vars
             PROVE  LinkInv'
  BY DEF FInv
<1>0. /\ socket \in Nat /\ answered \in BOOLEAN
      /\ \A r \in Unanswered : r \in Request /\ r.socket \in Nat
  BY DEF TypeOK, Unanswered, Request
<1>1. CASE UNCHANGED <<pc, turn, it, socket, wire, answered, lost>>
  BY <1>1 DEF LinkInv, Lockstep, Unanswered
<1>2. CASE Connect
  <2>1. /\ socket' = socket + 1 /\ answered' = FALSE /\ pc' = "size"
        /\ Unanswered' = Unanswered /\ wire' \cap lost' = {}
    BY <1>2 DEF Connect, Unanswered, LinkInv
  <2>2. \A r \in Unanswered : r.socket <= socket
    BY DEF LinkInv
  <2>3. \A r \in Unanswered : r.socket <= socket' /\ r.socket # socket'
    BY <1>0, <2>1, <2>2
  <2>4. Lockstep'
    BY <2>1 DEF LinkInv, Lockstep
  <2> QED
    BY <2>1, <2>3, <2>4 DEF LinkInv
<1>3. CASE Size \/ Peek
  BY <1>3 DEF Size, Peek, linkVars, LinkInv, Lockstep, Unanswered
<1>4. CASE Send
  <2> DEFINE r0 == [socket |-> socket, queue |-> turn, num |-> it]
  <2>1. /\ pc = "send" /\ pc' = "pop"
        /\ UNCHANGED <<socket, turn, it, answered>>
        /\ Unanswered' = Unanswered \cup {r0}
    BY <1>4 DEF Send, Unanswered
  <2>2. ~answered /\ \A r \in Unanswered : r.socket # socket
    BY <2>1 DEF LinkInv
  <2>3. r0.socket = socket
    OBVIOUS
  <2>4. \A r \in Unanswered : r.socket <= socket
    BY DEF LinkInv
  <2> HIDE DEF r0
  <2>5. \A r \in Unanswered' : r.socket <= socket'
    BY <1>0, <2>1, <2>3, <2>4
  <2>6. Lockstep'
    BY <2>1, <2>2, <2>3 DEF LinkInv, Lockstep
  <2>7. wire' = wire \cup {r0} /\ lost' = lost
    BY <1>4 DEF Send, r0
  <2>8. r0 \notin Unanswered
    BY <2>2, <2>3
  <2>9. wire' \cap lost' = {}
    BY <2>7, <2>8 DEF LinkInv, Unanswered
  <2> QED
    BY <2>1, <2>2, <2>5, <2>6, <2>9 DEF LinkInv, r0
<1>5. CASE SendFails \/ RecvFails
  BY <1>5 DEF SendFails, RecvFails, LinkInv, Lockstep, Unanswered
<1>6. CASE Pop
  BY <1>6 DEF Pop, linkVars, LinkInv, Lockstep, Unanswered
<1>7. CASE Recv
  BY <1>7 DEF Recv, LinkInv, Lockstep, Unanswered
<1>8. ASSUME NEW r \in wire, WebTakes(r)
      PROVE  LinkInv'
  <2>1. /\ UNCHANGED <<pc, turn, it, socket>>
        /\ answered' = (answered \/ r.socket = socket)
        /\ wire' = wire \ {r} /\ lost' = lost
    BY <1>8 DEF WebTakes
  <2>2. r \in Unanswered /\ Unanswered' = Unanswered \ {r} /\ wire' \cap lost' = {}
    BY <2>1 DEF LinkInv, Unanswered
  <2>3. (\A s \in Unanswered' : s.socket <= socket') /\ Lockstep'
    BY <2>1, <2>2 DEF LinkInv, Lockstep
  <2>4. CASE r.socket = socket
    <3>1. answered' /\ \A s \in Unanswered' : s.socket # socket
      BY <2>1, <2>2, <2>4 DEF LinkInv, Lockstep
    <3>2. pc \notin {"size", "peek", "send"}
      BY <2>2, <2>4 DEF LinkInv
    <3> QED
      BY <2>1, <2>2, <2>3, <3>1, <3>2 DEF LinkInv
  <2>5. CASE r.socket # socket
    <3>1. answered' = answered
      BY <1>0, <2>1, <2>5
    <3>2. r # [socket |-> socket, queue |-> turn, num |-> it]
      BY <2>5
    <3> QED
      BY <2>1, <2>2, <2>3, <3>1, <3>2 DEF LinkInv
  <2> QED
    BY <2>4, <2>5
<1>9. ASSUME NEW r \in wire, WebLoses(r)
      PROVE  LinkInv'
  <2>1. UNCHANGED <<pc, turn, it, socket, answered>>
    BY <1>9 DEF WebLoses
  <2>2. Unanswered' = Unanswered /\ wire' \cap lost' = {}
    BY <1>9 DEF WebLoses, Unanswered, LinkInv
  <2> QED
    BY <2>1, <2>2 DEF LinkInv, Lockstep
<1>10. CASE \/ \E p \in Producers, q \in Queues : Insert(p, q) \/ Release(p, q)
            \/ UNCHANGED vars
  BY <1>1, <1>10 DEF Insert, Release, linkVars, vars
<1> QED
  BY <1>2, <1>3, <1>4, <1>5, <1>6, <1>7, <1>8, <1>9, <1>10 DEF Next, ConsumerTask

-----------------------------------------------------------------------------
(* The order of the records.                                               *)

\* Errors are only ever counted.
LEMMA ErrorsGrow ==
  ASSUME TypeOK, [Next]_vars, errors' = 0
  PROVE  errors = 0 /\ ~SendFails /\ ~RecvFails
<1>1. errors \in Nat
  BY DEF TypeOK
<1>2. errors' = errors \/ errors' = errors + 1
  BY DEF Next, ConsumerTask, Insert, Release, Connect, Size, Peek, Send, SendFails, Pop, Recv,
         RecvFails, WebTakes, WebLoses, linkVars, vars
<1> QED
  BY <1>1, <1>2 DEF SendFails, RecvFails

\* A request the web server takes joins what it has heard.
LEMMA Taken ==
  ASSUME TypeOK, NEW r \in wire, WebTakes(r)
  PROVE  /\ DOMAIN heard \subseteq DOMAIN heard' /\ DOMAIN heard' \subseteq Nat
         /\ \A i \in DOMAIN heard : heard'[i] = heard[i]
         /\ \A i \in DOMAIN heard' \ DOMAIN heard :
              heard'[i].queue = r.queue /\ heard'[i].num = r.num
         /\ \A i, j \in DOMAIN heard' : i < j => i \in DOMAIN heard
<1> DEFINE m == [queue |-> r.queue, num |-> r.num]
<1>1. heard \in Seq(Message) /\ heard' = Append(heard, m)
  BY DEF TypeOK, WebTakes
<1>2. m.queue = r.queue /\ m.num = r.num
  OBVIOUS
<1> HIDE DEF m
<1>3. DOMAIN heard = 1 .. Len(heard) /\ DOMAIN heard' = 1 .. Len(heard) + 1 /\ Len(heard) \in Nat
  BY <1>1
<1>4. \A i \in DOMAIN heard : heard'[i] = heard[i]
  BY <1>1
<1>5. heard'[Len(heard) + 1] = m
  BY <1>1
<1>6. \A i \in DOMAIN heard' \ DOMAIN heard : i = Len(heard) + 1
  BY <1>3
<1>7. \A i, j \in DOMAIN heard' : i < j => i \in DOMAIN heard
  BY <1>3
<1> QED
  BY <1>2, <1>3, <1>4, <1>5, <1>6, <1>7

\* The record that is sent comes after all that were, and only one is on the wire.
LEMMA NextOrder == FInv /\ [Next]_vars => OrderInv'
<1> SUFFICES ASSUME TypeOK, QueueInv, CursorInv, LinkInv, OrderInv, [Next]_vars, errors' = 0
             PROVE  /\ pc' = "connect" => Unanswered' = {}
                    /\ \A r \in Unanswered' : r.socket = socket'
                    /\ \A i \in DOMAIN heard' : heard'[i].num <= sent'[heard'[i].queue]
                    /\ \A r \in wire' :
                         /\ r.num <= sent'[r.queue]
                         /\ \A i \in DOMAIN heard' :
                              heard'[i].queue = r.queue => heard'[i].num < r.num
  BY DEF FInv, OrderInv, Unanswered
<1>0. errors = 0 /\ ~SendFails /\ ~RecvFails
  BY ErrorsGrow
<1>1. /\ pc = "connect" => Unanswered = {}
      /\ \A r \in Unanswered : r.socket = socket
      /\ \A i \in DOMAIN heard : heard[i].num <= sent[heard[i].queue]
      /\ \A r \in wire :
           /\ r.num <= sent[r.queue]
           /\ \A i \in DOMAIN heard : heard[i].queue = r.queue => heard[i].num < r.num
  BY <1>0 DEF OrderInv
<1>2. CASE UNCHANGED <<socket, wire, lost, heard, sent>> /\ pc' # "connect"
  BY <1>1, <1>2 DEF Unanswered
<1>3. CASE Connect
  BY <1>1, <1>3 DEF Connect, Unanswered
<1>4. CASE Send
  <2>1. /\ pc = "send" /\ pc' = "pop" /\ UNCHANGED <<socket, lost, heard>>
        /\ wire' = wire \cup {[socket |-> socket, queue |-> turn, num |-> it]}
        /\ sent' = [sent EXCEPT ![turn] = @ + 1]
    BY <1>4 DEF Send
  <2>2. Unanswered = {}
    BY <1>1, <2>1 DEF LinkInv
  <2>3. it = sent[turn] + 1 /\ sent[turn] \in Nat /\ turn \in Queues
    BY <2>1, SendsNext DEF TypeOK
  <2>4. sent'[turn] = it /\ \A q \in Queues \ {turn} : sent'[q] = sent[q]
    BY <2>1, <2>3 DEF TypeOK
  <2>5. \A i \in DOMAIN heard : heard[i].queue \in Queues /\ heard[i].num \in Nat
    <3>1. \A i \in DOMAIN heard : heard[i] \in Message
      BY DEF TypeOK
    <3> QED
      BY <3>1 DEF Message
  <2>6. ASSUME NEW i \in DOMAIN heard
        PROVE  /\ heard[i].num <= sent'[heard[i].queue]
               /\ heard[i].queue = turn => heard[i].num < it
    BY <1>1, <2>3, <2>4, <2>5
  <2>7. wire' = {[socket |-> socket, queue |-> turn, num |-> it]} /\ lost' = {}
    BY <2>1, <2>2 DEF Unanswered
  <2>8. it <= sent'[turn]
    BY <2>3, <2>4
  <2> QED
    BY <2>1, <2>6, <2>7, <2>8 DEF Unanswered
<1>5. ASSUME NEW r \in wire, WebTakes(r)
      PROVE  /\ pc' = "connect" => Unanswered' = {}
             /\ \A s \in Unanswered' : s.socket = socket'
             /\ \A i \in DOMAIN heard' : heard'[i].num <= sent'[heard'[i].queue]
             /\ \A s \in wire' :
                  /\ s.num <= sent'[s.queue]
                  /\ \A i \in DOMAIN heard' :
                       heard'[i].queue = s.queue => heard'[i].num < s.num
  <2>1. UNCHANGED <<pc, socket, sent, lost>> /\ wire' = wire \ {r}
    BY <1>5 DEF WebTakes
  <2>2. wire' = {}
    BY <1>1, <2>1 DEF LinkInv, Lockstep, Unanswered
  <2>3. r.num <= sent[r.queue]
    BY <1>1
  <2>4. \A i \in DOMAIN heard' : heard'[i].num <= sent'[heard'[i].queue]
    <3>1. ASSUME NEW i \in DOMAIN heard' PROVE heard'[i].num <= sent'[heard'[i].queue]
      <4>1. CASE i \in DOMAIN heard
        BY <1>1, <1>5, <2>1, <4>1, Taken
      <4>2. CASE i \notin DOMAIN heard
        <5>1. heard'[i].num = r.num /\ heard'[i].queue = r.queue
          BY <1>5, <4>2, Taken
        <5> QED
          BY <2>1, <2>3, <5>1
      <4> QED
        BY <4>1, <4>2
    <3> QED
      BY <3>1
  <2> QED
    BY <1>1, <2>1, <2>2, <2>4 DEF Unanswered
<1>6. ASSUME NEW r \in wire, WebLoses(r)
      PROVE  /\ UNCHANGED <<pc, socket, sent, heard>> /\ Unanswered' = Unanswered
             /\ wire' \subseteq wire
  BY <1>6 DEF WebLoses, Unanswered
<1>7. CASE \E r \in wire : WebLoses(r)
  BY <1>1, <1>6, <1>7
<1>8. CASE UNCHANGED vars
  BY <1>1, <1>8 DEF vars, Unanswered
<1>9. CASE \E p \in Producers, q \in Queues : Insert(p, q) \/ Release(p, q)
  BY <1>1, <1>9 DEF Insert, Release, linkVars, Unanswered
<1> QED
  BY <1>0, <1>2, <1>3, <1>4, <1>5, <1>7, <1>8, <1>9
  DEF Next, ConsumerTask, Size, Peek, Pop, Recv, linkVars

\* What the web server hears next of a list comes after what it has heard of it.
LEMMA NextInOrder == FInv /\ InOrder /\ [Next]_vars => InOrder'
<1> SUFFICES ASSUME TypeOK, LinkInv, OrderInv, InOrder, [Next]_vars, errors' = 0,
                    NEW i \in DOMAIN heard', NEW j \in DOMAIN heard',
                    i < j, heard'[i].queue = heard'[j].queue
             PROVE  heard'[i].num < heard'[j].num
  BY DEF FInv, InOrder
<1>0. errors = 0
  BY ErrorsGrow
<1>1. ASSUME NEW r \in wire, WebTakes(r)
      PROVE  heard'[i].num < heard'[j].num
  <2>1. i \in DOMAIN heard
    BY <1>1, Taken
  <2>2. CASE j \in DOMAIN heard
    BY <1>0, <1>1, <2>1, <2>2, Taken DEF InOrder
  <2>3. CASE j \notin DOMAIN heard
    <3>1. heard'[j].num = r.num /\ heard'[j].queue = r.queue /\ heard'[i] = heard[i]
      BY <1>1, <2>1, <2>3, Taken
    <3> QED
      BY <1>0, <2>1, <3>1 DEF OrderInv
  <2> QED
    BY <2>2, <2>3
<1>2. CASE UNCHANGED heard
  BY <1>0, <1>2 DEF InOrder
<1> QED
  BY <1>1, <1>2
  DEF Next, ConsumerTask, Insert, Release, Connect, Size, Peek, Send, SendFails, Pop, Recv,
      RecvFails, WebLoses, linkVars, vars

-----------------------------------------------------------------------------
(* The theorems.                                                           *)

\* The invariant holds before anything runs.
LEMMA InitInv == Init => FInv
<1> SUFFICES ASSUME Init
             PROVE  FInv
  OBVIOUS
<1>1. TypeOK
  BY InitType
<1>2. /\ \A q \in Queues : queue[q] = << >> /\ pushed[q] = 0 /\ sent[q] = 0
                           /\ ahead[q] = 0
      /\ pc = "connect" /\ wire = {} /\ lost = {} /\ errors = 0
  BY DEF Init
<1>3. QueueInv
  BY <1>2 DEF QueueInv, Popped
<1>4. CursorInv
  BY <1>2 DEF CursorInv
<1>5. BypassInv
  BY <1>1, <1>2, TwoQueues DEF BypassInv, BoundedBypass
<1>6. LinkInv
  BY <1>2 DEF LinkInv, Lockstep, Unanswered
<1>7. OrderInv
  BY <1>2 DEF Init, OrderInv, Unanswered
<1> QED
  BY <1>1, <1>3, <1>4, <1>5, <1>6, <1>7 DEF FInv

\* The invariant holds in every reachable state.
THEOREM Invariance == Spec => []FInv
<1>1. FInv /\ [Next]_vars => FInv'
  <2> SUFFICES ASSUME FInv, [Next]_vars
               PROVE  FInv'
    OBVIOUS
  <2>1. TypeOK'
    BY NextType DEF FInv
  <2> QED
    BY <2>1, NextQueue, NextCursor, NextBypass, NextLink, NextOrder DEF FInv
<1> QED
  BY InitInv, <1>1, PTL DEF Spec

\* Every variable keeps its type; in particular ConsumerTask never copies from
\* the front of an empty list.
THEOREM TypeCorrect == Spec => []TypeOK
<1>1. FInv => TypeOK
  BY DEF FInv
<1> QED
  BY Invariance, <1>1, PTL

\* ConsumerTask pops the record it sent, although it looks, sends and pops
\* without holding the mutex in between.
THEOREM PopMatches == Spec => []PopMatchesSend
<1>1. FInv => PopMatchesSend
  <2> SUFFICES ASSUME FInv, pc = "pop"
               PROVE  Len(queue[turn]) > 0 /\ Head(queue[turn]) = it
    BY DEF PopMatchesSend
  <2>1. Len(queue[turn]) > 0 /\ it = queue[turn][1]
    BY DEF FInv, CursorInv
  <2> QED
    BY <2>1, FrontType DEF FInv
<1> QED
  BY Invariance, <1>1, PTL

\* A front is passed by at most one record of the other list, and on jlist by
\* one more for every error.
THEOREM Bypass == Spec => []BoundedBypass
<1>1. FInv => BoundedBypass
  BY DEF FInv, BypassInv
<1> QED
  BY Invariance, <1>1, PTL

\* ConsumerTask waits only for a request that is on its way or lost.
THEOREM RecvWaits == Spec => []WaitsForItsRequest
<1>1. FInv => WaitsForItsRequest
  BY DEF FInv, LinkInv, WaitsForItsRequest
<1> QED
  BY Invariance, <1>1, PTL

\* A socket has at most one unanswered request.
THEOREM OneRequest == Spec => []Lockstep
<1>1. FInv => Lockstep
  BY DEF FInv, LinkInv
<1> QED
  BY Invariance, <1>1, PTL

\* Until a call fails the web server hears the records of each list in the order they
\* were pushed.
THEOREM HeardInOrder == Spec => []InOrder
<1>1. Init => InOrder
  BY DEF Init, InOrder
<1> QED
  BY <1>1, NextInOrder, Invariance, PTL DEF Spec

\* What a step does to the record numbers is a push, a hand-over of the next
\* number or nothing.
LEMMA StepRefines == FInv /\ [Next]_vars => [Out!Next]_(Out!vars)
<1> SUFFICES ASSUME TypeOK, QueueInv, CursorInv, [Next]_vars
             PROVE  [Out!Next]_(Out!vars)
  BY DEF FInv
<1>1. ASSUME NEW p \in Producers, NEW q \in Queues, Insert(p, q)
      PROVE  Out!Push(q)
  BY <1>1 DEF Insert, Out!Push
<1>2. CASE Send
  <2>1. /\ pc = "send" /\ turn \in Queues /\ pushed' = pushed
        /\ sent' = [sent EXCEPT ![turn] = @ + 1]
        /\ last' = [queue |-> turn, num |-> it]
    BY <1>2 DEF Send, listVars, TypeOK
  <2>6. sent[turn] < pushed[turn] /\ it = sent[turn] + 1
    BY <2>1, SendsNext
  <2>7. Out!HandOver(turn)
    BY <2>1, <2>6 DEF Out!HandOver, Out!Message
  <2> QED
    BY <2>1, <2>7 DEF Out!Next
<1>3. CASE \/ Connect \/ Size \/ Peek \/ SendFails \/ Pop \/ Recv \/ RecvFails
           \/ \E p \in Producers, q \in Queues : Release(p, q)
           \/ \E r \in wire : WebTakes(r) \/ WebLoses(r)
           \/ UNCHANGED vars
  BY <1>3 DEF Connect, Size, Peek, SendFails, Pop, Recv, RecvFails, Release,
     WebTakes, WebLoses, listVars, vars, Out!vars
<1> QED
  BY <1>1, <1>2, <1>3 DEF Next, ConsumerTask, Out!Next

\* Forward implements Outbox: for each list, what is sent is the next record in
\* the order of pushing, once, whatever calls fail.
THEOREM Refinement == Spec => ImplementsOutbox
<1>1. Init => Out!Init
  BY DEF Init, Out!Init
<1> QED
  BY <1>1, StepRefines, Invariance, PTL DEF Spec, ImplementsOutbox, Out!Spec

=============================================================================
