--------------------------- MODULE AlarmPathProofs ---------------------------
(***************************************************************************)
(* Proofs about AlarmPath: what RecvUdp acknowledges is kept, and nothing  *)
(* is recorded more often than it was sent, for any devices, numbers and   *)
(* bounds.                                                                 *)
(***************************************************************************)
EXTENDS AlarmPath, FiniteSetTheorems, TLAPS

Record == Warnings \union {Status(d) : d \in Devices}

\* A warning is known by the device and the number its packet has, and no packet
\* check_pack takes for a warning is another device's.
LEMMA WarningIsRecord ==
  ASSUME NEW w \in Warnings
  PROVE  /\ w = [device |-> w.device, fnum |-> w.fnum]
         /\ w.device \in Devices /\ w.fnum # 0
  BY AlarmAssumption DEF Devices

LEMMA PacketFields ==
  ASSUME NEW w \in Warnings
  PROVE  /\ WarningPacket(w).head \in {"7E FF", "FF 7E"}
         /\ WarningPacket(w).device = w.device /\ WarningPacket(w).fnum = w.fnum
  BY DEF WarningPacket, Packet

LEMMA OnePacket ==
  ASSUME NEW v \in Warnings, NEW w \in Warnings, WarningPacket(v) = WarningPacket(w)
  PROVE  v = w
  <1>1. v.device = w.device /\ v.fnum = w.fnum
    BY PacketFields
  <1> QED BY <1>1, WarningIsRecord

LEMMA OtherFields ==
  ASSUME NEW p \in OtherPackets
  PROVE  \/ p.head = "FF" /\ p.device \in Alive
         \/ p.head = "AA"
  <1>1. CASE p = Packet("AA", Unknown, 0)
    BY <1>1 DEF Packet
  <1>2. ASSUME NEW d \in Alive, p = Packet("FF", d, 0)
        PROVE  p.head = "FF" /\ p.device \in Alive
    BY <1>2 DEF Packet
  <1> QED BY <1>1, <1>2 DEF OtherPackets

LEMMA TakenForWarning ==
  ASSUME NEW p \in Packets, check_pack(p.head) = "WARING"
  PROVE  \E w \in Warnings : p = WarningPacket(w) /\ p.device = w.device
  <1>1. p.head \in {"7E FF", "FF 7E"}
    BY DEF check_pack, WarningHeads
  <1>2. p \notin OtherPackets
    BY <1>1, OtherFields
  <1>3. PICK w \in Warnings : p = WarningPacket(w)
    BY <1>2 DEF Packets
  <1> QED BY <1>3, PacketFields

LEMMA TakenForKeepalive ==
  ASSUME NEW p \in Packets, check_pack(p.head) # "-1", check_pack(p.head) # "WARING"
  PROVE  p.device \in Devices
  <1>1. p.head = "FF"
    BY DEF check_pack, WarningHeads
  <1>2. ASSUME NEW w \in Warnings PROVE p # WarningPacket(w)
    BY <1>1, PacketFields
  <1>3. p \in OtherPackets
    BY <1>2 DEF Packets
  <1> QED BY <1>1, <1>3, OtherFields, AlarmAssumption

LEMMA WarningIsPacket ==
  ASSUME NEW w \in Warnings PROVE WarningPacket(w) \in Packets
  BY DEF Packets

-----------------------------------------------------------------------------
(* The type invariant                                                      *)

LEMMA InitInv == Init => AlarmInv
  <1> SUFFICES ASSUME Init PROVE AlarmInv OBVIOUS
  <1> USE DEF Init
  <1>1. TypeOK
    <2>1. sends \in [Warnings -> 0 .. MaxSends]
      BY AlarmAssumption
    <2>2. pushed = [q \in {"jlist"} |-> Len(log)]
      BY DEF Jlist!Init
    <2>3. log \in Seq(Record) /\ losses \in 0 .. MaxLost
      BY AlarmAssumption
    <2> QED BY <2>1, <2>2, <2>3 DEF TypeOK, Record
  <1>2. Received
    BY DEF Received
  <1>3. AckedIsKept
    BY DEF AckedIsKept
  <1>4. ASSUME NEW w \in Warnings
        PROVE  Cardinality(Records(w)) + OnTheWay(w) + BeingRead(w) <= sends[w]
    <2>1. Records(w) = {}
      BY DEF Records
    <2>2. Cardinality(Records(w)) = 0
      BY <2>1, FS_EmptySet
    <2>3. OnTheWay(w) = 0 /\ BeingRead(w) = 0 /\ sends[w] = 0
      BY DEF OnTheWay, BeingRead
    <2> QED BY <2>2, <2>3
  <1> QED BY <1>1, <1>2, <1>3, <1>4 DEF AlarmInv, OncePerPacket

\* What a push leaves: the record at the end.
LEMMA PushType ==
  ASSUME TypeOK, NEW r \in Record, Push(r)
  PROVE  /\ log' \in Seq(Record)
         /\ pushed' = [q \in {"jlist"} |-> Len(log')]
         /\ Len(log') = Len(log) + 1
         /\ log'[Len(log) + 1] = r
         /\ \A i \in DOMAIN log : log'[i] = log[i]
         /\ DOMAIN log' = DOMAIN log \union {Len(log) + 1}
  <1>1. log \in Seq(Record) /\ log' = Append(log, r)
    BY DEF TypeOK, Record, Push
  <1>2. /\ log' \in Seq(Record) /\ Len(log') = Len(log) + 1
        /\ log'[Len(log) + 1] = r /\ \A i \in DOMAIN log : log'[i] = log[i]
    BY <1>1
  <1>3. DOMAIN log = 1 .. Len(log) /\ DOMAIN log' = 1 .. Len(log') /\ Len(log) \in Nat
    BY <1>1, <1>2
  <1>4. DOMAIN log' = DOMAIN log \union {Len(log) + 1}
    BY <1>2, <1>3
  <1>5. pushed' = [pushed EXCEPT !["jlist"] = @ + 1] /\ pushed = [q \in {"jlist"} |-> Len(log)]
    BY DEF Push, Jlist!Push, TypeOK
  <1>6. pushed' = [q \in {"jlist"} |-> Len(log')]
    BY <1>2, <1>5
  <1> QED BY <1>2, <1>4, <1>6

\* The record Add pushes is the warning in hand, that of CheckClient is none.
LEMMA AddPushes ==
  ASSUME AlarmInv, Add
  PROVE  /\ \E w \in Warnings : message = WarningPacket(w) /\ Push(w)
         /\ pc = "push" /\ pc' = "recv"
         /\ message' = Unknown /\ sin' = Unknown
         /\ UNCHANGED <<deviceVars, net, acks, losses, sin_len>>
  <1>1. PICK w \in Warnings : message = WarningPacket(w)
    BY DEF AlarmInv, Received, Add
  <1>2. message.device = w.device /\ message.fnum = w.fnum
    BY <1>1, PacketFields
  <1>3. [device |-> message.device, fnum |-> message.fnum] = w
    BY <1>2, WarningIsRecord
  <1>4. Push(w)
    BY <1>3 DEF Add
  <1> QED BY <1>1, <1>4 DEF Add, Done

LEMMA NextType == AlarmInv /\ [Next]_vars => TypeOK'
  <1> SUFFICES ASSUME AlarmInv, [Next]_vars PROVE TypeOK' OBVIOUS
  <1>0. TypeOK
    BY DEF AlarmInv
  <1>1. CASE UNCHANGED vars
    BY <1>0, <1>1 DEF TypeOK, vars, deviceVars, udpVars, queueVars
  <1>2. ASSUME NEW w \in Warnings, Transmit(w) PROVE TypeOK'
    <2>1. sends' \in [Warnings -> 0 .. MaxSends]
      BY <1>0, <1>2, AlarmAssumption DEF Transmit, TypeOK
    <2>2. net' \subseteq Packets
      BY <1>0, <1>2, WarningIsPacket DEF Transmit, TypeOK
    <2> QED BY <1>0, <1>2, <2>1, <2>2 DEF Transmit, TypeOK, udpVars, queueVars
  <1>3. CASE SendOther
    <2>1. net' \subseteq Packets
      BY <1>0, <1>3 DEF SendOther, TypeOK, Packets
    <2> QED BY <1>0, <1>3, <2>1 DEF SendOther, TypeOK, deviceVars, udpVars, queueVars
  <1>4. ASSUME NEW a \in acks, HearAck(a) PROVE TypeOK'
    BY <1>0, <1>4 DEF HearAck, TypeOK, udpVars, queueVars
  <1>5. CASE Lose
    <2>1. net' \subseteq Packets /\ acks' \subseteq Warnings
      BY <1>0, <1>5 DEF Lose, TypeOK
    <2>2. losses' \in 0 .. MaxLost
      BY <1>0, <1>5, AlarmAssumption DEF Lose, TypeOK
    <2> QED BY <1>0, <1>5, <2>1, <2>2 DEF Lose, TypeOK, deviceVars, udpVars, queueVars
  <1>6. ASSUME NEW p \in Packets, Recvfrom(p) PROVE TypeOK'
    <2>1. net' \subseteq Packets
      BY <1>0, <1>6 DEF Recvfrom, TypeOK
    <2>2. /\ message' \in Packets \union {Unknown}
          /\ sin' \in Devices \union {Unknown}
          /\ sin_len' \in {"negative", "short", "whole"}
          /\ pc' \in {"recv", "ack", "push", "check"}
      <3>1. CASE UNCHANGED udpVars
        BY <1>0, <3>1 DEF TypeOK, udpVars
      <3>2. CASE check_pack(p.head) = "-1" /\ sin_len' = "whole" /\ UNCHANGED <<pc, message, sin>>
        BY <1>0, <3>2 DEF TypeOK
      <3>3. CASE /\ check_pack(p.head) # "-1" /\ sin_len' = "whole"
                 /\ message' = p
                 /\ sin' = IF sin_len = "short" THEN Unknown ELSE p.device
                 /\ pc' = IF check_pack(p.head) = "WARING" THEN "ack" ELSE "check"
        <4>1. p.device \in Devices
          BY <3>3, TakenForWarning, TakenForKeepalive, WarningIsRecord
        <4> QED BY <3>3, <4>1
      <3> QED BY <1>6, <3>1, <3>2, <3>3 DEF Recvfrom
    <2> QED BY <1>0, <1>6, <2>1, <2>2 DEF Recvfrom, TypeOK, deviceVars, queueVars
  <1>7. CASE Sendto
    <2>1. PICK w \in Warnings : message = WarningPacket(w) /\ sin \in {w.device, Unknown}
      BY <1>7 DEF Sendto, AlarmInv, Received
    <2>2. message.fnum = w.fnum
      BY <2>1, PacketFields
    <2>3. sin # Unknown => [device |-> sin, fnum |-> message.fnum] = w
      BY <2>1, <2>2, WarningIsRecord
    <2>4. acks' \subseteq Warnings
      BY <1>0, <1>7, <2>3 DEF Sendto, TypeOK
    <2> QED BY <1>0, <1>7, <2>4 DEF Sendto, TypeOK, deviceVars, queueVars
  <1>8. CASE Add
    <2>1. PICK w \in Warnings : Push(w)
      BY <1>8, AddPushes
    <2>2. log' \in Seq(Record) /\ pushed' = [q \in {"jlist"} |-> Len(log')]
      BY <1>0, <2>1, PushType DEF Record
    <2> QED BY <1>0, <1>8, <2>2, AddPushes DEF TypeOK, Record, deviceVars
  <1>9. CASE CheckClient
    <2>1. CASE UNCHANGED queueVars
      BY <1>0, <1>9, <2>1 DEF CheckClient, Done, TypeOK, deviceVars, queueVars
    <2>2. CASE sin # Unknown /\ Push(Status(sin))
      <3>1. Status(sin) \in Record
        BY <1>0, <2>2 DEF TypeOK, Record
      <3>2. log' \in Seq(Record) /\ pushed' = [q \in {"jlist"} |-> Len(log')]
        BY <1>0, <2>2, <3>1, PushType
      <3> QED BY <1>0, <1>9, <3>2 DEF CheckClient, Done, TypeOK, Record, deviceVars
    <2> QED BY <1>9, <2>1, <2>2 DEF CheckClient
  <1>10. CASE ConsumerTask
    BY <1>0, <1>10 DEF ConsumerTask, Jlist!HandOver, TypeOK, deviceVars, udpVars
  <1> QED BY <1>1, <1>2, <1>3, <1>4, <1>5, <1>6, <1>7, <1>8, <1>9, <1>10
          DEF Next, RecvUdp

-----------------------------------------------------------------------------
(* What was acknowledged                                                   *)

LEMMA NextReceived == AlarmInv /\ [Next]_vars => Received'
  <1> SUFFICES ASSUME AlarmInv, [Next]_vars, pc' \in {"ack", "push"}
               PROVE  \E w \in Warnings : message' = WarningPacket(w) /\ sin' \in {w.device, Unknown}
    BY DEF Received
  <1>1. CASE UNCHANGED udpVars
    BY <1>1 DEF AlarmInv, Received, udpVars
  <1>2. ASSUME NEW p \in Packets, Recvfrom(p), ~UNCHANGED udpVars
        PROVE  \E w \in Warnings : message' = WarningPacket(w) /\ sin' \in {w.device, Unknown}
    <2>1. /\ check_pack(p.head) = "WARING" /\ message' = p
          /\ sin' = IF sin_len = "short" THEN Unknown ELSE p.device
      BY <1>2 DEF Recvfrom
    <2> QED BY <2>1, TakenForWarning
  <1>3. CASE Sendto
    BY <1>3 DEF Sendto, AlarmInv, Received
  <1>4. CASE Add
    BY <1>4 DEF Add, Done
  <1>5. CASE CheckClient
    BY <1>5 DEF CheckClient, Done
  <1> QED BY <1>1, <1>2, <1>3, <1>4, <1>5
          DEF Next, RecvUdp, Transmit, SendOther, HearAck, Lose, ConsumerTask, vars

\* What a step does to the records of w, and to w in hand: Add alone takes w from
\* the hand to the list, and nothing leaves the list.
LEMMA PushRecords ==
  ASSUME TypeOK, NEW r \in Record, Push(r), NEW w \in Warnings
  PROVE  Records(w)' = IF r = w THEN Records(w) \union {Len(log) + 1} ELSE Records(w)
  <1>1. /\ log'[Len(log) + 1] = r
        /\ \A i \in DOMAIN log : log'[i] = log[i]
        /\ DOMAIN log' = DOMAIN log \union {Len(log) + 1}
    BY PushType
  <1> QED BY <1>1 DEF Records

LEMMA StatusIsNone ==
  ASSUME NEW d, NEW w \in Warnings PROVE Status(d) # w
  <1>1. Status(d).fnum = 0
    BY DEF Status
  <1> QED BY <1>1, WarningIsRecord

LEMMA NextKept == AlarmInv /\ [Next]_vars => AckedIsKept'
  <1> SUFFICES ASSUME AlarmInv, [Next]_vars, NEW w \in (acks \union acked)'
               PROVE  InHand(w)' \/ Records(w)' # {}
    BY DEF AckedIsKept
  <1>0. TypeOK /\ AckedIsKept /\ Received
    BY DEF AlarmInv
  <1>1. CASE UNCHANGED <<pc, message, log>> /\ (acks \union acked)' \subseteq acks \union acked
    BY <1>0, <1>1 DEF AckedIsKept, InHand, Records
  <1>2. ASSUME NEW p \in Packets, Recvfrom(p) PROVE InHand(w)' \/ Records(w)' # {}
    <2>1. w \in acks \union acked /\ pc # "push" /\ log' = log
      BY <1>2 DEF Recvfrom, deviceVars, queueVars
    <2> QED BY <1>0, <2>1 DEF AckedIsKept, InHand, Records
  <1>3. CASE Sendto
    <2>1. PICK v \in Warnings : message = WarningPacket(v) /\ sin \in {v.device, Unknown}
      BY <1>0, <1>3 DEF Sendto, Received
    <2>2. message.device = v.device /\ message.fnum = v.fnum
      BY <2>1, PacketFields
    <2>3. CASE w \in acks \union acked
      BY <1>0, <1>3, <2>3 DEF Sendto, AckedIsKept, InHand, Records, deviceVars, queueVars
    <2>4. CASE w \notin acks \union acked
      <3>1. sin # Unknown /\ w = [device |-> sin, fnum |-> message.fnum]
        BY <1>3, <2>4 DEF Sendto, deviceVars
      <3>2. w.device = v.device /\ w.fnum = v.fnum
        BY <2>1, <2>2, <3>1
      <3> QED BY <1>3, <2>2, <3>2 DEF Sendto, InHand
    <2> QED BY <2>3, <2>4
  <1>4. CASE Add
    <2>1. PICK v \in Warnings : message = WarningPacket(v) /\ Push(v)
      BY <1>4, AddPushes
    <2>2. Records(w)' = IF v = w THEN Records(w) \union {Len(log) + 1} ELSE Records(w)
      <3>1. v \in Record /\ w \in Warnings
        BY <1>0, <1>4, AddPushes DEF Record, TypeOK, deviceVars
      <3> QED BY <1>0, <2>1, <3>1, PushRecords
    <2>3. w \in acks \union acked /\ w \in Warnings
      BY <1>0, <1>4, AddPushes DEF TypeOK, deviceVars
    <2>4. CASE InHand(w)
      <3>1. w.device = v.device /\ w.fnum = v.fnum
        BY <2>1, <2>4, PacketFields DEF InHand
      <3>2. w = v
        BY <2>3, <3>1, WarningIsRecord
      <3> QED BY <2>2, <3>2
    <2>5. CASE Records(w) # {}
      BY <2>2, <2>5
    <2> QED BY <1>0, <2>3, <2>4, <2>5 DEF AckedIsKept
  <1>5. CASE CheckClient
    <2>1. w \in acks \union acked /\ w \in Warnings /\ pc = "check"
      BY <1>0, <1>5 DEF CheckClient, Done, TypeOK, deviceVars
    <2>2. Records(w) # {}
      BY <1>0, <2>1 DEF AckedIsKept, InHand
    <2>3. CASE UNCHANGED queueVars
      BY <2>2, <2>3 DEF Records, queueVars
    <2>4. CASE sin # Unknown /\ Push(Status(sin))
      <3>1. Status(sin) \in Record
        BY <1>0, <2>4 DEF TypeOK, Record
      <3>2. Records(w)' = Records(w)
        BY <1>0, <2>1, <2>4, <3>1, PushRecords, StatusIsNone
      <3> QED BY <2>2, <3>2
    <2> QED BY <1>5, <2>3, <2>4 DEF CheckClient
  <1>6. ASSUME NEW a \in acks, HearAck(a)
        PROVE  UNCHANGED <<pc, message, log>> /\ (acks \union acked)' \subseteq acks \union acked
    BY <1>6 DEF HearAck, udpVars, queueVars
  <1>7. CASE Lose
    BY <1>1, <1>7 DEF Lose, deviceVars, udpVars, queueVars
  <1>8. CASE SendOther \/ ConsumerTask \/ \E v \in Warnings : Transmit(v)
    BY <1>1, <1>8 DEF SendOther, ConsumerTask, Transmit, deviceVars, udpVars, queueVars
  <1>9. CASE UNCHANGED vars
    BY <1>1, <1>9 DEF vars, deviceVars, udpVars, queueVars
  <1> QED BY <1>1, <1>2, <1>3, <1>4, <1>5, <1>6, <1>7, <1>8, <1>9 DEF Next, RecvUdp

-----------------------------------------------------------------------------
(* How often a warning is recorded                                         *)

LEMMA RecordsFinite ==
  ASSUME TypeOK, NEW w \in Warnings
  PROVE  /\ Cardinality(Records(w)) \in Nat
         /\ Cardinality(Records(w) \union {Len(log) + 1}) = Cardinality(Records(w)) + 1
  <1>1. DOMAIN log = 1 .. Len(log) /\ Len(log) \in Nat
    BY DEF TypeOK
  <1>2. Records(w) \subseteq 1 .. Len(log)
    BY <1>1 DEF Records
  <1>3. IsFiniteSet(1 .. Len(log))
    BY <1>1, FS_Interval
  <1>4. IsFiniteSet(Records(w))
    BY <1>2, <1>3, FS_Subset
  <1>5. Len(log) + 1 \notin Records(w)
    BY <1>1, <1>2
  <1> QED BY <1>4, <1>5, FS_CardinalityType, FS_AddElement

LEMMA NextCount == AlarmInv /\ [Next]_vars => OncePerPacket'
  <1> SUFFICES ASSUME AlarmInv, [Next]_vars, NEW w \in Warnings
               PROVE  (Cardinality(Records(w)) + OnTheWay(w) + BeingRead(w) <= sends[w])'
    BY DEF OncePerPacket
  <1> DEFINE n == Cardinality(Records(w))
             P == WarningPacket(w)
  <1>0. /\ TypeOK /\ n \in Nat /\ sends[w] \in Nat
        /\ n + OnTheWay(w) + BeingRead(w) <= sends[w]
        /\ OnTheWay(w) \in {0, 1} /\ BeingRead(w) \in {0, 1}
        /\ OnTheWay(w)' \in {0, 1} /\ BeingRead(w)' \in {0, 1}
    <2>1. TypeOK /\ n \in Nat /\ n + OnTheWay(w) + BeingRead(w) <= sends[w]
      BY RecordsFinite DEF AlarmInv, OncePerPacket
    <2>2. sends[w] \in Nat
      BY <2>1, AlarmAssumption DEF TypeOK
    <2> QED BY <2>1, <2>2 DEF OnTheWay, BeingRead
  <1>1. CASE /\ log' = log /\ sends' = sends
             /\ OnTheWay(w)' + BeingRead(w)' <= OnTheWay(w) + BeingRead(w)
    <2>1. n' = n
      BY <1>1 DEF Records
    <2> QED BY <1>0, <1>1, <2>1
  <1>2. ASSUME NEW v \in Warnings, Transmit(v)
        PROVE  (n + OnTheWay(w) + BeingRead(w) <= sends[w])'
    <2>1. n' = n /\ BeingRead(w)' = BeingRead(w)
      BY <1>2 DEF Transmit, udpVars, queueVars, Records, BeingRead
    <2>2. CASE v = w
      <3>1. OnTheWay(w) = 0 /\ OnTheWay(w)' = 1 /\ sends'[w] = sends[w] + 1
        BY <1>0, <1>2, <2>2 DEF Transmit, OnTheWay, TypeOK
      <3> QED BY <1>0, <2>1, <3>1
    <2>3. CASE v # w
      <3>1. OnTheWay(w)' = OnTheWay(w) /\ sends'[w] = sends[w]
        BY <1>0, <1>2, <2>3, OnePacket DEF Transmit, OnTheWay, TypeOK
      <3> QED BY <1>0, <2>1, <3>1
    <2> QED BY <2>2, <2>3
  <1>3. CASE SendOther
    <2>1. P \notin OtherPackets
      BY PacketFields, OtherFields
    <2>2. OnTheWay(w)' = OnTheWay(w) /\ BeingRead(w)' = BeingRead(w)
      BY <1>3, <2>1 DEF SendOther, OnTheWay, BeingRead, udpVars
    <2> QED BY <1>0, <1>1, <1>3, <2>2 DEF SendOther, deviceVars, queueVars
  <1>4. CASE Lose
    <2>1. net' \subseteq net /\ UNCHANGED <<pc, message, log, sends>>
      BY <1>4 DEF Lose, deviceVars, udpVars, queueVars
    <2>2. OnTheWay(w)' <= OnTheWay(w) /\ BeingRead(w)' = BeingRead(w)
      BY <1>0, <2>1 DEF OnTheWay, BeingRead
    <2> QED BY <1>0, <1>1, <2>1, <2>2
  <1>5. ASSUME NEW p \in Packets, Recvfrom(p)
        PROVE  (n + OnTheWay(w) + BeingRead(w) <= sends[w])'
    <2>1. /\ p \in net /\ net' = net \ {p} /\ pc = "recv"
          /\ UNCHANGED <<log, sends>>
          /\ pc' # "recv" => message' = p
      BY <1>5 DEF Recvfrom, deviceVars, queueVars, udpVars
    <2>2. BeingRead(w) = 0
      BY <2>1 DEF BeingRead
    <2>3. CASE p = P
      BY <1>0, <1>1, <2>1, <2>2, <2>3 DEF OnTheWay
    <2>4. CASE p # P
      <3>1. BeingRead(w)' = 0 /\ OnTheWay(w)' = OnTheWay(w)
        BY <2>1, <2>4 DEF BeingRead, OnTheWay
      <3> QED BY <1>0, <1>1, <2>1, <2>2, <3>1
    <2> QED BY <2>3, <2>4
  <1>6. CASE Sendto
    <2>1. UNCHANGED <<log, sends, net, message>> /\ pc = "ack" /\ pc' = "push"
      BY <1>6 DEF Sendto, deviceVars, queueVars
    <2>2. OnTheWay(w)' = OnTheWay(w) /\ BeingRead(w)' = BeingRead(w)
      BY <2>1 DEF OnTheWay, BeingRead
    <2> QED BY <1>0, <1>1, <2>1, <2>2
  <1>7. CASE Add
    <2>1. PICK v \in Warnings : message = WarningPacket(v) /\ Push(v)
      BY <1>7, AddPushes
    <2>2. /\ pc = "push" /\ pc' = "recv" /\ net' = net /\ sends' = sends
      BY <1>7, AddPushes DEF deviceVars
    <2>3. OnTheWay(w)' = OnTheWay(w) /\ BeingRead(w)' = 0
      BY <2>2 DEF OnTheWay, BeingRead
    <2>4. v \in Record
      BY DEF Record
    <2>5. CASE v = w
      <3>1. n' = n + 1
        BY <1>0, <2>1, <2>4, <2>5, PushRecords, RecordsFinite
      <3>2. BeingRead(w) = 1
        BY <2>1, <2>2, <2>5 DEF BeingRead
      <3> QED BY <1>0, <2>2, <2>3, <3>1, <3>2
    <2>6. CASE v # w
      <3>1. n' = n
        BY <1>0, <2>1, <2>4, <2>6, PushRecords
      <3> QED BY <1>0, <2>2, <2>3, <3>1
    <2> QED BY <2>5, <2>6
  <1>8. CASE CheckClient
    <2>1. pc = "check" /\ pc' = "recv" /\ net' = net /\ sends' = sends
      BY <1>8 DEF CheckClient, Done, deviceVars
    <2>2. OnTheWay(w)' = OnTheWay(w) /\ BeingRead(w)' = 0 /\ BeingRead(w) = 0
      BY <2>1 DEF OnTheWay, BeingRead
    <2>3. CASE UNCHANGED queueVars
      BY <1>0, <1>1, <2>1, <2>2, <2>3 DEF queueVars
    <2>4. CASE sin # Unknown /\ Push(Status(sin))
      <3>1. Status(sin) \in Record
        BY <1>0, <2>4 DEF TypeOK, Record
      <3>2. n' = n
        BY <1>0, <2>4, <3>1, PushRecords, StatusIsNone
      <3> QED BY <1>0, <2>1, <2>2, <3>2
    <2> QED BY <1>8, <2>3, <2>4 DEF CheckClient
  <1>9. CASE ConsumerTask \/ UNCHANGED vars \/ \E a \in acks : HearAck(a)
    <2>1. UNCHANGED <<sends, net, pc, message, log>>
      BY <1>9 DEF ConsumerTask, HearAck, vars, deviceVars, udpVars, queueVars
    <2>2. OnTheWay(w)' = OnTheWay(w) /\ BeingRead(w)' = BeingRead(w)
      BY <2>1 DEF OnTheWay, BeingRead
    <2> QED BY <1>0, <1>1, <2>1, <2>2
  <1> QED BY <1>2, <1>3, <1>4, <1>5, <1>6, <1>7, <1>8, <1>9 DEF Next, RecvUdp

-----------------------------------------------------------------------------
\* What is acknowledged is kept, and what is recorded was sent as often, whatever
\* the devices number alike, the network loses or overtakes, and sin_len holds: the
\* invariant of AlarmPath in every reachable state.
THEOREM Invariance == Spec => []AlarmInv
  <1>1. AlarmInv /\ [Next]_vars => AlarmInv'
    BY NextType, NextReceived, NextKept, NextCount DEF AlarmInv
  <1> QED BY <1>1, InitInv, PTL DEF Spec

=============================================================================
