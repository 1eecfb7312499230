------------------------------ MODULE AlarmPath ------------------------------
(***************************************************************************)
(* The way of a warning from a subsystem server over UDP to the web        *)
(* server: RecvUdp of KeepAlive.cpp acknowledges a warning packet, decodes *)
(* it and pushes the record on jlist.  From there on the module relies on  *)
(* what Outbox promises, which Forward implements.                         *)
(*                                                                         *)
(* The subsystem servers are not in the repository: they are taken to send *)
(* a warning until the number RecvUdp sends back reaches them.  A record   *)
(* lives in memory only; a process that ends loses what is not sent.       *)
(***************************************************************************)
EXTENDS Integers, Sequences, FiniteSets

CONSTANTS
  Warnings,   \* what may be raised: [device, fnum], fnum as its device numbers it
  Swapped,    \* the devices that send the two bytes of the type the other way
  Alive,      \* the devices that also send keepalive packets
  MaxSends,   \* bound: transmissions of one warning
  MaxLost,    \* bound: datagrams the network loses
  MaxStatus,  \* bound: status records that keepalive packets bring about
  Unknown,    \* an address recvfrom has not written, or no packet
  NoMessage   \* nothing was handed over yet

Devices == {w.device : w \in Warnings}

\* The number 0 is left for what is no warning, and a warning can arrive at all only
\* if the network loses fewer packets.
ASSUME AlarmAssumption ==
  /\ Warnings \subseteq [device : Devices, fnum : Nat \ {0}]
  /\ MaxSends \in Nat /\ MaxLost \in Nat /\ MaxStatus \in Nat
  /\ MaxLost < MaxSends /\ Swapped \union Alive \subseteq Devices /\ Unknown \notin Devices

VARIABLES
  sends,    \* per warning, how often its device has sent it
  acked,    \* the warnings whose number came back to their device
  net,      \* the packets on their way to RecvUdp
  acks,     \* the numbers on their way back
  losses,   \* the datagrams lost so far
  pc,       \* the point RecvUdp has reached
  message,  \* the packet it works on, which it clears before the next
  sin,      \* the address recvfrom wrote for it
  sin_len,  \* its length, which nothing initializes
  log,      \* the records pushed on jlist, in order
  pushed, sent, last  \* jlist as Outbox sees it

queueVars  == <<log, pushed, sent, last>>
udpVars    == <<pc, message, sin, sin_len>>
deviceVars == <<sends, acked>>
vars == <<deviceVars, net, acks, losses, udpVars, queueVars>>

Jlist == INSTANCE Outbox WITH Queues <- {"jlist"}

\* What check_pack tells apart; the first bytes of a packet are its head.
Packet(head, d, n) == [head |-> head, device |-> d, fnum |-> n]
WarningHeads == {"7E FF", "FF 7E"}
WarningPacket(w) ==
  Packet(IF w.device \in Swapped THEN "FF 7E" ELSE "7E FF", w.device, w.fnum)
OtherPackets == {Packet("FF", d, 0) : d \in Alive} \union {Packet("AA", Unknown, 0)}
Packets == {WarningPacket(w) : w \in Warnings} \union OtherPackets

Init ==
  /\ acked = {}
  /\ sends = [w \in Warnings |-> 0]
  /\ net = {} /\ acks = {} /\ losses = 0
  /\ pc = "recv" /\ message = Unknown /\ sin = Unknown
  /\ sin_len \in {"negative", "short", "whole"}
  /\ log = << >>
  /\ Jlist!Init

-----------------------------------------------------------------------------
(* The devices and the network                                             *)

\* The first time, or again because no answer has come yet; bound: one copy of a
\* warning on the way.
Transmit(w) ==
  /\ w \notin acked /\ sends[w] < MaxSends
  /\ WarningPacket(w) \notin net /\ net' = net \union {WarningPacket(w)}
  /\ sends' = [sends EXCEPT ![w] = @ + 1]
  /\ UNCHANGED <<acked, acks, losses, udpVars, queueVars>>

\* Keepalive packets, and those that check_pack knows nothing of; bound: one of
\* them on the way.
SendOther ==
  /\ net \intersect OtherPackets = {}
  /\ \E p \in OtherPackets : net' = net \union {p}
  /\ UNCHANGED <<deviceVars, acks, losses, udpVars, queueVars>>

HearAck(a) ==
  /\ acks' = acks \ {a}
  /\ acked' = acked \union {a}
  /\ UNCHANGED <<sends, net, losses, udpVars, queueVars>>

Lose ==
  /\ losses < MaxLost /\ losses' = losses + 1
  /\ \/ \E p \in net : net' = net \ {p} /\ UNCHANGED acks
     \/ \E a \in acks : acks' = acks \ {a} /\ UNCHANGED net
  /\ UNCHANGED <<deviceVars, udpVars, queueVars>>

-----------------------------------------------------------------------------
(* RecvUdp                                                                 *)

\* Faulty: only one order of the two bytes is known.
check_pack_order(head) ==
  IF head = "7E FF" THEN "WARING" ELSE IF head = "AA" THEN "-1" ELSE "KEEPALIVE"

check_pack(head) ==
  IF head \in WarningHeads THEN "WARING"
  ELSE IF head = "FF" THEN "KEEPALIVE" ELSE "-1"

\* recvfrom takes the length of sin from sin_len: it fails for ever when that is
\* negative, and leaves sin unwritten the first time when it is too short.  The
\* datagram is gone in any case.
Recvfrom(p) ==
  /\ pc = "recv"
  /\ p \in net /\ net' = net \ {p}
  /\ IF sin_len = "negative"
     THEN UNCHANGED udpVars
     ELSE /\ sin_len' = "whole"
          /\ \/ /\ check_pack(p.head) # "-1"
                /\ message' = p
                /\ sin' = IF sin_len = "short" THEN Unknown ELSE p.device
                /\ pc' = IF check_pack(p.head) = "WARING" THEN "ack" ELSE "check"
             \/ check_pack(p.head) = "-1" /\ UNCHANGED <<pc, message, sin>>
  /\ UNCHANGED <<deviceVars, acks, losses, queueVars>>

Sendto ==
  /\ pc = "ack"
  /\ pc' = "push"
  /\ acks' = IF sin = Unknown THEN acks
             ELSE acks \union {[device |-> sin, fnum |-> message.fnum]}
  /\ UNCHANGED <<deviceVars, net, losses, message, sin, sin_len, queueVars>>

Done ==
  /\ pc' = "recv" /\ message' = Unknown /\ sin' = Unknown
  /\ UNCHANGED <<deviceVars, net, acks, losses, sin_len>>

Push(r) == log' = Append(log, r) /\ Jlist!Push("jlist")

\* Faulty: a packet with the number of the one before counts as its repetition.
AddOnlyNew ==
  /\ pc = "push"
  /\ Done
  /\ IF log # << >> /\ log[Len(log)].fnum = message.fnum
     THEN UNCHANGED queueVars
     ELSE Push([device |-> message.device, fnum |-> message.fnum])

\* decomp, which knows every packet that check_pack takes for a warning, and
\* add_json_str.
Add ==
  /\ pc = "push"
  /\ Done
  /\ Push([device |-> message.device, fnum |-> message.fnum])

\* A node that was taken for disconnected is reported back; none is found for an
\* address that was not written.
Status(d) == [device |-> d, fnum |-> 0]

CheckClient ==
  /\ pc = "check"
  /\ Done
  /\ \/ UNCHANGED queueVars
     \/ /\ sin # Unknown
        /\ Cardinality({i \in DOMAIN log : log[i].fnum = 0}) < MaxStatus
        /\ Push(Status(sin))

RecvUdp == (\E p \in Packets : Recvfrom(p)) \/ Sendto \/ Add \/ CheckClient

ConsumerTask ==
  /\ Jlist!HandOver("jlist")
  /\ UNCHANGED <<deviceVars, net, acks, losses, udpVars, log>>

-----------------------------------------------------------------------------
Next ==
  \/ \E w \in Warnings : Transmit(w)
  \/ SendOther
  \/ \E a \in acks : HearAck(a)
  \/ Lose
  \/ RecvUdp
  \/ ConsumerTask

Spec == Init /\ [][Next]_vars

\* Devices repeat what was not acknowledged, RecvUdp receives what arrives, each
\* packet in its time, and jlist is drained.
Fairness ==
  /\ \A w \in Warnings : WF_vars(sends[w] > 0 /\ Transmit(w))
  /\ \A w \in Warnings : SF_vars(Recvfrom(WarningPacket(w)))
  /\ WF_vars(Sendto) /\ WF_vars(Add) /\ WF_vars(CheckClient)
  /\ WF_vars(ConsumerTask)

FairSpec == Spec /\ Fairness

-----------------------------------------------------------------------------
(* Properties                                                              *)

TypeOK ==
  /\ acked \subseteq Warnings /\ acks \subseteq Warnings
  /\ sends \in [Warnings -> 0 .. MaxSends] /\ losses \in 0 .. MaxLost
  /\ net \subseteq Packets /\ message \in Packets \union {Unknown}
  /\ sin \in Devices \union {Unknown} /\ sin_len \in {"negative", "short", "whole"}
  /\ pc \in {"recv", "ack", "push", "check"}
  /\ log \in Seq(Warnings \union {Status(d) : d \in Devices})
  /\ pushed = [q \in {"jlist"} |-> Len(log)]

\* The warning RecvUdp has acknowledged and not yet pushed.
InHand(w) == pc = "push" /\ message.device = w.device /\ message.fnum = w.fnum

Records(w) == {i \in DOMAIN log : log[i] = w}

\* A number that is on its way back, or has come back and stopped its device from
\* sending, belongs to a warning that is in jlist, was handed over, or is the one
\* RecvUdp is about to push: no acknowledgement is for a warning that was dropped,
\* also where two devices use the same number.
AckedIsKept == \A w \in acks \union acked : InHand(w) \/ Records(w) # {}

\* The packet RecvUdp works on, when it is a warning, is that of a device, and if
\* an address was written it is the same device's.
Received ==
  pc \in {"ack", "push"} =>
    \E w \in Warnings : message = WarningPacket(w) /\ sin \in {w.device, Unknown}

\* The transmissions of w that are on the way or in hand.
OnTheWay(w) == IF WarningPacket(w) \in net THEN 1 ELSE 0
BeingRead(w) == IF pc \in {"ack", "push"} /\ message = WarningPacket(w) THEN 1 ELSE 0

\* Each record of a warning, each packet on the way and the one in hand comes from a
\* transmission of its own: a warning that was sent again may come twice, but never
\* more often than it was sent, and none comes that no device raised.
OncePerPacket ==
  \A w \in Warnings :
    Cardinality(Records(w)) + OnTheWay(w) + BeingRead(w) <= sends[w]

\* What RecvUdp acknowledges is kept, and recorded as often as it was sent at most: the
\* inductive invariant of the module.
AlarmInv == TypeOK /\ Received /\ AckedIsKept /\ OncePerPacket

\* A warning that is sent once reaches the web server, although datagrams are lost
\* and overtake one another: unless sin_len happened to be negative.
AlarmArrives ==
  \A w \in Warnings :
    sends[w] > 0 /\ sin_len # "negative"
      ~> \E i \in Records(w) : i <= sent["jlist"]

=============================================================================
