----------------------------- MODULE ServersProofs -----------------------------
(***************************************************************************)
(* Proofs about Servers: until a select is interrupted the two Modbus      *)
(* servers keep to their own descriptors and their memory, and select is   *)
(* always told of every descriptor a server watches, for any number of     *)
(* servers, descriptors and interrupts.                                    *)
(***************************************************************************)
EXTENDS Servers, WellFoundedInduction, TLAPS

Pcs == {"new", "map", "clear", "listen", "exit", "select", "close", "pass", "receive"}

\* A set of numbers has a least element, so the kernel finds a free descriptor
\* wherever there is one.
LEMMA MinIsIn ==
  ASSUME NEW S \in SUBSET Nat, S # {}
  PROVE  Min(S) \in S /\ \A y \in S : Min(S) <= y
  <1>1. IsWellFoundedOn(OpToRel(<, Nat), Nat)
    BY NatLessThanWellFounded
  <1>2. PICK x \in S : \A y \in S : ~(<<y, x>> \in OpToRel(<, Nat))
    BY <1>1, WFMin
  <1>3. \A y \in S : ~(y < x)
    BY <1>2 DEF OpToRel
  <1>4. \A y \in S : x <= y
    BY <1>3
  <1> QED BY <1>4 DEF Min

LEMMA FdsAreNats == Fds \subseteq Nat /\ \A d \in Fds : d - 1 \in Fds \union {-1}
  BY ServersAssumption DEF Fds

LEMMA FreeFd ==
  ASSUME Closed # {}
  PROVE  Min(Closed) \in Fds /\ owner[Min(Closed)] = "closed"
  <1>1. Closed \in SUBSET Nat
    BY FdsAreNats DEF Closed
  <1>2. Min(Closed) \in Closed
    BY <1>1, MinIsIn
  <1> QED BY <1>2 DEF Closed

\* Opening and closing keep the table of descriptors a table.
LEMMA OpensType ==
  ASSUME TypeOK, NEW w \in Servers \union {"other"}, NEW d \in Fds, Opens(w, d)
  PROVE  /\ owner[d] = "closed" /\ owner' = [owner EXCEPT ![d] = w]
         /\ owner' \in [Fds -> Servers \union {"closed", "other"}]
         /\ data' \subseteq Fds \ Closed'
         /\ interrupts' = interrupts
  <1>1. owner[d] = "closed" /\ owner' = [owner EXCEPT ![d] = w] /\ data' = data
    BY FreeFd DEF Opens
  <1>2. owner' \in [Fds -> Servers \union {"closed", "other"}]
    BY <1>1 DEF TypeOK
  <1>3. Closed' \subseteq Closed
    BY <1>1, ServersAssumption DEF Closed, TypeOK
  <1> QED BY <1>1, <1>2, <1>3 DEF TypeOK, Opens

LEMMA ClosingType ==
  ASSUME TypeOK, NEW d \in Fds,
         owner' = [owner EXCEPT ![d] = "closed"], data' = data \ {d}
  PROVE  /\ owner' \in [Fds -> Servers \union {"closed", "other"}]
         /\ data' \subseteq Fds \ Closed'
  <1>1. owner' \in [Fds -> Servers \union {"closed", "other"}]
    BY DEF TypeOK
  <1>2. Closed' = Closed \union {d}
    BY DEF Closed, TypeOK
  <1> QED BY <1>1, <1>2 DEF TypeOK

-----------------------------------------------------------------------------
(* The types                                                               *)

\* The fields of TypeOK in groups, so that a step is asked for what it changes.
PcOK == pc \in [Servers -> Pcs]
HeapOK ==
  /\ ctx \in [Servers -> {"null", "live"}] /\ held \in [Servers -> {"null", "live"}]
  /\ mapping \in [Servers -> {"null", "live", "freed"}]
  /\ freeing \in [Servers -> SUBSET Objects]
  /\ harm \in {"no", "descriptor", "context", "mapping"}
SetsOK ==
  /\ server_socket \in [Servers -> Fds \union {-1}]
  /\ refset \in [Servers -> SUBSET Fds] /\ rdset \in [Servers -> SUBSET Fds]
  /\ fdmax \in [Servers -> Fds \union {-1}]
KernelOK ==
  /\ owner \in [Fds -> Servers \union {"closed", "other"}]
  /\ data \subseteq Fds \ Closed
  /\ interrupts \in 0 .. MaxInterrupts

LEMMA TypeParts == TypeOK <=> PcOK /\ HeapOK /\ SetsOK /\ KernelOK
  BY DEF TypeOK, PcOK, Pcs, HeapOK, SetsOK, KernelOK

LEMMA TypePartsNext == PcOK' /\ HeapOK' /\ SetsOK' /\ KernelOK' => TypeOK'
  BY DEF TypeOK, PcOK, Pcs, HeapOK, SetsOK, KernelOK

LEMMA StartType ==
  ASSUME TypeOK, NEW s \in Servers, Start(s) PROVE TypeOK'
  <1>0. PcOK /\ HeapOK /\ SetsOK /\ KernelOK
    BY TypeParts
  <1>1. PcOK'
    BY <1>0 DEF PcOK, Pcs, Start, New, NewMapping, Clear, Listen, ListenFails, Goto
  <1>2. CASE New(s)
    BY <1>0, <1>1, <1>2, TypePartsNext DEF New, HeapOK, SetsOK, KernelOK, kernel, Closed
  <1>3. CASE NewMapping(s)
    BY <1>0, <1>1, <1>3, TypePartsNext DEF NewMapping, HeapOK, SetsOK, KernelOK, kernel, Closed
  <1>4. CASE Clear(s)
    BY <1>0, <1>1, <1>4, TypePartsNext DEF Clear, HeapOK, SetsOK, KernelOK, kernel, globals, Closed
  <1>5. CASE Listen(s)
    <2>1. PICK d \in Fds :
            /\ Opens(s, d)
            /\ server_socket' = [server_socket EXCEPT ![s] = d]
            /\ refset' = [refset EXCEPT ![s] = {d}]
            /\ fdmax' = [fdmax EXCEPT ![s] = d]
      BY <1>5 DEF Listen
    <2>2. SetsOK'
      BY <1>0, <1>5, <2>1 DEF Listen, SetsOK
    <2>3. KernelOK'
      BY <1>0, <2>1, OpensType DEF KernelOK
    <2> QED BY <1>0, <1>1, <1>5, <2>2, <2>3, TypePartsNext DEF Listen, HeapOK
  <1>6. CASE ListenFails(s)
    BY <1>0, <1>1, <1>6, TypePartsNext DEF ListenFails, HeapOK, SetsOK, KernelOK, kernel, Closed
  <1> QED BY <1>2, <1>3, <1>4, <1>5, <1>6 DEF Start

LEMMA SelectType ==
  ASSUME TypeOK, NEW s \in Servers, Select(s) \/ SelectFails(s) PROVE TypeOK'
  <1>0. PcOK /\ HeapOK /\ SetsOK /\ KernelOK
    BY TypeParts
  <1>1. PcOK'
    BY <1>0 DEF PcOK, Pcs, Select, SelectFails, Goto
  <1>2. CASE Select(s)
    <2>1. Ready(s) \subseteq Fds
      BY <1>0 DEF SetsOK, Ready
    <2> QED BY <1>0, <1>1, <1>2, <2>1, TypePartsNext
            DEF Select, HeapOK, SetsOK, KernelOK, kernel, globals, Closed
  <1>3. CASE SelectFails(s)
    <2>1. interrupts' \in 0 .. MaxInterrupts
      BY <1>0, <1>3, ServersAssumption DEF SelectFails, KernelOK
    <2>2. HeapOK' /\ SetsOK'
      BY <1>0, <1>3 DEF SelectFails, HeapOK, SetsOK, globals
    <2>3. KernelOK'
      BY <1>0, <1>3, <2>1 DEF SelectFails, KernelOK, Closed
    <2> QED BY <1>1, <2>2, <2>3, TypePartsNext
  <1> QED BY <1>2, <1>3

LEMMA CloseType ==
  ASSUME TypeOK, NEW s \in Servers, close_sigint(s) PROVE TypeOK'
  <1>0. PcOK /\ HeapOK /\ SetsOK /\ KernelOK
    BY TypeParts
  <1>1. PcOK'
    BY <1>0 DEF PcOK, Pcs, close_sigint, Goto
  <1>2. PICK o \in freeing[s] :
          /\ \/ o[1] = "socket" /\ CloseSocket(o[2])
             \/ /\ o[1] = "context"
                /\ ctx' = [ctx EXCEPT ![o[2]] = "null"]
                /\ UNCHANGED <<mapping, server_socket, kernel, harm>>
             \/ o[1] = "mapping" /\ FreeMapping(o[2])
          /\ freeing' = [freeing EXCEPT ![s] = @ \ {o}]
    BY DEF close_sigint
  <1>3. o \in Objects /\ o[2] \in Servers
    BY <1>0 DEF HeapOK, Objects
  <1>4. freeing' \in [Servers -> SUBSET Objects]
    BY <1>0, <1>2 DEF HeapOK
  <1>5. UNCHANGED <<refset, rdset, fdmax, held>>
    BY DEF close_sigint
  <1>6. CASE CloseSocket(o[2])
    <2> DEFINE d == server_socket[o[2]]
    <2>1. CASE d = -1
      BY <1>0, <1>1, <1>4, <1>5, <1>6, <2>1, TypePartsNext
         DEF CloseSocket, HeapOK, SetsOK, KernelOK, kernel, globals, Closed
    <2>2. CASE d # -1
      <3>1. d \in Fds
        BY <1>0, <1>3, <2>2 DEF SetsOK
      <3>2. /\ owner' = [owner EXCEPT ![d] = "closed"] /\ data' = data \ {d}
            /\ server_socket' = [server_socket EXCEPT ![o[2]] = -1]
            /\ UNCHANGED <<ctx, mapping, interrupts, harm>>
        BY <1>6, <2>2 DEF CloseSocket
      <3>3. KernelOK'
        BY <1>0, <3>1, <3>2, ClosingType DEF KernelOK
      <3>4. SetsOK' /\ HeapOK'
        BY <1>0, <1>3, <1>4, <1>5, <3>2 DEF SetsOK, HeapOK
      <3> QED BY <1>1, <3>3, <3>4, TypePartsNext
    <2> QED BY <2>1, <2>2
  <1>7. CASE ctx' = [ctx EXCEPT ![o[2]] = "null"] /\ UNCHANGED <<mapping, server_socket, kernel, harm>>
    BY <1>0, <1>1, <1>3, <1>4, <1>5, <1>7, TypePartsNext DEF HeapOK, SetsOK, KernelOK, kernel, Closed
  <1>8. CASE FreeMapping(o[2])
    BY <1>0, <1>1, <1>3, <1>4, <1>5, <1>8, TypePartsNext
       DEF FreeMapping, HeapOK, SetsOK, KernelOK, kernel, Closed
  <1> QED BY <1>2, <1>6, <1>7, <1>8

LEMMA LoopType ==
  ASSUME TypeOK, NEW s \in Servers, Loop(s) PROVE TypeOK'
  <1>0. PcOK /\ HeapOK /\ SetsOK /\ KernelOK
    BY TypeParts
  <1>1. PcOK'
    BY <1>0 DEF PcOK, Pcs, Loop, Accept, AcceptFails, Receive, Received, Disconnected,
                ReceivesFreed, PassEnd, Goto, own
  <1>2. CASE Accept(s)
    <2>1. PICK d \in Fds, n \in Fds :
            /\ Closed # {} /\ n = Min(Closed)
            /\ owner' = [owner EXCEPT ![n] = s]
            /\ data' = data \ {d}
            /\ rdset' = [rdset EXCEPT ![s] = @ \ {d}]
            /\ refset' = [refset EXCEPT ![s] = @ \union {n}]
            /\ fdmax' = [fdmax EXCEPT ![s] = MaxWith(s, n)]
      BY <1>2 DEF Accept
    <2>2. MaxWith(s, n) \in Fds \union {-1}
      BY <1>0 DEF MaxWith, SetsOK
    <2>3. SetsOK'
      BY <1>0, <1>2, <2>1, <2>2 DEF Accept, SetsOK, globals
    <2>4. owner[n] = "closed"
      BY <2>1, FreeFd
    <2>5. Closed' \subseteq Closed
      BY <1>0, <2>1, <2>4, ServersAssumption DEF Closed, KernelOK
    <2>6. KernelOK'
      BY <1>0, <1>2, <2>1, <2>5 DEF Accept, KernelOK
    <2>7. HeapOK'
      BY <1>0, <1>2 DEF Accept, HeapOK, globals
    <2> QED BY <1>1, <2>3, <2>6, <2>7, TypePartsNext
  <1>3. CASE AcceptFails(s)
    <2>1. SetsOK'
      BY <1>0, <1>3 DEF AcceptFails, SetsOK, globals
    <2>2. KernelOK' /\ HeapOK'
      BY <1>0, <1>3 DEF AcceptFails, KernelOK, HeapOK, globals, Closed
    <2> QED BY <1>1, <2>1, <2>2, TypePartsNext
  <1>4. CASE Receive(s)
    <2>1. HeapOK'
      BY <1>0, <1>4 DEF Receive, HeapOK, globals
    <2>2. SetsOK' /\ KernelOK'
      BY <1>0, <1>4 DEF Receive, SetsOK, KernelOK, kernel, globals, Closed
    <2> QED BY <1>1, <2>1, <2>2, TypePartsNext
  <1>5. CASE Received(s)
    <2>1. SetsOK'
      BY <1>0, <1>5 DEF Received, SetsOK, globals
    <2>2. KernelOK'
      BY <1>0, <1>5 DEF Received, KernelOK, Closed
    <2>3. HeapOK'
      BY <1>0, <1>5 DEF Received, HeapOK, globals
    <2> QED BY <1>1, <2>1, <2>2, <2>3, TypePartsNext
  <1>6. CASE Disconnected(s)
    <2>1. PICK d \in rdset[s] :
            /\ Closes(s, d)
            /\ refset' = [refset EXCEPT ![s] = ClearRef(s, d)]
            /\ fdmax' = [fdmax EXCEPT ![s] = Drop(s, d)]
            /\ rdset' = [rdset EXCEPT ![s] = @ \ {d}]
      BY <1>6 DEF Disconnected
    <2>2. d \in Fds
      BY <1>0 DEF SetsOK
    <2>3. Drop(s, d) \in Fds \union {-1}
      BY <1>0, <2>2, FdsAreNats DEF Drop, SetsOK
    <2>4. SetsOK'
      BY <1>0, <1>6, <2>1, <2>3 DEF Disconnected, SetsOK, globals, ClearRef
    <2>5. KernelOK'
      BY <1>0, <2>1, <2>2, ClosingType DEF Closes, KernelOK
    <2>6. HeapOK'
      BY <1>0, <1>6, <2>1 DEF Disconnected, Closes, HeapOK, globals
    <2> QED BY <1>1, <2>4, <2>5, <2>6, TypePartsNext
  <1>7. CASE ReceivesFreed(s)
    <2>1. HeapOK'
      BY <1>0, <1>7 DEF ReceivesFreed, HeapOK, globals, own
    <2>2. SetsOK' /\ KernelOK'
      BY <1>0, <1>7 DEF ReceivesFreed, SetsOK, KernelOK, kernel, globals, own, Closed
    <2> QED BY <1>1, <2>1, <2>2, TypePartsNext
  <1>8. CASE PassEnd(s)
    <2>1. HeapOK' /\ SetsOK' /\ KernelOK'
      BY <1>0, <1>8 DEF PassEnd, HeapOK, SetsOK, KernelOK, kernel, globals, Closed
    <2> QED BY <1>1, <2>1, TypePartsNext
  <1> QED BY <1>2, <1>3, <1>4, <1>5, <1>6, <1>7, <1>8 DEF Loop

\* Another thread, or a client.
LEMMA OthersType ==
  ASSUME TypeOK, OtherOpens \/ OtherCloses \/ Arrives PROVE TypeOK'
  <1>0. PcOK /\ HeapOK /\ SetsOK /\ KernelOK
    BY TypeParts
  <1>1. PcOK' /\ HeapOK' /\ SetsOK'
    BY <1>0 DEF OtherOpens, OtherCloses, Arrives, PcOK, HeapOK, SetsOK, own, globals
  <1>2. CASE OtherOpens
    <2>1. PICK d \in Fds : Opens("other", d)
      BY <1>2 DEF OtherOpens
    <2>2. KernelOK'
      BY <1>0, <2>1, OpensType DEF KernelOK
    <2> QED BY <1>1, <2>2, TypePartsNext
  <1>3. CASE OtherCloses
    <2>1. PICK d \in Fds : owner' = [owner EXCEPT ![d] = "closed"] /\ data' = data \ {d}
      BY <1>3 DEF OtherCloses
    <2>2. KernelOK'
      BY <1>0, <1>3, <2>1, ClosingType DEF OtherCloses, KernelOK
    <2> QED BY <1>1, <2>2, TypePartsNext
  <1>4. CASE Arrives
    <2>1. PICK d \in (UNION {refset[s] : s \in Servers}) \ (Closed \union data) :
            data' = data \union {d}
      BY <1>4 DEF Arrives
    <2>2. d \in Fds \ Closed
      <3>1. PICK t \in Servers : d \in refset[t]
        BY <2>1
      <3>2. refset[t] \subseteq Fds
        BY <1>0 DEF SetsOK
      <3> QED BY <2>1, <3>1, <3>2
    <2>3. Closed' = Closed /\ owner' = owner /\ interrupts' = interrupts
      BY <1>4 DEF Arrives, Closed
    <2>4. KernelOK'
      BY <1>0, <2>1, <2>2, <2>3 DEF KernelOK
    <2> QED BY <1>1, <2>4, TypePartsNext
  <1> QED BY <1>2, <1>3, <1>4

LEMMA InitType == Init => TypeOK
  BY ServersAssumption DEF Init, TypeOK, Objects, Fds, Closed

LEMMA NextType == TypeOK /\ [Next]_vars => TypeOK'
  <1> SUFFICES ASSUME TypeOK, [Next]_vars PROVE TypeOK'
    OBVIOUS
  <1>1. CASE \E s \in Servers : Sendmod(s)
    BY <1>1, StartType, SelectType, CloseType, LoopType DEF Sendmod
  <1>2. CASE OtherOpens \/ OtherCloses \/ Arrives
    BY <1>2, OthersType
  <1>3. CASE UNCHANGED vars
    <2>1. PcOK /\ HeapOK /\ SetsOK /\ KernelOK
      BY TypeParts
    <2>2. PcOK' /\ HeapOK' /\ SetsOK' /\ KernelOK'
      BY <1>3, <2>1 DEF vars, own, globals, kernel, PcOK, HeapOK, SetsOK, KernelOK, Closed
    <2> QED BY <2>2, TypePartsNext
  <1> QED BY <1>1, <1>2, <1>3 DEF Next

-----------------------------------------------------------------------------
(* Every watched descriptor is within select's reach                       *)

LEMMA FdsCovered ==
  ASSUME TypeOK, FdCovered, [Next]_vars PROVE FdCovered'
  <1>0. /\ refset \in [Servers -> SUBSET Fds]
        /\ fdmax \in [Servers -> Fds \union {-1}] /\ Fds \subseteq Int
    BY FdsAreNats DEF TypeOK
  <1>1. CASE UNCHANGED <<refset, fdmax>>
    BY <1>1 DEF FdCovered
  <1>2. ASSUME NEW s \in Servers, Listen(s) PROVE FdCovered'
    <2>1. PICK d \in Fds : /\ refset' = [refset EXCEPT ![s] = {d}]
                           /\ fdmax' = [fdmax EXCEPT ![s] = d]
      BY <1>2 DEF Listen
    <2> QED BY <1>0, <2>1 DEF FdCovered
  <1>3. ASSUME NEW s \in Servers, Accept(s) PROVE FdCovered'
    <2>1. PICK n \in Fds : /\ refset' = [refset EXCEPT ![s] = @ \union {n}]
                           /\ fdmax' = [fdmax EXCEPT ![s] = MaxWith(s, n)]
      BY <1>3 DEF Accept
    <2>2. n \in Int /\ fdmax[s] \in Int /\ refset[s] \subseteq Int
      <3>1. fdmax[s] \in Fds \union {-1} /\ refset[s] \subseteq Fds
        BY <1>0
      <3>2. Fds \union {-1} \subseteq Int
        BY FdsAreNats
      <3> QED BY <3>1, <3>2
    <2>3. n <= MaxWith(s, n) /\ \A e \in refset[s] : e <= MaxWith(s, n)
      BY <2>2 DEF MaxWith, FdCovered
    <2>4. \A e \in refset'[s] : e <= fdmax'[s]
      BY <1>0, <2>1, <2>3
    <2>5. \A t \in Servers \ {s} : refset'[t] = refset[t] /\ fdmax'[t] = fdmax[t]
      BY <1>0, <2>1
    <2> QED BY <2>4, <2>5 DEF FdCovered
  <1>4. ASSUME NEW s \in Servers, Disconnected(s) PROVE FdCovered'
    <2>1. PICK d \in rdset[s] : /\ refset' = [refset EXCEPT ![s] = refset[s] \ {d}]
                                /\ fdmax' = [fdmax EXCEPT ![s] = Drop(s, d)]
      BY <1>4 DEF Disconnected, ClearRef
    <2>2. d \in Fds
      BY DEF TypeOK
    <2>3. \A e \in refset[s] \ {d} : e <= Drop(s, d)
      BY <1>0, <2>2 DEF FdCovered, Drop
    <2> QED BY <1>0, <2>1, <2>3 DEF FdCovered
  <1>5. ASSUME NEW s \in Servers, Sendmod(s) PROVE FdCovered'
    BY <1>1, <1>2, <1>3, <1>4, <1>5
       DEF Sendmod, Start, Loop, New, NewMapping, Clear, ListenFails, Select, SelectFails,
           close_sigint, AcceptFails, Receive, Received, ReceivesFreed, PassEnd, own
  <1>6. CASE OtherOpens \/ OtherCloses \/ Arrives \/ UNCHANGED vars
    BY <1>1, <1>6 DEF OtherOpens, OtherCloses, Arrives, vars, own
  <1> QED BY <1>5, <1>6 DEF Next

-----------------------------------------------------------------------------
(* Nothing is disturbed before an interrupt                                *)

\* A descriptor that changes hands without t's having had or getting it.
LEMMA OwnKept ==
  ASSUME TypeOK, NEW t \in Servers, NEW d \in Fds, NEW w,
         owner' = [owner EXCEPT ![d] = w], owner[d] # t, w # t
  PROVE  {e \in Fds : owner'[e] = t} = {e \in Fds : owner[e] = t}
  BY DEF TypeOK

\* Listening takes a free descriptor, so nobody else loses one.
LEMMA StartInOrder ==
  ASSUME TypeOK, NEW s \in Servers, Start(s), harm = "no", \A t \in Servers : InOrder(t)
  PROVE  harm' = "no" /\ \A t \in Servers : InOrder(t)'
  <1>0. PcOK /\ HeapOK /\ SetsOK /\ KernelOK
    BY TypeParts
  <1>1. InOrder(s)
    OBVIOUS
  <1>2. CASE ~Listen(s)
    <2>1. harm' = "no"
      BY <1>1, <1>2 DEF Start, New, NewMapping, Clear, ListenFails, InOrder
    <2>2. UNCHANGED <<refset, rdset, owner>>
      BY <1>2 DEF Start, New, NewMapping, Clear, ListenFails, kernel
    <2>3. pc[s] \in {"new", "map", "clear", "listen"}
      BY <1>2 DEF Start, New, NewMapping, Clear, ListenFails
    <2>4. pc'[s] \in {"map", "clear", "listen", "exit"}
      BY <1>0, <1>2 DEF Start, New, NewMapping, Clear, ListenFails, Goto, PcOK, Pcs
    <2>5. mapping'[s] # "freed"
      BY <1>0, <1>1, <1>2 DEF Start, New, NewMapping, Clear, ListenFails, globals, HeapOK, InOrder
    <2>6. InOrder(s)'
      BY <1>1, <2>2, <2>3, <2>4, <2>5 DEF InOrder
    <2>7. \A t \in Servers \ {s} : pc'[t] = pc[t] /\ mapping'[t] = mapping[t] /\ ctx'[t] = ctx[t]
      BY <1>0, <1>2 DEF Start, New, NewMapping, Clear, ListenFails, Goto, globals, PcOK, HeapOK
    <2>8. \A t \in Servers \ {s} : InOrder(t)'
      BY <2>2, <2>7 DEF InOrder
    <2> QED BY <2>1, <2>6, <2>8
  <1>3. CASE Listen(s)
    <2>1. PICK d \in Fds : Opens(s, d) /\ refset' = [refset EXCEPT ![s] = {d}]
      BY <1>3 DEF Listen
    <2>2. owner[d] = "closed" /\ owner' = [owner EXCEPT ![d] = s]
      BY <2>1, OpensType
    <2>3. /\ pc[s] = "listen" /\ pc' = [pc EXCEPT ![s] = "select"] /\ ctx[s] = "live"
          /\ UNCHANGED <<rdset, ctx, mapping, harm>>
      BY <1>3 DEF Listen, Goto
    <2>4. {e \in Fds : owner[e] = s} = {} /\ rdset[s] = {}
      BY <1>1, <2>3 DEF InOrder
    <2>5. {e \in Fds : owner'[e] = s} = {d}
      BY <1>0, <2>2, <2>4 DEF KernelOK
    <2>6. InOrder(s)'
      BY <1>0, <1>1, <2>1, <2>3, <2>4, <2>5 DEF InOrder, PcOK, SetsOK
    <2>7. ASSUME NEW t \in Servers \ {s} PROVE InOrder(t)'
      <3>1. owner[d] # t /\ s # t
        BY <2>2, ServersAssumption
      <3>2. {e \in Fds : owner'[e] = t} = {e \in Fds : owner[e] = t}
        BY <2>2, <3>1, OwnKept
      <3>3. pc'[t] = pc[t] /\ refset'[t] = refset[t]
        BY <1>0, <2>1, <2>3 DEF PcOK, SetsOK
      <3> QED BY <2>3, <3>2, <3>3 DEF InOrder
    <2> QED BY <2>3, <2>6, <2>7
  <1> QED BY <1>2, <1>3

\* Without an interrupt no set that select is given has a closed descriptor, so no
\* select fails and nothing is torn down.
LEMMA SelectInOrder ==
  ASSUME TypeOK, NEW s \in Servers, Select(s) \/ SelectFails(s), interrupts' = 0,
         harm = "no", \A t \in Servers : InOrder(t)
  PROVE  harm' = "no" /\ \A t \in Servers : InOrder(t)'
  <1>0. PcOK /\ HeapOK /\ SetsOK /\ KernelOK
    BY TypeParts
  <1>1. InOrder(s)
    OBVIOUS
  <1>2. refset[s] \intersect Closed = {}
    BY <1>1, ServersAssumption DEF InOrder, Closed
  <1>3. ~SelectFails(s)
    BY <1>0, <1>2 DEF SelectFails, KernelOK
  <1>4. /\ pc' = [pc EXCEPT ![s] = "pass"] /\ pc[s] = "select"
        /\ rdset' = [rdset EXCEPT ![s] = Ready(s)]
        /\ UNCHANGED <<mapping, refset, ctx, owner, harm>>
    BY <1>3 DEF Select, Goto, globals, kernel
  <1>5. Ready(s) \subseteq refset[s]
    BY DEF Ready
  <1>6. InOrder(s)'
    BY <1>0, <1>1, <1>4, <1>5 DEF InOrder, PcOK, SetsOK
  <1>7. ASSUME NEW t \in Servers \ {s} PROVE InOrder(t)'
    <2>1. pc'[t] = pc[t] /\ rdset'[t] = rdset[t]
      BY <1>0, <1>4 DEF PcOK, SetsOK
    <2> QED BY <1>4, <2>1 DEF InOrder
  <1> QED BY <1>4, <1>6, <1>7

\* In the loop a server gains what it accepts and closes only what it watches.
LEMMA LoopInOrder ==
  ASSUME TypeOK, NEW s \in Servers, Loop(s), harm = "no", \A t \in Servers : InOrder(t)
  PROVE  harm' = "no" /\ \A t \in Servers : InOrder(t)'
  <1>0. PcOK /\ HeapOK /\ SetsOK /\ KernelOK
    BY TypeParts
  <1>1. InOrder(s)
    OBVIOUS
  <1>2. /\ pc[s] \in {"pass", "receive"} /\ pc'[s] \in {"select", "pass", "receive"}
        /\ \A t \in Servers \ {s} : pc'[t] = pc[t]
        /\ UNCHANGED <<ctx, mapping>>
    BY <1>0 DEF Loop, Accept, AcceptFails, Receive, Received, Disconnected, ReceivesFreed,
                PassEnd, At, Goto, globals, own, PcOK
  <1>3. ctx[s] = "live"
    BY <1>1, <1>2 DEF InOrder
  <1>4. CASE Accept(s)
    <2>1. PICK d \in Fds, n \in Fds :
            /\ Closed # {} /\ n = Min(Closed)
            /\ owner' = [owner EXCEPT ![n] = s]
            /\ rdset' = [rdset EXCEPT ![s] = @ \ {d}]
            /\ refset' = [refset EXCEPT ![s] = @ \union {n}]
      BY <1>4 DEF Accept
    <2>2. owner[n] = "closed" /\ harm' = harm
      BY <1>4, <2>1, FreeFd DEF Accept
    <2>3. {e \in Fds : owner'[e] = s} = {e \in Fds : owner[e] = s} \union {n}
      BY <1>0, <2>1 DEF KernelOK
    <2>4. InOrder(s)'
      BY <1>0, <1>1, <1>2, <1>3, <2>1, <2>3 DEF InOrder, SetsOK
    <2>5. ASSUME NEW t \in Servers \ {s} PROVE InOrder(t)'
      <3>1. owner[n] # t /\ s # t
        BY <2>2, ServersAssumption
      <3>2. {e \in Fds : owner'[e] = t} = {e \in Fds : owner[e] = t}
        BY <2>1, <3>1, OwnKept
      <3>3. rdset'[t] = rdset[t] /\ refset'[t] = refset[t]
        BY <1>0, <2>1 DEF SetsOK
      <3> QED BY <1>2, <3>2, <3>3 DEF InOrder
    <2> QED BY <2>2, <2>4, <2>5
  <1>5. CASE Disconnected(s)
    <2>1. PICK d \in rdset[s] :
            /\ Closes(s, d)
            /\ refset' = [refset EXCEPT ![s] = refset[s] \ {d}]
            /\ rdset' = [rdset EXCEPT ![s] = @ \ {d}]
      BY <1>5 DEF Disconnected, ClearRef
    <2>2. d \in Fds /\ owner[d] = s
      BY <1>1, <2>1 DEF InOrder
    <2>3. owner' = [owner EXCEPT ![d] = "closed"] /\ harm' = harm
      BY <2>1, <2>2 DEF Closes
    <2>4. {e \in Fds : owner'[e] = s} = {e \in Fds : owner[e] = s} \ {d}
      BY <1>0, <2>2, <2>3, ServersAssumption DEF KernelOK
    <2>5. InOrder(s)'
      BY <1>0, <1>1, <1>2, <1>3, <2>1, <2>4 DEF InOrder, SetsOK
    <2>6. ASSUME NEW t \in Servers \ {s} PROVE InOrder(t)'
      <3>1. owner[d] # t /\ "closed" # t
        BY <2>2, ServersAssumption
      <3>2. {e \in Fds : owner'[e] = t} = {e \in Fds : owner[e] = t}
        BY <2>2, <2>3, <3>1, OwnKept
      <3>3. rdset'[t] = rdset[t] /\ refset'[t] = refset[t]
        BY <1>0, <2>1 DEF SetsOK
      <3> QED BY <1>2, <3>2, <3>3 DEF InOrder
    <2> QED BY <2>3, <2>5, <2>6
  <1>6. CASE AcceptFails(s) \/ Receive(s) \/ Received(s) \/ PassEnd(s)
    <2>1. UNCHANGED <<refset, owner, harm>>
      BY <1>6 DEF AcceptFails, Receive, Received, PassEnd, kernel
    <2>2. \A t \in Servers : rdset'[t] \subseteq rdset[t]
      BY <1>0, <1>6 DEF AcceptFails, Receive, Received, PassEnd, SetsOK
    <2>3. InOrder(s)'
      BY <1>1, <1>2, <1>3, <2>1, <2>2 DEF InOrder
    <2>4. \A t \in Servers \ {s} : InOrder(t)'
      BY <1>2, <2>1, <2>2 DEF InOrder
    <2> QED BY <2>1, <2>3, <2>4
  <1>7. ~ReceivesFreed(s)
    BY <1>3 DEF ReceivesFreed
  <1> QED BY <1>4, <1>5, <1>6, <1>7 DEF Loop

LEMMA OthersInOrder ==
  ASSUME TypeOK, OtherOpens \/ OtherCloses \/ Arrives, harm = "no",
         \A t \in Servers : InOrder(t)
  PROVE  harm' = "no" /\ \A t \in Servers : InOrder(t)'
  <1>1. UNCHANGED <<pc, mapping, refset, rdset, ctx, harm>>
    BY DEF OtherOpens, OtherCloses, Arrives, own, globals
  <1>2. ASSUME NEW t \in Servers
        PROVE  {e \in Fds : owner'[e] = t} = {e \in Fds : owner[e] = t}
    <2>1. "closed" # t /\ "other" # t
      BY ServersAssumption
    <2>2. CASE OtherOpens
      <3>1. PICK d \in Fds : Opens("other", d)
        BY <2>2 DEF OtherOpens
      <3>2. owner[d] = "closed" /\ owner' = [owner EXCEPT ![d] = "other"]
        BY <3>1, OpensType
      <3> QED BY <2>1, <3>2, OwnKept
    <2>3. CASE OtherCloses
      <3>1. PICK d \in Fds : owner[d] = "other" /\ owner' = [owner EXCEPT ![d] = "closed"]
        BY <2>3 DEF OtherCloses
      <3> QED BY <2>1, <3>1, OwnKept
    <2>4. CASE Arrives
      BY <2>4 DEF Arrives
    <2> QED BY <2>2, <2>3, <2>4
  <1> QED BY <1>1, <1>2 DEF InOrder

\* The count of interrupts never goes back, so an undisturbed state came from one.
LEMMA NextUndisturbed ==
  ASSUME TypeOK, Undisturbed, [Next]_vars PROVE Undisturbed'
  <1> SUFFICES ASSUME interrupts' = 0 PROVE harm' = "no" /\ \A s \in Servers : InOrder(s)'
    BY DEF Undisturbed
  <1>0. PcOK /\ HeapOK /\ SetsOK /\ KernelOK
    BY TypeParts
  <1>1. interrupts = 0 \/ interrupts' # interrupts
    OBVIOUS
  <1>2. CASE interrupts = 0
    <2>1. harm = "no" /\ \A s \in Servers : InOrder(s)
      BY <1>2 DEF Undisturbed
    <2>2. ASSUME NEW s \in Servers, Sendmod(s)
          PROVE  harm' = "no" /\ \A t \in Servers : InOrder(t)'
      <3>1. ~close_sigint(s)
        BY <2>1 DEF InOrder, close_sigint
      <3> QED BY <2>1, <2>2, <3>1, StartInOrder, SelectInOrder, LoopInOrder DEF Sendmod
    <2>3. CASE OtherOpens \/ OtherCloses \/ Arrives
      BY <2>1, <2>3, OthersInOrder
    <2>4. CASE UNCHANGED vars
      BY <2>1, <2>4 DEF vars, own, globals, kernel, InOrder
    <2> QED BY <2>2, <2>3, <2>4 DEF Next
  <1>3. CASE interrupts # 0
    <2>1. interrupts \in Nat \ {0}
      BY <1>0, <1>3, ServersAssumption DEF KernelOK
    <2>2. interrupts' = interrupts \/ interrupts' = interrupts + 1
      <3>1. ASSUME NEW s \in Servers, Sendmod(s)
            PROVE interrupts' = interrupts \/ interrupts' = interrupts + 1
        <4>1. CASE Start(s)
          BY <4>1 DEF Start, New, NewMapping, Clear, Listen, ListenFails, Opens, kernel
        <4>2. CASE Select(s) \/ SelectFails(s)
          BY <4>2 DEF Select, SelectFails, kernel
        <4>3. CASE close_sigint(s)
          BY <4>3 DEF close_sigint, CloseSocket, FreeMapping, kernel
        <4>4. CASE Loop(s)
          BY <4>4 DEF Loop, Accept, AcceptFails, Receive, Received, Disconnected, Closes,
                      ReceivesFreed, PassEnd, kernel
        <4> QED BY <3>1, <4>1, <4>2, <4>3, <4>4 DEF Sendmod
      <3>2. CASE OtherOpens \/ OtherCloses \/ Arrives \/ UNCHANGED vars
        BY <3>2 DEF OtherOpens, OtherCloses, Arrives, Opens, vars, kernel
      <3> QED BY <3>1, <3>2 DEF Next
    <2> QED BY <2>1, <2>2
  <1> QED BY <1>2, <1>3

-----------------------------------------------------------------------------
(* The invariant and what follows                                          *)

LEMMA InitInv == Init => ServersInv
  <1> SUFFICES ASSUME Init PROVE ServersInv
    OBVIOUS
  <1>1. TypeOK
    BY InitType
  <1>2. FdCovered
    BY DEF Init, FdCovered
  <1>3. Undisturbed
    BY ServersAssumption DEF Init, Undisturbed, InOrder
  <1> QED BY <1>1, <1>2, <1>3 DEF ServersInv

\* In every run of the servers every descriptor they watch is within select's reach,
\* and until an alarm interrupts a select each is in order.
THEOREM Invariance == Spec => []ServersInv
  <1>1. ServersInv /\ [Next]_vars => ServersInv'
    BY NextType, FdsCovered, NextUndisturbed DEF ServersInv
  <1> QED BY InitInv, <1>1, PTL DEF Spec

\* select is told of every descriptor a server watches.
THEOREM SelectSeesAll == Spec => []FdCovered
  <1>1. ServersInv => FdCovered
    BY DEF ServersInv
  <1> QED BY Invariance, <1>1, PTL

\* Before an interrupt a server watches its own descriptors and all of them.
THEOREM WatchesItsOwn == Spec => []OwnDescriptors
  <1>1. ServersInv => OwnDescriptors
    BY DEF ServersInv, Undisturbed, InOrder, OwnDescriptors
  <1> QED BY Invariance, <1>1, PTL

\* Before an interrupt no server frees or closes what is not its to release.
THEOREM NoOtherHarm == Spec => []OnlyInterruptsHarm
  <1>1. ServersInv => OnlyInterruptsHarm
    BY DEF ServersInv, Undisturbed, InOrder, OnlyInterruptsHarm
  <1> QED BY Invariance, <1>1, PTL

=============================================================================
