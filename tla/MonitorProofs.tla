---------------------------- MODULE MonitorProofs ----------------------------
(***************************************************************************)
(* Proofs that the client monitor keeps its list, its countdowns and its   *)
(* status records consistent, for every set of subsystems and addresses,   *)
(* every content of the database and every keepalive value; and that the   *)
(* configuration it takes that value and its addresses from is what the    *)
(* lines of the file make it, for every file.                              *)
(***************************************************************************)
EXTENDS Monitor, Conf, SequenceTheorems, FiniteSetTheorems, WellFoundedInduction, TLAPS

-----------------------------------------------------------------------------
(* Lemmas on the operators the model is built from.                        *)

\* A function on 1 .. n is a sequence of length n.
LEMMA SeqOfFun ==
  ASSUME NEW T, NEW n \in Nat, NEW f \in [1 .. n -> T]
  PROVE  f \in Seq(T) /\ Len(f) = n /\ DOMAIN f = 1 .. n
OBVIOUS

\* The entries of a sequence over S are in S.
LEMMA SeqAt ==
  ASSUME NEW S, NEW s \in Seq(S), NEW i \in DOMAIN s
  PROVE  s[i] \in S
OBVIOUS

\* What a row becomes is a node, counted down from the start.
LEMMA NewNodeType ==
  ASSUME NEW r \in Row
  PROVE  /\ NewNode(r) \in Node
         /\ NewNode(r).flag = "CONNECT"
         /\ NewNode(r).timeout = Keepalive
         /\ NodeRow(NewNode(r)) = r
BY MonitorAssumption DEF NewNode, Node, Row, Flag, Timeouts, NodeRow

\* A packet sets the countdown of a node back and reconnects it.
LEMMA RefreshedType ==
  ASSUME NEW n \in Node
  PROVE  /\ Refreshed(n) \in Node
         /\ Refreshed(n).sys = n.sys
         /\ Refreshed(n).ip = n.ip
         /\ Refreshed(n).flag = "CONNECT"
         /\ Refreshed(n).timeout = Keepalive
BY MonitorAssumption DEF Refreshed, Node, Flag, Timeouts

\* An alarm counts a node down and disconnects it only when it expires.
LEMMA TickType ==
  ASSUME NEW n \in Node
  PROVE  /\ Tick(n) \in Node
         /\ Tick(n).sys = n.sys
         /\ Tick(n).ip = n.ip
         /\ Tick(n).flag = IF Expires(n) THEN "DISCON" ELSE n.flag
         /\ Tick(n).timeout = IF n.timeout > 0 THEN n.timeout - 1 ELSE n.timeout
BY MonitorAssumption DEF Tick, Expires, Node, Flag, Timeouts

-----------------------------------------------------------------------------
(* Type correctness.                                                       *)

\* A step leaves every thread at a point it has.
LEMMA NextPc == TypeOK /\ [Next]_vars => PcOK'
<1> SUFFICES ASSUME PcOK, [Next]_vars
             PROVE  PcOK'
  BY DEF TypeOK
<1> USE DEF PcOK, Threads, Loader, KeepPoint, UpdatePoint, UdpPoint, LoaderPoint
<1>1. ASSUME NEW t \in Loader, init_client(t)
      PROVE  PcOK'
  <2>1. \/ UNCHANGED pc
        \/ \E l \in LoaderPoint : pc' = [pc EXCEPT ![t] = l]
        \/ t = "KeepAlive" /\ \E l \in KeepPoint : pc' = [pc EXCEPT ![t] = l]
        \/ t = "UpdateSig" /\ \E l \in UpdatePoint : pc' = [pc EXCEPT ![t] = l]
    BY <1>1 DEF init_client, Clear, Query, LoadFails, Push, LoadEnds, Goto
  <2> QED
    BY <2>1
<1>2. CASE SetTimer
  BY <1>2 DEF SetTimer, Goto
<1>3. CASE Receive \/ ReceiveRefused \/ ReceiveInterrupted \/ Reply \/ ReplyRefused
  BY <1>3 DEF Receive, ReceiveRefused, ReceiveInterrupted, Reply, ReplyRefused, Goto
<1>4. CASE create_sock
  BY <1>4 DEF create_sock, Goto
<1>5. CASE (\E a \in Addrs : CheckClient(a)) \/ Alive \/ Stopped \/ UNCHANGED vars
  BY <1>5 DEF CheckClient, Alive, Stopped, vars
<1> QED
  BY <1>1, <1>2, <1>3, <1>4, <1>5 DEF Next

\* A step keeps the types of what the loaders hold.
LEMMA NextLoad == TypeOK /\ [Next]_vars => LoadOK'
<1> SUFFICES ASSUME LoadOK, [Next]_vars
             PROVE  LoadOK'
  BY DEF TypeOK
<1>1. ASSUME NEW t \in Loader, Clear(t)
      PROVE  LoadOK'
  BY <1>1 DEF Clear, LoadOK
<1>2. ASSUME NEW t \in Loader, Query(t)
      PROVE  LoadOK'
  <2>1. PICK rows \in Tables \cup {<< >>} : table' = [table EXCEPT ![t] = rows]
    BY <1>2 DEF Query
  <2>2. rows \in Seq(Row)
    <3>1. << >> \in Seq(Row)
      OBVIOUS
    <3> QED
      BY <2>1, <3>1, MonitorAssumption
  <2> QED
    BY <1>2, <2>1, <2>2 DEF Query, LoadOK
<1>3. ASSUME NEW t \in Loader, Push(t)
      PROVE  LoadOK'
  BY <1>3 DEF Push, LoadOK
<1>4. CASE UNCHANGED loadVars
  BY <1>4 DEF loadVars, LoadOK
<1> QED
  BY <1>1, <1>2, <1>3, <1>4 DEF Next, init_client, LoadFails, LoadEnds, SetTimer,
     Receive, ReceiveRefused, ReceiveInterrupted, Reply,
     ReplyRefused, create_sock, CheckClient, Alive, Stopped,
     vars, loadVars

\* The entries of the list are nodes.
LEMMA NodeAt ==
  ASSUME ListOK, NEW i \in DOMAIN clist
  PROVE  /\ clist[i] \in Node
         /\ clist[i].sys \in Systems
         /\ clist[i].flag \in Flag
         /\ clist[i].timeout \in Timeouts
<1>1. clist[i] \in Node
  BY DEF ListOK
<1> QED
  BY <1>1 DEF Node

\* A step keeps the types of the list, the status records and the history.
LEMMA NextList == TypeOK /\ [Next]_vars => ListOK'
<1> SUFFICES ASSUME LoadOK, ListOK, [Next]_vars
             PROVE  ListOK'
  BY DEF TypeOK
<1>1. ASSUME NEW t \in Loader, Clear(t)
      PROVE  ListOK'
  BY <1>1 DEF Clear, ListOK
<1>2. ASSUME NEW t \in Loader, Push(t)
      PROVE  ListOK'
  <2>1. table[t][done[t] + 1] \in Row
    BY <1>2 DEF Push, LoadOK
  <2>2. NewNode(table[t][done[t] + 1]) \in Node
    BY <2>1, NewNodeType
  <2>3. 0 \in 0 .. QuietCap
    BY MonitorAssumption DEF QuietCap
  <2> QED
    BY <1>2, <2>2, <2>3 DEF Push, ListOK
<1>3. ASSUME NEW a \in Addrs, CheckClient(a)
      PROVE  ListOK'
  <2>1. PICK i \in DOMAIN clist :
          /\ clist' = [clist EXCEPT ![i] = Refreshed(@)]
          /\ \/ /\ status' = [status EXCEPT ![clist[i].sys] = "CONNECT"]
                /\ told' = told \cup {clist[i].sys}
             \/ UNCHANGED <<status, told>>
    BY <1>3 DEF CheckClient
  <2>2. clist[i] \in Node /\ clist[i].sys \in Systems
    BY NodeAt
  <2>3. clist' \in Seq(Node)
    BY <2>1, <2>2, RefreshedType DEF ListOK
  <2>4. status' \in [Systems -> Flag \cup {NoReport}] /\ told' \in SUBSET Systems
    BY <2>1, <2>2 DEF Flag, ListOK
  <2>5. quiet' \in [1 .. Len(quiet) -> 0 .. QuietCap]
    BY <1>3, MonitorAssumption DEF CheckClient, QuietCap, ListOK
  <2>6. quiet' \in Seq(0 .. QuietCap)
    <3>1. Len(quiet) \in Nat
      BY DEF ListOK
    <3> QED
      BY <2>5, <3>1, SeqOfFun
  <2> QED
    BY <2>3, <2>4, <2>6 DEF ListOK
<1>4. CASE Alive
  <2> DEFINE expired ==
        {clist[i].sys : i \in {j \in DOMAIN clist : Expires(clist[j])}}
  <2>1. clist' \in Seq(Node)
    <3>1. \A i \in 1 .. Len(clist) : Tick(clist[i]) \in Node
      BY TickType DEF ListOK
    <3>2. clist' = [i \in 1 .. Len(clist) |-> Tick(clist[i])]
      BY <1>4 DEF Alive, ListOK
    <3>3. clist' \in [1 .. Len(clist) -> Node]
      BY <3>1, <3>2
    <3> QED
      BY <3>3, SeqOfFun DEF ListOK
  <2>2. expired \subseteq Systems
    BY NodeAt
  <2>3. /\ status' = [s \in Systems |-> IF s \in expired THEN "DISCON" ELSE status[s]]
        /\ told' = told \cup expired
    BY <1>4 DEF Alive
  <2> HIDE DEF expired
  <2>4. status' \in [Systems -> Flag \cup {NoReport}] /\ told' \in SUBSET Systems
    BY <2>2, <2>3 DEF Flag, ListOK
  <2>5. quiet' \in [1 .. Len(quiet) -> 0 .. QuietCap]
    BY <1>4, MonitorAssumption DEF Alive, QuietCap, ListOK
  <2>6. quiet' \in Seq(0 .. QuietCap)
    <3>1. Len(quiet) \in Nat
      BY DEF ListOK
    <3> QED
      BY <2>5, <3>1, SeqOfFun
  <2> QED
    BY <2>1, <2>4, <2>6 DEF ListOK
<1>5. CASE UNCHANGED listVars
  BY <1>5 DEF listVars, ListOK
<1> QED
  BY <1>1, <1>2, <1>3, <1>4, <1>5 DEF Next, init_client, Query, LoadFails,
     LoadEnds, SetTimer, Receive, ReceiveRefused, ReceiveInterrupted, Reply,
     ReplyRefused, create_sock, Stopped,
     vars, listVars

\* A step keeps the Booleans Boolean.
LEMMA NextSwitch == TypeOK /\ [Next]_vars => SwitchOK'
BY DEF TypeOK, SwitchOK, Next, init_client, Clear, Query, LoadFails, Push,
   LoadEnds, SetTimer, Receive, ReceiveRefused, ReceiveInterrupted, Reply,
     ReplyRefused, create_sock, CheckClient,
   Alive, Stopped, vars

\* Before anything runs, every variable has its type.
LEMMA InitType == Init => TypeOK
<1> SUFFICES ASSUME Init
             PROVE  TypeOK
  OBVIOUS
<1>1. PcOK
  BY DEF Init, Start, Threads, Loader, PcOK, KeepPoint, UpdatePoint, UdpPoint,
         LoaderPoint
<1>2. LoadOK
  BY DEF Init, LoadOK
<1>3. ListOK
  BY DEF Init, ListOK
<1>4. SwitchOK
  BY DEF Init, SwitchOK
<1> QED
  BY <1>1, <1>2, <1>3, <1>4 DEF TypeOK

\* Type correctness is inductive.
LEMMA NextType == TypeOK /\ [Next]_vars => TypeOK'
<1> SUFFICES ASSUME TypeOK, [Next]_vars
             PROVE  TypeOK'
  OBVIOUS
<1>1. PcOK'
  BY NextPc
<1>2. LoadOK'
  BY NextLoad
<1>3. ListOK'
  BY NextList
<1>4. SwitchOK'
  BY NextSwitch
<1> QED
  BY <1>1, <1>2, <1>3, <1>4 DEF TypeOK

\* Every variable keeps its type; in particular no countdown leaves
\* 0 .. Keepalive and every loader is at a point init_client has.
THEOREM TypeCorrect == Spec => []TypeOK
  BY InitType, NextType, PTL DEF Spec

-----------------------------------------------------------------------------
(* The inductive invariant.                                                *)

\* The actions that touch neither the list nor what was loaded, and bring no
\* loader to the point before its query.
Aside ==
  /\ UNCHANGED <<listVars, loadVars>>
  /\ \A t \in Loader : pc'[t] = "connect" => pc[t] = "connect"

\* Every step is one of the five that matter to the list, or stands aside.
LEMMA Steps ==
  ASSUME PcOK, [Next]_vars
  PROVE  \/ \E t \in Loader : Clear(t) \/ Query(t) \/ Push(t)
         \/ \E a \in Addrs : CheckClient(a)
         \/ Alive
         \/ Aside
<1>1. ASSUME NEW t \in Loader, LoadFails(t) \/ LoadEnds(t)
      PROVE  Aside
  <2>1. \E l \in {"exited", "recv", "arm", "reply"} : pc' = [pc EXCEPT ![t] = l]
    BY <1>1 DEF LoadFails, LoadEnds, Goto
  <2>2. \A u \in Loader : pc'[u] = "connect" => pc[u] = "connect"
    BY <2>1 DEF PcOK, Threads
  <2> QED
    BY <1>1, <2>2 DEF LoadFails, LoadEnds, Aside
<1>2. CASE \/ SetTimer \/ Receive \/ ReceiveRefused \/ ReceiveInterrupted
           \/ Reply \/ ReplyRefused \/ create_sock
  <2>1. \/ \E t \in Threads, l \in {"exited", "pause", "clear", "reply", "recv"} :
            pc' = [pc EXCEPT ![t] = l]
        \/ UNCHANGED pc
    BY <1>2 DEF SetTimer, Receive, ReceiveRefused, ReceiveInterrupted, Reply,
     ReplyRefused, create_sock, Goto,
       Threads, Loader
  <2>2. \A u \in Loader : pc'[u] = "connect" => pc[u] = "connect"
    BY <2>1 DEF PcOK, Threads
  <2> QED
    BY <1>2, <2>2
    DEF SetTimer, Receive, ReceiveRefused, ReceiveInterrupted, Reply,
     ReplyRefused, create_sock, Aside
<1>3. CASE Stopped \/ UNCHANGED vars
  BY <1>3 DEF Stopped, vars, Aside, listVars, loadVars
<1> QED
  BY <1>1, <1>2, <1>3 DEF Next, init_client

\* A push puts one fresh node at the end.
LEMMA PushList ==
  ASSUME TypeOK, NEW t \in Loader, Push(t)
  PROVE  /\ Len(clist') = Len(clist) + 1
         /\ \A i \in DOMAIN clist : i \in DOMAIN clist' /\ clist'[i] = clist[i]
         /\ \A i \in DOMAIN clist' : i \in DOMAIN clist \/ i = Len(clist) + 1
         /\ clist'[Len(clist) + 1].flag = "CONNECT"
         /\ clist'[Len(clist) + 1].timeout = Keepalive
         /\ NodeRow(clist'[Len(clist) + 1]) = table[t][done[t] + 1]
<1> DEFINE r == table[t][done[t] + 1]
<1>1. r \in Row
  BY DEF Push, TypeOK, LoadOK
<1>2. /\ NewNode(r) \in Node
      /\ NewNode(r).flag = "CONNECT"
      /\ NewNode(r).timeout = Keepalive
      /\ NodeRow(NewNode(r)) = r
  BY <1>1, NewNodeType
<1>3. clist' = Append(clist, NewNode(r))
  BY DEF Push
<1> HIDE DEF r
<1>4. clist \in Seq(Node)
  BY DEF TypeOK, ListOK
<1>5. clist'[Len(clist) + 1] = NewNode(r)
  BY <1>2, <1>3, <1>4
<1>6. r = table[t][done[t] + 1]
  BY DEF r
<1> QED
  BY <1>2, <1>3, <1>4, <1>5, <1>6

\* CheckClient found node k: it alone changes, and a record is queued when it
\* was disconnected.
Found(k) ==
  /\ First(k)
  /\ DOMAIN clist' = DOMAIN clist
  /\ Len(clist') = Len(clist)
  /\ \A i \in DOMAIN clist : /\ clist'[i].sys = clist[i].sys
                             /\ clist'[i].ip = clist[i].ip
                             /\ i # k => clist'[i] = clist[i]
  /\ clist'[k].flag = "CONNECT"
  /\ clist'[k].timeout = Keepalive
  /\ clist[k].flag = "DISCON" =>
       /\ status' = [status EXCEPT ![clist[k].sys] = "CONNECT"]
       /\ told' = told \cup {clist[k].sys}
  /\ clist[k].flag # "DISCON" => UNCHANGED <<status, told>>

\* CheckClient refreshes the first node with its address.
LEMMA CheckList ==
  ASSUME TypeOK, NEW a \in Addrs, CheckClient(a)
  PROVE  \E k \in DOMAIN clist : clist[k].ip = a /\ Found(k)
<1>1. PICK k \in DOMAIN clist :
        /\ clist[k].ip = a
        /\ First(k)
        /\ clist' = [clist EXCEPT ![k] = Refreshed(@)]
        /\ IF clist[k].flag = "DISCON"
           THEN /\ status' = [status EXCEPT ![clist[k].sys] = "CONNECT"]
                /\ told' = told \cup {clist[k].sys}
           ELSE UNCHANGED <<status, told>>
  BY DEF CheckClient
<1>2. clist \in Seq(Node)
  BY DEF TypeOK, ListOK
<1>3. clist[k] \in Node
  BY <1>2
<1>4. /\ Refreshed(clist[k]) \in Node
      /\ Refreshed(clist[k]).sys = clist[k].sys
      /\ Refreshed(clist[k]).ip = clist[k].ip
      /\ Refreshed(clist[k]).flag = "CONNECT"
      /\ Refreshed(clist[k]).timeout = Keepalive
  BY <1>3, RefreshedType
<1>5. /\ DOMAIN clist' = DOMAIN clist /\ Len(clist') = Len(clist)
      /\ clist'[k] = Refreshed(clist[k])
      /\ \A i \in DOMAIN clist : i # k => clist'[i] = clist[i]
  BY <1>1, <1>2, <1>4
<1>6. Found(k)
  BY <1>1, <1>4, <1>5 DEF Found
<1> QED
  BY <1>1, <1>6

\* Alive counts every node down.
LEMMA AliveList ==
  ASSUME TypeOK, Alive
  PROVE  /\ DOMAIN clist' = DOMAIN clist /\ Len(clist') = Len(clist)
         /\ \A i \in DOMAIN clist :
              /\ clist'[i].sys = clist[i].sys
              /\ clist'[i].ip = clist[i].ip
              /\ clist'[i].flag =
                   IF Expires(clist[i]) THEN "DISCON" ELSE clist[i].flag
              /\ clist'[i].timeout = IF clist[i].timeout > 0
                                     THEN clist[i].timeout - 1
                                     ELSE clist[i].timeout
<1>1. clist \in Seq(Node) /\ Len(clist) \in Nat /\ DOMAIN clist = 1 .. Len(clist)
  BY DEF TypeOK, ListOK
<1>2. \A i \in DOMAIN clist :
        /\ Tick(clist[i]) \in Node
        /\ Tick(clist[i]).sys = clist[i].sys
        /\ Tick(clist[i]).ip = clist[i].ip
        /\ Tick(clist[i]).flag =
             IF Expires(clist[i]) THEN "DISCON" ELSE clist[i].flag
        /\ Tick(clist[i]).timeout = IF clist[i].timeout > 0
                                    THEN clist[i].timeout - 1
                                    ELSE clist[i].timeout
  BY <1>1, TickType
<1>3. clist' = [i \in 1 .. Len(clist) |-> Tick(clist[i])]
  BY <1>1 DEF Alive
<1>4. clist' \in [1 .. Len(clist) -> Node]
  BY <1>1, <1>2, <1>3
<1>5. DOMAIN clist' = DOMAIN clist /\ Len(clist') = Len(clist)
  BY <1>1, <1>4, SeqOfFun
<1>6. \A i \in DOMAIN clist : clist'[i] = Tick(clist[i])
  BY <1>1, <1>3
<1> QED
  BY <1>2, <1>5, <1>6

\* A load keeps its count in step with the rows pushed since the last clear, and
\* within a table the database may hold.
LEMMA NextProgress == IInv /\ [Next]_vars => LoadProgress'
<1> SUFFICES ASSUME TypeOK, LoadProgress, [Next]_vars
             PROVE  LoadProgress'
  BY DEF IInv
<1>1. ASSUME NEW t \in Loader, Clear(t)
      PROVE  LoadProgress'
  BY <1>1 DEF Clear, LoadProgress, TypeOK, LoadOK, PcOK, Goto, Threads
<1>2. ASSUME NEW t \in Loader, Query(t)
      PROVE  LoadProgress'
  <2>1. PICK rows \in Tables \cup {<< >>} : table' = [table EXCEPT ![t] = rows]
    BY <1>2 DEF Query
  <2>2. rows \in Seq(Row) /\ Len(rows) \in Nat
    <3>1. rows \in Seq(Row)
      BY <2>1, MonitorAssumption, EmptySeq
    <3> QED
      BY <3>1, LenProperties
  <2>3. \A u \in Loader : /\ table'[u] = IF u = t THEN rows ELSE table[u]
                          /\ pc'[u] = IF u = t THEN "fill" ELSE pc[u]
    BY <1>2, <2>1 DEF Query, Goto, TypeOK, LoadOK, PcOK, Threads
  <2> QED
    BY <1>2, <2>2, <2>3 DEF Query, At, LoadProgress
<1>3. ASSUME NEW t \in Loader, Push(t)
      PROVE  LoadProgress'
  <2>1. table[t] \in Seq(Row) /\ Len(table[t]) \in Nat
    BY DEF TypeOK, LoadOK
  <2> QED
    BY <1>3, <2>1 DEF Push, At, LoadProgress, TypeOK, LoadOK, PcOK, Threads
<1>4. CASE (\E a \in Addrs : CheckClient(a)) \/ Alive \/ Aside
  BY <1>4 DEF CheckClient, Alive, Aside, loadVars, LoadProgress
<1> QED
  BY <1>1, <1>2, <1>3, <1>4, Steps DEF TypeOK

\* What one loader pushed is its table, row by row.
LEMMA NextExact == IInv /\ [Next]_vars => SingleLoadIsExact'
<1> SUFFICES ASSUME TypeOK, LoadProgress, SingleLoadIsExact, [Next]_vars
             PROVE  SingleLoadIsExact'
  BY DEF IInv
<1> USE DEF SingleLoadIsExact, OnlyLoader
<1>1. ASSUME NEW t \in Loader, Clear(t)
      PROVE  SingleLoadIsExact'
  <2>1. /\ DOMAIN clist' = {} /\ Len(clist') = 0
        /\ done' = [done EXCEPT ![t] = 0] /\ base' = [done EXCEPT ![t] = 0]
    BY <1>1 DEF Clear
  <2>2. \A u \in Loader : done'[u] = base'[u] /\ done'[u] \in Nat
    BY <2>1 DEF TypeOK, LoadOK
  <2> QED
    BY <2>1, <2>2
<1>2. ASSUME NEW t \in Loader, Query(t)
      PROVE  SingleLoadIsExact'
  <2>1. done[t] = 0 /\ base[t] = 0
    BY <1>2 DEF Query, At, LoadProgress, TypeOK, LoadOK
  <2>2. \A u \in Loader : u # t => table'[u] = table[u]
    BY <1>2 DEF Query, TypeOK, LoadOK
  <2>3. OnlyLoader(t) => Len(clist) = 0 /\ DOMAIN clist = {}
    BY <2>1 DEF TypeOK, ListOK
  <2>4. UNCHANGED <<clist, done, base>>
    BY <1>2 DEF Query, listVars
  <2> QED
    BY <2>1, <2>2, <2>3, <2>4
<1>3. ASSUME NEW t \in Loader, Push(t)
      PROVE  SingleLoadIsExact'
  <2>1. /\ done' = [done EXCEPT ![t] = @ + 1]
        /\ UNCHANGED <<table, base>>
    BY <1>3 DEF Push
  <2>2. /\ done[t] \in Nat /\ base[t] \in Nat /\ base[t] <= done[t]
        /\ done'[t] = done[t] + 1
        /\ \A u \in Loader : u # t => done'[u] = done[u]
        /\ Len(clist) \in Nat /\ DOMAIN clist = 1 .. Len(clist)
    BY <2>1 DEF LoadProgress, TypeOK, LoadOK, ListOK
  <2>3. ASSUME NEW u \in Loader, u # t, OnlyLoader(u)'
        PROVE  FALSE
    BY <2>1, <2>2, <2>3
  <2>4. ASSUME OnlyLoader(t)'
        PROVE  /\ Len(clist') = done'[t] - base'[t]
               /\ \A i \in DOMAIN clist' :
                    NodeRow(clist'[i]) = table'[t][base'[t] + i]
    <3>1. OnlyLoader(t)
      BY <2>1, <2>2, <2>4
    <3>2. Len(clist) = done[t] - base[t]
      BY <3>1
    <3>3. base[t] + (Len(clist) + 1) = done[t] + 1
      BY <2>2, <3>2
    <3>4. /\ Len(clist') = Len(clist) + 1
          /\ \A i \in DOMAIN clist : i \in DOMAIN clist' /\ clist'[i] = clist[i]
          /\ \A i \in DOMAIN clist' : i \in DOMAIN clist \/ i = Len(clist) + 1
          /\ NodeRow(clist'[Len(clist) + 1]) = table[t][done[t] + 1]
      BY <1>3, PushList
    <3>5. Len(clist') = done'[t] - base'[t]
      BY <2>1, <2>2, <3>2, <3>4
    <3>6. ASSUME NEW i \in DOMAIN clist'
          PROVE  NodeRow(clist'[i]) = table'[t][base'[t] + i]
      <4>1. CASE i \in DOMAIN clist
        BY <2>1, <3>1, <3>4, <4>1
      <4>2. CASE i = Len(clist) + 1
        BY <2>1, <3>3, <3>4, <4>2
      <4> QED
        BY <3>4, <4>1, <4>2
    <3> QED
      BY <3>5, <3>6
  <2> QED
    BY <2>3, <2>4
<1>4. ASSUME UNCHANGED loadVars, Len(clist') = Len(clist), DOMAIN clist' = DOMAIN clist,
             \A i \in DOMAIN clist : /\ clist'[i].sys = clist[i].sys
                                     /\ clist'[i].ip = clist[i].ip
      PROVE  SingleLoadIsExact'
  <2>1. \A i \in DOMAIN clist : NodeRow(clist'[i]) = NodeRow(clist[i])
    BY <1>4 DEF NodeRow
  <2> QED
    BY <1>4, <2>1 DEF loadVars
<1>5. ASSUME NEW a \in Addrs, CheckClient(a)
      PROVE  SingleLoadIsExact'
  <2>1. UNCHANGED loadVars
    BY <1>5 DEF CheckClient
  <2>2. /\ Len(clist') = Len(clist) /\ DOMAIN clist' = DOMAIN clist
        /\ \A i \in DOMAIN clist : /\ clist'[i].sys = clist[i].sys
                                   /\ clist'[i].ip = clist[i].ip
    BY <1>5, CheckList DEF Found
  <2> QED
    BY <1>4, <2>1, <2>2
<1>6. CASE Alive
  <2>1. UNCHANGED loadVars
    BY <1>6 DEF Alive
  <2> QED
    BY <1>4, <1>6, <2>1, AliveList
<1>7. CASE Aside
  BY <1>4, <1>7 DEF Aside, listVars
<1> QED
  BY <1>1, <1>2, <1>3, <1>5, <1>6, <1>7, Steps DEF TypeOK

\* The places of a row and the rows pushed are finite sets.
LEMMA MergeFinite ==
  ASSUME TypeOK
  PROVE  /\ \A r \in Row : IsFiniteSet(Places(r)) /\ Cardinality(Places(r)) \in Nat
         /\ \A t \in Loader, r \in Row :
              IsFiniteSet(Pushed(t, r)) /\ Cardinality(Pushed(t, r)) \in Nat
<1>1. ASSUME NEW r \in Row
      PROVE  IsFiniteSet(Places(r)) /\ Cardinality(Places(r)) \in Nat
  <2>1. Len(clist) \in Nat /\ DOMAIN clist = 1 .. Len(clist)
    BY DEF TypeOK, ListOK
  <2>2. IsFiniteSet(1 .. Len(clist)) /\ Places(r) \in SUBSET (1 .. Len(clist))
    BY <2>1, FS_Interval DEF Places
  <2> QED
    BY <2>2, FS_Subset, FS_CardinalityType
<1>2. ASSUME NEW t \in Loader, NEW r \in Row
      PROVE  IsFiniteSet(Pushed(t, r)) /\ Cardinality(Pushed(t, r)) \in Nat
  <2>1. base[t] + 1 \in Int /\ done[t] \in Int
    BY DEF TypeOK, LoadOK
  <2>2. /\ IsFiniteSet(base[t] + 1 .. done[t])
        /\ Pushed(t, r) \in SUBSET (base[t] + 1 .. done[t])
    BY <2>1, FS_Interval DEF Pushed
  <2> QED
    BY <2>2, FS_Subset, FS_CardinalityType
<1> QED
  BY <1>1, <1>2

\* The list stays the merge of what the two loaders pushed.
LEMMA NextMerge == IInv /\ [Next]_vars => ListIsMerge'
<1> SUFFICES ASSUME TypeOK, TypeOK', LoadProgress, ListIsMerge, [Next]_vars,
                    NEW r \in Row
             PROVE  Cardinality(Places(r)') = Cardinality(Pushed("KeepAlive", r)')
                                            + Cardinality(Pushed("UpdateSig", r)')
  BY NextType DEF IInv, ListIsMerge
<1> DEFINE K == "KeepAlive"
           U == "UpdateSig"
<1>a. K \in Loader /\ U \in Loader /\ \A t \in Loader : t = K \/ t = U
  BY DEF Loader
<1>b. /\ IsFiniteSet(Places(r)) /\ Cardinality(Places(r)) \in Nat
      /\ \A t \in Loader :
           IsFiniteSet(Pushed(t, r)) /\ Cardinality(Pushed(t, r)) \in Nat
  BY MergeFinite
<1>c. Cardinality(Places(r)) = Cardinality(Pushed(K, r)) + Cardinality(Pushed(U, r))
  BY DEF ListIsMerge
<1>d. /\ clist \in Seq(Node) /\ clist' \in Seq(Node)
      /\ table \in [Loader -> Seq(Row)]
      /\ done \in [Loader -> Nat] /\ base \in [Loader -> Nat]
  BY DEF TypeOK, ListOK, LoadOK
<1>1. ASSUME NEW t \in Loader, Clear(t)
      PROVE  Places(r)' = {} /\ \A u \in Loader : Pushed(u, r)' = {}
  <2>1. Places(r)' = {}
    BY <1>1 DEF Clear, Places
  <2>2. \A u \in Loader : base'[u] + 1 > done'[u]
    BY <1>1, <1>d DEF Clear
  <2>3. \A u \in Loader : base'[u] \in Nat /\ done'[u] \in Nat
    BY DEF TypeOK, LoadOK
  <2> QED
    BY <2>1, <2>2, <2>3 DEF Pushed
<1>2. ASSUME NEW t \in Loader, Query(t)
      PROVE  Places(r)' = Places(r) /\ \A u \in Loader : Pushed(u, r)' = Pushed(u, r)
  <2>1. UNCHANGED <<clist, done, base>>
    BY <1>2 DEF Query, listVars
  <2>2. \A u \in Loader \ {t} : table'[u] = table[u]
    BY <1>2, <1>d DEF Query
  <2>3. done[t] = 0 /\ base[t] = 0
    BY <1>2, <1>d DEF Query, At, LoadProgress
  <2>4. Pushed(t, r) = {} /\ Pushed(t, r)' = {}
    BY <2>1, <2>3 DEF Pushed
  <2> QED
    BY <2>1, <2>2, <2>4 DEF Places, Pushed
<1>3. ASSUME NEW t \in Loader, Push(t)
      PROVE  /\ \A u \in Loader \ {t} : Pushed(u, r)' = Pushed(u, r)
             /\ Cardinality(Places(r)') - Cardinality(Places(r))
                  = Cardinality(Pushed(t, r)') - Cardinality(Pushed(t, r))
             /\ Cardinality(Places(r)') \in Nat /\ Cardinality(Pushed(t, r)') \in Nat
  <2> DEFINE n == Len(clist) + 1
             d == done[t] + 1
  <2>1. /\ Len(clist') = n
        /\ \A i \in DOMAIN clist : i \in DOMAIN clist' /\ clist'[i] = clist[i]
        /\ \A i \in DOMAIN clist' : i \in DOMAIN clist \/ i = n
        /\ NodeRow(clist'[n]) = table[t][d]
    BY <1>3, PushList
  <2>2. n \notin DOMAIN clist /\ n \in DOMAIN clist'
    BY <1>d, <2>1
  <2>3. /\ UNCHANGED <<table, base>>
        /\ done'[t] = d
        /\ \A u \in Loader \ {t} : done'[u] = done[u]
    BY <1>3, <1>d DEF Push
  <2>4. \A u \in Loader \ {t} : Pushed(u, r)' = Pushed(u, r)
    BY <2>3 DEF Pushed
  <2>5. base[t] + 1 .. d = (base[t] + 1 .. done[t]) \cup {d} /\ d \notin base[t] + 1 .. done[t]
    BY <1>d DEF LoadProgress
  <2>6. CASE table[t][d] = r
    <3>1. Places(r)' = Places(r) \cup {n} /\ n \notin Places(r)
      BY <2>1, <2>2, <2>6 DEF Places
    <3>2. Pushed(t, r)' = Pushed(t, r) \cup {d} /\ d \notin Pushed(t, r)
      BY <2>3, <2>5, <2>6 DEF Pushed
    <3>3. Cardinality(Places(r) \cup {n}) = Cardinality(Places(r)) + 1
      BY <1>b, <3>1, FS_AddElement
    <3>4. Cardinality(Pushed(t, r) \cup {d}) = Cardinality(Pushed(t, r)) + 1
      BY <1>b, <3>2, FS_AddElement
    <3> QED
      BY <1>b, <2>4, <3>1, <3>2, <3>3, <3>4
  <2>7. CASE table[t][d] # r
    <3>1. Places(r)' = Places(r)
      BY <2>1, <2>2, <2>7 DEF Places
    <3>2. Pushed(t, r)' = Pushed(t, r)
      BY <2>3, <2>5, <2>7 DEF Pushed
    <3> QED
      BY <1>b, <2>4, <3>1, <3>2
  <2> QED
    BY <2>6, <2>7
<1>4. ASSUME NEW a \in Addrs, CheckClient(a)
      PROVE  Places(r)' = Places(r) /\ \A u \in Loader : Pushed(u, r)' = Pushed(u, r)
  <2>1. /\ DOMAIN clist' = DOMAIN clist
        /\ \A i \in DOMAIN clist : NodeRow(clist'[i]) = NodeRow(clist[i])
    BY <1>4, CheckList DEF Found, NodeRow
  <2>2. UNCHANGED loadVars
    BY <1>4 DEF CheckClient
  <2> QED
    BY <2>1, <2>2 DEF Places, Pushed, loadVars
<1>5. ASSUME Alive
      PROVE  Places(r)' = Places(r) /\ \A u \in Loader : Pushed(u, r)' = Pushed(u, r)
  <2>1. /\ DOMAIN clist' = DOMAIN clist
        /\ \A i \in DOMAIN clist : NodeRow(clist'[i]) = NodeRow(clist[i])
    BY <1>5, AliveList DEF NodeRow
  <2>2. UNCHANGED loadVars
    BY <1>5 DEF Alive
  <2> QED
    BY <2>1, <2>2 DEF Places, Pushed, loadVars
<1>6. ASSUME Aside
      PROVE  Places(r)' = Places(r) /\ \A u \in Loader : Pushed(u, r)' = Pushed(u, r)
  BY <1>6 DEF Aside, listVars, loadVars, Places, Pushed
<1>7. CASE \E t \in Loader : Clear(t)
  BY <1>a, <1>1, <1>7, FS_EmptySet
<1>8. CASE \E t \in Loader : Push(t)
  <2>1. PICK t \in Loader : Push(t)
    BY <1>8
  <2> HIDE DEF K, U
  <2>2. K # U
    BY DEF K, U
  <2> QED
    BY <1>3, <1>a, <1>b, <1>c, <2>1, <2>2 DEF K, U
<1>9. CASE \/ \E t \in Loader : Query(t)
           \/ \E a \in Addrs : CheckClient(a)
           \/ Alive
           \/ Aside
  BY <1>2, <1>4, <1>5, <1>6, <1>a, <1>c, <1>9
<1> QED
  BY <1>7, <1>8, <1>9, Steps DEF TypeOK

\* Status records are about subsystems of the list.
LEMMA NextTold == IInv /\ [Next]_vars => ToldInList'
<1> SUFFICES ASSUME TypeOK, ToldInList, [Next]_vars
             PROVE  ToldInList'
  BY DEF IInv
<1> USE DEF ToldInList
<1>1. ASSUME NEW t \in Loader, Clear(t)
      PROVE  ToldInList'
  BY <1>1 DEF Clear
<1>2. ASSUME NEW t \in Loader, Push(t)
      PROVE  ToldInList'
  <2>1. told' = told
    BY <1>2 DEF Push
  <2>2. \A i \in DOMAIN clist : i \in DOMAIN clist' /\ clist'[i] = clist[i]
    BY <1>2, PushList
  <2> QED
    BY <2>1, <2>2
<1>3. ASSUME NEW a \in Addrs, CheckClient(a)
      PROVE  ToldInList'
  <2>1. PICK k \in DOMAIN clist : Found(k)
    BY <1>3, CheckList
  <2>2. /\ told' \subseteq told \cup {clist[k].sys}
        /\ DOMAIN clist' = DOMAIN clist
        /\ \A i \in DOMAIN clist : clist'[i].sys = clist[i].sys
    BY <2>1 DEF Found
  <2> QED
    BY <2>2
<1>4. CASE Alive
  <2>1. told' = told \cup {clist[i].sys : i \in {j \in DOMAIN clist : Expires(clist[j])}}
    BY <1>4 DEF Alive
  <2>2. /\ DOMAIN clist' = DOMAIN clist
        /\ \A i \in DOMAIN clist : clist'[i].sys = clist[i].sys
    BY <1>4, AliveList
  <2> QED
    BY <2>1, <2>2
<1>5. CASE (\E t \in Loader : Query(t)) \/ Aside
  BY <1>5 DEF Query, Aside, listVars
<1> QED
  BY <1>1, <1>2, <1>3, <1>4, <1>5, Steps DEF TypeOK

\* What was last queued is what the node says.
LEMMA NextStatus == IInv /\ [Next]_vars => StatusAgrees'
<1> SUFFICES ASSUME TypeOK, ToldInList, StatusAgrees, [Next]_vars
             PROVE  StatusAgrees'
  BY DEF IInv
<1> DEFINE Agrees(i) == IF clist[i].sys \in told
                        THEN status[clist[i].sys] = clist[i].flag
                        ELSE clist[i].flag = "CONNECT"
<1>0. \A i \in DOMAIN clist : Unique(i) => Agrees(i)
  BY DEF StatusAgrees
<1> SUFFICES ASSUME NEW i \in DOMAIN clist', Unique(i)'
             PROVE  Agrees(i)'
  BY DEF StatusAgrees
<1>1. ASSUME NEW t \in Loader, Clear(t)
      PROVE  Agrees(i)'
  BY <1>1 DEF Clear
<1>2. ASSUME NEW t \in Loader, Push(t)
      PROVE  Agrees(i)'
  <2>1. UNCHANGED <<status, told>>
    BY <1>2 DEF Push
  <2>2. /\ \A j \in DOMAIN clist : j \in DOMAIN clist' /\ clist'[j] = clist[j]
        /\ i \in DOMAIN clist \/ i = Len(clist) + 1
        /\ clist'[Len(clist) + 1].flag = "CONNECT"
    BY <1>2, PushList
  <2>3. CASE i \in DOMAIN clist
    <3>1. Unique(i)
      BY <2>2, <2>3 DEF Unique
    <3> QED
      BY <1>0, <2>1, <2>2, <2>3, <3>1
  <2>4. CASE i \notin DOMAIN clist
    <3>1. \A j \in DOMAIN clist : clist[j].sys # clist'[i].sys
      BY <2>2, <2>4 DEF Unique
    <3>2. clist'[i].sys \notin told
      BY <3>1 DEF ToldInList
    <3> QED
      BY <2>1, <2>2, <2>4, <3>2
  <2> QED
    BY <2>3, <2>4
<1>3. ASSUME NEW a \in Addrs, CheckClient(a)
      PROVE  Agrees(i)'
  <2>1. PICK k \in DOMAIN clist : Found(k)
    BY <1>3, CheckList
  <2>2. Unique(i) /\ i \in DOMAIN clist
    BY <2>1 DEF Unique, Found
  <2>3. Agrees(i)
    BY <1>0, <2>2
  <2>4. clist[k].flag \in Flag /\ clist[k].sys \in Systems
    BY NodeAt DEF TypeOK
  <2>5. CASE i = k
    <3>1. CASE clist[k].flag = "DISCON"
      BY <2>1, <2>4, <2>5, <3>1 DEF Found, TypeOK, ListOK
    <3>2. CASE clist[k].flag = "CONNECT"
      BY <2>1, <2>3, <2>5, <3>2 DEF Found
    <3> QED
      BY <2>4, <3>1, <3>2 DEF Flag
  <2>6. CASE i # k
    <3>1. clist[k].sys # clist[i].sys
      BY <2>2, <2>6 DEF Unique
    <3> QED
      BY <2>1, <2>2, <2>3, <2>4, <2>6, <3>1 DEF Found, TypeOK, ListOK
  <2> QED
    BY <2>5, <2>6
<1>4. CASE Alive
  <2> DEFINE expired ==
        {clist[j].sys : j \in {l \in DOMAIN clist : Expires(clist[l])}}
  <2>1. /\ status' = [s \in Systems |-> IF s \in expired THEN "DISCON" ELSE status[s]]
        /\ told' = told \cup expired
    BY <1>4 DEF Alive
  <2>2. /\ DOMAIN clist' = DOMAIN clist
        /\ \A j \in DOMAIN clist :
             /\ clist'[j].sys = clist[j].sys
             /\ clist'[j].flag =
                  IF Expires(clist[j]) THEN "DISCON" ELSE clist[j].flag
    BY <1>4, AliveList
  <2>3. Unique(i) /\ i \in DOMAIN clist
    BY <2>2 DEF Unique
  <2>4. Agrees(i)
    BY <1>0, <2>3
  <2>5. clist[i].sys \in Systems
    BY <2>3, NodeAt DEF TypeOK
  <2>6. clist[i].sys \in expired <=> Expires(clist[i])
    BY <2>3 DEF Unique
  <2> HIDE DEF expired
  <2> QED
    BY <2>1, <2>2, <2>3, <2>4, <2>5, <2>6
<1>5. CASE (\E t \in Loader : Query(t)) \/ Aside
  <2>1. UNCHANGED <<clist, status, told>>
    BY <1>5 DEF Query, Aside, listVars
  <2> QED
    BY <1>0, <2>1 DEF Unique
<1> QED
  BY <1>1, <1>2, <1>3, <1>4, <1>5, Steps DEF TypeOK

\* The countdown of every node agrees with the silence of its address.
LEMMA NextCountdowns == IInv /\ [Next]_vars => Countdowns'
<1> SUFFICES ASSUME TypeOK, Countdowns, [Next]_vars
             PROVE  Countdowns'
  BY DEF IInv
<1>0. /\ Keepalive \in Int
      /\ clist \in Seq(Node) /\ quiet \in Seq(0 .. QuietCap)
      /\ Len(quiet) = Len(clist) /\ DOMAIN quiet = DOMAIN clist
      /\ DOMAIN clist = 1 .. Len(clist) /\ Len(clist) \in Nat
      /\ \A i \in DOMAIN clist : CountdownInv(i) /\ quiet[i] \in 0 .. QuietCap
  <2>1. clist \in Seq(Node) /\ quiet \in Seq(0 .. QuietCap)
    BY DEF TypeOK, ListOK
  <2>2. Len(quiet) = Len(clist) /\ \A i \in DOMAIN clist : CountdownInv(i)
    BY DEF Countdowns
  <2>3. /\ DOMAIN clist = 1 .. Len(clist) /\ Len(clist) \in Nat
        /\ DOMAIN quiet = DOMAIN clist
    BY <2>1, <2>2
  <2>4. \A i \in DOMAIN quiet : quiet[i] \in 0 .. QuietCap
    BY <2>1, SeqAt
  <2> QED
    BY <2>1, <2>2, <2>3, <2>4, MonitorAssumption
<1>1. ASSUME NEW t \in Loader, Clear(t)
      PROVE  Countdowns'
  BY <1>1 DEF Clear, Countdowns
<1>2. ASSUME NEW t \in Loader, Push(t)
      PROVE  Countdowns'
  <2>1. /\ Len(clist') = Len(clist) + 1
        /\ \A i \in DOMAIN clist : i \in DOMAIN clist' /\ clist'[i] = clist[i]
        /\ \A i \in DOMAIN clist' : i \in DOMAIN clist \/ i = Len(clist) + 1
        /\ clist'[Len(clist) + 1].flag = "CONNECT"
        /\ clist'[Len(clist) + 1].timeout = Keepalive
    BY <1>2, PushList
  <2>2. /\ Len(quiet') = Len(quiet) + 1
        /\ quiet'[Len(clist) + 1] = 0
        /\ \A i \in DOMAIN clist : quiet'[i] = quiet[i]
    BY <1>0, <1>2 DEF Push
  <2>3. ASSUME NEW i \in DOMAIN clist
        PROVE  CountdownInv(i)'
    <3>1. First(i)' => First(i)
      BY <1>0, <2>1 DEF First
    <3> QED
      BY <1>0, <2>1, <2>2, <3>1 DEF CountdownInv
  <2>4. ASSUME NEW i \in Nat, i = Len(clist) + 1
        PROVE  CountdownInv(i)'
    BY <1>0, <2>1, <2>2, <2>4 DEF CountdownInv
  <2> QED
    BY <1>0, <2>1, <2>2, <2>3, <2>4 DEF Countdowns
<1>3. ASSUME NEW a \in Addrs, CheckClient(a)
      PROVE  Countdowns'
  <2>1. PICK k \in DOMAIN clist : clist[k].ip = a /\ Found(k)
    BY <1>3, CheckList
  <2>2. /\ DOMAIN clist' = DOMAIN clist /\ Len(clist') = Len(clist)
        /\ \A i \in DOMAIN clist : clist'[i].ip = clist[i].ip
        /\ \A i \in DOMAIN clist : i # k => clist'[i] = clist[i]
        /\ clist'[k].flag = "CONNECT" /\ clist'[k].timeout = Keepalive
        /\ First(k)
    BY <2>1 DEF Found
  <2>3. /\ Len(quiet') = Len(quiet)
        /\ \A i \in DOMAIN clist :
             quiet'[i] = IF clist[i].ip = a THEN 0 ELSE quiet[i]
    BY <1>0, <1>3 DEF CheckClient
  <2>4. ASSUME NEW i \in DOMAIN clist
        PROVE  CountdownInv(i)'
    <3>1. First(i)' => First(i)
      BY <1>0, <2>2 DEF First
    <3>2. CASE i = k
      BY <1>0, <2>1, <2>2, <2>3, <3>2 DEF CountdownInv
    <3>3. CASE clist[i].ip # a
      BY <1>0, <2>1, <2>2, <2>3, <3>1, <3>3 DEF CountdownInv
    <3>4. CASE i # k /\ clist[i].ip = a
      <4>1. ~First(i)
        BY <1>0, <2>1, <2>2, <3>4 DEF First
      <4>2. Keepalive >= 0 => clist[i].timeout <= Keepalive
        BY <1>0, NodeAt DEF TypeOK, Timeouts
      <4> QED
        BY <1>0, <2>2, <2>3, <3>1, <3>4, <4>1, <4>2 DEF CountdownInv
    <3> QED
      BY <3>2, <3>3, <3>4
  <2> QED
    BY <1>0, <2>2, <2>3, <2>4 DEF Countdowns
<1>4. CASE Alive
  <2>1. /\ DOMAIN clist' = DOMAIN clist /\ Len(clist') = Len(clist)
        /\ \A i \in DOMAIN clist :
             /\ clist'[i].ip = clist[i].ip
             /\ clist'[i].flag =
                  IF Expires(clist[i]) THEN "DISCON" ELSE clist[i].flag
             /\ clist'[i].timeout = IF clist[i].timeout > 0
                                    THEN clist[i].timeout - 1
                                    ELSE clist[i].timeout
    BY <1>4, AliveList
  <2>2. /\ Len(quiet') = Len(quiet)
        /\ \A i \in DOMAIN clist :
             quiet'[i] = IF quiet[i] < QuietCap THEN quiet[i] + 1 ELSE quiet[i]
    BY <1>0, <1>4 DEF Alive
  <2>3. ASSUME NEW i \in DOMAIN clist
        PROVE  CountdownInv(i)'
    <3>1. First(i)' => First(i)
      BY <1>0, <2>1 DEF First
    <3>2. clist[i].flag \in Flag /\ clist[i].timeout \in Timeouts
      BY NodeAt DEF TypeOK
    <3>3. CASE Keepalive < 0
      BY <1>0, <2>1, <3>2, <3>3 DEF CountdownInv, Expires, Timeouts
    <3>4. CASE Keepalive >= 0
      <4>1. QuietCap = Keepalive + 1 /\ clist[i].timeout \in 0 .. Keepalive
        BY <3>2, <3>4 DEF QuietCap, Timeouts
      <4>2. /\ quiet[i] <= Keepalive => clist[i].timeout <= Keepalive - quiet[i]
            /\ quiet[i] = Keepalive + 1 => /\ clist[i].timeout = 0
                                           /\ clist[i].flag = "DISCON"
            /\ First(i) /\ quiet[i] <= Keepalive =>
                 /\ clist[i].timeout = Keepalive - quiet[i]
                 /\ clist[i].flag = "CONNECT"
        BY <1>0, <3>4 DEF CountdownInv
      <4>3. CASE quiet[i] < Keepalive
        <5>a. quiet[i] \in Nat /\ Keepalive \in Int /\ clist[i].timeout \in Nat
          BY <1>0, <4>1
        <5>1. quiet'[i] = quiet[i] + 1 /\ quiet'[i] <= Keepalive /\ quiet[i] <= Keepalive
          BY <2>2, <4>1, <4>3, <5>a
        <5>b. clist[i].timeout <= Keepalive - quiet[i]
          BY <4>2, <5>1
        <5>c. clist'[i].timeout = IF clist[i].timeout > 0 THEN clist[i].timeout - 1
                                  ELSE clist[i].timeout
          BY <2>1
        <5>2. clist'[i].timeout <= Keepalive - quiet'[i]
          BY <4>3, <5>1, <5>a, <5>b, <5>c
        <5>3. ASSUME First(i)'
              PROVE  clist'[i].timeout = Keepalive - quiet'[i] /\ clist'[i].flag = "CONNECT"
          <6>1. clist[i].timeout = Keepalive - quiet[i] /\ clist[i].flag = "CONNECT"
            BY <3>1, <4>2, <5>1, <5>3
          <6>2. clist[i].timeout > 0
            BY <4>3, <5>a, <6>1
          <6>3. clist'[i].timeout = clist[i].timeout - 1
            BY <2>1, <6>2
          <6>4. clist'[i].flag = "CONNECT"
            BY <2>1, <6>1, <6>2 DEF Expires
          <6>5. clist'[i].timeout = Keepalive - quiet'[i]
            BY <5>1, <5>a, <6>1, <6>3
          <6> QED BY <6>4, <6>5
        <5>4. quiet'[i] # Keepalive + 1
          BY <5>1, <5>a
        <5>5. ~(Keepalive < 0)
          BY <3>4, MonitorAssumption
        <5> QED BY <5>2, <5>3, <5>4, <5>5 DEF CountdownInv
      <4>4. CASE quiet[i] >= Keepalive
        <5>a. quiet[i] \in 0 .. Keepalive + 1 /\ Keepalive \in Int
          BY <1>0, <4>1
        <5>b. clist[i].timeout = 0
          BY <4>1, <4>2, <4>4, <5>a
        <5>c. quiet'[i] = Keepalive + 1
          BY <2>2, <4>1, <4>4, <5>a
        <5>1. clist[i].timeout = 0 /\ quiet'[i] = Keepalive + 1
          BY <5>b, <5>c
        <5>2. clist'[i].timeout = 0
          BY <2>1, <5>1
        <5>3. clist'[i].flag = "DISCON"
          BY <2>1, <3>2, <5>1 DEF Expires, Flag
        <5> QED
          BY <3>4, <5>a, <5>1, <5>2, <5>3 DEF CountdownInv
      <4> QED
        BY <1>0, <4>1, <4>3, <4>4
    <3> QED
      BY <1>0, <3>3, <3>4
  <2> QED
    BY <1>0, <2>1, <2>2, <2>3 DEF Countdowns
<1>5. CASE (\E t \in Loader : Query(t)) \/ Aside
  <2>1. UNCHANGED <<clist, quiet>>
    BY <1>5 DEF Query, Aside, listVars
  <2> QED
    BY <2>1 DEF Countdowns, CountdownInv, First
<1> QED
  BY <1>1, <1>2, <1>3, <1>4, <1>5, Steps DEF TypeOK

-----------------------------------------------------------------------------
(* The theorems.                                                           *)

\* The invariant holds before anything runs.
LEMMA InitInv == Init => IInv
<1> SUFFICES ASSUME Init
             PROVE  IInv
  OBVIOUS
<1>1. TypeOK
  BY InitType
<1>2. DOMAIN clist = {} /\ Len(clist) = 0 /\ Len(quiet) = 0 /\ told = {}
  BY DEF Init
<1>3. \A t \in Loader : done[t] = 0 /\ base[t] = 0 /\ pc[t] # "connect"
  BY DEF Init, Loader, Threads, Start
<1>4. Countdowns /\ ToldInList /\ StatusAgrees
  BY <1>2 DEF Countdowns, ToldInList, StatusAgrees
<1>5. LoadProgress /\ SingleLoadIsExact
  <2>1. \A t \in Loader : table[t] = << >>
    BY DEF Init
  <2> QED
    BY <1>2, <1>3, <2>1 DEF LoadProgress, SingleLoadIsExact
<1>6. ListIsMerge
  <2>1. \A r \in Row : Places(r) = {} /\ \A t \in Loader : Pushed(t, r) = {}
    BY <1>2, <1>3 DEF Places, Pushed
  <2> QED
    BY <2>1, FS_EmptySet DEF ListIsMerge, Loader
<1> QED
  BY <1>1, <1>4, <1>5, <1>6 DEF IInv

\* The invariant holds in every reachable state.
THEOREM Invariance == Spec => []IInv
<1>1. IInv /\ [Next]_vars => IInv'
  <2> SUFFICES ASSUME IInv, [Next]_vars
               PROVE  IInv'
    OBVIOUS
  <2>1. TypeOK'
    BY NextType DEF IInv
  <2> QED
    BY <2>1, NextCountdowns, NextTold, NextStatus, NextProgress, NextExact,
       NextMerge DEF IInv
<1> QED
  BY InitInv, <1>1, PTL DEF Spec

\* The last status record of a subsystem is what its node says: the flag
\* change and the record are one step wherever CheckClient and Alive make it.
THEOREM StatusAgreement == Spec => []StatusAgrees
<1>1. IInv => StatusAgrees
  BY DEF IInv
<1> QED
  BY Invariance, <1>1, PTL

\* The first node of an address is disconnected after Keepalive + 1 silent
\* alarms and not before.
THEOREM NoFalseAlarms == Spec => []NoFalseAlarm
<1>1. IInv => NoFalseAlarm
  <2> SUFFICES ASSUME IInv, NEW i \in DOMAIN clist, First(i), clist[i].flag = "DISCON"
               PROVE  Keepalive >= 0 /\ quiet[i] = Keepalive + 1
    BY DEF NoFalseAlarm
  <2>1. /\ CountdownInv(i) /\ Keepalive \in Int
        /\ DOMAIN quiet = DOMAIN clist /\ quiet \in Seq(0 .. QuietCap)
    BY MonitorAssumption DEF IInv, TypeOK, ListOK, Countdowns
  <2>2. quiet[i] \in 0 .. QuietCap
    <3>1. i \in DOMAIN quiet
      BY <2>1
    <3> QED
      BY <2>1, <3>1, SeqAt
  <2> QED
    BY <2>1, <2>2 DEF CountdownInv, QuietCap
<1> QED
  BY Invariance, <1>1, PTL

\* No node stays connected through Keepalive + 1 silent alarms.
THEOREM NoMissedOutages == Spec => []NoMissedOutage
<1>1. IInv => NoMissedOutage
  BY MonitorAssumption DEF IInv, NoMissedOutage, Countdowns, CountdownInv
<1> QED
  BY Invariance, <1>1, PTL

\* A list filled by one loader is its table, as far as it was pushed.
THEOREM SingleLoadExact == Spec => []SingleLoadIsExact
<1>1. IInv => SingleLoadIsExact
  BY DEF IInv
<1> QED
  BY Invariance, <1>1, PTL

\* Three places of one row need three pushes of it, and a loader has only one.
LEMMA MergeTwice == IInv => AtMostTwice
<1> SUFFICES ASSUME IInv, RowsDiffer, NEW i \in DOMAIN clist,
                    NEW j \in DOMAIN clist, NEW k \in DOMAIN clist,
                    NodeRow(clist[i]) = NodeRow(clist[j]),
                    NodeRow(clist[j]) = NodeRow(clist[k]),
                    i # j, j # k, i # k
             PROVE  FALSE
  BY DEF AtMostTwice
<1> DEFINE r == NodeRow(clist[i])
<1>1. r \in Row
  <2>1. clist[i] \in Node
    BY DEF IInv, TypeOK, ListOK
  <2> QED
    BY <2>1 DEF Node, NodeRow, Row
<1>2. \A t \in Loader : Cardinality(Pushed(t, r)) \in Nat /\ Cardinality(Pushed(t, r)) <= 1
  <2> SUFFICES ASSUME NEW t \in Loader
               PROVE  Cardinality(Pushed(t, r)) \in Nat /\ Cardinality(Pushed(t, r)) <= 1
    OBVIOUS
  <2>1. /\ table[t] \in Seq(Row) /\ base[t] \in Nat /\ done[t] \in Nat
        /\ done[t] <= Len(table[t])
        /\ table[t] \in Tables \cup {<< >>}
    BY DEF IInv, TypeOK, LoadOK, LoadProgress
  <2>2. \A p, q \in DOMAIN table[t] : table[t][p] = table[t][q] => p = q
    BY <2>1 DEF RowsDiffer
  <2>3. base[t] + 1 .. done[t] \subseteq DOMAIN table[t]
    BY <2>1
  <2>4. \A p, q \in Pushed(t, r) : p = q
    BY <2>2, <2>3 DEF Pushed
  <2>5. Pushed(t, r) = {} \/ \E p : Pushed(t, r) = {p}
    BY <2>4
  <2> HIDE DEF r
  <2>6. ASSUME NEW p, Pushed(t, r) = {p}
        PROVE  Cardinality(Pushed(t, r)) = 1
    <3>1. Cardinality({p}) = 1
      BY FS_Singleton
    <3> QED
      BY <2>6, <3>1
  <2>7. Cardinality(Pushed(t, r)) \in {0, 1}
    BY <2>5, <2>6, FS_EmptySet, Zenon
  <2> QED
    BY <2>7
<1>3. /\ Cardinality(Places(r)) = Cardinality(Pushed("KeepAlive", r))
                                 + Cardinality(Pushed("UpdateSig", r))
      /\ IsFiniteSet(Places(r)) /\ Cardinality(Places(r)) \in Nat
  BY <1>1, MergeFinite DEF IInv, ListIsMerge
<1>4. {i, j, k} \in SUBSET Places(r)
  BY DEF Places
<1> HIDE DEF r
<1>5. IsFiniteSet({i, j, k}) /\ Cardinality({i, j, k}) = 3
  <2>1. IsFiniteSet({i}) /\ Cardinality({i}) = 1
    BY FS_Singleton
  <2>2. IsFiniteSet({i} \cup {j}) /\ Cardinality({i} \cup {j}) = 2
    BY <2>1, FS_AddElement
  <2>3. IsFiniteSet({i} \cup {j} \cup {k}) /\ Cardinality({i} \cup {j} \cup {k}) = 3
    BY <2>2, FS_AddElement
  <2>4. {i} \cup {j} \cup {k} = {i, j, k}
    OBVIOUS
  <2> QED
    BY <2>3, <2>4
<1>6. Cardinality(Places(r)) >= 3
  BY <1>3, <1>4, <1>5, FS_Subset
<1>7. Cardinality(Places(r)) <= 2
  BY <1>2, <1>3 DEF Loader
<1> QED
  BY <1>3, <1>6, <1>7

\* Overlapping loads of init_client may double a node and never triple it,
\* whatever the database returns to either, provided no result has a row twice.
THEOREM NeverThreeTimes == Spec => []AtMostTwice
  BY Invariance, MergeTwice, PTL

-----------------------------------------------------------------------------
(* The configuration.                                                      *)

\* A set of numbers that is not empty has a least element.
LEMMA LeastIsIn ==
  ASSUME NEW S \in SUBSET Nat, S # {}
  PROVE  \E x \in S : \A y \in S : x <= y
<1>1. IsWellFoundedOn(OpToRel(<, Nat), Nat)
  BY NatLessThanWellFounded
<1>2. PICK x \in S : \A y \in S : ~(<<y, x>> \in OpToRel(<, Nat))
  BY <1>1, WFMin
<1>3. \A y \in S : ~(y < x)
  BY <1>2 DEF OpToRel
<1> QED BY <1>3

\* What atoi reads from the digits: the number of k of them is ten times the number of
\* one less and the last, for as many as there are.
LEMMA NumberOfDigits ==
  ASSUME NEW v \in Seq(0 .. 9)
  PROVE  /\ Number(v) \in [0 .. Len(v) -> Nat]
         /\ Number(v)[0] = 0
         /\ \A k \in 1 .. Len(v) : Number(v)[k] = 10 * Number(v)[k - 1] + v[k]
<1> DEFINE Reads(m, g) == g = [k \in 0 .. m |-> IF k = 0 THEN 0 ELSE 10 * g[k - 1] + v[k]]
           Bad == {m \in 0 .. Len(v) : ~ \E g \in [0 .. m -> Nat] : Reads(m, g)}
<1>0. Len(v) \in Nat /\ \A k \in 1 .. Len(v) : v[k] \in 0 .. 9
  OBVIOUS
<1>1. Bad = {}
  <2> SUFFICES ASSUME Bad # {} PROVE FALSE
    OBVIOUS
  <2>1. PICK m \in Bad : \A j \in Bad : m <= j
    <3>1. Bad \in SUBSET Nat
      BY <1>0
    <3> QED BY <3>1, LeastIsIn
  <2>2. m \in 0 .. Len(v) /\ \A g \in [0 .. m -> Nat] : ~Reads(m, g)
    OBVIOUS
  <2>3. m # 0
    <3> SUFFICES ASSUME m = 0 PROVE FALSE
      OBVIOUS
    <3> DEFINE z == [k \in 0 .. m |-> 0]
    <3>1. z \in [0 .. m -> Nat]
      OBVIOUS
    <3>2. Reads(m, z)
      OBVIOUS
    <3> QED BY <3>1, <3>2, <2>2
  <2>4. m - 1 \in 0 .. Len(v) /\ m - 1 \notin Bad
    <3>1. m - 1 \in 0 .. Len(v) /\ ~(m <= m - 1)
      BY <1>0, <2>2, <2>3
    <3> QED BY <2>1, <3>1
  <2>5. PICK g \in [0 .. m - 1 -> Nat] : Reads(m - 1, g)
    BY <2>4
  <2> DEFINE h == [k \in 0 .. m |-> IF k = m THEN 10 * g[m - 1] + v[m] ELSE g[k]]
  <2>6. h \in [0 .. m -> Nat]
    <3> SUFFICES ASSUME NEW k \in 0 .. m
                 PROVE  (IF k = m THEN 10 * g[m - 1] + v[m] ELSE g[k]) \in Nat
      OBVIOUS
    <3>1. CASE k = m
      <4>1. m - 1 \in 0 .. m - 1 /\ m \in 1 .. Len(v)
        BY <1>0, <2>2, <2>3
      <4>2. g[m - 1] \in Nat
        BY <4>1, <2>5
      <4>3. v[m] \in 0 .. 9
        BY <4>1, <1>0
      <4>4. 10 * g[m - 1] + v[m] \in Nat
        <5> HIDE DEF Reads, Bad, h
        <5>1. \A a \in Nat, b \in 0 .. 9 : 10 * a + b \in Nat
          OBVIOUS
        <5> QED BY <4>2, <4>3, <5>1
      <4> QED BY <3>1, <4>4
    <3>2. CASE k # m
      BY <3>2, <2>2, <2>5
    <3> QED BY <3>1, <3>2
  <2>7. \A k \in 0 .. m : h[k] = IF k = 0 THEN 0 ELSE 10 * h[k - 1] + v[k]
    <3> TAKE k \in 0 .. m
    <3>1. \A j \in 0 .. m - 1 : h[j] = g[j]
      BY <2>2
    <3>2. \A j \in 0 .. m - 1 : g[j] = IF j = 0 THEN 0 ELSE 10 * g[j - 1] + v[j]
      BY <2>5
    <3>3. CASE k = m
      BY <3>1, <3>3, <2>2, <2>3
    <3>4. CASE k # m
      BY <3>1, <3>2, <3>4, <2>2
    <3> QED BY <3>3, <3>4
  <2>8. Reads(m, h)
    BY <2>7
  <2> QED BY <2>2, <2>6, <2>8
<1>2. PICK g \in [0 .. Len(v) -> Nat] : Reads(Len(v), g)
  BY <1>0, <1>1
<1>3. Reads(Len(v), Number(v))
  BY <1>2 DEF Number
<1> DEFINE Differ == {k \in 0 .. Len(v) : Number(v)[k] # g[k]}
<1>4. Differ = {}
  <2> SUFFICES ASSUME Differ # {} PROVE FALSE
    OBVIOUS
  <2>1. PICK m \in Differ : \A j \in Differ : m <= j
    <3>1. Differ \in SUBSET Nat
      BY <1>0
    <3> QED BY <3>1, LeastIsIn
  <2>2. m \in 0 .. Len(v) /\ Number(v)[m] # g[m]
    OBVIOUS
  <2>3. m # 0
    BY <1>2, <1>3, <2>2
  <2>4. m - 1 \in 0 .. Len(v) /\ m - 1 \notin Differ
    <3>1. m - 1 \in 0 .. Len(v) /\ ~(m <= m - 1)
      BY <1>0, <2>2, <2>3
    <3> QED BY <2>1, <3>1
  <2>5. Number(v)[m - 1] = g[m - 1]
    BY <2>4
  <2>6. g[m] = 10 * g[m - 1] + v[m]
    BY <1>2, <2>2, <2>3
  <2>7. Number(v)[m] = 10 * Number(v)[m - 1] + v[m]
    BY <1>3, <2>2, <2>3
  <2> QED BY <2>2, <2>5, <2>6, <2>7
<1>5. Number(v) = g
  <2>1. \A k \in 0 .. Len(v) : Number(v)[k] = g[k]
    BY <1>4
  <2>2. Number(v) = [k \in 0 .. Len(v) |-> Number(v)[k]]
    BY <1>3
  <2>3. g = [k \in 0 .. Len(v) |-> g[k]]
    BY <1>2
  <2> QED BY <2>1, <2>2, <2>3
<1>6. g[0] = 0 /\ \A k \in 1 .. Len(v) : g[k] = 10 * g[k - 1] + v[k]
  <2> HIDE DEF Bad, Differ
  <2>1. \A k \in 0 .. Len(v) : g[k] = IF k = 0 THEN 0 ELSE 10 * g[k - 1] + v[k]
    BY <1>2
  <2> QED BY <2>1, <1>0
<1> HIDE DEF Reads, Bad, Differ
<1> QED BY <1>2, <1>5, <1>6

\* atoi of digits is a number, and of none is 0.
LEMMA AtoiType ==
  ASSUME NEW v \in Seq(0 .. 9)
  PROVE  atoi(v) \in Nat /\ atoi(<< >>) = 0
<1>1. atoi(v) \in Nat
  BY NumberOfDigits DEF atoi
<1>2. << >> \in Seq(0 .. 9) /\ Len(<< >>) = 0
  OBVIOUS
<1>3. Number(<< >>)[0] = 0
  BY <1>2, NumberOfDigits
<1> QED BY <1>1, <1>2, <1>3 DEF atoi

-----------------------------------------------------------------------------
\* The newest of some lines.
LEMMA NewestIsIn ==
  ASSUME NEW m \in Nat, NEW S \in SUBSET (1 .. m), S # {}
  PROVE  Newest(S) \in S /\ \A j \in S : j <= Newest(S)
<1> DEFINE T == {m - k : k \in S}
<1>1. T \in SUBSET Nat /\ T # {}
  <2>1. \A k \in S : k \in 1 .. m /\ m - k \in Nat
    OBVIOUS
  <2> QED BY <2>1
<1>2. PICK x \in T : \A y \in T : x <= y
  <2> HIDE DEF T
  <2> QED BY <1>1, LeastIsIn
<1>3. PICK k \in S : x = m - k
  OBVIOUS
<1>4. \A j \in S : j <= k
  <2> TAKE j \in S
  <2>1. m - j \in T
    OBVIOUS
  <2>2. m - k <= m - j
    BY <1>2, <1>3, <2>1
  <2>3. j \in Nat /\ k \in Nat
    OBVIOUS
  <2> HIDE DEF T
  <2> QED BY <2>2, <2>3
<1> QED BY <1>4 DEF Newest

\* A line that is appended is the newest of those that set its fields, and leaves
\* what the lines before it have set of the others, and of longer values.
LEMMA LineAppended ==
  ASSUME NEW Line, NEW ls \in Seq(Line), NEW line \in Line, NEW f, NEW n
  PROVE  /\ (f \in FieldsOf(line.key) /\ Len(line.value) >= n) =>
              /\ Setting(Append(ls, line), f, n) # {}
              /\ Latest(Append(ls, line), f, n) = line.value
         /\ ~(f \in FieldsOf(line.key) /\ Len(line.value) >= n) =>
              /\ Setting(Append(ls, line), f, n) = Setting(ls, f, n)
              /\ Latest(Append(ls, line), f, n) = Latest(ls, f, n)
<1> DEFINE t == Append(ls, line)
<1>1. /\ Len(ls) \in Nat /\ DOMAIN ls = 1 .. Len(ls)
      /\ DOMAIN t = 1 .. Len(ls) + 1
      /\ \A k \in 1 .. Len(ls) : t[k] = ls[k]
      /\ t[Len(ls) + 1] = line
  OBVIOUS
<1> HIDE DEF t
<1>3. CASE f \in FieldsOf(line.key) /\ Len(line.value) >= n
  <2>1. /\ Setting(t, f, n) \in SUBSET (1 .. Len(ls) + 1)
        /\ Len(ls) + 1 \in Setting(t, f, n)
    BY <1>1, <1>3 DEF Setting
  <2>2. /\ Newest(Setting(t, f, n)) \in Setting(t, f, n)
        /\ \A j \in Setting(t, f, n) : j <= Newest(Setting(t, f, n))
    <3>1. Len(ls) + 1 \in Nat /\ Setting(t, f, n) # {}
      BY <1>1, <2>1
    <3> QED BY <2>1, <3>1, NewestIsIn
  <2>3. Newest(Setting(t, f, n)) = Len(ls) + 1
    BY <1>1, <2>1, <2>2
  <2>4. Setting(t, f, n) # {} /\ Latest(t, f, n) = line.value
    BY <1>1, <2>1, <2>3 DEF Latest
  <2> QED BY <1>3, <2>4 DEF t
<1>4. CASE ~(f \in FieldsOf(line.key) /\ Len(line.value) >= n)
  <2>1. Setting(t, f, n) = Setting(ls, f, n)
    BY <1>1, <1>4 DEF Setting
  <2>2. Setting(ls, f, n) \in SUBSET (1 .. Len(ls))
    BY <1>1 DEF Setting
  <2>3. CASE Setting(ls, f, n) = {}
    <3>1. Latest(t, f, n) = Latest(ls, f, n)
      BY <2>1, <2>3 DEF Latest
    <3> QED BY <1>4, <2>1, <3>1 DEF t
  <2>4. CASE Setting(ls, f, n) # {}
    <3>1. Newest(Setting(ls, f, n)) \in 1 .. Len(ls)
      BY <1>1, <2>2, <2>4, NewestIsIn
    <3>2. Latest(t, f, n) = Latest(ls, f, n)
      BY <1>1, <2>1, <2>4, <3>1 DEF Latest
    <3> QED BY <1>4, <2>1, <3>2 DEF t
  <2> QED BY <2>3, <2>4
<1> QED BY <1>3, <1>4

\* What is left of an old value behind a new one.
LEMMA OverlaidBy ==
  ASSUME NEW a \in Seq(0 .. 9), NEW v \in Seq(0 .. 9)
  PROVE  /\ Overlay(a, v) \in Seq(0 .. 9)
         /\ Len(Overlay(a, v)) = IF Len(v) >= Len(a) THEN Len(v) ELSE Len(a)
         /\ \A i \in 1 .. Len(v) : Overlay(a, v)[i] = v[i]
         /\ \A i \in Len(v) + 1 .. Len(a) : Overlay(a, v)[i] = a[i]
BY DEF Overlay

-----------------------------------------------------------------------------
\* What a field holds is of its type, whatever line is read.
LEMMA SetType ==
  ASSUME ConfTypeOK, NEW f \in Fields, NEW v \in Values
  PROVE  /\ f \in Numbers => Set(f, v) = atoi(v) /\ Set(f, v) \in Nat
         /\ f \in Cleared => Set(f, v) = v
         /\ f \in Kept => conffile[f] \in Seq(0 .. 9) /\ Set(f, v) = Overlay(conffile[f], v)
         /\ f \notin Numbers => Set(f, v) \in Seq(0 .. 9)
<1>1. v \in Seq(0 .. 9)
  BY ConfAssumption
<1>2. /\ f \in Kept => f \notin Numbers /\ f \notin Cleared
      /\ f \in Cleared => f \notin Numbers
      /\ f \in Numbers \/ f \in Cleared \/ f \in Kept
  BY DEF Kept, Numbers, Cleared, Fields
<1>3. CASE f \in Numbers
  BY <1>1, <1>2, <1>3, AtoiType DEF Set
<1>4. CASE f \in Cleared
  BY <1>1, <1>2, <1>4 DEF Set
<1>5. CASE f \in Kept
  <2>1. conffile[f] \in Seq(0 .. 9)
    BY <1>2, <1>5 DEF ConfTypeOK
  <2>2. Overlay(conffile[f], v) \in Seq(0 .. 9)
    BY <1>1, <2>1, OverlaidBy
  <2> QED BY <1>2, <1>5, <2>1, <2>2 DEF Set
<1> QED BY <1>2, <1>3, <1>4, <1>5

LEMMA ConfTyped == ConfTypeOK /\ [ConfNext]_confVars => ConfTypeOK'
<1> SUFFICES ASSUME ConfTypeOK, [ConfNext]_confVars
             PROVE  ConfTypeOK'
  OBVIOUS
<1>1. ASSUME NEW key \in Keys, NEW v \in Values, ReadLine(key, v)
      PROVE  ConfTypeOK'
  <2>1. fp' \in {"open", "null", "closed", "crashed"}
    BY <1>1 DEF ReadLine, ConfTypeOK
  <2>2. lines' \in Seq([key : Keys, value : Values])
    BY <1>1 DEF ReadLine, ConfTypeOK
  <2>3. ASSUME NEW f \in Fields
        PROVE  conffile'[f] \in IF f \in Numbers THEN Nat ELSE Seq(0 .. 9)
    <3>1. conffile'[f] = IF f \in FieldsOf(key) THEN Set(f, v) ELSE conffile[f]
      BY <1>1 DEF ReadLine
    <3>2. conffile[f] \in IF f \in Numbers THEN Nat ELSE Seq(0 .. 9)
      BY DEF ConfTypeOK
    <3> QED BY <3>1, <3>2, SetType
  <2> QED BY <2>1, <2>2, <2>3 DEF ConfTypeOK
<1>2. CASE End
  BY <1>2 DEF End, ConfTypeOK
<1>3. CASE UNCHANGED confVars
  BY <1>3 DEF confVars, ConfTypeOK
<1> QED BY <1>1, <1>2, <1>3 DEF ConfNext

\* A field whose buffer is not cleared is made of the lines read so far after one more
\* line when it was before.
LEMMA KeptAsRead ==
  ASSUME ConfTypeOK, FieldsAsRead,
         NEW key \in Keys, NEW v \in Values, ReadLine(key, v), NEW f \in Kept
  PROVE  /\ \A n \in DOMAIN conffile'[f] :
              Setting(lines', f, n) # {} /\ conffile'[f][n] = Latest(lines', f, n)[n]
         /\ Setting(lines', f, Len(conffile'[f]) + 1) = {}
<1>1. f \in Fields /\ v \in Seq(0 .. 9) /\ Len(v) \in Nat
  BY ConfAssumption DEF Fields
<1>2. conffile[f] \in Seq(0 .. 9) /\ Set(f, v) = Overlay(conffile[f], v)
  BY <1>1, SetType
<1>3. conffile'[f] = IF f \in FieldsOf(key) THEN Overlay(conffile[f], v) ELSE conffile[f]
  BY <1>1, <1>2, SMTT(30) DEF ReadLine
<1>4. /\ \A n \in DOMAIN conffile[f] :
           Setting(lines, f, n) # {} /\ conffile[f][n] = Latest(lines, f, n)[n]
      /\ Setting(lines, f, Len(conffile[f]) + 1) = {}
  BY <1>1 DEF FieldsAsRead
<1>5. /\ lines \in Seq([key : Keys, value : Values])
      /\ lines' = Append(lines, [key |-> key, value |-> v])
  BY DEF ReadLine, ConfTypeOK
<1>6. ASSUME NEW n \in Nat
      PROVE  /\ (f \in FieldsOf(key) /\ Len(v) >= n) =>
                  Setting(lines', f, n) # {} /\ Latest(lines', f, n) = v
             /\ ~(f \in FieldsOf(key) /\ Len(v) >= n) =>
                  /\ Setting(lines', f, n) = Setting(lines, f, n)
                  /\ Latest(lines', f, n) = Latest(lines, f, n)
  <2> DEFINE Line == [key : Keys, value : Values]
             line == [key |-> key, value |-> v]
  <2>1. line.key = key /\ line.value = v /\ line \in Line
    OBVIOUS
  <2>2. lines \in Seq(Line) /\ lines' = Append(lines, line)
    BY <1>5
  <2> HIDE DEF Line, line
  <2> QED BY <2>1, <2>2, LineAppended
<1>7. /\ Len(conffile[f]) \in Nat
      /\ DOMAIN conffile[f] = 1 .. Len(conffile[f])
  BY <1>2
<1>8. CASE f \notin FieldsOf(key)
  <2>1. conffile'[f] = conffile[f]
    BY <1>3, <1>8
  <2>2. \A n \in Nat : /\ Setting(lines', f, n) = Setting(lines, f, n)
                       /\ Latest(lines', f, n) = Latest(lines, f, n)
    BY <1>6, <1>8
  <2>3. Len(conffile[f]) + 1 \in Nat /\ \A n \in DOMAIN conffile[f] : n \in Nat
    BY <1>7
  <2> QED BY <1>4, <2>1, <2>2, <2>3
<1>9. CASE f \in FieldsOf(key)
  <2> DEFINE new == Overlay(conffile[f], v)
  <2>1. conffile'[f] = new
    BY <1>3, <1>9
  <2>2. /\ new \in Seq(0 .. 9)
        /\ Len(new) = IF Len(v) >= Len(conffile[f]) THEN Len(v) ELSE Len(conffile[f])
        /\ \A i \in 1 .. Len(v) : new[i] = v[i]
        /\ \A i \in Len(v) + 1 .. Len(conffile[f]) : new[i] = conffile[f][i]
    BY <1>1, <1>2, OverlaidBy
  <2> HIDE DEF new
  <2>3. Len(new) \in Nat /\ DOMAIN new = 1 .. Len(new)
    BY <2>2
  <2>4. ASSUME NEW n \in DOMAIN new
        PROVE  Setting(lines', f, n) # {} /\ new[n] = Latest(lines', f, n)[n]
    <3>1. n \in Nat /\ n \in 1 .. Len(new)
      BY <2>3
    <3>2. CASE n <= Len(v)
      <4>1. n \in 1 .. Len(v) /\ Len(v) >= n
        BY <1>1, <3>1, <3>2
      <4>2. Setting(lines', f, n) # {} /\ Latest(lines', f, n) = v
        BY <1>6, <1>9, <3>1, <4>1
      <4> QED BY <2>2, <4>1, <4>2
    <3>3. CASE ~(n <= Len(v))
      <4>1. n \in Len(v) + 1 .. Len(conffile[f]) /\ n \in DOMAIN conffile[f] /\ ~(Len(v) >= n)
        BY <1>1, <1>7, <2>2, <3>1, <3>3
      <4>2. /\ Setting(lines', f, n) = Setting(lines, f, n)
            /\ Latest(lines', f, n) = Latest(lines, f, n)
        BY <1>6, <3>1, <4>1
      <4> QED BY <1>4, <2>2, <4>1, <4>2
    <3> QED BY <3>2, <3>3
  <2>5. Setting(lines', f, Len(new) + 1) = {}
    <3>1. Len(new) + 1 \in Nat /\ ~(Len(v) >= Len(new) + 1)
      BY <1>1, <1>7, <2>2, <2>3
    <3>2. Setting(lines', f, Len(new) + 1) = Setting(lines, f, Len(new) + 1)
      BY <1>6, <3>1
    <3>3. Setting(lines, f, Len(new) + 1) \subseteq Setting(lines, f, Len(conffile[f]) + 1)
      <4>1. Len(new) + 1 >= Len(conffile[f]) + 1
        BY <1>1, <1>7, <2>2
      <4>2. ASSUME NEW k \in DOMAIN lines, Len(lines[k].value) >= Len(new) + 1
            PROVE  Len(lines[k].value) >= Len(conffile[f]) + 1
        <5>1. lines[k] \in [key : Keys, value : Values]
          BY <1>5, SeqAt
        <5>2. lines[k].value \in Seq(0 .. 9)
          BY <5>1, ConfAssumption
        <5>3. Len(lines[k].value) \in Nat
          BY <5>2
        <5> DEFINE a == Len(lines[k].value)
                   b == Len(new)
                   c == Len(conffile[f])
        <5>4. a \in Nat /\ b \in Nat /\ c \in Nat /\ b + 1 >= c + 1 /\ a >= b + 1
          BY <1>7, <2>3, <4>1, <4>2, <5>3
        <5> HIDE DEF a, b, c
        <5>5. a >= c + 1
          BY <5>4
        <5> QED BY <5>5 DEF a, c
      <4> QED BY <4>2 DEF Setting
    <3> QED BY <1>4, <3>2, <3>3
  <2> QED BY <2>1, <2>4, <2>5
<1> QED BY <1>8, <1>9

\* Every field is made of the lines read so far.
LEMMA AllAsRead == ConfTypeOK /\ FieldsAsRead /\ [ConfNext]_confVars => FieldsAsRead'
<1> SUFFICES ASSUME ConfTypeOK, FieldsAsRead, [ConfNext]_confVars
             PROVE  FieldsAsRead'
  OBVIOUS
<1>1. ASSUME NEW key \in Keys, NEW v \in Values, ReadLine(key, v)
      PROVE  FieldsAsRead'
  <2>1. ASSUME NEW f \in Fields, f \in Kept
        PROVE  /\ \A n \in DOMAIN conffile'[f] :
                    Setting(lines', f, n) # {} /\ conffile'[f][n] = Latest(lines', f, n)[n]
               /\ Setting(lines', f, Len(conffile'[f]) + 1) = {}
    BY <1>1, <2>1, KeptAsRead
  <2>2. ASSUME NEW f \in Fields, f \notin Kept
        PROVE  conffile'[f] = IF f \in Numbers THEN atoi(Latest(lines', f, 0))
                                               ELSE Latest(lines', f, 0)
    <3>1. conffile'[f] = IF f \in FieldsOf(key) THEN Set(f, v) ELSE conffile[f]
      BY <1>1 DEF ReadLine
    <3>2. conffile[f] = IF f \in Numbers THEN atoi(Latest(lines, f, 0))
                                         ELSE Latest(lines, f, 0)
      BY <2>2 DEF FieldsAsRead
    <3>3. Latest(lines', f, 0) = IF f \in FieldsOf(key) THEN v ELSE Latest(lines, f, 0)
      <4> DEFINE Line == [key : Keys, value : Values]
                 line == [key |-> key, value |-> v]
      <4>1. line.key = key /\ line.value = v /\ line \in Line
        OBVIOUS
      <4>2. lines \in Seq(Line) /\ lines' = Append(lines, line)
        BY <1>1 DEF ReadLine, ConfTypeOK
      <4>3. v \in Seq(0 .. 9)
        BY ConfAssumption
      <4>4. Len(v) >= 0
        BY <4>3
      <4> HIDE DEF Line, line
      <4> QED BY <4>1, <4>2, <4>4, LineAppended
    <3>4. Set(f, v) = IF f \in Numbers THEN atoi(v) ELSE v
      BY <2>2, SetType DEF Fields
    <3> QED BY <3>1, <3>2, <3>3, <3>4
  <2> QED BY <2>1, <2>2 DEF FieldsAsRead
<1>2. CASE End
  BY <1>2 DEF End, FieldsAsRead
<1>3. CASE UNCHANGED confVars
  BY <1>3 DEF confVars, FieldsAsRead
<1> QED BY <1>1, <1>2, <1>3 DEF ConfNext

\* inner-ip alone sets its three fields, the two that are not cleared alike.
LEMMA OneAddressKept == ConfTypeOK /\ OneAddress /\ [ConfNext]_confVars => OneAddress'
<1> SUFFICES ASSUME ConfTypeOK, OneAddress, [ConfNext]_confVars
             PROVE  OneAddress'
  OBVIOUS
<1>1. ASSUME NEW key \in Keys, NEW v \in Values, ReadLine(key, v)
      PROVE  OneAddress'
  <2>1. /\ "web_ip" \in Kept /\ "update_ip" \in Kept /\ "mysql_ip" \in Cleared
        /\ "web_ip" \in Fields /\ "update_ip" \in Fields /\ "mysql_ip" \in Fields
    BY DEF Kept, Cleared, Fields
  <2>2. CASE key = "inner-ip"
    <3>1. /\ "web_ip" \in FieldsOf(key) /\ "update_ip" \in FieldsOf(key)
          /\ "mysql_ip" \in FieldsOf(key)
      BY <2>2 DEF FieldsOf
    <3>2. /\ conffile'["web_ip"] = Set("web_ip", v)
          /\ conffile'["update_ip"] = Set("update_ip", v)
          /\ conffile'["mysql_ip"] = Set("mysql_ip", v)
      BY <1>1, <2>1, <3>1 DEF ReadLine
    <3>3. /\ conffile["web_ip"] \in Seq(0 .. 9)
          /\ Set("web_ip", v) = Overlay(conffile["web_ip"], v)
          /\ Set("update_ip", v) = Overlay(conffile["update_ip"], v)
          /\ Set("mysql_ip", v) = v
      BY <2>1, SetType
    <3>4. conffile'["web_ip"] = conffile'["update_ip"]
      BY <3>2, <3>3 DEF OneAddress
    <3>5. SubSeq(Overlay(conffile["web_ip"], v), 1, Len(v)) = v
      <4>1. v \in Seq(0 .. 9)
        BY ConfAssumption
      <4>2. SubSeq(conffile["web_ip"], Len(v) + 1, Len(conffile["web_ip"])) \in Seq(0 .. 9)
        BY <3>3, <4>1
      <4> QED BY <4>1, <4>2 DEF Overlay
    <3> QED BY <3>2, <3>3, <3>4, <3>5 DEF OneAddress
  <2>3. CASE key # "inner-ip"
    <3>1. /\ "web_ip" \notin FieldsOf(key) /\ "update_ip" \notin FieldsOf(key)
          /\ "mysql_ip" \notin FieldsOf(key)
      BY <2>3 DEF FieldsOf, Keys
    <3>2. /\ conffile'["web_ip"] = conffile["web_ip"]
          /\ conffile'["update_ip"] = conffile["update_ip"]
          /\ conffile'["mysql_ip"] = conffile["mysql_ip"]
      BY <1>1, <2>1, <3>1 DEF ReadLine
    <3> QED BY <3>2 DEF OneAddress
  <2> QED BY <2>2, <2>3
<1>2. CASE End
  BY <1>2 DEF End, OneAddress
<1>3. CASE UNCHANGED confVars
  BY <1>3 DEF confVars, OneAddress
<1> QED BY <1>1, <1>2, <1>3 DEF ConfNext

LEMMA ConfStarts == ConfInit => ConfInv
<1> SUFFICES ASSUME ConfInit
             PROVE  ConfInv
  OBVIOUS
<1>1. /\ lines = << >> /\ DOMAIN lines = {}
      /\ \A f \in Fields : conffile[f] = IF f \in Numbers THEN 0 ELSE << >>
  BY DEF ConfInit
<1>2. << >> \in Seq(0 .. 9) /\ Len(<< >>) = 0 /\ DOMAIN << >> = {}
  OBVIOUS
<1>3. ConfTypeOK
  <2>1. lines \in Seq([key : Keys, value : Values])
    BY <1>1
  <2>2. fp \in {"open", "null", "closed", "crashed"}
    BY DEF ConfInit
  <2>3. ASSUME NEW f \in Fields
        PROVE  conffile[f] \in IF f \in Numbers THEN Nat ELSE Seq(0 .. 9)
    <3>1. CASE f \in Numbers
      BY <1>1, <3>1
    <3>2. CASE f \notin Numbers
      BY <1>1, <1>2, <3>2
    <3> QED BY <3>1, <3>2
  <2> QED BY <2>1, <2>2, <2>3 DEF ConfTypeOK
<1>4. \A f, n : Setting(lines, f, n) = {} /\ Latest(lines, f, n) = << >>
  BY <1>1 DEF Setting, Latest
<1>5. FieldsAsRead
  <2>1. \A f \in Kept : f \notin Numbers
    BY DEF Kept, Numbers
  <2>2. atoi(<< >>) = 0
    BY <1>2, AtoiType
  <2> QED BY <1>1, <1>2, <1>4, <2>1, <2>2 DEF FieldsAsRead
<1>6. OneAddress
  <2>1. /\ conffile["web_ip"] = << >> /\ conffile["update_ip"] = << >>
        /\ conffile["mysql_ip"] = << >>
    BY <1>1 DEF Fields, Kept, Cleared, Numbers
  <2>2. SubSeq(<< >>, 1, 0) = << >>
    OBVIOUS
  <2> QED BY <1>2, <2>1, <2>2 DEF OneAddress
<1> QED BY <1>3, <1>5, <1>6 DEF ConfInv

\* Whatever lines the file has, every field is made of them as its setter makes it,
\* and the three addresses of inner-ip agree.  Among the fields is keepalive, a
\* number, which is what MonitorAssumption asks of it.
THEOREM ConfInvariance == ConfSpec => []ConfInv
<1>1. ConfInit => ConfInv
  BY ConfStarts
<1>2. ConfInv /\ [ConfNext]_confVars => ConfInv'
  BY ConfTyped, AllAsRead, OneAddressKept DEF ConfInv
<1> QED BY <1>1, <1>2, PTL DEF ConfSpec

=============================================================================
