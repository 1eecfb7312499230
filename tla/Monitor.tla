------------------------------- MODULE Monitor -------------------------------
(***************************************************************************)
(* The client monitor of KeepAlive.cpp.                                    *)
(*                                                                         *)
(* clist holds one Node per subsystem server.  It is filled from the       *)
(* database by init_client, which two threads run: KeepAlive once, before  *)
(* it arms the interval timer, and UpdateSig for every "update" request.   *)
(* CheckClient, run by RecvUdp, refreshes the node a keep-alive packet     *)
(* came from; Alive, the SIGALRM handler, counts every node down and marks *)
(* it disconnected at the end.  Both queue a status record when a flag     *)
(* changes.                                                                *)
(*                                                                         *)
(* Every access to clist is inside a clist_lock section and each section   *)
(* is one action here.  init_client takes the lock once to clear the list  *)
(* and once per row, so its steps interleave with everything else.         *)
(***************************************************************************)
EXTENDS Integers, Sequences, FiniteSets

CONSTANTS
  Systems,    \* values of SUBSYSTEM_CODE
  Addrs,      \* values of SERVER_IP
  Tables,     \* the results MYSQL_SYS_STR may have, each a sequence of rows
  Keepalive,  \* the "keepalive" entry of the configuration
  NoReport    \* no status record was queued yet

Row  == [sys : Systems, ip : Addrs]
Flag == {"CONNECT", "DISCON"}

ASSUME MonitorAssumption ==
  /\ Tables \subseteq Seq(Row)
  /\ Keepalive \in Int
  /\ NoReport \notin Flag

\* The values a node's countdown may take.
Timeouts == IF Keepalive >= 0 THEN 0 .. Keepalive ELSE {Keepalive}

Node    == [sys : Systems, ip : Addrs, flag : Flag, timeout : Timeouts]
Loader  == {"KeepAlive", "UpdateSig"}
Threads == Loader \cup {"RecvUdp"}

VARIABLES
  pc,       \* the point each thread has reached
  clist,    \* the list of nodes
  table,    \* per loader: the rows of the result set it holds
  done,     \* per loader: the number of rows it has pushed
  armed,    \* setitimer succeeded: SIGALRM is delivered periodically
  sockOpen, \* sockfd # -1
  owed,     \* the REP socket has received a request and not answered it
  aborted,  \* the process has terminated on an uncaught exception
  status,   \* history: per subsystem, the last status record queued
  told,     \* history: subsystems with a status record since clist was cleared
  base,     \* history: the value of done when clist was last cleared
  quiet     \* history: per node, alarms since its address was last heard

loadVars == <<table, done, base>>
listVars == <<clist, status, told, quiet>>
vars == <<pc, clist, table, done, armed, sockOpen, owed, aborted, status,
          told, base, quiet>>

At(t, l)    == ~aborted /\ pc[t] = l
Goto(t, l)  == pc' = [pc EXCEPT ![t] = l]

\* quiet counts up to the number of alarms that make a node disconnected.
QuietCap == IF Keepalive >= 0 THEN Keepalive + 1 ELSE 0

\* Where each thread starts.
Start(t) == IF t = "KeepAlive" THEN "clear"
            ELSE IF t = "UpdateSig" THEN "recv" ELSE "create"

Init ==
  /\ pc = [t \in Threads |-> Start(t)]
  /\ clist = << >>
  /\ table = [t \in Loader |-> << >>]
  /\ done = [t \in Loader |-> 0]
  /\ base = [t \in Loader |-> 0]
  /\ armed = FALSE /\ sockOpen = FALSE /\ owed = FALSE /\ aborted = FALSE
  /\ status = [s \in Systems |-> NoReport]
  /\ told = {}
  /\ quiet = << >>

-----------------------------------------------------------------------------
(* init_client                                                             *)

\* Faulty: the test of clist.empty() inverted, so a list in use is kept.
ClearOnlyEmpty(t) ==
  /\ At(t, "clear")
  /\ told' = {}
  /\ table' = [table EXCEPT ![t] = << >>]
  /\ done' = [done EXCEPT ![t] = 0]
  /\ base' = [done EXCEPT ![t] = 0]
  /\ Goto(t, "connect")
  /\ UNCHANGED <<clist, quiet, armed, sockOpen, owed, aborted, status>>

\* The list is emptied before the database is asked for the new one.
Clear(t) ==
  /\ At(t, "clear")
  /\ clist' = << >>
  /\ quiet' = << >>
  /\ told' = {}
  /\ table' = [table EXCEPT ![t] = << >>]
  /\ done' = [done EXCEPT ![t] = 0]
  /\ base' = [done EXCEPT ![t] = 0]
  /\ Goto(t, "connect")
  /\ UNCHANGED <<armed, sockOpen, owed, aborted, status>>

\* The query succeeded; a result that could not be stored counts as empty.
Query(t) ==
  /\ At(t, "connect")
  /\ \E rows \in Tables \cup {<< >>} : table' = [table EXCEPT ![t] = rows]
  /\ Goto(t, "fill")
  /\ UNCHANGED <<done, base, armed, sockOpen, owed, aborted>>
  /\ UNCHANGED listVars

\* No connection or no query: KeepAlive gives up, UpdateSig logs the error and
\* goes back to receive the next request without answering this one.
LoadFails(t) ==
  /\ At(t, "connect")
  /\ Goto(t, IF t = "KeepAlive" THEN "exited" ELSE "recv")
  /\ UNCHANGED <<armed, sockOpen, owed, aborted>>
  /\ UNCHANGED listVars
  /\ UNCHANGED loadVars

\* Faulty: a node counts as disconnected until it is first heard.
NewNodeDown(row) ==
  [sys |-> row.sys, ip |-> row.ip, flag |-> "DISCON", timeout |-> Keepalive]

NewNode(row) ==
  [sys |-> row.sys, ip |-> row.ip, flag |-> "CONNECT", timeout |-> Keepalive]

Push(t) ==
  /\ At(t, "fill")
  /\ done[t] < Len(table[t])
  /\ clist' = Append(clist, NewNode(table[t][done[t] + 1]))
  /\ quiet' = Append(quiet, 0)
  /\ done' = [done EXCEPT ![t] = @ + 1]
  /\ UNCHANGED <<pc, table, base, armed, sockOpen, owed, aborted, status, told>>

LoadEnds(t) ==
  /\ At(t, "fill")
  /\ done[t] = Len(table[t])
  /\ Goto(t, IF t = "KeepAlive" THEN "arm" ELSE "reply")
  /\ UNCHANGED <<armed, sockOpen, owed, aborted>>
  /\ UNCHANGED listVars
  /\ UNCHANGED loadVars

init_client(t) ==
  \/ Clear(t)
  \/ Query(t)
  \/ LoadFails(t)
  \/ Push(t)
  \/ LoadEnds(t)

\* KeepAlive installs the handler and starts the timer, then only pauses.
SetTimer ==
  /\ At("KeepAlive", "arm")
  /\ \/ armed' = TRUE  /\ Goto("KeepAlive", "pause")
     \/ armed' = FALSE /\ Goto("KeepAlive", "exited")
  /\ UNCHANGED <<sockOpen, owed, aborted>>
  /\ UNCHANGED listVars
  /\ UNCHANGED loadVars

-----------------------------------------------------------------------------
(* UpdateSig: a ZMQ_REP server                                             *)

Receive ==
  /\ At("UpdateSig", "recv")
  /\ ~owed
  /\ owed' = TRUE
  /\ \/ Goto("UpdateSig", "clear")   \* "update"
     \/ Goto("UpdateSig", "reply")   \* anything else is logged and answered
  /\ UNCHANGED <<armed, sockOpen, aborted>>
  /\ UNCHANGED listVars
  /\ UNCHANGED loadVars

\* A REP socket refuses to receive while it owes a reply.  Either the binding
\* throws, which no one catches, or recv returns with an empty request.
ReceiveRefused ==
  /\ At("UpdateSig", "recv")
  /\ owed
  /\ \/ aborted' = TRUE /\ UNCHANGED pc
     \/ aborted' = FALSE /\ Goto("UpdateSig", "reply")
  /\ UNCHANGED <<armed, sockOpen, owed>>
  /\ UNCHANGED listVars
  /\ UNCHANGED loadVars

\* SIGALRM interrupts the wait for a request, with the same two outcomes.
ReceiveInterrupted ==
  /\ At("UpdateSig", "recv")
  /\ ~owed
  /\ armed
  /\ \/ aborted' = TRUE /\ UNCHANGED pc
     \/ aborted' = FALSE /\ Goto("UpdateSig", "reply")
  /\ UNCHANGED <<armed, sockOpen, owed>>
  /\ UNCHANGED listVars
  /\ UNCHANGED loadVars

\* Faulty: the loop goes back to receive without having sent the reply.
ReplyForgotten ==
  /\ At("UpdateSig", "reply")
  /\ Goto("UpdateSig", "recv")
  /\ UNCHANGED <<owed, armed, sockOpen, aborted>>
  /\ UNCHANGED listVars
  /\ UNCHANGED loadVars

Reply ==
  /\ At("UpdateSig", "reply")
  /\ owed
  /\ owed' = FALSE
  /\ Goto("UpdateSig", "recv")
  /\ UNCHANGED <<armed, sockOpen, aborted>>
  /\ UNCHANGED listVars
  /\ UNCHANGED loadVars

\* Nor does it send when nobody has asked.
ReplyRefused ==
  /\ At("UpdateSig", "reply")
  /\ ~owed
  /\ \/ aborted' = TRUE /\ UNCHANGED pc
     \/ aborted' = FALSE /\ Goto("UpdateSig", "recv")
  /\ UNCHANGED <<armed, sockOpen, owed>>
  /\ UNCHANGED listVars
  /\ UNCHANGED loadVars

-----------------------------------------------------------------------------
(* RecvUdp and CheckClient                                                 *)

\* socket may fail, leaving sockfd at -1; so may bind, leaving it open.
create_sock ==
  /\ At("RecvUdp", "create")
  /\ \/ sockOpen' = TRUE /\ Goto("RecvUdp", "recv")
     \/ sockOpen' \in BOOLEAN /\ Goto("RecvUdp", "exited")
  /\ UNCHANGED <<armed, owed, aborted>>
  /\ UNCHANGED listVars
  /\ UNCHANGED loadVars

\* The search of CheckClient stops at the first node with the address.
First(i) == \A j \in 1 .. i - 1 : clist[j].ip # clist[i].ip

Refreshed(n) ==
  [sys |-> n.sys, ip |-> n.ip, flag |-> "CONNECT", timeout |-> Keepalive]

\* A keep-alive packet from address a.
CheckClient(a) ==
  /\ At("RecvUdp", "recv")
  /\ \E i \in DOMAIN clist :
       /\ clist[i].ip = a
       /\ First(i)
       /\ clist' = [clist EXCEPT ![i] = Refreshed(@)]
       /\ IF clist[i].flag = "DISCON"
          THEN /\ status' = [status EXCEPT ![clist[i].sys] = "CONNECT"]
               /\ told' = told \cup {clist[i].sys}
          ELSE UNCHANGED <<status, told>>
  /\ quiet' = [i \in DOMAIN quiet |-> IF clist[i].ip = a THEN 0 ELSE quiet[i]]
  /\ UNCHANGED <<pc, armed, sockOpen, owed, aborted>>
  /\ UNCHANGED loadVars

-----------------------------------------------------------------------------
(* Alive: the SIGALRM handler                                              *)

\* Faulty: the node is given up when its countdown is about to end.
ExpiresEarly(n) == n.timeout <= 1 /\ n.flag = "CONNECT"

\* Faulty: the end of the countdown is looked for below zero.
ExpiresBelowZero(n) == n.timeout < 0 /\ n.flag = "CONNECT"

Expires(n) == n.timeout = 0 /\ n.flag = "CONNECT"

\* Faulty: the countdown is not stopped at zero.
TickPastZero(n) ==
  [sys |-> n.sys, ip |-> n.ip,
   flag |-> IF Expires(n) THEN "DISCON" ELSE n.flag,
   timeout |-> n.timeout - 1]

Tick(n) ==
  [sys |-> n.sys, ip |-> n.ip,
   flag |-> IF Expires(n) THEN "DISCON" ELSE n.flag,
   timeout |-> IF n.timeout > 0 THEN n.timeout - 1 ELSE n.timeout]

Alive ==
  /\ ~aborted
  /\ armed
  /\ sockOpen
  /\ LET expired == {clist[i].sys : i \in {j \in DOMAIN clist : Expires(clist[j])}}
     IN  /\ clist' = [i \in DOMAIN clist |-> Tick(clist[i])]
         /\ status' = [s \in Systems |-> IF s \in expired THEN "DISCON" ELSE status[s]]
         /\ told' = told \cup expired
  /\ quiet' = [i \in DOMAIN quiet |-> IF quiet[i] < QuietCap THEN quiet[i] + 1
                                                             ELSE quiet[i]]
  /\ UNCHANGED <<pc, armed, sockOpen, owed, aborted>>
  /\ UNCHANGED loadVars

-----------------------------------------------------------------------------
\* The process is gone.
Stopped == aborted /\ UNCHANGED vars

Next ==
  \/ \E t \in Loader : init_client(t)
  \/ SetTimer
  \/ Receive
  \/ ReceiveRefused
  \/ ReceiveInterrupted
  \/ Reply
  \/ ReplyRefused
  \/ create_sock
  \/ \E a \in Addrs : CheckClient(a)
  \/ Alive
  \/ Stopped

Spec == Init /\ [][Next]_vars

\* Threads are scheduled, database calls return, and the interval timer keeps
\* firing; requests and keep-alive packets need never come.
Fairness ==
  /\ \A t \in Loader : WF_vars(init_client(t))
  /\ WF_vars(SetTimer)
  /\ WF_vars(ReceiveRefused)
  /\ WF_vars(Reply)
  /\ WF_vars(ReplyRefused)
  /\ WF_vars(create_sock)
  /\ WF_vars(Alive)

FairSpec == Spec /\ Fairness

-----------------------------------------------------------------------------
(* Properties                                                              *)

\* The points of the threads.
LoaderPoint == {"clear", "connect", "fill"}
KeepPoint   == LoaderPoint \cup {"arm", "pause", "exited"}
UpdatePoint == LoaderPoint \cup {"recv", "reply"}
UdpPoint    == {"create", "recv", "exited"}

PcOK ==
  /\ pc \in [Threads -> KeepPoint \cup UpdatePoint \cup UdpPoint]
  /\ pc["KeepAlive"] \in KeepPoint
  /\ pc["UpdateSig"] \in UpdatePoint
  /\ pc["RecvUdp"] \in UdpPoint

LoadOK ==
  /\ table \in [Loader -> Seq(Row)]
  /\ done \in [Loader -> Nat]
  /\ base \in [Loader -> Nat]

ListOK ==
  /\ clist \in Seq(Node)
  /\ status \in [Systems -> Flag \cup {NoReport}]
  /\ told \in SUBSET Systems
  /\ quiet \in Seq(0 .. QuietCap)

SwitchOK ==
  /\ armed \in BOOLEAN
  /\ sockOpen \in BOOLEAN
  /\ owed \in BOOLEAN
  /\ aborted \in BOOLEAN

TypeOK ==
  /\ PcOK
  /\ LoadOK
  /\ ListOK
  /\ SwitchOK

\* No other node of the list reports for the same subsystem.
Unique(i) == \A j \in DOMAIN clist \ {i} : clist[j].sys # clist[i].sys

\* What was last queued for a subsystem is what its node says now, provided
\* anything was queued since the list was loaded; a node nothing was queued for
\* is connected.  (CheckClient and Alive change a flag and queue its record in
\* one clist_lock section; init_client resets flags and queues nothing, so
\* without the proviso a reload makes the two disagree.)
StatusAgrees ==
  \A i \in DOMAIN clist : Unique(i) =>
    IF clist[i].sys \in told
    THEN status[clist[i].sys] = clist[i].flag
    ELSE clist[i].flag = "CONNECT"

\* A node is disconnected only when its address was silent for Keepalive + 1
\* alarms on end, counted from the load or the last packet.  Only the first
\* node of an address enjoys this: CheckClient refreshes no other.
NoFalseAlarm ==
  \A i \in DOMAIN clist :
    First(i) /\ clist[i].flag = "DISCON" => /\ Keepalive >= 0
                                            /\ quiet[i] = Keepalive + 1

\* After Keepalive + 1 alarms without a packet, every node of the address,
\* first or not, is disconnected.
NoMissedOutage ==
  \A i \in DOMAIN clist :
    Keepalive >= 0 /\ quiet[i] = Keepalive + 1 => clist[i].flag = "DISCON"

NodeRow(n) == [sys |-> n.sys, ip |-> n.ip]

\* Loader t alone has pushed since the list was cleared.
OnlyLoader(t) == \A u \in Loader \ {t} : done[u] = base[u]

\* A list one loader has filled is exactly the part of its table that it pushed
\* since the last clear: nothing doubled, dropped or out of order.  Only a
\* reload that overlaps the initial load can break this.
SingleLoadIsExact ==
  \A t \in Loader : OnlyLoader(t) =>
    /\ Len(clist) = done[t] - base[t]
    /\ \A i \in DOMAIN clist : NodeRow(clist[i]) = table[t][base[t] + i]

\* No table holds a row twice.
RowsDiffer ==
  \A rows \in Tables : \A i, j \in DOMAIN rows : rows[i] = rows[j] => i = j

\* When the rows of a table differ, two overlapping loads can double a node but
\* never triple it: each loader pushes each of its rows at most once.
AtMostTwice ==
  RowsDiffer =>
    \A i, j, k \in DOMAIN clist :
      NodeRow(clist[i]) = NodeRow(clist[j]) /\ NodeRow(clist[j]) = NodeRow(clist[k])
        => i = j \/ j = k \/ i = k

(* The parts that make the invariants above inductive.                     *)

\* How the countdown of node i relates to the silence of its address.  A node
\* that is not the first of its address may be further down than the silence.
CountdownInv(i) ==
  IF Keepalive < 0
  THEN clist[i].flag = "CONNECT"
  ELSE /\ quiet[i] <= Keepalive => clist[i].timeout <= Keepalive - quiet[i]
       /\ quiet[i] = Keepalive + 1 => /\ clist[i].timeout = 0
                                      /\ clist[i].flag = "DISCON"
       /\ First(i) /\ quiet[i] <= Keepalive =>
            /\ clist[i].timeout = Keepalive - quiet[i]
            /\ clist[i].flag = "CONNECT"

\* Every node has its history, and its countdown agrees with it.
Countdowns ==
  /\ Len(quiet) = Len(clist)
  /\ \A i \in DOMAIN clist : CountdownInv(i)

\* status records since the last clear are about subsystems of the list.
ToldInList == \A s \in told : \E i \in DOMAIN clist : clist[i].sys = s

LoadProgress ==
  \A t \in Loader : /\ base[t] <= done[t]
                    /\ pc[t] = "connect" => done[t] = 0
                    /\ done[t] <= Len(table[t])
                    /\ table[t] \in Tables \cup {<< >>}

\* The nodes made of row r, and the rows equal to r that loader t pushed since
\* the list was cleared.
Places(r)    == {i \in DOMAIN clist : NodeRow(clist[i]) = r}
Pushed(t, r) == {k \in base[t] + 1 .. done[t] : table[t][k] = r}

\* However two loads interleave, the list holds each row as often as the two
\* have pushed it since the last clear.
ListIsMerge ==
  \A r \in Row :
    Cardinality(Places(r)) =
      Cardinality(Pushed("KeepAlive", r)) + Cardinality(Pushed("UpdateSig", r))

\* What holds of clist, the loaders and the countdowns at every point: the inductive
\* invariant.
IInv ==
  /\ TypeOK
  /\ Countdowns
  /\ ToldInList
  /\ StatusAgrees
  /\ LoadProgress
  /\ SingleLoadIsExact
  /\ ListIsMerge

\* The comment over the receive of UpdateSig says that it waits for a request;
\* a socket that still owes a reply cannot.
WaitsForRequest == At("UpdateSig", "recv") => ~owed

\* Every request UpdateSig takes is answered, or ends the process.
Answered == owed ~> (~owed \/ aborted)

\* Once the timer runs and the socket is open, a node of the current list whose
\* address stays silent is disconnected in the end, unless the list is reloaded
\* or the process ends.
OutageReported ==
  \A a \in Addrs :
    /\ Keepalive >= 0
    /\ <>[](armed /\ sockOpen /\ ~aborted)
    /\ <>[][~CheckClient(a)]_vars
    /\ <>[][\A t \in Loader : ~Clear(t)]_vars
    => <>[](\A i \in DOMAIN clist : clist[i].ip = a => clist[i].flag = "DISCON")

=============================================================================
