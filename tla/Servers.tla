------------------------------- MODULE Servers -------------------------------
(***************************************************************************)
(* The Modbus servers of KeepAlive.cpp: Sendmod_major and Sendmod_min, the *)
(* same code over two sets of globals, and close_sigint, which one of them *)
(* runs when its select fails and which tears down both.  The process has  *)
(* one table of descriptors: a number that one thread closes is the next   *)
(* number that any thread opens.                                           *)
(*                                                                         *)
(* Once a pointer is used after it was freed, or a thread has closed what  *)
(* it does not own, nothing more can be said: the model stops at `harm`.   *)
(* The check and the release of one object in close_sigint are one step.   *)
(***************************************************************************)
EXTENDS Integers, FiniteSetsExt

CONSTANTS
  Servers,       \* the major one and the minor one
  MaxFd,         \* the highest descriptor
  MaxInterrupts  \* bound: how often SIGALRM interrupts a select

ASSUME ServersAssumption ==
  /\ "major" \in Servers /\ Servers \intersect {"closed", "other"} = {}
  /\ MaxFd \in Nat /\ MaxInterrupts \in Nat

Fds == 0 .. MaxFd

VARIABLES
  pc,            \* the point each server has reached
  ctx,           \* ctx1, ctx2: "null" or "live"
  mapping,       \* mb_mapping1, mb_mapping2: "null", "live" or "freed"
  server_socket, \* the listening descriptor, or -1
  refset,        \* per server, the descriptors it watches
  rdset,         \* per server, those of this pass it has not come to
  fdmax,         \* per server, its greatest descriptor
  held,          \* per server, the context it entered modbus_receive with
  freeing,       \* per server, the objects close_sigint has still to release
  owner,         \* per descriptor, "closed", the server that opened it, or "other"
  data,          \* the descriptors with something to read or to accept
  interrupts,    \* interrupted selects so far
  harm           \* "no", or the first thing done to memory or to a stranger

own     == <<pc, refset, rdset, fdmax, held, freeing>>
globals == <<ctx, mapping, server_socket>>
kernel  == <<owner, data, interrupts>>
vars    == <<own, globals, kernel, harm>>

Init ==
  /\ pc = [s \in Servers |-> "new"]
  /\ ctx = [s \in Servers |-> "null"]
  /\ mapping = [s \in Servers |-> "null"]
  /\ server_socket = [s \in Servers |-> -1]
  /\ refset = [s \in Servers |-> {}]
  /\ rdset = [s \in Servers |-> {}]
  /\ fdmax = [s \in Servers |-> 0]
  /\ held = [s \in Servers |-> "null"]
  /\ freeing = [s \in Servers |-> {}]
  /\ owner = [d \in Fds |-> "closed"]
  /\ data = {} /\ interrupts = 0 /\ harm = "no"

-----------------------------------------------------------------------------
(* The kernel                                                              *)

Closed == {d \in Fds : owner[d] = "closed"}

\* The new descriptor is the lowest free one.
Opens(who, d) ==
  /\ Closed # {} /\ d = Min(Closed)
  /\ owner' = [owner EXCEPT ![d] = who]
  /\ UNCHANGED <<data, interrupts>>

\* close(d) by server s; EBADF where it is closed already.
Closes(s, d) ==
  /\ owner' = [owner EXCEPT ![d] = "closed"]
  /\ data' = data \ {d}
  /\ harm' = IF owner[d] \in {s, "closed"} THEN harm ELSE "descriptor"
  /\ UNCHANGED interrupts

\* Another thread opens or closes a socket.
OtherOpens ==
  /\ \E d \in Fds : Opens("other", d)
  /\ UNCHANGED <<own, globals, harm>>

OtherCloses ==
  /\ \E d \in Fds :
       /\ owner[d] = "other"
       /\ owner' = [owner EXCEPT ![d] = "closed"]
       /\ data' = data \ {d}
  /\ UNCHANGED <<own, globals, interrupts, harm>>

\* A client connects, sends or hangs up, on a descriptor somebody watches.
Arrives ==
  /\ \E d \in (UNION {refset[s] : s \in Servers}) \ (Closed \union data) : data' = data \union {d}
  /\ UNCHANGED <<own, globals, owner, interrupts, harm>>

-----------------------------------------------------------------------------
(* Sendmod_major, Sendmod_min up to the loop                               *)

Goto(s, p) == pc' = [pc EXCEPT ![s] = p]

New(s) ==
  /\ pc[s] = "new"
  /\ \/ ctx' = [ctx EXCEPT ![s] = "live"] /\ Goto(s, "map")
     \/ UNCHANGED ctx /\ Goto(s, "exit")
  /\ UNCHANGED <<refset, rdset, fdmax, held, freeing, mapping, server_socket, kernel, harm>>

NewMapping(s) ==
  /\ pc[s] = "map"
  /\ \/ mapping' = [mapping EXCEPT ![s] = "live"] /\ Goto(s, "clear")
     \/ UNCHANGED mapping /\ Goto(s, "exit")
  /\ UNCHANGED <<refset, rdset, fdmax, held, freeing, ctx, server_socket, kernel, harm>>

Clear(s) ==
  /\ pc[s] = "clear"
  /\ harm' = IF mapping[s] = "freed" THEN "mapping" ELSE harm
  /\ Goto(s, "listen")
  /\ UNCHANGED <<refset, rdset, fdmax, held, freeing, globals, kernel>>

\* modbus_tcp_listen refuses a null context.
Listen(s) ==
  /\ pc[s] = "listen" /\ ctx[s] = "live"
  /\ \E d \in Fds :
       /\ Opens(s, d)
       /\ server_socket' = [server_socket EXCEPT ![s] = d]
       /\ refset' = [refset EXCEPT ![s] = {d}]
       /\ fdmax' = [fdmax EXCEPT ![s] = d]
  /\ Goto(s, "select")
  /\ UNCHANGED <<rdset, held, freeing, ctx, mapping, harm>>

ListenFails(s) ==
  /\ pc[s] = "listen"
  /\ ctx' = [ctx EXCEPT ![s] = "null"]
  /\ Goto(s, "exit")
  /\ UNCHANGED <<refset, rdset, fdmax, held, freeing, mapping, server_socket, kernel, harm>>

-----------------------------------------------------------------------------
(* close_sigint: both listeners, both contexts, both mappings, in this     *)
(* order.  The mapping pointers keep their values.                         *)

Objects == {"socket", "context", "mapping"} \X Servers
Rank(o) == (IF o[1] = "socket" THEN 0 ELSE IF o[1] = "context" THEN 2 ELSE 4)
             + IF o[2] = "major" THEN 0 ELSE 1

CloseSocket(t) ==
  IF server_socket[t] # -1
  THEN LET d == server_socket[t]
       IN /\ owner' = [owner EXCEPT ![d] = "closed"]
          /\ data' = data \ {d}
          /\ server_socket' = [server_socket EXCEPT ![t] = -1]
          /\ UNCHANGED <<ctx, mapping, interrupts, harm>>
  ELSE UNCHANGED <<globals, kernel, harm>>

FreeMapping(t) ==
  /\ mapping' = [mapping EXCEPT ![t] = IF @ = "null" THEN "null" ELSE "freed"]
  /\ harm' = IF mapping[t] = "freed" THEN "mapping" ELSE harm
  /\ UNCHANGED <<ctx, server_socket, kernel>>

close_sigint(s) ==
  /\ pc[s] = "close"
  /\ \E o \in freeing[s] :
       /\ \A p \in freeing[s] : Rank(o) <= Rank(p)
       /\ \/ o[1] = "socket" /\ CloseSocket(o[2])
          \/ /\ o[1] = "context"
             /\ ctx' = [ctx EXCEPT ![o[2]] = "null"]
             /\ UNCHANGED <<mapping, server_socket, kernel, harm>>
          \/ o[1] = "mapping" /\ FreeMapping(o[2])
       /\ freeing' = [freeing EXCEPT ![s] = @ \ {o}]
  /\ Goto(s, IF freeing'[s] = {} THEN "pass" ELSE "close")
  /\ UNCHANGED <<refset, rdset, fdmax, held>>

-----------------------------------------------------------------------------
(* The loop                                                                *)

\* Faulty: no descriptor above the listener is looked at.
ReadyLow(s) == {d \in refset[s] \intersect data : d <= server_socket[s]}

\* What select reports: it looks at the descriptors up to fdmax.
Ready(s) == {d \in refset[s] \intersect data : d <= fdmax[s]}

Select(s) ==
  /\ pc[s] = "select"
  /\ Ready(s) # {}
  /\ rdset' = [rdset EXCEPT ![s] = Ready(s)]
  /\ Goto(s, "pass")
  /\ UNCHANGED <<refset, fdmax, held, freeing, globals, kernel, harm>>

\* select returns -1 and leaves the set as it was: every descriptor counts as
\* ready.  EINTR at any time, EBADF where the set has a closed descriptor.
SelectFails(s) ==
  /\ pc[s] = "select"
  /\ \/ interrupts < MaxInterrupts /\ interrupts' = interrupts + 1
     \/ refset[s] \intersect Closed # {} /\ UNCHANGED interrupts
  /\ rdset' = [rdset EXCEPT ![s] = refset[s]]
  /\ freeing' = [freeing EXCEPT ![s] = Objects]
  /\ Goto(s, "close")
  /\ UNCHANGED <<refset, fdmax, held, globals, owner, data, harm>>

\* The loop over master_socket has come to the lowest descriptor left.
At(s, d) ==
  /\ pc[s] = "pass"
  /\ d \in rdset[s] /\ d <= fdmax[s]
  /\ \A e \in rdset[s] : d <= e

\* fdmax once n has been accepted.
MaxWith(s, n) == IF n > fdmax[s] THEN n ELSE fdmax[s]

Accept(s) ==
  /\ \E d \in Fds, n \in Fds :
       /\ At(s, d) /\ d = server_socket[s]
       /\ Closed # {} /\ n = Min(Closed)
       /\ owner' = [owner EXCEPT ![n] = s]
       /\ data' = data \ {d}
       /\ rdset' = [rdset EXCEPT ![s] = @ \ {d}]
       /\ refset' = [refset EXCEPT ![s] = @ \union {n}]
       /\ fdmax' = [fdmax EXCEPT ![s] = MaxWith(s, n)]
  /\ UNCHANGED <<pc, held, freeing, globals, interrupts, harm>>

\* The client is gone, or the process has no descriptor left.
AcceptFails(s) ==
  /\ \E d \in Fds :
       /\ At(s, d) /\ d = server_socket[s]
       /\ data' \in {data, data \ {d}}
       /\ rdset' = [rdset EXCEPT ![s] = @ \ {d}]
  /\ UNCHANGED <<pc, refset, fdmax, held, freeing, globals, owner, interrupts, harm>>

\* modbus_receive is entered with the context as it is now.
Receive(s) ==
  /\ \E d \in Fds : At(s, d) /\ d # server_socket[s]
  /\ held' = [held EXCEPT ![s] = ctx[s]]
  /\ Goto(s, "receive")
  /\ UNCHANGED <<refset, rdset, fdmax, freeing, globals, kernel, harm>>

\* It answers the request, or ignores it: not with a null context.
Received(s) ==
  /\ pc[s] = "receive" /\ held[s] = "live" /\ ctx[s] = "live"
  /\ \E d \in rdset[s] :
       /\ d = Min(rdset[s])
       /\ owner[d] # "closed"
       /\ data' = data \ {d}
       /\ rdset' = [rdset EXCEPT ![s] = @ \ {d}]
  /\ held' = [held EXCEPT ![s] = "null"]
  /\ Goto(s, "pass")
  /\ UNCHANGED <<refset, fdmax, freeing, globals, owner, interrupts, harm>>

\* Faulty: the decrement is not guarded.
DropAlways(s, d) == fdmax[s] - 1

\* fdmax once d has been closed.
Drop(s, d) == IF d = fdmax[s] THEN fdmax[s] - 1 ELSE fdmax[s]

\* Faulty: the descriptor stays in the reference set.
KeepRef(s, d) == refset[s]

ClearRef(s, d) == refset[s] \ {d}

\* It returns -1: the client has gone, an error, a null context.
Disconnected(s) ==
  /\ pc[s] = "receive" /\ (held[s] = "live" => ctx[s] = "live")
  /\ \E d \in rdset[s] :
       /\ d = Min(rdset[s])
       /\ Closes(s, d)
       /\ refset' = [refset EXCEPT ![s] = ClearRef(s, d)]
       /\ fdmax' = [fdmax EXCEPT ![s] = Drop(s, d)]
       /\ rdset' = [rdset EXCEPT ![s] = @ \ {d}]
  /\ held' = [held EXCEPT ![s] = "null"]
  /\ Goto(s, "pass")
  /\ UNCHANGED <<freeing, globals>>

\* The other server has freed the context meanwhile.
ReceivesFreed(s) ==
  /\ pc[s] = "receive" /\ held[s] = "live" /\ ctx[s] = "null"
  /\ harm' = "context"
  /\ UNCHANGED <<own, globals, kernel>>

\* No descriptor up to fdmax is left.
PassEnd(s) ==
  /\ pc[s] = "pass"
  /\ \A d \in rdset[s] : d > fdmax[s]
  /\ Goto(s, "select")
  /\ UNCHANGED <<refset, rdset, fdmax, held, freeing, globals, kernel, harm>>

Start(s) == New(s) \/ NewMapping(s) \/ Clear(s) \/ Listen(s) \/ ListenFails(s)

Loop(s) ==
  \/ Accept(s) \/ AcceptFails(s)
  \/ Receive(s) \/ Received(s) \/ Disconnected(s) \/ ReceivesFreed(s)
  \/ PassEnd(s)

Sendmod(s) == Start(s) \/ Select(s) \/ SelectFails(s) \/ close_sigint(s) \/ Loop(s)

Next ==
  /\ harm = "no"
  /\ (\E s \in Servers : Sendmod(s)) \/ OtherOpens \/ OtherCloses \/ Arrives

Spec == Init /\ [][Next]_vars

\* A thread that can go on goes on: modbus_receive has something to read, and
\* waits for the rest of it no longer than the library's timeout.  Both servers
\* have this code; for what the major one does nothing is assumed of the minor.
Goes(s) == harm = "no" /\ (Select(s) \/ close_sigint(s) \/ Loop(s))
LiveSpec == Spec /\ WF_vars(Goes("major"))

-----------------------------------------------------------------------------
(* Properties                                                              *)

\* The types of the variables.
TypeOK ==
  /\ pc \in [Servers -> {"new", "map", "clear", "listen", "exit",
                         "select", "close", "pass", "receive"}]
  /\ ctx \in [Servers -> {"null", "live"}] /\ held \in [Servers -> {"null", "live"}]
  /\ mapping \in [Servers -> {"null", "live", "freed"}]
  /\ server_socket \in [Servers -> Fds \union {-1}]
  /\ refset \in [Servers -> SUBSET Fds] /\ rdset \in [Servers -> SUBSET Fds]
  /\ fdmax \in [Servers -> Fds \union {-1}]
  /\ freeing \in [Servers -> SUBSET Objects]
  /\ owner \in [Fds -> Servers \union {"closed", "other"}]
  /\ data \subseteq Fds \ Closed
  /\ interrupts \in 0 .. MaxInterrupts
  /\ harm \in {"no", "descriptor", "context", "mapping"}

\* fdmax never falls below a descriptor the server watches, in whatever order
\* clients come and go and the other threads take numbers in between: none is
\* left out of select or of the pass.
FdCovered == \A s \in Servers : \A d \in refset[s] : d <= fdmax[s]

\* A server in order: it watches exactly the descriptors it opened, comes in a pass
\* to no others, and has its context as long as it is in the loop.
InOrder(s) ==
  /\ pc[s] # "close" /\ mapping[s] # "freed"
  /\ refset[s] = {d \in Fds : owner[d] = s}
  /\ rdset[s] \subseteq refset[s]
  /\ pc[s] \in {"new", "map", "clear", "listen"} => refset[s] = {}
  /\ pc[s] \in {"select", "pass", "receive"} => ctx[s] = "live"

\* Until an alarm interrupts a select the servers are in order and nothing is harmed.
Undisturbed ==
  interrupts = 0 => harm = "no" /\ \A s \in Servers : InOrder(s)

\* The servers keep their types, select is told of every descriptor they watch, and
\* nothing is disturbed before an interrupt: the inductive invariant.
ServersInv == TypeOK /\ FdCovered /\ Undisturbed

\* As long as no select was interrupted a server watches its own descriptors and
\* all of them: it leaks none, and never watches a number that was closed and
\* taken by another thread.
OwnDescriptors ==
  interrupts = 0 /\ harm = "no" =>
    \A s \in Servers : refset[s] = {d \in Fds : owner[d] = s}

\* A select that an alarm interrupts is the only thing that can begin the end:
\* else no select fails, and no thread touches freed memory or another's socket.
OnlyInterruptsHarm ==
  interrupts = 0 => harm = "no" /\ \A s \in Servers : pc[s] # "close"

\* A request, or the end of a connection, is dealt with: a server that goes on
\* comes to every client it watches, however the others keep it busy.
Served ==
  \A d \in Fds :
    d \in (data \intersect refset["major"]) \ {server_socket["major"]}
      ~> (d \notin data \intersect refset["major"] \/ harm # "no")

=============================================================================
