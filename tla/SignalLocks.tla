----------------------------- MODULE SignalLocks -----------------------------
(***************************************************************************)
(* The mutexes clist_lock, jlist_lock and jsnmplist_lock of KeepAlive.cpp  *)
(* and the threads that take them, one of which at a time is interrupted   *)
(* by SIGALRM.                                                             *)
(*                                                                         *)
(* Alive, the handler, takes the same mutexes as the threads.  While it    *)
(* runs on a thread, what the thread was doing stands still, with the      *)
(* mutexes it held.  SIGALRM is blocked on that thread until the handler   *)
(* returns, but not on the others.                                         *)
(***************************************************************************)
CONSTANTS
  Hosts,   \* the threads the kernel may deliver SIGALRM to
  Nothing  \* a frame waits for no mutex

Locks == {"clist_lock", "jlist_lock", "jsnmplist_lock"}

\* main stands for every thread that takes none of the mutexes; poll is the
\* thread snmp++ calls callback on.
Threads ==
  {"main", "KeepAlive", "RecvUdp", "poll", "ConsumerTask", "UpdateSig"}

ASSUME LocksAssumption == Hosts \subseteq Threads /\ Nothing \notin Locks

\* A thread's own work, and the handler on top of it.
Frames == [thread : Threads, level : {"base", "alarm"}]
Base(t)  == [thread |-> t, level |-> "base"]
Alarm(t) == [thread |-> t, level |-> "alarm"]

VARIABLES
  held,     \* per frame, the mutexes it holds
  want,     \* per frame, the mutex it waits for
  handling, \* the threads Alive runs on
  pending,  \* SIGALRM is pending for the process
  armed,    \* the interval timer runs
  sockOpen  \* sockfd # -1

vars == <<held, want, handling, pending, armed, sockOpen>>

Init ==
  /\ held = [f \in Frames |-> {}]
  /\ want = [f \in Frames |-> Nothing]
  /\ handling = {} /\ pending = FALSE /\ armed = FALSE /\ sockOpen = FALSE

-----------------------------------------------------------------------------
Role(f) == IF f.level = "alarm" THEN "Alive" ELSE f.thread

\* The mutexes taken by someone who holds none: init_client, CheckClient and
\* Alive for clist; a warning packet and ConsumerTask for jlist; the callback,
\* Update_timeout and ConsumerTask for jsnmplist.
Alone ==
  {<<"KeepAlive", "clist_lock">>, <<"UpdateSig", "clist_lock">>,
   <<"RecvUdp", "clist_lock">>, <<"Alive", "clist_lock">>,
   <<"RecvUdp", "jlist_lock">>, <<"ConsumerTask", "jlist_lock">>,
   <<"poll", "jsnmplist_lock">>, <<"ConsumerTask", "jsnmplist_lock">>,
   <<"Alive", "jsnmplist_lock">>}

\* Those that queue a status record in the middle of a clist_lock section.
Reporters == {"RecvUdp", "Alive"}

\* Faulty: CheckClient locks the list of records before the list of nodes.
AsksReversed(f, l) ==
  \/ held[f] = {} /\ <<Role(f), l>> \in Alone
  \/ held[f] = {"clist_lock"} /\ l = "jlist_lock" /\ Role(f) = "Alive"
  \/ held[f] = {"jlist_lock"} /\ l = "clist_lock" /\ Role(f) = "RecvUdp"

Asks(f, l) ==
  \/ held[f] = {} /\ <<Role(f), l>> \in Alone
  \/ held[f] = {"clist_lock"} /\ l = "jlist_lock" /\ Role(f) \in Reporters

\* A thread runs its handler to the end before it goes on.
Runs(f) == f.level = "alarm" <=> f.thread \in handling

Free(l) == \A f \in Frames : l \notin held[f]

\* RecvUdp receives nothing before the socket is open, and KeepAlive only
\* pauses once the timer is armed.
Active(f) ==
  /\ Role(f) = "RecvUdp" => sockOpen
  /\ Role(f) = "KeepAlive" => ~armed

Lock(f, l) ==
  /\ Runs(f) /\ Active(f)
  /\ want[f] = Nothing
  /\ Asks(f, l)
  /\ want' = [want EXCEPT ![f] = l]
  /\ UNCHANGED <<held, handling, pending, armed, sockOpen>>

\* Faulty: the mutex is taken over from the frame that holds it.
TakeBusy(f) ==
  /\ Runs(f)
  /\ want[f] \in Locks
  /\ held' = [held EXCEPT ![f] = @ \cup {want[f]}]
  /\ want' = [want EXCEPT ![f] = Nothing]
  /\ UNCHANGED <<handling, pending, armed, sockOpen>>

Take(f) ==
  /\ Runs(f)
  /\ want[f] \in Locks
  /\ Free(want[f])
  /\ held' = [held EXCEPT ![f] = @ \cup {want[f]}]
  /\ want' = [want EXCEPT ![f] = Nothing]
  /\ UNCHANGED <<handling, pending, armed, sockOpen>>

\* Sections nest.  The end of its clist_lock section is the end of Alive.
Unlock(f, l) ==
  /\ Runs(f)
  /\ want[f] = Nothing
  /\ l \in held[f]
  /\ l = "clist_lock" => held[f] = {l}
  /\ held' = [held EXCEPT ![f] = @ \ {l}]
  /\ handling' = IF Role(f) = "Alive" /\ l = "clist_lock"
                 THEN handling \ {f.thread} ELSE handling
  /\ UNCHANGED <<want, pending, armed, sockOpen>>

create_sock ==
  /\ ~sockOpen
  /\ sockOpen' = TRUE
  /\ UNCHANGED <<held, want, handling, pending, armed>>

\* KeepAlive has filled clist and starts the timer: it locks no more.
SetTimer ==
  /\ ~armed
  /\ held[Base("KeepAlive")] = {} /\ want[Base("KeepAlive")] = Nothing
  /\ armed' = TRUE
  /\ UNCHANGED <<held, want, handling, pending, sockOpen>>

\* An alarm that finds another one pending is merged with it.
Expire ==
  /\ armed
  /\ pending' = TRUE
  /\ UNCHANGED <<held, want, handling, armed, sockOpen>>

\* Without a socket Alive returns at once.
Deliver(t) ==
  /\ pending
  /\ t \in Hosts \ handling
  /\ pending' = FALSE
  /\ handling' = IF sockOpen THEN handling \cup {t} ELSE handling
  /\ UNCHANGED <<held, want, armed, sockOpen>>

Next ==
  \/ \E f \in Frames, l \in Locks : Lock(f, l)
  \/ \E f \in Frames : Take(f)
  \/ \E f \in Frames, l \in Locks : Unlock(f, l)
  \/ create_sock
  \/ SetTimer
  \/ Expire
  \/ \E t \in Threads : Deliver(t)

Spec == Init /\ [][Next]_vars

-----------------------------------------------------------------------------
(* Properties                                                              *)

TypeOK ==
  /\ held \in [Frames -> SUBSET Locks]
  /\ want \in [Frames -> Locks \cup {Nothing}]
  /\ handling \in SUBSET Hosts
  /\ pending \in BOOLEAN
  /\ armed \in BOOLEAN
  /\ sockOpen \in BOOLEAN

\* g must act before f can: it holds what f waits for, or is the handler that
\* runs on top of f.
WaitsFor(f, g) ==
  \/ want[f] \in held[g]
  \/ f.thread \in handling /\ f = Base(f.thread) /\ g = Alarm(f.thread)

Waiting == {f \in Frames : \E g \in Frames : WaitsFor(f, g)}

\* A deadlock: everyone in S waits for someone in S.
Deadlock(S) == S # {} /\ \A f \in S : \E g \in S : WaitsFor(f, g)

\* Alive interrupted thread t inside a lock section, and now waits itself.
Caught(t) ==
  /\ t \in handling
  /\ held[Base(t)] # {}
  /\ want[Alarm(t)] # Nothing

\* In every deadlock, also of a few frames while others go on, Alive waits on
\* top of a thread that it interrupted inside a lock section.  The order of the
\* mutexes, clist before jlist, excludes every other, also between handlers
\* that run on several threads at once.
OnlyAlarmsDeadlock ==
  \A S \in SUBSET Waiting :
    Deadlock(S) => \E t \in Threads : Caught(t) /\ Base(t) \in S /\ Alarm(t) \in S

\* The threads that take mutexes of their own.
Lockers == Threads \ {"main"}

\* Where SIGALRM goes only to a thread that takes none of the mutexes, there is
\* no deadlock.  (Linux delivers it to main as long as main does not handle an
\* earlier one; a handler that takes longer than the interval breaks this.)
NoDeadlock == Hosts \cap Lockers = {} => \A S \in SUBSET Waiting : ~Deadlock(S)

(* The parts that make the two properties above inductive.                 *)

\* No mutex has two owners.
Exclusive ==
  \A f, g \in Frames : \A l \in Locks : l \in held[f] /\ l \in held[g] => f = g

\* A frame waits only for what its code asks for at this point ...
WantInv == \A f \in Frames : want[f] # Nothing => Asks(f, want[f])

\* ... the handler only while it runs, and main for nothing.
IdleInv ==
  /\ \A t \in Threads \ handling : held[Alarm(t)] = {} /\ want[Alarm(t)] = Nothing
  /\ held[Base("main")] = {}

LInv ==
  /\ TypeOK
  /\ Exclusive
  /\ WantInv
  /\ IdleInv

=============================================================================
