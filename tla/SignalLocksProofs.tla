-------------------------- MODULE SignalLocksProofs --------------------------
(***************************************************************************)
(* Proofs about the mutexes and SIGALRM (module SignalLocks): the inductive *)
(* invariant LInv, and from it which deadlocks there can be.               *)
(***************************************************************************)
EXTENDS SignalLocks, TLAPS

-----------------------------------------------------------------------------
(* Frames                                                                  *)

\* The two frames of a thread are frames, and different ones.
LEMMA TwoFrames ==
  ASSUME NEW t \in Threads
  PROVE  /\ Base(t) \in Frames
         /\ Alarm(t) \in Frames
         /\ Base(t) # Alarm(t)
  BY DEF Frames, Base, Alarm

\* Every frame is one of the two of its thread.
LEMMA FrameOf ==
  ASSUME NEW f \in Frames
  PROVE  /\ f.thread \in Threads
         /\ f = Base(f.thread) \/ f = Alarm(f.thread)
         /\ f.level = "alarm" => f = Alarm(f.thread)
  BY DEF Frames, Base, Alarm

-----------------------------------------------------------------------------
(* The inductive invariant                                                 *)

LEMMA InitInv == Init => LInv
<1> SUFFICES ASSUME Init PROVE LInv
  OBVIOUS
<1>1. TypeOK
  BY DEF Init, TypeOK
<1>2. Exclusive
  BY DEF Init, Exclusive
<1>3. WantInv
  BY DEF Init, WantInv
<1>4. IdleInv
  BY TwoFrames DEF Init, IdleInv, Threads
<1> QED
  BY <1>1, <1>2, <1>3, <1>4 DEF LInv

\* The three actions that change what a frame holds or wants keep the types.
LEMMA LockType ==
  ASSUME TypeOK, NEW f \in Frames, NEW l \in Locks, Lock(f, l)
  PROVE  TypeOK'
  BY DEF TypeOK, Lock

LEMMA TakeType ==
  ASSUME TypeOK, NEW f \in Frames, Take(f)
  PROVE  TypeOK'
  BY DEF TypeOK, Take

LEMMA UnlockType ==
  ASSUME TypeOK, NEW f \in Frames, NEW l \in Locks, Unlock(f, l)
  PROVE  TypeOK'
  BY DEF TypeOK, Unlock

\* Lock: a frame starts to wait for what its code asks for.
LEMMA LockInv ==
  ASSUME LInv, NEW f \in Frames, NEW l \in Locks, Lock(f, l)
  PROVE  LInv'
<1>0. TypeOK'
  BY LockType DEF LInv
<1>1. /\ held' = held /\ handling' = handling
      /\ \A g \in Frames : want'[g] = IF g = f THEN l ELSE want[g]
  BY DEF Lock, LInv, TypeOK
<1>2. Exclusive'
  BY <1>1 DEF LInv, Exclusive
<1>3. WantInv'
  BY <1>1 DEF LInv, WantInv, Lock, Asks, Role
<1>4. IdleInv'
  BY <1>1, TwoFrames DEF LInv, IdleInv, Lock, Runs, Alarm, Threads
<1> QED
  BY <1>0, <1>2, <1>3, <1>4 DEF LInv

\* The base frame of main never waits.
LEMMA MainWants ==
  ASSUME LInv
  PROVE  want[Base("main")] = Nothing
<1>1. Base("main") \in Frames /\ held[Base("main")] = {}
  BY TwoFrames DEF LInv, IdleInv, Threads
<1>2. Role(Base("main")) = "main"
  BY DEF Role, Base
<1>3. ~Asks(Base("main"), want[Base("main")])
  BY <1>1, <1>2 DEF Asks, Alone
<1> QED
  BY <1>1, <1>3 DEF LInv, WantInv

\* Take: what the frame waited for was nobody's.
LEMMA TakeInv ==
  ASSUME LInv, NEW f \in Frames, Take(f)
  PROVE  LInv'
<1>0. TypeOK'
  BY TakeType DEF LInv
<1>1. /\ handling' = handling
      /\ \A g \in Frames : want'[g] = IF g = f THEN Nothing ELSE want[g]
      /\ \A g \in Frames : held'[g] = IF g = f THEN held[f] \cup {want[f]} ELSE held[g]
  BY DEF Take, LInv, TypeOK
<1>2. Exclusive'
  BY <1>1 DEF LInv, Exclusive, Take, Free
<1>3. WantInv'
  BY <1>1 DEF LInv, WantInv, Asks, Role
<1>4. f # Base("main")
  BY MainWants, LocksAssumption DEF Take
<1>5. IdleInv'
  BY <1>1, <1>4, TwoFrames DEF LInv, IdleInv, Take, Runs, Alarm, Threads
<1> QED
  BY <1>0, <1>2, <1>3, <1>5 DEF LInv

\* Unlock: when the handler gives back clist_lock it holds nothing and is over.
LEMMA UnlockInv ==
  ASSUME LInv, NEW f \in Frames, NEW l \in Locks, Unlock(f, l)
  PROVE  LInv'
<1>0. TypeOK'
  BY UnlockType DEF LInv
<1>1. /\ want' = want
      /\ \A g \in Frames : held'[g] = IF g = f THEN held[f] \ {l} ELSE held[g]
  BY DEF Unlock, LInv, TypeOK
<1>2. Exclusive'
  BY <1>1 DEF LInv, Exclusive
<1>3. WantInv'
  BY <1>1 DEF LInv, WantInv, Unlock, Asks, Role
<1>4. ASSUME NEW t \in Threads, t \notin handling'
      PROVE  held'[Alarm(t)] = {} /\ want'[Alarm(t)] = Nothing
  <2>1. CASE t \notin handling
    BY <1>1, <2>1, TwoFrames DEF LInv, IdleInv, Unlock, Runs, Alarm
  <2>2. CASE t \in handling
    <3>1. Role(f) = "Alive" /\ l = "clist_lock" /\ t = f.thread
      BY <1>4, <2>2 DEF Unlock
    <3>2. f = Alarm(t)
      BY <3>1, FrameOf DEF Role, Threads
    <3> QED
      BY <1>1, <3>1, <3>2 DEF Unlock
  <2> QED
    BY <2>1, <2>2
<1>5. held'[Base("main")] = {}
  BY <1>1, TwoFrames DEF LInv, IdleInv, Threads
<1> QED
  BY <1>0, <1>2, <1>3, <1>4, <1>5 DEF LInv, IdleInv

\* The steps that touch no mutex.  Deliver only makes the handler run.
LEMMA OtherInv ==
  ASSUME LInv,
         create_sock \/ SetTimer \/ Expire \/ (\E t \in Threads : Deliver(t))
  PROVE  LInv'
<1>1. held' = held /\ want' = want /\ handling \subseteq handling'
  BY DEF create_sock, SetTimer, Expire, Deliver
<1>2. TypeOK'
  BY DEF LInv, TypeOK, create_sock, SetTimer, Expire, Deliver
<1>3. Exclusive'
  BY <1>1 DEF LInv, Exclusive
<1>4. WantInv'
  BY <1>1 DEF LInv, WantInv, Asks, Role
<1>5. IdleInv'
  BY <1>1 DEF LInv, IdleInv
<1> QED
  BY <1>2, <1>3, <1>4, <1>5 DEF LInv

LEMMA NextInv == LInv /\ [Next]_vars => LInv'
<1> SUFFICES ASSUME LInv, [Next]_vars PROVE LInv'
  OBVIOUS
<1>1. CASE \E f \in Frames, l \in Locks : Lock(f, l)
  BY <1>1, LockInv
<1>2. CASE \E f \in Frames : Take(f)
  BY <1>2, TakeInv
<1>3. CASE \E f \in Frames, l \in Locks : Unlock(f, l)
  BY <1>3, UnlockInv
<1>4. CASE create_sock \/ SetTimer \/ Expire \/ (\E t \in Threads : Deliver(t))
  BY <1>4, OtherInv
<1>5. CASE UNCHANGED vars
  BY <1>5 DEF vars, LInv, TypeOK, Exclusive, WantInv, IdleInv, Asks, Role
<1> QED
  BY <1>1, <1>2, <1>3, <1>4, <1>5 DEF Next

\* In every reachable state no mutex has two owners, frames wait for what their
\* code asks for, and a handler that does not run holds and awaits nothing.
THEOREM Invariance == Spec => []LInv
  BY InitInv, NextInv, PTL DEF Spec

-----------------------------------------------------------------------------
(* Deadlocks                                                               *)

\* Whoever holds a mutex and waits, holds clist_lock and waits for jlist_lock:
\* a frame that holds any other mutex, or waits for clist_lock, is the end of
\* the chain.
LEMMA Nested ==
  ASSUME LInv, NEW f \in Frames, want[f] # Nothing, held[f] # {}
  PROVE  held[f] = {"clist_lock"} /\ want[f] = "jlist_lock"
  BY DEF LInv, WantInv, Asks

\* A frame someone waits for, and that waits for its handler, was interrupted
\* inside a section, and its handler waits too.
LEMMA Interrupted ==
  ASSUME LInv, NEW S \in SUBSET Frames, Deadlock(S),
         NEW f \in Frames, held[f] # {}, f \in S,
         f.thread \in handling, f = Base(f.thread), Alarm(f.thread) \in S
  PROVE  \E t \in Threads : Caught(t) /\ Base(t) \in S /\ Alarm(t) \in S
<1> DEFINE t == f.thread
<1>1. t \in Threads
  BY FrameOf
<1>2. PICK g \in S : WaitsFor(Alarm(t), g)
  BY DEF Deadlock
<1>3. Alarm(t) # Base(Alarm(t).thread)
  BY <1>1, TwoFrames DEF Alarm, Base
<1>4. want[Alarm(t)] \in held[g] /\ g \in Frames
  BY <1>2, <1>3 DEF WaitsFor
<1>5. want[Alarm(t)] # Nothing
  BY <1>4, LocksAssumption DEF LInv, TypeOK
<1>6. Caught(t)
  BY <1>5 DEF Caught
<1> QED
  BY <1>1, <1>6

\* A set that is in a deadlock holds a thread Alive caught in a section.
LEMMA DeadlockCatches ==
  ASSUME LInv, NEW S \in SUBSET Frames, Deadlock(S)
  PROVE  \E t \in Threads : Caught(t) /\ Base(t) \in S /\ Alarm(t) \in S
<1> DEFINE Goal == \E t \in Threads : Caught(t) /\ Base(t) \in S /\ Alarm(t) \in S
           Frozen(f) == f.thread \in handling /\ f = Base(f.thread) /\ Alarm(f.thread) \in S
<1>1. \A f \in S : Frozen(f) \/ \E g \in S : want[f] \in held[g]
  BY DEF Deadlock, WaitsFor
\* Somebody in S waits for a mutex: if a frame stands still, its handler does.
<1>2. \E f \in S, g \in S : want[f] \in held[g]
  <2>1. PICK f \in S : TRUE
    BY DEF Deadlock
  <2>2. CASE Frozen(f)
    <3>1. ~Frozen(Alarm(f.thread))
      BY DEF Alarm, Base
    <3> QED
      BY <1>1, <2>2, <3>1
  <2> QED
    BY <1>1, <2>1, <2>2
<1>3. PICK f \in S, g \in S : want[f] \in held[g]
  BY <1>2
<1>4. CASE Frozen(g)
  BY <1>3, <1>4, Interrupted
<1>5. CASE ~Frozen(g)
  <2>1. PICK h \in S : want[g] \in held[h]
    BY <1>1, <1>5
  <2>2. want[g] # Nothing /\ held[g] # {}
    BY <1>3, <2>1, LocksAssumption DEF LInv, TypeOK
  <2>3. "jlist_lock" \in held[h]
    BY <2>1, <2>2, Nested
  <2>4. CASE Frozen(h)
    BY <2>3, <2>4, Interrupted
  <2>5. CASE ~Frozen(h)
    <3>1. want[h] # Nothing
      BY <1>1, <2>5, LocksAssumption DEF LInv, TypeOK
    <3> QED
      BY <2>3, <3>1, Nested
  <2> QED
    BY <2>4, <2>5
<1> QED
  BY <1>4, <1>5

\* Every deadlock of the program, for every set of threads SIGALRM may hit,
\* has Alive waiting on top of a thread it interrupted inside a lock section.
THEOREM AlarmsAlone == Spec => []OnlyAlarmsDeadlock
<1>1. LInv => OnlyAlarmsDeadlock
  BY DeadlockCatches DEF OnlyAlarmsDeadlock, Waiting
<1> QED
  BY <1>1, Invariance, PTL

\* Only a thread that takes mutexes of its own can be caught in a section.
LEMMA CaughtLocker ==
  ASSUME LInv, NEW t \in Threads, Caught(t)
  PROVE  t \in Hosts \cap Lockers
  BY DEF LInv, TypeOK, IdleInv, Caught, Lockers

\* Where SIGALRM never hits a thread that takes a mutex, there is no deadlock.
THEOREM DeadlockFree == Spec => []NoDeadlock
<1>1. LInv => NoDeadlock
  BY DeadlockCatches, CaughtLocker DEF NoDeadlock, Waiting
<1> QED
  BY <1>1, Invariance, PTL

=============================================================================
