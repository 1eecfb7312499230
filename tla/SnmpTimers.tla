----------------------------- MODULE SnmpTimers -----------------------------
(***************************************************************************)
(* The countdowns zte_7_cs_timeout, zte_gw_timeout and zte_g_cs_timeout of *)
(* RecvSnmp.cpp.                                                           *)
(*                                                                         *)
(* callback, on the thread that polls for traps, sets the countdown of the *)
(* platform a warning trap came from; Update_timeout, called first thing   *)
(* by the SIGALRM handler, counts all three down.  Each reports through    *)
(* jsnmplist when it sees a change.  The variables are plain ints that no  *)
(* mutex guards, so here every load and every store is a step of its own.  *)
(* The handler may run on any thread; on the one that polls it suspends    *)
(* callback, which is one of the interleavings.                            *)
(***************************************************************************)
EXTENDS Integers, Sequences

CONSTANTS
  Order,     \* the platforms in the order Update_timeout visits them
  TIMEOUT,   \* what a trap sets a countdown to
  Initial,   \* the initializer of the countdowns
  NoReport   \* no status record was queued yet

Platforms == {Order[i] : i \in DOMAIN Order}

ASSUME TimersAssumption ==
  /\ Order \in Seq(Platforms)
  /\ \A i, j \in DOMAIN Order : Order[i] = Order[j] => i = j
  /\ TIMEOUT \in Nat \ {0} /\ Initial \in Nat \ {0}
  /\ NoReport \notin {"CONNECT", "DISCON"}

VARIABLES
  timeout,  \* per platform, the countdown
  polling,  \* the poll thread runs
  started,  \* RecvSnmp has come past its start
  cb,       \* callback: the point it has reached
  from,     \* callback: the platform it serves
  tick,     \* Update_timeout: the point it has reached
  at,       \* Update_timeout: the position in Order it has reached
  reg,      \* Update_timeout: the value loaded for the decrement
  reported, \* history: per platform, the last status record queued
  quiet,    \* history: per platform, decrements stored since the last trap
  raced     \* history: callback and Update_timeout were at one platform at once

cbVars   == <<cb, from>>
tickVars == <<tick, at, reg>>
vars == <<timeout, polling, started, cb, from, tick, at, reg, reported, quiet, raced>>

\* The longest countdown.
Longest == IF TIMEOUT > Initial THEN TIMEOUT ELSE Initial

Init ==
  /\ timeout = [p \in Platforms |-> Initial]
  /\ polling = FALSE /\ started = FALSE
  /\ cb = "idle" /\ from \in Platforms
  /\ tick = "idle" /\ at = 1 /\ reg = 0
  /\ reported = [p \in Platforms |-> NoReport]
  \* As if the last trap had come when Initial alarms were left.
  /\ quiet = [p \in Platforms |-> TIMEOUT - Initial]
  /\ raced = [p \in Platforms |-> FALSE]

\* The maps are read and the session registered, or RecvSnmp returns.
RecvSnmp ==
  /\ ~started
  /\ started' = TRUE
  /\ polling' \in BOOLEAN
  /\ UNCHANGED <<timeout, cbVars, tickVars, reported, quiet>>

-----------------------------------------------------------------------------
(* callback, for a trap with the WARNING object from platform p            *)

Trap(p) ==
  /\ polling
  /\ cb = "idle"
  /\ cb' = "check"
  /\ from' = p
  /\ UNCHANGED <<timeout, polling, started, tickVars, reported, quiet>>

\* Faulty: the countdown is set before it is looked at.
CheckSetsFirst ==
  /\ cb = "check"
  /\ timeout' = [timeout EXCEPT ![from] = TIMEOUT]
  /\ cb' = "store"
  /\ UNCHANGED <<polling, started, from, tickVars, reported, quiet>>

Check ==
  /\ cb = "check"
  /\ cb' = IF timeout[from] = 0 THEN "report" ELSE "store"
  /\ UNCHANGED <<timeout, polling, started, from, tickVars, reported, quiet>>

ReportUp ==
  /\ cb = "report"
  /\ reported' = [reported EXCEPT ![from] = "CONNECT"]
  /\ cb' = "store"
  /\ UNCHANGED <<timeout, polling, started, from, tickVars, quiet>>

\* Faulty: the countdown is only started when it had ended.
StoreIfDown ==
  /\ cb = "store"
  /\ timeout' = [timeout EXCEPT ![from] = IF @ = 0 THEN TIMEOUT ELSE @]
  /\ quiet' = [quiet EXCEPT ![from] = 0]
  /\ cb' = "idle"
  /\ UNCHANGED <<polling, started, from, tickVars, reported>>

Store ==
  /\ cb = "store"
  /\ timeout' = [timeout EXCEPT ![from] = TIMEOUT]
  /\ quiet' = [quiet EXCEPT ![from] = 0]
  /\ cb' = "idle"
  /\ UNCHANGED <<polling, started, from, tickVars, reported>>

callback == Check \/ ReportUp \/ Store

-----------------------------------------------------------------------------
(* Update_timeout                                                          *)

\* Update_timeout goes on to the next platform, or is over.
Onward ==
  IF at < Len(Order) THEN tick' = "test" /\ at' = at + 1
                     ELSE tick' = "idle" /\ at' = 1

Alarm ==
  /\ tick = "idle"
  /\ Order # << >>
  /\ tick' = "test"
  /\ UNCHANGED <<timeout, polling, started, cbVars, at, reg, reported, quiet>>

\* Faulty: the last unit of a countdown is not counted down.
TestAboveOne ==
  /\ tick = "test"
  /\ IF timeout[Order[at]] > 1 THEN tick' = "load" /\ UNCHANGED at ELSE Onward
  /\ UNCHANGED <<timeout, polling, started, cbVars, reg, reported, quiet>>

Test ==
  /\ tick = "test"
  /\ IF timeout[Order[at]] > 0 THEN tick' = "load" /\ UNCHANGED at ELSE Onward
  /\ UNCHANGED <<timeout, polling, started, cbVars, reg, reported, quiet>>

Load ==
  /\ tick = "load"
  /\ reg' = timeout[Order[at]]
  /\ tick' = "decrement"
  /\ UNCHANGED <<timeout, polling, started, cbVars, at, reported, quiet>>

Decrement ==
  /\ tick = "decrement"
  /\ timeout' = [timeout EXCEPT ![Order[at]] = reg - 1]
  /\ quiet' = [quiet EXCEPT ![Order[at]] = @ + 1]
  /\ tick' = "again"
  /\ UNCHANGED <<polling, started, cbVars, at, reg, reported>>

\* Faulty: the end of the countdown is looked for below zero.
AgainBelowZero ==
  /\ tick = "again"
  /\ IF timeout[Order[at]] < 0 THEN tick' = "report" /\ UNCHANGED at ELSE Onward
  /\ UNCHANGED <<timeout, polling, started, cbVars, reg, reported, quiet>>

Again ==
  /\ tick = "again"
  /\ IF timeout[Order[at]] = 0 THEN tick' = "report" /\ UNCHANGED at ELSE Onward
  /\ UNCHANGED <<timeout, polling, started, cbVars, reg, reported, quiet>>

ReportDown ==
  /\ tick = "report"
  /\ reported' = [reported EXCEPT ![Order[at]] = "DISCON"]
  /\ Onward
  /\ UNCHANGED <<timeout, polling, started, cbVars, reg, quiet>>

Update_timeout == Test \/ Load \/ Decrement \/ Again \/ ReportDown

-----------------------------------------------------------------------------
\* callback has seen the countdown of p and not yet set it.
Setting(p) == from = p /\ cb \in {"report", "store"}

\* Update_timeout has seen the countdown of p above zero and is not done with it.
Counting(p) ==
  Order[at] = p /\ tick \in {"load", "decrement", "again", "report"}

Next ==
  /\ \/ RecvSnmp
     \/ \E p \in Platforms : Trap(p)
     \/ callback
     \/ Alarm
     \/ Update_timeout
  /\ raced' = [p \in Platforms |-> raced[p] \/ (Setting(p) /\ Counting(p))']

Spec == Init /\ [][Next]_vars

\* Both run on once they have begun, and alarms keep coming.
Fairness ==
  /\ WF_vars(callback /\ Next)
  /\ WF_vars((Alarm \/ Update_timeout) /\ Next)

FairSpec == Spec /\ Fairness

-----------------------------------------------------------------------------
(* Properties                                                              *)

TypeOK ==
  /\ timeout \in [Platforms -> 0 .. Longest]
  /\ polling \in BOOLEAN /\ started \in BOOLEAN
  /\ cb \in {"idle", "check", "report", "store"} /\ from \in Platforms
  /\ tick \in {"idle", "test", "load", "decrement", "again", "report"}
  /\ at \in 1 .. Len(Order) /\ reg \in 0 .. Longest
  /\ tick = "load" => timeout[Order[at]] > 0
  /\ tick = "decrement" => reg > 0
  /\ reported \in [Platforms -> {"CONNECT", "DISCON", NoReport}]
  /\ quiet \in [Platforms -> Int]
  /\ raced \in [Platforms -> BOOLEAN]

\* Nobody is between a look at the countdown of p and what follows from it.
Settled(p) == ~Setting(p) /\ ~Counting(p)

\* A platform both sides never handled at once is reported down exactly while
\* its countdown stands at zero.  (If they did, callback may restart the
\* countdown after Update_timeout saw zero: the last record says DISCON, the
\* countdown runs, and no trap brings a CONNECT as long as traps keep coming.)
ReportAgrees ==
  \A p \in Platforms :
    ~raced[p] /\ Settled(p) => (reported[p] = "DISCON" <=> timeout[p] = 0)

\* And its countdown stands where the alarms since the last trap have put it: no
\* trap is forgotten and none counts twice.
CountsExactly ==
  \A p \in Platforms :
    ~raced[p] /\ Settled(p) => timeout[p] = TIMEOUT - quiet[p]

\* What a side knows of a platform's countdown while it is at it, unless both were
\* at once: the value it loaded is the value that stands there, nothing is down
\* that counts, and what is about to be reported is so.
InStep(p) ==
  ~raced[p] =>
    /\ ~(Setting(p) /\ Counting(p))
    /\ timeout[p] = TIMEOUT - quiet[p]
    /\ Counting(p) => reported[p] # "DISCON"
    /\ Order[at] = p /\ tick = "decrement" => reg = timeout[p]
    /\ Order[at] = p /\ tick = "report" => timeout[p] = 0
    /\ from = p /\ cb = "store" => reported[p] # "DISCON"

\* The countdowns keep their types, and what was reported last agrees with them unless
\* both sides handled the platform at once: the inductive invariant.
TimersInv == TypeOK /\ ReportAgrees /\ \A p \in Platforms : InStep(p)

\* However the two sides interleave, a countdown that ended did so because an
\* alarm stored the zero, and the DISCON that follows is queued or on its way:
\* no outage goes unreported.
EndIsReported ==
  \A p \in Platforms :
    timeout[p] = 0 => \/ reported[p] = "DISCON"
                      \/ Counting(p) /\ tick \in {"again", "report"}
                      \/ Setting(p)

\* A platform that falls silent is reported down in the end, races or not.
SilenceReported ==
  \A p \in Platforms :
    <>[][~Trap(p)]_vars => <>[](reported[p] = "DISCON")

=============================================================================
