---------------------------- MODULE RecvSnmpProofs ----------------------------
(***************************************************************************)
(* Proofs about RecvSnmp.cpp, for every content of its table files, every  *)
(* set of platforms and every length of a countdown.  The first half is    *)
(* about the countdowns (SnmpTimers): whatever single loads and stores of  *)
(* the two sides interleave, no end of a countdown goes unreported, and    *)
(* without a race the count is exact.  The second is about the rest of     *)
(* callback (TrapDecode): a record says what the trap said.                *)
(***************************************************************************)
EXTENDS SnmpTimers, TrapDecode, SequenceTheorems, WellFoundedInduction, TLAPS

LEMMA AtPlatform == TypeOK => Order[at] \in Platforms /\ at \in Nat /\ Len(Order) \in Nat
  BY TimersAssumption DEF TypeOK, Platforms

\* Going on to the next platform keeps the position a position.
LEMMA OnwardStays ==
  ASSUME TypeOK, Onward
  PROVE  at' \in 1 .. Len(Order) /\ tick' \in {"idle", "test"}
  BY AtPlatform DEF TypeOK, Onward

LEMMA LongestBounds ==
  Longest \in Nat /\ TIMEOUT \in 1 .. Longest /\ Initial \in 1 .. Longest
  BY TimersAssumption DEF Longest

-----------------------------------------------------------------------------
(* The types                                                               *)

LEMMA InitType == Init => TypeOK
  <1> SUFFICES ASSUME Init PROVE TypeOK
    OBVIOUS
  <1>1. Len(Order) \in Nat /\ Len(Order) > 0
    BY TimersAssumption DEF Init, Platforms
  <1>2. timeout \in [Platforms -> 0 .. Longest] /\ quiet \in [Platforms -> Int]
    BY LongestBounds, TimersAssumption DEF Init
  <1>3. raced \in [Platforms -> BOOLEAN] /\ polling \in BOOLEAN /\ started \in BOOLEAN
    BY DEF Init
  <1>4. reported \in [Platforms -> {"CONNECT", "DISCON", NoReport}]
    BY DEF Init
  <1> QED BY <1>1, <1>2, <1>3, <1>4, LongestBounds DEF Init, TypeOK

LEMMA NextType == TypeOK /\ [Next]_vars => TypeOK'
  <1> SUFFICES ASSUME TypeOK, [Next]_vars PROVE TypeOK'
    OBVIOUS
  <1>0. Next => raced' \in [Platforms -> BOOLEAN]
    <2>1. ASSUME Next, NEW p \in Platforms
          PROVE  (raced[p] \/ (Setting(p) /\ Counting(p))') \in BOOLEAN
      BY DEF TypeOK, Setting, Counting
    <2> QED BY <2>1 DEF Next
  <1>1. CASE Next /\ (RecvSnmp \/ \E p \in Platforms : Trap(p))
    BY <1>0, <1>1 DEF TypeOK, RecvSnmp, Trap, cbVars, tickVars
  <1>2. CASE Next /\ callback
    <2>1. timeout' \in [Platforms -> 0 .. Longest] /\ quiet' \in [Platforms -> Int]
      BY <1>2, LongestBounds DEF TypeOK, callback, Check, ReportUp, Store
    <2>2. reported' \in [Platforms -> {"CONNECT", "DISCON", NoReport}]
      BY <1>2 DEF TypeOK, callback, Check, ReportUp, Store
    <2>3. /\ cb' \in {"idle", "check", "report", "store"} /\ from' = from
          /\ UNCHANGED <<polling, started, tick, at, reg>>
      BY <1>2 DEF callback, Check, ReportUp, Store, tickVars
    <2>4. tick = "load" => timeout'[Order[at]] > 0
      <3>1. Order[at] \in Platforms /\ timeout \in [Platforms -> 0 .. Longest]
        BY AtPlatform DEF TypeOK
      <3>2. CASE Store
        BY <3>1, <3>2, LongestBounds DEF TypeOK, Store
      <3>3. CASE Check \/ ReportUp
        BY <3>3 DEF TypeOK, Check, ReportUp
      <3> QED BY <1>2, <3>2, <3>3 DEF callback
    <2> QED BY <1>0, <1>2, <2>1, <2>2, <2>3, <2>4 DEF TypeOK
  <1>3. CASE Next /\ (Alarm \/ Test \/ Load \/ Again)
    <2>1. UNCHANGED <<timeout, polling, started, cb, from, reported, quiet>>
      BY <1>3 DEF Alarm, Test, Load, Again, cbVars
    <2>2. at' \in 1 .. Len(Order) /\ tick' \in {"idle", "test", "load", "decrement", "again", "report"}
      BY <1>3, OnwardStays DEF TypeOK, Alarm, Test, Load, Again
    <2>3. tick' = "load" => Test /\ at' = at /\ timeout[Order[at]] > 0
      BY <1>3, OnwardStays DEF Alarm, Test, Load, Again
    <2>4. reg' \in 0 .. Longest /\ (tick' = "decrement" => reg' > 0)
      BY <1>3, OnwardStays, AtPlatform DEF TypeOK, Alarm, Test, Load, Again
    <2>5. tick' = "load" => timeout'[Order[at']] > 0
      BY <2>1, <2>3
    <2>6. polling' \in BOOLEAN /\ started' \in BOOLEAN /\ raced' \in [Platforms -> BOOLEAN]
      BY <1>0, <1>3, <2>1 DEF TypeOK
    <2> QED BY <2>1, <2>2, <2>4, <2>5, <2>6 DEF TypeOK
  <1>4. CASE Next /\ Decrement
    <2>1. reg - 1 \in 0 .. Longest
      BY <1>4, LongestBounds DEF Decrement, TypeOK
    <2>2. timeout' \in [Platforms -> 0 .. Longest]
      BY <1>4, <2>1 DEF TypeOK, Decrement
    <2>3. quiet' \in [Platforms -> Int]
      <3>1. quiet \in [Platforms -> Int] /\ quiet[Order[at]] + 1 \in Int
        BY AtPlatform DEF TypeOK
      <3> QED BY <1>4, <3>1 DEF Decrement
    <2> QED BY <1>0, <1>4, <2>2, <2>3 DEF TypeOK, Decrement, cbVars
  <1>5. CASE Next /\ ReportDown
    <2>1. reported' \in [Platforms -> {"CONNECT", "DISCON", NoReport}]
      BY <1>5 DEF TypeOK, ReportDown
    <2>2. at' \in 1 .. Len(Order) /\ tick' \in {"idle", "test"}
      BY <1>5, OnwardStays DEF ReportDown
    <2> QED BY <1>0, <1>5, <2>1, <2>2 DEF TypeOK, ReportDown, cbVars
  <1>6. CASE UNCHANGED vars
    BY <1>6 DEF TypeOK, vars
  <1> QED BY <1>1, <1>2, <1>3, <1>4, <1>5, <1>6 DEF Next, Update_timeout

-----------------------------------------------------------------------------
(* What was reported agrees with the countdown                             *)

\* What a step does to the mark of a race.
LEMMA Raced ==
  ASSUME TypeOK, Next, NEW p \in Platforms, ~raced'[p]
  PROVE  ~raced[p] /\ ~(Setting(p)' /\ Counting(p)')
  BY DEF Next, Setting, Counting

\* What holds of the countdown of p, were it not for a race.
Sound(p) ==
  /\ ~(Setting(p) /\ Counting(p))
  /\ timeout[p] = TIMEOUT - quiet[p]
  /\ Counting(p) => reported[p] # "DISCON"
  /\ Order[at] = p /\ tick = "decrement" => reg = timeout[p]
  /\ Order[at] = p /\ tick = "report" => timeout[p] = 0
  /\ from = p /\ cb = "store" => reported[p] # "DISCON"
  /\ Settled(p) => (reported[p] = "DISCON" <=> timeout[p] = 0)

LEMMA CallbackSound ==
  ASSUME TypeOK, NEW p \in Platforms, Sound(p), ~(Setting(p)' /\ Counting(p)'),
         RecvSnmp \/ (\E q \in Platforms : Trap(q)) \/ callback
  PROVE  Sound(p)'
  <1>0. UNCHANGED <<tick, at, reg>>
    BY DEF RecvSnmp, Trap, callback, Check, ReportUp, Store, tickVars
  <1>1. CASE RecvSnmp \/ \E q \in Platforms : Trap(q)
    BY <1>0, <1>1 DEF RecvSnmp, Trap, Sound, Setting, Counting, Settled, cbVars
  <1>2. CASE Check
    BY <1>0, <1>2 DEF Check, Sound, Setting, Counting, Settled
  <1>3. CASE ReportUp
    <2>1. CASE from = p
      BY <1>0, <1>3, <2>1 DEF TypeOK, ReportUp, Sound, Setting, Counting, Settled
    <2>2. CASE from # p
      BY <1>0, <1>3, <2>2 DEF TypeOK, ReportUp, Sound, Setting, Counting, Settled
    <2> QED BY <2>1, <2>2
  <1>4. CASE Store
    <2>1. CASE from = p
      <3>1. timeout'[p] = TIMEOUT /\ quiet'[p] = 0 /\ reported' = reported
        BY <1>4, <2>1 DEF TypeOK, Store
      <3>2. Setting(p) /\ ~Counting(p) /\ ~Counting(p)' /\ reported[p] # "DISCON"
        BY <1>0, <1>4, <2>1 DEF Store, Sound, Setting, Counting
      <3>3. ~Setting(p)' /\ cb' # "store"
        BY <1>4 DEF Store, Setting
      <3> QED BY <1>0, <3>1, <3>2, <3>3, TimersAssumption DEF Sound, Counting
    <2>2. CASE from # p
      BY <1>0, <1>4, <2>2 DEF TypeOK, Store, Sound, Setting, Counting, Settled
    <2> QED BY <2>1, <2>2
  <1> QED BY <1>1, <1>2, <1>3, <1>4 DEF callback

LEMMA TimerSound ==
  ASSUME TypeOK, NEW p \in Platforms, Sound(p), ~(Setting(p)' /\ Counting(p)'),
         Alarm \/ Update_timeout
  PROVE  Sound(p)'
  <1>0. UNCHANGED <<cb, from>> /\ Order[at] \in Platforms
    BY AtPlatform DEF Alarm, Update_timeout, Test, Load, Decrement, Again, ReportDown, cbVars
  <1>a. Onward => tick' \in {"idle", "test"}
    BY OnwardStays
  <1>1. CASE Alarm
    BY <1>0, <1>1 DEF Alarm, Sound, Setting, Counting, Settled
  <1>2. CASE Test
    BY <1>0, <1>a, <1>2 DEF Test, Sound, Setting, Counting, Settled
  <1>3. CASE Load
    BY <1>0, <1>3 DEF Load, Sound, Setting, Counting, Settled
  <1>4. CASE Again
    BY <1>0, <1>a, <1>4 DEF Again, Sound, Setting, Counting, Settled
  <1>5. CASE Decrement
    <2>1. CASE Order[at] = p
      <3>1. timeout'[p] = reg - 1 /\ quiet'[p] = quiet[p] + 1 /\ reported' = reported
        BY <1>5, <2>1 DEF TypeOK, Decrement
      <3>2. Counting(p) /\ ~Setting(p) /\ reg = timeout[p] /\ reported[p] # "DISCON"
        BY <1>5, <2>1 DEF Decrement, Sound, Setting, Counting
      <3>3. timeout'[p] = TIMEOUT - quiet'[p]
        <4>1. quiet[p] \in Int /\ TIMEOUT \in Int
          BY TimersAssumption DEF TypeOK
        <4> QED BY <3>1, <3>2, <4>1 DEF Sound
      <3>4. Counting(p)' /\ ~Setting(p)' /\ tick' = "again"
        BY <1>0, <1>5, <3>2 DEF Decrement, Setting, Counting
      <3> QED BY <1>0, <3>1, <3>2, <3>3, <3>4 DEF Sound, Setting, Settled
    <2>2. CASE Order[at] # p
      BY <1>0, <1>5, <2>2 DEF TypeOK, Decrement, Sound, Setting, Counting, Settled
    <2> QED BY <2>1, <2>2
  <1>6. CASE ReportDown
    <2>1. CASE Order[at] = p
      BY <1>0, <1>a, <1>6, <2>1 DEF TypeOK, ReportDown, Sound, Setting, Counting, Settled
    <2>2. CASE Order[at] # p
      BY <1>0, <1>a, <1>6, <2>2 DEF TypeOK, ReportDown, Sound, Setting, Counting, Settled
    <2> QED BY <2>1, <2>2
  <1> QED BY <1>1, <1>2, <1>3, <1>4, <1>5, <1>6 DEF Update_timeout

-----------------------------------------------------------------------------
(* The invariant and what follows                                          *)

LEMMA Parts ==
  /\ TimersInv <=> TypeOK /\ \A p \in Platforms : ~raced[p] => Sound(p)
  /\ TimersInv' <=> TypeOK' /\ \A p \in Platforms : ~raced'[p] => Sound(p)'
  BY DEF TimersInv, ReportAgrees, InStep, Sound

LEMMA InitInv == Init => TimersInv
  <1> SUFFICES ASSUME Init PROVE TimersInv
    OBVIOUS
  <1>1. ASSUME NEW p \in Platforms PROVE Sound(p)
    <2>1. timeout[p] = Initial /\ quiet[p] = TIMEOUT - Initial /\ reported[p] = NoReport
      BY DEF Init
    <2> QED BY <2>1, TimersAssumption DEF Init, Sound, Setting, Counting, Settled
  <1> QED BY <1>1, InitType, Parts

LEMMA NextInv == TimersInv /\ [Next]_vars => TimersInv'
  <1> SUFFICES ASSUME TimersInv, [Next]_vars PROVE TimersInv'
    OBVIOUS
  <1>1. TypeOK /\ TypeOK'
    BY NextType, Parts
  <1>2. CASE Next
    <2>1. ASSUME NEW p \in Platforms, ~raced'[p] PROVE Sound(p)'
      <3>1. ~raced[p] /\ ~(Setting(p)' /\ Counting(p)')
        BY <1>1, <1>2, <2>1, Raced
      <3>2. Sound(p)
        BY <3>1, Parts
      <3> QED BY <1>1, <1>2, <3>1, <3>2, CallbackSound, TimerSound DEF Next
    <2> QED BY <1>1, <2>1, Parts
  <1>3. CASE UNCHANGED vars
    <2>1. ASSUME NEW p \in Platforms, ~raced'[p] PROVE Sound(p)'
      <3>1. Sound(p)
        BY <1>3, <2>1, Parts DEF vars
      <3> QED BY <1>3, <3>1 DEF vars, Sound, Setting, Counting, Settled
    <2> QED BY <1>1, <2>1, Parts
  <1> QED BY <1>2, <1>3

\* Every run keeps what was reported and what the countdowns say in agreement on each
\* platform the two sides never handled at once.
THEOREM Invariance == Spec => []TimersInv
  BY InitInv, NextInv, PTL DEF Spec

\* On such a platform the countdown is what the alarms since its last trap have made it.
THEOREM TrapsCountOnce == Spec => []CountsExactly
  <1>1. TimersInv => CountsExactly
    BY DEF TimersInv, InStep, CountsExactly
  <1> QED BY Invariance, <1>1, PTL

LEMMA NextEnd ==
  ASSUME TypeOK, EndIsReported, [Next]_vars PROVE EndIsReported'
  <1> SUFFICES ASSUME NEW p \in Platforms, timeout'[p] = 0
               PROVE  \/ reported'[p] = "DISCON"
                      \/ Counting(p)' /\ tick' \in {"again", "report"}
                      \/ Setting(p)'
    BY DEF EndIsReported, Counting, Setting
  <1>0. timeout[p] = 0 => \/ reported[p] = "DISCON"
                          \/ Counting(p) /\ tick \in {"again", "report"}
                          \/ Setting(p)
    BY DEF EndIsReported
  <1>1. CASE RecvSnmp \/ (\E q \in Platforms : Trap(q)) \/ Alarm \/ Test \/ Load \/ UNCHANGED vars
    BY <1>0, <1>1 DEF RecvSnmp, Trap, Alarm, Test, Load, Counting, Setting, vars, cbVars, tickVars
  <1>2. CASE Check
    BY <1>0, <1>2 DEF Check, Counting, Setting, tickVars
  <1>3. CASE ReportUp
    <2>1. CASE from = p
      BY <1>3, <2>1 DEF ReportUp, Setting
    <2>2. CASE from # p
      BY <1>0, <1>3, <2>2 DEF TypeOK, ReportUp, Counting, Setting, tickVars
    <2> QED BY <2>1, <2>2
  <1>4. CASE Store
    <2>1. from # p
      BY <1>4, TimersAssumption DEF TypeOK, Store
    <2> QED BY <1>0, <1>4, <2>1 DEF TypeOK, Store, Counting, Setting, tickVars
  <1>5. CASE Decrement
    <2>1. CASE Order[at] = p
      BY <1>5, <2>1 DEF Decrement, Counting
    <2>2. CASE Order[at] # p
      BY <1>0, <1>5, <2>2 DEF TypeOK, Decrement, Counting, Setting, cbVars
    <2> QED BY <2>1, <2>2
  <1>6. CASE Again
    BY <1>0, <1>6, OnwardStays DEF Again, Counting, Setting, cbVars
  <1>7. CASE ReportDown
    <2>1. CASE Order[at] = p
      BY <1>7, <2>1 DEF TypeOK, ReportDown
    <2>2. CASE Order[at] # p
      BY <1>0, <1>7, <2>2 DEF TypeOK, ReportDown, Counting, Setting, cbVars
    <2> QED BY <2>1, <2>2
  <1> QED BY <1>1, <1>2, <1>3, <1>4, <1>5, <1>6, <1>7 DEF Next, callback, Update_timeout

\* Races or not, a countdown that stands at zero was reported down, or the report is on
\* its way, or callback is about to start the countdown again.
THEOREM NoSilentEnd == Spec => []EndIsReported
  <1>1. Init => EndIsReported
    BY TimersAssumption DEF Init, EndIsReported
  <1>2. TimersInv => TypeOK
    BY DEF TimersInv
  <1>3. TypeOK /\ EndIsReported /\ [Next]_vars => EndIsReported'
    BY NextEnd
  <1> QED BY <1>1, <1>2, <1>3, Invariance, PTL DEF Spec


-----------------------------------------------------------------------------
(* What a trap said.                                                       *)

\* The only value of a set.
LEMMA OnlyOne ==
  ASSUME NEW x, NEW d
  PROVE  The({x}, d) = x
  BY DEF The

\* The default stands for nothing.
LEMMA NoneThere == \A d : The({}, d) = d
  BY DEF The

\* A trap without varbinds says nothing.
LEMMA SaidNothing ==
  ASSUME vbs = << >>
  PROVE  \A o : Said(o) = {} /\ SaidLate(o) = {}
  BY DEF Said, SaidLate

\* A varbind adds its value to what was said, also to what was said late if the
\* subsystem came before.
LEMMA SaidMore ==
  ASSUME DecodeTypeOK, NEW v \in Varbinds, Vb(v)
  PROVE  /\ Said(v.oid) = {} /\ SaidLate(v.oid) = {}
         /\ \A o : Said(o)' = IF o = v.oid THEN {v.value} ELSE Said(o)
         /\ \A o : SaidLate(o)' = IF o = v.oid /\ Said("SSYS") # {} THEN {v.value}
                                  ELSE SaidLate(o)
<1> DEFINE n == Len(vbs) + 1
<1>1. vbs \in Seq(Varbinds) /\ vbs' = Append(vbs, v) /\ n \in Nat
  BY DEF DecodeTypeOK, Vb
<1>2. /\ DOMAIN vbs = 1 .. n - 1
      /\ DOMAIN vbs' = 1 .. n
      /\ vbs'[n] = v
      /\ \A k \in DOMAIN vbs : vbs'[k] = vbs[k]
  BY <1>1
<1>3. \A k \in DOMAIN vbs : vbs[k].oid # v.oid
  BY DEF Vb
<1>4. Said(v.oid) = {} /\ SaidLate(v.oid) = {}
  BY <1>3 DEF Said, SaidLate
<1> HIDE DEF n
<1>5. ASSUME NEW o
      PROVE  Said(o)' = IF o = v.oid THEN {v.value} ELSE Said(o)
  <2> DEFINE K == {j \in DOMAIN vbs : vbs[j].oid = o}
  <2>1. {j \in DOMAIN vbs' : vbs'[j].oid = o} = IF o = v.oid THEN {n} ELSE K
    BY <1>1, <1>2, <1>3
  <2>2. Said(o)' = {vbs'[k].value : k \in {j \in DOMAIN vbs' : vbs'[j].oid = o}}
    BY DEF Said
  <2>3. Said(o) = {vbs[k].value : k \in K}
    BY DEF Said
  <2>4. CASE o = v.oid
    <3>1. Said(o)' = {vbs'[k].value : k \in {n}}
      BY <2>1, <2>2, <2>4
    <3> QED
      BY <1>2, <2>4, <3>1
  <2>5. CASE o # v.oid
    <3>1. Said(o)' = {vbs'[k].value : k \in K}
      BY <2>1, <2>2, <2>5
    <3> QED
      BY <1>2, <2>3, <2>5, <3>1
  <2> QED
    BY <2>4, <2>5
<1>6. ASSUME NEW o
      PROVE  SaidLate(o)' = IF o = v.oid /\ Said("SSYS") # {} THEN {v.value}
                            ELSE SaidLate(o)
  <2> DEFINE K == {j \in DOMAIN vbs :
                     vbs[j].oid = o /\ \E i \in 1 .. j - 1 : vbs[i].oid = "SSYS"}
             L == {j \in DOMAIN vbs' :
                     vbs'[j].oid = o /\ \E i \in 1 .. j - 1 : vbs'[i].oid = "SSYS"}
  <2>1. Said("SSYS") # {} <=> \E i \in 1 .. n - 1 : vbs[i].oid = "SSYS"
    BY <1>2 DEF Said
  <2>2. L = IF o = v.oid /\ Said("SSYS") # {} THEN {n} ELSE K
    BY <1>1, <1>2, <1>3, <2>1
  <2>3. SaidLate(o)' = {vbs'[k].value : k \in L}
    BY DEF SaidLate
  <2>4. SaidLate(o) = {vbs[k].value : k \in K}
    BY DEF SaidLate
  <2> HIDE DEF K, L
  <2>5. CASE o = v.oid /\ Said("SSYS") # {}
    BY <1>2, <2>2, <2>3, <2>5
  <2>6. CASE ~(o = v.oid /\ Said("SSYS") # {})
    <3>1. SaidLate(o)' = {vbs'[k].value : k \in K}
      BY <2>2, <2>3, <2>6
    <3>2. K \subseteq DOMAIN vbs
      BY DEF K
    <3> QED
      BY <1>2, <2>4, <2>6, <3>1, <3>2
  <2> QED
    BY <2>5, <2>6
<1> QED
  BY <1>4, <1>5, <1>6


-----------------------------------------------------------------------------
(* The loaders.                                                            *)

\* insert adds one key with its value, or none.
LEMMA InsertOne ==
  ASSUME NEW map, NEW k, NEW n
  PROVE  /\ DOMAIN Insert(map, k, n) = DOMAIN map \cup {k}
         /\ \A x \in DOMAIN map : Insert(map, k, n)[x] = map[x]
         /\ k \notin DOMAIN map => Insert(map, k, n)[k] = n
  BY DEF Insert

\* A number read is a number, whatever the file holds.
LEMMA ReadsNumber ==
  ASSUME NEW file, Reads(file), pos \in Nat, id \in Int,
         \A k \in DOMAIN file : file[k].id \in Int \union {Text}
  PROVE  id' \in Int /\ pos' \in Nat
  BY DEF Reads

\* The files are among those the constants allow.
FilesOK == ipFile \in IpFiles /\ codeFile \in CodeFiles

LEMMA IpEntries ==
  ASSUME FilesOK, ipFile # Missing
  PROVE  /\ Len(ipFile) \in Nat /\ DOMAIN ipFile = 1 .. Len(ipFile)
         /\ \A k \in DOMAIN ipFile : /\ ipFile[k].key \in Ips
                                     /\ ipFile[k].id \in Int \union {Text}
<1>1. ipFile \in Seq([key : Ips, id : Int \union {Text}])
  BY TrapAssumption DEF FilesOK
<1>2. ASSUME NEW k \in DOMAIN ipFile
      PROVE  ipFile[k] \in [key : Ips, id : Int \union {Text}]
  <2> DEFINE S == [key : Ips, id : Int \union {Text}]
  <2>1. ipFile \in Seq(S)
    BY <1>1
  <2> HIDE DEF S
  <2>2. k \in 1 .. Len(ipFile)
    BY <2>1
  <2>3. ipFile[k] \in S
    BY <2>1, <2>2, ElementOfSeq
  <2> QED
    BY <2>3 DEF S
<1>3. Len(ipFile) \in Nat /\ DOMAIN ipFile = 1 .. Len(ipFile)
  <2> DEFINE S == [key : Ips, id : Int \union {Text}]
  <2>1. ipFile \in Seq(S)
    BY <1>1
  <2> HIDE DEF S
  <2> QED
    BY <2>1
<1> QED
  BY <1>2, <1>3

LEMMA CodeEntries ==
  ASSUME FilesOK, codeFile # Missing
  PROVE  /\ Len(codeFile) \in Nat /\ DOMAIN codeFile = 1 .. Len(codeFile)
         /\ \A k \in DOMAIN codeFile : codeFile[k].id \in Int \union {Text}
<1> DEFINE S == [key : Seq(0 .. 9), id : Int \union {Text}]
<1>1. codeFile \in Seq(S)
  BY TrapAssumption DEF FilesOK
<1>2. ASSUME NEW k \in DOMAIN codeFile
      PROVE  codeFile[k].id \in Int \union {Text}
  <2> HIDE DEF S
  <2>1. k \in 1 .. Len(codeFile)
    BY <1>1
  <2>2. codeFile[k] \in S
    BY <1>1, <2>1, ElementOfSeq
  <2> QED
    BY <2>2 DEF S
<1> HIDE DEF S
<1>3. Len(codeFile) \in Nat /\ DOMAIN codeFile = 1 .. Len(codeFile)
  BY <1>1
<1> QED
  BY <1>2, <1>3

\* A step of a loader keeps the types, and leaves what callback works with alone.
LEMMA LoadStep ==
  ASSUME FilesOK, DecodeTypeOK, Orderly, map_ip_bus \/ map_zx_code
  PROVE  /\ DecodeTypeOK' /\ Orderly' /\ FilesOK'
         /\ vbs = << >> /\ UNCHANGED <<trap, locals>>
         /\ pc' # "end"
<1>1. CASE map_ip_bus
  <2>1. UNCHANGED <<ipFile, codeFile, codemap, trap, locals>> /\ pc = "map_ip_bus"
    BY <1>1 DEF map_ip_bus, Ends, Crashes
  <2>2. pc' \in {"map_ip_bus", "map_zx_code", "crashed"}
    BY <1>1 DEF map_ip_bus, Ends, Crashes
  <2>3. CASE Reads(ipFile)
    <3>1. ipFile # Missing /\ pos \in DOMAIN ipFile
      BY <2>3 DEF Reads
    <3>2. id' \in Int /\ pos' \in Nat
      BY <2>3, <3>1, IpEntries, ReadsNumber DEF DecodeTypeOK
    <3>3. ipmap' = ipmap \/ ipmap' = Insert(ipmap, ipFile[pos].key, id')
      BY <1>1, <2>3 DEF map_ip_bus, Ends, Crashes
    <3>4. DOMAIN ipmap' \subseteq Ips
      <4>1. ipFile[pos].key \in Ips /\ DOMAIN ipmap \subseteq Ips
        BY <3>1, IpEntries DEF DecodeTypeOK
      <4> DEFINE key == ipFile[pos].key
                 new == Insert(ipmap, key, id')
      <4>2. DOMAIN new = DOMAIN ipmap \union {key}
        BY DEF Insert
      <4>3. DOMAIN new \subseteq Ips
        BY <4>1, <4>2
      <4>4. ipmap' = ipmap \/ ipmap' = new
        BY <3>3
      <4> HIDE DEF new
      <4> QED
        BY <4>1, <4>3, <4>4
    <3> QED
      BY <2>1, <2>2, <3>2, <3>4
      DEF DecodeTypeOK, Orderly, FilesOK, trap, locals
  <2>4. CASE Ends(ipFile, "map_zx_code") \/ Crashes(ipFile)
    <3>1. /\ ipmap' = ipmap
          /\ (id' = 0 /\ pos' = 1) \/ (id' = id /\ pos' = pos)
      BY <2>4 DEF Ends, Crashes
    <3> QED
      BY <2>1, <2>2, <3>1 DEF DecodeTypeOK, Orderly, FilesOK, trap, locals
  <2> QED
    BY <1>1, <2>3, <2>4 DEF map_ip_bus
<1>2. CASE map_zx_code
  <2>1. UNCHANGED <<ipFile, codeFile, ipmap, trap, locals>> /\ pc = "map_zx_code"
    BY <1>2 DEF map_zx_code, Ends, Crashes
  <2>2. pc' \in {"map_zx_code", "spins", "session", "crashed"}
    BY <1>2 DEF map_zx_code, Ends, Crashes
  <2>3. CASE Reads(codeFile)
    <3>1. codeFile # Missing /\ pos \in DOMAIN codeFile
      BY <2>3 DEF Reads
    <3>2. id' \in Int /\ pos' \in Nat
      BY <2>3, <3>1, CodeEntries, ReadsNumber DEF DecodeTypeOK
    <3>3. codemap' = Insert(codemap, codeFile[pos].key, id')
      BY <1>2, <2>1, <2>3, <3>1 DEF map_zx_code, Ends, Crashes, Reads, DecodeTypeOK
    <3>4. \A c \in DOMAIN codemap' : codemap'[c] \in Int
      <4> DEFINE k == codeFile[pos].key
      <4>1. \A c \in DOMAIN codemap : codemap[c] \in Int
        BY DEF Orderly
      <4>2. /\ DOMAIN Insert(codemap, k, id') = DOMAIN codemap \union {k}
            /\ \A c \in DOMAIN codemap : Insert(codemap, k, id')[c] = codemap[c]
            /\ k \notin DOMAIN codemap => Insert(codemap, k, id')[k] = id'
        BY InsertOne
      <4> HIDE DEF k
      <4>3. codemap' = Insert(codemap, k, id')
        BY <3>3 DEF k
      <4> QED
        BY <3>2, <4>1, <4>2, <4>3
    <3> QED
      BY <2>1, <2>2, <3>2, <3>4
      DEF DecodeTypeOK, Orderly, FilesOK, trap, locals
  <2>4. CASE Ends(codeFile, "session") \/ Crashes(codeFile)
    <3>1. /\ codemap' = codemap
          /\ (id' = 0 /\ pos' = 1) \/ (id' = id /\ pos' = pos)
      BY <2>4 DEF Ends, Crashes
    <3> QED
      BY <2>1, <2>2, <3>1 DEF DecodeTypeOK, Orderly, FilesOK, trap, locals
  <2> QED
    BY <1>2, <2>3, <2>4 DEF map_zx_code
<1> QED
  BY <1>1, <1>2

\* Of the entries of a key among the first n there is a first one.
LEMMA FirstEntry ==
  ASSUME NEW file, NEW n \in Nat, NEW x \in {file[m].key : m \in 1 .. n}
  PROVE  \E i \in 1 .. n : file[i].key = x /\ \A j \in 1 .. i - 1 : file[j].key # x
<1> DEFINE S == {i \in 1 .. n : file[i].key = x}
<1>1. S \in SUBSET Nat /\ S # {}
  OBVIOUS
<1>2. IsWellFoundedOn(OpToRel(<, Nat), Nat)
  BY NatLessThanWellFounded
<1> HIDE DEF S
<1>3. PICK i \in S : \A y \in S : ~(<<y, i>> \in OpToRel(<, Nat))
  BY <1>1, <1>2, WFMin
<1>4. \A y \in S : ~(y < i)
  BY <1>1, <1>3 DEF OpToRel
<1>5. i \in 1 .. n /\ file[i].key = x
  BY <1>3 DEF S
<1>6. ASSUME NEW j \in 1 .. i - 1
      PROVE  file[j].key # x
  <2>1. j \in 1 .. n /\ j < i
    BY <1>5
  <2>2. j \notin S
    BY <1>4, <2>1
  <2> QED
    BY <2>1, <2>2 DEF S
<1> QED
  BY <1>5, <1>6

\* What insert makes of the table of n entries and the next one is the table of all.
LEMMA TableGrows ==
  ASSUME NEW file, NEW n \in Nat
  PROVE  Table(file, n + 1) = Insert(Table(file, n), file[n + 1].key, file[n + 1].id)
<1>0. \A x \in {file[m].key : m \in 1 .. n} :
        \E i \in 1 .. n : file[i].key = x /\ \A j \in 1 .. i - 1 : file[j].key # x
  BY FirstEntry
<1> DEFINE Is(x, i) == file[i].key = x /\ \A j \in 1 .. i - 1 : file[j].key # x
           Keys == {file[i].key : i \in 1 .. n}
           At(x, m) == file[CHOOSE i \in 1 .. m : Is(x, i)].id
           last == file[n + 1].key
<1>1. {file[i].key : i \in 1 .. n + 1} = Keys \union {last}
  <2>1. 1 .. n + 1 = (1 .. n) \union {n + 1}
    <3>1. \A i : i \in 1 .. n + 1 <=> (i \in 1 .. n \/ i = n + 1)
      OBVIOUS
    <3> QED
      BY <3>1
  <2>2. \A S, a : {file[i].key : i \in S \union {a}} = {file[i].key : i \in S} \union {file[a].key}
    BY Zenon
  <2>3. {file[i].key : i \in (1 .. n) \union {n + 1}}
          = {file[i].key : i \in 1 .. n} \union {file[n + 1].key}
    BY <2>2, Zenon
  <2> QED
    BY <2>1, <2>3
<1>2. ASSUME NEW x \in Keys
      PROVE  At(x, n + 1) = At(x, n)
  <2>1. \E i \in 1 .. n : file[i].key = x /\ \A j \in 1 .. i - 1 : file[j].key # x
    BY <1>0
  <2>2. PICK i \in 1 .. n : Is(x, i)
    BY <2>1, Zenon
  <2>3. \A k \in 1 .. n + 1 : Is(x, k) => k = i
    <3> TAKE k \in 1 .. n + 1
    <3>1. k < i => k \in 1 .. i - 1
      BY <2>2
    <3>2. i < k => i \in 1 .. k - 1
      BY <2>2
    <3>3. k \in Int /\ i \in Int
      OBVIOUS
    <3> QED
      BY <2>2, <3>1, <3>2, <3>3
  <2>4. i \in 1 .. n + 1
    BY <2>2
  <2> HIDE DEF Is
  <2>5. (CHOOSE k \in 1 .. n : Is(x, k)) = i
    BY <2>2, <2>3
  <2>6. (CHOOSE k \in 1 .. n + 1 : Is(x, k)) = i
    BY <2>2, <2>3, <2>4
  <2> QED
    BY <2>5, <2>6
<1>3. last \notin Keys => At(last, n + 1) = file[n + 1].id
  <2> SUFFICES ASSUME last \notin Keys
               PROVE  At(last, n + 1) = file[n + 1].id
    OBVIOUS
  <2>1. \A k \in 1 .. n : file[k].key # last
    OBVIOUS
  <2>2. Is(last, n + 1) /\ n + 1 \in 1 .. n + 1
    BY <2>1
  <2>3. \A k \in 1 .. n + 1 : Is(last, k) => k = n + 1
    BY <2>1
  <2> HIDE DEF Is, last
  <2>4. (CHOOSE k \in 1 .. n + 1 : Is(last, k)) = n + 1
    BY <2>2, <2>3
  <2> QED
    BY <2>4
<1>4. Table(file, n) = [x \in Keys |-> At(x, n)]
  BY DEF Table
<1>5. Table(file, n + 1) = [x \in Keys \union {last} |-> At(x, n + 1)]
  BY <1>1 DEF Table
<1>6. Insert(Table(file, n), last, file[n + 1].id)
        = [x \in Keys \union {last} |-> IF x \in Keys THEN At(x, n) ELSE file[n + 1].id]
  <2> HIDE DEF Keys, At, last
  <2> QED
    BY <1>4 DEF Insert
<1>7. ASSUME NEW x \in Keys \union {last}
      PROVE  At(x, n + 1) = IF x \in Keys THEN At(x, n) ELSE file[n + 1].id
  <2> HIDE DEF Keys, At, last
  <2> QED
    BY <1>2, <1>3
<1> HIDE DEF Keys, At, last
<1>8. Table(file, n + 1) = Insert(Table(file, n), last, file[n + 1].id)
  BY <1>5, <1>6, <1>7
<1> QED
  BY <1>8 DEF last

\* Of no entries it is empty.
LEMMA TableStarts == \A file : Table(file, 0) = NoMap
<1> TAKE file
<1>1. {file[i].key : i \in 1 .. 0} = {}
  OBVIOUS
<1> QED
  BY <1>1 DEF Table, NoMap

\* Every entry a loader reads brings the table to that of one entry more.
LEMMA LoadedStep == FilesOK /\ DecodeTypeOK /\ Loaded /\ [DecodeNext]_decodeVars => Loaded'
<1> SUFFICES ASSUME FilesOK, DecodeTypeOK, Loaded, [DecodeNext]_decodeVars
             PROVE  Loaded'
  OBVIOUS
<1>1. CASE map_ip_bus /\ Reads(ipFile)
  <2>1. /\ pc = "map_ip_bus" /\ ipFile # Missing /\ pos \in DOMAIN ipFile
        /\ pos' = pos + 1
        /\ id' = IF ipFile[pos].id = Text THEN id ELSE ipFile[pos].id
        /\ UNCHANGED <<ipFile, codeFile>>
    BY <1>1 DEF map_ip_bus, Reads
  <2>2. Len(ipFile) \in Nat /\ DOMAIN ipFile = 1 .. Len(ipFile)
    BY <2>1, IpEntries
  <2>3. pc' = pc /\ codemap' = codemap
    BY <1>1, <2>1, <2>2 DEF map_ip_bus, Ends, Crashes
  <2>4. Readable(ipFile) => ipmap' = Table(ipFile, pos)
    <3> SUFFICES ASSUME Readable(ipFile)
                 PROVE  ipmap' = Table(ipFile, pos)
      OBVIOUS
    <3>1. pos > 1 => pos - 1 \in DOMAIN ipFile
      BY <2>1, <2>2
    <3>2. ipFile[pos].id # Text /\ ~(pos > 1 /\ ipFile[pos - 1].id = Text)
      BY <2>1, <3>1 DEF Readable
    <3>3. ipmap' = Insert(ipmap, ipFile[pos].key, ipFile[pos].id)
      BY <1>1, <2>1, <2>2, <3>2 DEF map_ip_bus, Ends, Crashes
    <3>4. ipmap = Table(ipFile, pos - 1)
      BY <2>1 DEF Loaded
    <3>5. pos - 1 \in Nat /\ (pos - 1) + 1 = pos
      BY <2>1, <2>2
    <3>6. Table(ipFile, pos) = Insert(Table(ipFile, pos - 1), ipFile[pos].key, ipFile[pos].id)
      BY <3>5, TableGrows
    <3> QED
      BY <3>3, <3>4, <3>6
  <2>5. pos' - 1 = pos /\ pos' > 0
    BY <2>1, <2>2
  <2>6. codemap = NoMap
    BY <2>1 DEF Loaded
  <2> QED
    BY <2>1, <2>3, <2>4, <2>5, <2>6 DEF Loaded
<1>2. CASE map_ip_bus /\ Ends(ipFile, "map_zx_code")
  <2>1. /\ pc = "map_ip_bus" /\ ipFile # Missing /\ pos = Len(ipFile) + 1
        /\ pc' = "map_zx_code" /\ pos' = 1
        /\ UNCHANGED <<ipFile, codeFile, ipmap, codemap>>
    BY <1>2 DEF map_ip_bus, Ends
  <2>2. Len(ipFile) \in Nat
    BY <2>1, IpEntries
  <2>3. Readable(ipFile) => ipmap' = Table(ipFile, Len(ipFile))
    <3>1. pos - 1 = Len(ipFile)
      BY <2>1, <2>2
    <3> QED
      BY <2>1, <3>1 DEF Loaded
  <2>4. codemap' = Table(codeFile, 0)
    BY <2>1, TableStarts DEF Loaded
  <2>5. pos' - 1 = 0 /\ pos' > 0 /\ \A k \in 1 .. 0 : FALSE
    BY <2>1
  <2> QED
    BY <2>1, <2>3, <2>4, <2>5 DEF Loaded
<1>3. CASE map_ip_bus /\ Crashes(ipFile)
  <2>1. /\ ipFile = Missing /\ pc' = "crashed"
        /\ UNCHANGED <<ipFile, codeFile>>
    BY <1>3 DEF map_ip_bus, Crashes
  <2> QED
    BY <2>1 DEF Loaded, Readable
<1>4. CASE map_zx_code /\ Reads(codeFile)
  <2>1. /\ pc = "map_zx_code" /\ codeFile # Missing /\ pos \in DOMAIN codeFile
        /\ pos' = pos + 1
        /\ id' = IF codeFile[pos].id = Text THEN id ELSE codeFile[pos].id
        /\ UNCHANGED <<ipFile, codeFile>>
    BY <1>4 DEF map_zx_code, Reads
  <2>2. Len(codeFile) \in Nat /\ DOMAIN codeFile = 1 .. Len(codeFile)
    BY <2>1, CodeEntries
  <2>3. /\ pc' = IF codeFile[pos].id = Text THEN "spins" ELSE pc
        /\ codemap' = Insert(codemap, codeFile[pos].key, id') /\ ipmap' = ipmap
    BY <1>4, <2>1, <2>2 DEF map_zx_code, Ends, Crashes
  <2>4. ipFile # Missing /\ (Readable(ipFile) => ipmap' = Table(ipFile, Len(ipFile)))
    BY <2>1, <2>3 DEF Loaded
  <2>5. CASE codeFile[pos].id = Text
    <3>1. pc' = "spins" /\ ~Readable(codeFile)
      BY <2>1, <2>3, <2>5 DEF Readable
    <3> QED
      BY <2>1, <2>4, <3>1 DEF Loaded
  <2>6. CASE codeFile[pos].id # Text
    <3>1. pc' = "map_zx_code" /\ codemap' = Insert(codemap, codeFile[pos].key, codeFile[pos].id)
      BY <2>1, <2>3, <2>6
    <3>2. codemap = Table(codeFile, pos - 1) /\ \A k \in 1 .. pos - 1 : codeFile[k].id # Text
      BY <2>1 DEF Loaded
    <3>3. pos - 1 \in Nat /\ (pos - 1) + 1 = pos /\ pos' - 1 = pos /\ pos' > 0
      BY <2>1, <2>2
    <3>4. codemap' = Table(codeFile, pos)
      BY <3>1, <3>2, <3>3, TableGrows
    <3>5. \A k \in 1 .. pos : codeFile[k].id # Text
      <4>1. \A k \in 1 .. pos : k = pos \/ k \in 1 .. pos - 1
        BY <2>1, <2>2
      <4> QED
        BY <2>6, <3>2, <4>1
    <3> QED
      BY <2>1, <2>4, <3>1, <3>3, <3>4, <3>5 DEF Loaded
  <2> QED
    BY <2>5, <2>6
<1>5. CASE map_zx_code /\ Ends(codeFile, "session")
  <2>1. /\ pc = "map_zx_code" /\ codeFile # Missing /\ pos = Len(codeFile) + 1
        /\ pc' = "session"
        /\ UNCHANGED <<ipFile, codeFile, ipmap, codemap>>
    BY <1>5 DEF map_zx_code, Ends
  <2>2. Len(codeFile) \in Nat /\ DOMAIN codeFile = 1 .. Len(codeFile)
    BY <2>1, CodeEntries
  <2>3. pos - 1 = Len(codeFile)
    BY <2>1, <2>2
  <2>4. Readable(codeFile) /\ codemap' = Table(codeFile, Len(codeFile))
    BY <2>1, <2>2, <2>3 DEF Loaded, Readable
  <2>5. ipFile # Missing /\ (Readable(ipFile) => ipmap' = Table(ipFile, Len(ipFile)))
    BY <2>1 DEF Loaded
  <2>6. Readable(codeFile)' /\ (Readable(ipFile)' => Readable(ipFile))
    BY <2>1, <2>4 DEF Readable
  <2> QED
    BY <2>1, <2>4, <2>5, <2>6 DEF Loaded
<1>6. CASE map_zx_code /\ Crashes(codeFile)
  <2>1. /\ pc = "map_zx_code" /\ codeFile = Missing /\ pc' = "crashed"
        /\ UNCHANGED <<ipFile, codeFile, ipmap, codemap>>
    BY <1>6 DEF map_zx_code, Crashes
  <2> QED
    BY <2>1 DEF Loaded, Readable
<1>7. ASSUME NEW v \in Varbinds, Vb(v)
      PROVE  Loaded'
  <2>1. pc' = pc /\ UNCHANGED <<ipFile, codeFile, pos, ipmap, codemap>>
    BY <1>7 DEF Vb, files
  <2> QED
    BY <2>1 DEF Loaded, Readable
<1>8. CASE Report \/ Ignore
  <2>1. /\ pc = "loop" /\ pc' \in {"end", "ignored"}
        /\ UNCHANGED <<ipFile, codeFile, pos, ipmap, codemap>>
    BY <1>8 DEF Report, Ignore, files
  <2> QED
    BY <2>1 DEF Loaded, Readable
<1>9. CASE Session
  <2>1. /\ pc = "session" /\ pc' \in {"loop", "returned"}
        /\ UNCHANGED <<ipFile, codeFile, pos, ipmap, codemap>>
    BY <1>9 DEF Session, files
  <2> QED
    BY <2>1 DEF Loaded, Readable
<1>10. CASE UNCHANGED decodeVars
  BY <1>10 DEF Loaded, Readable, decodeVars, files
<1> QED
  BY <1>1, <1>2, <1>3, <1>4, <1>5, <1>6, <1>7, <1>8, <1>9, <1>10
  DEF DecodeNext, map_ip_bus, map_zx_code

-----------------------------------------------------------------------------
(* The varbinds.                                                           *)

\* A varbind is of one of five kinds.
LEMMA Kinds ==
  ASSUME NEW v \in Varbinds
  PROVE  /\ v.oid \in {"SSYS", "ATIME", "ACODE", "ZXIP", "SLOT"}
         /\ v.oid = "SSYS" => v.value \in Systems
         /\ v.oid = "ACODE" => v.value \in Codes
  BY DEF Varbinds

\* A varbind keeps the types.
LEMMA VbType ==
  ASSUME DecodeTypeOK, Orderly, FilesOK, NEW v \in Varbinds, Vb(v)
  PROVE  DecodeTypeOK' /\ Orderly' /\ FilesOK'
<1>1. vbs' \in Seq(Varbinds)
  <2>1. vbs \in Seq(Varbinds) /\ vbs' = Append(vbs, v)
    BY DEF DecodeTypeOK, Vb
  <2> QED
    BY <2>1
<1>2. UNCHANGED <<files, heartip, pc>> /\ pc = "loop"
  BY DEF Vb
<1>3. son_sys' \in Ngn \union Zxmp \union {0}
  <2>1. son_sys' = son_sys \/ son_sys' = SystemOf(v.value)
    BY DEF Vb, Ssys, Atime, AcodeVb, Zxip, Slot
  <2>2. SystemOf(v.value) \in {401, 414, 425, 12, 1, son_sys}
    BY DEF SystemOf
  <2> QED
    BY <2>1, <2>2 DEF DecodeTypeOK, Ngn, Zxmp
<1>4. acode1' \in Codes \union {<<0>>}
  BY Kinds DEF Vb, Ssys, Atime, AcodeVb, Zxip, Slot, DecodeTypeOK
<1> QED
  BY <1>1, <1>2, <1>3, <1>4 DEF DecodeTypeOK, Orderly, FilesOK, files

\* Before the subsystem is named it is 0, and nothing is said late.
LEMMA Unnamed ==
  ASSUME Said("SSYS") = {}
  PROVE  Named = 0
<1>1. {Number(n) : n \in Said("SSYS")} = {}
  OBVIOUS
<1> QED
  BY <1>1, NoneThere DEF Named

LEMMA UnnamedLate ==
  ASSUME DecodeTypeOK, Said("SSYS") = {}, NEW o
  PROVE  SaidLate(o) = {}
<1>1. \A j \in DOMAIN vbs : vbs[j].oid # "SSYS"
  BY DEF Said
<1>2. vbs \in Seq(Varbinds) /\ DOMAIN vbs = 1 .. Len(vbs) /\ Len(vbs) \in Nat
  BY DEF DecodeTypeOK
<1>3. \A j \in DOMAIN vbs : 1 .. j - 1 \subseteq DOMAIN vbs
  BY <1>2
<1> QED
  BY <1>1, <1>3 DEF SaidLate

\* The number a name stands for, where none was taken yet.
LEMMA NumberOf ==
  ASSUME NEW n \in Systems, heartip \in {"7cs", "gcs", "other"}, son_sys = 0
  PROVE  SystemOf(n) = Number(n)
<1>1. CASE n = "ZXMP S385"
  BY <1>1 DEF SystemOf, Number
<1>2. CASE n = "unknown"
  BY <1>2 DEF SystemOf, Number
<1>3. CASE n \in {"ngn_ss", "ngn_msg9000", "MSAG5200V3"}
  BY <1>3 DEF SystemOf, Number
<1> QED
  BY <1>1, <1>2, <1>3 DEF Systems

\* The platform named is the one in son_sys.
LEMMA VbNamed ==
  ASSUME DecodeTypeOK, NEW v \in Varbinds, Vb(v), son_sys = Named
  PROVE  /\ son_sys' = Named'
         /\ v.oid # "SSYS" => son_sys' = son_sys
         /\ v.oid = "SSYS" => son_sys = 0
<1>1. heartip' = heartip /\ heartip \in {"7cs", "gcs", "other"}
  BY DEF Vb, DecodeTypeOK
<1>2. CASE v.oid = "SSYS"
  <2>1. Said("SSYS") = {} /\ Said("SSYS")' = {v.value}
    BY <1>2, SaidMore
  <2>2. son_sys = 0
    BY <2>1, Unnamed
  <2>3. son_sys' = SystemOf(v.value) /\ v.value \in Systems
    BY <1>2, Kinds DEF Vb, Ssys, Atime, AcodeVb, Zxip, Slot
  <2>4. SystemOf(v.value) = Number(v.value) /\ Number(v.value)' = Number(v.value)
    <3>1. SystemOf(v.value) = Number(v.value)
      BY <1>1, <2>2, <2>3, NumberOf
    <3>2. Number(v.value)' = Number(v.value)
      BY <1>1 DEF Number
    <3> QED
      BY <3>1, <3>2
  <2>5. {Number(n)' : n \in Said("SSYS")'} = {Number(v.value)'}
    BY <2>1
  <2>6. Named' = Number(v.value)'
    BY <2>5, OnlyOne DEF Named
  <2> QED
    BY <1>2, <2>2, <2>3, <2>4, <2>6
<1>3. CASE v.oid # "SSYS"
  <2>1. Said("SSYS")' = Said("SSYS")
    BY <1>3, SaidMore
  <2>2. \A n : Number(n)' = Number(n)
    BY <1>1 DEF Number
  <2>3. Named' = Named
    BY <2>1, <2>2 DEF Named
  <2>4. son_sys' = son_sys
    BY <1>3 DEF Vb, Ssys, Atime, AcodeVb, Zxip, Slot
  <2> QED
    BY <1>3, <2>3, <2>4
<1> QED
  BY <1>2, <1>3

\* A varbind leaves in callback's variables what it says.
LEMMA VbDecoded ==
  ASSUME DecodeTypeOK, NEW v \in Varbinds, Vb(v), Decoded
  PROVE  Decoded'
<1>1. /\ son_sys' = Named'
      /\ v.oid # "SSYS" => son_sys' = son_sys
      /\ v.oid = "SSYS" => son_sys = 0
  BY VbNamed DEF Decoded
<1>2. UNCHANGED <<ipmap, heartip>>
  BY DEF Vb, files
<1>3. /\ Said(v.oid) = {} /\ SaidLate(v.oid) = {}
      /\ \A o : Said(o)' = IF o = v.oid THEN {v.value} ELSE Said(o)
      /\ \A o : SaidLate(o)' = IF o = v.oid /\ Said("SSYS") # {} THEN {v.value}
                               ELSE SaidLate(o)
  BY SaidMore
<1>4. Ssys(v) \/ Atime(v) \/ AcodeVb(v) \/ Zxip(v) \/ Slot(v)
  BY DEF Vb
<1>5. IF Said("ACODE")' = {} THEN acode1' = <<0>> ELSE Said("ACODE")' = {acode1'}
  <2>1. CASE v.oid = "ACODE"
    <3>1. acode1' = v.value /\ Said("ACODE")' = {v.value}
      BY <1>3, <1>4, <2>1 DEF Ssys, Atime, AcodeVb, Zxip, Slot
    <3> QED
      BY <3>1
  <2>2. CASE v.oid # "ACODE"
    <3>1. acode1' = acode1 /\ Said("ACODE")' = Said("ACODE")
      BY <1>3, <1>4, <2>2 DEF Ssys, Atime, AcodeVb, Zxip, Slot
    <3> QED
      BY <3>1 DEF Decoded
  <2> QED
    BY <2>1, <2>2
<1>6. atime' = The(Said("ATIME")', Stack)
  <2>1. CASE v.oid = "ATIME"
    <3>1. atime' = v.value /\ Said("ATIME")' = {v.value}
      BY <1>3, <1>4, <2>1 DEF Ssys, Atime, AcodeVb, Zxip, Slot
    <3> QED
      BY <3>1, OnlyOne
  <2>2. CASE v.oid # "ATIME"
    <3>1. atime' = atime /\ Said("ATIME")' = Said("ATIME")
      BY <1>3, <1>4, <2>2 DEF Ssys, Atime, AcodeVb, Zxip, Slot
    <3> QED
      BY <3>1 DEF Decoded
  <2> QED
    BY <2>1, <2>2
<1>7. bus' = The({Station(a)' : a \in Said("ZXIP")'}, 0)
  <2>1. \A a : Station(a)' = Station(a)
    BY <1>2 DEF Station
  <2>2. CASE v.oid = "ZXIP"
    <3>1. bus' = Station(v.value) /\ Said("ZXIP")' = {v.value}
      BY <1>3, <1>4, <2>2 DEF Ssys, Atime, AcodeVb, Zxip, Slot, Station
    <3>2. {Station(a)' : a \in Said("ZXIP")'} = {Station(v.value)'}
      BY <3>1
    <3> QED
      BY <2>1, <3>1, <3>2, OnlyOne
  <2>3. CASE v.oid # "ZXIP"
    <3>1. bus' = bus /\ Said("ZXIP")' = Said("ZXIP")
      BY <1>3, <1>4, <2>3 DEF Ssys, Atime, AcodeVb, Zxip, Slot
    <3> QED
      BY <2>1, <3>1 DEF Decoded
  <2> QED
    BY <2>2, <2>3
<1>8. ASSUME Said("SSYS")' = {}
      PROVE  jk' = << >> /\ cw' = << >>
  <2>1. Said("SSYS") = {} /\ v.oid # "SSYS"
    BY <1>3, <1>8
  <2>2. son_sys = 0 /\ jk = << >> /\ cw = << >>
    BY <2>1, Unnamed DEF Decoded
  <2> QED
    BY <1>4, <2>2, <2>1 DEF Ssys, Atime, AcodeVb, Zxip, Slot, Ngn, Zxmp
<1>9. ASSUME son_sys' # 0
      PROVE  /\ jk' = IF son_sys' \in Ngn
                      THEN The({Rack[son_sys'] : s \in SaidLate("SLOT")'}, << >>)
                      ELSE The({<<a>> : a \in SaidLate("ZXIP")'}, << >>)
             /\ cw' = << >> <=> SaidLate("SLOT")' = {}
  <2>1. CASE v.oid = "SSYS"
    <3>1. Said("SSYS") = {} /\ \A o : SaidLate(o)' = {}
      BY <1>3, <2>1, UnnamedLate
    <3>2. jk' = << >> /\ cw' = << >>
      BY <1>4, <2>1, <3>1 DEF Ssys, Atime, AcodeVb, Zxip, Slot, Decoded
    <3>3. /\ {Rack[son_sys'] : s \in SaidLate("SLOT")'} = {}
          /\ {<<a>> : a \in SaidLate("ZXIP")'} = {}
      BY <3>1
    <3> QED
      BY <3>1, <3>2, <3>3, NoneThere
  <2>2. CASE v.oid # "SSYS"
    <3>1. son_sys' = son_sys /\ son_sys # 0 /\ son_sys \in Ngn \union Zxmp
      BY <1>1, <1>9, <2>2 DEF DecodeTypeOK
    <3>2. Said("SSYS") # {}
      BY <3>1, Unnamed DEF Decoded
    <3>3. /\ jk = IF son_sys \in Ngn
                  THEN The({Rack[son_sys] : s \in SaidLate("SLOT")}, << >>)
                  ELSE The({<<a>> : a \in SaidLate("ZXIP")}, << >>)
          /\ cw = << >> <=> SaidLate("SLOT") = {}
      BY <3>1 DEF Decoded
    <3>4. CASE v.oid = "SLOT"
      <4>1. SaidLate("SLOT")' = {v.value} /\ SaidLate("ZXIP")' = SaidLate("ZXIP")
        BY <1>3, <3>2, <3>4
      <4>2. /\ jk' = IF son_sys \in Ngn THEN Rack[son_sys] ELSE jk
            /\ cw' # << >>
        <5>1. Slot(v)
          BY <1>4, <3>4 DEF Ssys, Atime, AcodeVb, Zxip
        <5>2. jk' = IF son_sys \in Ngn THEN Rack[son_sys] ELSE jk
          BY <5>1 DEF Slot
        <5>3. \/ cw' = <<"rack", "board">>
              \/ cw' = <<0, 0>>
              \/ cw' = <<v.value>>
          BY <3>1, <5>1 DEF Slot
        <5> QED
          BY <5>2, <5>3
      <4>3. {Rack[son_sys'] : s \in SaidLate("SLOT")'} = {Rack[son_sys]}
        BY <3>1, <4>1
      <4> QED
        BY <3>1, <3>3, <4>1, <4>2, <4>3, OnlyOne
    <3>5. CASE v.oid = "ZXIP"
      <4>1. SaidLate("ZXIP")' = {v.value} /\ SaidLate("SLOT")' = SaidLate("SLOT")
        BY <1>3, <3>2, <3>5
      <4>2. /\ jk' = IF son_sys \in Ngn THEN jk ELSE <<v.value>>
            /\ cw' = cw
        BY <1>4, <3>1, <3>5 DEF Ssys, Atime, AcodeVb, Zxip, Slot, Ngn, Zxmp
      <4>3. The({<<a>> : a \in SaidLate("ZXIP")'}, << >>) = <<v.value>>
        <5>1. {<<a>> : a \in SaidLate("ZXIP")'} = {<<v.value>>}
          BY <4>1
        <5> QED
          BY <5>1, OnlyOne
      <4>4. CASE son_sys \in Ngn
        BY <3>1, <3>3, <4>1, <4>2, <4>4
      <4>5. CASE son_sys \notin Ngn
        BY <3>1, <3>3, <4>1, <4>2, <4>3, <4>5
      <4> QED
        BY <4>4, <4>5
    <3>6. CASE v.oid \notin {"SLOT", "ZXIP"}
      <4>1. /\ SaidLate("ZXIP")' = SaidLate("ZXIP")
            /\ SaidLate("SLOT")' = SaidLate("SLOT")
        BY <1>3, <3>6
      <4>2. jk' = jk /\ cw' = cw
        BY <1>4, <2>2, <3>6 DEF Ssys, Atime, AcodeVb, Zxip, Slot
      <4> QED
        BY <3>1, <3>3, <4>1, <4>2
    <3> QED
      BY <3>4, <3>5, <3>6
  <2> QED
    BY <2>1, <2>2
<1> QED
  BY <1>1, <1>5, <1>6, <1>7, <1>8, <1>9 DEF Decoded

-----------------------------------------------------------------------------
(* The record.                                                             *)

\* What was decoded stays decoded while what it is made of stays.
LEMMA DecodedKept ==
  ASSUME Decoded, UNCHANGED <<locals, ipmap, heartip, vbs>>
  PROVE  Decoded'
<1>1. UNCHANGED <<son_sys, bus, jk, cw, acode1, atime>>
  BY DEF locals
<1>2. \A o : Said(o)' = Said(o) /\ SaidLate(o)' = SaidLate(o)
  BY DEF Said, SaidLate
<1>3. \A n : Number(n)' = Number(n) /\ Station(n)' = Station(n)
  BY DEF Number, Station
<1>4. Named' = Named
  BY <1>2, <1>3 DEF Named
<1>5. {Station(a)' : a \in Said("ZXIP")'} = {Station(a) : a \in Said("ZXIP")}
  BY <1>2, <1>3
<1> QED
  BY <1>1, <1>2, <1>4, <1>5 DEF Decoded

\* Before a varbind has come, callback's variables are as they were declared.
LEMMA NothingDecoded ==
  ASSUME vbs = << >>
  PROVE  Decoded <=> /\ son_sys = 0 /\ acode1 = <<0>> /\ atime = Stack /\ bus = 0
                     /\ jk = << >> /\ cw = << >>
<1>1. \A o : Said(o) = {} /\ SaidLate(o) = {}
  BY SaidNothing
<1>2. Named = 0
  BY <1>1, Unnamed
<1>3. {Station(a) : a \in Said("ZXIP")} = {}
  BY <1>1
<1>4. \A d : The({}, d) = d
  BY NoneThere
<1> QED
  BY <1>1, <1>2, <1>3, <1>4 DEF Decoded

\* ... and so it is while the tables are read.
LEMMA NothingStays ==
  ASSUME vbs' = << >>
  PROVE  (/\ son_sys' = 0 /\ acode1' = <<0>> /\ atime' = Stack /\ bus' = 0
          /\ jk' = << >> /\ cw' = << >>) => Decoded'
<1>1. \A o : Said(o)' = {} /\ SaidLate(o)' = {}
  BY DEF Said, SaidLate
<1>2. {Number(n)' : n \in Said("SSYS")'} = {} /\ {Station(a)' : a \in Said("ZXIP")'} = {}
  BY <1>1
<1>3. \A d : The({}, d) = d
  BY NoneThere
<1>4. Named' = 0
  BY <1>2, <1>3 DEF Named
<1> QED
  BY <1>1, <1>2, <1>3, <1>4 DEF Decoded

\* The record made of what was decoded says what the trap said.
LEMMA ReportSays ==
  ASSUME DecodeTypeOK, Decoded, Report
  PROVE  DecodesAsSaid'
<1> SUFFICES ASSUME record' # NoRecord
             PROVE  DecodesAsSaid'
  BY DEF DecodesAsSaid, NoRecord
<1>1. UNCHANGED <<locals, ipmap, codemap, heartip, vbs>>
  BY DEF Report, files
<1>2. Decoded'
  BY <1>1, DecodedKept
<1>3. /\ record' = Record(codeflag')
      /\ UNCHANGED <<son_sys, bus, jk, cw, acode1, atime, codemap>>
  BY <1>1 DEF Report, locals
<1>4. Acode(codeflag') # 0
  BY <1>3 DEF Record
<1>5. /\ record' = [son_sys |-> IF son_sys \in Ngn THEN 2 ELSE son_sys, stop |-> bus,
                    eng |-> jk, node |-> cw, bug |-> Acode(codeflag'), time |-> atime]
      /\ son_sys # 0 /\ Acode(codeflag') = codemap[lcode] - codeflag'
  BY <1>3, <1>4 DEF Record, Acode
<1>6. /\ record'.son_sys = IF son_sys \in Ngn THEN 2 ELSE son_sys
      /\ record'.stop = bus /\ record'.eng = jk /\ record'.node = cw
      /\ record'.bug = codemap[lcode] - codeflag' /\ record'.time = atime
  BY <1>5
<1>7. Said("ACODE")' # {} => record'.bug = codemap'[Key'] - codeflag'
  <2>1. ASSUME Said("ACODE")' # {}
        PROVE  lcode = Key'
    <3>1. Said("ACODE")' = {acode1'} /\ son_sys' = Named'
      BY <1>2, <2>1 DEF Decoded
    <3>2. {IF Named' \in Ngn THEN Prefix[Named'] \o c ELSE c : c \in Said("ACODE")'}
            = {IF Named' \in Ngn THEN Prefix[Named'] \o acode1' ELSE acode1'}
      BY <3>1
    <3>3. Key' = IF Named' \in Ngn THEN Prefix[Named'] \o acode1' ELSE acode1'
      BY <3>2, OnlyOne DEF Key
    <3> QED
      BY <1>3, <3>1, <3>3 DEF lcode
  <2> QED
    BY <1>3, <1>6, <2>1
<1>8. son_sys' = Named' /\ son_sys' # 0
  BY <1>2, <1>3, <1>5 DEF Decoded
<1>9. /\ atime' = The(Said("ATIME")', Stack)
      /\ bus' = The({Station(a)' : a \in Said("ZXIP")'}, 0)
      /\ jk' = IF son_sys' \in Ngn
               THEN The({Rack[son_sys'] : s \in SaidLate("SLOT")'}, << >>)
               ELSE The({<<a>> : a \in SaidLate("ZXIP")'}, << >>)
      /\ cw' = << >> <=> SaidLate("SLOT")' = {}
  BY <1>2, <1>8 DEF Decoded
<1> QED
  BY <1>3, <1>6, <1>7, <1>8, <1>9 DEF DecodesAsSaid

-----------------------------------------------------------------------------
(* The theorems about a trap.                                             *)

LEMMA DecodeStarts == DecodeInit => FilesOK /\ DecodeInv
<1> SUFFICES ASSUME DecodeInit
             PROVE  FilesOK /\ DecodeInv
  OBVIOUS
<1>1. FilesOK
  BY DEF DecodeInit, FilesOK
<1>2. vbs \in Seq(Varbinds)
  BY EmptySeq DEF DecodeInit
<1>3. DecodeTypeOK
  BY <1>2 DEF DecodeInit, DecodeTypeOK, NoMap
<1>4. Orderly
  BY DEF DecodeInit, Orderly, NoMap
<1>5. Decoded
  BY NothingDecoded DEF DecodeInit
<1>6. DecodesAsSaid
  BY DEF DecodeInit, DecodesAsSaid
<1>7. Loaded
  <2>1. /\ pc = "map_ip_bus" /\ pos = 1 /\ ipmap = NoMap /\ codemap = NoMap
        /\ pos - 1 = 0
    BY DEF DecodeInit
  <2> QED
    BY <2>1, TableStarts DEF Loaded
<1> QED
  BY <1>1, <1>3, <1>4, <1>5, <1>6, <1>7 DEF DecodeInv

\* Whatever the two files hold and in whatever order the varbinds of a trap come,
\* callback turns it into the record it stands for.
THEOREM DecodeInvariance == DecodeSpec => []DecodeInv
<1>1. FilesOK /\ DecodeInv /\ [DecodeNext]_decodeVars => FilesOK' /\ DecodeInv'
  <2> SUFFICES ASSUME FilesOK, DecodeTypeOK, Orderly, Loaded, Decoded, DecodesAsSaid,
                      [DecodeNext]_decodeVars
               PROVE  FilesOK' /\ DecodeInv'
    BY DEF DecodeInv
  <2>0. Loaded'
    BY LoadedStep
  <2>1. CASE map_ip_bus \/ map_zx_code
    <3>1. /\ DecodeTypeOK' /\ Orderly' /\ FilesOK' /\ pc' # "end"
          /\ vbs = << >> /\ UNCHANGED <<trap, locals>>
      BY <2>1, LoadStep
    <3>2. vbs' = << >> /\ UNCHANGED <<son_sys, bus, jk, cw, acode1, atime>>
      BY <3>1 DEF trap, locals
    <3>3. son_sys = 0 /\ acode1 = <<0>> /\ atime = Stack /\ bus = 0
          /\ jk = << >> /\ cw = << >>
      BY <3>1, NothingDecoded
    <3>4. Decoded'
      BY <3>2, <3>3, NothingStays
    <3> QED
      BY <2>0, <3>1, <3>4 DEF DecodeInv, DecodesAsSaid
  <2>2. ASSUME NEW v \in Varbinds, Vb(v)
        PROVE  FilesOK' /\ DecodeInv'
    <3>1. pc' = "loop"
      BY <2>2 DEF Vb
    <3> QED
      BY <2>0, <2>2, <3>1, VbType, VbDecoded DEF DecodeInv, DecodesAsSaid
  <2>3. CASE Report
    <3>1. UNCHANGED <<files, heartip, vbs, locals>> /\ pc' = "end"
      BY <2>3 DEF Report
    <3>2. FilesOK' /\ DecodeTypeOK' /\ Orderly'
      BY <3>1 DEF FilesOK, DecodeTypeOK, Orderly, files, locals
    <3>3. Decoded'
      BY <3>1, DecodedKept DEF files
    <3> QED
      BY <2>0, <2>3, <3>2, <3>3, ReportSays DEF DecodeInv
  <2>4. CASE Ignore
    <3>1. UNCHANGED <<files, trap, locals>> /\ pc' = "ignored"
      BY <2>4 DEF Ignore
    <3>2. FilesOK' /\ DecodeTypeOK' /\ Orderly'
      BY <3>1 DEF FilesOK, DecodeTypeOK, Orderly, files, locals, trap
    <3>3. Decoded'
      BY <3>1, DecodedKept DEF files, trap
    <3> QED
      BY <2>0, <3>1, <3>2, <3>3 DEF DecodeInv, DecodesAsSaid
  <2>5. CASE Session
    <3>1. UNCHANGED <<files, trap, locals>> /\ pc = "session" /\ pc' \in {"loop", "returned"}
      BY <2>5 DEF Session
    <3>2. FilesOK' /\ DecodeTypeOK' /\ Orderly'
      BY <3>1 DEF FilesOK, DecodeTypeOK, Orderly, files, locals, trap
    <3>3. Decoded'
      BY <3>1, DecodedKept DEF files, trap
    <3> QED
      BY <2>0, <3>1, <3>2, <3>3 DEF DecodeInv, DecodesAsSaid
  <2>6. CASE UNCHANGED decodeVars
    <3>1. UNCHANGED <<pc, ipFile, codeFile, pos, id, ipmap, codemap, heartip, vbs,
                      codeflag, record, locals>>
      BY <2>6 DEF decodeVars, files, trap
    <3>2. FilesOK' /\ DecodeTypeOK' /\ Orderly'
      BY <3>1 DEF FilesOK, DecodeTypeOK, Orderly, locals
    <3>3. Decoded'
      BY <3>1, DecodedKept
    <3>4. DecodesAsSaid'
      <4>1. \A o : Said(o)' = Said(o) /\ SaidLate(o)' = SaidLate(o)
        BY <3>1 DEF Said, SaidLate
      <4>2. \A n : Number(n)' = Number(n) /\ Station(n)' = Station(n)
        BY <3>1 DEF Number, Station
      <4>3. Named' = Named
        BY <4>1, <4>2 DEF Named
      <4>4. Key' = Key
        BY <4>1, <4>3 DEF Key
      <4>5. {Station(a)' : a \in Said("ZXIP")'} = {Station(a) : a \in Said("ZXIP")}
        BY <4>1, <4>2
      <4> QED
        BY <3>1, <4>1, <4>3, <4>4, <4>5 DEF DecodesAsSaid
    <3> QED
      BY <2>0, <3>2, <3>3, <3>4 DEF DecodeInv
  <2> QED
    BY <2>1, <2>2, <2>3, <2>4, <2>5, <2>6 DEF DecodeNext
<1> QED
  BY DecodeStarts, <1>1, PTL DEF DecodeSpec

\* RecvSnmp listens, or returns for want of a session, only with the tables its two
\* files stand for, whatever keys are there twice; it spins only at a word in zxcode
\* and crashes only without a file: Listens but for coming there at all.
THEOREM ListensWithTables ==
  DecodeSpec =>
    [](/\ pc \in {"loop", "returned"} =>
            /\ codemap = Table(codeFile, Len(codeFile))
            /\ Readable(ipFile) => ipmap = Table(ipFile, Len(ipFile))
       /\ pc = "spins" => ~Readable(codeFile)
       /\ pc = "crashed" => Missing \in {ipFile, codeFile})
<1> DEFINE Safe ==
             /\ pc \in {"loop", "returned"} =>
                  /\ codemap = Table(codeFile, Len(codeFile))
                  /\ Readable(ipFile) => ipmap = Table(ipFile, Len(ipFile))
             /\ pc = "spins" => ~Readable(codeFile)
             /\ pc = "crashed" => Missing \in {ipFile, codeFile}
<1>1. DecodeInv => Safe
  BY DEF DecodeInv, Loaded
<1> QED
  BY DecodeInvariance, <1>1, PTL

\* A recovery is queued exactly when its alarm is, for every table of codes without
\* the ids 0 and 4096: the web server can always take an alarm back.
THEOREM RecoveriesMatch == DecodeSpec => []RecoveryMatches
<1>1. DecodeInv => RecoveryMatches
  <2> SUFFICES ASSUME DecodeInv, Acode(0) # 4096, lcode \in DOMAIN codemap => Acode(0) # 0
               PROVE  \/ Record(0) = NoRecord /\ Record(4096) = NoRecord
                      \/ /\ Record(0) # NoRecord
                         /\ Record(4096) = [Record(0) EXCEPT !.bug = @ - 4096]
    BY DEF RecoveryMatches
  <2>1. CASE son_sys = 0 \/ lcode \notin DOMAIN codemap
    BY <2>1 DEF Acode, Record
  <2>2. CASE son_sys # 0 /\ lcode \in DOMAIN codemap
    <3>1. codemap[lcode] \in Int
      BY <2>2 DEF DecodeInv, Orderly
    <3>2. /\ Acode(0) = codemap[lcode] /\ Acode(4096) = codemap[lcode] - 4096
          /\ Acode(0) # 0 /\ Acode(4096) # 0
      BY <2>2, <3>1 DEF Acode
    <3> DEFINE R(b) == [son_sys |-> IF son_sys \in Ngn THEN 2 ELSE son_sys, stop |-> bus,
                        eng |-> jk, node |-> cw, bug |-> b, time |-> atime]
    <3>3. Record(0) = R(codemap[lcode]) /\ Record(4096) = R(codemap[lcode] - 4096)
      BY <3>2 DEF Record
    <3>4. R(codemap[lcode]) # << >>
      OBVIOUS
    <3>5. R(codemap[lcode] - 4096) = [R(codemap[lcode]) EXCEPT !.bug = @ - 4096]
      OBVIOUS
    <3> QED
      BY <3>3, <3>4, <3>5 DEF NoRecord
  <2> QED
    BY <2>1, <2>2
<1> QED
  BY DecodeInvariance, <1>1, PTL

=============================================================================
