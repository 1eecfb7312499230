------------------------------ MODULE LampProofs ------------------------------
(***************************************************************************)
(* Proofs about Lamp: for any requests of the web server and any device,   *)
(* a signal Sig_light has not read is flagged, no cycle of flashing begins *)
(* that no request paid for, the siren is silent and the lamps are lit     *)
(* after a cycle, and never are both threads blocked in recvfrom.          *)
(***************************************************************************)
EXTENDS Lamp, TLAPS

\* A command leaves sets of lamps and of sirens.
LEMMA SendType ==
  ASSUME TypeOK, NEW t \in Users, NEW A, NEW B \in SUBSET Grades, NEW C, NEW D \in SUBSET Grades,
         Send(t, A, B, C, D)
  PROVE  /\ rw' \in [Users -> {"none", "select", "recvfrom"}]
         /\ lit' \subseteq Grades /\ siren' \subseteq Grades
  BY DEF TypeOK, Send

LEMMA LoudestType == ASSUME NEW S \in SUBSET Grades PROVE Loudest(S) \subseteq Grades
  BY DEF Loudest, Grades

LEMMA InitType == Init => TypeOK
  <1> SUFFICES ASSUME Init PROVE TypeOK
    OBVIOUS
  <1>1. Dark \in Signal /\ 0 \in 0 .. Flashes - 1
    BY LampAssumption DEF Dark, Signal
  <1>2. count \in [Grades -> Nat] /\ rw \in [Users -> {"none", "select", "recvfrom"}]
    BY DEF Init
  <1>3. wiped \in BOOLEAN
    BY DEF Init
  <1>4. inbox \in Seq(Datagram)
    BY DEF Init
  <1> QED BY <1>1, <1>2, <1>3, <1>4 DEF Init, TypeOK

-----------------------------------------------------------------------------
(* The types                                                               *)

LEMMA SigType ==
  ASSUME TypeOK, Sig_light PROVE TypeOK'
  <1>0. Users = {"Song", "Sig_light"} /\ {} \in SUBSET Grades /\ rgb.sirens \in SUBSET Grades
        /\ rgb1.lamps \in SUBSET Grades
    BY DEF Users, TypeOK, Signal
  <1>1. CASE Idle \/ Check \/ Reset \/ Restart \/ Clear
    <2>1. i' \in 0 .. Flashes - 1
      BY <1>1, LampAssumption DEF TypeOK, Idle, Check, Reset, Restart, Clear
    <2>2. control' \in {0, 1} /\ exit_flag' \in {0, 1} /\ rgb' = rgb /\ rgb1' = rgb1
      BY <1>1 DEF TypeOK, Idle, Check, Reset, Restart, Clear, flagVars
    <2>3. sig' \in {"idle", "todo", "off", "on", "check", "reset", "restart", "end", "clear"}
      BY <1>1 DEF Idle, Check, Reset, Restart, Clear
    <2>4. UNCHANGED <<rw, lit, siren, wiped, cycles>>
      BY <1>1 DEF Idle, Check, Reset, Restart, Clear, deviceVars
    <2> QED BY <2>1, <2>2, <2>3, <2>4 DEF Sig_light, TypeOK, songVars, historyVars
  <1>2. CASE Todo
    <2>1. /\ rw' \in [Users -> {"none", "select", "recvfrom"}]
          /\ lit' \subseteq Grades /\ siren' \subseteq Grades
      BY <1>0, <1>2, SendType, LoudestType DEF Todo
    <2>2. cycles' \in Nat
      BY <1>2 DEF Todo, TypeOK
    <2>3. 0 \in 0 .. Flashes - 1
      BY LampAssumption
    <2> QED BY <1>2, <2>1, <2>2, <2>3 DEF Todo, Sig_light, TypeOK, flagVars, songVars, historyVars
  <1>3. CASE Off \/ On \/ End
    <2>1. /\ rw' \in [Users -> {"none", "select", "recvfrom"}]
          /\ lit' \subseteq Grades /\ siren' \subseteq Grades
      BY <1>0, <1>3, SendType DEF Off, On, End, RGB_SC
    <2>2. wiped' \in BOOLEAN
      BY <1>3 DEF Off, On, End, TypeOK
    <2>3. sig' \in {"idle", "todo", "off", "on", "check", "reset", "restart", "end", "clear"}
      BY <1>3 DEF Off, On, End
    <2>4. UNCHANGED <<rgb, control, exit_flag, rgb1, i, cycles>>
      BY <1>3 DEF Off, On, End, flagVars
    <2> QED BY <2>1, <2>2, <2>3, <2>4 DEF Sig_light, TypeOK, songVars, historyVars
  <1> QED BY <1>1, <1>2, <1>3 DEF Sig_light

LEMMA ReceiveType ==
  ASSUME TypeOK, Receive PROVE TypeOK'
  <1>1. CASE ReceiveRing
    BY <1>1 DEF Receive, ReceiveRing, TypeOK, flagVars, sigVars, deviceVars
  <1>2. ASSUME NEW r \in Requests, ReceiveAlarms(r) PROVE TypeOK'
    <2>1. r.count \in [Grades -> Nat]
      BY LampAssumption DEF Request
    <2>2. [lamps |-> Risen(r), sirens |-> Risen(r) \cap r.sound] \in Signal
      BY DEF Risen, Signal
    <2>3. song' \in {"rgb", "cancel", "reply"}
      BY <1>2 DEF ReceiveAlarms
    <2>4. {alarms', cancels', others'} \subseteq Nat
      BY <1>2 DEF ReceiveAlarms, TypeOK
    <2>5. count' \in [Grades -> Nat] /\ rise' \in Signal
      BY <1>2, <2>1, <2>2 DEF ReceiveAlarms
    <2> QED BY <2>3, <2>4, <2>5 DEF Receive, TypeOK, flagVars, sigVars, deviceVars
  <1> QED BY <1>1, <1>2 DEF Receive

LEMMA SongType ==
  ASSUME TypeOK, Song PROVE TypeOK'
  <1>0. UNCHANGED <<count, rise>>
    BY DEF Song, Ring, SetRgb, SetControl, SetFlag, Wipe, Reply, Goto
  <1>1. CASE SetRgb \/ SetControl \/ SetFlag \/ Reply
    <2>1. rgb' \in Signal /\ control' \in {0, 1} /\ exit_flag' \in {0, 1}
      BY <1>1 DEF SetRgb, SetControl, SetFlag, Reply, TypeOK, flagVars
    <2>2. song' \in {"control", "flag", "cancelFlag", "wipe", "reply", "recv"}
      BY <1>1 DEF SetRgb, SetControl, SetFlag, Reply, Goto
    <2>3. UNCHANGED <<rw, lit, siren, wiped>>
      BY <1>1 DEF SetRgb, SetControl, SetFlag, Reply, deviceVars
    <2> QED BY <1>0, <2>1, <2>2, <2>3 DEF Song, TypeOK, sigVars, historyVars
  <1>2. CASE Ring \/ Wipe
    <2>1. "Song" \in Users /\ {} \in SUBSET Grades
      BY DEF Users
    <2>2. /\ rw' \in [Users -> {"none", "select", "recvfrom"}]
          /\ lit' \subseteq Grades /\ siren' \subseteq Grades
      BY <1>2, <2>1, SendType DEF Ring, Wipe, RGB_SC
    <2>3. wiped' \in BOOLEAN /\ UNCHANGED <<rgb, control, exit_flag>> /\ song' = "reply"
      BY <1>2 DEF Ring, Wipe, TypeOK, flagVars, Goto
    <2> QED BY <1>0, <2>2, <2>3 DEF Song, TypeOK, sigVars, historyVars
  <1> QED BY <1>1, <1>2 DEF Song

LEMMA DeviceType ==
  ASSUME TypeOK, (\E t \in Users : read_write_udp(t)) \/ (\E d \in Datagram : DeviceSends(d))
  PROVE  TypeOK'
  <1>1. ASSUME NEW t \in Users, read_write_udp(t) PROVE TypeOK'
    <2>1. inbox' \in Seq(Datagram)
      <3>1. inbox \in Seq(Datagram)
        BY DEF TypeOK
      <3>2. inbox # << >> => Tail(inbox) \in Seq(Datagram)
        BY <3>1
      <3> QED BY <1>1, <3>1, <3>2 DEF read_write_udp, Select, Recvfrom
    <2>2. rw' \in [Users -> {"none", "select", "recvfrom"}]
      BY <1>1 DEF TypeOK, read_write_udp, Select, Recvfrom
    <2>3. lit' = lit /\ siren' \subseteq Grades
      BY <1>1 DEF TypeOK, read_write_udp, Select, Recvfrom, deviceVars
    <2> QED BY <1>1, <2>1, <2>2, <2>3
            DEF TypeOK, read_write_udp, flagVars, songVars, sigVars, historyVars
  <1>2. ASSUME NEW d \in Datagram, DeviceSends(d) PROVE TypeOK'
    <2>1. inbox' \in Seq(Datagram)
      BY <1>2 DEF TypeOK, DeviceSends
    <2> QED BY <1>2, <2>1
            DEF TypeOK, DeviceSends, flagVars, songVars, sigVars, historyVars, deviceVars
  <1> QED BY <1>1, <1>2

LEMMA NextType == TypeOK /\ [Next]_vars => TypeOK'
  <1>1. TypeOK /\ UNCHANGED vars => TypeOK'
    BY DEF vars, TypeOK
  <1> QED BY <1>1, SigType, ReceiveType, SongType, DeviceType DEF Next

-----------------------------------------------------------------------------
(* The flag, the cycles and the lamps                                      *)

\* With nothing in the socket one thread at most waits in recvfrom.
LEMMA NextOneBlocked ==
  ASSUME TypeOK, OneBlocked, [Next]_vars PROVE OneBlocked'
  <1>0. Users = {"Song", "Sig_light"} /\ "Song" # "Sig_light" /\ inbox \in Seq(Datagram)
        /\ rw \in [Users -> {"none", "select", "recvfrom"}]
    BY DEF Users, TypeOK
  <1> SUFFICES ASSUME inbox' = << >> PROVE \E t \in Users : rw'[t] # "recvfrom"
    BY DEF OneBlocked
  <1>1. CASE UNCHANGED <<rw, inbox>>
    BY <1>1 DEF OneBlocked
  <1>2. ASSUME NEW t \in Users, rw' = [rw EXCEPT ![t] = "select"] \/ rw' = [rw EXCEPT ![t] = "none"]
        PROVE  \E u \in Users : rw'[u] # "recvfrom"
    BY <1>0, <1>2
  <1>3. CASE Sig_light
    <2>1. UNCHANGED rw \/ rw' = [rw EXCEPT !["Sig_light"] = "select"]
      BY <1>3 DEF Sig_light, Idle, Todo, Off, On, Check, Reset, Restart, End, Clear, Send, RGB_SC
    <2>2. UNCHANGED inbox
      BY <1>3 DEF Sig_light
    <2> QED BY <1>0, <1>1, <1>2, <2>1, <2>2
  <1>4. CASE Song
    BY <1>0, <1>1, <1>2, <1>4 DEF Song, Ring, SetRgb, SetControl, SetFlag, Wipe, Reply, Send, RGB_SC
  <1>5. CASE Receive
    BY <1>1, <1>5 DEF Receive
  <1>6. ASSUME NEW t \in Users, read_write_udp(t) PROVE \E u \in Users : rw'[u] # "recvfrom"
    <2>1. CASE Select(t) /\ inbox # << >>
      BY <2>1 DEF Select
    <2>2. CASE Select(t) /\ inbox = << >>
      BY <1>2, <2>2 DEF Select
    <2>3. CASE Recvfrom(t)
      BY <1>2, <2>3 DEF Recvfrom
    <2> QED BY <1>6, <2>1, <2>2, <2>3 DEF read_write_udp
  <1>7. ASSUME NEW d \in Datagram, DeviceSends(d) PROVE \E u \in Users : rw'[u] # "recvfrom"
    <2>1. Append(inbox, d) # << >>
      BY <1>0
    <2>2. UNCHANGED rw /\ inbox = << >>
      BY <1>7, <2>1 DEF DeviceSends
    <2> QED BY <2>2 DEF OneBlocked
  <1>8. CASE UNCHANGED vars
    BY <1>1, <1>8 DEF vars
  <1> QED BY <1>3, <1>4, <1>5, <1>6, <1>7, <1>8 DEF Next

\* A device or a received datagram leaves what the two threads agree on.
LEMMA DeviceSteps ==
  ASSUME (\E t \in Users : read_write_udp(t)) \/ (\E d \in Datagram : DeviceSends(d))
  PROVE  UNCHANGED <<flagVars, songVars, sigVars, wiped, historyVars, cycles>>
  BY DEF read_write_udp, DeviceSends

\* Reading the signal ends what the flag is for, and only a restart takes it down.
LEMMA NextFlagged ==
  ASSUME Flagged, [Next]_vars PROVE Flagged'
  <1>1. CASE Sig_light
    <2>1. UNCHANGED <<rgb, song>>
      BY <1>1 DEF Sig_light, Idle, Todo, Off, On, Check, Reset, Restart, End, Clear,
                  songVars, flagVars
    <2>2. CASE Todo
      BY <2>1, <2>2 DEF Todo, Flagged
    <2>3. CASE Reset
      BY <2>3 DEF Reset, Flagged
    <2>4. CASE Idle \/ Off \/ On \/ Check \/ Restart \/ End \/ Clear
      <3>1. UNCHANGED <<rgb1, exit_flag>> /\ sig # "todo"
            /\ (sig = "restart" => sig' = "todo")
        BY <2>4 DEF Idle, Off, On, Check, Restart, End, Clear, flagVars
      <3> QED BY <2>1, <3>1 DEF Flagged
    <2> QED BY <1>1, <2>2, <2>3, <2>4 DEF Sig_light
  <1>2. CASE Song
    BY <1>2 DEF Song, Ring, SetRgb, SetControl, SetFlag, Wipe, Reply, Goto, Flagged, sigVars,
                flagVars
  <1>3. CASE Receive
    BY <1>3 DEF Receive, ReceiveRing, ReceiveAlarms, Flagged, sigVars, flagVars
  <1>4. CASE UNCHANGED <<flagVars, songVars, sigVars>>
    BY <1>4 DEF Flagged, flagVars, songVars, sigVars
  <1> QED BY <1>1, <1>2, <1>3, <1>4, DeviceSteps DEF Next, vars, flagVars, songVars, sigVars

\* What the requests pay for and what was begun are numbers.
LEMMA Numbers ==
  TypeOK => /\ control \in {0, 1} /\ exit_flag \in {0, 1}
            /\ alarms \in Nat /\ cancels \in Nat /\ cycles \in Nat
            /\ SongOwes \in 0 .. 2 /\ SigOwes \in 0 .. 1
  BY DEF TypeOK, SongOwes, SigOwes

LEMMA NextBudget ==
  ASSUME TypeOK, TypeOK', Budget, [Next]_vars PROVE Budget'
  <1>0. /\ exit_flag \in {0, 1} /\ exit_flag' \in {0, 1} /\ control \in {0, 1}
        /\ alarms \in Nat /\ cancels \in Nat /\ cycles \in Nat
        /\ SongOwes \in 0 .. 2 /\ SigOwes \in 0 .. 1
    BY Numbers DEF TypeOK
  <1>1. CASE Sig_light
    <2>1. SongOwes' = SongOwes /\ UNCHANGED <<alarms, cancels>>
      BY <1>1 DEF Sig_light, SongOwes, songVars, historyVars
    <2>2. CASE Idle
      <3>1. SigOwes' = 1 /\ SigOwes = 1 /\ sig' = "todo" /\ UNCHANGED <<exit_flag, cycles>>
        BY <2>2 DEF Idle, SigOwes, flagVars
      <3> QED BY <2>1, <3>1 DEF Budget
    <2>3. CASE Todo
      <3>1. SigOwes' = 0 /\ SigOwes = 1 /\ sig' = "off" /\ exit_flag' = exit_flag
        BY <2>3 DEF Todo, SigOwes, flagVars
      <3>2. cycles' = cycles + 1 \/ cycles' = cycles
        BY <2>3 DEF Todo
      <3> QED BY <1>0, <2>1, <3>1, <3>2 DEF Budget
    <2>4. CASE Off \/ On \/ End
      <3>1. /\ SigOwes' = 0 /\ SigOwes = 0 /\ sig' \in {"on", "check", "end", "clear"}
            /\ UNCHANGED <<exit_flag, cycles>>
        BY <2>4 DEF Off, On, End, SigOwes, flagVars
      <3> QED BY <2>1, <3>1 DEF Budget
    <2>5. CASE Check
      <3>1. /\ SigOwes' = 0 /\ SigOwes = 0 /\ (sig' = "reset" => exit_flag = 1)
            /\ UNCHANGED <<exit_flag, cycles>>
        BY <2>5 DEF Check, SigOwes, flagVars
      <3> QED BY <2>1, <3>1 DEF Budget
    <2>6. CASE Reset
      <3>1. /\ SigOwes' = 1 /\ SigOwes = 0 /\ sig = "reset" /\ sig' = "restart"
            /\ exit_flag' = 0 /\ cycles' = cycles
        BY <2>6 DEF Reset, SigOwes
      <3> QED BY <1>0, <2>1, <3>1 DEF Budget
    <2>7. CASE Restart
      <3>1. SigOwes' = 1 /\ SigOwes = 1 /\ sig' = "todo" /\ UNCHANGED <<exit_flag, cycles>>
        BY <2>7 DEF Restart, SigOwes
      <3> QED BY <2>1, <3>1 DEF Budget
    <2>8. CASE Clear
      <3>1. /\ SigOwes' = 0 /\ SigOwes = 0 /\ sig' = "idle" /\ UNCHANGED <<exit_flag, cycles>>
        BY <2>8 DEF Clear, SigOwes
      <3> QED BY <2>1, <3>1 DEF Budget
    <2> QED BY <1>1, <2>2, <2>3, <2>4, <2>5, <2>6, <2>7, <2>8 DEF Sig_light
  <1>2. CASE Song
    <2>1. UNCHANGED <<sig, alarms, cancels, cycles>>
      BY <1>2 DEF Song, sigVars, historyVars
    <2>2. CASE Ring \/ SetRgb \/ Wipe \/ Reply
      <3>1. SongOwes' = SongOwes /\ UNCHANGED <<exit_flag, control>>
        BY <2>2 DEF Ring, SetRgb, Wipe, Reply, Goto, SongOwes, flagVars
      <3>2. SigOwes' = SigOwes
        BY <2>1, <3>1 DEF SigOwes
      <3> QED BY <2>1, <3>1, <3>2 DEF Budget
    <2>3. CASE SetControl /\ song = "control"
      <3>1. SongOwes = 2 /\ SongOwes' = 1 /\ exit_flag' = exit_flag /\ control' = 1
        BY <2>3 DEF SetControl, Goto, SongOwes
      <3>2. SigOwes' = SigOwes \/ SigOwes' = SigOwes + 1
        BY <2>1, <3>1 DEF SigOwes
      <3> QED BY <1>0, <2>1, <3>1, <3>2 DEF Budget
    <2>4. CASE SetControl /\ song = "cancel"
      <3>1. SongOwes = 1 /\ SongOwes' = 1 /\ exit_flag' = exit_flag /\ control' = 0
        BY <2>4 DEF SetControl, Goto, SongOwes
      <3>2. SigOwes' = SigOwes \/ (SigOwes' = 0 /\ SigOwes = 1)
        <4>1. SigOwes' = (IF sig \in {"restart", "todo"} THEN 1 ELSE 0)
          BY <2>1, <3>1 DEF SigOwes
        <4> QED BY <4>1 DEF SigOwes
      <3> QED BY <1>0, <2>1, <3>1, <3>2 DEF Budget
    <2>5. CASE SetFlag
      <3>1. SongOwes = 1 /\ SongOwes' = 0 /\ exit_flag' = 1 /\ control' = control
        BY <2>5 DEF SetFlag, Goto, SongOwes
      <3>2. SigOwes' = SigOwes
        BY <2>1, <3>1 DEF SigOwes
      <3> QED BY <1>0, <2>1, <3>1, <3>2 DEF Budget
    <2> QED BY <1>2, <2>2, <2>3, <2>4, <2>5 DEF Song, SetControl
  <1>3. CASE Receive
    <2>1. UNCHANGED <<sig, control, exit_flag, cycles>> /\ SongOwes = 0
      BY <1>3 DEF Receive, ReceiveRing, ReceiveAlarms, SongOwes, sigVars, flagVars
    <2>2. SigOwes' = SigOwes
      BY <2>1 DEF SigOwes
    <2>3. \/ SongOwes' = 0 /\ UNCHANGED <<alarms, cancels>>
          \/ SongOwes' = 2 /\ alarms' = alarms + 1 /\ cancels' = cancels
          \/ SongOwes' = 1 /\ alarms' = alarms /\ cancels' = cancels + 1
      BY <1>3 DEF Receive, ReceiveRing, ReceiveAlarms, SongOwes
    <2> QED BY <1>0, <2>1, <2>2, <2>3 DEF Budget
  <1>4. CASE UNCHANGED <<flagVars, songVars, sigVars, historyVars, cycles>>
    BY <1>4 DEF Budget, SongOwes, SigOwes, flagVars, songVars, sigVars, historyVars
  <1> QED BY <1>1, <1>2, <1>3, <1>4, DeviceSteps
          DEF Next, vars, flagVars, songVars, sigVars, historyVars

\* No command but the one at the start of a cycle starts a siren, and only Off, or Song,
\* puts out a lamp of the signal.
LEMMA NextShown ==
  ASSUME TypeOK, Shown, [Next]_vars PROVE Shown'
  <1>0. lit \subseteq Grades /\ siren \subseteq Grades /\ rgb1.lamps \subseteq Grades
    BY DEF TypeOK, Signal
  <1>1. CASE Sig_light
    <2>1. CASE Idle \/ Check \/ Reset \/ Restart \/ Clear
      <3>1. UNCHANGED <<lit, siren, rgb1, wiped>>
        BY <2>1 DEF Idle, Check, Reset, Restart, Clear, deviceVars
      <3>2. /\ sig \notin {"off", "on"}
            /\ sig' \in {"clear", "idle"} => sig \in {"clear", "idle"}
        BY <2>1 DEF Idle, Check, Reset, Restart, Clear
      <3> QED BY <3>1, <3>2 DEF Shown
    <2>2. CASE Todo
      BY <2>2 DEF Todo, Shown
    <2>3. CASE Off
      <3>1. sig' \in {"end", "on"} /\ (sig' = "end" => rgb1'.lamps = {})
        BY <2>3 DEF Off
      <3> QED BY <3>1 DEF Shown
    <2>4. CASE On
      <3>1. sig' = "check" /\ rgb1.lamps \subseteq lit' /\ rgb1' = rgb1
        BY <2>4 DEF On, Send
      <3> QED BY <3>1 DEF Shown
    <2>5. CASE End
      <3>1. /\ sig = "end" /\ sig' = "clear" /\ siren' = {} /\ lit' = lit
            /\ UNCHANGED <<rgb1, wiped>>
        BY <1>0, <2>5 DEF End, RGB_SC, Send
      <3> QED BY <3>1 DEF Shown
    <2> QED BY <1>1, <2>1, <2>2, <2>3, <2>4, <2>5 DEF Sig_light
  <1>2. CASE Song
    <2>1. sig' = sig /\ rgb1' = rgb1
      BY <1>2 DEF Song, sigVars
    <2>2. siren' \subseteq siren /\ ((lit' = lit /\ wiped' = wiped) \/ wiped' = TRUE)
      BY <1>2 DEF Song, Ring, SetRgb, SetControl, SetFlag, Wipe, Reply, RGB_SC, Send, deviceVars
    <2> QED BY <2>1, <2>2 DEF Shown
  <1>3. CASE Receive \/ \E d \in Datagram : DeviceSends(d)
    BY <1>3 DEF Receive, DeviceSends, Shown, sigVars, deviceVars
  <1>4. ASSUME NEW t \in Users, read_write_udp(t) PROVE Shown'
    <2>1. UNCHANGED <<sig, rgb1, wiped>>
      BY <1>4 DEF read_write_udp, sigVars
    <2>2. siren' \subseteq siren /\ lit' = lit
      BY <1>4 DEF read_write_udp, Select, Recvfrom, deviceVars
    <2> QED BY <2>1, <2>2 DEF Shown
  <1>5. CASE UNCHANGED vars
    BY <1>5 DEF vars, Shown
  <1> QED BY <1>1, <1>2, <1>3, <1>4, <1>5 DEF Next

-----------------------------------------------------------------------------
(* The invariant and what follows                                          *)

LEMMA InitInv == Init => LampInv
  <1> SUFFICES ASSUME Init PROVE LampInv
    OBVIOUS
  <1>1. OneBlocked
    BY DEF Init, OneBlocked, Users
  <1>2. Flagged /\ Shown
    BY DEF Init, Flagged, Shown, Dark
  <1>3. Budget
    BY DEF Init, Budget, SongOwes, SigOwes
  <1> QED BY <1>1, <1>2, <1>3, InitType DEF LampInv

LEMMA NextInv == LampInv /\ [Next]_vars => LampInv'
  BY NextType, NextOneBlocked, NextFlagged, NextBudget, NextShown DEF LampInv

\* Whatever the web server asks for and the device answers, the two threads stay in step
\* and never both wait in recvfrom for what is not there.
THEOREM Invariance == Spec => []LampInv
  BY InitInv, NextInv, PTL DEF Spec

\* A signal that Sig_light has not read when Song is done with it is flagged.
THEOREM NoSignalForgotten == Spec => []UnseenIsFlagged
  <1>1. LampInv => UnseenIsFlagged
    BY DEF LampInv, Flagged, UnseenIsFlagged
  <1> QED BY Invariance, <1>1, PTL

\* The lamps flash two cycles for an alarm and one for a cancel, at most.
THEOREM NoFreeFlashing == Spec => []FlashBudget
  <1>1. LampInv => FlashBudget
    <2> SUFFICES ASSUME LampInv PROVE FlashBudget
      OBVIOUS
    <2>1. /\ exit_flag \in {0, 1} /\ alarms \in Nat /\ cancels \in Nat /\ cycles \in Nat
          /\ SongOwes \in 0 .. 2 /\ SigOwes \in 0 .. 1
      BY Numbers DEF LampInv
    <2> QED BY <2>1 DEF LampInv, Budget, FlashBudget
  <1> QED BY Invariance, <1>1, PTL

\* Outside a cycle no siren sounds and the lamps of the last signal are lit.
THEOREM SilentWhenIdle == Spec => []CycleEnds
  <1>1. LampInv => CycleEnds
    BY DEF LampInv, Shown, CycleEnds
  <1> QED BY Invariance, <1>1, PTL

=============================================================================
