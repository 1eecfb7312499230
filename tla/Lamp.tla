-------------------------------- MODULE Lamp --------------------------------
(***************************************************************************)
(* The lamp and siren of Song.cpp: Song serves the requests of the web     *)
(* server, Sig_light flashes the lamps.  They share rgb, under a lock, and *)
(* control and exit_flag, without one: each load and each store is a step. *)
(* Both talk to the device through read_write_udp, on one socket.          *)
(*                                                                         *)
(* A lamp and a siren are known by their grade.  lit and siren are what    *)
(* the commands sent so far ask of the device.                             *)
(***************************************************************************)
EXTENDS Integers, Sequences, FiniteSets

CONSTANTS
  Requests,    \* the alarm requests of the web server
  Flashes,     \* rounds of flashing per cycle
  MaxRequests, \* bound: requests received
  MaxInbox     \* bound: datagrams that wait in the socket

Grades   == {"fatal", "serious", "common"}
Request  == [count : [Grades -> Nat], sound : SUBSET Grades]
Signal   == [lamps : SUBSET Grades, sirens : SUBSET Grades]
Datagram == {"BB", "answer"}
Users    == {"Song", "Sig_light"}

ASSUME LampAssumption ==
  /\ Requests \subseteq Request
  /\ Flashes \in Nat \ {0}
  /\ MaxRequests \in Nat /\ MaxInbox \in Nat

VARIABLES
  rgb,       \* the signal Song asks for
  control,   \* Sig_light is to flash
  exit_flag, \* Sig_light is to begin again
  song,      \* the point Song has reached
  count,     \* Song: the alarms of each grade in the last request
  rise,      \* Song: the signal of the request it serves
  sig,       \* the point Sig_light has reached
  rgb1,      \* Sig_light: the signal it shows
  i,         \* Sig_light: the rounds it has flashed
  rw,        \* per thread, the point in read_write_udp
  inbox,     \* the datagrams that wait in the socket
  lit,       \* the lamps that are on
  siren,     \* the sirens that sound
  wiped,     \* history: Song put lamps out after Sig_light lit them last
  alarms,    \* history: requests with a rise
  cancels,   \* history: requests that put lamps out
  others,    \* history: other requests
  cycles     \* history: times Sig_light began, up to 2 * MaxRequests + 1

flagVars    == <<rgb, control, exit_flag>>
songVars    == <<song, count, rise>>
sigVars     == <<sig, rgb1, i>>
deviceVars  == <<lit, siren>>
historyVars == <<alarms, cancels, others>>
vars == <<rgb, control, exit_flag, song, count, rise, sig, rgb1, i, rw, inbox,
          lit, siren, wiped, alarms, cancels, others, cycles>>

Dark == [lamps |-> {}, sirens |-> {}]

Init ==
  /\ rgb = Dark /\ control = 0 /\ exit_flag = 0
  /\ song = "recv" /\ count = [g \in Grades |-> 0] /\ rise = Dark
  /\ sig = "idle" /\ rgb1 = Dark /\ i = 0
  /\ rw = [t \in Users |-> "none"] /\ inbox = << >>
  /\ lit = {} /\ siren = {} /\ wiped = FALSE
  /\ alarms = 0 /\ cancels = 0 /\ others = 0 /\ cycles = 0

-----------------------------------------------------------------------------
(* read_write_udp                                                          *)

\* Thread t sends a command: the lamps of one set go out and those of another
\* on, and the same for the sirens.  Then it waits for a datagram.
Send(t, lampsOff, lampsOn, sirensOff, sirensOn) ==
  /\ rw[t] = "none"
  /\ rw' = [rw EXCEPT ![t] = "select"]
  /\ lit' = (lit \ lampsOff) \cup lampsOn
  /\ siren' = (siren \ sirensOff) \cup sirensOn

RGB_SC(t) == Send(t, {}, {}, Grades, {})

\* Faulty: a timeout of select is not told from a datagram.
SelectBlind(t) ==
  /\ rw[t] = "select"
  /\ rw' = [rw EXCEPT ![t] = "recvfrom"]
  /\ UNCHANGED <<inbox, deviceVars>>

\* select sees a datagram, or ends with a timeout or an error.
Select(t) ==
  /\ rw[t] = "select"
  /\ \/ inbox # << >> /\ rw' = [rw EXCEPT ![t] = "recvfrom"]
     \/ rw' = [rw EXCEPT ![t] = "none"]
  /\ UNCHANGED <<inbox, deviceVars>>

\* Faulty: the datagram stays in the socket.
RecvfromPeeks(t) ==
  /\ rw[t] = "recvfrom"
  /\ inbox # << >>
  /\ IF Head(inbox) = "BB"
     THEN rw' = [rw EXCEPT ![t] = "select"] /\ siren' = {}
     ELSE rw' = [rw EXCEPT ![t] = "none"] /\ UNCHANGED siren
  /\ UNCHANGED <<inbox, lit>>

\* recvfrom blocks, even when the datagram select saw went to the other thread.
\* BB, the button of the device, silences it with another read_write_udp.
Recvfrom(t) ==
  /\ rw[t] = "recvfrom"
  /\ inbox # << >>
  /\ inbox' = Tail(inbox)
  /\ IF Head(inbox) = "BB"
     THEN rw' = [rw EXCEPT ![t] = "select"] /\ siren' = {}
     ELSE rw' = [rw EXCEPT ![t] = "none"] /\ UNCHANGED siren
  /\ UNCHANGED lit

read_write_udp(t) ==
  /\ Select(t) \/ Recvfrom(t)
  /\ UNCHANGED <<flagVars, songVars, sigVars, wiped, historyVars, cycles>>

\* The device sends a datagram; a full socket drops it.
DeviceSends(d) ==
  /\ inbox' = IF Len(inbox) < MaxInbox THEN Append(inbox, d) ELSE inbox
  /\ UNCHANGED <<flagVars, songVars, sigVars, rw, deviceVars, wiped, historyVars, cycles>>

-----------------------------------------------------------------------------
(* Sig_light                                                               *)

Idle ==
  /\ sig = "idle"
  /\ control = 1
  /\ sig' = "todo"
  /\ UNCHANGED <<rgb1, i, flagVars, rw, deviceVars, wiped, cycles>>

\* One siren at most: the one of the highest grade.
Loudest(S) ==
  IF "fatal" \in S THEN {"fatal"} ELSE IF "serious" \in S THEN {"serious"} ELSE S

\* At TODO: the signal is read and its siren started.
Todo ==
  /\ sig = "todo"
  /\ rgb1' = rgb
  /\ Send("Sig_light", {}, {}, Grades, Loudest(rgb.sirens))
  /\ i' = 0
  /\ sig' = "off"
  /\ cycles' = IF cycles <= 2 * MaxRequests THEN cycles + 1 ELSE cycles
  /\ UNCHANGED <<flagVars, wiped>>

\* The lamps of the signal, or all of them when it has none.
Lamps == IF rgb1.lamps = {} THEN Grades ELSE rgb1.lamps

\* RGB_C; without lamps to flash it is sent once.
Off ==
  /\ sig = "off"
  /\ Send("Sig_light", Lamps, {}, {}, {})
  /\ sig' = IF rgb1.lamps = {} THEN "end" ELSE "on"
  /\ UNCHANGED <<rgb1, i, flagVars, wiped, cycles>>

\* RGB_O.
On ==
  /\ sig = "on"
  /\ Send("Sig_light", Lamps, rgb1.lamps, {}, {})
  /\ wiped' = FALSE
  /\ sig' = "check"
  /\ UNCHANGED <<rgb1, i, flagVars, cycles>>

Check ==
  /\ sig = "check"
  /\ rw["Sig_light"] = "none"
  /\ IF exit_flag = 1 THEN sig' = "reset" /\ UNCHANGED i
     ELSE IF i + 1 < Flashes THEN sig' = "off" /\ i' = i + 1
     ELSE sig' = "end" /\ UNCHANGED i
  /\ UNCHANGED <<rgb1, flagVars, rw, deviceVars, wiped, cycles>>

\* Faulty: the flag stays up.
ResetNothing ==
  /\ sig = "reset"
  /\ sig' = "restart"
  /\ UNCHANGED <<rgb, control, exit_flag, rgb1, i, rw, deviceVars, wiped, cycles>>

Reset ==
  /\ sig = "reset"
  /\ exit_flag' = 0
  /\ sig' = "restart"
  /\ UNCHANGED <<rgb, control, rgb1, i, rw, deviceVars, wiped, cycles>>

Restart ==
  /\ sig = "restart"
  /\ control' = 1
  /\ sig' = "todo"
  /\ UNCHANGED <<rgb, exit_flag, rgb1, i, rw, deviceVars, wiped, cycles>>

\* Faulty: the siren is not silenced.
EndLoud ==
  /\ sig = "end"
  /\ Send("Sig_light", {}, {}, {}, {})
  /\ sig' = "clear"
  /\ UNCHANGED <<rgb1, i, flagVars, wiped, cycles>>

End ==
  /\ sig = "end"
  /\ RGB_SC("Sig_light")
  /\ sig' = "clear"
  /\ UNCHANGED <<rgb1, i, flagVars, wiped, cycles>>

\* Faulty: exit_flag is reset at the end of a cycle as well.
ClearBoth ==
  /\ sig = "clear"
  /\ rw["Sig_light"] = "none"
  /\ control' = 0 /\ exit_flag' = 0
  /\ sig' = "idle"
  /\ UNCHANGED <<rgb, rgb1, i, rw, deviceVars, wiped, cycles>>

Clear ==
  /\ sig = "clear"
  /\ rw["Sig_light"] = "none"
  /\ control' = 0
  /\ sig' = "idle"
  /\ UNCHANGED <<rgb, exit_flag, rgb1, i, rw, deviceVars, wiped, cycles>>

Sig_light ==
  /\ \/ Idle
     \/ Todo
     \/ Off
     \/ On
     \/ Check
     \/ Reset
     \/ Restart
     \/ End
     \/ Clear
  /\ UNCHANGED <<songVars, inbox, historyVars>>

-----------------------------------------------------------------------------
(* Song: a ZMQ_REP server                                                  *)

Total == alarms + cancels + others

\* "recoverRing" and "removeRing".
ReceiveRing ==
  /\ song = "recv"
  /\ Total < MaxRequests
  /\ others' = others + 1
  /\ song' = "ring"
  /\ UNCHANGED <<count, rise, alarms, cancels>>

\* The grades request r has more alarms of than the request before.
Risen(r) == {g \in Grades : r.count[g] > count[g]}

\* A rise is shown; else a fall puts out the lamps of the grades at zero.
ReceiveAlarms(r) ==
  /\ song = "recv"
  /\ Total < MaxRequests
  /\ count' = r.count
  /\ rise' = [lamps |-> Risen(r), sirens |-> Risen(r) \cap r.sound]
  /\ \/ /\ Risen(r) # {}
        /\ song' = "rgb"
        /\ alarms' = alarms + 1 /\ UNCHANGED <<cancels, others>>
     \/ /\ Risen(r) = {} /\ r.count # count
        /\ \E g \in Grades : r.count[g] = 0
        /\ song' = "cancel"
        /\ cancels' = cancels + 1 /\ UNCHANGED <<alarms, others>>
     \/ /\ Risen(r) = {}
        /\ r.count = count \/ \A g \in Grades : r.count[g] # 0
        /\ song' = "reply"
        /\ others' = others + 1 /\ UNCHANGED <<alarms, cancels>>

Receive ==
  /\ ReceiveRing \/ \E r \in Requests : ReceiveAlarms(r)
  /\ UNCHANGED <<flagVars, sigVars, rw, inbox, deviceVars, wiped, cycles>>

Goto(l) == song' = l /\ UNCHANGED <<count, rise>>

Ring == song = "ring" /\ RGB_SC("Song") /\ Goto("reply") /\ UNCHANGED <<flagVars, wiped>>

SetRgb ==
  /\ song = "rgb"
  /\ rgb' = rise
  /\ Goto("control")
  /\ UNCHANGED <<control, exit_flag, rw, deviceVars, wiped>>

SetControl ==
  /\ song \in {"control", "cancel"}
  /\ control' = IF song = "control" THEN 1 ELSE 0
  /\ Goto(IF song = "control" THEN "flag" ELSE "cancelFlag")
  /\ UNCHANGED <<rgb, exit_flag, rw, deviceVars, wiped>>

SetFlag ==
  /\ song \in {"flag", "cancelFlag"}
  /\ exit_flag' = 1
  /\ Goto(IF song = "flag" THEN "reply" ELSE "wipe")
  /\ UNCHANGED <<rgb, control, rw, deviceVars, wiped>>

\* The grades without an alarm.
Over == {g \in Grades : count[g] = 0}

Wipe ==
  /\ song = "wipe"
  /\ Send("Song", Over, {}, Over, {})
  /\ wiped' = TRUE
  /\ Goto("reply")
  /\ UNCHANGED flagVars

Reply ==
  /\ song = "reply"
  /\ rw["Song"] = "none"
  /\ Goto("recv")
  /\ UNCHANGED <<flagVars, rw, deviceVars, wiped>>

Song ==
  /\ \/ Ring
     \/ SetRgb
     \/ SetControl
     \/ SetFlag
     \/ Wipe
     \/ Reply
  /\ UNCHANGED <<sigVars, inbox, historyVars, cycles>>

-----------------------------------------------------------------------------
Next ==
  \/ Sig_light
  \/ Receive
  \/ Song
  \/ \E t \in Users : read_write_udp(t)
  \/ \E d \in Datagram : DeviceSends(d)

Spec == Init /\ [][Next]_vars

\* The two threads are scheduled and select ends; the device and the web server
\* need not send anything.
Fairness ==
  /\ WF_vars(Sig_light)
  /\ WF_vars(Song)
  /\ \A t \in Users : WF_vars(read_write_udp(t))

FairSpec == Spec /\ Fairness

-----------------------------------------------------------------------------
(* Properties                                                              *)

TypeOK ==
  /\ rgb \in Signal /\ rgb1 \in Signal /\ rise \in Signal
  /\ control \in {0, 1} /\ exit_flag \in {0, 1}
  /\ song \in {"recv", "ring", "rgb", "control", "flag", "cancel", "cancelFlag",
               "wipe", "reply"}
  /\ count \in [Grades -> Nat]
  /\ sig \in {"idle", "todo", "off", "on", "check", "reset", "restart", "end", "clear"}
  /\ i \in 0 .. Flashes - 1
  /\ rw \in [Users -> {"none", "select", "recvfrom"}]
  /\ inbox \in Seq(Datagram)
  /\ lit \subseteq Grades /\ siren \subseteq Grades
  /\ wiped \in BOOLEAN
  /\ {alarms, cancels, others, cycles} \subseteq Nat

\* Whenever Song is done with a request and Sig_light has not begun to show its
\* signal, exit_flag is up or on its way to a restart.  So an alarm that comes
\* during the flashing is shown; one that comes between the last look at the
\* flag and the end of the cycle is not, and leaves the flag up for the next.
UnseenIsFlagged ==
  song = "recv" /\ rgb1 # rgb => exit_flag = 1 \/ sig \in {"restart", "todo"}

\* The lamps flash for a request only: an alarm starts one cycle and restarts
\* at most one more, a cancel restarts at most one.
FlashBudget == cycles <= 2 * alarms + cancels

\* Outside a cycle the siren is silent and the lamps of the signal shown last are
\* on, until Song puts lamps out: no request, button or race leaves it sounding.
CycleEnds ==
  sig = "idle" => siren = {} /\ (~wiped => rgb1.lamps \subseteq lit)

\* The two threads take datagrams off each other, but never are both blocked in
\* recvfrom with nothing to receive.
OneBlocked == inbox = << >> => \E t \in Users : rw[t] # "recvfrom"

\* A signal Sig_light has not read is flagged, or Song is about to raise the flag.
Flagged ==
  song \notin {"control", "flag"} /\ rgb1 # rgb => exit_flag = 1 \/ sig \in {"restart", "todo"}

\* The cycles that the point a thread has reached may still bring: two for an alarm,
\* one of them by control and one by the flag, and one for a cancel.
SongOwes == IF song \in {"rgb", "control"} THEN 2
            ELSE IF song \in {"flag", "cancel", "cancelFlag"} THEN 1 ELSE 0
SigOwes  == IF sig \in {"restart", "todo"} \/ (sig = "idle" /\ control = 1) THEN 1 ELSE 0

\* They and the flag stay within what the requests pay for.
Budget ==
  /\ sig = "reset" => exit_flag = 1
  /\ cycles + SongOwes + SigOwes + exit_flag <= 2 * alarms + cancels

\* From the end of a cycle on the siren is silent; the lamps of the signal are off only
\* between RGB_C and RGB_O.
Shown ==
  /\ sig \in {"clear", "idle"} => siren = {}
  /\ sig \notin {"off", "on"} /\ ~wiped => rgb1.lamps \subseteq lit

\* The two threads keep their types, and with nothing in the socket one of them at most
\* waits in the recvfrom of read_write_udp that has no timeout: with what they still
\* owe and show, the inductive invariant.
LampInv == TypeOK /\ OneBlocked /\ Flagged /\ Budget /\ Shown

\* The button is not pressed for ever, and the device goes on sending where the
\* socket is empty.
DeviceAnswers ==
  /\ <>[][~DeviceSends("BB")]_vars
  /\ []<>(inbox # << >>)

\* Then every request is answered ...
Answered == DeviceAnswers => [](song # "recv" => <>(song = "recv"))

\* ... and the flashing ends when the requests do, whatever raced.
FlashingEnds ==
  DeviceAnswers /\ <>[][~Receive]_vars => <>[](sig = "idle" /\ control = 0)

=============================================================================
