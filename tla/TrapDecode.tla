------------------------------ MODULE TrapDecode ------------------------------
(***************************************************************************)
(* RecvSnmp of RecvSnmp.cpp: the loading of the two table files, and how   *)
(* callback makes a record of a trap, one varbind after the other.  Its    *)
(* heartbeat part is in SnmpTimers, what becomes of the record in Forward. *)
(*                                                                         *)
(* The text of a slot is taken as get_value returns it, and an INFORM's    *)
(* response, which is sent whatever the trap says, is left out.  Names   *)
(* differ from those of SnmpTimers: RecvSnmpProofs extends both.           *)
(***************************************************************************)
EXTENDS Integers, Sequences, FiniteSets

CONSTANTS
  CodeFiles,  \* contents the file zxcode may have: entries [key, id]
  IpFiles,    \* contents the file ip_addr may have: entries [key, id]
  Text,       \* a word in place of a number
  Missing,    \* there is no file
  Ips,        \* the addresses a trap may name
  Codes,      \* the alarm codes a trap may name, as digits
  Stack       \* what happens to be in memory that nothing initialized

ASSUME TrapAssumption ==
  /\ IpFiles \subseteq Seq([key : Ips, id : Int \union {Text}]) \union {Missing}
  /\ CodeFiles \subseteq Seq([key : Seq(0 .. 9), id : Int \union {Text}]) \union {Missing}

VARIABLES
  pc,       \* the point RecvSnmp, then callback, has reached
  ipFile, codeFile,  \* the files
  pos, id,  \* the entry the loader reads next, the number it read last
  ipmap, codemap,    \* the tables
  heartip,  \* the platform whose address the trap came from
  vbs,      \* the varbinds callback has gone through
  son_sys, bus, jk, cw, acode1, atime,  \* its variables
  codeflag, \* 4096 for a recovery
  record    \* what it has queued

files      == <<ipFile, codeFile, pos, id, ipmap, codemap>>
locals     == <<son_sys, bus, jk, cw, acode1, atime>>
trap       == <<heartip, vbs, codeflag, record>>
decodeVars == <<pc, files, trap, locals>>

NoMap == [k \in {} |-> 0]
NoRecord == << >>

DecodeInit ==
  /\ pc = "map_ip_bus"
  /\ ipFile \in IpFiles /\ codeFile \in CodeFiles /\ pos = 1 /\ id = 0
  /\ ipmap = NoMap /\ codemap = NoMap
  /\ heartip \in {"7cs", "gcs", "other"} /\ vbs = << >>
  /\ son_sys = 0 /\ bus = 0 /\ jk = << >> /\ cw = << >> /\ acode1 = <<0>>
  /\ atime = Stack /\ codeflag = 0 /\ record = NoRecord

-----------------------------------------------------------------------------
(* map_ip_bus, map_zx_code                                                 *)

\* Faulty: a later entry replaces an earlier one.
Overwrite(map, k, n) ==
  [x \in DOMAIN map \union {k} |-> IF x = k THEN n ELSE map[x]]

\* insert: an entry that is there stays.
Insert(map, k, n) ==
  [x \in DOMAIN map \union {k} |-> IF x \in DOMAIN map THEN map[x] ELSE n]

\* The loader is at an entry of the file, and where its number is a word, fscanf
\* leaves that of the entry before.
Reads(file) ==
  /\ file # Missing /\ pos \in DOMAIN file
  /\ id' = IF file[pos].id = Text THEN id ELSE file[pos].id
  /\ pos' = pos + 1

Ends(file, next) ==
  /\ file # Missing /\ pos = Len(file) + 1
  /\ pc' = next /\ pos' = 1 /\ id' = 0
  /\ UNCHANGED <<ipmap, codemap>>

\* fclose(NULL)
Crashes(file) ==
  /\ file = Missing
  /\ pc' = "crashed" /\ UNCHANGED <<pos, id, ipmap, codemap>>

\* A word in place of a number is the next key, and the number for it is cut off
\* the key of the next entry, which is lost.
map_ip_bus ==
  /\ pc = "map_ip_bus"
  /\ \/ /\ Reads(ipFile)
        /\ ipmap' = IF pos > 1 /\ ipFile[pos - 1].id = Text THEN ipmap
                    ELSE Insert(ipmap, ipFile[pos].key, id')
        /\ UNCHANGED <<pc, codemap>>
     \/ Ends(ipFile, "map_zx_code")
     \/ Crashes(ipFile)
  /\ UNCHANGED <<ipFile, codeFile, trap, locals>>

\* At a word fscanf goes on to return 0, and the loader never ends.
map_zx_code ==
  /\ pc = "map_zx_code"
  /\ \/ /\ Reads(codeFile)
        /\ codemap' = Insert(codemap, codeFile[pos].key, id')
        /\ pc' = IF codeFile[pos].id = Text THEN "spins" ELSE pc
        /\ UNCHANGED ipmap
     \/ Ends(codeFile, "session")
     \/ Crashes(codeFile)
  /\ UNCHANGED <<ipFile, codeFile, trap, locals>>

\* The session is made and registered for traps, or RecvSnmp returns: the SNMP
\* library, or the system, may refuse either.
Session ==
  /\ pc = "session"
  /\ pc' \in {"loop", "returned"}
  /\ UNCHANGED <<files, trap, locals>>

-----------------------------------------------------------------------------
(* callback: the loop over the varbinds of a trap                          *)

Systems == {"ngn_ss", "ngn_msg9000", "ZXMP S385", "MSAG5200V3", "unknown"}
Ngn     == {401, 414, 425}
Zxmp    == {1, 12}

\* The subsystem a platform's name stands for; an unknown one leaves it.
SystemOf(name) ==
  IF name = "ngn_ss" THEN 401
  ELSE IF name = "ngn_msg9000" THEN 414
  ELSE IF name = "MSAG5200V3" THEN 425
  ELSE IF name = "ZXMP S385" /\ heartip = "gcs" THEN 12
  ELSE IF name = "ZXMP S385" /\ heartip = "7cs" THEN 1
  ELSE son_sys

Ssys(v) ==
  /\ v.oid = "SSYS"
  /\ son_sys' = SystemOf(v.value)
  /\ UNCHANGED <<bus, jk, cw, acode1, atime>>

Atime(v) ==
  /\ v.oid = "ATIME"
  /\ atime' = v.value
  /\ UNCHANGED <<son_sys, bus, jk, cw, acode1>>

AcodeVb(v) ==
  /\ v.oid = "ACODE"
  /\ acode1' = v.value
  /\ UNCHANGED <<son_sys, bus, jk, cw, atime>>

\* Faulty: the address is the rack of every platform.
ZxipAlways(v) ==
  /\ v.oid = "ZXIP"
  /\ bus' = IF v.value \in DOMAIN ipmap THEN ipmap[v.value] ELSE Stack
  /\ jk' = <<v.value>>
  /\ UNCHANGED <<son_sys, cw, acode1, atime>>

\* An address the table does not have: iter->second behind the end of the map.
Zxip(v) ==
  /\ v.oid = "ZXIP"
  /\ bus' = IF v.value \in DOMAIN ipmap THEN ipmap[v.value] ELSE Stack
  /\ jk' = IF son_sys \in Zxmp THEN <<v.value>> ELSE jk
  /\ UNCHANGED <<son_sys, cw, acode1, atime>>

Rack == [s \in Ngn |-> IF s = 401 THEN <<"1">> ELSE IF s = 414 THEN <<"2">> ELSE <<"3">>]

\* A slot is a rack and a board in numbers for one kind of platform, a text for
\* the other; what the scan does not find there is 0.
Slot(v) ==
  /\ v.oid = "SLOT"
  /\ jk' = IF son_sys \in Ngn THEN Rack[son_sys] ELSE jk
  /\ cw' = IF son_sys \in Ngn
           THEN IF v.value = "numbers" THEN <<"rack", "board">> ELSE <<0, 0>>
           ELSE IF son_sys \in Zxmp THEN <<v.value>> ELSE cw
  /\ UNCHANGED <<son_sys, bus, acode1, atime>>

Varbinds == [oid : {"SSYS"}, value : Systems] \union [oid : {"ATIME"}, value : {"time"}]
     \union [oid : {"ACODE"}, value : Codes]  \union [oid : {"ZXIP"}, value : Ips]
     \union [oid : {"SLOT"}, value : {"numbers", "words"}]

\* Bound: no trap has one kind of varbind twice.
Vb(v) ==
  /\ pc = "loop"
  /\ \A k \in DOMAIN vbs : vbs[k].oid # v.oid
  /\ Ssys(v) \/ Atime(v) \/ AcodeVb(v) \/ Zxip(v) \/ Slot(v)
  /\ vbs' = Append(vbs, v)
  /\ UNCHANGED <<pc, files, heartip, codeflag, record>>

-----------------------------------------------------------------------------
(* callback: the record                                                    *)

Prefix == [s \in Ngn |-> IF s = 401 THEN <<4, 0, 1>>
                         ELSE IF s = 414 THEN <<4, 1, 4>> ELSE <<4, 2, 5>>]

\* The code as it is looked up: behind the number of an NGN platform, as digits.
lcode == IF son_sys \in Ngn THEN Prefix[son_sys] \o acode1 ELSE acode1

\* Faulty: the flag of a recovery is taken off a code that is not in the table.
AcodeAlways(flag) ==
  IF son_sys = 0 THEN 0
  ELSE (IF lcode \in DOMAIN codemap THEN codemap[lcode] ELSE 0) - flag

\* The code of the record, 0 where there is none.
Acode(flag) ==
  IF son_sys # 0 /\ lcode \in DOMAIN codemap THEN codemap[lcode] - flag ELSE 0

Record(flag) ==
  IF Acode(flag) = 0 THEN NoRecord
  ELSE [son_sys |-> IF son_sys \in Ngn THEN 2 ELSE son_sys, stop |-> bus, eng |-> jk,
        node |-> cw, bug |-> Acode(flag), time |-> atime]

\* After the last varbind, or HEART: an alarm (0), or a RECOVER1 (4096).
Report ==
  /\ pc = "loop"
  /\ pc' = "end"
  /\ codeflag' \in {0, 4096} /\ record' = Record(codeflag')
  /\ UNCHANGED <<files, heartip, vbs, locals>>

\* A RECOVER2 is not looked at.
Ignore ==
  /\ pc = "loop" /\ vbs = << >>
  /\ pc' = "ignored"
  /\ UNCHANGED <<files, trap, locals>>

DecodeNext ==
  \/ map_ip_bus \/ map_zx_code \/ Session
  \/ (\E v \in Varbinds : Vb(v)) \/ Report \/ Ignore

DecodeSpec == DecodeInit /\ [][DecodeNext]_decodeVars

\* RecvSnmp runs on to its pause loop, or its end.
FairDecodeSpec == DecodeSpec /\ WF_decodeVars(map_ip_bus \/ map_zx_code \/ Session)

-----------------------------------------------------------------------------
(* Properties                                                              *)

DecodeTypeOK ==
  /\ pc \in {"map_ip_bus", "map_zx_code", "spins", "crashed", "session", "returned",
             "loop", "end", "ignored"}
  /\ id \in Int /\ heartip \in {"7cs", "gcs", "other"}
  /\ pos \in Nat /\ DOMAIN ipmap \subseteq Ips
  /\ vbs \in Seq(Varbinds)
  /\ son_sys \in Ngn \union Zxmp \union {0} /\ acode1 \in Codes \union {<<0>>}

\* What the trap said under o, as a set with at most one value ...
Said(o) == {vbs[k].value : k \in {j \in DOMAIN vbs : vbs[j].oid = o}}

\* ... and what it said after it had named its subsystem.
SaidLate(o) ==
  {vbs[k].value : k \in {j \in DOMAIN vbs :
    vbs[j].oid = o /\ \E i \in 1 .. j - 1 : vbs[i].oid = "SSYS"}}

\* The only value, or a default.
The(S, default) == IF S = {} THEN default ELSE CHOOSE x \in S : TRUE

\* The number of a platform, and the station of an address.
Number(n)  == IF n = "ngn_ss" THEN 401 ELSE IF n = "ngn_msg9000" THEN 414
              ELSE IF n = "MSAG5200V3" THEN 425 ELSE IF n = "unknown" \/ heartip = "other" THEN 0
              ELSE IF heartip = "gcs" THEN 12 ELSE 1
Station(a) == IF a \in DOMAIN ipmap THEN ipmap[a] ELSE Stack

\* The subsystem and the code that the trap named, as the table has them.
Named == The({Number(n) : n \in Said("SSYS")}, 0)
Key   == The({IF Named \in Ngn THEN Prefix[Named] \o c ELSE c : c \in Said("ACODE")}, << >>)

\* A record says what the trap said, in whatever order its varbinds came, but for
\* the rack and the board: those count only behind the subsystem, since what they
\* mean depends on it.
DecodesAsSaid ==
  pc = "end" /\ record # NoRecord =>
    /\ record.son_sys = IF Named \in Ngn THEN 2 ELSE Named
    /\ Said("ACODE") # {} => record.bug = codemap[Key] - codeflag
    /\ record.time = The(Said("ATIME"), Stack)
    /\ record.stop = The({Station(a) : a \in Said("ZXIP")}, 0)
    /\ record.eng = IF Named \in Ngn THEN The({Rack[Named] : s \in SaidLate("SLOT")}, << >>)
                    ELSE The({<<a>> : a \in SaidLate("ZXIP")}, << >>)
    /\ record.node = << >> <=> SaidLate("SLOT") = {}

\* Nothing is decoded before the tables are read, and the codes are numbers.
Orderly ==
  /\ pc \notin {"loop", "end", "ignored"} => vbs = << >>
  /\ \A c \in DOMAIN codemap : codemap[c] \in Int

\* What the varbinds so far have left in the variables of callback.
Decoded ==
  /\ son_sys = Named
  /\ IF Said("ACODE") = {} THEN acode1 = <<0>> ELSE Said("ACODE") = {acode1}
  /\ atime = The(Said("ATIME"), Stack)
  /\ bus = The({Station(a) : a \in Said("ZXIP")}, 0)
  /\ Said("SSYS") = {} => jk = << >> /\ cw = << >>
  /\ son_sys # 0 =>
       /\ jk = IF son_sys \in Ngn THEN The({Rack[son_sys] : s \in SaidLate("SLOT")}, << >>)
               ELSE The({<<a>> : a \in SaidLate("ZXIP")}, << >>)
       /\ cw = << >> <=> SaidLate("SLOT") = {}

Readable(file) == file # Missing /\ \A k \in DOMAIN file : file[k].id # Text

\* The table that the first n entries of a file stand for: the first of a key counts.
Table(file, n) ==
  [k \in {file[i].key : i \in 1 .. n} |->
    file[CHOOSE i \in 1 .. n :
           file[i].key = k /\ \A j \in 1 .. i - 1 : file[j].key # k].id]

\* The tables are those of the entries read so far, and callback is not reached
\* before all of them are, nor with a file missing or a word in zxcode.
Loaded ==
  /\ Readable(ipFile) =>
       ipmap = Table(ipFile, IF pc = "map_ip_bus" THEN pos - 1 ELSE Len(ipFile))
  /\ pc = "map_ip_bus" => pos > 0 /\ codemap = NoMap
  /\ pc = "map_zx_code" /\ codeFile # Missing =>
       /\ pos > 0 /\ codemap = Table(codeFile, pos - 1)
       /\ \A k \in 1 .. pos - 1 : codeFile[k].id # Text
  /\ pc \notin {"map_ip_bus", "map_zx_code", "spins", "crashed"} =>
       Readable(codeFile) /\ codemap = Table(codeFile, Len(codeFile))
  /\ pc = "spins" => ~Readable(codeFile)
  /\ pc = "crashed" => Missing \in {ipFile, codeFile}
  /\ pc \notin {"map_ip_bus", "crashed"} => ipFile # Missing

\* callback turns a trap into the record it stands for, with the tables of files of any
\* content: the inductive invariant.
DecodeInv == DecodeTypeOK /\ Orderly /\ Loaded /\ Decoded /\ DecodesAsSaid

\* The recovery of an alarm is queued exactly when the alarm was, and differs from
\* it by 4096 in its code alone: else the web server would show an alarm for ever.
\* Two codes in the table break this, 0 and 4096.
RecoveryMatches ==
  pc = "end" /\ Acode(0) # 4096 /\ (lcode \in DOMAIN codemap => Acode(0) # 0) =>
    \/ Record(0) = NoRecord /\ Record(4096) = NoRecord
    \/ /\ Record(0) # NoRecord
       /\ Record(4096) = [Record(0) EXCEPT !.bug = @ - 4096]

\* Where RecvSnmp ends up.  With both files there, and a number in every entry of
\* zxcode, it comes to listen, or returns since the session is refused
\* (RecvSnmp.cpp:376-380, 388-392), with the table of codes the file stands for; a
\* word in ip_addr costs only the entries around it.  With a word in zxcode it spins
\* for ever, and a missing file crashes it.
Listens ==
  /\ Readable(codeFile) /\ ipFile # Missing =>
       <>(/\ pc \in {"loop", "returned"}
          /\ codemap = Table(codeFile, Len(codeFile))
          /\ Readable(ipFile) => ipmap = Table(ipFile, Len(ipFile)))
  /\ Missing \notin {ipFile, codeFile} /\ ~Readable(codeFile) => <>[](pc = "spins")
  /\ Missing \in {ipFile, codeFile} => <>[](pc = "crashed")

=============================================================================
