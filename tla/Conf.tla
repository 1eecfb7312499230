-------------------------------- MODULE Conf --------------------------------
(***************************************************************************)
(* init_conf of Conf.cpp, which main calls before it starts a thread: each *)
(* line of the file is a key and a value, and sets the fields of the key.  *)
(* A buffer is what strlen sees of it, a value a sequence of digits.       *)
(***************************************************************************)
EXTENDS Integers, Sequences

CONSTANTS
  Values,   \* the values a line may have, sequences of digits
  MaxLines  \* bound: lines of the file

ASSUME ConfAssumption == MaxLines \in Nat /\ Values \subseteq Seq(0 .. 9)

\* The fields that are numbers, those whose setter clears the buffer, and those
\* whose setter copies the new value over the old one.
Numbers == {"keepalive", "sport", "update_port", "web_port",
            "modbus_major_port", "modbus_min_port"}
Cleared == {"password", "mysql_ip", "database", "modbus_major_ip", "modbus_min_ip"}
Kept    == {"dir", "sip", "update_ip", "web_ip", "username"}
Fields  == Numbers \union Cleared \union Kept

Keys == {"keepalive", "log-dir", "inner-ip", "update-port", "web-port", "username",
         "password", "database", "south-major-ip", "south-major-port", "south-min-ip",
         "south-min-port", "north-ip", "north-port", "other"}

VARIABLES
  fp,        \* the file init_conf reads, and what became of it
  lines,     \* the lines read so far
  conffile   \* the fields

confVars == <<fp, lines, conffile>>

ConfInit ==
  /\ fp \in {"open", "null"}
  /\ lines = << >>
  /\ conffile = [f \in Fields |-> IF f \in Numbers THEN 0 ELSE << >>]

\* The number the first k digits of v write.
Number(v) ==
  LET n[k \in 0 .. Len(v)] == IF k = 0 THEN 0 ELSE 10 * n[k - 1] + v[k] IN n
atoi(v) == Number(v)[Len(v)]

\* memcpy of strlen(new) characters: the end of a longer old value stays.
Overlay(old, new) == new \o SubSeq(old, Len(new) + 1, Len(old))

\* Faulty: the web server's address is left out.
FieldsNoWeb(key) ==
  IF key = "inner-ip" THEN {"update_ip", "mysql_ip"}
  ELSE IF key = "north-ip" THEN {"sip"} ELSE IF key = "north-port" THEN {"sport"} ELSE {}

\* The fields of a key.
FieldsOf(key) ==
  IF key = "inner-ip" THEN {"update_ip", "mysql_ip", "web_ip"}
  ELSE IF key = "log-dir" THEN {"dir"}
  ELSE IF key = "north-ip" THEN {"sip"}
  ELSE IF key = "north-port" THEN {"sport"}
  ELSE IF key = "update-port" THEN {"update_port"}
  ELSE IF key = "web-port" THEN {"web_port"}
  ELSE IF key = "south-major-ip" THEN {"modbus_major_ip"}
  ELSE IF key = "south-major-port" THEN {"modbus_major_port"}
  ELSE IF key = "south-min-ip" THEN {"modbus_min_ip"}
  ELSE IF key = "south-min-port" THEN {"modbus_min_port"}
  ELSE {key} \intersect Fields

\* What a setter leaves in field f.
Set(f, v) ==
  IF f \in Numbers THEN atoi(v)
  ELSE IF f \in Cleared THEN v ELSE Overlay(conffile[f], v)

ReadLine(key, v) ==
  /\ fp = "open" /\ Len(lines) < MaxLines
  /\ lines' = Append(lines, [key |-> key, value |-> v])
  /\ conffile' = [f \in Fields |-> IF f \in FieldsOf(key) THEN Set(f, v) ELSE conffile[f]]
  /\ UNCHANGED fp

\* fgets returns NULL at the end, and crashes where fopen has.
End ==
  /\ \/ fp = "open" /\ fp' = "closed"
     \/ fp = "null" /\ fp' = "crashed"
  /\ UNCHANGED <<lines, conffile>>

ConfNext == (\E key \in Keys, v \in Values : ReadLine(key, v)) \/ End

ConfSpec == ConfInit /\ [][ConfNext]_confVars

-----------------------------------------------------------------------------
(* Properties                                                              *)

ConfTypeOK ==
  /\ fp \in {"open", "null", "closed", "crashed"}
  /\ lines \in Seq([key : Keys, value : Values])
  /\ \A f \in Fields : conffile[f] \in IF f \in Numbers THEN Nat ELSE Seq(0 .. 9)

\* The lines of ls that set f with a value of n characters or more, and the value
\* of the last of them.
Setting(ls, f, n) ==
  {k \in DOMAIN ls : f \in FieldsOf(ls[k].key) /\ Len(ls[k].value) >= n}
Newest(S) == CHOOSE k \in S : \A j \in S : j <= k
Latest(ls, f, n) ==
  IF Setting(ls, f, n) = {} THEN << >> ELSE ls[Newest(Setting(ls, f, n))].value

\* The last line of a key counts, but a field whose buffer is not cleared is made
\* of all of them: each character is that of the last value that reached so far.
FieldsAsRead ==
  \A f \in Fields :
    IF f \in Kept
    THEN /\ \A n \in DOMAIN conffile[f] :
              Setting(lines, f, n) # {} /\ conffile[f][n] = Latest(lines, f, n)[n]
         /\ Setting(lines, f, Len(conffile[f]) + 1) = {}
    ELSE conffile[f] = IF f \in Numbers THEN atoi(Latest(lines, f, 0))
                                        ELSE Latest(lines, f, 0)

\* The web server is asked at the address where requests for updates are awaited,
\* and so is the database, until a shorter address follows a longer one.
OneAddress ==
  LET last == conffile["mysql_ip"]
  IN /\ conffile["web_ip"] = conffile["update_ip"]
     /\ SubSeq(conffile["web_ip"], 1, Len(last)) = last

\* After any lines init_conf has left in each field what the setters make of them, and
\* one address in the three that inner-ip sets.
ConfInv == ConfTypeOK /\ FieldsAsRead /\ OneAddress

=============================================================================
