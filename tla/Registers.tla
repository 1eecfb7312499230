------------------------------ MODULE Registers ------------------------------
(***************************************************************************)
(* The input registers of the two Modbus mappings of KeepAlive.cpp.        *)
(*                                                                         *)
(* Iscs polls the database: one query for the alarm state of each          *)
(* subsystem, one for that of each station.  It writes the rows of both,   *)
(* however many there are, one behind the other into the registers of the  *)
(* major server's mapping and of the minor server's, without a lock.  Each *)
(* server allocates and clears its mapping when it starts.                 *)
(***************************************************************************)
EXTENDS Integers, Sequences

CONSTANTS
  Subsystems,  \* LIMIT of MYSQL_ISCS_STR: 9
  Stations,    \* LIMIT of MYSQL_ISCSA_STR: 34
  NB           \* UT_INPUT_REGISTERS_NB: 50

ASSUME RegistersAssumption ==
  /\ Subsystems \in Nat /\ Stations \in Nat /\ NB \in Nat
  /\ Subsystems + Stations <= NB

Mappings == {"mb_mapping1", "mb_mapping2"}
Bit      == {0, 1}
Indices  == 0 .. NB - 1

\* The results a query with this LIMIT may have.
Rows(limit) == UNION {[1 .. n -> Bit] : n \in 0 .. limit}

VARIABLES
  cleared,   \* per mapping, -1 while it is null, then the registers cleared
  registers, \* per mapping, tab_input_registers
  pc,        \* the point Iscs has reached
  sub,       \* the register it writes next
  row,       \* the rows it has written of the result it holds
  result,    \* per query, the last result stored
  poll,      \* history: what became of the last poll's queries
  before,    \* history: the registers when the last whole poll began
  early,     \* history: Iscs wrote a register that was cleared after
  broken     \* "no", or a write went through a null pointer or past the registers

vars == <<cleared, registers, pc, sub, row, result, poll, before, early, broken>>

Init ==
  /\ cleared = [m \in Mappings |-> -1]
  /\ registers = [m \in Mappings |-> [k \in Indices |-> 0]]
  /\ pc = "connect" /\ sub = 0 /\ row = 0
  /\ result = [subsystems |-> << >>, stations |-> << >>]
  /\ poll = "missed" /\ before = registers /\ early = FALSE /\ broken = "no"

-----------------------------------------------------------------------------
(* Sendmod_major and Sendmod_min, before they listen                       *)

\* The library's mapping is all zero.
Allocate(m) ==
  /\ cleared[m] = -1
  /\ cleared' = [cleared EXCEPT ![m] = 0]
  /\ UNCHANGED <<registers, pc, sub, row, result, poll, before, early, broken>>

ClearRegister(m) ==
  /\ registers' = [registers EXCEPT ![m] = [k \in Indices |->
                     IF k = cleared[m] THEN 0 ELSE registers[m][k]]]
  /\ cleared' = [cleared EXCEPT ![m] = cleared[m] + 1]
  /\ UNCHANGED <<pc, sub, row, result, poll, before, early, broken>>

Clear(m) == cleared[m] \in 0 .. NB - 1 /\ ClearRegister(m)

-----------------------------------------------------------------------------
(* Iscs                                                                    *)

Connect ==
  /\ pc = "connect"
  /\ pc' \in {"query1", "exit"}
  /\ UNCHANGED <<cleared, registers, sub, row, result, poll, before, early, broken>>

\* A first query that gives a result, of any length; the index starts at s.
Answer1(s) ==
  /\ pc = "query1"
  /\ sub' = s /\ row' = 0
  /\ \E r \in Rows(Subsystems) : result' = [result EXCEPT !.subsystems = r]
  /\ IF \A m \in Mappings : cleared[m] = NB
     THEN poll' = "whole" /\ before' = registers
     ELSE poll' = "early" /\ UNCHANGED before
  /\ pc' = "rows1"
  /\ UNCHANGED <<cleared, registers, early, broken>>

\* Faulty: the index is reset at the start of the program only.
Query1NoReset == Answer1(sub)

Query1 == Answer1(0)

\* The query fails, or it succeeds but its result cannot be stored.  Only the
\* second resets the index.
Query1Fails ==
  /\ pc = "query1"
  /\ sub' \in {sub, 0}
  /\ poll' = "missed"
  /\ pc' = "query2"
  /\ UNCHANGED <<cleared, registers, row, result, before, early, broken>>

Answer2(s) ==
  /\ pc = "query2"
  /\ sub' = s /\ row' = 0
  /\ \E r \in Rows(Stations) : result' = [result EXCEPT !.stations = r]
  /\ pc' = "rows2"
  /\ UNCHANGED <<cleared, registers, poll, before, early, broken>>

\* Faulty: the second query resets the index as the first does.
Query2Reset == Answer2(0)

Query2 == Answer2(sub)

Query2Fails ==
  /\ pc = "query2"
  /\ poll' = "missed"
  /\ pc' = "query1"
  /\ UNCHANGED <<cleared, registers, sub, row, result, before, early, broken>>

\* The result Iscs holds.
Held == IF pc \in {"rows1", "second1"} THEN result.subsystems ELSE result.stations

\* Register k of mapping m gets the bit of the next row.
Write(m, k) ==
  \/ /\ cleared[m] # -1 /\ k \in Indices
     /\ registers' = [registers EXCEPT ![m][k] = Held[row + 1]]
     /\ early' = (early \/ cleared[m] <= k)
     /\ UNCHANGED broken
  \/ /\ cleared[m] = -1
     /\ broken' = "null" /\ UNCHANGED <<registers, early>>
  \/ /\ cleared[m] # -1 /\ k \notin Indices
     /\ broken' = "past" /\ UNCHANGED <<registers, early>>

WriteFirst ==
  /\ pc \in {"rows1", "rows2"}
  /\ row < Len(Held)
  /\ Write("mb_mapping1", sub)
  /\ pc' = IF pc = "rows1" THEN "second1" ELSE "second2"
  /\ UNCHANGED <<cleared, sub, row, result, poll, before>>

\* The other mapping, at register k, and on to the next row.
Second(k) ==
  /\ pc \in {"second1", "second2"}
  /\ Write("mb_mapping2", k)
  /\ sub' = sub + 1 /\ row' = row + 1
  /\ pc' = IF pc = "second1" THEN "rows1" ELSE "rows2"
  /\ UNCHANGED <<cleared, result, poll, before>>

\* Faulty: the index is incremented between the two writes.
WriteSecondNext == Second(sub + 1)

WriteSecond == Second(sub)

\* No more rows: the other query, or five seconds of sleep.
RowsEnd ==
  /\ pc \in {"rows1", "rows2"}
  /\ row = Len(Held)
  /\ pc' = IF pc = "rows1" THEN "query2" ELSE "query1"
  /\ UNCHANGED <<cleared, registers, sub, row, result, poll, before, early, broken>>

Iscs ==
  \/ Connect
  \/ Query1
  \/ Query1Fails
  \/ Query2
  \/ Query2Fails
  \/ WriteFirst
  \/ WriteSecond
  \/ RowsEnd

\* The thread has returned, or the process is gone.
Halt == (pc = "exit" \/ broken # "no") /\ UNCHANGED vars

Next ==
  \/ broken = "no" /\ \E m \in Mappings : Allocate(m) \/ Clear(m)
  \/ broken = "no" /\ Iscs
  \/ Halt

Spec == Init /\ [][Next]_vars

-----------------------------------------------------------------------------
(* Properties                                                              *)

\* The types of the variables: the clearing loop, Iscs and the history.
TypeOK ==
  /\ cleared \in [Mappings -> -1 .. NB]
  /\ registers \in [Mappings -> [Indices -> Bit]]
  /\ pc \in {"connect", "exit", "query1", "rows1", "second1", "query2", "rows2", "second2"}
  /\ sub \in Nat /\ row \in Nat
  /\ result \in [subsystems : Rows(Subsystems), stations : Rows(Stations)]
  /\ poll \in {"missed", "early", "whole"}
  /\ before \in [Mappings -> [Indices -> Bit]]
  /\ early \in BOOLEAN /\ broken \in {"no", "null", "past"}

\* The two servers never disagree, whatever the queries do and wherever the index
\* stands: in the register Iscs is writing only, between its two writes.  (Only a
\* server that clears what Iscs has written makes them differ for longer.)
Mirrored ==
  ~early /\ broken = "no" => \A k \in Indices :
    \/ pc \in {"second1", "second2"} /\ k = sub
    \/ registers["mb_mapping1"][k] = registers["mb_mapping2"][k]

\* A poll that writes past the registers is one whose first query gave no result:
\* only that query resets the index, so the stations go behind those of the poll
\* before.
InBounds == broken = "past" => poll = "missed"

\* Where Iscs is in the result it holds: the subsystems begin at register 0, the
\* stations behind those of this poll unless its first query gave nothing.
Counted ==
  /\ pc \in {"rows1", "second1", "rows2", "second2"} => row <= Len(Held)
  /\ pc \in {"second1", "second2"} => row < Len(Held)
  /\ pc \in {"rows1", "second1"} => sub = row
  /\ pc = "query2" /\ poll # "missed" => sub = Len(result.subsystems)
  /\ pc \in {"rows2", "second2"} /\ poll # "missed" => sub = Len(result.subsystems) + row
  /\ pc \in {"connect", "exit"} => poll = "missed"

\* As long as no register was written before it was cleared: those still to be cleared
\* are zero, and the first mapping has the row the second one lacks.
Clean ==
  ~early =>
    /\ \A m \in Mappings, k \in Indices : k >= cleared[m] => registers[m][k] = 0
    /\ pc \in {"second1", "second2"} /\ broken = "no" =>
         sub \in Indices /\ registers["mb_mapping1"][sub] = Held[row + 1]

\* The rows of each result that mapping m has, in a poll with both.
Ahead(m) == IF m = "mb_mapping1" /\ pc \in {"second1", "second2"} THEN row + 1 ELSE row
Rows1(m) == IF pc \in {"rows1", "second1"} THEN Ahead(m) ELSE Len(result.subsystems)
Rows2(m) == IF pc \in {"rows2", "second2"} THEN Ahead(m)
            ELSE IF pc = "query1" THEN Len(result.stations) ELSE 0

\* A poll that found both mappings ready fills them row by row.
Filled ==
  poll = "whole" => \A m \in Mappings :
    /\ cleared[m] = NB
    /\ \A k \in 1 .. Rows1(m) : registers[m][k - 1] = result.subsystems[k]
    /\ \A k \in 1 .. Rows2(m) :
         registers[m][Len(result.subsystems) + k - 1] = result.stations[k]
    /\ \A k \in Indices : k >= Rows1(m) + Rows2(m) => registers[m][k] = before[m][k]

\* Iscs keeps its types and its place, and writes past the registers only after a
\* failed query: with what it has written so far, the inductive invariant.
RegistersInv == TypeOK /\ InBounds /\ Counted /\ Clean /\ Filled

\* What a poll leaves that found both mappings ready and got both its results,
\* whatever went wrong in the polls before: the subsystems from register 0 on, the
\* stations right behind them, and behind those what was there before.  So the
\* stations are at Subsystems only if the first result has all its rows: one row
\* fewer moves each of them by a register, and leaves the last one in two.
InPlace ==
  pc = "query1" /\ poll = "whole" => \A m \in Mappings, k \in Indices :
    LET first == Len(result.subsystems)
        both  == first + Len(result.stations)
    IN  registers[m][k] = IF k < first THEN result.subsystems[k + 1]
                          ELSE IF k < both THEN result.stations[k - first + 1]
                          ELSE before[m][k]

=============================================================================
