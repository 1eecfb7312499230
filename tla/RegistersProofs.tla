---------------------------- MODULE RegistersProofs ----------------------------
(***************************************************************************)
(* Proofs about Registers: for any two limits that fit the mappings, and   *)
(* results of any length up to them, the two servers never disagree but in *)
(* the register being written, a whole poll puts the rows one behind the   *)
(* other and leaves the rest, and only a poll whose first query failed     *)
(* writes past the registers.                                              *)
(***************************************************************************)
EXTENDS Registers, SequenceTheorems, TLAPS

LEMMA Numbers ==
  /\ Subsystems \in Nat /\ Stations \in Nat /\ NB \in Nat /\ Subsystems + Stations <= NB
  /\ Indices \subseteq Nat /\ \A k \in Nat : k \in Indices <=> k < NB
  BY RegistersAssumption DEF Indices

LEMMA SameEnd ==
  ASSUME NEW a \in Nat, NEW b \in Nat, 1 .. a = 1 .. b PROVE a = b
  <1>1. a # 0 => a \in 1 .. b
    OBVIOUS
  <1>2. b # 0 => b \in 1 .. a
    OBVIOUS
  <1> QED BY <1>1, <1>2

\* Two results within their limits fit the registers.
LEMMA BothFit ==
  ASSUME NEW a \in 0 .. Subsystems, NEW b \in 0 .. Stations
  PROVE  a \in Nat /\ b \in Nat /\ a + b <= NB
  BY Numbers

\* A result is a sequence of bits within its limit.
LEMMA RowsAre ==
  ASSUME NEW limit \in Nat, NEW rows \in Rows(limit)
  PROVE  Len(rows) \in 0 .. limit /\ \A k \in 1 .. Len(rows) : rows[k] \in Bit
  <1>1. PICK n \in 0 .. limit : rows \in [1 .. n -> Bit]
    BY DEF Rows
  <1>2. rows \in Seq(Bit)
    BY <1>1, SeqDef
  <1>3. Len(rows) \in Nat /\ DOMAIN rows = 1 .. Len(rows)
    BY <1>2, LenProperties
  <1>4. 1 .. n = 1 .. Len(rows)
    BY <1>1, <1>3
  <1>5. n \in Nat /\ Len(rows) \in Nat
    BY <1>3
  <1>6. Len(rows) = n
    BY <1>4, <1>5, SameEnd
  <1> QED BY <1>1, <1>6

\* How long the results are that Iscs has, and the one it holds.
LEMMA Lengths ==
  ASSUME TypeOK
  PROVE  /\ Len(result.subsystems) \in 0 .. Subsystems /\ Len(result.subsystems) \in Nat
         /\ Len(result.stations) \in 0 .. Stations /\ Len(result.stations) \in Nat
         /\ Len(result.subsystems) + Len(result.stations) <= NB
         /\ Len(Held) \in Nat /\ \A k \in 1 .. Len(Held) : Held[k] \in Bit
  <1>1. result.subsystems \in Rows(Subsystems) /\ result.stations \in Rows(Stations)
    BY DEF TypeOK
  <1>2. /\ Len(result.subsystems) \in 0 .. Subsystems /\ Len(result.stations) \in 0 .. Stations
        /\ \A k \in 1 .. Len(result.subsystems) : result.subsystems[k] \in Bit
        /\ \A k \in 1 .. Len(result.stations) : result.stations[k] \in Bit
    BY <1>1, RowsAre, Numbers
  <1>3. Held = result.subsystems \/ Held = result.stations
    BY DEF Held
  <1>4. /\ Len(result.subsystems) \in Nat /\ Len(result.stations) \in Nat
        /\ Len(result.subsystems) + Len(result.stations) <= NB
    BY <1>2, BothFit
  <1> QED BY <1>2, <1>3, <1>4

\* The row Iscs writes next is a row of the result it holds.
LEMMA HeldType ==
  ASSUME TypeOK, row < Len(Held) PROVE Held[row + 1] \in Bit
  <1>1. row + 1 \in 1 .. Len(Held)
    BY Lengths DEF TypeOK
  <1> QED BY <1>1, Lengths

\* A write either changes one register of one mapping or is the last thing Iscs does.
LEMMA WriteOne ==
  ASSUME TypeOK, NEW m \in Mappings, NEW k \in Nat, Held[row + 1] \in Bit, Write(m, k)
  PROVE  /\ registers' \in [Mappings -> [Indices -> Bit]]
         /\ early' \in BOOLEAN /\ broken' \in {"no", "null", "past"}
         /\ broken' = "past" => k \notin Indices \/ broken = "past"
         /\ \A n \in Mappings, j \in Indices :
              registers'[n][j] = IF n = m /\ j = k /\ cleared[m] # -1 THEN Held[row + 1]
                                                   ELSE registers[n][j]
         /\ ~early' => ~early /\ (cleared[m] # -1 /\ k \in Indices => cleared[m] > k)
  <1>1. CASE /\ cleared[m] # -1 /\ k \in Indices
             /\ registers' = [registers EXCEPT ![m][k] = Held[row + 1]]
             /\ early' = (early \/ cleared[m] <= k)
             /\ UNCHANGED broken
    <2>1. registers' \in [Mappings -> [Indices -> Bit]]
      BY <1>1 DEF TypeOK
    <2>2. \A n \in Mappings, j \in Indices :
              registers'[n][j] = IF n = m /\ j = k /\ cleared[m] # -1 THEN Held[row + 1]
                                                   ELSE registers[n][j]
      BY <1>1 DEF TypeOK
    <2>3. early' \in BOOLEAN
      BY <1>1 DEF TypeOK
    <2>4. cleared[m] \in Int
      BY Numbers DEF TypeOK
    <2>5. ~early' => ~early /\ cleared[m] > k
      <3>1. ~early' => ~early /\ ~(cleared[m] <= k)
        BY <1>1
      <3>2. ~(cleared[m] <= k) => cleared[m] > k
        BY <2>4
      <3> QED BY <3>1, <3>2
    <2> QED BY <1>1, <2>1, <2>2, <2>3, <2>5 DEF TypeOK
  <1>2. CASE cleared[m] = -1 /\ broken' = "null" /\ UNCHANGED <<registers, early>>
    <2>1. early' \in BOOLEAN /\ registers' \in [Mappings -> [Indices -> Bit]]
      BY <1>2 DEF TypeOK
    <2>2. ~early' => ~early
      BY <1>2
    <2> QED BY <1>2, <2>1, <2>2
  <1>3. CASE k \notin Indices /\ broken' = "past" /\ UNCHANGED <<registers, early>>
    BY <1>3 DEF TypeOK
  <1> QED BY <1>1, <1>2, <1>3 DEF Write

-----------------------------------------------------------------------------
(* The types and the place in the result                                   *)

LEMMA InitType == Init => TypeOK /\ Counted
  <1> SUFFICES ASSUME Init PROVE TypeOK /\ Counted
    OBVIOUS
  <1>1. cleared \in [Mappings -> -1 .. NB]
    BY Numbers DEF Init
  <1>2. registers \in [Mappings -> [Indices -> Bit]]
    BY DEF Init, Bit
  <1>3. result \in [subsystems : Rows(Subsystems), stations : Rows(Stations)]
    <2>1. << >> \in [1 .. 0 -> Bit]
      OBVIOUS
    <2>2. ASSUME NEW limit \in Nat PROVE << >> \in Rows(limit)
      <3>1. 0 \in 0 .. limit
        OBVIOUS
      <3> QED BY <2>1, <3>1 DEF Rows
    <2>3. << >> \in Rows(Subsystems) /\ << >> \in Rows(Stations)
      BY <2>2, Numbers
    <2> QED BY <2>3 DEF Init
  <1>4. early \in BOOLEAN
    BY DEF Init
  <1> QED BY <1>1, <1>2, <1>3, <1>4 DEF Init, TypeOK, Counted, Held

LEMMA ServersType ==
  ASSUME TypeOK, NEW m \in Mappings, Allocate(m) \/ Clear(m) PROVE TypeOK'
  <1>1. CASE Allocate(m)
    BY <1>1, Numbers DEF TypeOK, Allocate
  <1>2. CASE Clear(m)
    <2>1. cleared[m] + 1 \in -1 .. NB
      BY <1>2, Numbers DEF Clear
    <2>2. [k \in Indices |-> IF k = cleared[m] THEN 0 ELSE registers[m][k]] \in [Indices -> Bit]
      BY DEF TypeOK, Bit
    <2>3. registers' \in [Mappings -> [Indices -> Bit]] /\ cleared' \in [Mappings -> -1 .. NB]
      BY <1>2, <2>1, <2>2 DEF TypeOK, Clear, ClearRegister
    <2> QED BY <1>2, <2>3 DEF TypeOK, Clear, ClearRegister
  <1> QED BY <1>1, <1>2

LEMMA IscsType ==
  ASSUME TypeOK, Counted, Iscs PROVE TypeOK'
  <1>1. CASE Connect \/ Query1Fails \/ Query2Fails \/ RowsEnd
    BY <1>1 DEF TypeOK, Connect, Query1Fails, Query2Fails, RowsEnd
  <1>2. CASE Query1
    <2>1. PICK r \in Rows(Subsystems) : result' = [result EXCEPT !.subsystems = r]
      BY <1>2 DEF Query1, Answer1
    <2>2. result' \in [subsystems : Rows(Subsystems), stations : Rows(Stations)]
      BY <2>1 DEF TypeOK
    <2> QED BY <1>2, <2>2 DEF TypeOK, Query1, Answer1
  <1>3. CASE Query2
    <2>1. PICK r \in Rows(Stations) : result' = [result EXCEPT !.stations = r]
      BY <1>3 DEF Query2, Answer2
    <2>2. result' \in [subsystems : Rows(Subsystems), stations : Rows(Stations)]
      BY <2>1 DEF TypeOK
    <2> QED BY <1>3, <2>2 DEF TypeOK, Query2, Answer2
  <1>4. CASE WriteFirst
    <2>1. sub \in Nat /\ "mb_mapping1" \in Mappings /\ Held[row + 1] \in Bit
      BY <1>4, HeldType DEF WriteFirst, TypeOK, Mappings
    <2>2. /\ registers' \in [Mappings -> [Indices -> Bit]]
          /\ early' \in BOOLEAN /\ broken' \in {"no", "null", "past"}
      BY <1>4, <2>1, WriteOne DEF WriteFirst
    <2> QED BY <1>4, <2>2 DEF TypeOK, WriteFirst
  <1>5. CASE WriteSecond
    <2>1. sub \in Nat /\ "mb_mapping2" \in Mappings /\ Held[row + 1] \in Bit
      BY <1>5, HeldType DEF WriteSecond, Second, Counted, TypeOK, Mappings
    <2>2. /\ registers' \in [Mappings -> [Indices -> Bit]]
          /\ early' \in BOOLEAN /\ broken' \in {"no", "null", "past"}
      BY <1>5, <2>1, WriteOne DEF WriteSecond, Second
    <2> QED BY <1>5, <2>2 DEF TypeOK, WriteSecond, Second
  <1> QED BY <1>1, <1>2, <1>3, <1>4, <1>5 DEF Iscs

\* The index and the count of rows go hand in hand through a whole poll.
LEMMA IscsCounted ==
  ASSUME TypeOK, Counted, Iscs PROVE Counted'
  <1>0. row \in Nat /\ sub \in Nat
    BY DEF TypeOK
  <1>1. CASE Connect \/ Query1Fails \/ Query2Fails
    BY <1>1 DEF TypeOK, Counted, Connect, Query1Fails, Query2Fails
  <1>2. CASE Query1
    <2>1. PICK r \in Rows(Subsystems) : result' = [result EXCEPT !.subsystems = r]
      BY <1>2 DEF Query1, Answer1
    <2>2. result'.subsystems = r /\ Len(r) >= 0
      BY <2>1, RowsAre, Numbers DEF TypeOK
    <2> QED BY <1>2, <2>2 DEF Query1, Answer1, Counted, Held
  <1>3. CASE Query2
    <2>1. PICK r \in Rows(Stations) : result' = [result EXCEPT !.stations = r]
      BY <1>3 DEF Query2, Answer2
    <2>2. result'.stations = r /\ result'.subsystems = result.subsystems /\ Len(r) >= 0
      BY <2>1, RowsAre, Numbers DEF TypeOK
    <2>3. Len(result.subsystems) \in Nat
      BY Lengths
    <2> QED BY <1>0, <1>3, <2>2, <2>3 DEF Query2, Answer2, Counted, Held
  <1>4. CASE WriteFirst
    BY <1>4 DEF WriteFirst, Counted, Held
  <1>5. CASE WriteSecond
    <2>1. /\ pc \in {"second1", "second2"} /\ row < Len(Held)
          /\ pc' = (IF pc = "second1" THEN "rows1" ELSE "rows2")
          /\ sub' = sub + 1 /\ row' = row + 1 /\ UNCHANGED <<result, poll>>
      BY <1>5 DEF WriteSecond, Second, Counted
    <2>2. Held' = Held /\ row' <= Len(Held)
      BY <1>0, <2>1, Lengths DEF Held
    <2>3. pc = "second1" => sub' = row'
      BY <1>0, <2>1 DEF Counted
    <2>4. pc = "second2" /\ poll # "missed" => sub' = Len(result.subsystems) + row'
      <3> DEFINE first == Len(result.subsystems)
      <3>1. first \in Nat
        BY Lengths
      <3>2. pc = "second2" /\ poll # "missed" => sub = first + row
        BY DEF Counted
      <3> HIDE DEF first
      <3>3. pc = "second2" /\ poll # "missed" => sub' = first + row'
        BY <1>0, <2>1, <3>1, <3>2
      <3> QED BY <3>3 DEF first
    <2> QED BY <2>1, <2>2, <2>3, <2>4 DEF Counted
  <1>6. CASE RowsEnd
    BY <1>0, <1>6, Lengths DEF RowsEnd, Counted, Held
  <1> QED BY <1>1, <1>2, <1>3, <1>4, <1>5, <1>6 DEF Iscs

LEMMA NextType == TypeOK /\ Counted /\ [Next]_vars => TypeOK' /\ Counted'
  <1> SUFFICES ASSUME TypeOK, Counted, [Next]_vars PROVE TypeOK' /\ Counted'
    OBVIOUS
  <1>1. CASE \E m \in Mappings : Allocate(m) \/ Clear(m)
    <2>1. UNCHANGED <<pc, sub, row, result, poll>>
      BY <1>1 DEF Allocate, Clear, ClearRegister
    <2> QED BY <1>1, <2>1, ServersType DEF Counted, Held
  <1>2. CASE Iscs
    BY <1>2, IscsType, IscsCounted
  <1>3. CASE UNCHANGED vars
    BY <1>3 DEF vars, TypeOK, Counted, Held
  <1> QED BY <1>1, <1>2, <1>3 DEF Next, Halt

-----------------------------------------------------------------------------
(* A whole poll stays within the registers                                 *)

\* A register written in a poll whose first query gave its rows exists.
LEMMA Within ==
  ASSUME TypeOK, Counted, pc \in {"rows1", "second1", "rows2", "second2"},
         row < Len(Held), poll # "missed" \/ pc \in {"rows1", "second1"}
  PROVE  sub \in Indices
  <1>0. row \in Nat /\ sub \in Nat
    BY DEF TypeOK
  <1>1. CASE pc \in {"rows1", "second1"}
    BY <1>0, <1>1, Lengths, Numbers DEF Counted, Held
  <1>2. CASE pc \in {"rows2", "second2"}
    BY <1>0, <1>2, Lengths, Numbers DEF Counted, Held
  <1> QED BY <1>1, <1>2

LEMMA NextInBounds ==
  ASSUME TypeOK, Counted, InBounds, [Next]_vars PROVE InBounds'
  <1>1. CASE UNCHANGED <<broken, poll>>
    BY <1>1 DEF InBounds
  <1>2. CASE (Query1 \/ Query1Fails \/ Query2Fails) /\ broken = "no"
    BY <1>2 DEF Query1, Answer1, Query1Fails, Query2Fails, InBounds
  <1>3. CASE WriteFirst \/ WriteSecond
    <2>1. /\ pc \in {"rows1", "second1", "rows2", "second2"} /\ row < Len(Held) /\ poll' = poll
          /\ sub \in Nat /\ Held[row + 1] \in Bit
          /\ \E m \in Mappings : Write(m, sub)
      BY <1>3, HeldType DEF WriteFirst, WriteSecond, Second, Counted, Mappings, TypeOK
    <2>2. broken' = "past" => sub \notin Indices \/ broken = "past"
      BY <2>1, WriteOne
    <2> QED BY <2>1, <2>2, Within DEF InBounds, TypeOK
  <1> QED BY <1>1, <1>2, <1>3
          DEF Next, Halt, Iscs, Allocate, Clear, ClearRegister, Connect, Query2, Answer2,
              RowsEnd, vars

-----------------------------------------------------------------------------
(* The registers                                                           *)

LEMMA NextClean ==
  ASSUME TypeOK, Counted, Clean, [Next]_vars PROVE Clean'
  <1>0. /\ cleared \in [Mappings -> -1 .. NB] /\ registers \in [Mappings -> [Indices -> Bit]]
        /\ row \in Nat /\ sub \in Nat /\ -1 .. NB \subseteq Int
        /\ "mb_mapping1" \in Mappings /\ "mb_mapping2" \in Mappings
    BY Numbers DEF TypeOK, Mappings
  <1> SUFFICES ASSUME ~early' PROVE
        /\ \A m \in Mappings, k \in Indices : k >= cleared'[m] => registers'[m][k] = 0
        /\ pc' \in {"second1", "second2"} /\ broken' = "no" =>
             sub' \in Indices /\ registers'["mb_mapping1"][sub'] = Held'[row' + 1]
    BY DEF Clean
  <1>1. CASE \E m \in Mappings : Allocate(m)
    <2>1. PICK m \in Mappings : cleared[m] = -1 /\ cleared' = [cleared EXCEPT ![m] = 0]
      BY <1>1 DEF Allocate
    <2>2. UNCHANGED <<registers, pc, sub, row, result, early, broken>>
      BY <1>1 DEF Allocate
    <2>3. \A n \in Mappings, k \in Indices : k >= cleared'[n] => k >= cleared[n]
      BY <1>0, <2>1, Numbers
    <2> QED BY <2>2, <2>3 DEF Clean, Held
  <1>2. CASE \E m \in Mappings : Clear(m)
    <2>1. PICK m \in Mappings : cleared[m] \in 0 .. NB - 1 /\ ClearRegister(m)
      BY <1>2 DEF Clear
    <2>2. UNCHANGED <<pc, sub, row, result, early, broken>>
      BY <2>1 DEF ClearRegister
    <2>3. cleared[m] \in Indices /\ registers[m][cleared[m]] = 0
      BY <1>0, <2>1, <2>2 DEF Clean, Indices
    <2>4. \A n \in Mappings, k \in Indices : registers'[n][k] = registers[n][k]
      BY <1>0, <2>1, <2>3 DEF ClearRegister
    <2>5. \A n \in Mappings, k \in Indices : k >= cleared'[n] => k >= cleared[n]
      BY <1>0, <2>1, Numbers DEF ClearRegister
    <2>6. \A n \in Mappings, k \in Indices : k >= cleared'[n] => registers'[n][k] = 0
      BY <2>2, <2>4, <2>5 DEF Clean
    <2>7. Held' = Held
      BY <2>2 DEF Held
    <2> QED BY <1>0, <2>2, <2>4, <2>6, <2>7 DEF Clean
  <1>3. CASE Connect \/ Query1 \/ Query1Fails \/ Query2 \/ Query2Fails \/ RowsEnd
    <2>1. UNCHANGED <<cleared, registers, early>> /\ pc' \notin {"second1", "second2"}
      BY <1>3 DEF Connect, Query1, Answer1, Query1Fails, Query2, Answer2, Query2Fails, RowsEnd
    <2> QED BY <2>1 DEF Clean
  <1>4. ASSUME NEW m \in Mappings, Write(m, sub), cleared' = cleared,
               row < Len(Held), pc \in {"rows1", "second1", "rows2", "second2"}
        PROVE  /\ \A n \in Mappings, k \in Indices : k >= cleared'[n] => registers'[n][k] = 0
               /\ broken' = "no" => sub \in Indices /\ registers'[m][sub] = Held[row + 1]
    <2>1. Held[row + 1] \in Bit
      BY <1>4, HeldType
    <2>2. /\ \A n \in Mappings, j \in Indices :
               registers'[n][j] = IF n = m /\ j = sub /\ cleared[m] # -1 THEN Held[row + 1]
                                                     ELSE registers[n][j]
          /\ ~early /\ (cleared[m] # -1 /\ sub \in Indices => cleared[m] > sub)
      BY <1>0, <1>4, <2>1, WriteOne
    <2>3. broken' = "no" => cleared[m] # -1 /\ sub \in Indices
      BY <1>4 DEF Write
    <2>4. ASSUME NEW n \in Mappings, NEW k \in Indices, k >= cleared[n]
          PROVE registers'[n][k] = 0
      <3>1. registers[n][k] = 0
        BY <2>2, <2>4 DEF Clean
      <3>2. ~(n = m /\ k = sub /\ cleared[m] # -1)
        BY <1>0, <2>2, <2>4
      <3> QED BY <2>2, <3>1, <3>2
    <2> QED BY <1>4, <2>2, <2>3, <2>4
  <1>5. CASE WriteFirst
    <2>1. /\ row < Len(Held) /\ Write("mb_mapping1", sub) /\ UNCHANGED <<cleared, sub, row, result>>
          /\ pc \in {"rows1", "rows2"} /\ pc' = IF pc = "rows1" THEN "second1" ELSE "second2"
      BY <1>5 DEF WriteFirst
    <2>2. Held' = Held
      BY <2>1 DEF Held
    <2> QED BY <1>0, <1>4, <2>1, <2>2
  <1>6. CASE WriteSecond
    <2>1. /\ row < Len(Held) /\ Write("mb_mapping2", sub) /\ cleared' = cleared
          /\ pc \in {"second1", "second2"} /\ pc' \notin {"second1", "second2"}
      BY <1>6 DEF WriteSecond, Second, Counted
    <2> QED BY <1>0, <1>4, <2>1
  <1>7. CASE UNCHANGED vars
    BY <1>7 DEF vars, Clean, Held
  <1> QED BY <1>1, <1>2, <1>3, <1>5, <1>6, <1>7 DEF Next, Iscs, Halt

LEMMA NextMirrored ==
  ASSUME TypeOK, Counted, Clean, Mirrored, [Next]_vars PROVE Mirrored'
  <1>0. /\ cleared \in [Mappings -> -1 .. NB] /\ registers \in [Mappings -> [Indices -> Bit]]
        /\ sub \in Nat
        /\ "mb_mapping1" \in Mappings /\ "mb_mapping2" \in Mappings
    BY DEF TypeOK, Mappings
  <1> SUFFICES ASSUME ~early', broken' = "no", NEW k \in Indices,
                      ~(pc' \in {"second1", "second2"} /\ k = sub')
               PROVE  registers'["mb_mapping1"][k] = registers'["mb_mapping2"][k]
    BY DEF Mirrored
  <1>1. CASE UNCHANGED <<registers, early, broken>> /\ pc \notin {"second1", "second2"}
    BY <1>1 DEF Mirrored
  <1>2. CASE \E m \in Mappings : Allocate(m)
    BY <1>2 DEF Allocate, Mirrored
  <1>3. CASE \E m \in Mappings : Clear(m)
    <2>1. PICK m \in Mappings : cleared[m] \in 0 .. NB - 1 /\ ClearRegister(m)
      BY <1>3 DEF Clear
    <2>2. UNCHANGED <<pc, sub, early, broken>>
      BY <2>1 DEF ClearRegister
    <2>3. cleared[m] \in Indices /\ registers[m][cleared[m]] = 0
      BY <2>1, <2>2, Numbers DEF Clean, Indices
    <2>4. \A n \in Mappings : registers'[n][k] = registers[n][k]
      BY <1>0, <2>1, <2>3 DEF ClearRegister
    <2> QED BY <1>0, <2>2, <2>4 DEF Mirrored
  <1>4. ASSUME NEW m \in Mappings, Write(m, sub), row < Len(Held)
        PROVE  /\ ~early /\ broken = "no" /\ sub \in Indices
               /\ \A n \in Mappings, j \in Indices :
                    registers'[n][j] = IF n = m /\ j = sub THEN Held[row + 1] ELSE registers[n][j]
    <2>1. Held[row + 1] \in Bit
      BY <1>4, HeldType
    <2>2. cleared[m] # -1 /\ sub \in Indices /\ broken = "no"
      BY <1>4 DEF Write
    <2> QED BY <1>0, <1>4, <2>1, <2>2, WriteOne
  <1>5. CASE WriteFirst
    <2>1. /\ Write("mb_mapping1", sub) /\ row < Len(Held) /\ sub' = sub
          /\ pc \in {"rows1", "rows2"} /\ pc' \in {"second1", "second2"}
      BY <1>5 DEF WriteFirst
    <2> QED BY <1>0, <1>4, <2>1 DEF Mirrored
  <1>6. CASE WriteSecond
    <2>1. Write("mb_mapping2", sub) /\ row < Len(Held) /\ pc \in {"second1", "second2"}
      BY <1>6 DEF WriteSecond, Second, Counted
    <2>2. /\ ~early /\ broken = "no" /\ sub \in Indices
          /\ \A n \in Mappings, j \in Indices : registers'[n][j] =
               IF n = "mb_mapping2" /\ j = sub THEN Held[row + 1] ELSE registers[n][j]
      BY <1>0, <1>4, <2>1
    <2>3. registers["mb_mapping1"][sub] = Held[row + 1]
      BY <2>1, <2>2 DEF Clean
    <2>4. k = sub \/ registers["mb_mapping1"][k] = registers["mb_mapping2"][k]
      BY <2>2 DEF Mirrored
    <2> QED BY <1>0, <2>2, <2>3, <2>4
  <1>7. CASE UNCHANGED vars
    BY <1>7 DEF vars, Mirrored
  <1> QED BY <1>1, <1>2, <1>3, <1>5, <1>6, <1>7
          DEF Next, Iscs, Halt, Connect, Query1, Answer1, Query1Fails, Query2, Answer2,
              Query2Fails, RowsEnd

-----------------------------------------------------------------------------
(* What a whole poll leaves                                                *)

LEMMA Kinds ==
  TypeOK => /\ row \in Nat /\ sub \in Nat
            /\ registers \in [Mappings -> [Indices -> Bit]]
            /\ "mb_mapping1" \in Mappings /\ "mb_mapping2" \in Mappings
            /\ "mb_mapping1" # "mb_mapping2"
  BY DEF TypeOK, Mappings

\* A step of a server: in a whole poll both have cleared all there is.
LEMMA ServersFilled ==
  ASSUME TypeOK, Filled, NEW n \in Mappings, Allocate(n) \/ Clear(n) PROVE Filled'
  <1>1. UNCHANGED <<poll, pc, row, result, before>>
    BY DEF Allocate, Clear, ClearRegister
  <1> SUFFICES ASSUME poll = "whole" PROVE FALSE
    BY <1>1 DEF Filled
  <1>2. cleared[n] = NB
    BY DEF Filled
  <1> QED BY <1>2, Numbers DEF Allocate, Clear

\* One row more in mapping m: the register it goes to is the next one.
LEMMA WriteFilled ==
  ASSUME TypeOK, Counted, Filled, poll = "whole", NEW m \in Mappings, Write(m, sub),
         pc \in {"rows1", "second1", "rows2", "second2"}, row < Len(Held)
  PROVE  /\ sub \in Indices
         /\ \A n \in Mappings, j \in Indices :
              registers'[n][j] = IF n = m /\ j = sub THEN Held[row + 1] ELSE registers[n][j]
  <1>1. Held[row + 1] \in Bit
    BY HeldType
  <1>2. sub \in Indices
    BY Within
  <1>3. cleared[m] # -1
    BY Numbers DEF Filled
  <1> QED BY <1>1, <1>2, <1>3, Kinds, WriteOne

LEMMA IscsFilled ==
  ASSUME TypeOK, Counted, Filled, Iscs PROVE Filled'
  <1> SUFFICES ASSUME poll' = "whole", NEW m \in Mappings
               PROVE  /\ cleared'[m] = NB
                      /\ \A k \in 1 .. Rows1(m)' : registers'[m][k - 1] = result'.subsystems[k]
                      /\ \A k \in 1 .. Rows2(m)' :
                           registers'[m][Len(result'.subsystems) + k - 1] = result'.stations[k]
                      /\ \A k \in Indices : k >= Rows1(m)' + Rows2(m)' =>
                           registers'[m][k] = before'[m][k]
    BY DEF Filled
  <1>0. /\ cleared' = cleared /\ row \in Nat
        /\ Len(result.subsystems) \in Nat /\ Len(result.stations) \in Nat
    BY Kinds, Lengths
    DEF Iscs, Connect, Query1, Answer1, Query1Fails, Query2, Answer2, Query2Fails,
        WriteFirst, WriteSecond, Second, RowsEnd
  <1>1. CASE Query1
    <2>1. cleared[m] = NB /\ pc' = "rows1" /\ row' = 0 /\ registers' = registers
      BY <1>1 DEF Query1, Answer1
    <2>2. before' = registers
      BY <1>1 DEF Query1, Answer1
    <2>3. Rows1(m)' = 0 /\ Rows2(m)' = 0
      BY <2>1 DEF Rows1, Rows2, Ahead
    <2> QED BY <1>0, <2>1, <2>2, <2>3
  <1>2. CASE Query2
    <2>1. /\ poll = "whole" /\ pc = "query2" /\ pc' = "rows2" /\ row' = 0
          /\ registers' = registers /\ before' = before
      BY <1>2 DEF Query2, Answer2
    <2>2. result'.subsystems = result.subsystems
      BY <1>2 DEF Query2, Answer2, TypeOK
    <2>3. Rows1(m)' = Rows1(m) /\ Rows2(m)' = 0 /\ Rows2(m) = 0
      BY <2>1, <2>2 DEF Rows1, Rows2, Ahead
    <2> QED BY <1>0, <2>1, <2>2, <2>3 DEF Filled
  <1>3. CASE RowsEnd
    <2>1. /\ poll = "whole" /\ pc \in {"rows1", "rows2"} /\ row = Len(Held)
          /\ pc' = (IF pc = "rows1" THEN "query2" ELSE "query1")
          /\ UNCHANGED <<registers, result, before>>
      BY <1>3 DEF RowsEnd
    <2>2. Rows1(m)' = Rows1(m) /\ Rows2(m)' = Rows2(m)
      BY <2>1 DEF Rows1, Rows2, Ahead, Held
    <2> QED BY <1>0, <2>1, <2>2 DEF Filled
  <1>4. CASE Connect \/ Query1Fails \/ Query2Fails
    BY <1>4 DEF Connect, Query1Fails, Query2Fails, Counted
  <1>5. ASSUME NEW n \in Mappings, Write(n, sub), UNCHANGED <<poll, result, before>>,
               pc \in {"rows1", "second1", "rows2", "second2"}, row < Len(Held),
               NEW a \in Nat, NEW b \in Nat,
               pc \in {"rows1", "second1"} =>
                  a = (IF n = m THEN row + 1 ELSE Rows1(m)) /\ b = 0,
               pc \in {"rows2", "second2"} =>
                  a = Len(result.subsystems) /\ b = (IF n = m THEN row + 1 ELSE Rows2(m)),
               n = m => Ahead(m) = row
        PROVE  /\ \A k \in 1 .. a : registers'[m][k - 1] = result.subsystems[k]
               /\ \A k \in 1 .. b :
                    registers'[m][Len(result.subsystems) + k - 1] = result.stations[k]
               /\ \A k \in Indices : k >= a + b => registers'[m][k] = before[m][k]
    <2> DEFINE first == Len(result.subsystems)
    <2>0. poll = "whole"
      BY <1>5
    <2>1. /\ sub \in Indices /\ sub \in Nat /\ row \in Nat
          /\ \A l \in Mappings, j \in Indices :
               registers'[l][j] = IF l = n /\ j = sub THEN Held[row + 1] ELSE registers[l][j]
      BY <1>5, <2>0, WriteFilled, Kinds
    <2>2. CASE pc \in {"rows1", "second1"}
      <3>1. sub = row /\ Held = result.subsystems /\ row < first
        BY <1>5, <2>2 DEF Counted, Held
      <3>2. /\ \A k \in 1 .. Rows1(m) : registers[m][k - 1] = result.subsystems[k]
            /\ Rows2(m) = 0
            /\ \A k \in Indices : k >= Rows1(m) + Rows2(m) => registers[m][k] = before[m][k]
        BY <2>0, <2>2 DEF Filled, Rows2
      <3>3. n = m => Rows1(m) = row
        BY <1>5, <2>2 DEF Rows1
      <3>4. Rows1(m) = row \/ Rows1(m) = row + 1
        BY <2>2 DEF Rows1, Ahead
      <3>5. first <= NB /\ \A k \in 1 .. a : k - 1 \in Indices
        <4>1. first \in Nat /\ first <= NB
          BY <1>0, Lengths, Numbers
        <4>2. a <= first
          BY <1>5, <2>1, <2>2, <3>1, <3>4, <4>1
        <4> QED BY <4>1, <4>2, Numbers DEF Indices
      <3>6. ASSUME NEW k \in 1 .. a PROVE registers'[m][k - 1] = result.subsystems[k]
        BY <1>5, <2>1, <2>2, <3>1, <3>2, <3>3, <3>4, <3>5
      <3>7. ASSUME NEW k \in Indices, k >= a + b PROVE registers'[m][k] = before[m][k]
        <4>1. k \in Nat /\ k >= Rows1(m) + Rows2(m) /\ ~(n = m /\ k = sub)
          BY <1>5, <2>1, <2>2, <3>1, <3>2, <3>3, <3>4, <3>7, Numbers
        <4> QED BY <2>1, <3>2, <4>1
      <3> QED BY <1>5, <2>2, <3>6, <3>7
    <2>3. CASE pc \in {"rows2", "second2"}
      <3>1. sub = first + row /\ Held = result.stations /\ row < Len(result.stations)
        BY <1>5, <2>0, <2>3 DEF Counted, Held
      <3>2. /\ \A k \in 1 .. first : registers[m][k - 1] = result.subsystems[k]
            /\ \A k \in 1 .. Rows2(m) : registers[m][first + k - 1] = result.stations[k]
            /\ Rows1(m) = first
            /\ \A k \in Indices : k >= Rows1(m) + Rows2(m) => registers[m][k] = before[m][k]
        BY <2>0, <2>3 DEF Filled, Rows1
      <3>3. n = m => Rows2(m) = row
        BY <1>5, <2>3 DEF Rows2
      <3>4. Rows2(m) = row \/ Rows2(m) = row + 1
        BY <2>3 DEF Rows2, Ahead
      <3>5. /\ \A k \in 1 .. first : k - 1 \in Indices /\ k - 1 # sub
            /\ \A k \in 1 .. b : first + k - 1 \in Indices
        <4>1. first \in Nat /\ Len(result.stations) \in Nat /\ first + Len(result.stations) <= NB
          BY <1>0, Lengths
        <4>2. b <= Len(result.stations)
          <5>1. b = row \/ b = row + 1
            BY <1>5, <2>3, <3>4
          <5> QED BY <2>1, <3>1, <4>1, <5>1
        <4>3. /\ \A k \in 1 .. first : k - 1 \in Nat /\ k - 1 < NB /\ k - 1 # sub
              /\ \A k \in 1 .. b : first + k - 1 \in Nat /\ first + k - 1 < NB
          <5> HIDE DEF first
          <5> QED BY <2>1, <3>1, <4>1, <4>2, Numbers
        <4> QED BY <4>3, Numbers
      <3>6. ASSUME NEW k \in 1 .. b
            PROVE  registers'[m][first + k - 1] = result.stations[k]
        <4>1. first + k - 1 = sub <=> k = row + 1
          BY <1>0, <2>1, <3>1
        <4>2. CASE n = m /\ k = row + 1
          BY <2>1, <3>1, <3>5, <4>1, <4>2
        <4>3. CASE ~(n = m /\ k = row + 1)
          <5>1. k \in 1 .. Rows2(m)
            BY <1>5, <2>1, <2>3, <3>3, <3>4, <4>3
          <5> QED BY <2>1, <3>2, <3>5, <4>1, <4>3, <5>1
        <4> QED BY <4>2, <4>3
      <3>7. ASSUME NEW k \in 1 .. a PROVE registers'[m][k - 1] = result.subsystems[k]
        <4>1. k \in 1 .. first
          BY <1>5, <2>3
        <4> QED BY <2>1, <3>2, <3>5, <4>1
      <3>8. ASSUME NEW k \in Indices, k >= a + b PROVE registers'[m][k] = before[m][k]
        <4>1. k \in Nat /\ k >= Rows1(m) + Rows2(m) /\ ~(n = m /\ k = sub)
          BY <1>0, <1>5, <2>1, <2>3, <3>1, <3>2, <3>3, <3>4, <3>8, Numbers
        <4> QED BY <2>1, <3>2, <4>1
      <3> QED BY <3>6, <3>7, <3>8
    <2> QED BY <1>5, <2>2, <2>3
  <1>6. CASE WriteFirst
    <2>1. /\ Write("mb_mapping1", sub) /\ row < Len(Held) /\ UNCHANGED <<poll, result, row, before>>
          /\ pc \in {"rows1", "rows2"}
          /\ pc' = (IF pc = "rows1" THEN "second1" ELSE "second2")
      BY <1>6 DEF WriteFirst
    <2>2. Rows1(m)' \in Nat /\ Rows2(m)' \in Nat
      BY <1>0, <2>1 DEF Rows1, Rows2, Ahead
    <2>3. /\ pc \in {"rows1", "second1"} =>
               /\ Rows1(m)' = (IF "mb_mapping1" = m THEN row + 1 ELSE Rows1(m))
               /\ Rows2(m)' = 0
          /\ pc \in {"rows2", "second2"} =>
               /\ Rows1(m)' = Len(result.subsystems)
               /\ Rows2(m)' = (IF "mb_mapping1" = m THEN row + 1 ELSE Rows2(m))
          /\ "mb_mapping1" = m => Ahead(m) = row
      BY <2>1 DEF Rows1, Rows2, Ahead
    <2>4. cleared[m] = NB
      BY <2>1 DEF Filled
    <2> QED BY <1>0, <1>5, <2>1, <2>2, <2>3, <2>4, Kinds
  <1>7. CASE WriteSecond
    <2>1. /\ Write("mb_mapping2", sub) /\ row < Len(Held) /\ UNCHANGED <<poll, result, before>>
          /\ row' = row + 1 /\ pc \in {"second1", "second2"}
          /\ pc' = (IF pc = "second1" THEN "rows1" ELSE "rows2")
      BY <1>7 DEF WriteSecond, Second, Counted
    <2>2. Rows1(m)' \in Nat /\ Rows2(m)' \in Nat
      BY <1>0, <2>1 DEF Rows1, Rows2, Ahead
    <2>3. /\ pc \in {"rows1", "second1"} =>
               /\ Rows1(m)' = (IF "mb_mapping2" = m THEN row + 1 ELSE Rows1(m))
               /\ Rows2(m)' = 0
          /\ pc \in {"rows2", "second2"} =>
               /\ Rows1(m)' = Len(result.subsystems)
               /\ Rows2(m)' = (IF "mb_mapping2" = m THEN row + 1 ELSE Rows2(m))
          /\ "mb_mapping2" = m => Ahead(m) = row
      BY <2>1, Kinds DEF Rows1, Rows2, Ahead, Mappings
    <2>4. cleared[m] = NB
      BY <2>1 DEF Filled
    <2> QED BY <1>0, <1>5, <2>1, <2>2, <2>3, <2>4, Kinds
  <1> QED BY <1>1, <1>2, <1>3, <1>4, <1>6, <1>7 DEF Iscs

LEMMA NextFilled ==
  ASSUME TypeOK, Counted, Filled, [Next]_vars PROVE Filled'
  <1>1. CASE UNCHANGED vars
    BY <1>1 DEF vars, Filled, Rows1, Rows2, Ahead
  <1> QED BY <1>1, ServersFilled, IscsFilled DEF Next, Halt

-----------------------------------------------------------------------------
(* The invariant and what follows                                          *)

LEMMA InitInv == Init => RegistersInv /\ Mirrored
  <1> SUFFICES ASSUME Init PROVE RegistersInv /\ Mirrored
    OBVIOUS
  <1>1. TypeOK /\ Counted
    BY InitType
  <1>2. InBounds /\ Filled
    BY DEF Init, InBounds, Filled
  <1>3. Clean
    BY DEF Init, Clean
  <1>4. Mirrored
    BY DEF Init, Mirrored, Mappings
  <1> QED BY <1>1, <1>2, <1>3, <1>4 DEF RegistersInv

LEMMA NextInv == RegistersInv /\ [Next]_vars => RegistersInv'
  BY NextType, NextInBounds, NextClean, NextFilled DEF RegistersInv

\* However the two servers' start and the polls interleave, Iscs keeps its place in the
\* registers, and writes past them only in a poll whose first query failed.
THEOREM Invariance == Spec => []RegistersInv
  BY InitInv, NextInv, PTL DEF Spec

\* The mappings of the two servers agree but in the register being written.
THEOREM ServersAgree == Spec => []Mirrored
  <1>1. RegistersInv /\ Mirrored /\ [Next]_vars => Mirrored'
    BY NextMirrored DEF RegistersInv
  <1> QED BY InitInv, Invariance, <1>1, PTL DEF Spec

\* A whole poll leaves the rows of both results one behind the other from register 0
\* on, however many each has, and what was behind them.
THEOREM EveryRowInPlace == Spec => []InPlace
  <1>1. RegistersInv => InPlace
    <2> SUFFICES ASSUME RegistersInv, pc = "query1", poll = "whole",
                        NEW m \in Mappings, NEW k \in Indices
                 PROVE  registers[m][k] =
                          IF k < Len(result.subsystems) THEN result.subsystems[k + 1]
                          ELSE IF k < Len(result.subsystems) + Len(result.stations)
                          THEN result.stations[k - Len(result.subsystems) + 1]
                          ELSE before[m][k]
      BY DEF InPlace
    <2> DEFINE first == Len(result.subsystems)
               second == Len(result.stations)
    <2>1. /\ Rows1(m) = first /\ Rows2(m) = second
          /\ first \in Nat /\ second \in Nat /\ k \in Nat
      BY Lengths, Numbers DEF RegistersInv, Rows1, Rows2
    <2>2. /\ \A i \in 1 .. Rows1(m) : registers[m][i - 1] = result.subsystems[i]
          /\ \A i \in 1 .. Rows2(m) :
               registers[m][Len(result.subsystems) + i - 1] = result.stations[i]
          /\ \A i \in Indices : i >= Rows1(m) + Rows2(m) => registers[m][i] = before[m][i]
      BY DEF RegistersInv, Filled
    <2>3. CASE k < first
      <3>1. k + 1 \in 1 .. Rows1(m) /\ (k + 1) - 1 = k
        BY <2>1, <2>3
      <3> QED BY <2>2, <2>3, <3>1
    <2>4. CASE ~(k < first) /\ k < first + second
      <3>1. k - first + 1 \in 1 .. Rows2(m) /\ first + (k - first + 1) - 1 = k
        <4> HIDE DEF first, second
        <4> QED BY <2>1, <2>4
      <3> QED BY <2>2, <2>4, <3>1
    <2>5. CASE ~(k < first) /\ ~(k < first + second)
      <3>1. k >= Rows1(m) + Rows2(m)
        <4> HIDE DEF first, second
        <4> QED BY <2>1, <2>5
      <3> QED BY <2>2, <2>5, <3>1
    <2>6. k < first => k < first + second
      <3> HIDE DEF first, second
      <3> QED BY <2>1
    <2> QED BY <2>3, <2>4, <2>5, <2>6
  <1> QED BY Invariance, <1>1, PTL

=============================================================================
