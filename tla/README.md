# A verification project for CRSCD_WARNING

CRSCD_WARNING is a gateway of a railway's central alarm centre.  One process
(`src/Main.cpp`) runs ten threads that collect alarms from subsystem servers
(UDP) and from telecom network-management platforms (SNMP traps), forward them
as JSON records to a web server (ZMQ), watch whether the senders are alive,
publish alarm bits over Modbus/TCP and drive a lamp and siren.

This directory holds TLA+ modules that model the program, TLC configurations
that check them on small instances, and proofs that TLAPS checks for every
value of the constants.

To check: `tlc -config X.cfg M` for each line of the table of runs below,
`tlapm M.tla` for the modules named `...Proofs`.

## 1. The system

### Components, their state and their operations

| component | source | state | operations |
|---|---|---|---|
| client monitor | `KeepAlive.cpp` 253-349, 495-647 | `clist` (nodes: subsystem, ip, flag, timeout), `clist_lock`, `sockfd`, the interval timer | `init_client` (thread `KeepAlive` once, `UpdateSig` per request), `CheckClient` (`RecvUdp`), `Alive` (SIGALRM) |
| record queues and forwarding | `KeepAlive.cpp` 80-223 | `jlist`, `jsnmplist`, a mutex each, a ZMQ_REQ socket | `add_json_str`, `add_snmp_json_str` (three producers), `ConsumerTask` |
| SNMP countdowns | `RecvSnmp.cpp` 33-39, 83-110, 409-439 | three plain ints | `callback` (poll thread of snmp++), `Update_timeout` (SIGALRM) |
| signal delivery and locks | `KeepAlive.cpp` 86-108, 316-349 | who holds which mutex, which thread runs the handler | lock, unlock, deliver SIGALRM |
| UDP reception | `KeepAlive.cpp` 281-294, 449-493 | the socket, the length `sin_len` that `recvfrom` is given | `check_pack`, acknowledge, `decomp`, push or `CheckClient` |
| trap decoding | `RecvSnmp.cpp` 41-353, `g2u.cpp` | `ipmap`, `codemap` (read once) | `map_ip_bus`, `map_zx_code`, the rest of `callback` |
| packet decoding | `Decomp.cpp` | none | `decomp` |
| Modbus | `KeepAlive.cpp` 351-447, 649-968 | two contexts, two register mappings, two server sockets, the sets of client sockets | `Iscs` (polls the database), `Sendmod_major`, `Sendmod_min`, `close_sigint` |
| lamp and siren | `Song.cpp` | `rgb`, `control`, `exit_flag`, one UDP socket | `Song` (requests of the web server), `Sig_light` (flashes), `read_write_udp` (both) |
| configuration | `Conf.cpp` | one struct of fixed buffers | `init_conf` before any thread, setters, getters |
| record store, old lamp driver | `Store.cpp`, `Song_17.cpp` | | not linked by the Makefile |

### How they interact

`RecvUdp` pushes decoded alarms on `jlist`; `CheckClient` and `Alive` push a
status record there whenever a node's flag changes, inside a `clist_lock`
section (lock order: `clist_lock`, then `jlist_lock`).  The SNMP callback pushes
traps and returns of platforms on `jsnmplist`, `Update_timeout` (first thing in
the SIGALRM handler) their outages.  `ConsumerTask` drains both lists into one
request/reply connection.  `UpdateSig` reloads `clist` on request.  SIGALRM may
be delivered to any thread.  `Iscs` writes both register mappings, which the two
Modbus servers own.  `Song` and `Sig_light` share flags without a lock and a UDP
socket.

### What is hard

* A signal handler that locks mutexes, on whatever thread it interrupts.
* Plain ints written by two sides (SNMP countdowns, lamp flags).
* State looked at inside a lock section and used after it (`ConsumerTask`).
* Two threads filling one list, row by row (`init_client`).
* Failing calls half-way: database gone after the list was cleared, `send`
  failing after the look, `recv` failing after the pop, `select` interrupted.
* A device repeats what it has no answer to, over a network that loses and reorders.
* Varbinds and lines of files in any order, double, missing, or not what is expected.
* Waiting without a timeout (`recv` in `ConsumerTask`, `recvfrom` in
  `read_write_udp`).

### What makes each component correct

* monitor: a node is down exactly when its address was silent for long enough;
  what the web server was told agrees with the list; a load leaves the table.
* forwarding: every record is sent once and in order; neither list starves; a
  REQ socket is never asked out of turn.
* SNMP countdowns: every outage is reported; reports agree with the countdown.
* locks: somebody can always go on.
* Modbus: both mappings agree and hold the rows of the last poll in their order; a
  server watches its own descriptors, all of them and no others.
* UDP reception: what is acknowledged is kept; a warning gets through in the end.
* trap decoding: a record says what the trap said; a recovery matches its alarm.
* configuration: each field is what the file says.
* lamp: a new alarm flashes, a cancelled one stops, the siren ends.

## 2. The modules

| module | models | state in the module ↔ state in the code |
|---|---|---|
| `Monitor` | client monitor | `clist` ↔ `clist` (a sequence of nodes), `table`/`done` ↔ the result set of `init_client` and the rows fetched, `armed` ↔ the timer, `owed` ↔ the state of the REP socket |
| `Outbox` | abstract: what the forwarding promises | per queue, how many were pushed and handed over |
| `Forward` | record queues and `ConsumerTask` | `queue` ↔ `jlist`, `jsnmplist`; `holder` ↔ the producer in the mutex; `it` ↔ the iterator; `wire`, `lost`, `heard` are the connection and the web server |
| `AlarmPath` | `RecvUdp`, `check_pack`, with devices and network around it and `Outbox` behind | `message`, `sin`, `sin_len` as in the code; `log` ↔ what was ever pushed on `jlist`; `net`, `acks`, `sends`, `acked` are the network and the devices |
| `TrapDecode` | the table files, `callback` | `ipmap`, `codemap`, `son_sys`, `bus`, `jk`, `cw`, `acode1`, `atime`, `codeflag` as in the code; `pos` ↔ the position in the file; `vbs` *history*: the varbinds so far |
| `Conf` | `init_conf` and the setters | `conffile`, `fp` as in the code; `lines` *history*: the lines so far |
| `SnmpTimers` | SNMP countdowns | `timeout` ↔ `zte_*_timeout`; `reg` ↔ the register between the load and the store of `--` |
| `SignalLocks` | mutexes and SIGALRM | `held`/`want` ↔ the mutexes of each thread and of the handler on top of it; `handling` ↔ where `Alive` runs |
| `Lamp` | `Song`, `Sig_light`, `read_write_udp` | `control`, `exit_flag`, `rgb` under their own names; `rw` ↔ where each thread is in `read_write_udp`; `lit`, `siren` what the commands ask of the device |
| `Registers` | `Iscs` and the two mappings | `registers` ↔ `tab_input_registers`; `sub` as in the code; `cleared` ↔ how far a server has come with its mapping |
| `Servers` | `Sendmod_major`, `Sendmod_min`, `close_sigint` | `ctx`, `mapping`, `server_socket` ↔ the globals; `refset`, `rdset`, `fdmax` per server; `owner` ↔ the descriptors of the process |
| `MC...` | | constants for TLC |
| `...Proofs` | | theorems; `RecvSnmpProofs` is about both `SnmpTimers` and `TrapDecode`, the two halves of `callback`, `MonitorProofs` about `Monitor` and the `Conf` it is configured by; their names therefore differ |

Every action is a piece of code between two points where another actor can
interfere: a lock section where there is a lock (`Monitor`, `Forward`), a single
load or store where there is none (`SnmpTimers`, `Lamp`).  Variables marked
*history* in the modules are not in the code; they remember what the properties
speak of.  Definitions whose comment begins with "Faulty" are not part of the
model: each is a plausible slip in the definition that follows it, kept to see
that the properties notice it (`mutants` in `PROJECT.json`).

**Monitor.** `Clear`, `Query`, `LoadFails`, `Push`, `LoadEnds` are `init_client`,
once per loader (`KeepAlive` and `UpdateSig`), so the two loads interleave row by
row.  `Alive` is one action: the whole pass over the list is one lock section.
Waiting for the lock is left to `SignalLocks`.  SIGALRM may interrupt the wait of
`UpdateSig` for a request (`ReceiveInterrupted`); like a refused receive or reply this
ends the process or goes on with an empty request, by the version of the binding.

**Forward.** `Insert`/`Release` split the section of a producer, because
`ConsumerTask` calls `size()` without the lock.  `SendFails` and `RecvFails` are the
two `goto TODO`.  (With a ZMQ binding that throws instead, the process ends there.)

**AlarmPath.** `RecvUdp` pushes on a list of which nothing is used but what `Outbox`
promises (`Jlist`, an instance whose actions are conjuncts here); `Forward`
implements it, its fairness included.  Devices and network are not in the
repository: a device repeats a warning until its number comes back, and a packet
may be lost or overtaken.  `sin_len` is not initialized, so its first value is
any of three kinds: negative (every `recvfrom` fails), shorter than an address
(`sin` is not written, the first acknowledgement goes nowhere), long enough.
Records live in memory only and the program keeps nothing over a restart, so
there is no crash action: what a dead process had acknowledged and not yet sent
is gone.

**TrapDecode.** Both loaders read entry by entry, then one trap goes through
`callback`.  A word where `fscanf` wants a number keeps the loader of the codes
in its loop for ever (`spins`); that of the addresses reads on, and loses the
entries around it.  Then the session may be refused, and `RecvSnmp` returns
(`Session`).  `Stack` stands for memory nothing initialized: `atime`, and
`iter->second` behind the end of `ipmap`.  Left out: the text inside a slot, and
the response to an INFORM, which follows whatever the trap said.

**Conf.** A buffer is what `strlen` sees of it.  Five setters copy without
clearing (`Kept`), five clear first (`Cleared`).  `atoi` is a function on the digits,
not a `RECURSIVE` operator, so that it can be proved about.  Lines longer than the buffers
are left out, and so are setters and comparisons nothing calls.

**SnmpTimers.** One handler at a time; `SignalLocks` shows when two may overlap.

**SignalLocks.** A *frame* is a thread's own work or the handler on top of it.

**Lamp.** The read of `rgb` and the siren command after it are one step: nobody
sees the read, and commands reach the device in the order they are sent.

**Registers.** A result has any number of rows up to the `LIMIT` of its query, another
one in each poll.  One action per register cleared and per register written, so that a
server's loop and `Iscs` interleave.  A write through a null pointer or past the
registers ends the model's run (`broken`).

**Servers.** `master_socket` is the lowest descriptor left in `rdset`.  Between
`Receive` and its end the other server may free the context.  The model stops when
freed memory is used or a stranger's descriptor is closed (`harm`).

## 3. The runs

| run | shows |
|---|---|
| `monitor` (`MCMonitor`, `Monitor.cfg`) | what the web server was last told agrees with the list (`StatusAgrees`), except that a reload resets flags without a record; a first node of an address is down only after `Keepalive + 1` silent alarms (`NoFalseAlarm`) and every node is after them (`NoMissedOutage`); a list one loader filled is its table (`SingleLoadIsExact`), overlapping loads double a node but never triple it when the rows of a table differ (`AtMostTwice`); every request is answered or ends the process (`Answered`); a silent node is disconnected in the end (`OutageReported`); `IInv` is the invariant of the proofs |
| `monitor_waits` (violation) | finding: a failed reload makes `UpdateSig` receive on a socket that owes a reply |
| `forward` | the record popped is the one sent, each is sent once and in order, at most one record of the other list passes, one more per error; the REQ socket alternates; the two lists implement `Outbox` (`ImplementsOutbox`), and its fairness as long as no request is lost (`DrainsLikeOutbox`): no record waits for ever |
| `alarm_path` (`MCAlarmPath`) | a warning whose number was sent back is on the list or about to be pushed, each record has a transmission of its own (`AlarmInv`), and each warning reaches the web server (`AlarmArrives`) |
| `trap_decode` (`MCTrapDecode`) | a record says what the trap said, wherever the varbinds stood (`DecodeInv`); a recovery is queued exactly when its alarm is and differs by 4096 (`RecoveryMatches`); `RecvSnmp` comes to listen with the right tables, or returns for want of a session, unless `zxcode` has a word for a number or a file is missing: then it spins or crashes (`Listens`) |
| `conf` (`MCConf`) | after any lines each field is made of the values its lines had, and the three addresses of `inner-ip` agree (`ConfInv`) |
| `snmp_timers` | without a race the last record agrees with the countdown (in `TimersInv`) and the countdown with the alarms; with races every end is still reported, and a silent platform is reported down in the end |
| `signal_locks` | every deadlock, also of some frames only, has the handler waiting on top of a thread it interrupted in a section (TLC reaches such deadlocks here) |
| `signal_locks_main` | SIGALRM on `main` only: no deadlock |
| `lamp` | an alarm not shown yet always left `exit_flag` up; the number of cycles is bounded; outside a cycle the siren is silent and the lamps shown stay on; never both threads blocked in `recvfrom` (in `LampInv`); with fair threads requests are answered and the flashing ends |
| `registers` | the two mappings agree but for the register being written (`Mirrored`); a poll with both results, of any length, leaves the subsystems from register 0 on, the stations right behind them and the rest as it was (`InPlace`); only a poll whose first query failed writes past the registers (in `RegistersInv`) |
| `servers` | until a `select` is interrupted each server watches exactly its own descriptors, no `select` fails and nothing is harmed; `fdmax` never drops below a watched descriptor (in `ServersInv`); every client of a server that goes on is served |

### What the runs say about races in the code

Some properties carry a proviso, because the code breaks them without it:

* `StatusAgrees` only counts records since the list was loaded: a reload
  (`KeepAlive.cpp:546`) sets every flag to `CONNECT` and tells nobody.
* `NoFalseAlarm` is about the first node of an address: `CheckClient` stops there
  (`KeepAlive.cpp:272`), further nodes of a server that is alive go down.
* `ReportAgrees` (in `TimersInv`) excludes platforms both sides handled at once: the last record
  can then stay `DISCON` while the countdown runs.
* `InOrder` excludes errors: a request of the socket before `goto TODO` may arrive
  after those of the next.
* `UnseenIsFlagged` does not say that an alarm is shown: one that arrives between
  the last look at `exit_flag` (`Song.cpp:182`) and `control = 0` (`Song.cpp:192`)
  is not, until another request comes.
* `InBounds` (in `RegistersInv`) excludes a poll whose first query failed: the index then still stands
  behind the stations (43 with all rows), and 34 more rows leave the 50 registers
  (`KeepAlive.cpp:385`, `428`).
* `InPlace` gives a station no register of its own: the stations follow the rows of
  the first query of the same poll, so a subsystem that leaves the table, or one that
  enters it, moves each of them by one, and one row fewer leaves the last of them in
  two registers (`KeepAlive.cpp:389`).  A row is known by its position only; the first
  query has no `ORDER BY`, so which subsystem it is of is the database's matter.
* `AlarmArrives` excludes a negative `sin_len` (`KeepAlive.cpp:453`): then no packet is
  ever taken.
* `DecodesAsSaid` counts a rack and a board only behind the subsystem: a slot
  or an address that comes first is not kept (`RecvSnmp.cpp:186`, `198`).
* `RecoveryMatches` excludes ids 0 and 4096 in the table: the alarm of the one and
  the recovery of the other are taken for none (`RecvSnmp.cpp:278`).
* `Listens` does not say that `RecvSnmp` listens: the session or its registration for
  traps may be refused (`RecvSnmp.cpp:376`, `388`), a missing file crashes it
  (`fclose(NULL)`, `RecvSnmp.cpp:306`), and at a word in `zxcode` it spins
  (`RecvSnmp.cpp:313`).
* `ConfInv` says of the five buffers without `bzero` that a shorter value keeps the
  end of a longer one (`Conf.cpp:134`); the repository's file has each key once.
* `Mirrored` excludes a server that clears what `Iscs` has written.  Nothing but five
  seconds of sleep keeps `Iscs` from writing before the mappings exist.
* `OnlyInterruptsHarm` and `OwnDescriptors` end with the first interrupted `select`
  (`KeepAlive.cpp:754`): then the other server uses a freed context or mapping, the
  mappings are freed twice, and a server may close a number another thread has taken.

### Bounds

* `Monitor`: two tables of three rows and one row with shared addresses and a
  subsystem that moves; `Keepalive` 2 (1 for the finding).  Requests, packets and
  alarms are not bounded: the history counters stop at `QuietCap`.
* `Forward`: `MaxPushed` 3 per list, `MaxErrors` 2, `MaxLost` 1: a record in hand, one
  that waits and one that is being pushed, and an error in each call.  The
  liveness is that of the behaviours without a lost request, since `recv` then
  waits for ever.
* `AlarmPath`: two devices whose warnings have the same number, one that swaps the
  bytes of the type; `MaxSends` 2, `MaxLost` 1, so that a packet or its answer may be
  lost and one transmission is left; one copy of a warning and one other packet on
  the way; `MaxStatus` 1.
* `TrapDecode`: at most one varbind of a kind in a trap, in every order and every
  selection; files of none to three entries, with a double key, codes that meet when the
  platform's number is put in front, ids 0 and 4096, a word, and no file.
* `Conf`: `MaxLines` 3, an empty value and values of one and two characters: a long
  value, a short one over it and one of another key.
* `SnmpTimers`: two platforms, `TIMEOUT` 3 and initial value 1 for 60 and 5: the
  handler can be between any two accesses for a whole countdown.
* `SignalLocks`: SIGALRM may hit one thread without mutexes, one that nests them
  and one that takes each in turn.  The proofs cover every set.
* `Lamp`: three requests, two rounds for ten, one datagram in the socket; a second
  datagram only lets both threads read.
* `Registers`: one row of the first query, two of the second and four registers for
  9, 34 and 50, and every length below: the stations move from one poll to the next,
  and one register is left, so a second run of stations leaves them half-way, as in
  the code.
* `Servers`: two servers with three numbers (two listeners, and one that a client or
  another thread has in turn) and one interrupt.
  `CHECK_DEADLOCK FALSE`: both servers may return, and the model stops at `harm`.

### Fairness

Weak fairness of the steps of threads (they are scheduled, and their calls
return), of the interval timer, and of the web server that takes a request that
reached it.  `servers` assumes the same of the loop of the major server, and
nothing of the minor one, whose code is the same: `modbus_receive` is only
entered with something to read.  `DrainsLikeOutbox` is under `[](lost = {})`: a
request the web server never answers stops the forwarding.  `alarm_path` assumes
that a device repeats what is not acknowledged, that each warning packet that
keeps arriving is received at some time (strong fairness: packets may overtake,
and be lost `MaxLost` times), and of `jlist` only the fairness of `Outbox`.
Nothing is assumed of requests, first transmissions, traps, pushes or buttons.
`recvfrom` has no timeout, so `lamp` assumes in the property itself that the
socket does not stay empty.  No fairness of mutexes is assumed anywhere, which is
why `SignalLocks` states deadlocks and no liveness.

## 4. The proofs

`tlapm` checks each theorem for all values of the constants.  Each module proves that
its invariant holds first, is kept by every step (one proof step per action), and
implies the properties.  What each invariant has beyond them, and why:

* `MonitorProofs`: `IInv` adds `Countdowns` (how a countdown relates to the silence of
  its address: exactly for the first node of an address, at most for the others),
  `ToldInList` (a record since the load is about a listed subsystem, else a new node
  could disagree with it), `LoadProgress` (a loader that has yet to query has pushed
  nothing) and `ListIsMerge` (however two loads interleave, the list holds each row as
  often as the two pushed it since the last clear).  `AtMostTwice` follows from the
  last: three nodes would be three pushes, and with different rows a loader pushes a
  row once.  Theorems on `Monitor`: `TypeCorrect`, `Invariance`, `StatusAgreement`,
  `NoFalseAlarms`, `NoMissedOutages`, `SingleLoadExact`, `NeverThreeTimes`.
* `MonitorProofs`, on `Conf`: `ConfInv` is inductive as it stands, since `FieldsAsRead`
  says of every field, also of one no line has set, what the lines make of it.
  `LineAppended` says what one more line changes of that, `OverlaidBy` what a buffer
  holds that is not cleared, and `NumberOfDigits` that `atoi` of k digits is ten times
  that of k - 1 and the last one.  The last goes by the least k for which there would
  be no such function, not by an induction theorem.  `keepalive` being a number is what
  `MonitorAssumption` asks of it.  Theorem: `ConfInvariance`.
* `ForwardProofs`: `FInv` adds `QueueInv` (a list is a run of consecutive numbers
  from the first not popped), `CursorInv` (from `size()` to the pop the front
  stays), `BypassInv` and `LinkInv` (which requests of the current socket are out,
  at each point) and `OrderInv` (until a call fails what is out is later than all
  that was heard, else a late request could overtake).  Theorems: `TypeCorrect`,
  `Invariance`, `PopMatches`, `Bypass`, `RecvWaits`, `OneRequest`, `HeardInOrder`, and
  `Refinement`: `Spec => Out!Spec`, where `Send` is `HandOver`, `Insert` is `Push`
  and all else stutters.
* `SignalLocksProofs`: `LInv` says that a mutex has one owner and that a frame waits
  only for what its code asks for.  Hence a frame that holds a mutex and waits
  holds `clist_lock` and waits for `jlist_lock`, and a chain of waits has length two
  unless it goes from a thread to its handler.  Theorems: `Invariance`,
  `AlarmsAlone`, `DeadlockFree`.
* `AlarmPathProofs`: `AlarmInv` is inductive as it stands: `Received` ties the packet in
  hand to a warning and its device, which makes an acknowledgement one for that
  warning; `OncePerPacket` counts the records of a warning together with its packet
  on the way and the one in hand.  Theorem: `Invariance`.
* `RecvSnmpProofs`, on `SnmpTimers`: `TimersInv` adds `InStep`, what each side knows of
  the countdown it is at.  `ReportAgrees` and `CountsExactly` speak only of platforms
  nobody is at, so alone they say nothing of the value in the register or of a
  report about to be made.  `EndIsReported` holds with races too, and its proof uses
  of the invariant only the types.  Theorems: `Invariance`, `TrapsCountOnce`,
  `NoSilentEnd`.
* `RecvSnmpProofs`, on `TrapDecode`: `DecodeInv` adds `Decoded`, which says of each
  variable of `callback` what the varbinds so far have left in it, `Orderly` (no
  varbind before the tables are read, and codes are numbers) and `Loaded`: the tables are
  always those of the entries read so far, the first entry of a key counting, because
  `insert` makes of the table of n entries that of n + 1 (`TableGrows`).  The order of the
  varbinds enters through `SaidMore`, by which a varbind counts as late when the
  subsystem came before it.  Theorems: `DecodeInvariance`, `RecoveriesMatch`, and
  `ListensWithTables`, the part of `Listens` that is safety.
* `ServersProofs`: `ServersInv` adds `Undisturbed`: before the first interrupt a server
  watches exactly the descriptors it owns, keeps its context while it loops, and is
  never at `close`.  It is needed for all servers at once, since one server's close is
  the other's harm.  `FdCovered` needs no such proviso.  Theorems: `Invariance`,
  `SelectSeesAll`, `WatchesItsOwn`, `NoOtherHarm`.
* `RegistersProofs`: `RegistersInv` adds `Counted` (where `Iscs` is in the result it
  holds: only a poll whose first query failed may be beyond the registers), `Clean`
  (what is yet to be cleared is zero, so that clearing does not undo the equality)
  and `Filled` (the rows each mapping has, the one ahead and the one behind, and
  behind them what was there when the poll began).  `Lengths` has the arithmetic: what
  is written of two results that fit never leaves the registers.
  Theorems: `Invariance`, `ServersAgree`, `EveryRowInPlace`.
* `LampProofs`: `LampInv` adds `Flagged` (a signal not read is flagged or about to
  be, at each point of `Song`), `Budget` (the cycles begun and those the two threads,
  the flag and `control` may still bring are paid for by requests) and `Shown` (the
  siren and the lamps at the points inside a cycle).  Theorems: `Invariance`,
  `NoSignalForgotten`, `NoFreeFlashing`, `SilentWhenIdle`.

Assumptions are those named in the modules (`MonitorAssumption`,
`ForwardAssumption`, `LocksAssumption`, `AlarmAssumption`, `TimersAssumption`,
`TrapAssumption`, `ConfAssumption`, `ServersAssumption`, `RegistersAssumption`,
`LampAssumption`), which TLC evaluates in the runs.  They give the types of the constants; beyond that,
`ServersAssumption` keeps the names of servers apart from the two words that mark
other owners, `RegistersAssumption` says that the limits of both queries fit the
registers together (9 and 34 of 50), and `TimersAssumption` that each countdown is visited once.

Every invariant and every action property of a passing run is a theorem, and the refinement of
`Outbox` without its fairness.  Only model-checked is liveness (`Answered`,
`OutageReported`, `DrainsLikeOutbox`, `AlarmArrives`, `Listens`, `SilenceReported` and
those of `Lamp` and `Servers`), because fairness and ENABLED are out of the prover's
reach.

## 5. Not modelled, and the plan

Not modelled: text of records and logs, the fields `decomp` prints and its
renumbering of `res1`, checksums and addresses of the lamp, start-up beyond the
threads it starts (`dameno`), the character set conversion (`g2u.cpp`, formatting),
`Store.cpp` and `Song_17.cpp` (not linked), vendored libraries.

The plan that is left: lemmas that bound the work of a loop (a pass of `Servers`, a poll
of `Registers`), as far as they are safety, and properties for the hazards that have none.
