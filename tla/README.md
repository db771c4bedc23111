# A verification development for temp_receiver

temp_receiver is the receiving end of a network of wireless temperature sensors.
A radio (an XBee module on a serial port) hands it the packets of the sensors; it
answers the ones that ask for something, posts the reports to a server over HTTP,
and keeps a second, persistent connection to the server for log messages and
heartbeats. It is one process with some six threads that share almost everything
and lock almost nothing, so its correctness is mostly a question of order.

This directory holds TLA+ models of that process, the TLC configurations that
check them on small instances, and proofs, checked by TLAPS, of what holds for
every instance. Source paths below are relative to `src/src/`.

## 1. Inventory

| Component | State | Operations | Talks to |
|---|---|---|---|
| XBeeCommunicator (`XBeeCommunicator.cpp`) | table of 255 slots `xbeeComms`, allocation bits `xbeeCommBits`, `dispatchQueue` | registerRequest, getCommStruct, waitCommStruct, freeCommStruct; dispatcher and handler threads | called by main and by the packet handlers, writes to SerialPort through the XBee API |
| XBee API (`xbee.cpp`) | none of its own | build and write command and transmit frames, read a frame, default handling of a frame | fills the slot of a request; calls the packet handler |
| Packets (`packets.cpp`) | `lastPacketSensorId`, reply buffers | one handler per packet revision | registers requests, updates sensors, adds reports |
| Sensors (`sensor.cpp`, scanning thread in `packets.cpp`) | `sensorMap` | AddSensor, SensorUpdate, scan for inactive ones | handler thread and scanning thread share the map |
| main (`main.cpp`) | receiver id, radio address | start-up, the ATSL/ATSH questions, signals, receiver.id file | starts every thread |
| SerialPort (`serial.cpp`) | `portFileNo`, `savedPortName`, `lastHeartbeat` | read, write, heartbeat, reinit, init | read by the handler, written by the dispatcher |
| ServerComm (`ServerComm.cpp`) | socket, `m_isUsable`, `isDisconnected`, `heartbeatThreadComm`, `socketMutex`, queue `toSend` | CommThread, HeartbeatThread, sendContent, handshake | fed by the logger |
| Logger (`logger.cpp`) | log files | Logger_Print | asks ServerComm whether it is usable, then queues |
| SensorDB, SimpleCurl (`SensorDB.cpp`, `curl.cpp`) | pending report, response code | AddReport with retries | the server's HTTP API |
| Watchdog, timespec (`watchdog.cpp`, `util.cpp`) | vector of watchdogs, expiry times | register, reset, scan, restart | restarts the dispatcher |
| Updater, Settings (`update.cpp`, `settings.cpp`) | settings map and file, `sleepLeft` | poll for a new server and for commands, store, load | the server's HTTP API |
| CRC16, cJSON, test | none | pure functions, a vendored parser, printing tests | |

What is hard about each of them, and what would make it correct:

* **XBeeCommunicator.** A request is pushed by one thread, written by a second and
  completed by a third; main waits for it by spinning on a plain flag. Slots are
  claimed and freed without a lock, and the bits are a `vector<bool>`, where a bit
  is stored together with its neighbours. Correct means: two requests in progress
  never have one frame id; a slot in use stays claimed and is freed once; a frame
  completes the request it answers; whoever waits reads its own answer; every
  request is written, in order, once.
* **ServerComm.** A connection is set up, used and given up by CommThread, and
  declared dead by HeartbeatThread, with plain flags in between. Correct means:
  heartbeats go only to acknowledged connections; a dead connection is replaced;
  contents leave the queue, in order, over any number of connections; a flag says
  something about the connection of today.
* **SerialPort.** Reader and writer both run `heartbeat()`, which closes and reopens
  the descriptor that the other may be using, with a retry counter at its limits.
  Correct means: a heartbeat that nothing disturbs leaves the port as it was; it ends;
  a radio that comes back is found; drastic action is taken on failure only.
* **Packets.** State of the last packet is used when an answer arrives later; a reply
  waits in a queue with pointers to locals of the handler that made it. Correct means:
  a signal strength is logged for the sensor it was measured for, and no two sensors
  are given one id.
* **Sensors.** Two threads use a map without a lock, one of them while it grows.
  Correct means: only the silent are marked inactive, all of them are in the end, and a
  sensor that reports is active.
* **SensorDB, SimpleCurl.** A retry repeats what may have been done already, and a
  buffer is used after it was deleted. Correct means: an answer fits into its buffer;
  AddReport ends and does not claim what no answer said.
* **Watchdog, timespec.** Borrow, sign and comparison at the second boundary; a vector
  scanned while it is pushed into; a time read in two loads. Correct means: nobody is
  restarted who met the deadline, and a thread that is stuck is noticed.
* **Updater, Settings, receiver id.** A crash between truncating and writing; a file
  that exists before it has its contents; a loop that ends at exactly zero. Correct
  means: only confirmed servers are followed, what is in memory is what a restart loads,
  one id is asked for, and new versions are looked for for ever.
* **CRC16.** Two tables and a register in two bytes against the polynomial division.

`PROJECT.json` lists the hazards at their lines, with the properties that speak
about each, or a note saying why none does.

## 2. Plan

The modules, in the order in which they matter to the program; all but the last line are
written:

1. **FrameChannel**, **XBeeComm**: what the communicator promises, and the communicator.
2. **ServerComm** and **SerialLink**: the two other places where threads meet.
3. **Timespec** and **Watchdog**; **Updater** with the settings and the id file;
   **Sensors**; **Reports** with SimpleCurl; **Packets**; **Crc16**. They and ServerComm
   share no variable and are checked by one run of **MCReceiver**.
4. Proofs beside the modules: XBeeCommProofs, ServerCommProofs, SerialLinkProofs,
   WatchdogProofs, UpdaterProofs, SensorsProofs (with Reports), PacketsProofs,
   Crc16Proofs.
5. Left: a **FrameReader** (the byte-wise search for a delimiter, the length that is
   trusted), the text of the server protocol, and the keep-alive branch once its test
   can be true. Section 7 says why they are not written.

Which module uses which: XBeeComm and ServerComm instantiate FrameChannel, each under its
refinement mapping (requests and frames; contents and what reaches `send`);
Watchdog extends Timespec; MCXBeeComm extends XBeeComm with workloads; MCReceiver
extends ServerComm and the modules of item 3; each proof module extends the module it is about. Packets
meets XBeeComm at the requests a packet registers (`Reaction` in XBeeComm) and at the
order of answers (`asked` in Packets is a queue because `InOrderOnce` holds and the radio
answers in order).

## 3. The modules

### FrameChannel
Two variables: how many things were accepted, and which were written. One may be written
if it was accepted later than all that were written before. It is the abstract
specification of the communicator (requests and their frames, `Channel` in XBeeComm) and
of the connection to the server (contents, `Contents` in ServerComm).

### XBeeComm
Three threads, one action per stretch of code between two accesses that another
thread can observe; `pc` says where each is.

| Action | Code |
|---|---|
| RegisterScan, RegisterClaim, MainPush, HandlerPush | `registerRequest` (`XBeeCommunicator.cpp:150-178`): scan of the bits; the store of bit and `waiting`; push_front and signal under the mutex |
| FreeGet, FreeFields, FreeBit, DoubleDelete | `freeCommStruct`: getCommStruct; three deletes; the store of the bit; both callers deleting at once |
| DispatchCheck, DispatchPop, DispatchArm, DispatchTimeout | `dispatcher`: unlocked test of the queue, back and pop_back under the mutex, timed wait that a signal ends early or time ends by itself |
| CommandAlloc, CommandFrame, CommandWrite | `XBAPI_CommandInternal`: a zeroed frame is put in the slot, filled in, and written |
| TransmitWrite, TransmitAlloc, TransmitCopy | `XBAPI_TransmitInternal`: the frame is written, then a new frame put in the slot, then filled in |
| ReadAnswer, ReadUnsolicited, Attach, HandleFrame, HandleGarbled, HandleFreed, PacketDone, Finish, TestFree | `handler` with `XBAPI_HandleFrameCallback` and the packet handlers |
| MainWait, MainSpin, MainGet, MainReadData | `waitCommStruct` and the reads in `main.cpp` |
| LoseAnswer | the line between radio and process |

The frame of a slot is a request number, `Blank` (zeroed, no id), `Raw` (memory from
`new`, any content) or `NULL`. Request numbers are history: the code does not keep
them, and they are what lets a property say whose answer a slot holds. `wire` and
`mainRead` are history too. Undefined behaviour (a NULL or freed pointer used, a
double delete) ends a behaviour with `fault` naming it; reading a `Raw` frame
is a choice among all ids. A store of one bit is the store of the word it was loaded
with (`StoreBit`, `WordBits` bits to the word), which is how a bit another thread
wrote in between is undone.

Abstractions, and why they are sound for the properties here: destination and payload
of a transmit are left out (no property is about them; the lifetime of the buffers is
in Packets). A full table makes `registerRequest` store to `xbeeComms[-1]`;
the store is not counted as a fault (`waiting` is the last member, so it lands in the
allocator's header of a block that is never released), and the request with id 0 that
follows is modelled: the dispatcher drops it, and a main that waits for it increments and
polls the same memory in front of the table, where nobody ever sets `finished`, so that it
spins for ever (`MainWait`, `MainSpin`). That memory is taken never to read as
`finished == 1`: in a 64-bit build it is the size in the allocator's header; in a 32-bit one
it may be the tail of the block before, which other code could set to 1 by chance. `waiting++` and
`waiting--` are one step each: main is the only thread that changes it while it waits.
The keep-alive branch of the dispatcher is never taken (its test is inverted and
`lastHeartbeatSent` starts at 0). The dispatcher's watchdog only matters if it expires:
that is Watchdog. `retry()` has no caller.

### MCXBeeComm
The workloads for TLC: sensors that only report, that ask for the receiver, that
send everything, and the modem status that doubles as frame id 1.

### ServerComm
CommThread, one heartbeat thread, the loggers and the server.

| Action | Code |
|---|---|
| Cleanup, Join, Joined | `ServerComm::cleanup` (`ServerComm.cpp:168-185`) |
| OpenSocket, ConnectFails, Connect, HandshakeAnswered, HandshakeBroken, JudgeAnswer, JudgeAnswerCrash, Spawn | the connecting part of `CommThread` with `loadFromComm` |
| HandshakeInterrupted | a signal in the sleep between two polls of the handshake (`nsleep`, `util.cpp:70-89`) |
| Loop, Drain, Send, Wait | its send loop |
| HeartTop, HeartSleep, HeartLock, HeartLocked, HeartSend, HeartExit | `HeartbeatThread` |
| LogAsk, SendContent | `Logger_Print` and `sendContent` |
| ServerCloses | the peer |

A socket that the server closed accepts one more send. The peer answers it with a reset,
the next send may fail with ECONNRESET, and the ones after it with EPIPE (`closed`,
`reset`, `broken`). `HeartbeatThread` takes only EPIPE for a disconnection
(`ServerComm.cpp:416-419`); ECONNRESET, and the EAGAIN of a full buffer, pass for a
heartbeat that was sent. The result of a content's `send` is not looked at
(`ServerComm.cpp:350`) and the socket does not block (252-253), so that contents are lost
to a closed connection and to the full buffer of a good one; `handled` is therefore what
was handed to `send`, and no property claims more. Time appears only as `late`: the
last heartbeat is more than its interval ago, so the next `sleep` gets a negative
number of seconds. Sockets that are overwritten without a close are counted in `fds`.
`nsleep` repeats an interrupted
`nanosleep` in a loop that a `nanosleep` without error does not leave, so that one
signal puts CommThread to sleep for good (`comm = "asleep"`).
The text of the protocol is left out, and so is the repair of the condition variable after
an EINVAL (`ServerComm.cpp:373-389`). `sendLock` is never
initialised; it is taken for a lock that works, as a zeroed mutex does. The program is
built without optimisation, so plain flags are read from memory each time, as the
model reads them. Lines 316-325 of `ServerComm.cpp` cannot be reached.

### SerialLink
The handler thread (`reader`) and the dispatcher (`writer`), each in `io` (reading or
writing) or somewhere in `heartbeat()`.

| Action | Code |
|---|---|
| Heartbeat, Open, Isatty, Setattr, Sleep | `SerialPort::heartbeat` (`serial.cpp:287-350`) |
| Reinit, Find | `reinit`, `findPortsAndInit`, `findValidPorts` (`serial.cpp:152-183, 266-285`) |
| InitDelete, InitOpen, InitTty, InitAttr | `init` (`serial.cpp:48-150`), split at each use of `savedPortName` and `portFileNo` |
| Decide, Again, Return (operators) | the ends of the two nested loops: a failed or good attempt, `retries == 0`, another three attempts |
| Tick, Unplug, Plug, FileOpen, FileClose | time, the radio's plug and the name it comes back under, and every other thread that opens and closes files |

`fd` says what each descriptor is open on: the radio, a device that is gone, a file of
another thread, or nothing. `open` returns the lowest free one, which is what decides
whether the descriptor that `heartbeat()` opens, and never assigns, is by luck the one
in `portFileNo`. `files` holds the numbers other threads believe are theirs; they
close them even when `heartbeat()` has closed them before and the port has the number
now. 0 stands for -1 in `portFileNo` and for a freed pointer in `savedPortName`; its use
ends a behaviour, with `ended` naming it. `lastHeartbeat` appears as `due`: it is set by
`init` alone, so once it is thirty seconds old every read and write reopens the
port until `init` runs again. The restart setting of `heartbeat()` is a choice at each
use. `Watchdog` is TRUE in normal operation: the dispatcher's watchdog expires after one
second, its restart sends SIGTERM, and the handler of SIGTERM exits the process, so that
the dispatcher never gets through the thirty seconds of `sleep` (`serial.cpp:317, 324`).
`calm` is history: since the port was settled, heartbeats came one at a time, the radio
stayed, no file was opened or closed during one, and a descriptor was left. Bytes and
termios are left out, and `findValidPorts` finds at most one device.

### Timespec and Watchdog
`add_timespec`, `sub_timespec` and `compare_timespec` of `util.cpp` on records of seconds
and nanoseconds, with `Nanos` as the reference; `NS` is the number of nanoseconds in a
second. Watchdog is the watchdog thread and the dispatcher that resets it.

| Action | Code |
|---|---|
| RegisterWatchdog, ResetWatchdog | the constructor and `registerWatchdog`; `reset` from the dispatcher's loop |
| ScanBegin, ScanEnd | `begin()` and `end()` of the unlocked vector in `WatchdogThread` (`watchdog.cpp:84-110`): an empty vector's `begin()` is a NULL that is less than the `end()` of one pushed into since |
| LoadReset, JudgeExpired | `expired()`: the two words of `lastReset` are read in two loads; then `remaining` and `minTime` |
| ScanRest | `pthread_cond_timedwait` |
| RestartDispatcher | `restartDispatchThread`: SIGTERM, on which the process exits |
| ClockTick | time |

The code registers one watchdog, so the vector is registered-or-not. `overdue` and `torn`
are history: the deadline passed once; `lastReset` changed between the two loads.

### Updater
The settings file and the receiver id file, the updater thread and main's start, with a
crash between any two steps.

| Action | Code |
|---|---|
| LoadSettings, LoadLoops, StartUpdater | `Settings::load`, which never ends if the file cannot be opened (`settings.cpp:26`), and the start of the thread in `main` |
| OpenId, FetchId, CloseId | `initReceiverId`: the file is created, then the id fetched, then written when the stream is closed |
| AskVersion, AskValid, Compare, Confirm | `updateChecker` up to the new server (`update.cpp`) |
| StoreTrunc, StoreWrite | `Settings::store` |
| AskCommand, Sleep | its loop of commands and naps |
| Crash | the process dies and is started again |

Of the map the models keep the one key that is ever set, `server`;
`restart-on-failed-heartbeat`, which `serial.cpp:336` reads, is a choice in SerialLink.
A `store` whose file cannot be opened is left out. `sleepLeft` below zero is kept at -1: it goes on
falling and is not zero again before it wraps. An update or a `reboot` command is a crash
that comes sooner or later. `serverStream` keeps its eofbit when the first answer ends
with the name, and then reads nothing from the second: `atEof` is that bit. `ids`,
`confirmed`, `struck` and `interrupted` are history.

### Sensors
The map of sensors, used by the handler and by the scanning thread.

| Action | Code |
|---|---|
| TakePacket | the copy that `GetSensorMap()` returns is asked for the sensor |
| AddEntry, StoreSensor | `AddSensor` (`sensor.cpp`): `operator[]` inserts a NULL; the new sensor replaces it |
| Stamp, Activate | the two fields that `SensorUpdate` writes |
| ScanNext, ScanFlag, ScanMark, ScanRound | `sensor_scanning_thread` (`packets.cpp:511-536`): the age is read, then the flag, then the flag is written |
| SecondPasses | time |

Times are kept as ages, and an age stops at `Limit + 1`, where the code's one comparison
no longer changes. An insertion may move a tree node the iterator stands on, so the
set of entries already met becomes any set; that the iterator could crash is left out.
`overtaken` (the sensor reported after its age was read) and `awake` are history.

### Reports
`SensorDB::AddReport` and the transfer of SimpleCurl under it.

| Action | Code |
|---|---|
| AddReport, Post, Judge, Parse | `SensorDB::AddReport` (`SensorDB.cpp`): the loop of three posts, the buffer that is deleted in the loop and used after it |
| WriteFunc | `writeFunc` with `CURLBuffer::init` and `extend` (`curl.cpp`) |
| ServerStores, TransferFails, TransferEnds | libcurl and the server |

The response code that the loop compares with 201 is what `curl_easy_getinfo` returned,
0 or an error number: every report is posted three times. `buf` is then freed memory,
whose parse is any of its outcomes. `copies`, `attempts` and `answered` are history.

### Packets
The packet handlers as far as they leave something behind.

| Action | Code |
|---|---|
| TakeDamaged, TakeRev1, GetSensorId, Reply | `HandlePacketRev1` (`packets.cpp:206-390`): `lastPacketSensorId`, ATDB, CRC, the id from the server, the reply |
| TakeRev0, ReturnAddress | `HandlePacketRev0` and `SendReceiverAddress`, whose packet is a local |
| ReturnHandler | the end of the handler, with `xbee_addr` |
| DispatchReply | the dispatcher, and the sensor that gets the reply |
| LogSignal, LoseSignal | the answer to ATDB in `XBAPI_HandleFrameCallback`, or none |

A reply carries whether its destination and its packet are still alive; a dead
destination is any radio or none. The ids in `asked`, `mislogged` and `misled` are
history. What the radio measures for an ATDB, which is the last packet *it* received, is
not modelled: the models say for which packet the program asked.

### Crc16
`CRC16_Init`, `CRC16_Update4Bits` and `CRC16_Update` with the two tables, on both sides
of the radio: `Intact` and `Changed` put in a byte that arrives as it was or not; the radio
may change one byte of a packet, or two neighbours. A byte is the set of its bits that are
one, so that exclusive or is the symmetric difference and shifts move a set; only the
index of a table is a number. The reference, `DivideBit` and `DivideByte`, is the division by
x^16 + x^12 + x^5 + 1, one bit at a time.

The field of the packet that holds the CRC, zeroed before and compared after
(`packets.cpp:222-235`), is not part of it.

### MCReceiver
ServerComm, Watchdog, Updater, Sensors, Reports, Packets and Crc16 in one specification.
They share no variable and every property speaks of one of them and does not tell a
stuttering step, so `focus` picks the one that moves and the product is never built.

## 4. The runs

| Run | Instance | What it shows |
|---|---|---|
| xbee_reports | 2 slots in one word, 5 report packets, 5 requests, answers arrive | No fault, no shared id, no pending request whose slot is free, no leaked slot; every slot comes back; every request leaves the queue even if its signal was lost. Deadlock is checked and none is found: the dispatcher can always poll |
| xbee_all | 2 slots, main starting up, all packets, a status that equals an id, damaged and lost answers, 3 requests | `TypeOK`, and that the frames on the line implement FrameChannel although slots are shared, freed under a request or lost |
| xbee_startup | 2 slots, main starting up, a report in between | main gets past its two busy waits, or the process dies (the deaths are those of xbee_wait), or the table was full when main asked; in that case the wait never ends (`FullTableHangsMain`), and in all others it is a wait for something that is finished or under way (`WaitIsOwed`) |
| xbee_wait | main alone, 3 slots in two words | **violated**: an answer handled before main waits is freed; main returns on the stale `finished` |
| xbee_transmit | requests for the receiver | **violated**: an answer before the slot has its frame makes the handler free the slot that an uninitialized byte names |
| xbee_modem | reports and one status | **violated**: a modem status frame marks a request finished whose id equals the status, while it is on the air and unanswered |
| server_flag | ServerComm, bounds as below | **violated**: `isDisconnected` is set by the old heartbeat thread after it was cleared, and a good handshake is thrown away for it |
| serial_link | 3 descriptors, 2 names, 1 unplug, no watchdog | two threads in `heartbeat()` at once: heartbeats end, and a radio that stays plugged in is found again, unless the process dies or has no descriptor left |
| serial_files | the same, a file of other threads, 2 unplugs, watchdog | `TypeOK`; a heartbeat that nothing disturbs leaves the port open on the radio under its name |
| serial_reboot | no files | **violated**: the reboot for a failed heartbeat is decided after the third attempt succeeded |
| packets_signal | Packets, two ATDBs on the way | **violated**: the second packet overwrites `lastPacketSensorId`, and the answer to the first is logged for its sensor |
| receiver_parts | MCReceiver, one part at a time (bounds below) | *ServerComm*: heartbeats only on acknowledged sockets; contents in order, each once; a closed connection is replaced and contents leave the queue, as long as heartbeats do not oversleep. *Watchdog*: the process is ended only for a deadline that passed or a torn read. *Updater*: only confirmed servers; the address is lost only by a crash inside a store; memory is what a restart loads; one id is asked for at most, and the one in use is in the file; versions are checked for ever. *Sensors*: the NULL in the map is met by the scanner alone; only the silent are marked; silence is noticed; a sensor that reports stays active. *Reports*: answers fit; outcomes are earned; every report ends. *Packets*: ids are distinct. *Crc16*: it is the remainder; one changed byte, or two neighbours, are noticed |

**Why these bounds are enough to be interesting.** Two slots are the least for two
requests to be confused, and five requests through two slots reuse each slot more than
once and fill the table, so that the id 0 path is taken. With one word for both slots
every store can undo every other. One unsolicited frame during start-up is what it
takes to have two callers of `registerRequest` at once. Three descriptors and two
closes let a connection be replaced twice and run out of descriptors afterwards; two
contents are the least to be out of order. For the serial port three descriptors are
the port, the one that leaks when `open` returns another, and the one an `init`
needs beside them; two names are the radio before and after it was moved; the number of
retries is the code's. Liveness is checked without the files of other threads, which
would only multiply the ways to run out of descriptors, and without the watchdog, which
would end the process in the very cases the property is about.

In receiver_parts a second has four nanoseconds: enough for a sum that carries, one that
does not, a difference of either sign, and the last nanosecond of a second, on which
`expired` differs from a comparison of times; a timeout of one second and a clock of three
let a deadline pass, be missed in one second and be seen in the next. Three servers are
the first, one that is confirmed and one that is not; two crashes are one inside a store
and one after it; two naps of two seconds can be cut at, before and across zero. Two
sensors are one that the scanner looks at while the other is inserted. Blocks of two
bytes and pieces of one, three and seven take both branches of `init` and of `extend`,
and fourteen bytes extend a buffer twice. Two sensors of revision 1 can be given one
id, and two ids can be mixed up; one answer on the way is enough here, as no property is
about answers (packets_signal has two, to be taken for each other); one reply in the queue is enough for its destination to die before it is sent. The bytes of
the CRC have one bit in either half (0, 4 or 7), all or none, or a pattern (1, 3, 4, 6);
three of them shift the first through the whole register and let a change be followed by two bytes
that could hide it.

**What is conditional.** xbee_reports leaves out main's start-up, transmits, status
frames, damage and loss. With any of the first three the slot properties fail, by the three
violations; with the last two `NoLeakedSlot` and `SlotRecycled` fail, because the code has
no timeout, and the others hold (section 6). They are therefore properties of the
steady state with report-only sensors, not of the program at large. `Replaced` and
`QueuedLeaves` assume `[](~Overslept)`: CommThread looks at `isDisconnected` every
second, a heartbeat thread sleeps for ten, so in practice CommThread sees the flag
first. If it does not (it was stopped, or waited for a lock), the heartbeat thread
goes on with `socketMutex` locked and a negative sleep, and the connection is never
replaced. Both properties also allow that CommThread has ended: it returns for good
when descriptors run out, and the process dies on a refusal without its two lines.
Both allow, too, that a signal interrupted the handshake's sleep.
`HeartbeatEnds` and `Recovers` of the serial port count the use of the freed name, the
reboot and the exit as ends, and `Recovers` gives up when every descriptor is taken:
each of them happens, most of them after two threads were in `heartbeat()` together.
`HeartbeatEnds` also excludes a third attempt that succeeds again and again, which
starts the loop over each time without a reboot. `BetweenHeartbeats` is conditional on
`calm`; without it the port may be anything, a file of another thread included.

Of the parts: `RestartIsDeserved` excepts a reset that falls between the two loads of
`lastReset`, which can make an old second and a new nanosecond one expired time.
It says nothing about an expiry that is not noticed, because `expired` compares seconds
and nanoseconds apart and does not notice them reliably; that is stated, against the code's
comments, by three theorems (section 6). `VersionsAreChecked` excepts a nap that a signal cut short, after which `sleepLeft`
can pass zero, and an empty address, which is also that of a `load` that never ends. `OnlyTheSilentAreMarked` excepts a report that came
after the scanner read the sensor's age. `IdsAreDistinct` excepts a reply that was sent after
its destination was gone. `MainProceeds` and `WaitIsOwed` except the id 0 of a full table,
of which `FullTableHangsMain` says what it does. `OutcomeIsEarned` says what AddReport's result is worth, which is not that
the report is stored once: it is stored up to three times. `AtMostOneId` has a price, a receiver
that died before `CloseId` keeps the id 0.

**Fairness.** Weak fairness of each thread: the kernel schedules a thread that can
run. The timed wait of the dispatcher and of CommThread ends by itself, so it is an
action of the fair thread. `WF(HandlerWork)` includes the arrival of an answer to a
frame that was written, which is what "answers arrive" means; unsolicited frames and
losses are not fair. `WF(Handshake)` says that the server answers a CONNECT or the
connection breaks; the code itself polls without a timeout. Nothing is assumed of the
server otherwise. No strong fairness is needed: whoever waits for a mutex
competes with nobody who takes it again and again.

In MCReceiver each part is fair while it is the one that runs: CommThread, its handshake,
the heartbeat thread and a logger that saw a usable connection; main and the updater, the
handler and the scanner, the handler in AddReport. This includes that a transfer ends,
although only its connection has a timeout (`ReportEnds` is about the program's own
loop), that a server asked for a command says "none" in the end, and that a server
answers in the end when asked for the version. The watchdog needs none, its properties are safety. The
packets that `ReportingStaysActive` needs are a premise of it, not fairness.

In SerialLink time passes (WF of Tick) and the plug, the files and the unplugging are
not fair: a radio that stays away is not found, and `Recovers` assumes that it is back.

**CHECK_DEADLOCK FALSE** stands where the system may really stop: after a fault the
process is gone (XBeeComm with start-up, transmits or status frames), SerialLink stops
with the end of its process, and the parts of MCReceiver with a crash of ServerComm, at the
bound of the clock, with the process ended by the watchdog, or with a complete packet.

## 5. Findings

1. `waitCommStruct` cannot be used as its comment says (`XBeeCommunicator.h:63`) once
   the answer may be handled before the wait (xbee_wait).
2. The check that "the argument is valid" before a slot is freed
   (`XBeeCommunicator.cpp:238`) does not cover a frame that is not filled in
   (xbee_transmit).
3. Frames without an id are attributed to a request: a modem status marks one finished
   that the radio has not answered (`XBeeCommunicator.cpp:192`, xbee_modem).
4. `isDisconnected` does not say that "the socket has been disconnected"
   (`ServerComm.cpp:336`) but that some socket was (server_flag).
5. "Restart on failed heartbeat" (`serial.cpp:336-338`) follows a success in the third
   attempt; three failures leave `retries` at -1 and return without a port
   (serial_reboot).
6. The sensor id that is saved "for the command handler, which will handle the response to
   my ATDB command" (`packets.cpp:207-209`) is that of the last packet when the response
   comes, not of the one that asked (packets_signal).

Two comments of the watchdog are contradicted by theorems, for every value of the constants,
rather than by a run: `expired()` does not tell "whether the WDT for this thread has expired"
(`watchdog.h:49`; `ExpiryShowsForPartOfSecond`, `LastNanosecondNeverExpires`), and what
`WatchdogThread` computes is not "the minimum time we need to wait" (`watchdog.cpp:89`;
`TheWaitIsOver`).

Three ways to hang are modelled, and nothing in the repository promises otherwise: main
waits for ever if the slot table was full when it asked (`FullTableHangsMain`),
`Settings::load` reads for ever from a file it could not open, and an interrupted `nsleep`
does not end.

At this commit the program does not compile as it stands: `SensorDB.cpp:223` declares
objects where pointers are meant, and `curl.get` (`update.cpp:18, 48`) and
`curl_easy_getinfo` (`curl.cpp:261`) are called with fewer arguments than they take.
Reports and Updater take the evident meaning of these lines.

Met while reading, and no finding, because nothing in the repository says otherwise or no
property is about it: `sensors.log` and `internet-issues.log` are opened with "a+", whose
`ftell` is 0, so they are never rotated; an answer of exactly its buffer's capacity has
no terminator; a post with the web switched off counts as a failed one; the CRC of a
reply is computed over a pointer (`packets.cpp:278, 326`); `docs/ErrorReporting:2` speaks
of telling the server of a silent sensor, the scanner writes a log line.

## 6. What is proved

All theorems hold for every value of the constants that the named assumptions of the
modules allow (naturals, at least one slot, packets among the known types, more than one
nanosecond to the second). Four theorems about slots assume a workload, named below;
nothing else is assumed.

Of each implementation relation two facts are proved without time, that initial states
map to initial states and that a step maps to a step or a stutter, and then combined; of
each invariant the three facts that make it one.

**XBeeCommProofs**
* `TypingInductive`, `Typing`: `Spec => []TypeOK`. Type correctness is not inductive
  alone: an index such as `comms[frame.id]` or `fre[t].slot` is only in range because
  of where its thread is. The inductive invariant adds, per program counter, what the
  locals used there are: a slot that is claimed, an id that is not 0, two main ids
  before main waits, an empty `todo` outside the packet handlers. One lemma per group of
  actions, one step per action.
* `FramesInOrder`: `Spec => InOrderOnce`, the refinement of FrameChannel. The invariant
  says that the numbers in `wire`, then the request in the dispatcher's hand, then the
  queue are increasing and at most `pushed`. It needs nothing about slots, which is the
  point: order and "at most once" survive everything that goes wrong with them.
* `SlotsAreExclusive`, `SlotsStayClaimed`, `ReportsAreHarmless`: `SlotExclusive`,
  `PendingIsClaimed` and `NoFault`, under the assumption `ReportsOnly`: main is past its
  start-up, sensors only report, and no modem status equals a frame id. Each of the three
  is needed: xbee_wait, xbee_transmit and xbee_modem are what happens without it. Answers may
  be lost and damaged. The invariant `SlotInv` says that every request is then a command
  and every frame with an id the answer to one (`CommandsOnly`); that the slot a written
  request names holds the frame of that request (`InSlot`), so that the frame the handler
  takes a slot number from is the one that was answered; and that the handler is the only
  thread that writes bits, so that the word it has loaded is still the word in the table and
  the slot in its hand is nobody's (`InHand`).
* `NoSlotLeaks`: `NoLeakedSlot`, if moreover no answer is lost or damaged. To `SlotInv` it
  adds that nobody waits for a slot and one that was dispatched has its id, so that the
  handler frees what it finishes (`Dispatched`), and follows each claimed slot from
  hand to hand (`AllHeld`).
* `WaitsAreOwed`: `Spec => []WaitIsOwed`, for every workload, start-up included: as long as
  no answer is lost or damaged, every id that main asked for is 0 (the table was full), or
  has a finished slot, a request on its way, or the answer in the handler's hand. It is
  what safety there is in `MainProceeds`: but for the full table, a wait that nobody will
  end cannot come about by the order of steps, only by the line
  (`XBeeCommunicator.cpp:190`). `finished` is never taken back, not even when
  the slot goes to the next request (`FinishedStays`), which is why main is never
  stuck on a slot, and also why xbee_wait finds it reading too early. The invariant
  (`AnswerInv`) adds that the handler answers nothing between two frames, and finished a
  slot before it considers freeing it.
* `FullTableHangs`: `Spec => FullTableHangsMain`. The exception is real: a main that waits
  with the id 0 never gets out, for any number of slots, however many of them come free.

**ServerCommProofs**
* `ServerTypingInductive`, `ServerTyping`: `ServerSpec => []ServerTypeOK`, with the facts
  about the content that CommThread has taken off the queue.
* `HeartbeatIsSafe`: `ServerSpec => []HeartbeatOnAckedSocket`. The invariant says that a
  running heartbeat thread means that the socket was acknowledged and that CommThread
  is in its send loop or on the way to `Join`, and that `DONE` means that the thread is
  gone; this is the handshake between `cleanup` and `HeartbeatThread` in one formula.
* `NothingOvertakes`: `ServerSpec => []ContentsInOrder`.
* `ContentsAreChanneled`: `ServerSpec => ContentsChanneled`, the refinement of FrameChannel:
  `SendContent` is its Accept, `Send` its Send, and all else, reconnecting included, is a
  stutter. The order of contents says which number is sent next (`HandledIsSorted`).

**SerialLinkProofs** (at least two descriptors, device names are positive numbers)
* `SerialTypingInductive`, `SerialTyping`: `Spec => []TypeOK`. The addition is that
  `retries` is not negative inside a heartbeat, so that it never passes -1.
* `HeartbeatHarmless`: `Spec => []BetweenHeartbeats`. The invariant follows the one
  thread in the heartbeat: from the first `close` on, `portFileNo` names either a free
  descriptor or the radio, never a file, and `isatty` tells the two apart; `savedPortName`
  is the radio's name except between its delete and its new value. The theorem is about
  any number of descriptors, so it does not rest on which one is the lowest.

**WatchdogProofs**
* `AddIsExact`, `AddIsNormal`, `SubIsExact`: `add_timespec` adds, times and differences of
  either sign, and the sum of two times is a time; `sub_timespec` subtracts, but its
  nanoseconds have either sign. They rest on lemmas about division towards zero.
* `WatchdogIsTyped`: `WatchdogSpec => []WatchdogTypeOK`.
* `RestartsAreDeserved`: `[]RestartIsDeserved`. `expired` may say no too often but never yes
  too early: if both parts are greater, the time is. The invariant says that a deadline
  which the thread has judged passed had passed for the `lastReset` of that moment, unless the read
  was torn, and that `overdue` remembers it.
* `ExpiryShowsForPartOfSecond`: once the clock's second is past the deadline's, the
  deadline has passed, but `expired` says so exactly while the nanoseconds are past the
  deadline's too: a scan that looks at the wrong part of each second finds nothing.
* `LastNanosecondNeverExpires`: that part can be empty. A reset in the last nanosecond
  of a second never expires, however late it is.
* `TheWaitIsOver`: `minTime` starts at -1 seconds, a deadline that lies ahead is never less,
  and so the time the scan waits for has passed whatever the deadline: the thread polls.

**UpdaterProofs**
* `UpdaterIsTyped`, and from one invariant `ServersAreConfirmed`, `LossIsExplained`,
  `MemoryMatchesFile`, `OneIdAtMost`, `IdSurvives`. `Stages` says, for each place of the
  updater, what file and memory hold there (truncated, about to be, or equal), and
  `IdStages` the same for the id: no file means that nothing was asked yet.

**SensorsProofs** (Sensors and Reports)
* `SensorsAreTyped`, `NullStaysInAdd` (a NULL is only there while the handler is between
  the two halves of AddSensor, and only for its packet's sensor), `MarksAreDeserved` (a
  sensor that the scanner is about to mark is still silent or has overtaken it).
* `ReportsAreTyped`, `AnswersFit` (by `CapacityGrows`: `init` and `extend` return what is
  needed for any block size) and `OutcomesAreEarned` (`Bookkeeping`: posts made and retries
  left add up).
* `ReportsShrink`: each step of AddReport leaves less to do (`WorkLeft`, a natural
  number), and the server's steps undo none of it. With the fairness that the program
  needs anyway this is why `ReportEnds` holds for any number of retries.

**PacketsProofs**
* `PacketsAreTyped`.
* `OneSensorPerId`: `[]IdsAreDistinct`. An id travels from the server to the packet in hand,
  to a queued reply, to a sensor, and there may be several copies of it on the way. The
  invariant `OneHolder` says that all copies of an issued id belong to one radio.

**Crc16Proofs**
* `UpdateDivides`: for every register and every byte, two passes through the tables are
  eight steps of the division. A half of the byte is shown to divide by comparing the sets
  of one-bits, for each index of the tables.
* `TablesDivide`: `[]IsTheRemainder`, for packets of any bytes and any length.
* `BurstsAreNoticed`: `[]ChangeIsNoticed`. Division is injective in the register and in
  the byte, so registers that differ stay different; and the register after two bytes
  tells both of them, so a change in the second cannot undo one in the first. Both receive
  the same bytes afterwards, whatever they are.

**Only model-checked.** The liveness properties (`SlotRecycled`, `QueuedIsDispatched`,
`MainProceeds`, `Replaced`, `QueuedLeaves`, `HeartbeatEnds`, `Recovers`,
`VersionsAreChecked`, `SilenceIsNoticed`, `ReportingStaysActive`, `ReportEnds`), because the
prover does not do fairness; of `SlotRecycled`, `MainProceeds` and `ReportEnds` the part that
is safety is proved (`NoSlotLeaks`, `WaitsAreOwed`, `ReportsShrink`). Every invariant and every
action property that a passing run checks is a theorem. `ContentsChanneled` is a theorem
only.

## 7. What is not modelled, and why

* **Reading frames byte by byte** (`XBAPI_ReadFrame`): the search for a delimiter, the
  length that is trusted, the checksum that is read and ignored. The models begin with the
  frame it returns; a damaged length appears as `HandleGarbled`. Its result is false for a
  length that does not fit into a frame (`xbee.cpp:217`), and the handler does not look at it
  (`XBeeCommunicator.cpp:190`). `SerialPort::read` polls for ever on an error
  (`serial.cpp:215-217`) and never returns less than it was asked for; of `read` and `write`
  the models have the heartbeat they begin with.
* **The keep-alive** of the dispatcher (`XBeeCommunicator.cpp:282`): its test compares the
  time with ten seconds after 1970 and is never true, so the command that the comment at
  line 278 speaks of is never sent. No state of a model can show the absence of a branch
  that has no reachable guard; the contradiction is stated here.
* **The text of the server protocol** (`RSCPContent`, `loadFromComm`), of log lines, JSON
  and files, and the rotation of logs: formatting. What of it decides something is in the models as a
  choice (a refusal without its two lines, an answer that is no number).
* **libcurl, termios, the kernel**: external; what the code makes of their results is
  modelled.
* **Failures of the files themselves** other than the settings file that `load` cannot open:
  a `store` that cannot open it, a full disk.
* **The repair after EINVAL** in CommThread: the deadline it waits for is always valid.
* **Downloads and update.sh**: appear as the crash that ends the process in the end.
* **`watchdogQuit` and the erase after a restart**: the process is ending.
* **The data race on the strings of the settings map** (`settings.cpp:37` against its
  readers): a reader sees the old or the new server in the models, never a torn string.
* **Argument parsing, forking, redirection, hexdumps, time strings.**
* **`retry()`, `readByte`, `SensorDB::AddSensor` and `AddProbe`**: nobody calls them.
* **cJSON**: vendored. **The tests**: they print and assert nothing.
