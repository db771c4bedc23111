----------------------------- MODULE SerialLink -----------------------------
(***************************************************************************)
(* SerialPort: the descriptor of the radio's serial device, and the        *)
(* heartbeat that reopens it.                                              *)
(*                                                                         *)
(* The handler thread (reader) and the dispatcher thread (writer) call     *)
(* heartbeat() before each read and write.  When it is thirty seconds      *)
(* since the port was initialized it closes the descriptor, opens the      *)
(* device by its saved name, and initializes the port anew if that did not *)
(* work.  portFileNo, savedPortName and lastHeartbeat are shared without a *)
(* lock, and the descriptors with every other thread that opens files.     *)
(***************************************************************************)
EXTENDS Integers, FiniteSets

CONSTANTS
  MaxFds,      \* descriptors the process may have; 0 stands for -1
  Names,       \* the device names the radio can appear under
  FirstName,   \* the one it has at the start
  MaxFiles,    \* bound: files other threads have open at a time
  MaxUnplugs,  \* bound: how often the radio is unplugged
  Watchdog     \* TRUE unless the program runs with --no-wdt

ASSUME FdAssumption == MaxFds \in Nat /\ MaxFds > 1
ASSUME NameAssumption == Names \subseteq Nat \ {0} /\ FirstName \in Names
ASSUME LinkBoundAssumption ==
  MaxFiles \in Nat /\ MaxUnplugs \in Nat /\ Watchdog \in BOOLEAN

VARIABLES
  fd,          \* what each descriptor is open on
  files,       \* the descriptors other threads believe are theirs
  node,        \* the name of the radio's device, 0 while it is unplugged
  unplugs,     \* how often it was unplugged
  portFileNo, savedPortName,  \* 0: -1, and memory that was freed
  due,         \* HEARTBEAT_TIME has passed since lastHeartbeat
  pc,          \* where each thread is
  retries,     \* local of heartbeat()
  last,        \* the reinit() in progress is the one after the retry loop
  found,       \* the port findValidPorts() returned, 0 if none
  ended,       \* "no", or how the process came to its end
  calm         \* history: since the port was settled nothing disturbed it

Threads == {"reader", "writer"}
Fds == 1..MaxFds
env == <<files, node, unplugs>>
port == <<portFileNo, savedPortName, due>>
locals == <<retries, last, found>>

PCs == {"io", "open", "isatty", "setattr", "sleep", "reinit", "find",
        "initDelete", "initOpen", "initTty", "initAttr"}

TypeOK ==
  /\ fd \in [Fds -> {"free", "radio", "dead", "file"}]
  /\ files \in SUBSET Fds /\ node \in Names \cup {0} /\ unplugs \in Nat
  /\ portFileNo \in 0..MaxFds /\ savedPortName \in Names \cup {0}
  /\ due \in BOOLEAN
  /\ pc \in [Threads -> PCs] /\ retries \in [Threads -> -1..2]
  /\ last \in [Threads -> BOOLEAN] /\ found \in [Threads -> Names \cup {0}]
  /\ ended \in {"no", "freed name", "double delete", "terminated", "rebooted"}
  /\ calm \in BOOLEAN

\* main has constructed the port before it starts the threads.
Init ==
  /\ node = FirstName /\ savedPortName = FirstName
  /\ portFileNo = 1 /\ fd = [n \in Fds |-> IF n = 1 THEN "radio" ELSE "free"]
  /\ files = {} /\ unplugs = 0
  /\ due = FALSE
  /\ pc = [t \in Threads |-> "io"] /\ retries = [t \in Threads |-> -1]
  /\ last = [t \in Threads |-> FALSE] /\ found = [t \in Threads |-> 0]
  /\ ended = "no" /\ calm = TRUE

At(t, label) == ended = "no" /\ pc[t] = label
Goto(t, label) == pc' = [pc EXCEPT ![t] = label]

Lowest(n) == fd[n] = "free" /\ \A m \in 1..(n - 1) : fd[m] # "free"
OpenFd(n) == fd' = [fd EXCEPT ![n] = "radio"]
ClosePort == fd' = [n \in Fds |-> IF n = portFileNo THEN "free" ELSE fd[n]]
IsTty == portFileNo # 0 /\ fd[portFileNo] = "radio"

-----------------------------------------------------------------------------
(* The retry loops of heartbeat().                                         *)

\* if(retries == 0) after the loop, which is so after a success in the third
\* attempt: one more reinit().  Otherwise heartbeat() returns.
Decide(t, left) ==
  /\ retries' = [retries EXCEPT ![t] = IF left = 0 THEN 0 ELSE -1]
  /\ last' = [last EXCEPT ![t] = left = 0]
  /\ Goto(t, IF left = 0 THEN "reinit" ELSE "io")

\* while(retries --): -1 is left after three attempts that failed.
Again(t, left) ==
  IF left = 0 THEN Decide(t, -1)
  ELSE /\ retries' = [retries EXCEPT ![t] = left - 1]
       /\ last' = [last EXCEPT ![t] = FALSE]
       /\ Goto(t, "open")

\* Every read and write begins with heartbeat(); until it is due, and between
\* two heartbeats, the bytes that are read and written change nothing here.
Heartbeat(t) ==
  /\ At(t, "io")
  /\ due
  /\ ClosePort
  /\ Again(t, 3)
  /\ UNCHANGED <<env, port, found, ended>>

\* Mutant of Open: a device that is gone is waited for, and not looked for.
OpenWaits(t) ==
  /\ At(t, "open")
  /\ IF node = savedPortName /\ node # 0
     THEN /\ \E n \in Fds : Lowest(n) /\ OpenFd(n)
          /\ Goto(t, "isatty")
     ELSE Goto(t, "sleep") /\ UNCHANGED fd
  /\ UNCHANGED <<env, port, locals, ended>>

\* open() returns the lowest descriptor that is free; the result is not
\* assigned to portFileNo.
Open(t) ==
  /\ At(t, "open")
  /\ \/ /\ savedPortName = 0
        /\ ended' = "freed name"
        /\ UNCHANGED <<fd, pc>>
     \/ /\ savedPortName # 0 /\ node = savedPortName
        /\ \E n \in Fds : Lowest(n) /\ OpenFd(n)
        /\ Goto(t, "isatty")
        /\ UNCHANGED ended
     \/ /\ savedPortName # 0
        /\ node # savedPortName \/ \A n \in Fds : fd[n] # "free"
        /\ Goto(t, "reinit")
        /\ UNCHANGED <<fd, ended>>
  /\ UNCHANGED <<env, port, locals>>

\* Mutant of Isatty: the descriptor is taken for the one just opened.
IsattyAssumed(t) ==
  /\ At(t, "isatty")
  /\ Decide(t, retries[t])
  /\ UNCHANGED <<fd, env, port, found, ended>>

\* isatty(portFileNo), whatever that number names by now.
Isatty(t) ==
  /\ At(t, "isatty")
  /\ Goto(t, IF IsTty THEN "setattr" ELSE "reinit")
  /\ UNCHANGED <<fd, env, port, locals, ended>>

Setattr(t) ==
  /\ At(t, "setattr")
  /\ IF IsTty THEN Decide(t, retries[t])
     ELSE Goto(t, "sleep") /\ UNCHANGED <<retries, last>>
  /\ UNCHANGED <<fd, env, port, found, ended>>

\* Mutant of Sleep: an attempt that failed is not counted.
SleepUncounted(t) ==
  /\ At(t, "sleep")
  /\ Goto(t, "open")
  /\ UNCHANGED <<fd, env, port, locals, ended>>

\* Mutant of Sleep: retries is decremented before and after the test.
SleepTwice(t) ==
  /\ At(t, "sleep")
  /\ Again(t, retries[t] - 1)
  /\ UNCHANGED <<fd, env, port, found, ended>>

\* Thirty seconds.  The dispatcher's watchdog expires after one, and its
\* restart sends the thread a SIGTERM, on which the process exits.
Sleep(t) ==
  /\ At(t, "sleep")
  /\ IF t = "writer" /\ Watchdog
     THEN ended' = "terminated" /\ UNCHANGED <<retries, last, pc>>
     ELSE Again(t, retries[t]) /\ UNCHANGED ended
  /\ UNCHANGED <<fd, env, port, found>>

-----------------------------------------------------------------------------
(* reinit(), findPortsAndInit() and init().                                *)

\* After the last reinit() the setting restart-on-failed-heartbeat decides:
\* system("reboot"), or the loop once more, with three retries.
Return(t, ok) ==
  /\ found' = [found EXCEPT ![t] = 0]
  /\ \/ last[t] /\ ended' = "rebooted" /\ UNCHANGED <<retries, last, pc>>
     \/ last[t] /\ Again(t, 3) /\ UNCHANGED ended
     \/ ~last[t] /\ ok /\ Decide(t, retries[t]) /\ UNCHANGED ended
     \/ ~last[t] /\ ~ok /\ Goto(t, "sleep") /\ UNCHANGED <<retries, last, ended>>
  /\ UNCHANGED env

Reinit(t) ==
  /\ At(t, "reinit")
  /\ ClosePort
  /\ Goto(t, "find")
  /\ UNCHANGED <<env, port, locals, ended>>

\* findValidPorts() opens each device for a moment.
Find(t) ==
  /\ At(t, "find")
  /\ IF node # 0 /\ \E n \in Fds : fd[n] = "free"
     THEN /\ found' = [found EXCEPT ![t] = node]
          /\ Goto(t, "initDelete")
          /\ UNCHANGED <<env, retries, last, ended>>
     ELSE Return(t, FALSE)
  /\ UNCHANGED <<fd, port>>

\* The saved name is deleted first, and set again once the port is open.
InitDelete(t) ==
  /\ At(t, "initDelete")
  /\ IF savedPortName = 0
     THEN ended' = "double delete" /\ UNCHANGED <<savedPortName, pc>>
     ELSE savedPortName' = 0 /\ Goto(t, "initOpen") /\ UNCHANGED ended
  /\ UNCHANGED <<fd, env, portFileNo, due, locals>>

InitOpen(t) ==
  /\ At(t, "initOpen")
  /\ \/ /\ node = found[t]
        /\ \E n \in Fds : Lowest(n) /\ OpenFd(n) /\ portFileNo' = n
        /\ Goto(t, "initTty")
        /\ UNCHANGED <<env, locals, ended>>
     \/ /\ node # found[t] \/ \A n \in Fds : fd[n] # "free"
        /\ portFileNo' = 0
        /\ Return(t, FALSE)
        /\ UNCHANGED fd
  /\ UNCHANGED <<savedPortName, due>>

InitTty(t) ==
  /\ At(t, "initTty")
  /\ IF IsTty
     THEN /\ due' = FALSE
          /\ savedPortName' = found[t]
          /\ Goto(t, "initAttr")
          /\ UNCHANGED <<env, locals, ended>>
     ELSE Return(t, FALSE) /\ UNCHANGED <<due, savedPortName>>
  /\ UNCHANGED <<fd, portFileNo>>

InitAttr(t) ==
  /\ At(t, "initAttr")
  /\ Return(t, IsTty)
  /\ UNCHANGED <<fd, port>>

Thread(t) ==
  \/ Heartbeat(t) \/ Open(t) \/ Isatty(t) \/ Setattr(t) \/ Sleep(t)
  \/ Reinit(t) \/ Find(t) \/ InitDelete(t) \/ InitOpen(t) \/ InitTty(t)
  \/ InitAttr(t)

-----------------------------------------------------------------------------
(* External: time, the radio's plug, and the files of the other threads.   *)

Tick ==
  /\ ended = "no" /\ ~due
  /\ due' = TRUE
  /\ UNCHANGED <<fd, env, portFileNo, savedPortName, pc, locals, ended>>

\* Descriptors of a device that is gone stay open, and are no terminals.
Unplug ==
  /\ ended = "no" /\ node # 0 /\ unplugs < MaxUnplugs
  /\ node' = 0 /\ unplugs' = unplugs + 1
  /\ fd' = [n \in Fds |-> IF fd[n] = "radio" THEN "dead" ELSE fd[n]]
  /\ UNCHANGED <<files, port, pc, locals, ended>>

Plug ==
  /\ ended = "no" /\ node = 0
  /\ node' \in Names
  /\ UNCHANGED <<fd, files, unplugs, port, pc, locals, ended>>

FileOpen ==
  /\ ended = "no" /\ Cardinality(files) < MaxFiles
  /\ \E n \in Fds : /\ Lowest(n)
                    /\ fd' = [fd EXCEPT ![n] = "file"]
                    /\ files' = files \cup {n}
  /\ UNCHANGED <<node, unplugs, port, pc, locals, ended>>

\* The owner of a file closes its number, even if the port has it by now.
FileClose ==
  /\ ended = "no"
  /\ \E n \in files : /\ fd' = [fd EXCEPT ![n] = "free"]
                      /\ files' = files \ {n}
  /\ UNCHANGED <<node, unplugs, port, pc, locals, ended>>

InHeartbeat(t) == pc[t] # "io"
Busy == \E t \in Threads : InHeartbeat(t)

\* What a step must leave alone for the heartbeat to be undisturbed: no second
\* heartbeat beside it, no unplugging, no file opened or closed by others while
\* it runs, and a descriptor left.
Calm ==
  /\ \E t \in Threads : ~InHeartbeat(t)'
  /\ node' # 0
  /\ files' = files \/ ~Busy
  /\ \E n \in Fds : fd'[n] = "free"

\* The port is open on the radio, the files of other threads are theirs, and no
\* heartbeat is under way.
Settled ==
  /\ ended = "no" /\ ~Busy
  /\ IsTty /\ node # 0 /\ savedPortName = node
  /\ \A n \in files : fd[n] = "file"
  /\ \E n \in Fds : fd[n] = "free"

Remember == calm' = (Settled' \/ (calm /\ Calm))

Next ==
  \/ \E t \in Threads : Thread(t) /\ Remember
  \/ (Tick \/ Unplug \/ Plug \/ FileOpen \/ FileClose) /\ Remember

vars == <<fd, env, port, pc, locals, ended, calm>>
Spec == Init /\ [][Next]_vars

\* The threads run and time passes.
FairSpec ==
  /\ Spec
  /\ \A t \in Threads : WF_vars(Thread(t) /\ Remember)
  /\ WF_vars(Tick /\ Remember)

-----------------------------------------------------------------------------
(* Properties.                                                             *)

\* A heartbeat that starts from a settled port and is not disturbed leaves the
\* port open on the radio under the radio's name, although the descriptor that
\* open() returned is never assigned (heartbeat, reinit, init).
BetweenHeartbeats ==
  calm => /\ ended = "no"
          /\ ~Busy => IsTty /\ savedPortName = node

\* heartbeat() comes to an end, with a port or without one, unless the third
\* attempt succeeds again and again: then it starts over each time.
HeartbeatEnds ==
  \A t \in Threads : []<>(pc[t] = "io" \/ last[t] \/ ended # "no")

Exhausted == \A n \in Fds : fd[n] # "free"

\* A radio that stays plugged in is found again, under whatever name, if the
\* process neither ends nor runs out of descriptors.
Recovers == <>[](node # 0) => []<>(IsTty \/ ended # "no" \/ Exhausted)

\* The reboot is for "restart on failed heartbeat" (heartbeat): the code decides
\* for it only if no attempt has opened the port.
RestartIsForFailure ==
  [][\A t \in Threads : ~last[t] /\ last'[t] => ~IsTty]_vars

=============================================================================
