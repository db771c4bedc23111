-------------------------- MODULE SerialLinkProofs --------------------------
(***************************************************************************)
(* Theorems about SerialLink, for any number of descriptors, device names, *)
(* files and unplugs:                                                      *)
(*   SerialTyping       Spec => []TypeOK                                   *)
(*   HeartbeatHarmless  Spec => []BetweenHeartbeats                        *)
(***************************************************************************)
EXTENDS SerialLink, TLAPS

-----------------------------------------------------------------------------
(* Typing.  retries is decremented only while attempts are left, so it is  *)
(* never below 0 inside a heartbeat.                                       *)

Counted == \A t \in Threads : InHeartbeat(t) => retries[t] >= 0

SerialInv == TypeOK /\ Counted

Locals ==
  /\ pc \in [Threads -> PCs] /\ retries \in [Threads -> -1..2]
  /\ last \in [Threads -> BOOLEAN]
  /\ Counted

LEMMA DecideType ==
  ASSUME NEW t \in Threads, NEW left \in -1..2, Locals, Decide(t, left)
  PROVE  Locals'
<1>1. last' \in [Threads -> BOOLEAN]
  <2>1. (left = 0) \in BOOLEAN
    BY Zenon
  <2> QED BY <2>1, Zenon DEF Decide, Locals
<1>2. pc' \in [Threads -> PCs] /\ retries' \in [Threads -> -1..2]
  BY DEF Decide, Locals, Goto, PCs
<1>3. Counted'
  BY DEF Decide, Locals, Counted, Goto, InHeartbeat
<1> QED BY <1>1, <1>2, <1>3 DEF Locals

LEMMA AgainType ==
  ASSUME NEW t \in Threads, NEW left \in 0..3, Locals, Again(t, left)
  PROVE  Locals'
<1>1. CASE left = 0
  BY <1>1, DecideType DEF Again
<1>2. CASE left # 0
  <2>1. last' \in [Threads -> BOOLEAN]
    <3>1. FALSE \in BOOLEAN
      BY Zenon
    <3> QED BY <1>2, <3>1, Zenon DEF Again, Locals
  <2>2. pc' \in [Threads -> PCs] /\ retries' \in [Threads -> -1..2]
    BY <1>2 DEF Again, Locals, Goto, PCs
  <2>3. Counted'
    BY <1>2 DEF Again, Locals, Counted, Goto, InHeartbeat
  <2> QED BY <2>1, <2>2, <2>3 DEF Locals
<1> QED BY <1>1, <1>2

LEMMA GotoType ==
  ASSUME NEW t \in Threads, NEW label \in PCs, Locals,
         pc[t] # "io", Goto(t, label), UNCHANGED <<retries, last>>
  PROVE  Locals'
BY DEF Locals, Goto, Counted, InHeartbeat

LEMMA ReturnType ==
  ASSUME NEW t \in Threads, NEW ok \in BOOLEAN, SerialInv, Locals,
         pc[t] # "io", Return(t, ok)
  PROVE  /\ Locals' /\ files' = files /\ node' = node /\ unplugs' = unplugs
         /\ found' \in [Threads -> Names \cup {0}]
         /\ ended' \in {ended, "rebooted"}
<1>1. UNCHANGED <<files, node, unplugs>>
  BY DEF Return, env
<1>2. found' \in [Threads -> Names \cup {0}]
  BY DEF Return, SerialInv, TypeOK
<1>3. Locals' /\ ended' \in {ended, "rebooted"}
  <2>1. CASE last[t] /\ ended' = "rebooted" /\ UNCHANGED <<retries, last, pc>>
    BY <2>1 DEF Locals, Counted, InHeartbeat
  <2>2. CASE last[t] /\ Again(t, 3) /\ UNCHANGED ended
    BY <2>2, AgainType
  <2>3. CASE ~last[t] /\ ok /\ Decide(t, retries[t]) /\ UNCHANGED ended
    <3>1. retries[t] \in -1..2
      BY DEF Locals, Counted, InHeartbeat, SerialInv
    <3> QED BY <2>3, <3>1, DecideType
  <2>4. CASE ~last[t] /\ ~ok /\ Goto(t, "sleep") /\ UNCHANGED <<retries, last, ended>>
    BY <2>4, GotoType DEF PCs
  <2> QED BY <2>1, <2>2, <2>3, <2>4 DEF Return
<1> QED BY <1>1, <1>2, <1>3

LEMMA LocalsHold == ASSUME SerialInv PROVE Locals
BY DEF SerialInv, TypeOK, Locals

FdType == fd \in [Fds -> {"free", "radio", "dead", "file"}]

LEMMA CloseType == ASSUME FdType, ClosePort PROVE FdType'
BY DEF FdType, ClosePort

LEMMA OpenType == ASSUME FdType, NEW n \in Fds, OpenFd(n) PROVE FdType'
BY DEF FdType, OpenFd

\* What the actions of a thread leave alone, but for calm, which is the last
\* conjunct of every step.
ThreadTyped ==
  /\ fd' \in [Fds -> {"free", "radio", "dead", "file"}]
  /\ files' \in SUBSET Fds /\ node' \in Names \cup {0} /\ unplugs' \in Nat
  /\ portFileNo' \in 0..MaxFds /\ savedPortName' \in Names \cup {0}
  /\ due' \in BOOLEAN
  /\ Locals'
  /\ found' \in [Threads -> Names \cup {0}]
  /\ ended' \in {"no", "freed name", "double delete", "terminated", "rebooted"}

LEMMA HeartbeatType ==
  ASSUME SerialInv, NEW t \in Threads,
         Heartbeat(t) \/ Open(t) \/ Isatty(t) \/ Setattr(t) \/ Sleep(t)
  PROVE  ThreadTyped
<1>0. Locals /\ retries[t] \in -1..2 /\ (pc[t] # "io" => retries[t] \in 0..2)
  BY LocalsHold DEF Locals, Counted, InHeartbeat
<1> USE DEF ThreadTyped, env, port, locals
<1>1. CASE Heartbeat(t)
  <2>1. FdType'
    BY <1>1, CloseType DEF Heartbeat, FdType, SerialInv, TypeOK
  <2>2. Locals'
    <3>1. Again(t, 3)
      BY <1>1, Zenon DEF Heartbeat
    <3>2. 3 \in 0..3
      OBVIOUS
    <3> QED BY <1>0, <3>1, <3>2, AgainType, Zenon
  <2> QED BY <1>1, <2>1, <2>2 DEF Heartbeat, FdType, SerialInv, TypeOK
<1>2. CASE Open(t)
  <2>1. FdType'
    BY <1>2, OpenType DEF Open, FdType, SerialInv, TypeOK
  <2>2. Locals'
    BY <1>0, <1>2, GotoType DEF Open, At, PCs, Locals, Counted, InHeartbeat
  <2> QED BY <1>2, <2>1, <2>2 DEF Open, FdType, SerialInv, TypeOK
<1>3. CASE Isatty(t)
  BY <1>0, <1>3, GotoType DEF Isatty, At, PCs, SerialInv, TypeOK
<1>4. CASE Setattr(t)
  <2>1. Locals'
    BY <1>0, <1>4, GotoType, DecideType DEF Setattr, At, PCs
  <2> QED BY <1>4, <2>1 DEF Setattr, SerialInv, TypeOK
<1>5. CASE Sleep(t)
  <2>1. Locals'
    <3>1. CASE t = "writer" /\ Watchdog
      BY <1>0, <1>5, <3>1 DEF Sleep, Locals, Counted, InHeartbeat
    <3>2. CASE ~(t = "writer" /\ Watchdog)
      BY <1>0, <1>5, <3>2, AgainType DEF Sleep, At
    <3> QED BY <3>1, <3>2
  <2> QED BY <1>5, <2>1 DEF Sleep, SerialInv, TypeOK
<1> QED BY <1>1, <1>2, <1>3, <1>4, <1>5

LEMMA ReinitType ==
  ASSUME SerialInv, NEW t \in Threads,
         Reinit(t) \/ Find(t) \/ InitDelete(t) \/ InitOpen(t) \/ InitTty(t)
           \/ InitAttr(t)
  PROVE  ThreadTyped
<1>0. Locals
  BY LocalsHold
<1> USE DEF ThreadTyped, env, port, locals
<1>1. CASE Reinit(t)
  <2>1. FdType'
    BY <1>1, CloseType DEF Reinit, FdType, SerialInv, TypeOK
  <2>2. Locals'
    BY <1>0, <1>1, GotoType DEF Reinit, At, PCs
  <2> QED BY <1>1, <2>1, <2>2 DEF Reinit, FdType, SerialInv, TypeOK
<1>2. CASE Find(t)
  <2>1. CASE node # 0 /\ \E n \in Fds : fd[n] = "free"
    BY <1>0, <1>2, <2>1, GotoType DEF Find, At, PCs, SerialInv, TypeOK
  <2>2. CASE ~(node # 0 /\ \E n \in Fds : fd[n] = "free")
    BY <1>0, <1>2, <2>2, ReturnType DEF Find, At, SerialInv, TypeOK
  <2> QED BY <2>1, <2>2
<1>3. CASE InitDelete(t)
  <2>1. Locals'
    BY <1>0, <1>3, GotoType DEF InitDelete, At, PCs, Locals, Counted, InHeartbeat
  <2> QED BY <1>3, <2>1 DEF InitDelete, SerialInv, TypeOK
<1>4. CASE InitOpen(t)
  <2>1. CASE portFileNo' = 0 /\ Return(t, FALSE) /\ UNCHANGED fd
    <3>1. portFileNo' \in 0..MaxFds
      BY <2>1, FdAssumption
    <3>2. /\ Locals' /\ files' = files /\ node' = node /\ unplugs' = unplugs
          /\ found' \in [Threads -> Names \cup {0}]
          /\ ended' \in {ended, "rebooted"}
      <4>1. FALSE \in BOOLEAN /\ pc[t] # "io"
        BY <1>4 DEF InitOpen, At
      <4> QED BY <1>0, <2>1, <4>1, ReturnType, Zenon DEF Locals, SerialInv, TypeOK
    <3> QED BY <1>4, <2>1, <3>1, <3>2 DEF InitOpen, SerialInv, TypeOK
  <2>2. CASE /\ \E n \in Fds : Lowest(n) /\ OpenFd(n) /\ portFileNo' = n
             /\ Goto(t, "initTty") /\ UNCHANGED <<env, locals, ended>>
    <3>1. PICK n \in Fds : OpenFd(n) /\ portFileNo' = n
      BY <2>2, Zenon
    <3>2. portFileNo' \in 0..MaxFds
      BY <3>1, FdAssumption DEF Fds
    <3>3. FdType'
      BY <3>1, OpenType DEF FdType, SerialInv, TypeOK
    <3>4. Locals'
      BY <1>0, <1>4, <2>2, GotoType DEF InitOpen, At, PCs
    <3> QED BY <1>4, <2>2, <3>2, <3>3, <3>4 DEF InitOpen, FdType, SerialInv, TypeOK
  <2> QED BY <1>4, <2>1, <2>2 DEF InitOpen, SerialInv, TypeOK
<1>5. CASE InitTty(t)
  <2>1. CASE IsTty
    <3>1. due' \in BOOLEAN
      BY <1>5, <2>1, Zenon DEF InitTty
    <3>2. Locals'
      BY <1>0, <1>5, <2>1, GotoType DEF InitTty, At, PCs
    <3> QED BY <1>5, <2>1, <3>1, <3>2 DEF InitTty, SerialInv, TypeOK
  <2>2. CASE ~IsTty
    BY <1>0, <1>5, <2>2, ReturnType DEF InitTty, At, SerialInv, TypeOK
  <2> QED BY <2>1, <2>2
<1>6. CASE InitAttr(t)
  <2>1. IsTty \in BOOLEAN
    BY Zenon DEF IsTty
  <2> QED BY <1>0, <1>6, <2>1, ReturnType DEF InitAttr, At, SerialInv, TypeOK
<1> QED BY <1>1, <1>2, <1>3, <1>4, <1>5, <1>6

LEMMA ExternalType ==
  ASSUME SerialInv, Tick \/ Unplug \/ Plug \/ FileOpen \/ FileClose
  PROVE  ThreadTyped
<1> USE DEF SerialInv, TypeOK, ThreadTyped, env, port, locals
<1>0. ASSUME UNCHANGED <<pc, retries, last>>
      PROVE  Locals'
  BY <1>0, LocalsHold DEF Locals, Counted, InHeartbeat
<1>1. CASE Tick
  <2>1. due' \in BOOLEAN
    BY <1>1, Zenon DEF Tick
  <2> QED BY <1>0, <1>1, <2>1 DEF Tick
<1>2. CASE Unplug
  BY <1>0, <1>2 DEF Unplug
<1>3. CASE Plug
  BY <1>0, <1>3 DEF Plug
<1>4. CASE FileOpen
  BY <1>0, <1>4 DEF FileOpen
<1>5. CASE FileClose
  BY <1>0, <1>5 DEF FileClose
<1> QED BY <1>1, <1>2, <1>3, <1>4, <1>5

LEMMA SerialTypingStep == ASSUME SerialInv, [Next]_vars PROVE SerialInv'
<1>1. CASE Next
  <2>1. calm' \in BOOLEAN
    BY <1>1, Zenon DEF Next, Remember
  <2>2. ThreadTyped
    BY <1>1, HeartbeatType, ReinitType, ExternalType DEF Next, Thread
  <2> QED BY <2>1, <2>2 DEF ThreadTyped, Locals, SerialInv, TypeOK
<1>2. CASE UNCHANGED vars
  BY <1>2 DEF vars, env, port, locals, SerialInv, TypeOK, Counted, InHeartbeat
<1> QED BY <1>1, <1>2

LEMMA SerialTypingInit == ASSUME Init PROVE SerialInv
<1>1. due \in BOOLEAN /\ calm \in BOOLEAN
  BY Zenon DEF Init
<1>2. last \in [Threads -> BOOLEAN]
  <2>1. FALSE \in BOOLEAN
    BY Zenon
  <2> QED BY <2>1, Zenon DEF Init
<1> QED BY <1>1, <1>2, FdAssumption, NameAssumption
        DEF Init, SerialInv, TypeOK, Counted, InHeartbeat, PCs, Fds

\* SerialInv holds in every reachable state.
THEOREM SerialTypingInductive == Spec => []SerialInv
<1>1. Init => SerialInv
  BY SerialTypingInit
<1>2. SerialInv /\ [Next]_vars => SerialInv'
  BY SerialTypingStep
<1> QED BY <1>1, <1>2, PTL DEF Spec

\* Type correctness of the serial port: in particular retries never leaves
\* -1..2, and portFileNo is a descriptor or -1, for any number of descriptors.
THEOREM SerialTyping == Spec => []TypeOK
<1>1. SerialInv => TypeOK
  BY DEF SerialInv
<1> QED BY <1>1, SerialTypingInductive, PTL

-----------------------------------------------------------------------------
(* An undisturbed heartbeat.  The descriptor that open() returns is not    *)
(* assigned; what makes this harmless is that portFileNo was just closed:  *)
(* either open() returns that very number, or the number is not a terminal *)
(* and the port is initialized anew.  It never becomes another's file,     *)
(* because the files of others do not change meanwhile.                    *)

Shut == portFileNo # 0 /\ fd[portFileNo] = "free"

Progress(t) ==
  /\ retries[t] = 2 /\ last[t] = FALSE
  /\ pc[t] \in PCs \ {"sleep"}
  /\ pc[t] \notin {"initOpen", "initTty"} => savedPortName = node
  /\ pc[t] \in {"open", "reinit"} => Shut
  /\ pc[t] = "isatty" => IsTty \/ Shut
  /\ pc[t] \in {"setattr", "initTty", "initAttr"} => IsTty
  /\ pc[t] \in {"initDelete", "initOpen", "initTty"} => found[t] = node

Undisturbed ==
  /\ ended = "no" /\ node # 0
  /\ \A n \in files : fd[n] = "file"
  /\ \E n \in Fds : fd[n] = "free"
  /\ \A s, t \in Threads : s # t => ~InHeartbeat(s) \/ ~InHeartbeat(t)
  /\ \A t \in Threads : InHeartbeat(t) => Progress(t)
  /\ ~Busy => IsTty /\ savedPortName = node

CalmInv == calm => Undisturbed

LEMMA SettledIsUndisturbed == ASSUME Settled PROVE Undisturbed
BY DEF Settled, Undisturbed, Busy

\* While thread t is in a heartbeat nothing is asked of savedPortName and
\* portFileNo but Progress(t).
LEMMA OneHeartbeat ==
  ASSUME NEW t \in Threads,
         ended' = "no", node' # 0,
         \A n \in files' : fd'[n] = "file",
         \E n \in Fds : fd'[n] = "free",
         \A s \in Threads : s # t => ~InHeartbeat(s)',
         InHeartbeat(t)' => Progress(t)',
         ~InHeartbeat(t)' => IsTty' /\ savedPortName' = node'
  PROVE  Undisturbed'
BY DEF Undisturbed, Busy

\* What is known when thread t takes a step inside an undisturbed heartbeat.
LEMMA Inside ==
  ASSUME SerialInv, Undisturbed, NEW t \in Threads, pc[t] # "io"
  PROVE  /\ Progress(t) /\ Busy
         /\ \A s \in Threads : s # t => pc[s] = "io"
BY DEF Undisturbed, InHeartbeat, Busy

LEMMA GotoMoves ==
  ASSUME SerialInv, NEW t \in Threads, NEW label \in PCs, Goto(t, label)
  PROVE  /\ pc'[t] = label
         /\ \A s \in Threads : s # t => pc'[s] = pc[s]
BY DEF SerialInv, TypeOK, Goto

LEMMA CalmStart ==
  ASSUME SerialInv, Undisturbed, Calm, NEW t \in Threads, Heartbeat(t)
  PROVE  Undisturbed'
<1>1. /\ Goto(t, "open") /\ retries'[t] = 2 /\ last'[t] = FALSE
      /\ pc[t] = "io" /\ ClosePort
      /\ UNCHANGED <<files, node, portFileNo, savedPortName, ended>>
  BY DEF Heartbeat, At, Again, SerialInv, TypeOK, env, port
<1>2. pc'[t] = "open" /\ \A s \in Threads : s # t => pc'[s] = pc[s]
  BY <1>1, GotoMoves DEF PCs
<1>3. \A s \in Threads : s # t => pc[s] = "io"
  BY <1>2 DEF Calm, InHeartbeat, Threads
<1>4. IsTty /\ savedPortName = node
  BY <1>1, <1>3 DEF Undisturbed, Busy, InHeartbeat
<1>5. Shut' /\ \A n \in files' : fd'[n] = "file"
  BY <1>1, <1>4 DEF ClosePort, IsTty, Shut, Undisturbed, SerialInv, TypeOK, Fds
<1>6. Progress(t)'
  BY <1>1, <1>2, <1>4, <1>5 DEF Progress, PCs
<1> QED BY <1>1, <1>2, <1>3, <1>5, <1>6, OneHeartbeat
        DEF Undisturbed, Calm, InHeartbeat

LEMMA CalmReopen ==
  ASSUME SerialInv, Undisturbed, Calm, NEW t \in Threads,
         Open(t) \/ Isatty(t) \/ Setattr(t)
  PROVE  Undisturbed'
<1>0. /\ Progress(t) /\ pc[t] # "io"
      /\ \A s \in Threads : s # t => pc[s] = "io"
  BY Inside DEF Open, Isatty, Setattr, At
<1>1. CASE Open(t)
  <2>1. pc[t] = "open" /\ savedPortName = node /\ Shut
    BY <1>0, <1>1 DEF Progress, Open, At
  <2>2. PICK n \in Fds : Lowest(n) /\ OpenFd(n)
    BY <1>1, <2>1 DEF Open, Undisturbed
  <2>3. /\ Goto(t, "isatty")
        /\ UNCHANGED <<files, node, portFileNo, savedPortName, retries, last, ended>>
    BY <1>1, <2>1 DEF Open, Undisturbed, env, port, locals
  <2>4. pc'[t] = "isatty" /\ \A s \in Threads : s # t => pc'[s] = pc[s]
    BY <2>3, GotoMoves DEF PCs
  <2>5. (IsTty \/ Shut)' /\ \A k \in files' : fd'[k] = "file"
    BY <2>1, <2>2, <2>3 DEF OpenFd, Lowest, IsTty, Shut, Undisturbed,
                            SerialInv, TypeOK, Fds
  <2>6. Progress(t)'
    BY <1>0, <2>1, <2>3, <2>4, <2>5 DEF Progress, PCs
  <2> QED BY <1>0, <2>3, <2>4, <2>5, <2>6, OneHeartbeat
          DEF Undisturbed, Calm, InHeartbeat
<1>2. CASE Isatty(t)
  <2>1. /\ Goto(t, IF IsTty THEN "setattr" ELSE "reinit") /\ pc[t] = "isatty"
        /\ UNCHANGED <<fd, files, node, portFileNo, savedPortName, retries, last, ended>>
    BY <1>2 DEF Isatty, At, env, port, locals
  <2>2. /\ pc'[t] = IF IsTty THEN "setattr" ELSE "reinit"
        /\ \A s \in Threads : s # t => pc'[s] = pc[s]
    BY <2>1, GotoMoves DEF PCs
  <2>3. (IsTty' <=> IsTty) /\ (Shut' <=> Shut)
    BY <2>1 DEF IsTty, Shut
  <2>4. Progress(t)'
    BY <1>0, <2>1, <2>2, <2>3 DEF Progress, PCs
  <2> QED BY <1>0, <2>1, <2>2, <2>4, OneHeartbeat
          DEF Undisturbed, Calm, InHeartbeat
<1>3. CASE Setattr(t)
  <2>1. /\ IsTty /\ savedPortName = node /\ retries[t] = 2
        /\ UNCHANGED <<fd, files, node, portFileNo, savedPortName, ended>>
    BY <1>0, <1>3 DEF Progress, Setattr, At, env, port
  <2>2. Goto(t, "io")
    BY <1>3, <2>1 DEF Setattr, Decide
  <2>3. pc'[t] = "io" /\ \A s \in Threads : s # t => pc'[s] = pc[s]
    BY <2>2, GotoMoves DEF PCs
  <2>4. IsTty' /\ savedPortName' = node'
    BY <2>1 DEF IsTty
  <2> QED BY <1>0, <2>1, <2>3, <2>4, OneHeartbeat
          DEF Undisturbed, Calm, InHeartbeat
<1> QED BY <1>1, <1>2, <1>3

LEMMA CalmSearch ==
  ASSUME SerialInv, Undisturbed, Calm, NEW t \in Threads, Reinit(t) \/ Find(t)
  PROVE  Undisturbed'
<1>0. /\ Progress(t) /\ pc[t] # "io"
      /\ \A s \in Threads : s # t => pc[s] = "io"
  BY Inside DEF Reinit, Find, At
<1>1. CASE Reinit(t)
  <2>1. /\ Goto(t, "find") /\ ClosePort /\ Shut /\ savedPortName = node
        /\ UNCHANGED <<files, node, portFileNo, savedPortName, retries, last, ended>>
    BY <1>0, <1>1 DEF Progress, Reinit, At, env, port, locals
  <2>2. pc'[t] = "find" /\ \A s \in Threads : s # t => pc'[s] = pc[s]
    BY <2>1, GotoMoves DEF PCs
  <2>3. \A n \in files' : fd'[n] = "file"
    BY <2>1 DEF ClosePort, Shut, Undisturbed, SerialInv, TypeOK, Fds
  <2>4. Progress(t)'
    BY <1>0, <2>1, <2>2 DEF Progress, PCs
  <2> QED BY <1>0, <2>1, <2>2, <2>3, <2>4, OneHeartbeat
          DEF Undisturbed, Calm, InHeartbeat
<1>2. CASE Find(t)
  <2>1. /\ Goto(t, "initDelete") /\ found'[t] = node /\ savedPortName = node
        /\ UNCHANGED <<fd, files, node, portFileNo, savedPortName, retries, last, ended>>
    BY <1>0, <1>2 DEF Progress, Find, At, env, port, Undisturbed, SerialInv, TypeOK
  <2>2. pc'[t] = "initDelete" /\ \A s \in Threads : s # t => pc'[s] = pc[s]
    BY <2>1, GotoMoves DEF PCs
  <2>3. Progress(t)'
    BY <1>0, <2>1, <2>2 DEF Progress, PCs
  <2> QED BY <1>0, <2>1, <2>2, <2>3, OneHeartbeat
          DEF Undisturbed, Calm, InHeartbeat
<1> QED BY <1>1, <1>2

LEMMA CalmInit ==
  ASSUME SerialInv, Undisturbed, Calm, NEW t \in Threads,
         InitDelete(t) \/ InitOpen(t) \/ InitTty(t) \/ InitAttr(t)
  PROVE  Undisturbed'
<1>0. /\ Progress(t) /\ pc[t] # "io"
      /\ \A s \in Threads : s # t => pc[s] = "io"
  BY Inside DEF InitDelete, InitOpen, InitTty, InitAttr, At
<1>1. CASE InitDelete(t)
  <2>1. /\ Goto(t, "initOpen") /\ found[t] = node
        /\ UNCHANGED <<fd, files, node, portFileNo, found, retries, last, ended>>
    BY <1>0, <1>1 DEF Progress, InitDelete, At, env, locals, Undisturbed
  <2>2. pc'[t] = "initOpen" /\ \A s \in Threads : s # t => pc'[s] = pc[s]
    BY <2>1, GotoMoves DEF PCs
  <2>3. Progress(t)'
    BY <1>0, <2>1, <2>2 DEF Progress, PCs
  <2> QED BY <1>0, <2>1, <2>2, <2>3, OneHeartbeat
          DEF Undisturbed, Calm, InHeartbeat
<1>2. CASE InitOpen(t)
  <2>1. node = found[t]
    BY <1>0, <1>2 DEF Progress, InitOpen, At
  <2>2. PICK n \in Fds : Lowest(n) /\ OpenFd(n) /\ portFileNo' = n
    BY <1>2, <2>1 DEF InitOpen, Undisturbed
  <2>3. /\ Goto(t, "initTty")
        /\ UNCHANGED <<files, node, found, retries, last, ended>>
    BY <1>2, <2>1 DEF InitOpen, Undisturbed, env, locals
  <2>4. pc'[t] = "initTty" /\ \A s \in Threads : s # t => pc'[s] = pc[s]
    BY <2>3, GotoMoves DEF PCs
  <2>5. IsTty' /\ \A k \in files' : fd'[k] = "file"
    BY <2>2, <2>3 DEF OpenFd, Lowest, IsTty, Undisturbed, SerialInv, TypeOK, Fds
  <2>6. Progress(t)'
    BY <1>0, <2>1, <2>3, <2>4, <2>5 DEF Progress, PCs
  <2> QED BY <1>0, <2>3, <2>4, <2>5, <2>6, OneHeartbeat
          DEF Undisturbed, Calm, InHeartbeat
<1>3. CASE InitTty(t)
  <2>1. IsTty /\ found[t] = node
    BY <1>0, <1>3 DEF Progress, InitTty, At
  <2>2. /\ Goto(t, "initAttr") /\ savedPortName' = node
        /\ UNCHANGED <<fd, files, node, portFileNo, found, retries, last, ended>>
    BY <1>3, <2>1 DEF InitTty, env, locals
  <2>3. pc'[t] = "initAttr" /\ \A s \in Threads : s # t => pc'[s] = pc[s]
    BY <2>2, GotoMoves DEF PCs
  <2>4. IsTty'
    BY <2>1, <2>2 DEF IsTty
  <2>5. Progress(t)'
    BY <1>0, <2>2, <2>3, <2>4 DEF Progress, PCs
  <2> QED BY <1>0, <2>2, <2>3, <2>5, OneHeartbeat
          DEF Undisturbed, Calm, InHeartbeat
<1>4. CASE InitAttr(t)
  <2>1. /\ IsTty /\ savedPortName = node /\ retries[t] = 2 /\ ~last[t]
        /\ UNCHANGED <<fd, portFileNo, savedPortName>>
    BY <1>0, <1>4 DEF Progress, InitAttr, At, port
  <2>2. Decide(t, 2) /\ UNCHANGED <<files, node, ended>>
    BY <1>4, <2>1 DEF InitAttr, Return, env
  <2>3. pc'[t] = "io" /\ \A s \in Threads : s # t => pc'[s] = pc[s]
    BY <2>2, GotoMoves DEF Decide, PCs
  <2>4. IsTty' /\ savedPortName' = node'
    BY <2>1, <2>2 DEF IsTty
  <2> QED BY <1>0, <2>1, <2>2, <2>3, <2>4, OneHeartbeat
          DEF Undisturbed, Calm, InHeartbeat
<1> QED BY <1>1, <1>2, <1>3, <1>4

\* Without a failed attempt nobody sleeps.
LEMMA CalmSleep ==
  ASSUME SerialInv, Undisturbed, NEW t \in Threads, Sleep(t)
  PROVE  FALSE
BY Inside DEF Sleep, At, Progress

LEMMA ExternalFrame ==
  ASSUME Undisturbed, UNCHANGED <<pc, retries, last, found, portFileNo>>,
         UNCHANGED <<savedPortName, node, ended>>,
         \A n \in files' : fd'[n] = "file",
         \E n \in Fds : fd'[n] = "free",
         fd' = fd \/ ~Busy, IsTty => IsTty'
  PROVE  Undisturbed'
<1>1. CASE fd' = fd
  BY <1>1 DEF Undisturbed, Progress, Busy, InHeartbeat, IsTty, Shut
<1>2. CASE ~Busy
  BY <1>2 DEF Undisturbed, Busy, InHeartbeat
<1> QED BY <1>1, <1>2

LEMMA CalmExternal ==
  ASSUME SerialInv, Undisturbed, Calm,
         Tick \/ Unplug \/ Plug \/ FileOpen \/ FileClose
  PROVE  Undisturbed'
<1>1. CASE Tick
  BY <1>1, ExternalFrame DEF Tick, env, locals, Undisturbed, IsTty
<1>2. CASE Unplug \/ Plug
  BY <1>2 DEF Unplug, Plug, Undisturbed, Calm
<1>3. CASE FileOpen
  <2>1. PICK n \in Fds : /\ fd[n] = "free" /\ fd' = [fd EXCEPT ![n] = "file"]
                         /\ files' = files \cup {n}
    BY <1>3 DEF FileOpen, Lowest
  <2>2. ~Busy
    BY <2>1 DEF Calm, Undisturbed
  <2>3. (\A k \in files' : fd'[k] = "file") /\ (IsTty => IsTty')
    BY <1>3, <2>1 DEF FileOpen, port, Undisturbed, SerialInv, TypeOK, IsTty, Fds
  <2> QED BY <1>3, <2>2, <2>3, ExternalFrame DEF FileOpen, port, locals, Calm
<1>4. CASE FileClose
  <2>1. PICK n \in files : /\ fd' = [fd EXCEPT ![n] = "free"]
                           /\ files' = files \ {n}
    BY <1>4 DEF FileClose
  <2>2. ~Busy
    BY <2>1 DEF Calm
  <2>3. (\A k \in files' : fd'[k] = "file") /\ (IsTty => IsTty')
    BY <1>4, <2>1 DEF FileClose, port, Undisturbed, SerialInv, TypeOK, IsTty, Fds
  <2> QED BY <1>4, <2>2, <2>3, ExternalFrame DEF FileClose, port, locals, Calm
<1> QED BY <1>1, <1>2, <1>3, <1>4

LEMMA CalmStep == ASSUME SerialInv, CalmInv, [Next]_vars PROVE CalmInv'
<1>1. CASE Next
  <2> SUFFICES ASSUME calm' PROVE Undisturbed'
    BY DEF CalmInv
  <2>1. Settled' \/ (calm /\ Calm)
    BY <1>1, Zenon DEF Next, Remember
  <2>2. CASE Settled'
    BY <2>2, SettledIsUndisturbed, PTL
  <2>3. CASE calm /\ Calm
    <3>1. Undisturbed
      BY <2>3 DEF CalmInv
    <3>2. ASSUME NEW t \in Threads, Thread(t) PROVE Undisturbed'
      BY <2>3, <3>1, <3>2, CalmStart, CalmReopen, CalmSearch, CalmInit, CalmSleep
         DEF Thread
    <3> QED BY <1>1, <2>3, <3>1, <3>2, CalmExternal DEF Next
  <2> QED BY <2>1, <2>2, <2>3
<1>2. CASE UNCHANGED vars
  BY <1>2 DEF vars, env, port, locals, CalmInv, Undisturbed, Progress, Busy,
              InHeartbeat, IsTty, Shut
<1> QED BY <1>1, <1>2

\* A heartbeat that starts from a settled port and is not disturbed leaves the
\* port open on the radio, for any number of descriptors: heartbeat() never
\* assigns what open() returned, and does not have to.
THEOREM HeartbeatHarmless == Spec => []BetweenHeartbeats
<1>1. Init => CalmInv
  <2> SUFFICES ASSUME Init PROVE Undisturbed
    BY DEF CalmInv
  <2>1. fd[1] = "radio" /\ 1 \in Fds /\ 2 \in Fds /\ fd[2] = "free"
    BY FdAssumption DEF Init, Fds
  <2>2. \A t \in Threads : pc[t] = "io"
    BY DEF Init
  <2>3. ended = "no" /\ node # 0 /\ files = {} /\ savedPortName = node /\ IsTty
    BY <2>1, NameAssumption DEF Init, IsTty
  <2> QED BY <2>1, <2>2, <2>3 DEF Undisturbed, Busy, InHeartbeat
<1>2. SerialInv /\ CalmInv /\ [Next]_vars => CalmInv'
  BY CalmStep
<1>3. CalmInv => BetweenHeartbeats
  BY DEF CalmInv, Undisturbed, BetweenHeartbeats
<1> QED BY <1>1, <1>2, <1>3, SerialTypingInductive, PTL DEF Spec

=============================================================================
