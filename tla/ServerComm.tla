----------------------------- MODULE ServerComm -----------------------------
(***************************************************************************)
(* ServerComm: the connection to the server that carries log messages and  *)
(* heartbeats.                                                             *)
(*                                                                         *)
(*   CommThread       connects, does the CONNECT handshake, starts the     *)
(*                    heartbeat thread, sends the queued contents, and     *)
(*                    starts over when isDisconnected is set;              *)
(*   HeartbeatThread  sends HEARTBEAT on whatever socket is current and    *)
(*                    sets isDisconnected when the send fails;             *)
(*   loggers          any thread in Logger_Print: queues a content if the  *)
(*                    connection looks usable.                             *)
(*                                                                         *)
(* The flags m_isUsable, isDisconnected and heartbeatThreadComm are plain  *)
(* variables.  socketMutex is only ever taken by heartbeat threads.        *)
(***************************************************************************)
EXTENDS Integers, Sequences

CONSTANTS
  MaxFds,       \* sockets the process may have open
  MaxContents,  \* bound: contents that are queued
  MaxCloses,    \* bound: connections that the server closes
  MaxRefusals   \* bound: connection attempts that fail

ASSUME BoundAssumption ==
  /\ MaxFds \in Nat /\ MaxContents \in Nat
  /\ MaxCloses \in Nat /\ MaxRefusals \in Nat

VARIABLES
  m_isUsable, isDisconnected,
  heartbeatThreadComm,  \* 0, QUIT or DONE
  heartbeatThread,      \* the pointer is not NULL
  socketMutex,          \* TRUE while it is locked
  late,                 \* lastHeartbeat is more than HEARTBEAT_SECONDS ago
  socket,               \* the connection socketFd names
  fds,                  \* how many sockets are open
  answer,               \* what the handshake read
  toSend,               \* the queue; contents are numbered as they are queued
  taken,               \* <<the content CommThread took off the queue>>
  queued,               \* history: how many contents were queued
  handled,              \* history: the contents CommThread handed to send(), in order
  closes, refusals,     \* how often the bounded events happened
  comm, heart, log      \* where CommThread, HeartbeatThread, a logger are

flags == <<m_isUsable, isDisconnected>>
heartVars == <<heartbeatThreadComm, heartbeatThread, socketMutex, late>>
socketVars == <<socket, fds, answer>>
contentVars == <<toSend, taken, queued, handled>>
envVars == <<closes, refusals>>
lvars == <<m_isUsable, isDisconnected, heartbeatThreadComm, heartbeatThread,
           socketMutex, late, socket, fds, answer, toSend, taken, queued,
           handled, closes, refusals, comm, heart, log>>

QUIT == 255
DONE == 256

\* "closed": the server closed it, and the next send is still accepted;
\* "reset": the peer answered with a reset, and the next send fails with ECONNRESET;
\* "broken": sends fail with EPIPE.
SocketStates == {"none", "new", "connected", "acked", "closed", "reset", "broken"}
CommPCs == {"cleanup", "join", "joined", "socket", "connect", "handshake",
            "asleep", "judge", "spawn", "loop", "drain", "send", "wait",
            "returned", "crashed"}
HeartPCs == {"none", "top", "sleep", "lock", "locked", "send", "exit", "stuck"}

ServerTypeOK ==
  /\ m_isUsable \in BOOLEAN /\ isDisconnected \in BOOLEAN
  /\ heartbeatThreadComm \in {0, QUIT, DONE} /\ heartbeatThread \in BOOLEAN
  /\ socketMutex \in BOOLEAN /\ late \in BOOLEAN
  /\ socket \in SocketStates /\ fds \in 0..MaxFds
  /\ answer \in {"none", "success", "refused"}
  /\ toSend \in Seq(Nat) /\ taken \in Seq(Nat) /\ queued \in Nat
  /\ handled \in Seq(Nat)
  /\ closes \in Nat /\ refusals \in Nat
  /\ comm \in CommPCs /\ heart \in HeartPCs /\ log \in {"idle", "usable"}

ServerInit ==
  /\ m_isUsable = FALSE
  /\ isDisconnected \in BOOLEAN      \* the constructor leaves it unset
  /\ heartbeatThreadComm = 0
  /\ heartbeatThread = FALSE
  /\ socketMutex = FALSE
  /\ late = FALSE
  /\ socket = "none" /\ fds = 0 /\ answer = "none"
  /\ toSend = <<>> /\ taken = <<>>
  /\ queued = 0 /\ handled = <<>>
  /\ closes = 0 /\ refusals = 0
  /\ comm = "cleanup" /\ heart = "none" /\ log = "idle"

-----------------------------------------------------------------------------
(* CommThread: cleanup.                                                    *)

Cleanup ==
  /\ comm = "cleanup"
  /\ m_isUsable' = FALSE
  /\ isDisconnected' = FALSE
  /\ IF heartbeatThread
     THEN heartbeatThreadComm' = QUIT /\ comm' = "join"
     ELSE comm' = "joined" /\ UNCHANGED heartbeatThreadComm
  /\ UNCHANGED <<heartbeatThread, socketMutex, late, socketVars, contentVars,
                 envVars, heart, log>>

\* Mutant of Join: the thread is forgotten without waiting for DONE.
JoinNobody ==
  /\ comm = "join"
  /\ heartbeatThread' = FALSE
  /\ comm' = "joined"
  /\ UNCHANGED <<flags, heartbeatThreadComm, socketMutex, late, socketVars,
                 contentVars, envVars, heart, log>>

\* The spin on heartbeatThreadComm.
Join ==
  /\ comm = "join"
  /\ heartbeatThreadComm = DONE
  /\ heartbeatThread' = FALSE
  /\ comm' = "joined"
  /\ UNCHANGED <<flags, heartbeatThreadComm, socketMutex, late, socketVars,
                 contentVars, envVars, heart, log>>

Joined ==
  /\ comm = "joined"
  /\ heartbeatThreadComm' = 0
  /\ comm' = "socket"
  /\ UNCHANGED <<flags, heartbeatThread, socketMutex, late, socketVars,
                 contentVars, envVars, heart, log>>

-----------------------------------------------------------------------------
(* CommThread: connecting.                                                 *)

\* Mutant of OpenSocket: the result of socket() is not tested.
OpenSocketUntested ==
  /\ comm = "socket"
  /\ comm' = "connect" /\ socket' = "new" /\ fds' = fds + 1
  /\ UNCHANGED <<flags, heartVars, answer, contentVars, envVars, heart, log>>

\* socketFd is overwritten; nothing closes what it named before.  When the
\* process has no descriptor left the thread returns for good.
OpenSocket ==
  /\ comm = "socket"
  /\ IF fds = MaxFds
     THEN comm' = "returned" /\ UNCHANGED <<socket, fds>>
     ELSE comm' = "connect" /\ socket' = "new" /\ fds' = fds + 1
  /\ UNCHANGED <<flags, heartVars, answer, contentVars, envVars, heart, log>>

\* getaddrinfo or connect fails: sleep(RETRY_WAIT) and again, without close.
ConnectFails ==
  /\ comm = "connect"
  /\ refusals < MaxRefusals
  /\ refusals' = refusals + 1
  /\ comm' = "cleanup"
  /\ UNCHANGED <<flags, heartVars, socketVars, contentVars, closes, heart, log>>

\* Connected, nonblocking, CONNECT sent.
Connect ==
  /\ comm = "connect"
  /\ socket' = "connected"
  /\ comm' = "handshake"
  /\ UNCHANGED <<flags, heartVars, fds, answer, contentVars, envVars, heart, log>>

\* External: the server acknowledges, or answers something else ...
HandshakeAnswered ==
  /\ comm = "handshake"
  /\ \/ answer' = "success" /\ socket' = "acked" /\ UNCHANGED refusals
     \/ /\ refusals < MaxRefusals
        /\ refusals' = refusals + 1
        /\ answer' = "refused"
        /\ UNCHANGED socket
  /\ comm' = "judge"
  /\ UNCHANGED <<flags, heartVars, fds, contentVars, closes, heart, log>>

\* ... or recv fails: loadFromComm sets isDisconnected.
HandshakeBroken ==
  /\ comm = "handshake"
  /\ closes < MaxCloses
  /\ closes' = closes + 1
  /\ isDisconnected' = TRUE
  /\ comm' = "judge"
  /\ UNCHANGED <<m_isUsable, heartVars, socketVars, contentVars, refusals, heart,
                 log>>

\* ... or a signal that is "ignored" (SIGQUIT) meets the sleep between two polls:
\* nsleep starts the rest of it again and again, and does not return.
HandshakeInterrupted ==
  /\ comm = "handshake"
  /\ comm' = "asleep"
  /\ UNCHANGED <<flags, heartVars, socketVars, contentVars, envVars, heart, log>>

CloseSocket == socket' = "none" /\ fds' = fds - 1 /\ answer' = "none"

\* The handshake counts if isDisconnected is not set and ack is "success";
\* otherwise close, sleep 30 s, and again.
JudgeAnswer ==
  /\ comm = "judge"
  /\ IF ~isDisconnected /\ answer = "success"
     THEN /\ comm' = "spawn"
          /\ late' = FALSE
          /\ answer' = "none"
          /\ UNCHANGED <<socket, fds>>
     ELSE comm' = "cleanup" /\ CloseSocket /\ UNCHANGED late
  /\ UNCHANGED <<flags, heartbeatThreadComm, heartbeatThread, socketMutex,
                 contentVars, envVars, heart, log>>

\* A refusal without an "ack" or a "version" line: getLineData has put a NULL
\* under the missing key, and getContentAsString takes its length.
JudgeAnswerCrash ==
  /\ comm = "judge"
  /\ ~isDisconnected /\ answer = "refused"
  /\ comm' = "crashed"
  /\ UNCHANGED <<flags, heartVars, socketVars, contentVars, envVars, heart, log>>

Spawn ==
  /\ comm = "spawn"
  /\ heartbeatThread' = TRUE
  /\ heart' = "top"
  /\ comm' = "loop"
  /\ UNCHANGED <<flags, heartbeatThreadComm, socketMutex, late, socketVars,
                 contentVars, envVars, log>>

-----------------------------------------------------------------------------
(* CommThread: the send loop.                                              *)

\* A socket found disconnected is not closed before it is replaced.
Loop ==
  /\ comm = "loop"
  /\ IF isDisconnected
     THEN comm' = "cleanup" /\ UNCHANGED m_isUsable
     ELSE comm' = "drain" /\ m_isUsable' = TRUE
  /\ UNCHANGED <<isDisconnected, heartVars, socketVars, contentVars, envVars,
                 heart, log>>

Drain ==
  /\ comm = "drain"
  /\ IF toSend = <<>>
     THEN comm' = "wait" /\ UNCHANGED <<toSend, taken>>
     ELSE /\ taken' = <<Head(toSend)>>
          /\ toSend' = Tail(toSend)
          /\ comm' = "send"
  /\ UNCHANGED <<flags, heartVars, socketVars, queued, handled, envVars,
                 heart, log>>

\* External: the send that provokes the reset is accepted, later ones are not; the
\* first of them may fail with ECONNRESET.
AfterSend ==
  CASE socket = "closed" -> {"reset", "broken"}
    [] socket = "reset" -> {"broken"}
    [] OTHER -> {socket}

\* The result of send() is not looked at, and the content is deleted: what a closed
\* connection, or the full buffer of an open one (O_NONBLOCK), does not take is lost.
Send ==
  /\ comm = "send"
  /\ handled' = handled \o taken
  /\ taken' = <<>>
  /\ socket' \in AfterSend
  /\ comm' = "drain"
  /\ UNCHANGED <<flags, heartVars, fds, answer, toSend, queued, envVars, heart,
                 log>>

\* pthread_cond_timedwait: signalled, or a second has passed.
Wait ==
  /\ comm = "wait"
  /\ comm' = "loop"
  /\ UNCHANGED <<flags, heartVars, socketVars, contentVars, envVars, heart, log>>

-----------------------------------------------------------------------------
(* HeartbeatThread.                                                        *)

HeartTop ==
  /\ heart = "top"
  /\ heart' = IF heartbeatThreadComm = QUIT THEN "exit" ELSE "sleep"
  /\ UNCHANGED <<flags, heartVars, socketVars, contentVars, envVars, comm, log>>

\* A negative number of seconds is a sleep of 136 years.
HeartSleep ==
  /\ heart = "sleep"
  /\ heart' = IF late THEN "stuck" ELSE "lock"
  /\ UNCHANGED <<flags, heartVars, socketVars, contentVars, envVars, comm, log>>

HeartLock ==
  /\ heart = "lock"
  /\ ~socketMutex
  /\ socketMutex' = TRUE
  /\ heart' = "locked"
  /\ UNCHANGED <<flags, heartbeatThreadComm, heartbeatThread, late, socketVars,
                 contentVars, envVars, comm, log>>

\* Ten seconds of sleep, and to the top with socketMutex locked.
HeartLocked ==
  /\ heart = "locked"
  /\ IF isDisconnected
     THEN heart' = "top" /\ late' = TRUE
     ELSE heart' = "send" /\ UNCHANGED late
  /\ UNCHANGED <<flags, heartbeatThreadComm, heartbeatThread, socketMutex,
                 socketVars, contentVars, envVars, comm, log>>

\* Mutant of HeartSend: a failed heartbeat is not reported.
HeartSendSilent ==
  /\ heart = "send"
  /\ socket' \in AfterSend
  /\ socketMutex' = FALSE
  /\ late' = FALSE
  /\ heart' = "top"
  /\ UNCHANGED <<flags, heartbeatThreadComm, heartbeatThread, fds, answer,
                 contentVars, envVars, comm, log>>

\* Only EPIPE sets isDisconnected: another failure (ECONNRESET, or EAGAIN on an open
\* connection) passes for a heartbeat.
HeartSend ==
  /\ heart = "send"
  /\ isDisconnected' = (isDisconnected \/ socket = "broken")
  /\ socket' \in AfterSend
  /\ socketMutex' = FALSE
  /\ late' = FALSE
  /\ heart' = "top"
  /\ UNCHANGED <<m_isUsable, heartbeatThreadComm, heartbeatThread, fds, answer,
                 contentVars, envVars, comm, log>>

\* Mutant of HeartExit: the thread ends without a word.
HeartExitSilent ==
  /\ heart = "exit"
  /\ heart' = "none"
  /\ UNCHANGED <<flags, heartVars, socketVars, contentVars, envVars, comm, log>>

HeartExit ==
  /\ heart = "exit"
  /\ heartbeatThreadComm' = DONE
  /\ heart' = "none"
  /\ UNCHANGED <<flags, heartbeatThread, socketMutex, late, socketVars,
                 contentVars, envVars, comm, log>>

-----------------------------------------------------------------------------
(* The server, and the threads that log.                                   *)

\* External: the server goes away.
ServerCloses ==
  /\ socket = "acked"
  /\ closes < MaxCloses
  /\ closes' = closes + 1
  /\ socket' = "closed"
  /\ UNCHANGED <<flags, heartVars, fds, answer, contentVars, refusals, comm,
                 heart, log>>

\* Logger_Print asks isUsable() ...
LogAsk ==
  /\ log = "idle"
  /\ queued < MaxContents
  /\ m_isUsable
  /\ log' = "usable"
  /\ UNCHANGED <<flags, heartVars, socketVars, contentVars, envVars, comm, heart>>

\* Mutant of SendContent: the wrong end of the deque.
SendContentFront ==
  /\ log = "usable"
  /\ queued' = queued + 1
  /\ toSend' = <<queued'>> \o toSend
  /\ log' = "idle"
  /\ UNCHANGED <<flags, heartVars, socketVars, taken, handled, envVars,
                 comm, heart>>

\* ... and queues the content, whatever became of the connection meanwhile.
SendContent ==
  /\ log = "usable"
  /\ queued' = queued + 1
  /\ toSend' = Append(toSend, queued')
  /\ log' = "idle"
  /\ UNCHANGED <<flags, heartVars, socketVars, taken, handled, envVars,
                 comm, heart>>

-----------------------------------------------------------------------------
Reconnect == Cleanup \/ Join \/ Joined \/ OpenSocket \/ ConnectFails \/ Connect
Handshake == HandshakeAnswered \/ HandshakeBroken \/ HandshakeInterrupted
CommThread == Reconnect \/ JudgeAnswer \/ Spawn \/ Loop \/ Drain \/ Send \/ Wait
HeartbeatThread == \/ HeartTop \/ HeartSleep \/ HeartLock \/ HeartLocked
                   \/ HeartSend \/ HeartExit

\* A crash of one thread takes the process with it.
ServerNext ==
  /\ comm # "crashed"
  /\ \/ CommThread \/ Handshake \/ JudgeAnswerCrash \/ HeartbeatThread
     \/ ServerCloses \/ LogAsk \/ SendContent

ServerSpec == ServerInit /\ [][ServerNext]_lvars

-----------------------------------------------------------------------------
(* Properties.                                                             *)

\* A heartbeat is only ever sent to a connection whose handshake the
\* server acknowledged: CommThread replaces socketFd only after the heartbeat
\* thread of the connection before is gone (ServerComm::cleanup).
HeartbeatOnAckedSocket ==
  heart = "send" => socket \in {"acked", "closed", "reset", "broken"}

\* Contents are handed to send() in the order in which they were queued, each once,
\* over any number of connections.
ContentsInOrder == handled \o taken \o toSend = [i \in 1..queued |-> i]

\* What ServerComm promises the threads that log: contents reach send() one at a
\* time, none before one that was queued earlier, each at most once, over any number
\* of connections (deque::push_back in sendContent, front and pop_front in
\* commThread).
Contents == INSTANCE FrameChannel WITH accepted <- queued, wire <- handled

ContentsChanneled == Contents!Spec

\* A heartbeat thread that finds isDisconnected set when it wakes up: the
\* CommThread has then not looked at it in the ten seconds before.
Overslept == heart = "locked" /\ isDisconnected

\* CommThread returned, crashed, or will not wake up again.
CommEnded == comm \in {"returned", "crashed", "asleep"}

\* When heartbeats never oversleep, a connection the server closed is replaced
\* by one that it acknowledged, unless CommThread ends (ServerComm.cpp 211-215)
\* or a signal interrupted its sleep (nsleep).
Replaced == [](~Overslept) => (socket = "closed" ~> (socket = "acked" \/ CommEnded))

\* Nor does a content stay queued, whenever it was queued.
QueuedLeaves ==
  [](~Overslept) => (toSend # <<>> ~> (toSend = <<>> \/ CommEnded))

\* What ServerComm.cpp:336 says of the flag.  CommThread clears it before it
\* waits for the heartbeat thread, which sets it again for the same old
\* socket: the next connection then starts with the flag set.
FlagIsAboutThisSocket == comm = "judge" /\ isDisconnected => socket # "acked"

=============================================================================
