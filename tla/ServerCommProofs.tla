-------------------------- MODULE ServerCommProofs --------------------------
(***************************************************************************)
(* Theorems about ServerComm, for any number of descriptors, contents,     *)
(* closed connections and refusals:                                        *)
(*   ServerTyping      ServerSpec => []ServerTypeOK                        *)
(*   HeartbeatIsSafe   ServerSpec => []HeartbeatOnAckedSocket              *)
(*   NothingOvertakes  ServerSpec => []ContentsInOrder                     *)
(*   ContentsAreChanneled                                                  *)
(*                     ServerSpec => ContentsChanneled, the refinement of  *)
(*                     FrameChannel                                        *)
(***************************************************************************)
EXTENDS ServerComm, SequenceTheorems, TLAPS

USE BoundAssumption

-----------------------------------------------------------------------------
(* Typing.  A content is in CommThread's hand only while it is sent, and a *)
(* descriptor is closed only while one is open.                            *)

Hand ==
  /\ comm = "send" => taken # <<>>
  /\ comm # "send" => taken = <<>>
  /\ Len(taken) <= 1
  /\ comm \in {"connect", "handshake", "judge"} => fds > 0

ServerInv == ServerTypeOK /\ Hand

LEMMA CommThreadType == ASSUME ServerInv, Reconnect PROVE ServerInv'
<1> USE DEF ServerInv, ServerTypeOK, Hand, flags, heartVars, socketVars, contentVars,
            envVars, QUIT, DONE, SocketStates, CommPCs, HeartPCs
<1>1. CASE Cleanup
  <2>1. m_isUsable' \in BOOLEAN /\ isDisconnected' \in BOOLEAN
    BY <1>1, Zenon DEF Cleanup
  <2> QED BY <1>1, <2>1 DEF Cleanup
<1>2. CASE Join
  <2>1. heartbeatThread' \in BOOLEAN
    BY <1>2, Zenon DEF Join
  <2> QED BY <1>2, <2>1 DEF Join
<1>3. CASE Joined
  BY <1>3 DEF Joined
<1>4. CASE OpenSocket
  BY <1>4 DEF OpenSocket
<1>5. CASE ConnectFails
  BY <1>5 DEF ConnectFails
<1>6. CASE Connect
  BY <1>6 DEF Connect
<1> QED BY <1>1, <1>2, <1>3, <1>4, <1>5, <1>6 DEF Reconnect

LEMMA HandshakeType ==
  ASSUME ServerInv, Handshake \/ JudgeAnswer \/ JudgeAnswerCrash \/ Spawn
  PROVE  ServerInv'
<1> USE DEF ServerInv, ServerTypeOK, Hand, flags, heartVars, socketVars, contentVars,
            envVars, QUIT, DONE, SocketStates, CommPCs, HeartPCs
<1>1. CASE HandshakeAnswered
  BY <1>1 DEF HandshakeAnswered
<1>2. CASE HandshakeBroken
  BY <1>2 DEF HandshakeBroken
<1>6. CASE HandshakeInterrupted
  BY <1>6 DEF HandshakeInterrupted
<1>3. CASE JudgeAnswer
  <2>1. late' \in BOOLEAN
    BY <1>3, Zenon DEF JudgeAnswer
  <2> QED BY <1>3, <2>1 DEF JudgeAnswer, CloseSocket
<1>4. CASE JudgeAnswerCrash
  BY <1>4 DEF JudgeAnswerCrash
<1>5. CASE Spawn
  <2>1. heartbeatThread' \in BOOLEAN
    BY <1>5, Zenon DEF Spawn
  <2> QED BY <1>5, <2>1 DEF Spawn
<1> QED BY <1>1, <1>2, <1>3, <1>4, <1>5, <1>6 DEF Handshake

LEMMA LoopType == ASSUME ServerInv, Loop \/ Wait PROVE ServerInv'
<1> USE DEF ServerInv, ServerTypeOK, Hand, flags, heartVars, socketVars, contentVars,
            envVars, QUIT, DONE, SocketStates, CommPCs, HeartPCs
<1>1. CASE Loop
  <2>1. m_isUsable' \in BOOLEAN
    BY <1>1, Zenon DEF Loop
  <2> QED BY <1>1, <2>1 DEF Loop
<1>2. CASE Wait
  BY <1>2 DEF Wait
<1> QED BY <1>1, <1>2

LEMMA OneContent ==
  ASSUME NEW c \in Nat
  PROVE  <<c>> \in Seq(Nat) /\ <<c>> # <<>> /\ Len(<<c>>) = 1
OBVIOUS

LEMMA AtMostOne == ASSUME NEW n \in Nat, n # 0, n <= 1 PROVE n = 1
OBVIOUS

LEMMA HandHolds ==
  ASSUME NEW h \in Seq(Nat), h # <<>>, Len(h) <= 1
  PROVE  Len(h) = 1 /\ h[1] \in Nat
<1>1. Len(h) \in Nat /\ Len(h) # 0
  BY EmptySeq
<1>2. Len(h) = 1
  BY <1>1, AtMostOne, Zenon
<1>3. 1 \in 1..Len(h)
  BY <1>2
<1> QED BY <1>2, <1>3, ElementOfSeq

LEMMA DrainType == ASSUME ServerInv, Drain PROVE ServerInv'
<1>1. toSend \in Seq(Nat) /\ comm = "drain" /\ taken = <<>>
  BY DEF ServerInv, ServerTypeOK, Hand, Drain
<1>2. /\ toSend' \in Seq(Nat) /\ taken' \in Seq(Nat) /\ Len(taken') <= 1
      /\ comm' \in {"wait", "send"} /\ (comm' = "send" <=> taken' # <<>>)
  <2>1. CASE toSend = <<>>
    BY <1>1, <2>1 DEF Drain
  <2>2. CASE toSend # <<>>
    <3>1. Head(toSend) \in Nat /\ Tail(toSend) \in Seq(Nat)
      BY <1>1, <2>2
    <3>2. /\ taken' = <<Head(toSend)>> /\ toSend' = Tail(toSend)
          /\ comm' = "send"
      BY <2>2 DEF Drain
    <3>3. taken' \in Seq(Nat) /\ taken' # <<>> /\ Len(taken') = 1
      BY <3>1, <3>2, OneContent, Zenon
    <3> QED BY <3>1, <3>2, <3>3
  <2> QED BY <2>1, <2>2
<1>3. Hand'
  BY <1>2 DEF Hand
<1>4. UNCHANGED <<flags, heartVars, socketVars, queued, handled, envVars,
                  heart, log>>
  BY DEF Drain
<1>5. ServerTypeOK'
  BY <1>2, <1>4 DEF ServerInv, ServerTypeOK, flags, heartVars, socketVars, envVars,
                    CommPCs
<1> QED BY <1>3, <1>5 DEF ServerInv

LEMMA AfterSendType == ServerTypeOK => AfterSend \subseteq SocketStates
BY DEF ServerTypeOK, AfterSend, SocketStates

LEMMA SendType == ASSUME ServerInv, Send PROVE ServerInv'
<1>1. taken \in Seq(Nat) /\ taken[1] \in Nat
  BY HandHolds DEF ServerInv, ServerTypeOK, Hand, Send
<1>2. handled' \in Seq(Nat)
  BY <1>1 DEF Send, ServerInv, ServerTypeOK
<1>4. socket' \in SocketStates
  BY AfterSendType DEF Send, ServerInv
<1>5. taken' = <<>> /\ comm' = "drain"
  BY DEF Send
<1>6. UNCHANGED <<flags, heartVars, fds, answer, toSend, queued, envVars, heart,
                  log>>
  BY DEF Send
<1>7. ServerTypeOK'
  BY <1>2, <1>4, <1>5, <1>6
     DEF ServerInv, ServerTypeOK, flags, heartVars, envVars, CommPCs
<1>8. Hand'
  BY <1>5 DEF Hand
<1> QED BY <1>7, <1>8 DEF ServerInv

LEMMA HeartbeatThreadType == ASSUME ServerInv, HeartbeatThread PROVE ServerInv'
<1> USE DEF ServerInv, ServerTypeOK, Hand, flags, heartVars, socketVars, contentVars,
            envVars, QUIT, DONE, SocketStates, CommPCs, HeartPCs
<1>1. CASE HeartTop
  BY <1>1 DEF HeartTop
<1>2. CASE HeartSleep
  BY <1>2 DEF HeartSleep
<1>3. CASE HeartLock
  <2>1. socketMutex' \in BOOLEAN
    BY <1>3, Zenon DEF HeartLock
  <2> QED BY <1>3, <2>1 DEF HeartLock
<1>4. CASE HeartLocked
  <2>1. late' \in BOOLEAN
    BY <1>4, Zenon DEF HeartLocked
  <2> QED BY <1>4, <2>1 DEF HeartLocked
<1>5. CASE HeartSend
  <2>1. /\ isDisconnected' \in BOOLEAN /\ socketMutex' \in BOOLEAN
        /\ late' \in BOOLEAN
    BY <1>5, Zenon DEF HeartSend
  <2> QED BY <1>5, <2>1, AfterSendType DEF HeartSend
<1>6. CASE HeartExit
  BY <1>6 DEF HeartExit
<1> QED BY <1>1, <1>2, <1>3, <1>4, <1>5, <1>6 DEF HeartbeatThread

LEMMA OthersType ==
  ASSUME ServerInv, ServerCloses \/ LogAsk \/ SendContent \/ UNCHANGED lvars
  PROVE  ServerInv'
<1> USE DEF ServerInv, ServerTypeOK, Hand, flags, heartVars, socketVars, contentVars,
            envVars, QUIT, DONE, SocketStates, CommPCs, HeartPCs
<1>1. CASE ServerCloses
  BY <1>1 DEF ServerCloses
<1>2. CASE LogAsk
  BY <1>2 DEF LogAsk
<1>3. CASE SendContent
  BY <1>3 DEF SendContent
<1>4. CASE UNCHANGED lvars
  BY <1>4 DEF lvars
<1> QED BY <1>1, <1>2, <1>3, <1>4

\* Every variable keeps its type, and what CommThread holds matches where it is.
THEOREM ServerTypingInductive == ServerSpec => []ServerInv
<1>1. ServerInit => ServerInv
  <2>1. ServerInit => /\ m_isUsable \in BOOLEAN /\ isDisconnected \in BOOLEAN
                /\ heartbeatThread \in BOOLEAN /\ socketMutex \in BOOLEAN
                /\ late \in BOOLEAN
    BY Zenon DEF ServerInit
  <2>2. <<>> \in Seq(Nat) /\ Len(<<>>) = 0
    OBVIOUS
  <2>3. ServerInit => /\ toSend \in Seq(Nat) /\ taken \in Seq(Nat)
                /\ handled \in Seq(Nat)
    BY <2>2, Zenon DEF ServerInit
  <2>4. ServerInit => fds \in 0..MaxFds /\ queued \in Nat /\ closes \in Nat
                /\ refusals \in Nat /\ heartbeatThreadComm \in {0, QUIT, DONE}
    BY DEF ServerInit
  <2>6. ServerInit => ServerTypeOK
    BY <2>1, <2>3, <2>4 DEF ServerInit, ServerTypeOK, SocketStates, CommPCs, HeartPCs
  <2>7. ServerInit => Hand
    BY <2>2 DEF ServerInit, Hand
  <2> QED BY <2>6, <2>7 DEF ServerInv
<1>2. ServerInv /\ [ServerNext]_lvars => ServerInv'
  BY CommThreadType, HandshakeType, LoopType, DrainType, SendType,
     HeartbeatThreadType, OthersType DEF ServerNext, CommThread
<1> QED BY <1>1, <1>2, PTL DEF ServerSpec

\* Type correctness of ServerComm.
THEOREM ServerTyping == ServerSpec => []ServerTypeOK
<1>1. ServerInv => ServerTypeOK
  BY DEF ServerInv
<1> QED BY <1>1, ServerTypingInductive, PTL

-----------------------------------------------------------------------------
(* Heartbeats and the connection.                                          *)

Live == socket \in {"acked", "closed", "reset", "broken"}
Connecting == comm \in {"joined", "socket", "connect", "handshake", "judge", "spawn"}

\* A heartbeat thread exists only while CommThread is in its loop or on the way
\* to joining it, and the connection does not change in between: DONE is set by
\* the thread's last step, and is gone before the next thread is started.
HeartInv ==
  /\ heart # "none" => heartbeatThread
  /\ heartbeatThread => Live /\ ~Connecting
  /\ heartbeatThreadComm = QUIT => comm = "join"
  /\ heartbeatThreadComm = DONE => heart = "none" /\ comm \in {"join", "joined"}
  /\ heart = "exit" => heartbeatThreadComm = QUIT
  /\ answer = "success" => Live /\ comm = "judge"
  /\ comm \in {"spawn", "loop", "drain", "send", "wait"} => Live
  /\ Connecting => heart = "none" /\ ~heartbeatThread

LEMMA SendKeepsLive ==
  Live => AfterSend \subseteq {"acked", "closed", "reset", "broken"}
BY DEF Live, AfterSend

LEMMA ReconnectKeeps == ASSUME ServerInv, HeartInv, Reconnect PROVE HeartInv'
<1> USE DEF HeartInv, Live, Connecting, flags, heartVars, socketVars, QUIT, DONE
<1>1. CASE Cleanup
  <2>1. CASE heartbeatThread
    <3>1. heartbeatThreadComm' = QUIT /\ comm' = "join" /\ comm = "cleanup"
      BY <1>1, <2>1 DEF Cleanup
    <3> QED BY <1>1, <2>1, <3>1 DEF Cleanup
  <2>2. CASE ~heartbeatThread
    <3>1. comm' = "joined" /\ comm = "cleanup" /\ UNCHANGED heartbeatThreadComm
      BY <1>1, <2>2 DEF Cleanup
    <3> QED BY <1>1, <2>2, <3>1 DEF Cleanup
  <2> QED BY <2>1, <2>2
<1>2. CASE Join
  <2>1. /\ comm' = "joined" /\ ~heartbeatThread' /\ heart = "none"
        /\ heartbeatThreadComm' = DONE
        /\ UNCHANGED <<socket, answer, heart>>
    BY <1>2 DEF Join
  <2>2. answer # "success"
    BY <1>2 DEF Join
  <2> QED BY <2>1, <2>2
<1>3. CASE Joined
  BY <1>3 DEF Joined
<1>4. CASE OpenSocket
  BY <1>4 DEF OpenSocket
<1>5. CASE ConnectFails
  BY <1>5 DEF ConnectFails
<1>6. CASE Connect
  BY <1>6 DEF Connect
<1> QED BY <1>1, <1>2, <1>3, <1>4, <1>5, <1>6 DEF Reconnect

LEMMA HandshakeKeeps ==
  ASSUME ServerInv, HeartInv, Handshake \/ JudgeAnswer \/ JudgeAnswerCrash \/ Spawn
  PROVE  HeartInv'
<1> USE DEF HeartInv, Live, Connecting, flags, heartVars, socketVars, QUIT, DONE
<1>1. CASE HandshakeAnswered
  BY <1>1 DEF HandshakeAnswered
<1>2. CASE HandshakeBroken
  BY <1>2 DEF HandshakeBroken
<1>6. CASE HandshakeInterrupted
  BY <1>6 DEF HandshakeInterrupted
<1>3. CASE JudgeAnswer
  BY <1>3 DEF JudgeAnswer, CloseSocket
<1>4. CASE JudgeAnswerCrash
  BY <1>4 DEF JudgeAnswerCrash
<1>5. CASE Spawn
  BY <1>5 DEF Spawn
<1> QED BY <1>1, <1>2, <1>3, <1>4, <1>5, <1>6 DEF Handshake

LEMMA LoopKeeps ==
  ASSUME ServerInv, HeartInv, Loop \/ Drain \/ Send \/ Wait
  PROVE  HeartInv'
<1> USE DEF HeartInv, Live, Connecting, flags, heartVars, socketVars, QUIT, DONE
<1>1. CASE Loop
  BY <1>1 DEF Loop
<1>2. CASE Drain
  BY <1>2 DEF Drain
<1>3. CASE Send
  BY <1>3, SendKeepsLive DEF Send
<1>4. CASE Wait
  BY <1>4 DEF Wait
<1> QED BY <1>1, <1>2, <1>3, <1>4

LEMMA HeartbeatKeeps ==
  ASSUME ServerInv, HeartInv, HeartbeatThread
  PROVE  HeartInv'
<1> USE DEF HeartInv, Live, Connecting, flags, heartVars, socketVars, QUIT, DONE
<1>1. CASE HeartTop
  BY <1>1 DEF HeartTop
<1>2. CASE HeartSleep
  BY <1>2 DEF HeartSleep
<1>3. CASE HeartLock
  BY <1>3 DEF HeartLock
<1>4. CASE HeartLocked
  BY <1>4 DEF HeartLocked
<1>5. CASE HeartSend
  BY <1>5, SendKeepsLive DEF HeartSend
<1>6. CASE HeartExit
  BY <1>6 DEF HeartExit
<1> QED BY <1>1, <1>2, <1>3, <1>4, <1>5, <1>6 DEF HeartbeatThread

LEMMA OthersKeep ==
  ASSUME ServerInv, HeartInv,
         ServerCloses \/ LogAsk \/ SendContent \/ UNCHANGED lvars
  PROVE  HeartInv'
<1> USE DEF HeartInv, Live, Connecting, flags, heartVars, socketVars, QUIT, DONE
<1>1. CASE ServerCloses
  BY <1>1 DEF ServerCloses
<1>2. CASE LogAsk
  BY <1>2 DEF LogAsk
<1>3. CASE SendContent
  BY <1>3 DEF SendContent
<1>4. CASE UNCHANGED lvars
  BY <1>4 DEF lvars
<1> QED BY <1>1, <1>2, <1>3, <1>4

LEMMA HeartInductive == ServerSpec => []HeartInv
<1>1. ServerInit => HeartInv
  BY DEF ServerInit, HeartInv, Live, Connecting, QUIT, DONE
<1>2. ServerInv /\ HeartInv /\ [ServerNext]_lvars => HeartInv'
  BY ReconnectKeeps, HandshakeKeeps, LoopKeeps, HeartbeatKeeps, OthersKeep
     DEF ServerNext, CommThread
<1> QED BY <1>1, <1>2, ServerTypingInductive, PTL DEF ServerSpec

\* However often connections fail, are refused or closed, no heartbeat is sent
\* to a connection the server did not acknowledge.
THEOREM HeartbeatIsSafe == ServerSpec => []HeartbeatOnAckedSocket
<1>1. HeartInv => HeartbeatOnAckedSocket
  BY DEF HeartInv, HeartbeatOnAckedSocket, Live
<1> QED BY <1>1, HeartInductive, PTL

-----------------------------------------------------------------------------
(* The order of contents.                                                  *)

Numbers(n) == [i \in 1..n |-> i]

\* A step that leaves the contents alone.
LEMMA QuietContents ==
  ASSUME ContentsInOrder, UNCHANGED contentVars
  PROVE  ContentsInOrder'
BY DEF ContentsInOrder, contentVars

LEMMA NumbersGrow ==
  ASSUME NEW n \in Nat
  PROVE  Append(Numbers(n), n + 1) = Numbers(n + 1)
<1>1. Numbers(n) \in Seq(Nat) /\ Len(Numbers(n)) = n
  BY DEF Numbers
<1>2. Numbers(n + 1) \in Seq(Nat) /\ Len(Numbers(n + 1)) = n + 1
  BY DEF Numbers
<1>3. /\ Append(Numbers(n), n + 1) \in Seq(Nat)
      /\ Len(Append(Numbers(n), n + 1)) = n + 1
  BY <1>1, AppendProperties
<1>4. ASSUME NEW i \in 1..(n + 1)
      PROVE  Append(Numbers(n), n + 1)[i] = Numbers(n + 1)[i]
  BY <1>1, AppendProperties DEF Numbers
<1> QED BY <1>2, <1>3, <1>4, SeqEqual

LEMMA ConcatAppend ==
  ASSUME NEW s \in Seq(Nat), NEW t \in Seq(Nat), NEW c \in Nat
  PROVE  s \o Append(t, c) = Append(s \o t, c)
OBVIOUS

LEMMA DrainOrder == ASSUME ServerInv, ContentsInOrder, Drain PROVE ContentsInOrder'
<1>1. /\ toSend \in Seq(Nat) /\ taken = <<>> /\ handled \in Seq(Nat)
      /\ queued' = queued /\ handled' = handled
  BY DEF ServerInv, ServerTypeOK, Hand, Drain
<1>2. CASE toSend = <<>>
  BY <1>2 DEF Drain, ContentsInOrder
<1>3. CASE toSend # <<>>
  <2>1. taken' = <<Head(toSend)>> /\ toSend' = Tail(toSend)
    BY <1>3 DEF Drain
  <2>2. handled \o taken' \o toSend' = handled \o toSend
    BY <1>1, <1>3, <2>1
  <2>3. handled \o taken \o toSend = handled \o toSend
    BY <1>1
  <2> QED BY <1>1, <2>2, <2>3 DEF ContentsInOrder
<1> QED BY <1>2, <1>3

LEMMA SendOrder == ASSUME ServerInv, ContentsInOrder, Send PROVE ContentsInOrder'
<1>1. handled \in Seq(Nat) /\ taken \in Seq(Nat) /\ toSend \in Seq(Nat)
  BY DEF ServerInv, ServerTypeOK
<1>2. handled' = handled \o taken /\ taken' = <<>> /\ UNCHANGED <<toSend, queued>>
  BY DEF Send
<1>3. handled' \o taken' = handled \o taken
  BY <1>1, <1>2
<1> QED BY <1>2, <1>3 DEF ContentsInOrder

LEMMA QueueOrder ==
  ASSUME ServerInv, ContentsInOrder, SendContent
  PROVE  ContentsInOrder'
<1>1. /\ handled \in Seq(Nat) /\ taken \in Seq(Nat) /\ toSend \in Seq(Nat)
      /\ queued \in Nat
  BY DEF ServerInv, ServerTypeOK
<1>2. /\ queued' = queued + 1 /\ toSend' = Append(toSend, queued + 1)
      /\ UNCHANGED <<handled, taken>>
  BY DEF SendContent
<1>3. handled \o taken \in Seq(Nat)
  BY <1>1
<1>4. handled \o taken \o toSend' = Append(handled \o taken \o toSend, queued + 1)
  BY <1>1, <1>2, <1>3, ConcatAppend
<1>5. handled \o taken \o toSend = Numbers(queued)
  BY DEF ContentsInOrder, Numbers
<1>6. handled' \o taken' \o toSend' = Numbers(queued + 1)
  BY <1>1, <1>2, <1>4, <1>5, NumbersGrow
<1> QED BY <1>2, <1>6 DEF ContentsInOrder, Numbers

LEMMA QuietSteps ==
  ASSUME ServerInv,
         Reconnect \/ Handshake \/ JudgeAnswer \/ JudgeAnswerCrash \/ Spawn \/ Loop \/ Wait \/
         HeartbeatThread \/ ServerCloses \/ LogAsk \/ UNCHANGED lvars
  PROVE  UNCHANGED contentVars
BY DEF Reconnect, Cleanup, Join, Joined, OpenSocket, ConnectFails, Connect,
       Handshake, HandshakeAnswered, HandshakeBroken, HandshakeInterrupted,
       JudgeAnswer, JudgeAnswerCrash, Spawn, Loop, Wait, HeartbeatThread, HeartTop, HeartSleep,
       HeartLock, HeartLocked, HeartSend, HeartExit, ServerCloses, LogAsk, lvars,
       contentVars

\* Contents are sent in the order in which they were queued and each once,
\* however often the connection is replaced in between.
THEOREM NothingOvertakes == ServerSpec => []ContentsInOrder
<1>1. ServerInit => ContentsInOrder
  <2>1. ServerInit => handled \o taken \o toSend = <<>> /\ queued = 0
    BY DEF ServerInit
  <2>2. [i \in 1..0 |-> i] = <<>>
    OBVIOUS
  <2> QED BY <2>1, <2>2 DEF ContentsInOrder
<1>2. ServerInv /\ ContentsInOrder /\ [ServerNext]_lvars => ContentsInOrder'
  BY QuietContents, QuietSteps, DrainOrder, SendOrder, QueueOrder
     DEF ServerNext, CommThread
<1> QED BY <1>1, <1>2, ServerTypingInductive, PTL DEF ServerSpec

-----------------------------------------------------------------------------
(* The refinement of FrameChannel.                                         *)

\* What was sent came before what is in CommThread's hand, and both are in
\* the order of their numbers.
LEMMA HandledIsSorted ==
  ASSUME ServerInv, ContentsInOrder
  PROVE  /\ Len(handled \o taken) <= queued
         /\ \A i \in 1..Len(handled \o taken) : (handled \o taken)[i] = i
<1> DEFINE done == handled \o taken
<1>1. done \in Seq(Nat) /\ toSend \in Seq(Nat) /\ queued \in Nat
  BY DEF ServerInv, ServerTypeOK
<1>2. done \o toSend = Numbers(queued)
  BY DEF ContentsInOrder, Numbers
<1>3. Len(Numbers(queued)) = queued
  BY <1>1 DEF Numbers
<1> HIDE DEF done
<1>4. Len(done \o toSend) = Len(done) + Len(toSend)
      /\ \A i \in 1..Len(done) : (done \o toSend)[i] = done[i]
  BY <1>1
<1>5. Len(done) \in Nat /\ Len(toSend) \in Nat
  BY <1>1
<1>6. Len(done) <= queued
  BY <1>1, <1>2, <1>3, <1>4, <1>5
<1>7. ASSUME NEW i \in 1..Len(done) PROVE done[i] = i
  <2>1. i \in 1..queued
    BY <1>1, <1>5, <1>6
  <2>2. Numbers(queued)[i] = i
    BY <2>1 DEF Numbers
  <2> QED BY <1>2, <1>4, <2>2
<1> QED BY <1>6, <1>7 DEF done

LEMMA SendIsSend == ASSUME ServerInv, ContentsInOrder, Send PROVE Contents!Send
<1>1. /\ handled \in Seq(Nat) /\ taken \in Seq(Nat) /\ queued \in Nat
      /\ taken # <<>> /\ Len(taken) <= 1
  BY DEF ServerInv, ServerTypeOK, Hand, Send
<1>2. Len(taken) = 1 /\ taken[1] \in Nat
  BY <1>1, HandHolds
<1> DEFINE n == Len(handled) + 1
<1>3. n \in Nat /\ Len(handled \o taken) = n
  <2>1. Len(handled \o taken) = Len(handled) + Len(taken)
    BY <1>1
  <2>2. Len(handled) \in Nat
    BY <1>1
  <2> QED BY <1>2, <2>1, <2>2
<1>4. (handled \o taken)[n] = taken[1]
  BY <1>1, <1>2
<1>5. \A i \in 1..Len(handled) : (handled \o taken)[i] = handled[i]
  BY <1>1
<1>6. taken[1] = n /\ n \in 1..queued
  BY <1>1, <1>3, <1>4, HandledIsSorted
<1>7. \A i \in 1..Len(handled) : handled[i] < n
  <2>1. ASSUME NEW i \in 1..Len(handled) PROVE handled[i] = i
    <3>1. i \in 1..Len(handled \o taken)
      BY <1>1, <1>3
    <3> QED BY <1>5, <3>1, HandledIsSorted
  <2> QED BY <1>1, <2>1
<1>8. handled' = Append(handled, n) /\ queued' = queued
  <2>1. handled' = handled \o taken /\ queued' = queued
    BY DEF Send
  <2>2. taken = <<n>>
    BY <1>1, <1>2, <1>6
  <2>3. handled \o <<n>> = Append(handled, n)
    BY <1>1
  <2> QED BY <2>1, <2>2, <2>3
<1> HIDE DEF n
<1> QED BY <1>6, <1>7, <1>8 DEF Contents!Send

\* CommThread and the loggers together are the channel that FrameChannel describes,
\* over all connections: queueing is its Accept, send() its Send, and whatever
\* else the threads and the server do it does not see.
THEOREM ContentsAreChanneled == ServerSpec => ContentsChanneled
<1>1. ServerInit => Contents!Init
  BY DEF ServerInit, Contents!Init
<1>2. ASSUME ServerInv, ContentsInOrder, [ServerNext]_lvars
      PROVE  [Contents!Next]_(Contents!vars)
  <2>1. CASE SendContent
    BY <2>1 DEF SendContent, Contents!Next, Contents!Accept
  <2>2. CASE Send
    BY <1>2, <2>2, SendIsSend DEF Contents!Next
  <2>3. CASE Drain
    BY <2>3 DEF Drain, Contents!vars
  <2>4. CASE \/ Reconnect \/ Handshake \/ JudgeAnswer \/ JudgeAnswerCrash \/ Spawn \/ Loop
             \/ Wait \/ HeartbeatThread \/ ServerCloses \/ LogAsk
             \/ UNCHANGED lvars
    BY <1>2, <2>4, QuietSteps DEF contentVars, Contents!vars
  <2> QED BY <1>2, <2>1, <2>2, <2>3, <2>4 DEF ServerNext, CommThread
<1> QED BY <1>1, <1>2, ServerTypingInductive, NothingOvertakes, PTL
        DEF ServerSpec, ContentsChanneled, Contents!Spec

=============================================================================
