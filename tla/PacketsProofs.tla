---------------------------- MODULE PacketsProofs ----------------------------
(***************************************************************************)
(* For any sensors, ids and bounds: an id has one sensor, wherever it is   *)
(* on its way to it.                                                       *)
(***************************************************************************)
EXTENDS Packets, TLAPS

USE PacketsBoundAssumption

Replies == [to : Radios \cup OldRadios, id : SensorIds, command : Commands,
            held : BOOLEAN, body : BOOLEAN]

\* An id that the server handed out.
Handed == 1..MaxIds

\* The id n is a sensor's: it has it, or its packet in hand does, or a reply to it.
InQueue(r, n) ==
  \E i \in 1..Len(dispatchQueue) :
    /\ dispatchQueue[i].to = r /\ dispatchQueue[i].id = n
    /\ dispatchQueue[i].command = "request"
InPacket(r, n) == inHand # Nothing /\ inHand.from = r /\ inHand.id = n
Holds(r, n) == sensorId[r] = n \/ InPacket(r, n) \/ InQueue(r, n)

\* Whoever holds an id, it was handed out, and nobody else holds it.
OneHolder ==
  \A r \in Radios, n \in Handed : Holds(r, n) =>
    n <= issued /\ \A t \in Radios : Holds(t, n) => t = r

\* While a packet is handled it is there.
HasPacket == handling \in {"fetch", "reply", "sent", "return"} => inHand # Nothing

PacketsInv == PacketsTypeOK /\ HasPacket /\ (misled \/ OneHolder)

-----------------------------------------------------------------------------
(* Sequences.                                                              *)

LEMMA AppendFacts ==
  ASSUME NEW S, NEW q \in Seq(S), NEW e \in S
  PROVE  /\ Append(q, e) \in Seq(S) /\ Len(Append(q, e)) = Len(q) + 1
         /\ \A i \in 1..(Len(q) + 1) :
              Append(q, e)[i] = IF i <= Len(q) THEN q[i] ELSE e
  OBVIOUS

LEMMA TailFacts ==
  ASSUME NEW S, NEW q \in Seq(S), q # <<>>
  PROVE  /\ Tail(q) \in Seq(S) /\ Len(Tail(q)) = Len(q) - 1 /\ Len(q) >= 1
         /\ Head(q) = q[1] /\ Head(q) \in S
         /\ \A i \in 1..(Len(q) - 1) : Tail(q)[i] = q[i + 1]
  OBVIOUS

LEMMA MapFacts ==
  ASSUME NEW S, NEW q \in Seq(S), NEW f, f = [i \in 1..Len(q) |-> f[i]],
         \A i \in 1..Len(q) : f[i] \in S
  PROVE  f \in Seq(S) /\ Len(f) = Len(q)
  OBVIOUS

LEMMA IdFacts ==
  /\ Unassigned \in SensorIds /\ NoNumber \in SensorIds /\ 0 \in SensorIds
  /\ Unassigned \notin Handed /\ NoNumber \notin Handed /\ 0 \notin Handed
  /\ Damaged \notin SensorIds /\ Handed \subseteq SensorIds
  BY DEF Unassigned, NoNumber, SensorIds, Handed, Damaged

-----------------------------------------------------------------------------
(* Initially.                                                              *)

LEMMA PacketsInitInv == PacketsInit => PacketsInv
  <1> SUFFICES ASSUME PacketsInit PROVE PacketsInv
    OBVIOUS
  <1>1. mislogged \in BOOLEAN /\ misled \in BOOLEAN
    BY Zenon DEF PacketsInit
  <1>2. PacketsTypeOK
    BY <1>1, IdFacts DEF PacketsInit, PacketsTypeOK
  <1>3. OneHolder
    BY IdFacts DEF PacketsInit, OneHolder, Holds, InPacket, InQueue
  <1> QED BY <1>2, <1>3 DEF PacketsInit, PacketsInv, HasPacket

-----------------------------------------------------------------------------
(* A packet is taken.                                                      *)

\* What Ask leaves: one more answer on the way.
LEMMA AskStep ==
  ASSUME PacketsInv, NEW id \in SensorIds, NEW intact \in BOOLEAN, Ask(id, intact)
  PROVE  lastPacketSensorId' = id /\ asked' \in Seq(SensorIds \cup {Damaged})
  <1> DEFINE S == SensorIds \cup {Damaged}
             e == IF intact THEN id ELSE Damaged
  <1>1. lastPacketSensorId' = id /\ asked' = Append(asked, e)
    BY DEF Ask
  <1>2. asked \in Seq(S) /\ e \in S
    BY DEF PacketsInv, PacketsTypeOK
  <1> HIDE DEF e
  <1> QED BY <1>1, <1>2, AppendFacts

\* Nobody comes to hold an id in a step that leaves the ids handed out alone.
LEMMA KeptHolders ==
  ASSUME OneHolder, issued' = issued,
         \A r \in Radios, n \in Handed : Holds(r, n)' => Holds(r, n)
  PROVE  OneHolder'
  BY DEF OneHolder, Handed

LEMMA TakeRev1Step ==
  ASSUME PacketsInv, NEW r \in Radios, NEW id \in SensorIds,
         NEW command \in Commands, TakeRev1(r, id, command)
  PROVE  PacketsInv'
  <1>1. /\ Ask(id, TRUE) /\ id \in {sensorId[r], Unassigned}
        /\ inHand' = [from |-> r, id |-> id, command |-> command]
        /\ handling' \in {"fetch", "return", "reply"}
        /\ UNCHANGED <<sensorId, dispatchQueue, issued, mislogged, misled>>
    BY DEF TakeRev1
  <1>2. lastPacketSensorId' = id /\ asked' \in Seq(SensorIds \cup {Damaged})
    BY <1>1, AskStep
  <1>3. PacketsTypeOK'
    BY <1>1, <1>2 DEF PacketsInv, PacketsTypeOK
  <1>4. inHand' # Nothing
    BY <1>1 DEF Nothing
  <1>5. \A t \in Radios, n \in Handed : Holds(t, n)' => Holds(t, n)
    BY <1>1, IdFacts DEF Holds, InPacket, InQueue
  <1>6. misled' \/ OneHolder'
    BY <1>1, <1>5, KeptHolders DEF PacketsInv
  <1> QED BY <1>2, <1>3, <1>4, <1>6 DEF PacketsInv, HasPacket

LEMMA TakeDamagedStep ==
  ASSUME PacketsInv, NEW id \in SensorIds, TakeDamaged(id)
  PROVE  PacketsInv'
  <1>1. /\ Ask(id, FALSE)
        /\ UNCHANGED <<sensorId, handling, inHand, dispatchQueue, issued,
                       mislogged, misled>>
    BY DEF TakeDamaged
  <1>2. lastPacketSensorId' = id /\ asked' \in Seq(SensorIds \cup {Damaged})
    BY <1>1, AskStep
  <1>3. PacketsTypeOK'
    BY <1>1, <1>2 DEF PacketsInv, PacketsTypeOK
  <1>4. misled' \/ OneHolder'
    BY <1>1 DEF PacketsInv, OneHolder, Holds, InPacket, InQueue
  <1> QED BY <1>1, <1>2, <1>3, <1>4 DEF PacketsInv, HasPacket

-----------------------------------------------------------------------------
(* The handler goes on.                                                    *)

\* The next id is held by nobody, until it is in the packet in hand.
LEMMA GetSensorIdStep ==
  ASSUME PacketsInv, GetSensorId PROVE PacketsInv'
  <1>1. /\ handling = "fetch" /\ inHand # Nothing
        /\ UNCHANGED <<sensorId, lastPacketSensorId, asked, dispatchQueue,
                       mislogged, misled>>
    BY DEF GetSensorId, PacketsInv, HasPacket
  <1>2. /\ inHand \in [from : Radios \cup OldRadios, id : SensorIds,
                       command : Commands]
        /\ issued \in 0..MaxIds
    BY <1>1 DEF PacketsInv, PacketsTypeOK
  <1>3. CASE handling' = "crashed" /\ UNCHANGED <<inHand, issued>>
    <2>1. PacketsTypeOK'
      BY <1>1, <1>3 DEF PacketsInv, PacketsTypeOK
    <2>2. misled' \/ OneHolder'
      BY <1>1, <1>3 DEF PacketsInv, OneHolder, Holds, InPacket, InQueue
    <2> QED BY <1>3, <2>1, <2>2 DEF PacketsInv, HasPacket
  <1>4. ASSUME NEW id \in SensorIds, Proceed(id),
               \/ id \notin Handed /\ issued' = issued
               \/ id = issued + 1 /\ issued' = issued + 1 /\ issued < MaxIds
        PROVE  PacketsInv'
    <2>1. /\ inHand' \in [from : Radios \cup OldRadios, id : SensorIds,
                          command : Commands]
          /\ inHand'.from = inHand.from /\ inHand'.id = id
          /\ handling' \in {"return", "reply"} /\ inHand' # Nothing
      BY <1>2, <1>4 DEF Proceed, Nothing
    <2>2. PacketsTypeOK'
      BY <1>1, <1>2, <1>4, <2>1 DEF PacketsInv, PacketsTypeOK
    <2>3. \A r \in Radios, n \in Handed : Holds(r, n)' =>
            Holds(r, n) \/ (n = id /\ id = issued + 1 /\ r = inHand.from)
      BY <1>1, <1>4, <2>1 DEF Holds, InPacket, InQueue
    <2>4. ASSUME OneHolder PROVE OneHolder'
      <3>1. \A r \in Radios, n \in Handed : Holds(r, n) => n # issued + 1
        BY <1>2, <2>4 DEF OneHolder, Handed
      <3>2. issued <= issued' /\ (id = issued + 1 /\ id \in Handed => id <= issued')
        BY <1>2, <1>4 DEF Handed
      <3> SUFFICES ASSUME NEW r \in Radios, NEW n \in Handed, Holds(r, n)'
                   PROVE  n <= issued' /\ \A t \in Radios : Holds(t, n)' => t = r
        BY DEF OneHolder
      <3>3. CASE n = issued + 1
        BY <2>3, <3>1, <3>2, <3>3
      <3>4. CASE n # issued + 1
        BY <1>2, <1>4, <2>3, <2>4, <3>2, <3>4 DEF OneHolder, Handed
      <3> QED BY <3>3, <3>4
    <2> QED BY <1>1, <2>1, <2>2, <2>4 DEF PacketsInv, HasPacket
  <1>5. \/ handling' = "crashed" /\ UNCHANGED <<inHand, issued>>
        \/ Proceed(Unassigned) /\ issued' = issued
        \/ Proceed(NoNumber) /\ issued' = issued
        \/ issued < MaxIds /\ issued' = issued + 1 /\ Proceed(issued + 1)
    BY DEF GetSensorId
  <1>6. issued < MaxIds => issued + 1 \in SensorIds
    BY <1>2 DEF SensorIds
  <1> QED BY <1>3, <1>4, <1>5, <1>6, IdFacts

\* A reply joins the queue; it holds no id, or that of the packet in hand.
LEMMA SendStep ==
  ASSUME PacketsTypeOK, NEW to \in Radios \cup OldRadios, NEW id \in SensorIds,
         NEW command \in Commands, SendPacket(to, id, command)
  PROVE  /\ dispatchQueue' \in Seq(Replies)
         /\ \A r, n : InQueue(r, n)' =>
              InQueue(r, n) \/ (r = to /\ n = id /\ command = "request")
  <1> DEFINE reply == [to |-> to, id |-> id, command |-> command,
                       held |-> TRUE, body |-> TRUE]
  <1>1. dispatchQueue \in Seq(Replies) /\ dispatchQueue' = Append(dispatchQueue, reply)
    BY DEF PacketsTypeOK, Replies, SendPacket
  <1>2. reply \in Replies
    BY Zenon DEF Replies
  <1>3. reply.to = to /\ reply.id = id /\ reply.command = command
    OBVIOUS
  <1> HIDE DEF reply
  <1>4. /\ Append(dispatchQueue, reply) \in Seq(Replies)
        /\ Len(Append(dispatchQueue, reply)) = Len(dispatchQueue) + 1
        /\ \A i \in 1..(Len(dispatchQueue) + 1) : Append(dispatchQueue, reply)[i] =
             IF i <= Len(dispatchQueue) THEN dispatchQueue[i] ELSE reply
    BY <1>1, <1>2, AppendFacts
  <1> QED BY <1>1, <1>3, <1>4 DEF InQueue

LEMMA ReplyStep == ASSUME PacketsInv, Reply PROVE PacketsInv'
  <1> DEFINE id == IF inHand.command = "range" THEN 0 ELSE inHand.id
  <1>1. /\ handling = "reply" /\ inHand # Nothing /\ handling' = "return"
        /\ SendPacket(inHand.from, id, inHand.command)
        /\ UNCHANGED <<sensorId, inHand, lastPacketSensorId, asked, issued,
                       mislogged, misled>>
    BY DEF Reply, PacketsInv, HasPacket
  <1>2. inHand \in [from : Radios \cup OldRadios, id : SensorIds, command : Commands]
    BY <1>1 DEF PacketsInv, PacketsTypeOK
  <1>3. /\ id \in SensorIds /\ (inHand.command = "request" => id = inHand.id)
    BY <1>2, IdFacts
  <1> HIDE DEF id
  <1>4. /\ dispatchQueue' \in Seq(Replies)
        /\ \A r, n : InQueue(r, n)' =>
             InQueue(r, n) \/ (r = inHand.from /\ n = id /\ inHand.command = "request")
    BY <1>1, <1>2, <1>3, SendStep DEF PacketsInv
  <1>5. PacketsTypeOK'
    BY <1>1, <1>4 DEF PacketsInv, PacketsTypeOK, Replies
  <1>6. \A r \in Radios, n \in Handed : Holds(r, n)' => Holds(r, n)
    BY <1>1, <1>3, <1>4 DEF Holds, InPacket
  <1>7. misled' \/ OneHolder'
    BY <1>1, <1>6, KeptHolders DEF PacketsInv
  <1> QED BY <1>1, <1>5, <1>7 DEF PacketsInv, HasPacket

LEMMA TakeRev0Step ==
  ASSUME PacketsInv, NEW r \in OldRadios, TakeRev0(r) PROVE PacketsInv'
  <1>1. /\ inHand' = [from |-> r, id |-> 0, command |-> "request"]
        /\ handling' = "sent" /\ SendPacket(r, 0, "request")
        /\ UNCHANGED <<sensorId, lastPacketSensorId, asked, issued, mislogged, misled>>
    BY DEF TakeRev0
  <1>2. /\ dispatchQueue' \in Seq(Replies)
        /\ \A t, n : InQueue(t, n)' => InQueue(t, n) \/ n = 0
    BY <1>1, IdFacts, SendStep DEF PacketsInv, Commands
  <1>3. inHand' # Nothing
    BY <1>1 DEF Nothing
  <1>4. PacketsTypeOK'
    BY <1>1, <1>2, IdFacts DEF PacketsInv, PacketsTypeOK, Replies, Commands
  <1>5. \A t \in Radios, n \in Handed : Holds(t, n)' => Holds(t, n)
    BY <1>1, <1>2, IdFacts DEF Holds, InPacket
  <1>6. misled' \/ OneHolder'
    BY <1>1, <1>5, KeptHolders DEF PacketsInv
  <1> QED BY <1>1, <1>3, <1>4, <1>6 DEF PacketsInv, HasPacket

\* A local that dies leaves destination, id and command of every reply.
LEMMA ReturnStep ==
  ASSUME PacketsInv, ReturnAddress \/ ReturnHandler PROVE PacketsInv'
  <1>1. /\ UNCHANGED <<sensorId, lastPacketSensorId, asked, issued, mislogged, misled>>
        /\ \/ handling' = "return" /\ inHand' = inHand /\ handling = "sent"
           \/ handling' = "idle" /\ inHand' = Nothing
    BY DEF ReturnAddress, ReturnHandler
  <1>2. dispatchQueue \in Seq(Replies)
    BY DEF PacketsInv, PacketsTypeOK, Replies
  <1>3. /\ dispatchQueue' = [i \in 1..Len(dispatchQueue) |-> dispatchQueue'[i]]
        /\ \A i \in 1..Len(dispatchQueue) :
             /\ dispatchQueue'[i] \in Replies
             /\ dispatchQueue'[i].to = dispatchQueue[i].to
             /\ dispatchQueue'[i].id = dispatchQueue[i].id
             /\ dispatchQueue'[i].command = dispatchQueue[i].command
    <2>1. \A i \in 1..Len(dispatchQueue) : dispatchQueue[i] \in Replies
      BY <1>2
    <2>2. CASE ReturnAddress
      <3> DEFINE body(i) ==
            dispatchQueue[i].body /\ dispatchQueue[i].to \notin OldRadios
      <3>1. dispatchQueue' = [i \in 1..Len(dispatchQueue) |->
              [dispatchQueue[i] EXCEPT !.body = body(i)]]
        BY <2>2 DEF ReturnAddress
      <3>2. \A i : body(i) \in BOOLEAN
        BY Zenon
      <3> HIDE DEF body
      <3> QED BY <2>1, <3>1, <3>2 DEF Replies
    <2>3. CASE ReturnHandler
      BY <2>1, <2>3 DEF ReturnHandler, Replies
    <2> QED BY <2>2, <2>3
  <1>4. dispatchQueue' \in Seq(Replies) /\ Len(dispatchQueue') = Len(dispatchQueue)
    BY <1>2, <1>3, MapFacts
  <1>5. PacketsTypeOK'
    BY <1>1, <1>4 DEF PacketsInv, PacketsTypeOK, Replies
  <1>6. \A r \in Radios, n \in Handed : Holds(r, n)' => Holds(r, n)
    BY <1>1, <1>3, <1>4 DEF Holds, InPacket, InQueue
  <1>7. misled' \/ OneHolder'
    BY <1>1, <1>6, KeptHolders DEF PacketsInv
  <1> QED BY <1>1, <1>5, <1>7 DEF PacketsInv, HasPacket

-----------------------------------------------------------------------------
(* The dispatcher and the answers.                                         *)

\* A reply that reaches the sensor it is meant for gives it an id that it holds.
LEMMA DispatchStep == ASSUME PacketsInv, DispatchReply PROVE PacketsInv'
  <1> DEFINE reply == Head(dispatchQueue)
  <1>1. /\ dispatchQueue # <<>> /\ dispatchQueue' = Tail(dispatchQueue)
        /\ UNCHANGED <<handling, inHand, lastPacketSensorId, asked, issued, mislogged>>
    BY DEF DispatchReply
  <1>2. dispatchQueue \in Seq(Replies)
    BY DEF PacketsInv, PacketsTypeOK, Replies
  <1>3. /\ Tail(dispatchQueue) \in Seq(Replies) /\ reply \in Replies
        /\ Len(Tail(dispatchQueue)) = Len(dispatchQueue) - 1 /\ Len(dispatchQueue) >= 1
        /\ reply = dispatchQueue[1]
        /\ \A i \in 1..(Len(dispatchQueue) - 1) :
             Tail(dispatchQueue)[i] = dispatchQueue[i + 1]
    BY <1>1, <1>2, TailFacts
  <1>4. PICK to \in Destination(reply) :
          /\ misled' = (misled \/ (~reply.held /\ to # reply.to))
          /\ \/ /\ to \in Radios /\ reply.command = "request" /\ reply.body
                /\ sensorId' = [sensorId EXCEPT ![to] = reply.id]
             \/ UNCHANGED sensorId
    BY DEF DispatchReply
  <1>5. reply.id \in SensorIds /\ Len(dispatchQueue) \in Nat
    BY <1>2, <1>3 DEF Replies
  <1>6. reply.held => to = reply.to
    BY <1>4 DEF Destination
  <1> HIDE DEF reply
  <1>7. PacketsTypeOK'
    <2>1. misled' \in BOOLEAN
      BY <1>4, Zenon
    <2>2. sensorId' \in [Radios -> SensorIds]
      BY <1>4, <1>5 DEF PacketsInv, PacketsTypeOK
    <2> QED BY <1>1, <1>3, <2>1, <2>2 DEF PacketsInv, PacketsTypeOK, Replies
  <1>8. \A r, n : InQueue(r, n)' => InQueue(r, n)
    <2> SUFFICES ASSUME NEW r, NEW n, InQueue(r, n)' PROVE InQueue(r, n)
      OBVIOUS
    <2>1. PICK i \in 1..(Len(dispatchQueue) - 1) :
            /\ dispatchQueue[i + 1].to = r /\ dispatchQueue[i + 1].id = n
            /\ dispatchQueue[i + 1].command = "request"
      BY <1>1, <1>3 DEF InQueue
    <2>2. i + 1 \in 1..Len(dispatchQueue)
      BY <1>5
    <2> QED BY <2>1, <2>2 DEF InQueue
  <1>9. reply.command = "request" => InQueue(reply.to, reply.id)
    <2>1. 1 \in 1..Len(dispatchQueue)
      BY <1>3, <1>5
    <2> QED BY <1>3, <2>1 DEF InQueue
  <1>10. ASSUME ~misled' PROVE OneHolder'
    <2>1. ~misled /\ to = reply.to
      BY <1>4, <1>6, <1>10
    <2>2. \A r \in Radios, n \in Handed : Holds(r, n)' => Holds(r, n)
      BY <1>1, <1>4, <1>8, <1>9, <2>1 DEF Holds, InPacket, PacketsInv, PacketsTypeOK
    <2> QED BY <1>1, <2>1, <2>2, KeptHolders DEF PacketsInv
  <1> QED BY <1>1, <1>7, <1>10 DEF PacketsInv, HasPacket

LEMMA SignalStep ==
  ASSUME PacketsInv, LogSignal \/ LoseSignal PROVE PacketsInv'
  <1>1. /\ asked # <<>> /\ asked' = Tail(asked)
        /\ UNCHANGED <<sensorId, handling, inHand, lastPacketSensorId,
                       dispatchQueue, issued, misled>>
    BY DEF LogSignal, LoseSignal
  <1>2. Tail(asked) \in Seq(SensorIds \cup {Damaged})
    <2>1. asked \in Seq(SensorIds \cup {Damaged})
      BY DEF PacketsInv, PacketsTypeOK
    <2> QED BY <1>1, <2>1, TailFacts
  <1>3. mislogged' \in BOOLEAN
    <2>1. mislogged \in BOOLEAN
      BY DEF PacketsInv, PacketsTypeOK
    <2> QED BY <2>1, Zenon DEF LogSignal, LoseSignal
  <1>4. PacketsTypeOK'
    BY <1>1, <1>2, <1>3 DEF PacketsInv, PacketsTypeOK
  <1>5. misled' \/ OneHolder'
    BY <1>1 DEF PacketsInv, OneHolder, Holds, InPacket, InQueue
  <1> QED BY <1>1, <1>4, <1>5 DEF PacketsInv, HasPacket

-----------------------------------------------------------------------------
(* Theorems.                                                               *)

LEMMA PacketsStep == PacketsInv /\ [PacketsNext]_pvars => PacketsInv'
  <1> SUFFICES ASSUME PacketsInv, [PacketsNext]_pvars PROVE PacketsInv'
    OBVIOUS
  <1>1. CASE UNCHANGED pvars
    BY <1>1 DEF pvars, PacketsInv, PacketsTypeOK, HasPacket, OneHolder,
      Holds, InPacket, InQueue
  <1>2. CASE PacketsNext
    BY <1>2, TakeDamagedStep, TakeRev1Step, GetSensorIdStep, ReplyStep,
       TakeRev0Step, ReturnStep, DispatchStep, SignalStep DEF PacketsNext
  <1> QED BY <1>1, <1>2

LEMMA PacketsAlways == PacketsSpec => []PacketsInv
  BY PacketsInitInv, PacketsStep, PTL DEF PacketsSpec

\* The handler, its replies and what it remembers stay well typed.
THEOREM PacketsAreTyped == PacketsSpec => []PacketsTypeOK
  BY PacketsAlways, PTL DEF PacketsInv

\* No two sensors have an id that the server handed out, for any number of
\* sensors that ask again before their id arrives, as long as no reply went
\* astray (HandlePacketRev1).
THEOREM OneSensorPerId == PacketsSpec => []IdsAreDistinct
  <1>1. PacketsInv => IdsAreDistinct
    <2> SUFFICES ASSUME PacketsInv, OneHolder, NEW r \in Radios, NEW t \in Radios,
                        r # t, sensorId[r] = sensorId[t]
                 PROVE  sensorId[r] \in {Unassigned, NoNumber}
      BY DEF PacketsInv, IdsAreDistinct
    <2>1. sensorId[r] \in SensorIds /\ Holds(r, sensorId[r]) /\ Holds(t, sensorId[r])
      BY DEF PacketsInv, PacketsTypeOK, Holds
    <2>2. sensorId[r] \notin Handed
      BY <2>1 DEF OneHolder
    <2> QED BY <2>1, <2>2 DEF SensorIds, Handed, Unassigned, NoNumber
  <1> QED BY <1>1, PacketsAlways, PTL

=============================================================================
