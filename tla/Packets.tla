------------------------------ MODULE Packets ------------------------------
(***************************************************************************)
(* The packet handlers and what they leave behind for other threads and    *)
(* for later: lastPacketSensorId, to which the answer to ATDB is logged,   *)
(* and the reply in the dispatch queue, whose destination is a local of    *)
(* the handler and whose packet, in revision 0, is a local of              *)
(* SendReceiverAddress.                                                    *)
(*                                                                         *)
(* A sensor is known by its radio.  One of revision 1 has the id that a    *)
(* RECEIVER_ACK gave it, Unassigned (all ones) at first; the id of one of  *)
(* revision 0 is its radio's address.  A request with the id Unassigned    *)
(* makes the handler ask the server for a new id.                          *)
(***************************************************************************)
EXTENDS Naturals, Sequences

CONSTANTS
  Radios,     \* sensors of revision 1
  OldRadios,  \* sensors of revision 0
  MaxIds,     \* bound: ids the server hands out
  MaxReplies, \* bound: replies in the queue
  MaxAsked    \* bound: ATDB commands on the way

ASSUME PacketsBoundAssumption ==
  MaxIds \in Nat /\ MaxReplies \in Nat /\ MaxAsked \in Nat

Unassigned == MaxIds + 1   \* ~0
NoNumber == 0              \* strtoul of an answer that is not a number
SensorIds == 0..(MaxIds + 1)

VARIABLES
  sensorId,   \* external: the id that a sensor of revision 1 uses
  handling,   \* where the handler is
  inHand,     \* [from, id, command]: the packet in hand, if any
  lastPacketSensorId,
  asked,      \* the ATDB commands on the way; as history, for each the id in the
              \* packet that asked, Damaged if that packet was
  dispatchQueue,  \* replies: [to, id, command, held, body], held while the
                  \* destination and body while the packet is still there
  issued,     \* ids that the server has handed out
  mislogged,  \* history: an answer was logged for another sensor than the one whose
              \* packet asked
  misled      \* history: a reply went to another sensor than it was meant for

pvars == <<sensorId, handling, inHand, lastPacketSensorId, asked, dispatchQueue,
           issued, mislogged, misled>>

Damaged == MaxIds + 2
Nothing == <<>>
\* REQUEST_RECEIVER, RANGE_TEST, TEMP_REPORT, and the two that are only logged,
\* ERROR_REPORT and DIAG_REPORT.
Commands == {"request", "range", "report", "log"}

PacketsTypeOK ==
  /\ sensorId \in [Radios -> SensorIds]
  /\ handling \in {"idle", "fetch", "reply", "sent", "return", "crashed"}
  /\ inHand \in [from : Radios \cup OldRadios, id : SensorIds, command : Commands]
               \cup {Nothing}
  /\ lastPacketSensorId \in SensorIds
  /\ asked \in Seq(SensorIds \cup {Damaged})
  /\ dispatchQueue \in Seq([to : Radios \cup OldRadios, id : SensorIds,
                            command : Commands, held : BOOLEAN, body : BOOLEAN])
  /\ issued \in 0..MaxIds
  /\ mislogged \in BOOLEAN /\ misled \in BOOLEAN

PacketsInit ==
  /\ sensorId = [r \in Radios |-> Unassigned]
  /\ handling = "idle"
  /\ inHand = Nothing
  /\ lastPacketSensorId = 0 /\ asked = <<>> /\ dispatchQueue = <<>> /\ issued = 0
  /\ mislogged = FALSE /\ misled = FALSE

-----------------------------------------------------------------------------
(* HandlePacketRev1.                                                       *)

\* The id is remembered and ATDB registered before the CRC is compared.
Ask(id, intact) ==
  /\ Len(asked) < MaxAsked
  /\ lastPacketSensorId' = id
  /\ asked' = Append(asked, IF intact THEN id ELSE Damaged)

\* A damaged packet names any sensor, and ends there.
TakeDamaged(id) ==
  /\ handling = "idle"
  /\ Ask(id, FALSE)
  /\ UNCHANGED <<sensorId, handling, inHand, dispatchQueue, issued, mislogged, misled>>

\* An intact one carries the sensor's id, or none if it was sent before the
\* sensor had one.
TakeRev1(r, id, command) ==
  /\ handling = "idle"
  /\ id \in {sensorId[r], Unassigned}
  /\ Ask(id, TRUE)
  /\ inHand' = [from |-> r, id |-> id, command |-> command]
  /\ handling' = IF command = "log" THEN "return"
                 ELSE IF id = Unassigned /\ command # "range" THEN "fetch"
                 ELSE IF command = "report" THEN "return" ELSE "reply"
  /\ UNCHANGED <<sensorId, dispatchQueue, issued, mislogged, misled>>

Proceed(id) ==
  /\ inHand' = [inHand EXCEPT !.id = id]
  /\ handling' = IF inHand.command = "report" THEN "return" ELSE "reply"

\* Mutant of GetSensorId: the id that was handed out last is tried again.
GetSensorIdAgain ==
  /\ handling = "fetch"
  /\ \/ Proceed(Unassigned) /\ UNCHANGED issued
     \/ issued > 0 /\ Proceed(issued) /\ UNCHANGED issued
     \/ issued < MaxIds /\ issued' = issued + 1 /\ Proceed(issued + 1)
  /\ UNCHANGED <<sensorId, lastPacketSensorId, asked, dispatchQueue, mislogged, misled>>

\* GET /api/getid: no answer leaves the id as it is, an empty one has no buffer
\* and crashes strtoul, one that is not a number counts as 0.
GetSensorId ==
  /\ handling = "fetch"
  /\ \/ Proceed(Unassigned) /\ UNCHANGED issued
     \/ Proceed(NoNumber) /\ UNCHANGED issued
     \/ issued < MaxIds /\ issued' = issued + 1 /\ Proceed(issued + 1)
     \/ handling' = "crashed" /\ UNCHANGED <<inHand, issued>>
  /\ UNCHANGED <<sensorId, lastPacketSensorId, asked, dispatchQueue, mislogged, misled>>

SendPacket(to, id, command) ==
  /\ Len(dispatchQueue) < MaxReplies
  /\ dispatchQueue' = Append(dispatchQueue, [to |-> to, id |-> id,
                        command |-> command, held |-> TRUE, body |-> TRUE])

\* RECEIVER_ACK with the id, or RANGE_TEST with the id 0.
Reply ==
  /\ handling = "reply"
  /\ SendPacket(inHand.from, IF inHand.command = "range" THEN 0 ELSE inHand.id,
                inHand.command)
  /\ handling' = "return"
  /\ UNCHANGED <<sensorId, inHand, lastPacketSensorId, asked, issued, mislogged, misled>>

-----------------------------------------------------------------------------
(* HandlePacketRev0.                                                       *)

\* A report of revision 0 is left to Sensors and Reports: it leaves nothing here.
TakeRev0(r) ==
  /\ handling = "idle"
  /\ inHand' = [from |-> r, id |-> 0, command |-> "request"]
  /\ SendPacket(r, 0, "request")
  /\ handling' = "sent"
  /\ UNCHANGED <<sensorId, lastPacketSensorId, asked, issued, mislogged, misled>>

\* SendReceiverAddress returns, and its packet is gone.
ReturnAddress ==
  /\ handling = "sent"
  /\ dispatchQueue' = [i \in 1..Len(dispatchQueue) |->
       [dispatchQueue[i] EXCEPT !.body = @ /\ dispatchQueue[i].to \notin OldRadios]]
  /\ handling' = "return"
  /\ UNCHANGED <<sensorId, inHand, lastPacketSensorId, asked, issued, mislogged, misled>>

\* The handler returns, and xbee_addr is gone.
ReturnHandler ==
  /\ handling = "return"
  /\ dispatchQueue' =
       [i \in 1..Len(dispatchQueue) |-> [dispatchQueue[i] EXCEPT !.held = FALSE]]
  /\ handling' = "idle" /\ inHand' = Nothing
  /\ UNCHANGED <<sensorId, lastPacketSensorId, asked, issued, mislogged, misled>>

-----------------------------------------------------------------------------
\* Where the dispatcher finds the destination: in a local that is gone there is
\* another packet's, or no radio's at all.
Destination(reply) ==
  IF reply.held THEN {reply.to} ELSE Radios \cup OldRadios \cup {"nobody"}

\* The dispatcher sends a reply.  External: it is lost, or a sensor of revision
\* 1 that gets an acknowledgement takes the id in it.
DispatchReply ==
  /\ dispatchQueue # <<>>
  /\ LET reply == Head(dispatchQueue) IN
       \E to \in Destination(reply) :
         /\ misled' = (misled \/ (~reply.held /\ to # reply.to))
         /\ \/ /\ to \in Radios /\ reply.command = "request" /\ reply.body
               /\ sensorId' = [sensorId EXCEPT ![to] = reply.id]
            \/ UNCHANGED sensorId
  /\ dispatchQueue' = Tail(dispatchQueue)
  /\ UNCHANGED <<handling, inHand, lastPacketSensorId, asked, issued, mislogged>>

\* History: the oldest answer was asked for by a packet of one sensor and is logged
\* for another, and no damaged packet is to blame.
ForAnother ==
  /\ \E r, t \in Radios :
       sensorId[r] = Head(asked) /\ sensorId[t] = lastPacketSensorId /\ r # t
  /\ {Head(asked), lastPacketSensorId} \subseteq 1..MaxIds
  /\ Head(asked) # lastPacketSensorId
  /\ \A i \in 1..Len(asked) : asked[i] # Damaged

\* The answer to the oldest ATDB, logged by XBAPI_HandleFrameCallback.
LogSignal ==
  /\ handling = "idle" /\ asked # <<>>
  /\ mislogged' = (mislogged \/ ForAnother)
  /\ asked' = Tail(asked)
  /\ UNCHANGED <<sensorId, handling, inHand, lastPacketSensorId, dispatchQueue,
                 issued, misled>>

\* External: it is lost, or reports an error.
LoseSignal ==
  /\ asked # <<>>
  /\ asked' = Tail(asked)
  /\ UNCHANGED <<sensorId, handling, inHand, lastPacketSensorId, dispatchQueue,
                 issued, mislogged, misled>>

PacketsNext ==
  \/ \E id \in SensorIds : TakeDamaged(id)
  \/ \E r \in Radios, id \in SensorIds, command \in Commands :
       TakeRev1(r, id, command)
  \/ GetSensorId \/ Reply
  \/ \E r \in OldRadios : TakeRev0(r)
  \/ ReturnAddress \/ ReturnHandler
  \/ DispatchReply \/ LogSignal \/ LoseSignal

PacketsSpec == PacketsInit /\ [][PacketsNext]_pvars

-----------------------------------------------------------------------------
(* Properties.                                                             *)

\* Two sensors never have the same id, though a sensor may ask again before its
\* id arrives, unless it is no id the server handed out, or a reply was
\* dispatched after its destination was gone and went astray
\* (HandlePacketRev1, REQUEST_RECEIVER).
IdsAreDistinct ==
  misled \/ \A r, t \in Radios :
    r # t /\ sensorId[r] = sensorId[t] => sensorId[r] \in {Unassigned, NoNumber}

\* The id saved with an ATDB command is still there when its answer is logged: a
\* signal strength is logged for the sensor whose packet asked for it ("I must
\* save the last packet's sensor ID for the command handler, which will handle the
\* response to my ATDB command", HandlePacketRev1).
SignalIsItsSensors == ~mislogged

=============================================================================
