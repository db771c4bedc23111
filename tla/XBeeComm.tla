------------------------------ MODULE XBeeComm ------------------------------
(***************************************************************************)
(* XBeeCommunicator: the table of communication slots, the dispatch queue  *)
(* and the threads that share them.                                        *)
(*                                                                         *)
(*   main        asks the radio for its address (ATSL, ATSH), waits for    *)
(*               the two answers, reads them and frees their slots;        *)
(*   dispatcher  takes requests off the queue and writes their frames;     *)
(*   handler     reads frames, completes the slot a frame answers, frees   *)
(*               it if nobody waits, and registers the requests that a     *)
(*               sensor packet asks for.                                   *)
(*                                                                         *)
(* Only the queue is protected by a mutex.  The slots and their allocation *)
(* bits are plain memory: every access that another thread can see between *)
(* two others is a step of its own.  The bits are a vector<bool>, so a bit *)
(* is written by storing the machine word it was loaded with.  Undefined   *)
(* behaviour ends the run: fault names what happened.                      *)
(*                                                                         *)
(* A request is numbered by the order in which it entered the queue.  The  *)
(* numbers are history, the code does not keep them: they say whose frame  *)
(* or answer a slot holds.                                                 *)
(***************************************************************************)
EXTENDS Integers, Sequences, FiniteSets

CONSTANTS
  NumSlots,       \* MAX_CONCURRENT_COMMS; ids are 1..NumSlots, 0 is "no slot"
  WordBits,       \* allocation bits that share one machine word
  StartUp,        \* TRUE: main still has to ask for the radio's address
  Packets,        \* the sensor packets that arrive
  ModemStatuses,  \* status bytes of the modem status frames that arrive
  Garbles,        \* TRUE: an answer's length field may arrive damaged
  Loses,          \* TRUE: an answer may be lost on the line
  MaxRequests,    \* bound: requests that are registered
  MaxFrames       \* bound: unsolicited frames that arrive

PacketTypes == {"rev0_report", "rev0_request", "rev1_report", "rev1_request"}

ASSUME SlotAssumption == NumSlots \in Nat /\ NumSlots > 0
ASSUME WordAssumption == WordBits \in Nat /\ WordBits > 0
ASSUME EnvAssumption ==
  /\ StartUp \in BOOLEAN /\ Garbles \in BOOLEAN /\ Loses \in BOOLEAN
  /\ Packets \subseteq PacketTypes
  /\ ModemStatuses \subseteq Nat
ASSUME BoundAssumption == MaxRequests \in Nat /\ MaxFrames \in Nat

VARIABLES
  bits,       \* xbeeCommBits
  comms,      \* xbeeComms
  queue,      \* dispatchQueue, oldest request first
  pushed,     \* history: how many requests were pushed
  wire,       \* history: the requests whose frames were written, in order
  air,        \* requests written to the radio and not answered yet
  unsolicited,\* how many frames arrived that answer nothing
  pc,         \* where each thread is
  reg,        \* locals of registerRequest: [kind, slot, word] per caller
  fre,        \* locals of freeCommStruct: [slot, word] per caller
  disp,       \* the dispatcher's local request
  frame,      \* the frame the handler holds
  todo,       \* requests the packet in the handler's hand still asks for
  mainIds,    \* id0 and id1 of main
  mainStep,   \* which of the two main is working on
  mainRead,   \* history: whose answers main read
  fault       \* "none", or the undefined behaviour that was reached

slotVars == <<bits, comms>>
queueVars == <<queue, pushed>>
radioVars == <<wire, air, unsolicited>>
mainVars == <<mainIds, mainStep, mainRead>>
handlerVars == <<frame, todo>>
vars == <<bits, comms, queue, pushed, wire, air, unsolicited, pc, reg, fre,
          disp, frame, todo, mainIds, mainStep, mainRead, fault>>

Slots == 1..NumSlots
Callers == {"main", "handler"}
Kinds == {"command", "transmit"}

NULL == 0
Raw == -1             \* a Frame that new returned and nobody filled in
Blank == -2           \* a Frame that is zeroed and has no id yet

NoRequest == [n |-> 0, id |-> 0, kind |-> "command"]
NoFrame == [type |-> "none", id |-> 0, n |-> 0, packet |-> "none"]

\* memset in the constructor: every slot starts zeroed.
EmptySlot == [origFrame |-> NULL, replyFrame |-> FALSE, replyData |-> NULL,
              id |-> 0, finished |-> 0, waiting |-> 0]

\* The slots whose allocation bits are stored together with that of s.
Word(s) == {t \in Slots : (t - 1) \div WordBits = (s - 1) \div WordBits}

\* Mutant of StoreBit: the store never reaches the vector.
StoreBitLost(old, s, b) == bits

\* The bits after the word that was loaded from old is stored with bit s = b.
StoreBit(old, s, b) ==
  [t \in Slots |-> IF t = s THEN b
                   ELSE IF t \in Word(s) THEN old[t] ELSE bits[t]]

Request == [n : Nat, id : 0..NumSlots, kind : Kinds]

Slot == [origFrame : Nat \cup {Raw, Blank}, replyFrame : BOOLEAN, replyData : Nat,
         id : 0..NumSlots, finished : {0, 1}, waiting : Int]

Frames == [type : {"none", "rx", "modem", "at", "txStatus"}, id : Nat,
           n : Nat, packet : PacketTypes \cup {"none"}]

Faults == {"none", "null commStruct", "double delete", "null replyData",
           "null replyFrame", "null origFrame", "freed origFrame", "index -1"}

MainPCs == {"register", "claim", "push", "wait", "spin", "get", "read", "free",
            "freeFields", "freeBit", "done"}
HandlerPCs == {"frame", "attach", "handle", "register", "claim", "push",
               "finish", "test", "free", "freeFields", "freeBit"}
DispatcherPCs == {"check", "pop", "cmdAlloc", "cmdFrame", "cmdWrite", "txWrite",
                  "txAlloc", "txCopy", "arm", "waiting"}
PCs == [main : MainPCs, handler : HandlerPCs, dispatcher : DispatcherPCs]

RegCall == [kind : Kinds, slot : 0..NumSlots, word : [Slots -> BOOLEAN]]
FreeCall == [slot : 0..NumSlots, word : [Slots -> BOOLEAN]]

TypeOK ==
  /\ bits \in [Slots -> BOOLEAN]
  /\ comms \in [Slots -> Slot]
  /\ queue \in Seq(Request)
  /\ pushed \in Nat
  /\ wire \in Seq(Nat)
  /\ air \in SUBSET Request
  /\ unsolicited \in Nat
  /\ pc \in PCs
  /\ reg \in [Callers -> RegCall]
  /\ fre \in [Callers -> FreeCall]
  /\ disp \in Request
  /\ frame \in Frames
  /\ todo \in Seq(Kinds)
  /\ mainIds \in Seq(0..NumSlots)
  /\ mainStep \in {1, 2}
  /\ mainRead \in Seq(Nat)
  /\ fault \in Faults

\* Locals of a call that is not in progress.
NoWord == [s \in Slots |-> FALSE]
NoCall == [kind |-> "command", slot |-> 0, word |-> NoWord]
NoFree == [slot |-> 0, word |-> NoWord]

Init ==
  /\ bits = NoWord
  /\ comms = [s \in Slots |-> EmptySlot]
  /\ queue = <<>>
  /\ pushed = 0
  /\ wire = <<>>
  /\ air = {}
  /\ unsolicited = 0
  /\ pc = [main |-> IF StartUp THEN "register" ELSE "done",
           handler |-> "frame", dispatcher |-> "check"]
  /\ reg = [t \in Callers |-> NoCall]
  /\ fre = [t \in Callers |-> NoFree]
  /\ disp = NoRequest
  /\ frame = NoFrame
  /\ todo = <<>>
  /\ mainIds = <<>>
  /\ mainStep = 1
  /\ mainRead = <<>>
  /\ fault = "none"

At(t, label) == fault = "none" /\ pc[t] = label
Goto(t, label) == pc' = [pc EXCEPT ![t] = label]
Crash(what) == fault' = what

-----------------------------------------------------------------------------
(* registerRequest, called by main and by the handler thread.              *)

\* What the caller t asks for next.
Wanted(t) == IF t = "main" THEN "command" ELSE Head(todo)

\* Mutant of FirstFree: the scan does not look at the bits.
FirstSlot(s) == s = 1

FirstFree(s) == ~bits[s] /\ \A r \in 1..(s - 1) : bits[r]

\* Look for the first bit that is false; the word it is in stays loaded.
RegisterScan(t) ==
  /\ At(t, "register")
  /\ t = "handler" => todo # <<>>
  /\ pushed < MaxRequests
  /\ \/ \E s \in Slots :
          /\ FirstFree(s)
          /\ reg' = [reg EXCEPT ![t] =
                       [kind |-> Wanted(t), slot |-> s, word |-> bits]]
     \/ /\ \A s \in Slots : bits[s]
        /\ reg' = [reg EXCEPT ![t] =
                     [kind |-> Wanted(t), slot |-> 0, word |-> bits]]
  /\ Goto(t, "claim")
  /\ UNCHANGED <<slotVars, queueVars, radioVars, fre, disp, handlerVars,
                 mainVars, fault>>

\* Store the bit and reset waiting; finished keeps what it was.  With no slot
\* free the code writes xbeeComms[-1], outside every slot.
RegisterClaim(t) ==
  LET s == reg[t].slot IN
  /\ At(t, "claim")
  /\ IF s = 0 THEN UNCHANGED slotVars
     ELSE /\ bits' = StoreBit(reg[t].word, s, TRUE)
          /\ comms' = [comms EXCEPT ![s].waiting = 0]
  /\ reg' = [reg EXCEPT ![t].word = NoWord]
  /\ Goto(t, "push")
  /\ UNCHANGED <<queueVars, radioVars, fre, disp, handlerVars, mainVars, fault>>

\* Mutant of Enqueue: push_back, at the end the dispatcher takes from.
EnqueueBack(t) ==
  /\ pushed' = pushed + 1
  /\ queue' = <<[n |-> pushed + 1, id |-> reg[t].slot, kind |-> reg[t].kind]>>
              \o queue
  /\ reg' = [reg EXCEPT ![t] = NoCall]

\* Mutant of Enqueue: the id is the index i instead of i + 1.
EnqueueIndex(t) ==
  /\ pushed' = pushed + 1
  /\ queue' = Append(queue, [n |-> pushed + 1, id |-> reg[t].slot - 1,
                             kind |-> reg[t].kind])
  /\ reg' = [reg EXCEPT ![t] = NoCall]

\* push_front and signal under dispatchThreadMutex.  The signal is lost unless
\* the dispatcher is in pthread_cond_timedwait at this moment.
Enqueue(t) ==
  /\ pushed' = pushed + 1
  /\ queue' = Append(queue, [n |-> pushed + 1, id |-> reg[t].slot,
                             kind |-> reg[t].kind])
  /\ reg' = [reg EXCEPT ![t] = NoCall]

Signalled(next) ==
  IF pc["dispatcher"] = "waiting" THEN [next EXCEPT !["dispatcher"] = "check"]
  ELSE next

MainPush ==
  /\ At("main", "push")
  /\ Enqueue("main")
  /\ mainIds' = Append(mainIds, reg["main"].slot)
  /\ mainStep' = 3 - mainStep
  /\ pc' = Signalled([pc EXCEPT !["main"] = IF mainStep = 1 THEN "register"
                                         ELSE "wait"])
  /\ UNCHANGED <<slotVars, radioVars, fre, disp, handlerVars, mainRead, fault>>

HandlerPush ==
  /\ At("handler", "push")
  /\ Enqueue("handler")
  /\ todo' = Tail(todo)
  /\ pc' = Signalled([pc EXCEPT !["handler"] = "register"])
  /\ UNCHANGED <<slotVars, radioVars, fre, disp, frame, mainVars, fault>>

-----------------------------------------------------------------------------
(* freeCommStruct, called by main and by the handler thread.               *)

\* getCommStruct returns NULL for a slot whose bit is false, and the next line
\* goes through that pointer.
FreeGet(t) ==
  /\ At(t, "free")
  /\ IF bits[fre[t].slot] THEN Goto(t, "freeFields") /\ UNCHANGED fault
     ELSE Crash("null commStruct") /\ UNCHANGED pc
  /\ UNCHANGED <<slotVars, queueVars, radioVars, reg, fre, disp, handlerVars,
                 mainVars>>

\* The three deletes, and the load of the word that holds the bit.
FreeFields(t) ==
  LET s == fre[t].slot IN
  /\ At(t, "freeFields")
  /\ comms' = [comms EXCEPT ![s].replyData = NULL, ![s].origFrame = NULL,
                            ![s].replyFrame = FALSE]
  /\ fre' = [fre EXCEPT ![t].word = bits]
  /\ Goto(t, "freeBit")
  /\ UNCHANGED <<bits, queueVars, radioVars, reg, disp, handlerVars, mainVars,
                 fault>>

\* Both callers are between testing the three pointers of one slot and setting
\* them to NULL, and delete the same memory.
DoubleDelete ==
  /\ \A t \in Callers : At(t, "freeFields")
  /\ fre["main"].slot = fre["handler"].slot
  /\ Crash("double delete")
  /\ UNCHANGED <<slotVars, queueVars, radioVars, pc, reg, fre, disp,
                 handlerVars, mainVars>>

\* Mutant of FreeBit: the bit stays set.
FreeBitKept(t) ==
  /\ At(t, "freeBit")
  /\ UNCHANGED <<slotVars, queueVars, radioVars, reg, disp, frame, todo, mainIds,
                 mainRead, fault>>

FreeBit(t) ==
  /\ At(t, "freeBit")
  /\ bits' = StoreBit(fre[t].word, fre[t].slot, FALSE)
  /\ UNCHANGED <<comms, queueVars, radioVars, reg, disp, frame, todo, mainIds,
                 mainRead, fault>>

HandlerFreeBit ==
  /\ FreeBit("handler")
  /\ fre' = [fre EXCEPT !["handler"] = NoFree]
  /\ Goto("handler", "frame")
  /\ UNCHANGED mainStep

MainFreeBit ==
  /\ FreeBit("main")
  /\ mainStep' = 3 - mainStep
  /\ IF mainStep = 1
     THEN /\ Goto("main", "free")
          /\ fre' = [fre EXCEPT !["main"] =
                       [slot |-> mainIds[2], word |-> NoWord]]
     ELSE Goto("main", "done") /\ fre' = [fre EXCEPT !["main"] = NoFree]

-----------------------------------------------------------------------------
(* The dispatcher thread.                                                  *)

\* The unlocked empty() that heads the inner loop.  The keep-alive test before
\* it is false on every pass (see KeepAlive).
DispatchCheck ==
  /\ At("dispatcher", "check")
  /\ Goto("dispatcher", IF queue = <<>> THEN "arm" ELSE "pop")
  /\ UNCHANGED <<slotVars, queueVars, radioVars, reg, fre, disp, handlerVars,
                 mainVars, fault>>

\* back() and pop_back() under the mutex; a request with id 0 is dropped, any
\* other gives its slot the id (the callback is NULL in every request).
DispatchPop ==
  LET r == Head(queue) IN
  /\ At("dispatcher", "pop")
  /\ queue' = Tail(queue)
  /\ IF r.id = 0 THEN Goto("dispatcher", "check") /\ UNCHANGED <<comms, disp>>
     ELSE /\ disp' = r
          /\ comms' = [comms EXCEPT ![r.id].id = r.id]
          /\ Goto("dispatcher", IF r.kind = "command" THEN "cmdAlloc"
                                ELSE "txWrite")
  /\ UNCHANGED <<bits, pushed, radioVars, reg, fre, handlerVars, mainVars,
                 fault>>

\* XBAPI_CommandInternal hands the slot a zeroed frame ...
CommandAlloc ==
  /\ At("dispatcher", "cmdAlloc")
  /\ comms' = [comms EXCEPT ![disp.id].origFrame = Blank]
  /\ Goto("dispatcher", "cmdFrame")
  /\ UNCHANGED <<bits, queueVars, radioVars, reg, fre, disp, handlerVars,
                 mainVars, fault>>

\* ... fills it in through a pointer of its own, unless it was freed since ...
CommandFrame ==
  /\ At("dispatcher", "cmdFrame")
  /\ IF comms[disp.id].origFrame = NULL
     THEN Crash("freed origFrame") /\ UNCHANGED <<comms, pc>>
     ELSE /\ comms' = [comms EXCEPT ![disp.id].origFrame = disp.n]
          /\ Goto("dispatcher", "cmdWrite")
          /\ UNCHANGED fault
  /\ UNCHANGED <<bits, queueVars, radioVars, reg, fre, disp, handlerVars,
                 mainVars>>

WriteFrame ==
  /\ wire' = Append(wire, disp.n)
  /\ air' = air \cup {disp}
  /\ UNCHANGED unsolicited

\* ... and writes it.
CommandWrite ==
  /\ At("dispatcher", "cmdWrite")
  /\ IF comms[disp.id].origFrame = NULL
     THEN Crash("freed origFrame") /\ UNCHANGED <<radioVars, disp, pc>>
     ELSE /\ WriteFrame
          /\ disp' = NoRequest
          /\ Goto("dispatcher", "check")
          /\ UNCHANGED fault
  /\ UNCHANGED <<slotVars, queueVars, reg, fre, handlerVars, mainVars>>

\* XBAPI_TransmitInternal writes first, and hands the slot a copy of the frame
\* afterwards: a new Frame, filled in by memcpy.
TransmitWrite ==
  /\ At("dispatcher", "txWrite")
  /\ WriteFrame
  /\ Goto("dispatcher", "txAlloc")
  /\ UNCHANGED <<slotVars, queueVars, reg, fre, disp, handlerVars, mainVars,
                 fault>>

TransmitAlloc ==
  /\ At("dispatcher", "txAlloc")
  /\ comms' = [comms EXCEPT ![disp.id].origFrame = Raw]
  /\ Goto("dispatcher", "txCopy")
  /\ UNCHANGED <<bits, queueVars, radioVars, reg, fre, disp, handlerVars,
                 mainVars, fault>>

TransmitCopy ==
  /\ At("dispatcher", "txCopy")
  /\ IF comms[disp.id].origFrame = NULL
     THEN Crash("null origFrame") /\ UNCHANGED <<comms, pc, disp>>
     ELSE /\ comms' = [comms EXCEPT ![disp.id].origFrame = disp.n]
          /\ disp' = NoRequest
          /\ Goto("dispatcher", "check")
          /\ UNCHANGED fault
  /\ UNCHANGED <<bits, queueVars, radioVars, reg, fre, handlerVars, mainVars>>

\* watchdog->reset(), then pthread_cond_timedwait releases the mutex and waits.
DispatchArm ==
  /\ At("dispatcher", "arm")
  /\ Goto("dispatcher", "waiting")
  /\ UNCHANGED <<slotVars, queueVars, radioVars, reg, fre, disp, handlerVars,
                 mainVars, fault>>

\* Mutant of DispatchTimeout: after ETIMEDOUT the wait starts again.
DispatchRearm ==
  /\ At("dispatcher", "waiting")
  /\ Goto("dispatcher", "arm")
  /\ UNCHANGED <<slotVars, queueVars, radioVars, reg, fre, disp, handlerVars,
                 mainVars, fault>>

\* MAX_DISPATCH_WAIT passed without a signal.
DispatchTimeout ==
  /\ At("dispatcher", "waiting")
  /\ Goto("dispatcher", "check")
  /\ UNCHANGED <<slotVars, queueVars, radioVars, reg, fre, disp, handlerVars,
                 mainVars, fault>>

Dispatcher ==
  \/ DispatchCheck \/ DispatchPop \/ CommandAlloc \/ CommandFrame \/ CommandWrite
  \/ TransmitWrite \/ TransmitAlloc \/ TransmitCopy
  \/ DispatchArm \/ DispatchTimeout

-----------------------------------------------------------------------------
(* The handler thread.                                                     *)

\* The requests that handling a packet registers.  A packet whose CRC does not
\* match asks for what a report of its revision asks for.  Rev 0: a request for
\* the receiver is answered.
HandlePacketRev0(p) == IF p = "rev0_request" THEN <<"transmit">> ELSE <<>>

\* Rev 1: ATDB comes first; a request for the receiver and a range test are
\* answered.
HandlePacketRev1(p) ==
  IF p = "rev1_request" THEN <<"command", "transmit">> ELSE <<"command">>

\* HandlePacket: the callback for the packet's revision.
Reaction(p) ==
  IF p \in {"rev0_report", "rev0_request"} THEN HandlePacketRev0(p)
  ELSE HandlePacketRev1(p)

AnswerType(kind) == IF kind = "command" THEN "at" ELSE "txStatus"

\* XBAPI_ReadFrame returns an answer to a frame that was written ...
ReadAnswer ==
  /\ At("handler", "frame")
  /\ \E r \in air :
       /\ air' = air \ {r}
       /\ frame' = [type |-> AnswerType(r.kind), id |-> r.id, n |-> r.n,
                    packet |-> "none"]
  /\ Goto("handler", "attach")
  /\ UNCHANGED <<slotVars, queueVars, wire, unsolicited, reg, fre, disp, todo,
                 mainVars, fault>>

\* ... or a frame the radio sends by itself.  Byte 4, where the handler looks
\* for the frame id, is the first address byte (0) of a sensor packet and the
\* status byte of a modem status frame.
ReadUnsolicited ==
  /\ At("handler", "frame")
  /\ unsolicited < MaxFrames
  /\ unsolicited' = unsolicited + 1
  /\ \/ \E p \in Packets :
          frame' = [type |-> "rx", id |-> 0, n |-> 0, packet |-> p]
     \/ \E status \in ModemStatuses :
          frame' = [type |-> "modem", id |-> status, n |-> 0,
                    packet |-> "none"]
  /\ Goto("handler", "attach")
  /\ UNCHANGED <<slotVars, queueVars, wire, air, reg, fre, disp, todo,
                 mainVars, fault>>

\* External: the line loses the answer to r.
LoseAnswer ==
  /\ fault = "none"
  /\ Loses
  /\ \E r \in air : air' = air \ {r}
  /\ UNCHANGED <<slotVars, queueVars, wire, unsolicited, pc, reg, fre, disp,
                 handlerVars, mainVars, fault>>

\* The frame becomes the replyFrame of the slot its id names, used or not; id 0
\* gets a slot of its own that is thrown away again.
Attach ==
  /\ At("handler", "attach")
  /\ IF frame.id \in Slots
     THEN comms' = [comms EXCEPT ![frame.id].replyFrame = TRUE]
     ELSE UNCHANGED comms
  /\ Goto("handler", "handle")
  /\ UNCHANGED <<bits, queueVars, radioVars, reg, fre, disp, handlerVars,
                 mainVars, fault>>

\* XBAPI_HandleFrameCallback reads the frame through the slot.
HandleFrame ==
  /\ At("handler", "handle")
  /\ frame.id \in Slots => comms[frame.id].replyFrame
  /\ \/ /\ frame.type = "rx"
        /\ todo' = Reaction(frame.packet)
        /\ Goto("handler", "register")
        /\ UNCHANGED comms
     \/ /\ frame.type = "at"
        /\ comms' = [comms EXCEPT ![frame.id].replyData = frame.n]
        /\ Goto("handler", "finish")
        /\ UNCHANGED todo
     \/ /\ frame.type \in {"txStatus", "modem"}
        /\ Goto("handler", "finish")
        /\ UNCHANGED <<comms, todo>>
  /\ UNCHANGED <<bits, queueVars, radioVars, reg, fre, disp, frame, mainVars,
                 fault>>

\* An AT response whose length says more than four bytes of data returns -1:
\* the slot is neither finished nor freed.
HandleGarbled ==
  /\ At("handler", "handle")
  /\ Garbles
  /\ frame.type = "at"
  /\ comms[frame.id].replyFrame
  /\ Goto("handler", "frame")
  /\ frame' = NoFrame
  /\ UNCHANGED <<slotVars, queueVars, radioVars, reg, fre, disp, todo,
                 mainVars, fault>>

\* main freed the slot, and the frame in it, since the handler attached it.
HandleFreed ==
  /\ At("handler", "handle")
  /\ frame.id \in Slots
  /\ ~comms[frame.id].replyFrame
  /\ Crash("null replyFrame")
  /\ UNCHANGED <<slotVars, queueVars, radioVars, pc, reg, fre, disp,
                 handlerVars, mainVars>>

\* HandlePacket returns once every request of the packet is registered.
PacketDone ==
  /\ At("handler", "register")
  /\ todo = <<>>
  /\ Goto("handler", "finish")
  /\ UNCHANGED <<slotVars, queueVars, radioVars, reg, fre, disp, handlerVars,
                 mainVars, fault>>

\* Mutant of Finish: finished is not set.
FinishForgotten ==
  /\ At("handler", "finish")
  /\ Goto("handler", IF frame.id \in Slots THEN "test" ELSE "frame")
  /\ frame' = IF frame.id \in Slots THEN frame ELSE NoFrame
  /\ UNCHANGED <<slotVars, queueVars, radioVars, reg, fre, disp, todo, mainVars,
                 fault>>

\* cbRet is 1: the slot the frame named is finished; a stub is thrown away.
Finish ==
  /\ At("handler", "finish")
  /\ IF frame.id \in Slots
     THEN /\ comms' = [comms EXCEPT ![frame.id].finished = 1]
          /\ Goto("handler", "test")
          /\ UNCHANGED frame
     ELSE /\ Goto("handler", "frame")
          /\ frame' = NoFrame
          /\ UNCHANGED comms
  /\ UNCHANGED <<bits, queueVars, radioVars, reg, fre, disp, todo, mainVars,
                 fault>>

\* Nobody waits and the slot was dispatched once: free the slot that origFrame
\* names.  Without an origFrame the slot stays claimed for ever.
TestFree ==
  LET s == comms[frame.id] IN
  /\ At("handler", "test")
  /\ \/ /\ s.waiting # 0 \/ s.id = 0 \/ s.origFrame = NULL
        /\ Goto("handler", "frame")
        /\ UNCHANGED <<fre, fault>>
     \/ /\ s.waiting = 0 /\ s.id # 0 /\ s.origFrame > 0
        /\ fre' = [fre EXCEPT !["handler"].slot = frame.id]
        /\ Goto("handler", "free")
        /\ UNCHANGED fault
     \/ \* a blank frame has id 0
        /\ s.waiting = 0 /\ s.id # 0 /\ s.origFrame = Blank
        /\ Crash("index -1")
        /\ UNCHANGED <<pc, fre>>
     \/ \* the id of a frame that is not filled in yet is any byte
        /\ s.waiting = 0 /\ s.id # 0 /\ s.origFrame = Raw
        /\ \E g \in 0..NumSlots :
             IF g = 0 THEN Crash("index -1") /\ UNCHANGED <<pc, fre>>
             ELSE /\ fre' = [fre EXCEPT !["handler"].slot = g]
                  /\ Goto("handler", "free")
                  /\ UNCHANGED fault
  /\ frame' = NoFrame
  /\ UNCHANGED <<slotVars, queueVars, radioVars, reg, disp, todo, mainVars>>

HandlerWork ==
  \/ ReadAnswer \/ Attach \/ HandleFrame \/ HandleGarbled
  \/ HandleFreed \/ PacketDone \/ Finish \/ TestFree
  \/ RegisterScan("handler") \/ RegisterClaim("handler") \/ HandlerPush
  \/ FreeGet("handler") \/ FreeFields("handler") \/ HandlerFreeBit

-----------------------------------------------------------------------------
(* The part of main that asks the radio for its address.                   *)

MainSlot == mainIds[mainStep]

\* waitCommStruct.  Id 0 names the memory before the table, which no slot is in ...
MainWait ==
  /\ At("main", "wait")
  /\ IF MainSlot = 0 THEN UNCHANGED comms
     ELSE comms' = [comms EXCEPT ![MainSlot].waiting = @ + 1]
  /\ Goto("main", "spin")
  /\ UNCHANGED <<bits, queueVars, radioVars, reg, fre, disp, handlerVars,
                 mainVars, fault>>

\* Mutant of MainSpin: the wait is for one nap only.
MainSpinOnce ==
  /\ At("main", "spin")
  /\ mainStep' = 3 - mainStep
  /\ Goto("main", IF mainStep = 1 THEN "wait" ELSE "get")
  /\ UNCHANGED <<slotVars, queueVars, radioVars, reg, fre, disp, handlerVars,
                 mainIds, mainRead, fault>>

\* ... and nobody ever sets finished there.
MainSpin ==
  /\ At("main", "spin")
  /\ MainSlot # 0 /\ comms[MainSlot].finished = 1
  /\ comms' = [comms EXCEPT ![MainSlot].waiting = @ - 1]
  /\ mainStep' = 3 - mainStep
  /\ Goto("main", IF mainStep = 1 THEN "wait" ELSE "get")
  /\ UNCHANGED <<bits, queueVars, radioVars, reg, fre, disp, handlerVars,
                 mainIds, mainRead, fault>>

\* getCommStruct for both ids; NULL goes through the next two lines.
MainGet ==
  /\ At("main", "get")
  /\ IF \A k \in {1, 2} : bits[mainIds[k]]
     THEN Goto("main", "read") /\ UNCHANGED fault
     ELSE Crash("null commStruct") /\ UNCHANGED pc
  /\ UNCHANGED <<slotVars, queueVars, radioVars, reg, fre, disp, handlerVars,
                 mainVars>>

MainData(k) == comms[mainIds[k]].replyData

MainReadData ==
  /\ At("main", "read")
  /\ IF \E k \in {1, 2} : MainData(k) = NULL
     THEN Crash("null replyData") /\ UNCHANGED <<pc, fre, mainRead>>
     ELSE /\ mainRead' = <<MainData(1), MainData(2)>>
          /\ fre' = [fre EXCEPT !["main"].slot = mainIds[1]]
          /\ Goto("main", "free")
          /\ UNCHANGED fault
  /\ UNCHANGED <<slotVars, queueVars, radioVars, reg, disp, handlerVars,
                 mainIds, mainStep>>

Main ==
  \/ RegisterScan("main") \/ RegisterClaim("main") \/ MainPush
  \/ MainWait \/ MainSpin \/ MainGet \/ MainReadData
  \/ FreeGet("main") \/ FreeFields("main") \/ MainFreeBit

-----------------------------------------------------------------------------
Next ==
  \/ Main \/ HandlerWork \/ Dispatcher
  \/ ReadUnsolicited \/ DoubleDelete \/ LoseAnswer

Spec == Init /\ [][Next]_vars

(***************************************************************************)
(* Each thread is scheduled by the kernel whenever it can run; the timed   *)
(* wait of the dispatcher ends by itself.  An answer that is not lost      *)
(* arrives, because the handler blocks in read until it does.  Frames that *)
(* answer nothing need not arrive.                                         *)
(***************************************************************************)
FairSpec ==
  /\ Spec
  /\ WF_vars(Main)
  /\ WF_vars(Dispatcher)
  /\ WF_vars(HandlerWork)

-----------------------------------------------------------------------------
(* Properties.                                                             *)

Queued == {queue[i] : i \in 1..Len(queue)}
BeingWritten ==
  IF pc["dispatcher"] \in {"cmdAlloc", "cmdFrame", "cmdWrite", "txWrite"}
  THEN {disp} ELSE {}

\* The slots of the requests that have not been answered to the end: in the
\* queue, in the dispatcher's hands, on air, or answered by the frame the
\* handler is working on.
Pending == Queued \cup BeingWritten \cup air
Answering == frame.n # 0

Channel == INSTANCE FrameChannel WITH accepted <- pushed

\* Frames go out in the order their requests entered the queue, each at most
\* once, whatever the slots suffer (registerRequest, dispatcher).
InOrderOnce == Channel!Spec

\* No NULL structure, frame or data is used and nothing is deleted twice
\* (freeCommStruct, handler, main).  The store before the table that a full
\* table causes in registerRequest is not counted: it stops nothing.
NoFault == fault = "none"

\* Two requests that still expect an answer never share a frame id: otherwise
\* the answer to one completes the other (registerRequest, freeCommStruct).
SlotExclusive ==
  /\ \A q, r \in Pending : q.id = r.id /\ q.id # 0 => q = r
  /\ Answering => \A r \in Pending : r.id # frame.id

\* The slot of a request that still expects an answer is claimed, so that the
\* next registerRequest passes it by.
PendingIsClaimed ==
  /\ \A r \in Pending : r.id # 0 => bits[r.id]
  /\ Answering => bits[frame.id]

\* A claimed slot is on its way: it belongs to a pending request, to the one
\* being answered, or to a caller inside registerRequest or freeCommStruct.  A
\* slot outside this list is never used again.
NoLeakedSlot ==
  \A s \in Slots : bits[s] =>
    \/ \E r \in Pending : r.id = s
    \/ Answering /\ frame.id = s
    \/ \E t \in Callers :
         \/ pc[t] = "push" /\ reg[t].slot = s
         \/ pc[t] \in {"free", "freeFields", "freeBit"} /\ fre[t].slot = s

\* What the handler frees is a filled-in frame's slot: "we need to check to see
\* if the argument is valid" (handler, before freeCommStruct).
FreeArgumentValid ==
  pc["handler"] = "test" /\ comms[frame.id].waiting = 0 /\ comms[frame.id].id # 0
    => comms[frame.id].origFrame \notin {Raw, Blank}

\* The frame that completes a request on air is the answer to it: "determine which
\* commStruct that this one replied to" (handler).
CompletesItsRequest ==
  pc["handler"] = "finish" /\ (\E r \in air : r.id = frame.id) => frame.n # 0

\* When waitCommStruct has returned for both ids, both slots are claimed and
\* hold the data main is about to read.
WaitedIsFilled ==
  pc["main"] \in {"get", "read"} =>
    \A k \in {1, 2} : bits[mainIds[k]] /\ MainData(k) # NULL

\* As long as the line loses and damages no answer, what main waits for is finished
\* or will be: every id main asked for is that of a finished slot, of a request that
\* is still on its way, or of the frame in the handler's hand, although the handler
\* may have freed the slot.  The exception is the id 0 of a request that found the
\* table full (waitCommStruct, handler, registerRequest).
Owed(s) == (\E r \in Pending : r.id = s) \/ (Answering /\ frame.id = s)

WaitIsOwed ==
  ~Loses /\ ~Garbles =>
    \A k \in 1..Len(mainIds) :
      \/ mainIds[k] = 0
      \/ comms[mainIds[k]].finished = 1
      \/ Owed(mainIds[k])

\* Main is in waitCommStruct with an id that names no slot.
WaitsForNobody == pc["main"] \in {"wait", "spin"} /\ MainSlot = 0

\* Once the table was full when main asked, its wait for that request never ends,
\* whatever the other threads do and however many slots come free
\* (registerRequest, waitCommStruct).
FullTableHangsMain == [][WaitsForNobody => WaitsForNobody']_vars

\* Every request that was pushed is taken off the queue, even if the signal that
\* announced it was lost (dispatcher, pthread_cond_timedwait).
QueuedIsDispatched ==
  \A n \in 1..MaxRequests :
    (pushed >= n) ~> (pushed - Len(queue) >= n \/ fault # "none")

\* If every answer arrives, a claimed slot is free again some time later.
SlotRecycled == \A s \in Slots : bits[s] ~> ~bits[s]

\* If every answer arrives, main gets past its two waits, unless the process dies or
\* a full table left it waiting for nobody.
MainProceeds == <>(pc["main"] = "done" \/ fault # "none" \/ WaitsForNobody)

=============================================================================
