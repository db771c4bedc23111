--------------------------- MODULE XBeeCommProofs ---------------------------
(***************************************************************************)
(* Theorems about XBeeComm, for any number of slots, any workload and any  *)
(* bound:                                                                  *)
(*   Typing          Spec => []TypeOK                                      *)
(*   FramesInOrder   Spec => InOrderOnce, the refinement of FrameChannel   *)
(*   WaitsAreOwed    Spec => []WaitIsOwed                                  *)
(*   FullTableHangs  Spec => FullTableHangsMain                            *)
(* and, while sensors only report (ReportsOnly),                           *)
(*   SlotsAreExclusive   Spec => []SlotExclusive                           *)
(*   SlotsStayClaimed    Spec => []PendingIsClaimed                        *)
(*   ReportsAreHarmless  Spec => []NoFault                                 *)
(* and, if no answer is lost or damaged either,                            *)
(*   NoSlotLeaks         Spec => []NoLeakedSlot                            *)
(***************************************************************************)
EXTENDS XBeeComm, SequenceTheorems, TLAPS

USE SlotAssumption, EnvAssumption DEF NULL, Raw, Blank, Slots, Callers, Kinds

-----------------------------------------------------------------------------
(* Typing.                                                                 *)

\* What the threads' positions say about their locals; TypeOK alone is not
\* inductive, because the code uses these locals as indices.
Control ==
  /\ frame.type = "rx" => frame.packet \in PacketTypes
  /\ fault = "none" /\ pc["handler"] = "test" => frame.id \in Slots
  /\ pc["handler"] \in {"claim", "push"} => todo # <<>>
  /\ pc["dispatcher"] = "pop" => queue # <<>>
  /\ pc["main"] \in {"register", "claim", "push"} => Len(mainIds) = mainStep - 1
  /\ pc["main"] \in {"wait", "spin", "get", "read", "free", "freeFields", "freeBit"}
       => Len(mainIds) = 2
  /\ pc["main"] \in {"wait", "spin"} /\ mainStep = 2 => mainIds[1] # 0
  /\ pc["main"] \in {"get", "read"} => mainIds[1] # 0 /\ mainIds[2] # 0

TypeInv == TypeOK /\ Control

LEMMA MainIdsType ==
  ASSUME mainIds \in Seq(0..NumSlots), Len(mainIds) = 2
  PROVE  mainIds[1] \in 0..NumSlots /\ mainIds[2] \in 0..NumSlots
<1>1. 1 \in 1..Len(mainIds) /\ 2 \in 1..Len(mainIds)
  OBVIOUS
<1> HIDE SlotAssumption
<1> DEFINE S == 0..NumSlots
<1>2. mainIds \in Seq(S)
  OBVIOUS
<1> HIDE DEF S
<1>3. mainIds[1] \in S /\ mainIds[2] \in S
  BY <1>1, <1>2, ElementOfSeq
<1> QED BY <1>3 DEF S

LEMMA SlotIsId == ASSUME NEW s \in Slots PROVE s \in 0..NumSlots
OBVIOUS

LEMMA IdIsSlot == ASSUME NEW i \in 0..NumSlots, i # 0 PROVE i \in Slots
OBVIOUS

LEMMA PairType == ASSUME NEW a \in Nat, NEW b \in Nat PROVE <<a, b>> \in Seq(Nat)
OBVIOUS

LEMMA NoRequestType == NoRequest \in Request
BY DEF NoRequest, Request

LEMMA NoFreeType == NoFree \in FreeCall
BY DEF NoFree, NoWord, FreeCall

LEMMA NoFrameType == NoFrame \in Frames /\ NoFrame.type # "rx"
BY DEF NoFrame, Frames

LEMMA ReactionType == ASSUME NEW p \in PacketTypes PROVE Reaction(p) \in Seq(Kinds)
<1>1. /\ <<>> \in Seq(Kinds) /\ <<"transmit">> \in Seq(Kinds)
      /\ <<"command">> \in Seq(Kinds) /\ <<"command", "transmit">> \in Seq(Kinds)
  OBVIOUS
<1> QED BY <1>1 DEF Reaction, HandlePacketRev0, HandlePacketRev1, PacketTypes

LEMMA StoreBitType ==
  ASSUME TypeOK, NEW old \in [Slots -> BOOLEAN], NEW s, NEW b \in BOOLEAN
  PROVE  StoreBit(old, s, b) \in [Slots -> BOOLEAN]
BY DEF TypeOK, StoreBit

\* Setting one field of a slot keeps the table a table of slots.
LEMMA OrigFrameType ==
  ASSUME comms \in [Slots -> Slot], NEW s, NEW v \in Nat \cup {Raw, Blank}
  PROVE  [comms EXCEPT ![s].origFrame = v] \in [Slots -> Slot]
<1>1. ASSUME s \in Slots PROVE [comms[s] EXCEPT !.origFrame = v] \in Slot
  BY <1>1 DEF Slot
<1> QED BY <1>1

LEMMA ReplyFrameType ==
  ASSUME comms \in [Slots -> Slot], NEW s, NEW v \in BOOLEAN
  PROVE  [comms EXCEPT ![s].replyFrame = v] \in [Slots -> Slot]
<1>1. ASSUME s \in Slots PROVE [comms[s] EXCEPT !.replyFrame = v] \in Slot
  BY <1>1 DEF Slot
<1> QED BY <1>1

LEMMA ReplyDataType ==
  ASSUME comms \in [Slots -> Slot], NEW s, NEW v \in Nat
  PROVE  [comms EXCEPT ![s].replyData = v] \in [Slots -> Slot]
<1>1. ASSUME s \in Slots PROVE [comms[s] EXCEPT !.replyData = v] \in Slot
  BY <1>1 DEF Slot
<1> QED BY <1>1

LEMMA IdType ==
  ASSUME comms \in [Slots -> Slot], NEW s, NEW v \in 0..NumSlots
  PROVE  [comms EXCEPT ![s].id = v] \in [Slots -> Slot]
<1>1. ASSUME s \in Slots PROVE [comms[s] EXCEPT !.id = v] \in Slot
  BY <1>1 DEF Slot
<1> QED BY <1>1

LEMMA FinishedType ==
  ASSUME comms \in [Slots -> Slot], NEW s, NEW v \in {0, 1}
  PROVE  [comms EXCEPT ![s].finished = v] \in [Slots -> Slot]
<1>1. ASSUME s \in Slots PROVE [comms[s] EXCEPT !.finished = v] \in Slot
  BY <1>1 DEF Slot
<1> QED BY <1>1

LEMMA WaitingType ==
  ASSUME comms \in [Slots -> Slot], NEW s, NEW v \in Int
  PROVE  [comms EXCEPT ![s].waiting = v] \in [Slots -> Slot]
<1>1. ASSUME s \in Slots PROVE [comms[s] EXCEPT !.waiting = v] \in Slot
  BY <1>1 DEF Slot
<1> QED BY <1>1

LEMMA ClearedType ==
  ASSUME comms \in [Slots -> Slot], NEW s
  PROVE  [comms EXCEPT ![s].replyData = NULL, ![s].origFrame = NULL,
                       ![s].replyFrame = FALSE] \in [Slots -> Slot]
<1> DEFINE c1 == [comms EXCEPT ![s].replyData = NULL]
           c2 == [c1 EXCEPT ![s].origFrame = NULL]
           c3 == [c2 EXCEPT ![s].replyFrame = FALSE]
<1>1. c1 \in [Slots -> Slot]
  BY ReplyDataType
<1>2. c2 \in [Slots -> Slot]
  <2> HIDE DEF c1
  <2>1. ASSUME s \in Slots PROVE [c1[s] EXCEPT !.origFrame = NULL] \in Slot
    BY <1>1, <2>1 DEF Slot
  <2> QED BY <1>1, <2>1
<1>3. c3 \in [Slots -> Slot]
  <2> HIDE DEF c2
  <2>1. ASSUME s \in Slots PROVE [c2[s] EXCEPT !.replyFrame = FALSE] \in Slot
    BY <1>2, <2>1 DEF Slot
  <2> QED BY <1>2, <2>1
<1> QED BY <1>3

\* Where the threads are after one of them moved.
LEMMA GotoCaller ==
  ASSUME pc \in PCs, NEW t \in Callers, NEW label \in MainPCs \cap HandlerPCs,
         Goto(t, label)
  PROVE  /\ pc' \in PCs
         /\ pc'[t] = label
         /\ t = "main" => pc'["handler"] = pc["handler"]
         /\ t = "handler" => pc'["main"] = pc["main"]
         /\ pc'["dispatcher"] = pc["dispatcher"]
BY DEF PCs, Goto

LEMMA GotoMain ==
  ASSUME pc \in PCs, NEW label \in MainPCs, Goto("main", label)
  PROVE  /\ pc' \in PCs
         /\ pc'["main"] = label
         /\ pc'["handler"] = pc["handler"]
         /\ pc'["dispatcher"] = pc["dispatcher"]
BY DEF PCs, Goto

LEMMA GotoHandler ==
  ASSUME pc \in PCs, NEW label \in HandlerPCs, Goto("handler", label)
  PROVE  /\ pc' \in PCs
         /\ pc'["handler"] = label
         /\ pc'["main"] = pc["main"]
         /\ pc'["dispatcher"] = pc["dispatcher"]
BY DEF PCs, Goto

LEMMA GotoDispatcher ==
  ASSUME pc \in PCs, NEW label \in DispatcherPCs, Goto("dispatcher", label)
  PROVE  /\ pc' \in PCs
         /\ pc'["dispatcher"] = label
         /\ pc'["main"] = pc["main"]
         /\ pc'["handler"] = pc["handler"]
BY DEF PCs, Goto

LEMMA InitType == Init => TypeInv
BY DEF Init, TypeInv, TypeOK, Control, NoWord, NoCall, NoFree, NoRequest,
       NoFrame, EmptySlot, Slot, Request, Frames, Faults, PCs, RegCall, FreeCall,
       MainPCs, HandlerPCs, DispatcherPCs

LEMMA ScanType ==
  ASSUME TypeInv, NEW t \in Callers, RegisterScan(t)
  PROVE  TypeInv'
<1> USE DEF TypeInv, RegisterScan, At
<1>1. reg' \in [Callers -> RegCall]
  BY DEF TypeOK, Wanted, RegCall
<1>2. pc' \in PCs /\ pc'[t] = "claim" /\ pc'["dispatcher"] = pc["dispatcher"]
     /\ (t = "main" => pc'["handler"] = pc["handler"])
     /\ (t = "handler" => pc'["main"] = pc["main"])
  BY GotoCaller DEF MainPCs, HandlerPCs, TypeOK
<1>3. TypeOK'
  BY <1>1, <1>2 DEF TypeOK, slotVars, queueVars, radioVars,
     handlerVars, mainVars
<1>4. Control'
  BY <1>1, <1>2 DEF TypeOK, Control, slotVars, queueVars, radioVars,
     handlerVars, mainVars
<1> QED BY <1>3, <1>4

LEMMA ClaimType ==
  ASSUME TypeInv, NEW t \in Callers, RegisterClaim(t)
  PROVE  TypeInv'
<1> USE DEF TypeInv, RegisterClaim, At
<1>1. reg' \in [Callers -> RegCall]
  BY DEF TypeOK, RegCall, NoWord
<1>2. bits' \in [Slots -> BOOLEAN]
  <2>1. reg[t].word \in [Slots -> BOOLEAN] /\ bits \in [Slots -> BOOLEAN]
    BY DEF TypeOK, RegCall
  <2>2. StoreBit(reg[t].word, reg[t].slot, TRUE) \in [Slots -> BOOLEAN]
    BY <2>1, StoreBitType
  <2> QED BY <2>1, <2>2 DEF slotVars
<1>3. comms' \in [Slots -> Slot]
  <2>1. comms \in [Slots -> Slot] /\ 0 \in Int
    BY DEF TypeOK
  <2>2. [comms EXCEPT ![reg[t].slot].waiting = 0] \in [Slots -> Slot]
    BY <2>1, WaitingType
  <2> QED BY <2>1, <2>2 DEF slotVars
<1>4. pc' \in PCs /\ pc'[t] = "push" /\ pc'["dispatcher"] = pc["dispatcher"]
     /\ (t = "main" => pc'["handler"] = pc["handler"])
     /\ (t = "handler" => pc'["main"] = pc["main"])
  BY GotoCaller DEF MainPCs, HandlerPCs, TypeOK
<1>5. TypeOK'
  BY <1>1, <1>2, <1>3, <1>4 DEF TypeOK, slotVars, queueVars, radioVars,
     handlerVars, mainVars
<1>6. Control'
  BY <1>1, <1>2, <1>3, <1>4 DEF TypeOK, Control, slotVars, queueVars, radioVars,
     handlerVars, mainVars
<1> QED BY <1>5, <1>6

LEMMA EnqueueType ==
  ASSUME TypeOK, NEW t \in Callers, Enqueue(t)
  PROVE  /\ queue' \in Seq(Request) /\ pushed' \in Nat
         /\ reg' \in [Callers -> RegCall] /\ queue' # <<>>
<1> DEFINE r == [n |-> pushed + 1, id |-> reg[t].slot, kind |-> reg[t].kind]
<1>1. r \in Request /\ pushed' \in Nat
  BY DEF TypeOK, Enqueue, Request, RegCall
<1>2. NoCall \in RegCall
  BY DEF NoCall, NoWord, RegCall
<1>3. reg' \in [Callers -> RegCall]
  BY <1>2 DEF TypeOK, Enqueue
<1>4. queue \in Seq(Request) /\ queue' = Append(queue, r)
  BY DEF TypeOK, Enqueue
<1> HIDE DEF r
<1>5. queue' \in Seq(Request) /\ queue' # <<>>
  BY <1>1, <1>4
<1> QED BY <1>1, <1>3, <1>5

LEMMA MainPushType ==
  ASSUME TypeInv, MainPush
  PROVE  TypeInv'
<1> USE DEF TypeInv, MainPush, At
<1>1. queue' \in Seq(Request) /\ pushed' \in Nat /\ reg' \in [Callers -> RegCall]
     /\ queue' # <<>>
  BY EnqueueType DEF TypeInv
<1>2. /\ mainIds' \in Seq(0..NumSlots) /\ Len(mainIds') = mainStep
      /\ mainStep' = 3 - mainStep /\ mainStep \in {1, 2} /\ mainStep' \in {1, 2}
  BY DEF TypeOK, Control, RegCall
<1>3. pc' \in PCs /\ pc'["main"] = (IF mainStep = 1 THEN "register" ELSE "wait")
     /\ pc'["handler"] = pc["handler"]
     /\ pc'["dispatcher"] \in {pc["dispatcher"], "check"}
  BY DEF TypeOK, PCs, Signalled, MainPCs, DispatcherPCs
<1>4. TypeOK'
  BY <1>1, <1>2, <1>3 DEF TypeOK, slotVars, queueVars, radioVars,
     handlerVars, mainVars
<1>5. Control'
  <2>1. CASE mainStep = 1
    BY <1>1, <1>2, <1>3, <2>1 DEF Control, slotVars, radioVars, handlerVars
  <2>2. CASE mainStep = 2
    BY <1>1, <1>2, <1>3, <2>2 DEF Control, slotVars, radioVars, handlerVars
  <2> QED BY <1>2, <2>1, <2>2
<1> QED BY <1>4, <1>5

LEMMA HandlerPushType ==
  ASSUME TypeInv, HandlerPush
  PROVE  TypeInv'
<1> USE DEF TypeInv, HandlerPush, At
<1>1. queue' \in Seq(Request) /\ pushed' \in Nat /\ reg' \in [Callers -> RegCall]
     /\ queue' # <<>>
  BY EnqueueType DEF TypeInv
<1>2. todo' \in Seq(Kinds)
  BY DEF TypeOK, Control
<1>3. pc' \in PCs /\ pc'["handler"] = "register" /\ pc'["main"] = pc["main"]
     /\ pc'["dispatcher"] \in {pc["dispatcher"], "check"}
  BY DEF TypeOK, PCs, Signalled, HandlerPCs, DispatcherPCs
<1>4. TypeOK'
  BY <1>1, <1>2, <1>3 DEF TypeOK, slotVars, queueVars, radioVars,
     handlerVars, mainVars
<1>5. Control'
  BY <1>1, <1>2, <1>3 DEF TypeOK, Control, slotVars, queueVars, radioVars,
     handlerVars, mainVars
<1> QED BY <1>4, <1>5

LEMMA FreeGetType ==
  ASSUME TypeInv, NEW t \in Callers, FreeGet(t)
  PROVE  TypeInv'
<1> USE DEF TypeInv, FreeGet, At
<1>1. pc' \in PCs /\ pc'["dispatcher"] = pc["dispatcher"] /\ pc'[t] \in {"free", "freeFields"}
     /\ (t = "main" => pc'["handler"] = pc["handler"])
     /\ (t = "handler" => pc'["main"] = pc["main"])
  BY GotoCaller DEF MainPCs, HandlerPCs, TypeOK
<1>2. fault' \in Faults
  BY DEF TypeOK, Faults, Crash
<1>3. TypeOK'
  BY <1>1, <1>2 DEF TypeOK, slotVars, queueVars, radioVars,
     handlerVars, mainVars
<1>4. Control'
  BY <1>1, <1>2 DEF TypeOK, Control, slotVars, queueVars, radioVars,
     handlerVars, mainVars
<1> QED BY <1>3, <1>4

LEMMA FreeFieldsType ==
  ASSUME TypeInv, NEW t \in Callers, FreeFields(t)
  PROVE  TypeInv'
<1> USE DEF TypeInv, FreeFields, At
<1>1. comms' \in [Slots -> Slot]
  BY ClearedType DEF TypeOK
<1>2. fre' \in [Callers -> FreeCall]
  BY DEF TypeOK, FreeCall
<1>3. pc' \in PCs /\ pc'[t] = "freeBit" /\ pc'["dispatcher"] = pc["dispatcher"]
     /\ (t = "main" => pc'["handler"] = pc["handler"])
     /\ (t = "handler" => pc'["main"] = pc["main"])
  BY GotoCaller DEF MainPCs, HandlerPCs, TypeOK
<1>4. TypeOK'
  BY <1>1, <1>2, <1>3 DEF TypeOK, slotVars, queueVars, radioVars,
     handlerVars, mainVars
<1>5. Control'
  BY <1>1, <1>2, <1>3 DEF TypeOK, Control, slotVars, queueVars, radioVars,
     handlerVars, mainVars
<1> QED BY <1>4, <1>5

LEMMA DoubleDeleteType ==
  ASSUME TypeInv, DoubleDelete
  PROVE  TypeInv'
<1> USE DEF TypeInv, DoubleDelete, At
<1>1. fault' \in Faults
  BY DEF Faults, Crash
<1>2. TypeOK'
  BY <1>1 DEF TypeOK, slotVars, queueVars, radioVars,
     handlerVars, mainVars
<1>3. Control'
  BY <1>1 DEF TypeOK, Control, slotVars, queueVars, radioVars,
     handlerVars, mainVars
<1> QED BY <1>2, <1>3

LEMMA HandlerFreeBitType ==
  ASSUME TypeInv, HandlerFreeBit
  PROVE  TypeInv'
<1> USE DEF TypeInv, HandlerFreeBit, At
<1>1. bits' \in [Slots -> BOOLEAN]
  BY StoreBitType DEF TypeOK, FreeBit, FreeCall
<1>2. fre' \in [Callers -> FreeCall]
  <2>1. fre \in [Callers -> FreeCall]
    BY DEF TypeOK
  <2> QED BY <2>1, NoFreeType
<1>3. pc' \in PCs /\ pc'["handler"] = "frame"
     /\ pc'["main"] = pc["main"] /\ pc'["dispatcher"] = pc["dispatcher"]
  BY GotoHandler DEF HandlerPCs, TypeOK
<1>4. TypeOK'
  BY <1>1, <1>2, <1>3 DEF TypeOK, slotVars, queueVars, radioVars,
     handlerVars, mainVars, FreeBit
<1>5. Control'
  BY <1>1, <1>2, <1>3 DEF TypeOK, Control, slotVars, queueVars, radioVars,
     handlerVars, mainVars, FreeBit
<1> QED BY <1>4, <1>5

LEMMA MainFreeBitType ==
  ASSUME TypeInv, MainFreeBit
  PROVE  TypeInv'
<1> USE DEF TypeInv, MainFreeBit, At
<1>1. bits' \in [Slots -> BOOLEAN]
  BY StoreBitType DEF TypeOK, FreeBit, FreeCall
<1>2. Len(mainIds) = 2 /\ mainIds \in Seq(0..NumSlots) /\ mainStep \in {1, 2}
  BY DEF TypeOK, Control, FreeBit
<1>3. fre' \in [Callers -> FreeCall]
  <2>1. [slot |-> mainIds[2], word |-> NoWord] \in FreeCall
    BY <1>2, MainIdsType DEF FreeCall, NoWord
  <2>2. fre \in [Callers -> FreeCall]
    BY DEF TypeOK
  <2> QED BY <2>1, <2>2, NoFreeType
<1>4. pc' \in PCs /\ pc'["main"] \in {"free", "done"}
     /\ pc'["handler"] = pc["handler"] /\ pc'["dispatcher"] = pc["dispatcher"]
  BY GotoMain DEF MainPCs, TypeOK
<1>5. TypeOK'
  <2>1. mainStep' \in {1, 2}
    BY <1>2
  <2> QED BY <1>1, <1>3, <1>4, <2>1 DEF TypeOK, queueVars, radioVars, FreeBit
<1>6. Control'
  BY <1>1, <1>2, <1>3, <1>4 DEF TypeOK, Control, slotVars, queueVars, radioVars,
     handlerVars, mainVars, FreeBit
<1> QED BY <1>5, <1>6

LEMMA DispatchCheckType ==
  ASSUME TypeInv, DispatchCheck
  PROVE  TypeInv'
<1> USE DEF TypeInv, DispatchCheck, At
<1>1. pc' \in PCs /\ pc'["dispatcher"] = (IF queue = <<>> THEN "arm" ELSE "pop")
     /\ pc'["main"] = pc["main"] /\ pc'["handler"] = pc["handler"]
  BY GotoDispatcher DEF DispatcherPCs, TypeOK
<1>2. TypeOK'
  BY <1>1 DEF TypeOK, slotVars, queueVars, radioVars,
     handlerVars, mainVars
<1>3. Control'
  BY <1>1 DEF TypeOK, Control, slotVars, queueVars, radioVars,
     handlerVars, mainVars
<1> QED BY <1>2, <1>3

LEMMA DispatchPopType ==
  ASSUME TypeInv, DispatchPop
  PROVE  TypeInv'
<1> USE DEF TypeInv, DispatchPop, At
<1>1. Head(queue) \in Request /\ queue' \in Seq(Request)
  BY DEF TypeOK, Control
<1>2. disp' \in Request
  BY <1>1 DEF TypeOK
<1>3. comms' \in [Slots -> Slot]
  <2>1. Head(queue).id \in 0..NumSlots /\ comms \in [Slots -> Slot]
    BY <1>1 DEF TypeOK, Request
  <2> QED BY <2>1, IdType
<1>4. pc' \in PCs /\ pc'["dispatcher"] \in {"check", "cmdAlloc", "txWrite"}
     /\ pc'["main"] = pc["main"] /\ pc'["handler"] = pc["handler"]
  BY GotoDispatcher DEF DispatcherPCs, TypeOK
<1>5. TypeOK'
  BY <1>1, <1>2, <1>3, <1>4 DEF TypeOK, slotVars, queueVars, radioVars,
     handlerVars, mainVars
<1>6. Control'
  BY <1>1, <1>2, <1>3, <1>4 DEF TypeOK, Control, slotVars, queueVars, radioVars,
     handlerVars, mainVars
<1> QED BY <1>5, <1>6

LEMMA CommandAllocType ==
  ASSUME TypeInv, CommandAlloc
  PROVE  TypeInv'
<1> USE DEF TypeInv, CommandAlloc, At
<1>1. comms' \in [Slots -> Slot]
  <2>1. comms \in [Slots -> Slot]
    BY DEF TypeOK
  <2> QED BY <2>1, OrigFrameType
<1>2. pc' \in PCs /\ pc'["dispatcher"] = "cmdFrame"
     /\ pc'["main"] = pc["main"] /\ pc'["handler"] = pc["handler"]
  BY GotoDispatcher DEF DispatcherPCs, TypeOK
<1>3. TypeOK'
  BY <1>1, <1>2 DEF TypeOK, slotVars, queueVars, radioVars, handlerVars, mainVars
<1>4. Control'
  BY <1>1, <1>2 DEF TypeOK, Control, slotVars, queueVars, radioVars,
     handlerVars, mainVars
<1> QED BY <1>3, <1>4

LEMMA CommandFrameType ==
  ASSUME TypeInv, CommandFrame
  PROVE  TypeInv'
<1> USE DEF TypeInv, CommandFrame, At
<1>1. disp.n \in Nat \cup {Raw, Blank}
  BY DEF TypeOK, Request
<1>2. comms' \in [Slots -> Slot]
  <2>1. comms \in [Slots -> Slot]
    BY DEF TypeOK
  <2>2. comms' = comms \/ comms' = [comms EXCEPT ![disp.id].origFrame = disp.n]
    OBVIOUS
  <2>3. [comms EXCEPT ![disp.id].origFrame = disp.n] \in [Slots -> Slot]
    BY <1>1, <2>1, OrigFrameType
  <2> QED BY <2>1, <2>2, <2>3
<1>3. pc' \in PCs /\ pc'["dispatcher"] \in {"cmdFrame", "cmdWrite"}
     /\ pc'["main"] = pc["main"] /\ pc'["handler"] = pc["handler"]
  BY GotoDispatcher DEF DispatcherPCs, TypeOK
<1>4. fault' \in Faults /\ (fault = "none" \/ fault' = fault)
  BY DEF TypeOK, Faults, Crash
<1>5. TypeOK'
  BY <1>2, <1>3, <1>4 DEF TypeOK, slotVars, queueVars, radioVars,
     handlerVars, mainVars
<1>6. Control'
  BY <1>2, <1>3, <1>4 DEF TypeOK, Control, slotVars, queueVars, radioVars,
     handlerVars, mainVars
<1> QED BY <1>5, <1>6

LEMMA WriteFrameType ==
  ASSUME TypeOK, WriteFrame
  PROVE  /\ wire' \in Seq(Nat) /\ air' \in SUBSET Request
         /\ unsolicited' = unsolicited
BY DEF TypeOK, WriteFrame, Request

LEMMA CommandWriteType ==
  ASSUME TypeInv, CommandWrite
  PROVE  TypeInv'
<1> USE DEF TypeInv, CommandWrite, At
<1>1. wire' \in Seq(Nat) /\ air' \in SUBSET Request /\ unsolicited' = unsolicited
  <2>1. CASE WriteFrame
    BY <2>1, WriteFrameType
  <2>2. CASE UNCHANGED radioVars
    BY <2>2 DEF TypeOK, radioVars
  <2> QED BY <2>1, <2>2
<1>2. disp' \in Request
  BY NoRequestType DEF TypeOK
<1>3. pc' \in PCs /\ pc'["dispatcher"] \in {"cmdWrite", "check"}
     /\ pc'["main"] = pc["main"] /\ pc'["handler"] = pc["handler"]
  BY GotoDispatcher DEF DispatcherPCs, TypeOK
<1>4. fault' \in Faults /\ (fault = "none" \/ fault' = fault)
  BY DEF TypeOK, Faults, Crash
<1>5. TypeOK'
  BY <1>1, <1>2, <1>3, <1>4 DEF TypeOK, slotVars, queueVars, radioVars,
     handlerVars, mainVars
<1>6. Control'
  BY <1>1, <1>2, <1>3, <1>4 DEF TypeOK, Control, slotVars, queueVars, radioVars,
     handlerVars, mainVars
<1> QED BY <1>5, <1>6

LEMMA TransmitWriteType ==
  ASSUME TypeInv, TransmitWrite
  PROVE  TypeInv'
<1> USE DEF TypeInv, TransmitWrite, At
<1>1. wire' \in Seq(Nat) /\ air' \in SUBSET Request /\ unsolicited' = unsolicited
  BY DEF TypeOK, WriteFrame, Request
<1>2. pc' \in PCs /\ pc'["dispatcher"] = "txAlloc"
     /\ pc'["main"] = pc["main"] /\ pc'["handler"] = pc["handler"]
  BY GotoDispatcher DEF DispatcherPCs, TypeOK
<1>3. TypeOK'
  BY <1>1, <1>2 DEF TypeOK, slotVars, queueVars, radioVars,
     handlerVars, mainVars
<1>4. Control'
  BY <1>1, <1>2 DEF TypeOK, Control, slotVars, queueVars, radioVars,
     handlerVars, mainVars
<1> QED BY <1>3, <1>4

LEMMA TransmitAllocType ==
  ASSUME TypeInv, TransmitAlloc
  PROVE  TypeInv'
<1> USE DEF TypeInv, TransmitAlloc, At
<1>1. comms' \in [Slots -> Slot]
  BY OrigFrameType DEF TypeOK
<1>2. pc' \in PCs /\ pc'["dispatcher"] = "txCopy"
     /\ pc'["main"] = pc["main"] /\ pc'["handler"] = pc["handler"]
  BY GotoDispatcher DEF DispatcherPCs, TypeOK
<1>3. TypeOK'
  BY <1>1, <1>2 DEF TypeOK, slotVars, queueVars, radioVars,
     handlerVars, mainVars
<1>4. Control'
  BY <1>1, <1>2 DEF TypeOK, Control, slotVars, queueVars, radioVars,
     handlerVars, mainVars
<1> QED BY <1>3, <1>4

LEMMA TransmitCopyType ==
  ASSUME TypeInv, TransmitCopy
  PROVE  TypeInv'
<1> USE DEF TypeInv, TransmitCopy, At
<1>1. disp.n \in Nat \cup {Raw, Blank}
  BY DEF TypeOK, Request
<1>2. comms' \in [Slots -> Slot]
  <2>1. comms \in [Slots -> Slot]
    BY DEF TypeOK
  <2>2. [comms EXCEPT ![disp.id].origFrame = disp.n] \in [Slots -> Slot]
    BY <1>1, <2>1, OrigFrameType
  <2> QED BY <2>1, <2>2
<1>3. disp' \in Request
  BY NoRequestType DEF TypeOK
<1>4. fault' \in Faults
  BY DEF TypeOK, Faults, Crash
<1>5. pc' \in PCs /\ pc'["dispatcher"] \in {"check", "txCopy"}
     /\ pc'["main"] = pc["main"] /\ pc'["handler"] = pc["handler"]
  BY GotoDispatcher DEF DispatcherPCs, TypeOK
<1>6. TypeOK'
  BY <1>1, <1>2, <1>3, <1>4, <1>5 DEF TypeOK, slotVars, queueVars, radioVars,
     handlerVars, mainVars
<1>7. Control'
  BY <1>1, <1>2, <1>3, <1>4, <1>5 DEF TypeOK, Control, slotVars, queueVars, radioVars,
     handlerVars, mainVars
<1> QED BY <1>6, <1>7

LEMMA DispatchArmType ==
  ASSUME TypeInv, DispatchArm
  PROVE  TypeInv'
<1> USE DEF TypeInv, DispatchArm, At
<1>1. pc' \in PCs /\ pc'["dispatcher"] = "waiting"
     /\ pc'["main"] = pc["main"] /\ pc'["handler"] = pc["handler"]
  BY GotoDispatcher DEF DispatcherPCs, TypeOK
<1>2. TypeOK'
  BY <1>1 DEF TypeOK, slotVars, queueVars, radioVars,
     handlerVars, mainVars
<1>3. Control'
  BY <1>1 DEF TypeOK, Control, slotVars, queueVars, radioVars,
     handlerVars, mainVars
<1> QED BY <1>2, <1>3

LEMMA DispatchTimeoutType ==
  ASSUME TypeInv, DispatchTimeout
  PROVE  TypeInv'
<1> USE DEF TypeInv, DispatchTimeout, At
<1>1. pc' \in PCs /\ pc'["dispatcher"] = "check"
     /\ pc'["main"] = pc["main"] /\ pc'["handler"] = pc["handler"]
  BY GotoDispatcher DEF DispatcherPCs, TypeOK
<1>2. TypeOK'
  BY <1>1 DEF TypeOK, slotVars, queueVars, radioVars,
     handlerVars, mainVars
<1>3. Control'
  BY <1>1 DEF TypeOK, Control, slotVars, queueVars, radioVars,
     handlerVars, mainVars
<1> QED BY <1>2, <1>3

LEMMA ReadAnswerType ==
  ASSUME TypeInv, ReadAnswer
  PROVE  TypeInv'
<1> USE DEF TypeInv, ReadAnswer, At
<1>1. air' \in SUBSET Request /\ frame' \in Frames /\ frame'.type # "rx"
  BY DEF TypeOK, Request, Frames, AnswerType
<1>2. pc' \in PCs /\ pc'["handler"] = "attach"
     /\ pc'["main"] = pc["main"] /\ pc'["dispatcher"] = pc["dispatcher"]
  BY GotoHandler DEF HandlerPCs, TypeOK
<1>3. TypeOK'
  BY <1>1, <1>2 DEF TypeOK, slotVars, queueVars, radioVars,
     handlerVars, mainVars
<1>4. Control'
  BY <1>1, <1>2 DEF TypeOK, Control, slotVars, queueVars, radioVars,
     handlerVars, mainVars
<1> QED BY <1>3, <1>4

LEMMA ReadUnsolicitedType ==
  ASSUME TypeInv, ReadUnsolicited
  PROVE  TypeInv'
<1> USE DEF TypeInv, ReadUnsolicited, At
<1>1. unsolicited' \in Nat
  BY DEF TypeOK
<1>2. frame' \in Frames /\ (frame'.type = "rx" => frame'.packet \in PacketTypes)
  BY DEF Frames
<1>3. pc' \in PCs /\ pc'["handler"] = "attach"
     /\ pc'["main"] = pc["main"] /\ pc'["dispatcher"] = pc["dispatcher"]
  BY GotoHandler DEF HandlerPCs, TypeOK
<1>4. TypeOK'
  BY <1>1, <1>2, <1>3 DEF TypeOK, slotVars, queueVars, radioVars,
     handlerVars, mainVars
<1>5. Control'
  BY <1>1, <1>2, <1>3 DEF TypeOK, Control, slotVars, queueVars, radioVars,
     handlerVars, mainVars
<1> QED BY <1>4, <1>5

LEMMA LoseAnswerType ==
  ASSUME TypeInv, LoseAnswer
  PROVE  TypeInv'
<1> USE DEF TypeInv, LoseAnswer, At
<1>1. air' \in SUBSET Request
  BY DEF TypeOK
<1>2. TypeOK'
  BY <1>1 DEF TypeOK, slotVars, queueVars, radioVars,
     handlerVars, mainVars
<1>3. Control'
  BY <1>1 DEF TypeOK, Control, slotVars, queueVars, radioVars,
     handlerVars, mainVars
<1> QED BY <1>2, <1>3

LEMMA AttachType ==
  ASSUME TypeInv, Attach
  PROVE  TypeInv'
<1> USE DEF TypeInv, Attach, At
<1>1. comms' \in [Slots -> Slot]
  <2>1. comms \in [Slots -> Slot] /\ TRUE \in BOOLEAN
    BY DEF TypeOK
  <2>2. [comms EXCEPT ![frame.id].replyFrame = TRUE] \in [Slots -> Slot]
    BY <2>1, ReplyFrameType
  <2> QED BY <2>1, <2>2
<1>2. pc' \in PCs /\ pc'["handler"] = "handle"
     /\ pc'["main"] = pc["main"] /\ pc'["dispatcher"] = pc["dispatcher"]
  BY GotoHandler DEF HandlerPCs, TypeOK
<1>3. TypeOK'
  BY <1>1, <1>2 DEF TypeOK, slotVars, queueVars, radioVars,
     handlerVars, mainVars
<1>4. Control'
  BY <1>1, <1>2 DEF TypeOK, Control, slotVars, queueVars, radioVars,
     handlerVars, mainVars
<1> QED BY <1>3, <1>4

LEMMA HandleFrameType ==
  ASSUME TypeInv, HandleFrame
  PROVE  TypeInv'
<1> USE DEF TypeInv, HandleFrame, At
<1>1. frame.n \in Nat /\ frame.packet \in PacketTypes \cup {"none"}
  BY DEF TypeOK, Frames
<1>2. comms' \in [Slots -> Slot]
  BY <1>1, ReplyDataType DEF TypeOK
<1>3. todo' \in Seq(Kinds)
  <2>1. todo \in Seq(Kinds) /\ frame \in Frames
    BY DEF TypeOK
  <2>3. frame.type = "rx" => frame.packet \in PacketTypes
    BY DEF Control
  <2> QED BY <2>1, <2>3, ReactionType
<1>4. pc' \in PCs /\ pc'["handler"] \in {"register", "finish"}
     /\ pc'["main"] = pc["main"] /\ pc'["dispatcher"] = pc["dispatcher"]
  BY GotoHandler DEF HandlerPCs, TypeOK
<1>5. TypeOK'
  BY <1>1, <1>2, <1>3, <1>4 DEF TypeOK, slotVars, queueVars, radioVars,
     handlerVars, mainVars
<1>6. Control'
  BY <1>1, <1>2, <1>3, <1>4 DEF TypeOK, Control, slotVars, queueVars, radioVars,
     handlerVars, mainVars
<1> QED BY <1>5, <1>6

LEMMA HandleGarbledType ==
  ASSUME TypeInv, HandleGarbled
  PROVE  TypeInv'
<1> USE DEF TypeInv, HandleGarbled, At
<1>1. frame' \in Frames /\ frame'.type # "rx"
  BY NoFrameType
<1>2. pc' \in PCs /\ pc'["handler"] = "frame"
     /\ pc'["main"] = pc["main"] /\ pc'["dispatcher"] = pc["dispatcher"]
  BY GotoHandler DEF HandlerPCs, TypeOK
<1>3. TypeOK'
  BY <1>1, <1>2 DEF TypeOK, slotVars, queueVars, radioVars,
     handlerVars, mainVars
<1>4. Control'
  BY <1>1, <1>2 DEF TypeOK, Control, slotVars, queueVars, radioVars,
     handlerVars, mainVars
<1> QED BY <1>3, <1>4

LEMMA HandleFreedType ==
  ASSUME TypeInv, HandleFreed
  PROVE  TypeInv'
<1> USE DEF TypeInv, HandleFreed, At
<1>1. fault' \in Faults
  BY DEF Faults, Crash
<1>2. TypeOK'
  BY <1>1 DEF TypeOK, slotVars, queueVars, radioVars,
     handlerVars, mainVars
<1>3. Control'
  BY <1>1 DEF TypeOK, Control, slotVars, queueVars, radioVars,
     handlerVars, mainVars
<1> QED BY <1>2, <1>3

LEMMA PacketDoneType ==
  ASSUME TypeInv, PacketDone
  PROVE  TypeInv'
<1> USE DEF TypeInv, PacketDone, At
<1>1. pc' \in PCs /\ pc'["handler"] = "finish"
     /\ pc'["main"] = pc["main"] /\ pc'["dispatcher"] = pc["dispatcher"]
  BY GotoHandler DEF HandlerPCs, TypeOK
<1>2. TypeOK'
  BY <1>1 DEF TypeOK, slotVars, queueVars, radioVars,
     handlerVars, mainVars
<1>3. Control'
  BY <1>1 DEF TypeOK, Control, slotVars, queueVars, radioVars,
     handlerVars, mainVars
<1> QED BY <1>2, <1>3

LEMMA FinishType ==
  ASSUME TypeInv, Finish
  PROVE  TypeInv'
<1> USE DEF TypeInv, Finish, At
<1>1. frame' \in Frames /\ (frame' = frame \/ frame'.type # "rx")
  BY NoFrameType DEF TypeOK
<1>2. comms' \in [Slots -> Slot]
  BY FinishedType DEF TypeOK
<1>3. pc' \in PCs /\ pc'["handler"] \in {"frame", "test"}
     /\ (pc'["handler"] = "test" => frame.id \in Slots /\ frame' = frame)
     /\ pc'["main"] = pc["main"] /\ pc'["dispatcher"] = pc["dispatcher"]
  BY GotoHandler DEF HandlerPCs, TypeOK
<1>4. TypeOK'
  BY <1>1, <1>2, <1>3 DEF TypeOK, slotVars, queueVars, radioVars,
     handlerVars, mainVars
<1>5. Control'
  BY <1>1, <1>2, <1>3 DEF TypeOK, Control, slotVars, queueVars, radioVars,
     handlerVars, mainVars
<1> QED BY <1>4, <1>5

LEMMA TestFreeType ==
  ASSUME TypeInv, TestFree
  PROVE  TypeInv'
<1> USE DEF TypeInv, TestFree, At
<1>1. frame' \in Frames /\ frame'.type = "none"
  BY DEF Frames, NoFrame
<1>2. frame.id \in Slots /\ fre \in [Callers -> FreeCall]
  BY DEF TypeOK, Control
<1>3. /\ pc' \in PCs /\ pc'["handler"] \in {"frame", "test", "free"}
      /\ pc'["handler"] = "test" => fault' # "none"
      /\ pc'["main"] = pc["main"] /\ pc'["dispatcher"] = pc["dispatcher"]
  BY GotoHandler DEF HandlerPCs, TypeOK, Crash
<1>4. fre' \in [Callers -> FreeCall]
  <2>1. ASSUME NEW g \in 0..NumSlots
        PROVE  [fre EXCEPT !["handler"].slot = g] \in [Callers -> FreeCall]
    BY <1>2 DEF FreeCall
  <2>2. \/ fre' = fre
        \/ fre' = [fre EXCEPT !["handler"].slot = frame.id]
        \/ \E g \in 0..NumSlots :
             fre' = fre \/ fre' = [fre EXCEPT !["handler"].slot = g]
    OBVIOUS
  <2>3. frame.id \in 0..NumSlots
    BY <1>2, SlotIsId
  <2> QED BY <1>2, <2>1, <2>2, <2>3
<1>5. fault' \in Faults
  BY DEF TypeOK, Faults, Crash
<1>6. TypeOK'
  BY <1>1, <1>3, <1>4, <1>5 DEF TypeOK, slotVars, queueVars, radioVars,
     handlerVars, mainVars
<1>7. Control'
  BY <1>1, <1>3, <1>5 DEF TypeOK, Control, slotVars, queueVars, radioVars,
     handlerVars, mainVars
<1> QED BY <1>6, <1>7

LEMMA MainWaitType ==
  ASSUME TypeInv, MainWait
  PROVE  TypeInv'
<1> USE DEF TypeInv, MainWait, At
<1>0. MainSlot \in 0..NumSlots
  <2>1. mainIds \in Seq(0..NumSlots) /\ Len(mainIds) = 2 /\ mainStep \in {1, 2}
    BY DEF TypeOK, Control
  <2> QED BY <2>1, MainIdsType DEF MainSlot
<1>1. comms' \in [Slots -> Slot]
  <2>1. comms \in [Slots -> Slot]
    BY DEF TypeOK
  <2>2. CASE MainSlot = 0
    BY <2>1, <2>2
  <2>3. CASE MainSlot # 0
    <3>1. comms[MainSlot].waiting + 1 \in Int
      BY <1>0, <2>1, <2>3 DEF Slot
    <3>2. comms' = [comms EXCEPT ![MainSlot].waiting = comms[MainSlot].waiting + 1]
      BY <2>3
    <3> QED BY <2>1, <3>1, <3>2, WaitingType
  <2> QED BY <2>2, <2>3
<1>2. fault' = fault
  OBVIOUS
<1>3. pc' \in PCs /\ pc'["main"] = "spin"
     /\ pc'["handler"] = pc["handler"] /\ pc'["dispatcher"] = pc["dispatcher"]
  BY GotoMain DEF MainPCs, TypeOK
<1>4. TypeOK'
  BY <1>1, <1>2, <1>3 DEF TypeOK, slotVars, queueVars, radioVars,
     handlerVars, mainVars
<1>5. Control'
  <2>1. mainStep \in {1, 2} /\ mainIds' = mainIds /\ frame' = frame /\ todo' = todo
        /\ queue' = queue /\ Len(mainIds) = 2
    BY DEF TypeOK, Control, mainVars, handlerVars, queueVars
  <2>2. mainStep = 2 => mainIds[1] # 0
    BY DEF Control
  <2> QED BY <1>2, <1>3, <2>1, <2>2 DEF Control, mainVars
<1> QED BY <1>4, <1>5

LEMMA MainSpinType ==
  ASSUME TypeInv, MainSpin
  PROVE  TypeInv'
<1> USE DEF TypeInv, MainSpin, At
<1>0. MainSlot \in 0..NumSlots
  <2>1. mainIds \in Seq(0..NumSlots) /\ Len(mainIds) = 2 /\ mainStep \in {1, 2}
    BY DEF TypeOK, Control
  <2> QED BY <2>1, MainIdsType DEF MainSlot
<1>1. comms' \in [Slots -> Slot]
  <2>1. comms \in [Slots -> Slot]
    BY DEF TypeOK
  <2>2. comms[MainSlot].waiting - 1 \in Int
    BY <1>0, <2>1 DEF Slot
  <2>3. comms' = [comms EXCEPT ![MainSlot].waiting = comms[MainSlot].waiting - 1]
    OBVIOUS
  <2> QED BY <2>1, <2>2, <2>3, WaitingType
<1>2. mainStep' \in {1, 2}
  BY DEF TypeOK
<1>3. pc' \in PCs /\ pc'["main"] = (IF mainStep = 1 THEN "wait" ELSE "get")
     /\ pc'["handler"] = pc["handler"] /\ pc'["dispatcher"] = pc["dispatcher"]
  BY GotoMain DEF MainPCs, TypeOK
<1>4. TypeOK'
  BY <1>1, <1>2, <1>3 DEF TypeOK, slotVars, queueVars, radioVars,
     handlerVars, mainVars
<1>5. Control'
  <2>1. mainStep \in {1, 2} /\ mainIds' = mainIds /\ frame' = frame /\ todo' = todo
        /\ queue' = queue /\ Len(mainIds) = 2
    BY DEF TypeOK, Control, mainVars, handlerVars, queueVars
  <2>2. (mainStep = 2 => mainIds[1] # 0) /\ mainIds[mainStep] # 0
    BY DEF Control, MainSlot
  <2>3. CASE mainStep = 1
    BY <1>3, <2>1, <2>2, <2>3 DEF Control, mainVars
  <2>4. CASE mainStep = 2
    BY <1>3, <2>1, <2>2, <2>4 DEF Control, mainVars
  <2> QED BY <2>1, <2>3, <2>4
<1> QED BY <1>4, <1>5

LEMMA MainGetType ==
  ASSUME TypeInv, MainGet
  PROVE  TypeInv'
<1> USE DEF TypeInv, MainGet, At
<1>1. fault' \in Faults
  BY DEF TypeOK, Faults, Crash
<1>2. pc' \in PCs /\ pc'["main"] \in {"get", "read"}
     /\ pc'["handler"] = pc["handler"] /\ pc'["dispatcher"] = pc["dispatcher"]
  BY GotoMain DEF MainPCs, TypeOK
<1>3. TypeOK'
  BY <1>1, <1>2 DEF TypeOK, slotVars, queueVars, radioVars,
     handlerVars, mainVars
<1>4. Control'
  BY <1>1, <1>2 DEF TypeOK, Control, slotVars, queueVars, radioVars,
     handlerVars, mainVars
<1> QED BY <1>3, <1>4

LEMMA MainReadDataType ==
  ASSUME TypeInv, MainReadData
  PROVE  TypeInv'
<1> USE DEF TypeInv, MainReadData, At
<1>1. Len(mainIds) = 2 /\ mainIds \in Seq(0..NumSlots)
  BY DEF TypeOK, Control
<1>2. fre' \in [Callers -> FreeCall]
  <2>1. mainIds[1] \in 0..NumSlots /\ fre \in [Callers -> FreeCall]
    BY <1>1, MainIdsType DEF TypeOK
  <2>2. [fre EXCEPT !["main"].slot = mainIds[1]] \in [Callers -> FreeCall]
    BY <2>1 DEF FreeCall
  <2> QED BY <2>1, <2>2
<1>3. mainRead' \in Seq(Nat)
  <2>1. ASSUME NEW k \in {1, 2}, mainIds[k] \in Slots PROVE MainData(k) \in Nat
    BY <2>1 DEF MainData, TypeOK, Slot
  <2>2. mainIds[1] \in Slots /\ mainIds[2] \in Slots
    <3>1. mainIds[1] # 0 /\ mainIds[2] # 0
      BY DEF Control
    <3> QED BY <1>1, <3>1, MainIdsType, IdIsSlot
  <2>3. mainRead \in Seq(Nat)
    BY DEF TypeOK
  <2>4. MainData(1) \in Nat /\ MainData(2) \in Nat
    BY <2>1, <2>2
  <2>5. <<MainData(1), MainData(2)>> \in Seq(Nat)
    BY <2>4, PairType
  <2> QED BY <2>3, <2>5
<1>4. fault' \in Faults
  BY DEF TypeOK, Faults, Crash
<1>5. pc' \in PCs /\ pc'["main"] \in {"read", "free"}
     /\ pc'["handler"] = pc["handler"] /\ pc'["dispatcher"] = pc["dispatcher"]
  BY GotoMain DEF MainPCs, TypeOK
<1>6. TypeOK'
  BY <1>1, <1>2, <1>3, <1>4, <1>5 DEF TypeOK, slotVars, queueVars, radioVars,
     handlerVars, mainVars
<1>7. Control'
  BY <1>1, <1>2, <1>3, <1>4, <1>5 DEF TypeOK, Control, slotVars, queueVars, radioVars,
     handlerVars, mainVars
<1> QED BY <1>6, <1>7

LEMMA UnchangedType == ASSUME TypeInv, UNCHANGED vars PROVE TypeInv'
BY DEF TypeInv, TypeOK, Control, vars

LEMMA StepType == TypeInv /\ [Next]_vars => TypeInv'
<1> SUFFICES ASSUME TypeInv, [Next]_vars PROVE TypeInv'
  OBVIOUS
<1>1. CASE Main
  BY <1>1, ScanType, ClaimType, MainPushType, MainWaitType, MainSpinType,
     MainGetType, MainReadDataType, FreeGetType, FreeFieldsType,
     MainFreeBitType DEF Main, Callers
<1>2. CASE HandlerWork
  BY <1>2, ReadAnswerType, AttachType, HandleFrameType, HandleGarbledType,
     HandleFreedType, PacketDoneType, FinishType, TestFreeType, ScanType,
     ClaimType, HandlerPushType, FreeGetType, FreeFieldsType,
     HandlerFreeBitType DEF HandlerWork, Callers
<1>3. CASE Dispatcher
  BY <1>3, DispatchCheckType, DispatchPopType, CommandAllocType, CommandFrameType,
     CommandWriteType, TransmitWriteType, TransmitAllocType,
     TransmitCopyType, DispatchArmType, DispatchTimeoutType DEF Dispatcher,
     Callers
<1>4. CASE ReadUnsolicited \/ DoubleDelete \/ LoseAnswer
  BY <1>4, ReadUnsolicitedType, DoubleDeleteType, LoseAnswerType
<1>5. CASE UNCHANGED vars
  BY <1>5, UnchangedType
<1> QED BY <1>1, <1>2, <1>3, <1>4, <1>5 DEF Next

\* Every variable keeps its type and every thread its local discipline in every
\* execution, faulty ones included.
THEOREM TypingInductive == Spec => []TypeInv
<1>1. Init => TypeInv
  BY InitType
<1>2. TypeInv /\ [Next]_vars => TypeInv'
  BY StepType
<1> QED BY <1>1, <1>2, PTL DEF Spec

\* The type invariant the runs check, for every value of the constants.
THEOREM Typing == Spec => []TypeOK
<1>1. TypeInv => TypeOK
  BY DEF TypeInv
<1> QED BY <1>1, TypingInductive, PTL

-----------------------------------------------------------------------------
(* The order of frames.                                                    *)

Writing == pc["dispatcher"] \in {"cmdAlloc", "cmdFrame", "cmdWrite", "txWrite"}

\* The queue holds the last requests pushed, in order; whatever was written came
\* before them, and before the request the dispatcher is about to write.
Order ==
  /\ Len(queue) <= pushed
  /\ \A i \in 1..Len(queue) : queue[i].n = pushed - Len(queue) + i
  /\ \A i \in 1..Len(wire) : wire[i] <= pushed - Len(queue)
  /\ Writing => /\ 1 <= disp.n /\ disp.n <= pushed - Len(queue)
                /\ \A i \in 1..Len(wire) : wire[i] < disp.n

\* A step that touches neither the queue nor the wire, and starts no write.
Quiet ==
  /\ queue' = queue /\ pushed' = pushed /\ wire' = wire
  /\ Writing' => Writing /\ disp' = disp

LEMMA QuietOrder == ASSUME Order, Quiet PROVE Order'
BY DEF Order, Quiet

LEMMA EnqueueOrder ==
  ASSUME TypeInv, Order, NEW t \in Callers, Enqueue(t), wire' = wire, disp' = disp,
         Writing' => Writing
  PROVE  Order' /\ Channel!Accept
<1> DEFINE r == [n |-> pushed + 1, id |-> reg[t].slot, kind |-> reg[t].kind]
<1>1. /\ queue \in Seq(Request) /\ pushed \in Nat /\ pushed' = pushed + 1
      /\ wire \in Seq(Nat) /\ queue' = Append(queue, r) /\ disp \in Request
  BY DEF TypeInv, TypeOK, Enqueue
<1>2. r.n = pushed + 1
  OBVIOUS
<1> HIDE DEF r
<1>3. Len(queue') = Len(queue) + 1 /\ pushed' - Len(queue') = pushed - Len(queue)
  BY <1>1
<1>4. ASSUME NEW i \in 1..Len(queue') PROVE queue'[i].n = pushed' - Len(queue') + i
  <2>1. CASE i = Len(queue) + 1
    BY <1>1, <1>2, <1>3, <2>1
  <2>2. CASE i \in 1..Len(queue)
    <3>1. queue'[i] = queue[i]
      BY <1>1, <2>2
    <3> QED BY <1>3, <2>2, <3>1 DEF Order
  <2> QED BY <1>1, <1>3, <2>1, <2>2
<1>5. Order'
  BY <1>1, <1>3, <1>4 DEF Order
<1>6. Channel!Accept
  BY <1>1 DEF Channel!Accept
<1> QED BY <1>5, <1>6

LEMMA PopOrder == ASSUME TypeInv, Order, DispatchPop PROVE Order'
<1>1. /\ queue \in Seq(Request) /\ queue # <<>> /\ pushed \in Nat
      /\ wire \in Seq(Nat) /\ queue' = Tail(queue) /\ disp \in Request
      /\ pushed' = pushed /\ wire' = wire
  BY DEF TypeInv, TypeOK, Control, DispatchPop, At, radioVars
<1>2. Len(queue') = Len(queue) - 1 /\ Len(queue) > 0
  BY <1>1
<1>3. \A i \in 1..Len(queue') : queue'[i] = queue[i + 1]
  BY <1>1, <1>2
<1>4. \A i \in 1..Len(queue') : queue'[i].n = pushed' - Len(queue') + i
  BY <1>1, <1>2, <1>3 DEF Order
<1>5. \A i \in 1..Len(wire') : wire'[i] <= pushed' - Len(queue')
  BY <1>1, <1>2 DEF Order
<1>6. Head(queue).n = pushed - Len(queue) + 1
  BY <1>1, <1>2 DEF Order
<1>7. Writing' => disp' = Head(queue)
  <2>1. Head(queue).id = 0 => ~Writing'
    BY DEF DispatchPop, Goto, Writing, TypeInv, TypeOK, PCs
  <2> QED BY <2>1 DEF DispatchPop
<1>8. Writing' => /\ 1 <= disp'.n /\ disp'.n <= pushed' - Len(queue')
                  /\ \A i \in 1..Len(wire') : wire'[i] < disp'.n
  BY <1>1, <1>2, <1>6, <1>7 DEF Order
<1> QED BY <1>1, <1>2, <1>4, <1>5, <1>8 DEF Order

LEMMA WriteOrder ==
  ASSUME TypeInv, Order, Writing, WriteFrame, UNCHANGED queueVars, ~Writing'
  PROVE  Order' /\ Channel!Send
<1>1. /\ wire \in Seq(Nat) /\ disp.n \in Nat /\ wire' = Append(wire, disp.n)
      /\ queue' = queue /\ pushed' = pushed /\ pushed \in Nat
      /\ queue \in Seq(Request)
  BY DEF TypeInv, TypeOK, Request, WriteFrame, queueVars
<1>2. /\ 1 <= disp.n /\ disp.n <= pushed - Len(queue)
      /\ \A i \in 1..Len(wire) : wire[i] < disp.n
  BY DEF Order
<1>3. ASSUME NEW i \in 1..Len(wire') PROVE wire'[i] <= pushed' - Len(queue')
  <2>1. CASE i = Len(wire) + 1
    BY <1>1, <1>2, <2>1
  <2>2. CASE i \in 1..Len(wire)
    BY <1>1, <2>2 DEF Order
  <2> QED BY <1>1, <2>1, <2>2
<1>4. Order'
  BY <1>1, <1>3 DEF Order
<1>5. disp.n \in 1..pushed
  BY <1>1, <1>2
<1>6. Channel!Send
  BY <1>1, <1>2, <1>5 DEF Channel!Send
<1> QED BY <1>4, <1>6

LEMMA MainPushOrder == ASSUME TypeInv, Order, MainPush PROVE Order' /\ Channel!Next
<1>1. Writing' => Writing
  BY DEF TypeInv, TypeOK, PCs, MainPush, Signalled, Writing
<1>2. Enqueue("main") /\ wire' = wire /\ disp' = disp
  BY DEF MainPush, radioVars
<1> QED BY <1>1, <1>2, EnqueueOrder DEF Callers, Channel!Next

LEMMA HandlerPushOrder ==
  ASSUME TypeInv, Order, HandlerPush PROVE Order' /\ Channel!Next
<1>1. Writing' => Writing
  BY DEF TypeInv, TypeOK, PCs, HandlerPush, Signalled, Writing
<1>2. Enqueue("handler") /\ wire' = wire /\ disp' = disp
  BY DEF HandlerPush, radioVars
<1> QED BY <1>1, <1>2, EnqueueOrder DEF Callers, Channel!Next

LEMMA CommandWriteOrder ==
  ASSUME TypeInv, Order, CommandWrite
  PROVE  Order' /\ [Channel!Next]_(Channel!vars)
<1>1. CASE comms[disp.id].origFrame = NULL
  <2>1. UNCHANGED <<queueVars, radioVars, disp, pc>>
    BY <1>1 DEF CommandWrite
  <2>2. Quiet
    BY <2>1 DEF Quiet, Writing, queueVars, radioVars
  <2> QED BY <2>2, QuietOrder DEF Quiet, Channel!vars
<1>2. CASE comms[disp.id].origFrame # NULL
  <2>1. Writing /\ ~Writing' /\ WriteFrame /\ UNCHANGED queueVars
    BY <1>2 DEF TypeInv, TypeOK, PCs, CommandWrite, At, Goto, Writing
  <2> QED BY <2>1, WriteOrder DEF Channel!Next
<1> QED BY <1>1, <1>2

LEMMA TransmitWriteOrder ==
  ASSUME TypeInv, Order, TransmitWrite PROVE Order' /\ Channel!Next
<1>1. Writing /\ ~Writing'
  BY DEF TypeInv, TypeOK, PCs, TransmitWrite, At, Goto, Writing
<1> QED BY <1>1, WriteOrder DEF TransmitWrite, Channel!Next

LEMMA QuietMain ==
  ASSUME TypeInv,
         RegisterScan("main") \/ RegisterClaim("main") \/ MainWait \/
         MainSpin \/ MainGet \/ MainReadData \/ FreeGet("main") \/
         FreeFields("main") \/ MainFreeBit
  PROVE  Quiet
<1> USE DEF Quiet, Writing, TypeInv, TypeOK, PCs, Goto, queueVars, radioVars
<1>1. CASE RegisterScan("main")
  BY <1>1 DEF RegisterScan
<1>2. CASE RegisterClaim("main")
  BY <1>2 DEF RegisterClaim
<1>3. CASE MainWait
  BY <1>3 DEF MainWait
<1>4. CASE MainSpin
  BY <1>4 DEF MainSpin
<1>5. CASE MainGet
  BY <1>5 DEF MainGet
<1>6. CASE MainReadData
  BY <1>6 DEF MainReadData
<1>7. CASE FreeGet("main")
  BY <1>7 DEF FreeGet
<1>8. CASE FreeFields("main")
  BY <1>8 DEF FreeFields
<1>9. CASE MainFreeBit
  BY <1>9 DEF MainFreeBit, FreeBit
<1> QED BY <1>1, <1>2, <1>3, <1>4, <1>5, <1>6, <1>7, <1>8, <1>9

LEMMA QuietHandler ==
  ASSUME TypeInv,
         ReadAnswer \/ Attach \/ HandleFrame \/ HandleGarbled \/
         HandleFreed \/ PacketDone \/ Finish \/ TestFree \/
         RegisterScan("handler") \/ RegisterClaim("handler") \/
         FreeGet("handler") \/ FreeFields("handler") \/ HandlerFreeBit \/
         ReadUnsolicited
  PROVE  Quiet
<1> USE DEF Quiet, Writing, TypeInv, TypeOK, PCs, Goto, queueVars, radioVars
<1>1. CASE ReadAnswer
  BY <1>1 DEF ReadAnswer
<1>2. CASE Attach
  BY <1>2 DEF Attach
<1>3. CASE HandleFrame
  BY <1>3 DEF HandleFrame
<1>4. CASE HandleGarbled
  BY <1>4 DEF HandleGarbled
<1>5. CASE HandleFreed
  BY <1>5 DEF HandleFreed
<1>6. CASE PacketDone
  BY <1>6 DEF PacketDone
<1>7. CASE Finish
  BY <1>7 DEF Finish
<1>8. CASE TestFree
  BY <1>8 DEF TestFree
<1>9. CASE RegisterScan("handler")
  BY <1>9 DEF RegisterScan
<1>10. CASE RegisterClaim("handler")
  BY <1>10 DEF RegisterClaim
<1>11. CASE FreeGet("handler")
  BY <1>11 DEF FreeGet
<1>12. CASE FreeFields("handler")
  BY <1>12 DEF FreeFields
<1>13. CASE HandlerFreeBit
  BY <1>13 DEF HandlerFreeBit, FreeBit
<1>14. CASE ReadUnsolicited
  BY <1>14 DEF ReadUnsolicited
<1> QED BY <1>1, <1>2, <1>3, <1>4, <1>5, <1>6, <1>7, <1>8, <1>9, <1>10,
       <1>11, <1>12, <1>13, <1>14

LEMMA QuietDispatcher ==
  ASSUME TypeInv,
         DispatchCheck \/ CommandAlloc \/ CommandFrame \/ TransmitAlloc \/ TransmitCopy \/
         DispatchArm \/ DispatchTimeout
  PROVE  Quiet
<1> USE DEF Quiet, Writing, TypeInv, TypeOK, PCs, Goto, queueVars, radioVars
<1>1. CASE DispatchCheck
  BY <1>1 DEF DispatchCheck, At
<1>2. CASE CommandFrame
  BY <1>2 DEF CommandFrame, At
<1>7. CASE CommandAlloc
  BY <1>7 DEF CommandAlloc, At
<1>3. CASE TransmitAlloc
  BY <1>3 DEF TransmitAlloc, At
<1>4. CASE TransmitCopy
  BY <1>4 DEF TransmitCopy, At
<1>5. CASE DispatchArm
  BY <1>5 DEF DispatchArm, At
<1>6. CASE DispatchTimeout
  BY <1>6 DEF DispatchTimeout, At
<1> QED BY <1>1, <1>2, <1>3, <1>4, <1>5, <1>6, <1>7

LEMMA QuietOther ==
  ASSUME TypeInv,
         DoubleDelete \/ LoseAnswer
  PROVE  Quiet
<1> USE DEF Quiet, Writing, TypeInv, TypeOK, PCs, Goto, queueVars, radioVars
<1>1. CASE DoubleDelete
  BY <1>1 DEF DoubleDelete
<1>2. CASE LoseAnswer
  BY <1>2 DEF LoseAnswer
<1> QED BY <1>1, <1>2

LEMMA PopStutters == ASSUME DispatchPop PROVE UNCHANGED Channel!vars
BY DEF DispatchPop, radioVars, Channel!vars

LEMMA StepOrder ==
  ASSUME TypeInv, Order, [Next]_vars
  PROVE  Order' /\ [Channel!Next]_(Channel!vars)
<1>1. CASE MainPush \/ HandlerPush \/ CommandWrite \/ TransmitWrite
  BY <1>1, MainPushOrder, HandlerPushOrder, CommandWriteOrder, TransmitWriteOrder
<1>2. CASE DispatchPop
  BY <1>2, PopOrder, PopStutters
<1>3. CASE Quiet
  BY <1>3, QuietOrder DEF Quiet, Channel!vars
<1>4. CASE UNCHANGED vars
  BY <1>4, QuietOrder DEF Quiet, Writing, vars, Channel!vars
<1>5. Next => MainPush \/ HandlerPush \/ CommandWrite \/ TransmitWrite
              \/ DispatchPop \/ Quiet
  BY QuietMain, QuietHandler, QuietDispatcher, QuietOther
     DEF Next, Main, HandlerWork, Dispatcher
<1> QED BY <1>1, <1>2, <1>3, <1>4, <1>5

\* The frames of the requests are written in the order the requests were
\* registered and each at most once, with any number of slots, even when slots
\* are lost, shared or freed under a request.
THEOREM FramesInOrder == Spec => InOrderOnce
<1>1. Init => Order /\ Channel!Init
  BY DEF Init, Order, Writing, Channel!Init
<1>2. TypeInv /\ Order /\ [Next]_vars => Order' /\ [Channel!Next]_(Channel!vars)
  BY StepOrder
<1> QED BY <1>1, <1>2, TypingInductive, PTL DEF Spec, InOrderOnce, Channel!Spec

-----------------------------------------------------------------------------
(* The slots, while sensors only report.                                   *)

\* The steady state: main has its address or never asked, sensors know their
\* ids and only report, and no status doubles as a frame id.  Answers may be
\* lost and damaged.
ReportsOnly ==
  /\ ~StartUp
  /\ Packets \subseteq {"rev0_report", "rev1_report"}
  /\ ModemStatuses \cap Slots = {}

\* Every request is then a command, and the frame that has an id answers one.
CommandsOnly ==
  /\ pc["main"] = "done"
  /\ pc["dispatcher"] \notin {"txWrite", "txAlloc", "txCopy"}
  /\ todo \in Seq({"command"})
  /\ reg["handler"].kind = "command"
  /\ \A i \in 1..Len(queue) : queue[i].kind = "command"
  /\ Writing => disp.kind = "command"
  /\ \A r \in air : r.kind = "command"
  /\ frame.type # "txStatus"
  /\ frame.type = "rx" => frame.packet \in {"rev0_report", "rev1_report"}
  /\ frame.type = "at" <=> frame.n # 0
  /\ frame.type = "at" <=> frame.id \in Slots
  /\ pc["handler"] \in {"frame", "register", "claim", "push", "free", "freeFields",
                        "freeBit"} => frame.n = 0

\* A request that was written, or is being written, is in the slot it names.
InSlot ==
  /\ \A r \in air : /\ r.id # 0 /\ r.n >= 1 /\ r.n <= pushed - Len(queue)
                    /\ Writing => r.n < disp.n
                    /\ comms[r.id].origFrame = r.n
  /\ Answering => comms[frame.id].origFrame = frame.n
  /\ Answering /\ pc["handler"] = "handle" => comms[frame.id].replyFrame
  /\ Writing => disp.id # 0
  /\ pc["dispatcher"] = "cmdFrame" => comms[disp.id].origFrame = Blank
  /\ pc["dispatcher"] = "cmdWrite" => comms[disp.id].origFrame = disp.n

\* What the handler, the only thread that writes bits, has in its hand: a slot
\* that nobody waits for, and the bits as they are.
InHand ==
  /\ pc["handler"] = "claim" =>
       /\ reg["handler"].word = bits
       /\ reg["handler"].slot # 0 => ~bits[reg["handler"].slot]
  /\ pc["handler"] = "push" /\ reg["handler"].slot # 0 =>
       /\ bits[reg["handler"].slot]
       /\ \A r \in Pending : r.id # reg["handler"].slot
  /\ pc["handler"] \in {"free", "freeFields", "freeBit"} =>
       /\ fre["handler"].slot # 0 /\ bits[fre["handler"].slot]
       /\ \A r \in Pending : r.id # fre["handler"].slot
  /\ pc["handler"] = "freeBit" => fre["handler"].word = bits

SlotInv ==
  CommandsOnly /\ InSlot /\ InHand /\ SlotExclusive /\ PendingIsClaimed /\ NoFault

\* Nobody waits for a slot, one that was dispatched has its id, and one that is
\* claimed belongs to a request or is in the handler's hand.
Dispatched ==
  /\ \A s \in Slots : comms[s].waiting = 0
  /\ Writing => comms[disp.id].id # 0
  /\ \A r \in air : comms[r.id].id # 0
  /\ Answering => comms[frame.id].id # 0

Freeing == pc["handler"] \in {"free", "freeFields", "freeBit"}

AllHeld ==
  \A s \in Slots : bits[s] =>
    \/ \E r \in Pending : r.id = s
    \/ Answering /\ frame.id = s
    \/ pc["handler"] = "push" /\ reg["handler"].slot = s
    \/ Freeing /\ fre["handler"].slot = s

LeakInv == Dispatched /\ AllHeld

LEMMA SlotInvInit == ReportsOnly /\ Init => SlotInv
<1> SUFFICES ASSUME ReportsOnly, Init PROVE SlotInv
  OBVIOUS
<1>1. Pending = {} /\ ~Answering /\ ~Writing
  BY DEF Init, Pending, Queued, BeingWritten, Answering, Writing, NoFrame
<1>2. CommandsOnly
  BY DEF Init, ReportsOnly, CommandsOnly, Writing, NoFrame, NoCall
<1> QED BY <1>1, <1>2 DEF Init, SlotInv, InSlot, InHand, SlotExclusive,
           PendingIsClaimed, NoFault

LEMMA PendingSame ==
  ASSUME UNCHANGED <<queue, air, disp>>, Writing' <=> Writing
  PROVE  Pending' = Pending
BY DEF Pending, Queued, BeingWritten, Writing

\* While no request begins, what holds of the slots is kept.
LEMMA Exclusion ==
  ASSUME Pending' \subseteq Pending, bits' = bits, frame' = frame \/ frame'.n = 0,
         SlotExclusive, PendingIsClaimed
  PROVE  SlotExclusive' /\ PendingIsClaimed'
BY DEF SlotExclusive, PendingIsClaimed, Answering

LEMMA IdRanges ==
  ASSUME TypeInv
  PROVE  /\ \A r \in Pending : r \in Request /\ r.id \in 0..NumSlots
         /\ InSlot => (\A r \in air : r.id \in Slots) /\ (Writing => disp.id \in Slots)
<1>1. /\ air \in SUBSET Request /\ disp \in Request
      /\ \A r \in Pending : r \in Request
  BY DEF TypeInv, TypeOK, Pending, Queued, BeingWritten
<1> QED BY <1>1 DEF Request, InSlot

\* Writing one field of a slot leaves the others.
LEMMA WaitingOnly ==
  ASSUME comms \in [Slots -> Slot], NEW s, NEW v, NEW t \in Slots
  PROVE  LET c == [comms EXCEPT ![s].waiting = v] IN
         /\ c[t].origFrame = comms[t].origFrame
         /\ c[t].replyFrame = comms[t].replyFrame
         /\ c[t].id = comms[t].id
<1>1. CASE t = s
  BY <1>1 DEF Slot
<1>2. CASE t # s
  BY <1>2
<1> QED BY <1>1, <1>2

LEMMA IdOnly ==
  ASSUME comms \in [Slots -> Slot], NEW s, NEW v, NEW t \in Slots
  PROVE  LET c == [comms EXCEPT ![s].id = v] IN
         /\ c[t].origFrame = comms[t].origFrame
         /\ c[t].replyFrame = comms[t].replyFrame
         /\ c[t].waiting = comms[t].waiting
         /\ c[t].id = IF t = s THEN v ELSE comms[t].id
<1>1. CASE t = s
  BY <1>1 DEF Slot
<1>2. CASE t # s
  BY <1>2
<1> QED BY <1>1, <1>2

LEMMA ReplyOnly ==
  ASSUME comms \in [Slots -> Slot], NEW s, NEW v, NEW t \in Slots
  PROVE  LET c == [comms EXCEPT ![s].replyFrame = v] IN
         /\ c[t].origFrame = comms[t].origFrame
         /\ c[t].waiting = comms[t].waiting
         /\ c[t].id = comms[t].id
         /\ c[t].replyFrame = IF t = s THEN v ELSE comms[t].replyFrame
<1>1. CASE t = s
  BY <1>1 DEF Slot
<1>2. CASE t # s
  BY <1>2
<1> QED BY <1>1, <1>2

LEMMA DataOnly ==
  ASSUME comms \in [Slots -> Slot], NEW s, NEW v, NEW t \in Slots
  PROVE  LET c == [comms EXCEPT ![s].replyData = v] IN
         /\ c[t].origFrame = comms[t].origFrame
         /\ c[t].waiting = comms[t].waiting
         /\ c[t].id = comms[t].id
         /\ c[t].replyFrame = comms[t].replyFrame
<1>1. CASE t = s
  BY <1>1 DEF Slot
<1>2. CASE t # s
  BY <1>2
<1> QED BY <1>1, <1>2

LEMMA FinishedOnly ==
  ASSUME comms \in [Slots -> Slot], NEW s, NEW v, NEW t \in Slots
  PROVE  LET c == [comms EXCEPT ![s].finished = v] IN
         /\ c[t].origFrame = comms[t].origFrame
         /\ c[t].waiting = comms[t].waiting
         /\ c[t].id = comms[t].id
         /\ c[t].replyFrame = comms[t].replyFrame
<1>1. CASE t = s
  BY <1>1 DEF Slot
<1>2. CASE t # s
  BY <1>2
<1> QED BY <1>1, <1>2

LEMMA OrigFrameOnly ==
  ASSUME comms \in [Slots -> Slot], NEW s, NEW v, NEW t \in Slots
  PROVE  LET c == [comms EXCEPT ![s].origFrame = v] IN
         /\ c[t].origFrame = IF t = s THEN v ELSE comms[t].origFrame
         /\ c[t].replyFrame = comms[t].replyFrame
         /\ c[t].waiting = comms[t].waiting
         /\ c[t].id = comms[t].id
<1>1. CASE t = s
  BY <1>1 DEF Slot
<1>2. CASE t # s
  BY <1>2
<1> QED BY <1>1, <1>2

\* The slot that the dispatcher works on is nobody else's.
LEMMA OwnSlot ==
  ASSUME TypeInv, CommandsOnly, InSlot, SlotExclusive, Writing
  PROVE  /\ disp.id \in Slots
         /\ \A r \in air : r.id \in Slots /\ r.id # disp.id
         /\ Answering => frame.id \in Slots /\ frame.id # disp.id
<1>1. disp \in Pending /\ air \subseteq Pending /\ air \subseteq Request
      /\ disp \in Request
  BY DEF Pending, BeingWritten, Writing, TypeInv, TypeOK
<1>2. disp \notin air
  BY <1>1 DEF InSlot, Request
<1> QED BY <1>1, <1>2, IdRanges DEF SlotExclusive, InSlot, CommandsOnly, Answering

LEMMA ScanSlot ==
  ASSUME TypeInv, SlotInv, RegisterScan("handler")
  PROVE  SlotInv'
<1> USE DEF SlotInv, RegisterScan, At
<1>1. /\ pc \in PCs /\ todo \in Seq({"command"}) /\ todo # <<>>
      /\ reg \in [Callers -> RegCall]
  BY DEF TypeInv, TypeOK, CommandsOnly
<1>2. /\ pc'["handler"] = "claim" /\ pc'["main"] = pc["main"]
      /\ pc'["dispatcher"] = pc["dispatcher"]
  BY <1>1, GotoHandler DEF HandlerPCs
<1>3. /\ reg'["handler"].kind = "command" /\ reg'["handler"].word = bits
      /\ reg'["handler"].slot # 0 => ~bits[reg'["handler"].slot]
  <2>1. Head(todo) = "command"
    BY <1>1
  <2> QED BY <1>1, <2>1 DEF FirstFree, Wanted
<1>4. Pending' = Pending /\ (Writing' <=> Writing)
  BY <1>2, PendingSame DEF queueVars, radioVars, Writing
<1>5. CommandsOnly'
  BY <1>2, <1>3, <1>4 DEF CommandsOnly, queueVars, radioVars, handlerVars
<1>6. InSlot'
  BY <1>2, <1>4 DEF InSlot, slotVars, queueVars, radioVars, handlerVars, Answering
<1>7. InHand'
  BY <1>2, <1>3 DEF InHand, slotVars
<1>8. SlotExclusive' /\ PendingIsClaimed'
  BY <1>4, Exclusion DEF slotVars, handlerVars
<1> QED BY <1>5, <1>6, <1>7, <1>8 DEF NoFault

LEMMA ClaimSlot ==
  ASSUME TypeInv, SlotInv, RegisterClaim("handler")
  PROVE  SlotInv'
<1> USE DEF SlotInv, RegisterClaim, At
<1> DEFINE s == reg["handler"].slot
<1>1. /\ pc \in PCs /\ reg \in [Callers -> RegCall] /\ comms \in [Slots -> Slot]
      /\ bits \in [Slots -> BOOLEAN] /\ s \in 0..NumSlots
      /\ \A r \in Pending : r.id \in 0..NumSlots
  BY IdRanges DEF TypeInv, TypeOK, RegCall
<1>2. /\ pc'["handler"] = "push" /\ pc'["main"] = pc["main"]
      /\ pc'["dispatcher"] = pc["dispatcher"]
  BY <1>1, GotoHandler DEF HandlerPCs
<1>3. reg'["handler"].kind = "command" /\ reg'["handler"].slot = s
  BY <1>1 DEF CommandsOnly
<1>4. Pending' = Pending /\ (Writing' <=> Writing)
  BY <1>2, PendingSame DEF queueVars, radioVars, Writing
<1>5. bits' = IF s = 0 THEN bits ELSE [bits EXCEPT ![s] = TRUE]
  BY <1>1 DEF InHand, StoreBit, slotVars
<1>6. \A t \in Slots : comms'[t].origFrame = comms[t].origFrame
                    /\ comms'[t].replyFrame = comms[t].replyFrame
  <2>1. CASE s = 0
    BY <2>1 DEF slotVars
  <2>2. CASE s # 0
    <3>1. comms' = [comms EXCEPT ![s].waiting = 0]
      BY <2>2
    <3> HIDE DEF s
    <3> QED BY <1>1, <3>1, WaitingOnly
  <2> QED BY <2>1, <2>2
<1>7. CommandsOnly'
  BY <1>2, <1>3, <1>4 DEF CommandsOnly, queueVars, radioVars, handlerVars
<1>8. InSlot'
  <2>1. ~Answering'
    BY DEF CommandsOnly, handlerVars, Answering
  <2> QED BY <1>2, <1>4, <1>6, <2>1, IdRanges
          DEF InSlot, queueVars, radioVars, Writing
<1>9. InHand'
  BY <1>1, <1>2, <1>3, <1>4, <1>5 DEF InHand, PendingIsClaimed
<1>10. SlotExclusive' /\ PendingIsClaimed'
  BY <1>1, <1>4, <1>5 DEF SlotExclusive, PendingIsClaimed, CommandsOnly, Answering,
     handlerVars
<1> QED BY <1>7, <1>8, <1>9, <1>10 DEF NoFault

LEMMA PushSlot ==
  ASSUME TypeInv, Order, SlotInv, HandlerPush
  PROVE  SlotInv'
<1> USE DEF SlotInv, HandlerPush, At
<1> DEFINE s == reg["handler"].slot
           q == [n |-> pushed + 1, id |-> s, kind |-> reg["handler"].kind]
<1>1. /\ pc \in PCs /\ reg \in [Callers -> RegCall] /\ queue \in Seq(Request)
      /\ pushed \in Nat /\ todo \in Seq({"command"}) /\ todo # <<>>
      /\ air \in SUBSET Request
  BY DEF TypeInv, TypeOK, Control, CommandsOnly
<1>2. /\ pc'["handler"] = "register" /\ pc'["main"] = pc["main"]
      /\ pc'["dispatcher"] \in {pc["dispatcher"], "check"}
      /\ pc'["dispatcher"] # pc["dispatcher"] => pc["dispatcher"] = "waiting"
  BY <1>1 DEF PCs, Signalled
<1>3. Writing' <=> Writing
  BY <1>2 DEF Writing
<1>4. /\ queue' = Append(queue, q) /\ pushed' = pushed + 1 /\ reg'["handler"] = NoCall
      /\ q \in Request /\ q.kind = "command"
  BY <1>1 DEF Enqueue, RegCall, Request, CommandsOnly
<1> HIDE DEF q
<1>5. /\ Len(queue') = Len(queue) + 1
      /\ \A i \in 1..Len(queue') : queue'[i] = IF i <= Len(queue) THEN queue[i] ELSE q
  BY <1>1, <1>4
<1>6. Pending' \subseteq Pending \cup {q}
  BY <1>3, <1>5 DEF Pending, Queued, BeingWritten, Writing, radioVars
<1>7. CommandsOnly'
  <2>1. todo' \in Seq({"command"})
    BY <1>1
  <2>2. \A i \in 1..Len(queue') : queue'[i].kind = "command"
    BY <1>1, <1>4, <1>5 DEF CommandsOnly
  <2> QED BY <1>2, <1>3, <1>4, <2>1, <2>2 DEF CommandsOnly, NoCall, radioVars
<1>8. InSlot'
  <2>1. pushed' - Len(queue') = pushed - Len(queue)
    BY <1>1, <1>4, <1>5
  <2> QED BY <1>2, <1>3, <2>1 DEF InSlot, slotVars, radioVars, Answering, Writing
<1>9. InHand'
  BY <1>2 DEF InHand
<1>10. q.id = s
  BY DEF q
<1>11. SlotExclusive' /\ PendingIsClaimed'
  BY <1>6, <1>10 DEF InHand, SlotExclusive, PendingIsClaimed, CommandsOnly, Answering,
     slotVars
<1> QED BY <1>7, <1>8, <1>9, <1>11 DEF NoFault

LEMMA FreeGetSlot ==
  ASSUME TypeInv, SlotInv, FreeGet("handler")
  PROVE  SlotInv'
<1> USE DEF SlotInv, FreeGet, At
<1>1. pc \in PCs
  BY DEF TypeInv, TypeOK
<1>2. /\ pc'["handler"] = "freeFields" /\ pc'["main"] = pc["main"]
      /\ pc'["dispatcher"] = pc["dispatcher"] /\ fault' = fault
  BY <1>1, GotoHandler DEF HandlerPCs, InHand
<1>3. Pending' = Pending /\ (Writing' <=> Writing)
  BY <1>2, PendingSame DEF queueVars, radioVars, Writing
<1>4. CommandsOnly'
  BY <1>2, <1>3 DEF CommandsOnly, queueVars, radioVars, handlerVars
<1>5. InSlot'
  BY <1>2, <1>3 DEF InSlot, slotVars, queueVars, radioVars, handlerVars, Answering
<1>6. InHand'
  BY <1>2, <1>3 DEF InHand, slotVars
<1>7. SlotExclusive' /\ PendingIsClaimed'
  BY <1>3, Exclusion DEF slotVars, handlerVars
<1> QED BY <1>2, <1>4, <1>5, <1>6, <1>7 DEF NoFault

LEMMA FreeFieldsSlot ==
  ASSUME TypeInv, SlotInv, FreeFields("handler")
  PROVE  SlotInv'
<1> USE DEF SlotInv, FreeFields, At
<1> DEFINE s == fre["handler"].slot
<1>1. /\ pc \in PCs /\ fre \in [Callers -> FreeCall] /\ comms \in [Slots -> Slot]
  BY DEF TypeInv, TypeOK
<1>2. /\ pc'["handler"] = "freeBit" /\ pc'["main"] = pc["main"]
      /\ pc'["dispatcher"] = pc["dispatcher"] /\ fault' = fault
  BY <1>1, GotoHandler DEF HandlerPCs
<1>3. Pending' = Pending /\ (Writing' <=> Writing)
  BY <1>2, PendingSame DEF queueVars, radioVars, Writing
<1>4. fre'["handler"].slot = s /\ fre'["handler"].word = bits
  BY <1>1 DEF FreeCall
<1>5. \A t \in Slots \ {s} : comms'[t] = comms[t]
  BY <1>1
<1>6. (\A r \in air : r.id # s) /\ (Writing => disp.id # s) /\ ~Answering
  BY DEF InHand, Pending, BeingWritten, Writing, CommandsOnly, Answering
<1>7. CommandsOnly'
  BY <1>2, <1>3 DEF CommandsOnly, queueVars, radioVars, handlerVars
<1>8. InSlot'
  BY <1>2, <1>3, <1>5, <1>6, IdRanges DEF InSlot, queueVars, radioVars, handlerVars,
     Answering, Writing
<1>9. InHand'
  BY <1>2, <1>3, <1>4 DEF InHand
<1>10. SlotExclusive' /\ PendingIsClaimed'
  BY <1>3, Exclusion DEF handlerVars
<1> QED BY <1>2, <1>7, <1>8, <1>9, <1>10 DEF NoFault

LEMMA FreeBitSlot ==
  ASSUME TypeInv, SlotInv, HandlerFreeBit
  PROVE  SlotInv'
<1> USE DEF SlotInv, HandlerFreeBit, FreeBit, At
<1> DEFINE s == fre["handler"].slot
<1>1. /\ pc \in PCs /\ bits \in [Slots -> BOOLEAN] /\ fre \in [Callers -> FreeCall]
  BY DEF TypeInv, TypeOK
<1>2. /\ pc'["handler"] = "frame" /\ pc'["main"] = pc["main"]
      /\ pc'["dispatcher"] = pc["dispatcher"] /\ fault' = fault
  BY <1>1, GotoHandler DEF HandlerPCs
<1>3. Pending' = Pending /\ (Writing' <=> Writing)
  BY <1>2, PendingSame DEF queueVars, radioVars, Writing
<1>4. bits' = [bits EXCEPT ![s] = FALSE]
  BY <1>1 DEF InHand, StoreBit
<1>5. CommandsOnly'
  BY <1>2, <1>3 DEF CommandsOnly, queueVars, radioVars
<1>6. InSlot'
  BY <1>2, <1>3 DEF InSlot, queueVars, radioVars, Answering
<1>7. InHand'
  BY <1>2 DEF InHand
<1>8. SlotExclusive' /\ PendingIsClaimed'
  <2>1. ~Answering' /\ s # 0 /\ \A r \in Pending : r.id # s
    BY DEF InHand, CommandsOnly, Answering
  <2> HIDE DEF s
  <2>2. \A r \in Pending : r.id # 0 => bits'[r.id]
    <3>1. ASSUME NEW r \in Pending, r.id # 0 PROVE r.id \in Slots /\ bits[r.id] /\ r.id # s
      BY <2>1, <3>1, IdRanges DEF PendingIsClaimed
    <3> QED BY <1>1, <1>4, <3>1
  <2> QED BY <1>3, <2>1, <2>2 DEF SlotExclusive, PendingIsClaimed
<1> QED BY <1>2, <1>5, <1>6, <1>7, <1>8 DEF NoFault

LEMMA CheckSlot ==
  ASSUME TypeInv, SlotInv, DispatchCheck \/ DispatchArm \/ DispatchTimeout
  PROVE  SlotInv'
<1> USE DEF SlotInv, DispatchCheck, DispatchArm, DispatchTimeout, At
<1>1. pc \in PCs
  BY DEF TypeInv, TypeOK
<1>2. /\ pc'["dispatcher"] \in {"arm", "pop", "waiting", "check"}
      /\ pc'["main"] = pc["main"] /\ pc'["handler"] = pc["handler"]
  BY <1>1, GotoDispatcher DEF DispatcherPCs
<1>3. ~Writing /\ ~Writing'
  BY <1>2 DEF Writing
<1>4. Pending' = Pending
  BY <1>3, PendingSame DEF queueVars, radioVars
<1>5. CommandsOnly'
  BY <1>2, <1>3 DEF CommandsOnly, queueVars, radioVars, handlerVars
<1>6. InSlot'
  BY <1>2, <1>3 DEF InSlot, slotVars, queueVars, radioVars, handlerVars, Answering
<1>7. InHand'
  BY <1>2, <1>4 DEF InHand, slotVars
<1>8. SlotExclusive' /\ PendingIsClaimed'
  BY <1>4, Exclusion DEF slotVars, handlerVars
<1> QED BY <1>5, <1>6, <1>7, <1>8 DEF NoFault

LEMMA PopSlot ==
  ASSUME TypeInv, Order, SlotInv, DispatchPop
  PROVE  SlotInv'
<1> USE DEF SlotInv, DispatchPop, At
<1> DEFINE q == Head(queue)
<1>1. /\ pc \in PCs /\ queue \in Seq(Request) /\ queue # <<>> /\ pushed \in Nat
      /\ comms \in [Slots -> Slot] /\ air \in SUBSET Request
  BY DEF TypeInv, TypeOK, Control
<1>2. /\ q \in Request /\ q = queue[1] /\ 1 \in 1..Len(queue)
      /\ Len(queue') = Len(queue) - 1
      /\ \A i \in 1..Len(queue') : queue'[i] = queue[i + 1] /\ i + 1 \in 1..Len(queue)
  BY <1>1
<1>3. q \in Pending /\ q.kind = "command" /\ q.n = pushed - Len(queue) + 1 /\ ~Writing
  BY <1>1, <1>2 DEF Pending, Queued, CommandsOnly, Order, Writing
<1> HIDE DEF q
<1>4. /\ pc'["main"] = pc["main"] /\ pc'["handler"] = pc["handler"]
      /\ pc'["dispatcher"] = IF q.id = 0 THEN "check" ELSE "cmdAlloc"
  BY <1>1, <1>3, GotoDispatcher DEF DispatcherPCs, q
<1>5. /\ Writing' <=> q.id # 0
      /\ q.id # 0 => disp' = q
  BY <1>4 DEF Writing, q
<1>6. Pending' \subseteq Pending
  <2>1. Queued' \subseteq Queued
    BY <1>2 DEF Queued
  <2>2. BeingWritten' \subseteq {q}
    BY <1>5 DEF BeingWritten, Writing
  <2> QED BY <1>3, <2>1, <2>2 DEF Pending, radioVars
<1>7. CommandsOnly'
  BY <1>2, <1>3, <1>4, <1>5 DEF CommandsOnly, radioVars, handlerVars
<1>8. InSlot'
  <2>1. \A t \in Slots : comms'[t].origFrame = comms[t].origFrame
                      /\ comms'[t].replyFrame = comms[t].replyFrame
    <3>1. CASE q.id = 0
      BY <3>1 DEF q
    <3>2. CASE q.id # 0
      <4>1. comms' = [comms EXCEPT ![q.id].id = q.id]
        BY <3>2 DEF q
      <4> QED BY <1>1, <4>1, IdOnly
    <3> QED BY <3>1, <3>2
  <2>2. ASSUME NEW r \in air
        PROVE  r.n <= pushed' - Len(queue') /\ r.n < q.n
    BY <1>1, <1>2, <1>3 DEF InSlot, Request
  <2> QED BY <1>4, <1>5, <2>1, <2>2, IdRanges
          DEF InSlot, radioVars, handlerVars, Answering, CommandsOnly
<1>9. InHand'
  BY <1>4, <1>6 DEF InHand
<1>10. SlotExclusive' /\ PendingIsClaimed'
  BY <1>6, Exclusion DEF handlerVars
<1> QED BY <1>7, <1>8, <1>9, <1>10 DEF NoFault

LEMMA AllocSlot ==
  ASSUME TypeInv, SlotInv, CommandAlloc
  PROVE  SlotInv'
<1> USE DEF SlotInv, CommandAlloc, At
<1>1. pc \in PCs /\ comms \in [Slots -> Slot] /\ Writing
  BY DEF TypeInv, TypeOK, Writing
<1>2. /\ pc'["dispatcher"] = "cmdFrame" /\ pc'["main"] = pc["main"]
      /\ pc'["handler"] = pc["handler"] /\ Writing'
  BY <1>1, GotoDispatcher DEF DispatcherPCs, Writing
<1>3. Pending' = Pending
  BY <1>1, <1>2, PendingSame DEF queueVars, radioVars
<1>4. CommandsOnly'
  BY <1>1, <1>2 DEF CommandsOnly, queueVars, radioVars, handlerVars
<1>5. InSlot'
  BY <1>1, <1>2, OrigFrameOnly, OwnSlot
     DEF InSlot, queueVars, radioVars, handlerVars, Answering, CommandsOnly
<1>6. InHand'
  BY <1>2, <1>3 DEF InHand
<1>7. SlotExclusive' /\ PendingIsClaimed'
  BY <1>3, Exclusion DEF handlerVars
<1> QED BY <1>4, <1>5, <1>6, <1>7 DEF NoFault

LEMMA FrameSlot ==
  ASSUME TypeInv, SlotInv, CommandFrame
  PROVE  SlotInv'
<1> USE DEF SlotInv
<1>1. pc["dispatcher"] = "cmdFrame" /\ fault = "none"
  BY DEF CommandFrame, At
<1>2. /\ pc \in PCs /\ comms \in [Slots -> Slot] /\ Writing
      /\ comms[disp.id].origFrame = Blank
  BY <1>1 DEF TypeInv, TypeOK, Writing, InSlot
<1>3. /\ comms' = [comms EXCEPT ![disp.id].origFrame = disp.n]
      /\ Goto("dispatcher", "cmdWrite") /\ fault' = fault
      /\ UNCHANGED <<bits, queueVars, radioVars, reg, fre, disp, handlerVars, mainVars>>
  <2>1. comms[disp.id].origFrame # NULL
    BY <1>2
  <2> QED BY <2>1, Zenon DEF CommandFrame
<1>4. /\ pc'["dispatcher"] = "cmdWrite" /\ pc'["main"] = pc["main"]
      /\ pc'["handler"] = pc["handler"] /\ Writing'
  BY <1>2, <1>3, GotoDispatcher DEF DispatcherPCs, Writing
<1>5. Pending' = Pending
  BY <1>2, <1>3, <1>4, PendingSame DEF queueVars, radioVars
<1>6. CommandsOnly'
  BY <1>2, <1>3, <1>4 DEF CommandsOnly, queueVars, radioVars, handlerVars
<1>7. InSlot'
  <2>1. \A t \in Slots :
          /\ comms'[t].origFrame = IF t = disp.id THEN disp.n ELSE comms[t].origFrame
          /\ comms'[t].replyFrame = comms[t].replyFrame
    BY <1>2, <1>3, OrigFrameOnly
  <2>2. UNCHANGED <<queueVars, radioVars, disp, handlerVars>>
    BY <1>3
  <2> QED BY <1>2, <1>4, <2>1, <2>2, OwnSlot
          DEF InSlot, queueVars, radioVars, handlerVars, Answering
<1>8. InHand'
  BY <1>3, <1>4, <1>5 DEF InHand
<1>9. SlotExclusive' /\ PendingIsClaimed'
  BY <1>3, <1>5, Exclusion DEF handlerVars
<1> QED BY <1>3, <1>6, <1>7, <1>8, <1>9 DEF NoFault

LEMMA WriteSlot ==
  ASSUME TypeInv, Order, SlotInv, CommandWrite
  PROVE  SlotInv'
<1> USE DEF SlotInv
<1>0. pc["dispatcher"] = "cmdWrite" /\ fault = "none"
  BY DEF CommandWrite, At
<1>1. /\ pc \in PCs /\ comms \in [Slots -> Slot] /\ Writing /\ disp \in Request
  BY <1>0 DEF TypeInv, TypeOK, Writing
<1>2. comms[disp.id].origFrame = disp.n /\ disp.n >= 1 /\ disp.id # 0
     /\ disp.n <= pushed - Len(queue)
  BY <1>0, <1>1 DEF InSlot, Order
<1>3. /\ WriteFrame /\ Goto("dispatcher", "check") /\ fault' = fault
      /\ UNCHANGED <<slotVars, queueVars, reg, fre, handlerVars, mainVars>>
  <2>1. comms[disp.id].origFrame # NULL
    BY <1>1, <1>2 DEF Request
  <2> QED BY <2>1, Zenon DEF CommandWrite
<1>4. /\ pc'["dispatcher"] = "check" /\ pc'["main"] = pc["main"]
      /\ pc'["handler"] = pc["handler"] /\ ~Writing'
  BY <1>1, <1>3, GotoDispatcher DEF DispatcherPCs, Writing
<1>5. air' = air \cup {disp}
  BY <1>3 DEF WriteFrame
<1>6. Pending' = Pending
  BY <1>1, <1>3, <1>4, <1>5 DEF Pending, Queued, BeingWritten, Writing, queueVars
<1>7. CommandsOnly'
  BY <1>1, <1>3, <1>4, <1>5 DEF CommandsOnly, queueVars, handlerVars
<1>8. InSlot'
  BY <1>2, <1>3, <1>4, <1>5 DEF InSlot, slotVars, queueVars, handlerVars, Answering
<1>9. InHand'
  BY <1>3, <1>4, <1>6 DEF InHand, slotVars
<1>10. SlotExclusive' /\ PendingIsClaimed'
  BY <1>3, <1>6, Exclusion DEF slotVars, handlerVars
<1> QED BY <1>3, <1>7, <1>8, <1>9, <1>10 DEF NoFault

LEMMA AnswerSlot ==
  ASSUME TypeInv, Order, SlotInv, ReadAnswer
  PROVE  SlotInv'
<1> USE DEF SlotInv, ReadAnswer, At
<1>1. /\ pc \in PCs /\ queue \in Seq(Request) /\ pushed \in Nat
      /\ air \in SUBSET Request
  BY DEF TypeInv, TypeOK
<1>2. PICK r \in air : /\ air' = air \ {r}
                       /\ frame' = [type |-> AnswerType(r.kind), id |-> r.id,
                                    n |-> r.n, packet |-> "none"]
  OBVIOUS
<1>3. /\ pc'["handler"] = "attach" /\ pc'["main"] = pc["main"]
      /\ pc'["dispatcher"] = pc["dispatcher"] /\ (Writing' <=> Writing)
  BY <1>1, GotoHandler DEF HandlerPCs, Writing
<1>4. /\ r.id \in Slots /\ r.n >= 1 /\ r.n \in Nat /\ r \in Pending
      /\ comms[r.id].origFrame = r.n
  BY <1>1, IdRanges DEF InSlot, Pending, Request
<1>5. /\ frame'.type = "at" /\ frame'.id = r.id /\ frame'.n = r.n
  BY <1>2 DEF AnswerType, CommandsOnly
<1>6. Pending' \subseteq Pending \ {r}
  <2>1. r \notin Queued
    BY <1>1, <1>4 DEF Queued, InSlot, Order
  <2>2. Writing => r # disp
    BY <1>1, <1>2 DEF InSlot, Request
  <2> QED BY <1>2, <1>3, <2>1, <2>2
          DEF Pending, Queued, BeingWritten, Writing, queueVars
<1>7. CommandsOnly'
  BY <1>2, <1>3, <1>4, <1>5 DEF CommandsOnly, queueVars
<1>8. InSlot'
  BY <1>2, <1>3, <1>4, <1>5 DEF InSlot, slotVars, queueVars, Answering
<1>9. InHand'
  BY <1>3 DEF InHand
<1>10. SlotExclusive' /\ PendingIsClaimed'
  BY <1>4, <1>5, <1>6 DEF SlotExclusive, PendingIsClaimed, Answering, slotVars
<1> QED BY <1>7, <1>8, <1>9, <1>10 DEF NoFault

LEMMA UnsolicitedSlot ==
  ASSUME ReportsOnly, TypeInv, SlotInv, ReadUnsolicited
  PROVE  SlotInv'
<1> USE DEF SlotInv, ReadUnsolicited, At
<1>1. pc \in PCs
  BY DEF TypeInv, TypeOK
<1>2. /\ pc'["handler"] = "attach" /\ pc'["main"] = pc["main"]
      /\ pc'["dispatcher"] = pc["dispatcher"] /\ (Writing' <=> Writing)
  BY <1>1, GotoHandler DEF HandlerPCs, Writing
<1>3. /\ frame'.type \in {"rx", "modem"} /\ frame'.n = 0 /\ frame'.id \notin Slots
      /\ frame'.type = "rx" => frame'.packet \in {"rev0_report", "rev1_report"}
  BY DEF ReportsOnly
<1>4. Pending' = Pending
  BY <1>2, PendingSame DEF queueVars
<1>5. CommandsOnly'
  BY <1>2, <1>3 DEF CommandsOnly, queueVars
<1>6. InSlot'
  BY <1>2, <1>3 DEF InSlot, slotVars, queueVars, Answering
<1>7. InHand'
  BY <1>2 DEF InHand
<1>8. SlotExclusive' /\ PendingIsClaimed'
  BY <1>3, <1>4, Exclusion DEF slotVars
<1> QED BY <1>5, <1>6, <1>7, <1>8 DEF NoFault

LEMMA LoseSlot ==
  ASSUME TypeInv, SlotInv, LoseAnswer
  PROVE  SlotInv'
<1> USE DEF SlotInv, LoseAnswer
<1>1. air' \subseteq air /\ (Writing' <=> Writing)
  BY DEF Writing
<1>2. Pending' \subseteq Pending
  BY <1>1 DEF Pending, Queued, BeingWritten, Writing, queueVars
<1>3. CommandsOnly'
  BY <1>1 DEF CommandsOnly, queueVars, handlerVars
<1>4. InSlot'
  BY <1>1 DEF InSlot, slotVars, queueVars, handlerVars, Answering
<1>5. InHand'
  BY <1>2 DEF InHand, slotVars
<1>6. SlotExclusive' /\ PendingIsClaimed'
  BY <1>2, Exclusion DEF slotVars, handlerVars
<1> QED BY <1>3, <1>4, <1>5, <1>6 DEF NoFault

LEMMA AttachSlot ==
  ASSUME TypeInv, SlotInv, Attach
  PROVE  SlotInv'
<1> USE DEF SlotInv
<1>0. /\ Goto("handler", "handle") /\ pc["handler"] = "attach" /\ fault = "none"
      /\ UNCHANGED <<bits, queueVars, radioVars, reg, fre, disp, handlerVars, mainVars,
                     fault>>
      /\ comms' = IF frame.id \in Slots
                  THEN [comms EXCEPT ![frame.id].replyFrame = TRUE] ELSE comms
  BY Zenon DEF Attach, At
<1>1. pc \in PCs /\ comms \in [Slots -> Slot]
  BY DEF TypeInv, TypeOK
<1>2. /\ pc'["handler"] = "handle" /\ pc'["main"] = pc["main"]
      /\ pc'["dispatcher"] = pc["dispatcher"] /\ (Writing' <=> Writing)
  BY <1>0, <1>1, GotoHandler DEF HandlerPCs, Writing
<1>3. \A t \in Slots : /\ comms'[t].origFrame = comms[t].origFrame
                       /\ t = frame.id => comms'[t].replyFrame
  <2>1. CASE frame.id \in Slots
    <3>1. comms' = [comms EXCEPT ![frame.id].replyFrame = TRUE]
      BY <1>0, <2>1
    <3> QED BY <1>1, <3>1, ReplyOnly
  <2>2. CASE frame.id \notin Slots
    BY <1>0, <2>2
  <2> QED BY <2>1, <2>2
<1>4. Pending' = Pending
  BY <1>0, <1>2, PendingSame DEF queueVars, radioVars
<1>5. CommandsOnly'
  BY <1>0, <1>2 DEF CommandsOnly, queueVars, radioVars, handlerVars
<1>6. InSlot'
  <2>1. UNCHANGED <<queueVars, radioVars, disp, handlerVars>>
    BY <1>0
  <2>2. Answering => frame.id \in Slots
    BY DEF Answering, CommandsOnly
  <2>3. frame' = frame
    BY <2>1 DEF handlerVars
  <2>4. (Answering /\ pc["handler"] = "handle" => comms[frame.id].replyFrame)'
    <3> SUFFICES ASSUME Answering PROVE comms'[frame.id].replyFrame
      BY <2>3, Zenon DEF Answering
    <3> QED BY <1>3, <2>2, Zenon
  <2> QED BY <1>2, <1>3, <2>1, <2>2, <2>3, <2>4, IdRanges
          DEF InSlot, queueVars, radioVars, handlerVars, Answering, Writing
<1>7. InHand'
  BY <1>0, <1>2 DEF InHand
<1>8. SlotExclusive' /\ PendingIsClaimed'
  BY <1>0, <1>4, Exclusion DEF handlerVars
<1> QED BY <1>0, <1>5, <1>6, <1>7, <1>8 DEF NoFault

LEMMA HandleSlot ==
  ASSUME TypeInv, SlotInv, HandleFrame
  PROVE  SlotInv'
<1> USE DEF SlotInv, HandleFrame, At
<1>1. pc \in PCs /\ comms \in [Slots -> Slot]
  BY DEF TypeInv, TypeOK
<1>2. /\ pc'["handler"] = IF frame.type = "rx" THEN "register" ELSE "finish"
      /\ pc'["main"] = pc["main"] /\ pc'["dispatcher"] = pc["dispatcher"]
      /\ Writing' <=> Writing
  BY <1>1, GotoHandler DEF HandlerPCs, Writing
<1>3. \A t \in Slots : comms'[t].origFrame = comms[t].origFrame
  <2>1. CASE frame.type = "at"
    <3>1. comms' = [comms EXCEPT ![frame.id].replyData = frame.n]
      BY <2>1
    <3> QED BY <1>1, <3>1, DataOnly
  <2>2. CASE frame.type # "at"
    BY <2>2
  <2> QED BY <2>1, <2>2
<1>4. todo' \in Seq({"command"})
  <2>1. CASE frame.type = "rx"
    <3>1. <<>> \in Seq({"command"}) /\ <<"command">> \in Seq({"command"})
      OBVIOUS
    <3>2. todo' = Reaction(frame.packet)
      BY <2>1
    <3> QED BY <2>1, <3>1, <3>2
            DEF CommandsOnly, Reaction, HandlePacketRev0, HandlePacketRev1
  <2>2. CASE frame.type # "rx"
    BY <2>2 DEF CommandsOnly
  <2> QED BY <2>1, <2>2
<1>5. Pending' = Pending
  BY <1>2, PendingSame DEF queueVars, radioVars
<1>6. CommandsOnly'
  BY <1>2, <1>4 DEF CommandsOnly, queueVars, radioVars
<1>7. InSlot'
  BY <1>2, <1>3, IdRanges
     DEF InSlot, queueVars, radioVars, Answering, CommandsOnly, Writing
<1>8. InHand'
  BY <1>2 DEF InHand
<1>9. SlotExclusive' /\ PendingIsClaimed'
  BY <1>5, Exclusion
<1> QED BY <1>6, <1>7, <1>8, <1>9 DEF NoFault

LEMMA GarbledSlot ==
  ASSUME TypeInv, SlotInv, HandleGarbled
  PROVE  SlotInv'
<1> USE DEF SlotInv, HandleGarbled, At
<1>1. pc \in PCs
  BY DEF TypeInv, TypeOK
<1>2. /\ pc'["handler"] = "frame" /\ pc'["main"] = pc["main"]
      /\ pc'["dispatcher"] = pc["dispatcher"] /\ (Writing' <=> Writing)
  BY <1>1, GotoHandler DEF HandlerPCs, Writing
<1>3. frame'.type = "none" /\ frame'.n = 0 /\ frame'.id = 0
  BY DEF NoFrame
<1>4. Pending' = Pending
  BY <1>2, PendingSame DEF queueVars, radioVars
<1>5. CommandsOnly'
  BY <1>2, <1>3 DEF CommandsOnly, queueVars, radioVars
<1>6. InSlot'
  BY <1>2, <1>3 DEF InSlot, slotVars, queueVars, radioVars, Answering
<1>7. InHand'
  BY <1>2 DEF InHand
<1>8. SlotExclusive' /\ PendingIsClaimed'
  BY <1>3, <1>4, Exclusion DEF slotVars
<1> QED BY <1>5, <1>6, <1>7, <1>8 DEF NoFault

LEMMA PacketDoneSlot ==
  ASSUME TypeInv, SlotInv, PacketDone
  PROVE  SlotInv'
<1> USE DEF SlotInv, PacketDone, At
<1>1. pc \in PCs
  BY DEF TypeInv, TypeOK
<1>2. /\ pc'["handler"] = "finish" /\ pc'["main"] = pc["main"]
      /\ pc'["dispatcher"] = pc["dispatcher"] /\ (Writing' <=> Writing)
  BY <1>1, GotoHandler DEF HandlerPCs, Writing
<1>3. Pending' = Pending
  BY <1>2, PendingSame DEF queueVars, radioVars
<1>4. CommandsOnly'
  BY <1>2 DEF CommandsOnly, queueVars, radioVars, handlerVars
<1>5. InSlot'
  BY <1>2 DEF InSlot, slotVars, queueVars, radioVars, handlerVars, Answering
<1>6. InHand'
  BY <1>2 DEF InHand
<1>7. SlotExclusive' /\ PendingIsClaimed'
  BY <1>3, Exclusion DEF slotVars, handlerVars
<1> QED BY <1>4, <1>5, <1>6, <1>7 DEF NoFault

LEMMA FinishSlot ==
  ASSUME TypeInv, SlotInv, Finish
  PROVE  SlotInv'
<1> USE DEF SlotInv, Finish, At
<1>1. pc \in PCs /\ comms \in [Slots -> Slot]
  BY DEF TypeInv, TypeOK
<1>2. /\ pc'["handler"] = IF frame.id \in Slots THEN "test" ELSE "frame"
      /\ pc'["main"] = pc["main"] /\ pc'["dispatcher"] = pc["dispatcher"]
      /\ Writing' <=> Writing
  BY <1>1, GotoHandler DEF HandlerPCs, Writing
<1>3. \/ frame.id \in Slots /\ frame' = frame
      \/ frame'.type = "none" /\ frame'.n = 0 /\ frame'.id = 0
  <2>1. NoFrame.type = "none" /\ NoFrame.n = 0 /\ NoFrame.id = 0
    BY DEF NoFrame
  <2>2. CASE frame.id \in Slots
    BY <2>2, Zenon
  <2>3. CASE frame.id \notin Slots
    <3>1. frame' = NoFrame
      BY <2>3
    <3> QED BY <2>1, <3>1
  <2> QED BY <2>2, <2>3
<1>4. \A t \in Slots : comms'[t].origFrame = comms[t].origFrame
  <2>1. CASE frame.id \in Slots
    <3>1. comms' = [comms EXCEPT ![frame.id].finished = 1]
      BY <2>1
    <3> QED BY <1>1, <3>1, FinishedOnly
  <2>2. CASE frame.id \notin Slots
    BY <2>2
  <2> QED BY <2>1, <2>2
<1>5. Pending' = Pending
  BY <1>2, PendingSame DEF queueVars, radioVars
<1>6. CommandsOnly'
  <2>1. CASE frame' = frame /\ frame.id \in Slots
    BY <1>2, <2>1 DEF CommandsOnly, queueVars, radioVars
  <2>2. CASE frame.id \notin Slots
    BY <1>2, <1>3, <2>2 DEF CommandsOnly, queueVars, radioVars
  <2> QED BY <1>3, <2>1, <2>2
<1>7. InSlot'
  BY <1>2, <1>3, <1>4, IdRanges DEF InSlot, queueVars, radioVars, Answering, Writing
<1>8. InHand'
  BY <1>2 DEF InHand
<1>9. SlotExclusive' /\ PendingIsClaimed'
  BY <1>3, <1>5, Exclusion
<1> QED BY <1>6, <1>7, <1>8, <1>9 DEF NoFault

LEMMA TestFreeSlot ==
  ASSUME TypeInv, SlotInv, TestFree
  PROVE  SlotInv'
<1> USE DEF SlotInv, At
<1>1. /\ pc \in PCs /\ fre \in [Callers -> FreeCall] /\ frame.n \in Nat
      /\ pc["handler"] = "test" /\ fault = "none"
  BY DEF TypeInv, TypeOK, Frames, TestFree
<1>2. /\ frame.id \in Slots /\ Answering /\ comms[frame.id].origFrame = frame.n
      /\ frame.n > 0
  BY <1>1 DEF TypeInv, Control, CommandsOnly, Answering, InSlot
<1>3. \/ Goto("handler", "frame") /\ UNCHANGED <<fre, fault>>
      \/ /\ Goto("handler", "free") /\ UNCHANGED fault
         /\ fre' = [fre EXCEPT !["handler"].slot = frame.id]
  <2>1. comms[frame.id].origFrame # Blank /\ comms[frame.id].origFrame # Raw
    BY <1>1, <1>2
  <2> QED BY <2>1, Zenon DEF TestFree
<1>4. UNCHANGED <<slotVars, queueVars, radioVars, reg, disp, todo, mainVars>>
     /\ frame'.type = "none" /\ frame'.n = 0 /\ frame'.id = 0
  BY DEF TestFree, NoFrame
<1>5. /\ pc'["handler"] \in {"frame", "free"} /\ pc'["main"] = pc["main"]
      /\ pc'["dispatcher"] = pc["dispatcher"] /\ (Writing' <=> Writing)
      /\ pc'["handler"] = "free" => fre'["handler"].slot = frame.id
  BY <1>1, <1>3, GotoHandler DEF HandlerPCs, Writing, FreeCall
<1>6. Pending' = Pending
  BY <1>4, <1>5, PendingSame DEF queueVars, radioVars
<1>7. CommandsOnly'
  BY <1>4, <1>5 DEF CommandsOnly, queueVars, radioVars
<1>8. InSlot'
  BY <1>4, <1>5 DEF InSlot, slotVars, queueVars, radioVars, Answering
<1>9. InHand'
  BY <1>2, <1>4, <1>5, <1>6
     DEF InHand, SlotExclusive, PendingIsClaimed, slotVars
<1>10. SlotExclusive' /\ PendingIsClaimed'
  BY <1>4, <1>6, Exclusion DEF slotVars
<1> QED BY <1>3, <1>7, <1>8, <1>9, <1>10 DEF NoFault

LEMMA FreedSlot == ASSUME TypeInv, SlotInv PROVE ~HandleFreed
BY DEF SlotInv, CommandsOnly, InSlot, Answering, HandleFreed, At

LEMMA NotMain ==
  ASSUME SlotInv
  PROVE  ~Main /\ ~DoubleDelete /\ ~TransmitWrite /\ ~TransmitAlloc /\ ~TransmitCopy
<1>1. pc["main"] = "done" /\ pc["dispatcher"] \notin {"txWrite", "txAlloc", "txCopy"}
  BY DEF SlotInv, CommandsOnly
<1>2. ~DoubleDelete /\ ~TransmitWrite /\ ~TransmitAlloc /\ ~TransmitCopy
  BY <1>1 DEF DoubleDelete, TransmitWrite, TransmitAlloc, TransmitCopy, At
<1>3. ~Main
  BY <1>1 DEF Main, RegisterScan, RegisterClaim, MainPush, MainWait, MainSpin, MainGet,
     MainReadData, FreeGet, FreeFields, MainFreeBit, FreeBit, At
<1> QED BY <1>2, <1>3

LEMMA StutterSlot == ASSUME SlotInv, UNCHANGED vars PROVE SlotInv'
BY DEF SlotInv, CommandsOnly, InSlot, InHand, SlotExclusive, PendingIsClaimed, NoFault,
   Pending, Queued, BeingWritten, Answering, Writing, vars

LEMMA StepSlot ==
  ASSUME ReportsOnly, TypeInv, Order, SlotInv, [Next]_vars
  PROVE  SlotInv'
<1>1. CASE HandlerWork
  BY <1>1, AnswerSlot, AttachSlot, HandleSlot, GarbledSlot, FreedSlot, PacketDoneSlot,
     FinishSlot, TestFreeSlot, ScanSlot, ClaimSlot, PushSlot, FreeGetSlot,
     FreeFieldsSlot, FreeBitSlot DEF HandlerWork
<1>2. CASE Dispatcher
  BY <1>2, CheckSlot, PopSlot, AllocSlot, FrameSlot, WriteSlot, NotMain DEF Dispatcher
<1>3. CASE ReadUnsolicited \/ LoseAnswer
  BY <1>3, UnsolicitedSlot, LoseSlot
<1>4. CASE UNCHANGED vars
  BY <1>4, StutterSlot
<1> QED BY <1>1, <1>2, <1>3, <1>4, NotMain DEF Next

LEMMA OrderAlways == Spec => []Order
<1>1. Init => Order
  BY DEF Init, Order, Writing
<1>2. TypeInv /\ Order /\ [Next]_vars => Order'
  BY StepOrder
<1> QED BY <1>1, <1>2, TypingInductive, PTL DEF Spec

LEMMA SlotAlways == ASSUME ReportsOnly PROVE Spec => []SlotInv
<1>1. Init => SlotInv
  BY SlotInvInit
<1>2. TypeInv /\ Order /\ SlotInv /\ [Next]_vars => SlotInv'
  BY StepSlot
<1> QED BY <1>1, <1>2, TypingInductive, OrderAlways, PTL DEF Spec

\* While sensors only report, and whatever answers are lost or damaged, two
\* requests in progress never share a frame id (registerRequest, freeCommStruct).
THEOREM SlotsAreExclusive == ASSUME ReportsOnly PROVE Spec => []SlotExclusive
BY SlotAlways, PTL DEF SlotInv

\* While sensors only report, the allocation bit of a request in progress stays
\* set, so registerRequest never hands its slot to another one.
THEOREM SlotsStayClaimed == ASSUME ReportsOnly PROVE Spec => []PendingIsClaimed
BY SlotAlways, PTL DEF SlotInv

\* While sensors only report, no thread goes through a NULL structure, frame or
\* data, and freeCommStruct deletes nothing twice.
THEOREM ReportsAreHarmless == ASSUME ReportsOnly PROVE Spec => []NoFault
BY SlotAlways, PTL DEF SlotInv
-----------------------------------------------------------------------------
(* No slot is lost while every answer arrives undamaged.                   *)

\* A claimed slot stays accounted for when whoever has it keeps it.
LEMMA StillHeld ==
  ASSUME AllHeld, bits' = bits, \A r \in Pending : r.id # 0 => r \in Pending',
         Answering => Answering' /\ frame'.id = frame.id,
         pc["handler"] = "push" =>
           pc'["handler"] = "push" /\ reg'["handler"].slot = reg["handler"].slot,
         Freeing => Freeing' /\ fre'["handler"].slot = fre["handler"].slot
  PROVE  AllHeld'
BY DEF AllHeld

LEMMA StillDispatched ==
  ASSUME TypeInv, SlotInv, Dispatched,
         \A t \in Slots : comms'[t].id = comms[t].id /\ comms'[t].waiting = comms[t].waiting,
         Writing' => Writing /\ disp' = disp, air' \subseteq air,
         Answering' => Answering /\ frame' = frame
  PROVE  Dispatched'
<1>1. /\ Writing => disp.id \in Slots
      /\ \A r \in air : r.id \in Slots
      /\ Answering => frame.id \in Slots
  BY IdRanges DEF SlotInv, CommandsOnly, Answering
<1> QED BY <1>1 DEF Dispatched

\* The steps that leave the bits and the requests alone.
LEMMA QuietHeld ==
  ASSUME TypeInv, SlotInv, LeakInv,
         \/ RegisterScan("handler") \/ PacketDone \/ FreeGet("handler")
         \/ DispatchCheck \/ DispatchArm \/ DispatchTimeout
  PROVE  LeakInv'
<1>1. pc \in PCs /\ reg \in [Callers -> RegCall]
  BY DEF TypeInv, TypeOK
<1>2. /\ UNCHANGED <<bits, comms, queue, air, disp, frame, fre>>
      /\ reg' = reg \/ pc["handler"] = "register"
  BY DEF RegisterScan, PacketDone, DispatchCheck, DispatchArm, DispatchTimeout, FreeGet, At,
     slotVars, queueVars, radioVars, handlerVars
<1>3. /\ pc["handler"] = "push" => pc'["handler"] = "push"
      /\ Freeing => Freeing'
      /\ Writing' <=> Writing
  BY <1>1 DEF RegisterScan, PacketDone, DispatchCheck, DispatchArm, DispatchTimeout, FreeGet,
     At, Goto, PCs, Freeing, Writing
<1>4. Pending' = Pending
  BY <1>2, <1>3, PendingSame
<1> QED BY <1>2, <1>3, <1>4, StillHeld, StillDispatched DEF LeakInv, Answering

LEMMA ClearedOnly ==
  ASSUME comms \in [Slots -> Slot], NEW s, NEW t \in Slots
  PROVE  LET c == [comms EXCEPT ![s].replyData = NULL, ![s].origFrame = NULL,
                                ![s].replyFrame = FALSE] IN
         c[t].id = comms[t].id /\ c[t].waiting = comms[t].waiting
<1> DEFINE c1 == [comms EXCEPT ![s].replyData = NULL]
           c2 == [c1 EXCEPT ![s].origFrame = NULL]
           c3 == [c2 EXCEPT ![s].replyFrame = FALSE]
<1>1. c1 \in [Slots -> Slot] /\ c1[t].id = comms[t].id /\ c1[t].waiting = comms[t].waiting
  <2>1. c1 \in [Slots -> Slot]
    BY ReplyDataType
  <2>2. c1[t].id = comms[t].id /\ c1[t].waiting = comms[t].waiting
    BY DataOnly
  <2> QED BY <2>1, <2>2
<1>2. c2 \in [Slots -> Slot] /\ c2[t].id = c1[t].id /\ c2[t].waiting = c1[t].waiting
  <2> HIDE DEF c1
  <2>1. ASSUME s \in Slots PROVE [c1[s] EXCEPT !.origFrame = NULL] \in Slot
    BY <1>1, <2>1 DEF Slot
  <2>2. CASE t = s
    BY <1>1, <2>1, <2>2 DEF Slot
  <2>3. CASE t # s
    BY <1>1, <2>1, <2>3
  <2> QED BY <2>2, <2>3
<1>3. c3[t].id = c2[t].id /\ c3[t].waiting = c2[t].waiting
  <2> HIDE DEF c2
  <2>2. CASE t = s
    BY <1>2, <2>2 DEF Slot
  <2>3. CASE t # s
    BY <1>2, <2>3
  <2> QED BY <2>2, <2>3
<1> QED BY <1>1, <1>2, <1>3

\* The steps that write fields of a slot, but neither its id nor waiting.
LEMMA FieldsHeld ==
  ASSUME TypeInv, SlotInv, LeakInv,
         \/ Attach \/ HandleFrame \/ Finish \/ FreeFields("handler")
         \/ CommandAlloc \/ CommandFrame
  PROVE  LeakInv'
<1>1. /\ pc \in PCs /\ comms \in [Slots -> Slot] /\ fre \in [Callers -> FreeCall]
  BY DEF TypeInv, TypeOK
<1>2. UNCHANGED <<bits, queue, air, disp, reg>>
  BY DEF Attach, HandleFrame, Finish, FreeFields, CommandAlloc, CommandFrame, queueVars,
     radioVars
<1>3. /\ frame' = frame \/ (~Answering /\ frame'.n = 0)
      /\ fre'["handler"].slot = fre["handler"].slot
  <2>1. Finish => frame' = frame \/ (~Answering /\ frame'.n = 0)
    <3>1. NoFrame.n = 0 /\ (frame.id \notin Slots => ~Answering)
      BY DEF NoFrame, SlotInv, CommandsOnly, Answering
    <3>2. Finish => frame' = frame \/ (frame.id \notin Slots /\ frame' = NoFrame)
      BY Zenon DEF Finish
    <3> QED BY <3>1, <3>2
  <2>2. ~Finish => frame' = frame
    BY DEF Attach, HandleFrame, FreeFields, CommandAlloc, CommandFrame, handlerVars
  <2>3. fre'["handler"].slot = fre["handler"].slot
    <3>1. FreeFields("handler") => fre' = [fre EXCEPT !["handler"].word = bits]
      BY Zenon DEF FreeFields
    <3>2. ~FreeFields("handler") => fre' = fre
      BY Zenon DEF Attach, HandleFrame, Finish, CommandAlloc, CommandFrame
    <3> QED BY <1>1, <3>1, <3>2 DEF FreeCall
  <2> QED BY <2>1, <2>2, <2>3
<1>4. /\ pc["handler"] = "push" => pc'["handler"] = "push"
      /\ Freeing => Freeing'
      /\ Writing' <=> Writing
  BY <1>1 DEF Attach, HandleFrame, Finish, FreeFields, CommandAlloc, CommandFrame,
     At, Goto, PCs, Freeing, Writing
<1>5. \A t \in Slots : comms'[t].id = comms[t].id /\ comms'[t].waiting = comms[t].waiting
  <2>1. CASE comms' = comms
    BY <2>1
  <2>2. ASSUME NEW s, NEW v, comms' = [comms EXCEPT ![s].replyFrame = v]
        PROVE  \A t \in Slots : comms'[t].id = comms[t].id /\ comms'[t].waiting = comms[t].waiting
    BY <1>1, <2>2, ReplyOnly
  <2>3. ASSUME NEW s, NEW v, comms' = [comms EXCEPT ![s].replyData = v]
        PROVE  \A t \in Slots : comms'[t].id = comms[t].id /\ comms'[t].waiting = comms[t].waiting
    BY <1>1, <2>3, DataOnly
  <2>4. ASSUME NEW s, NEW v, comms' = [comms EXCEPT ![s].finished = v]
        PROVE  \A t \in Slots : comms'[t].id = comms[t].id /\ comms'[t].waiting = comms[t].waiting
    BY <1>1, <2>4, FinishedOnly
  <2>5. ASSUME NEW s, NEW v, comms' = [comms EXCEPT ![s].origFrame = v]
        PROVE  \A t \in Slots : comms'[t].id = comms[t].id /\ comms'[t].waiting = comms[t].waiting
    BY <1>1, <2>5, OrigFrameOnly
  <2>6. ASSUME NEW s, comms' = [comms EXCEPT ![s].replyData = NULL, ![s].origFrame = NULL,
                                             ![s].replyFrame = FALSE]
        PROVE  \A t \in Slots : comms'[t].id = comms[t].id /\ comms'[t].waiting = comms[t].waiting
    BY <1>1, <2>6, ClearedOnly
  <2>7. CASE Attach
    BY <2>1, <2>2, <2>7, Zenon DEF Attach
  <2>8. CASE HandleFrame
    BY <2>1, <2>3, <2>8, Zenon DEF HandleFrame
  <2>9. CASE Finish
    BY <2>1, <2>4, <2>9, Zenon DEF Finish
  <2>10. CASE FreeFields("handler")
    BY <2>6, <2>10, Zenon DEF FreeFields
  <2>11. CASE CommandAlloc
    BY <2>5, <2>11, Zenon DEF CommandAlloc
  <2>12. CASE CommandFrame
    BY <2>1, <2>5, <2>12, Zenon DEF CommandFrame
  <2> QED BY <2>7, <2>8, <2>9, <2>10, <2>11, <2>12
<1>6. Pending' = Pending
  BY <1>2, <1>4, PendingSame
<1>7. Answering => Answering' /\ frame'.id = frame.id
  BY <1>3 DEF Answering
<1>8. Answering' => Answering /\ frame' = frame
  BY <1>3 DEF Answering
<1> QED BY <1>2, <1>3, <1>4, <1>5, <1>6, <1>7, <1>8, StillHeld, StillDispatched DEF LeakInv

LEMMA ClaimHeld ==
  ASSUME TypeInv, SlotInv, LeakInv, RegisterClaim("handler")
  PROVE  LeakInv'
<1> USE DEF RegisterClaim, At
<1> DEFINE s == reg["handler"].slot
<1>1. /\ pc \in PCs /\ reg \in [Callers -> RegCall] /\ comms \in [Slots -> Slot]
      /\ bits \in [Slots -> BOOLEAN] /\ s \in 0..NumSlots
  BY DEF TypeInv, TypeOK, RegCall
<1>2. /\ pc'["handler"] = "push" /\ pc'["dispatcher"] = pc["dispatcher"]
      /\ Writing' <=> Writing
  BY <1>1, GotoHandler DEF HandlerPCs, Writing
<1>3. reg'["handler"].slot = s
  BY <1>1
<1>4. Pending' = Pending
  BY <1>2, PendingSame DEF queueVars, radioVars
<1>5. bits' = IF s = 0 THEN bits ELSE [bits EXCEPT ![s] = TRUE]
  BY <1>1 DEF SlotInv, InHand, StoreBit, slotVars
<1>6. \A t \in Slots : comms'[t].id = comms[t].id /\ comms'[t].waiting = 0
  <2>1. CASE s = 0
    BY <2>1 DEF slotVars, LeakInv, Dispatched
  <2>2. CASE s # 0
    <3>1. comms' = [comms EXCEPT ![s].waiting = 0]
      BY <2>2
    <3> HIDE DEF s
    <3>2. \A t \in Slots : comms'[t].id = comms[t].id
      BY <1>1, <3>1, WaitingOnly
    <3>3. ASSUME NEW t \in Slots PROVE comms'[t].waiting = 0
      <4>1. CASE t = s
        BY <1>1, <3>1, <4>1 DEF Slot
      <4>2. CASE t # s
        BY <1>1, <3>1, <4>2 DEF LeakInv, Dispatched
      <4> QED BY <4>1, <4>2
    <3> QED BY <3>2, <3>3
  <2> QED BY <2>1, <2>2
<1>7. UNCHANGED <<air, disp, frame>>
  BY DEF radioVars, handlerVars
<1>8. \A t \in Slots : comms'[t].waiting = comms[t].waiting
  BY <1>6 DEF LeakInv, Dispatched
<1>9. Dispatched'
  BY <1>2, <1>6, <1>7, <1>8, StillDispatched DEF LeakInv, Answering
<1>10. AllHeld'
  <2> SUFFICES ASSUME NEW t \in Slots, bits'[t]
               PROVE  \/ \E r \in Pending' : r.id = t
                      \/ Answering' /\ frame'.id = t
                      \/ pc'["handler"] = "push" /\ reg'["handler"].slot = t
    BY DEF AllHeld
  <2>1. CASE t = s
    BY <1>2, <1>3, <2>1
  <2>2. CASE t # s
    <3>1. bits[t]
      BY <1>1, <1>5, <2>2
    <3> QED BY <1>4, <1>7, <3>1 DEF LeakInv, AllHeld, Answering, Freeing
  <2> QED BY <2>1, <2>2
<1> QED BY <1>9, <1>10 DEF LeakInv

LEMMA PushHeld ==
  ASSUME TypeInv, SlotInv, LeakInv, HandlerPush
  PROVE  LeakInv'
<1> USE DEF HandlerPush, At
<1> DEFINE s == reg["handler"].slot
           q == [n |-> pushed + 1, id |-> s, kind |-> reg["handler"].kind]
<1>1. /\ pc \in PCs /\ queue \in Seq(Request) /\ reg \in [Callers -> RegCall]
      /\ pushed \in Nat
  BY DEF TypeInv, TypeOK
<1>2. Writing' <=> Writing
  BY <1>1 DEF PCs, Signalled, Writing
<1>3. queue' = Append(queue, q) /\ q \in Request /\ q.id = s
  BY <1>1 DEF Enqueue, RegCall, Request
<1> HIDE DEF q
<1>4. /\ Len(queue') = Len(queue) + 1
      /\ \A i \in 1..Len(queue') : queue'[i] = IF i <= Len(queue) THEN queue[i] ELSE q
  BY <1>1, <1>3
<1>5. Pending \subseteq Pending' /\ q \in Pending'
  <2>1. Queued \subseteq Queued' /\ q \in Queued'
    BY <1>1, <1>4 DEF Queued
  <2> QED BY <1>2, <2>1 DEF Pending, BeingWritten, Writing, radioVars
<1>6. UNCHANGED <<bits, comms, air, disp, frame>>
  BY DEF slotVars, radioVars
<1>7. Dispatched'
  BY <1>2, <1>6, StillDispatched DEF LeakInv, Answering
<1>8. AllHeld'
  BY <1>3, <1>5, <1>6 DEF LeakInv, AllHeld, Answering, Freeing
<1> QED BY <1>7, <1>8 DEF LeakInv

LEMMA FreeBitHeld ==
  ASSUME TypeInv, SlotInv, LeakInv, HandlerFreeBit
  PROVE  LeakInv'
<1> USE DEF HandlerFreeBit, FreeBit, At
<1> DEFINE s == fre["handler"].slot
<1>1. /\ pc \in PCs /\ bits \in [Slots -> BOOLEAN] /\ fre \in [Callers -> FreeCall]
  BY DEF TypeInv, TypeOK
<1>2. Writing' <=> Writing
  BY <1>1, GotoHandler DEF HandlerPCs, Writing
<1>3. UNCHANGED <<queue, comms, air, disp, frame>>
  BY DEF queueVars, radioVars
<1>4. Pending' = Pending
  BY <1>2, <1>3, PendingSame
<1>5. bits' = [bits EXCEPT ![s] = FALSE]
  BY <1>1 DEF SlotInv, InHand, StoreBit
<1>6. Dispatched'
  BY <1>2, <1>3, StillDispatched DEF LeakInv, Answering
<1>7. AllHeld'
  <2> SUFFICES ASSUME NEW t \in Slots, bits'[t]
               PROVE  \/ \E r \in Pending' : r.id = t
                      \/ Answering' /\ frame'.id = t
    BY DEF AllHeld
  <2>1. t # s /\ bits[t]
    BY <1>1, <1>5
  <2> QED BY <1>3, <1>4, <2>1 DEF LeakInv, AllHeld, Answering
<1> QED BY <1>6, <1>7 DEF LeakInv

LEMMA PopHeld ==
  ASSUME TypeInv, SlotInv, LeakInv, DispatchPop
  PROVE  LeakInv'
<1> USE DEF DispatchPop, At
<1> DEFINE q == Head(queue)
<1>1. /\ pc \in PCs /\ queue \in Seq(Request) /\ queue # <<>>
      /\ comms \in [Slots -> Slot]
  BY DEF TypeInv, TypeOK, Control
<1>2. /\ q \in Request /\ q = queue[1] /\ 1 \in 1..Len(queue)
      /\ Len(queue') = Len(queue) - 1
      /\ \A i \in 1..Len(queue') : queue'[i] = queue[i + 1]
  BY <1>1
<1>3. q.kind = "command" /\ ~Writing
  BY <1>2 DEF SlotInv, CommandsOnly, Writing
<1> HIDE DEF q
<1>4. /\ pc'["handler"] = pc["handler"]
      /\ pc'["dispatcher"] = IF q.id = 0 THEN "check" ELSE "cmdAlloc"
  BY <1>1, <1>3, GotoDispatcher DEF DispatcherPCs, q
<1>5. /\ Writing' <=> q.id # 0
      /\ q.id # 0 => disp' = q
  BY <1>4 DEF Writing, q
<1>6. \A r \in Pending : r.id # 0 => r \in Pending'
  <2>1. Queued \subseteq Queued' \cup {q}
    <3> SUFFICES ASSUME NEW i \in 1..Len(queue) PROVE queue[i] \in Queued' \cup {q}
      BY DEF Queued
    <3>1. CASE i = 1
      BY <1>2, <3>1
    <3>2. CASE i # 1
      <4>1. i - 1 \in 1..Len(queue') /\ queue'[i - 1] = queue[(i - 1) + 1]
        BY <1>1, <1>2, <3>2
      <4> QED BY <4>1 DEF Queued
    <3> QED BY <3>1, <3>2
  <2>2. q.id # 0 => q \in Pending'
    BY <1>5 DEF Pending, BeingWritten, Writing
  <2>3. BeingWritten = {} /\ air' = air
    BY <1>3 DEF BeingWritten, Writing, radioVars
  <2> QED BY <2>1, <2>2, <2>3 DEF Pending
<1>7. UNCHANGED <<bits, air, frame, reg, fre>>
  BY DEF radioVars, handlerVars
<1>8. /\ \A t \in Slots : /\ comms'[t].waiting = comms[t].waiting
                          /\ comms[t].id # 0 => comms'[t].id # 0
      /\ q.id # 0 => comms'[q.id].id # 0
  <2>1. CASE q.id = 0
    BY <2>1 DEF q
  <2>2. CASE q.id # 0
    <3>1. comms' = [comms EXCEPT ![q.id].id = q.id] /\ q.id \in Slots
      BY <1>2, <2>2 DEF q, Request
    <3> QED BY <1>1, <2>2, <3>1, IdOnly
  <2> QED BY <2>1, <2>2
<1>9. Dispatched'
  <2>1. /\ \A r \in air : r.id \in Slots
        /\ Answering => frame.id \in Slots
    BY IdRanges DEF SlotInv, CommandsOnly, Answering
  <2> QED BY <1>5, <1>7, <1>8, <2>1 DEF LeakInv, Dispatched, Answering
<1>10. AllHeld'
  BY <1>4, <1>6, <1>7, StillHeld DEF LeakInv, Answering, Freeing
<1> QED BY <1>9, <1>10 DEF LeakInv

LEMMA WriteHeld ==
  ASSUME TypeInv, Order, SlotInv, LeakInv, CommandWrite
  PROVE  LeakInv'
<1>1. pc["dispatcher"] = "cmdWrite"
  BY DEF CommandWrite, At
<1>2. /\ pc \in PCs /\ Writing /\ disp \in Request
  BY <1>1 DEF TypeInv, TypeOK, Writing
<1>3. /\ WriteFrame /\ Goto("dispatcher", "check")
      /\ UNCHANGED <<slotVars, queueVars, reg, fre, handlerVars>>
  <2>1. comms[disp.id].origFrame = disp.n /\ disp.n >= 1
    BY <1>1, <1>2 DEF SlotInv, InSlot, Order
  <2>2. comms[disp.id].origFrame # NULL
    BY <1>2, <2>1 DEF Request
  <2> QED BY <2>2, Zenon DEF CommandWrite
<1>4. pc'["handler"] = pc["handler"] /\ ~Writing'
  BY <1>2, <1>3, GotoDispatcher DEF DispatcherPCs, Writing
<1>5. air' = air \cup {disp}
  BY <1>3 DEF WriteFrame
<1>6. Pending' = Pending
  BY <1>2, <1>3, <1>4, <1>5 DEF Pending, Queued, BeingWritten, Writing, queueVars
<1>7. UNCHANGED <<bits, comms, frame, reg, fre>>
  BY <1>3 DEF slotVars, handlerVars
<1>8. Dispatched'
  BY <1>2, <1>4, <1>5, <1>7 DEF LeakInv, Dispatched, Answering
<1>9. AllHeld'
  BY <1>4, <1>6, <1>7, StillHeld DEF LeakInv, Answering, Freeing
<1> QED BY <1>8, <1>9 DEF LeakInv

LEMMA AnswerHeld ==
  ASSUME TypeInv, SlotInv, LeakInv, ReadAnswer
  PROVE  LeakInv'
<1> USE DEF ReadAnswer, At
<1>1. PICK r \in air : /\ air' = air \ {r}
                       /\ frame' = [type |-> AnswerType(r.kind), id |-> r.id,
                                    n |-> r.n, packet |-> "none"]
  OBVIOUS
<1>2. /\ r.id \in Slots /\ r.n # 0
  BY IdRanges DEF SlotInv, InSlot
<1>3. frame'.id = r.id /\ Answering' /\ ~Answering
  BY <1>1, <1>2 DEF Answering, SlotInv, CommandsOnly
<1>4. Writing' <=> Writing
  BY GotoHandler DEF HandlerPCs, Writing, TypeInv, TypeOK
<1>5. Pending \subseteq Pending' \cup {r}
  BY <1>1, <1>4 DEF Pending, Queued, BeingWritten, Writing, queueVars
<1>6. UNCHANGED <<bits, comms, disp>>
  BY DEF slotVars
<1>7. Dispatched'
  BY <1>1, <1>3, <1>4, <1>6 DEF LeakInv, Dispatched
<1>8. AllHeld'
  BY <1>3, <1>5, <1>6 DEF LeakInv, AllHeld, Freeing
<1> QED BY <1>7, <1>8 DEF LeakInv

LEMMA UnsolicitedHeld ==
  ASSUME TypeInv, SlotInv, LeakInv, ReadUnsolicited
  PROVE  LeakInv'
<1> USE DEF ReadUnsolicited, At
<1>1. frame'.n = 0 /\ ~Answering /\ ~Answering'
  BY DEF Answering, SlotInv, CommandsOnly
<1>2. Writing' <=> Writing
  BY GotoHandler DEF HandlerPCs, Writing, TypeInv, TypeOK
<1>3. UNCHANGED <<bits, comms, queue, air, disp>>
  BY DEF slotVars, queueVars
<1>4. Pending' = Pending
  BY <1>2, <1>3, PendingSame
<1>5. Dispatched'
  BY <1>1, <1>2, <1>3, StillDispatched DEF LeakInv
<1>6. AllHeld'
  BY <1>1, <1>3, <1>4, StillHeld DEF LeakInv, Freeing
<1> QED BY <1>5, <1>6 DEF LeakInv

LEMMA TestFreeHeld ==
  ASSUME TypeInv, SlotInv, LeakInv, TestFree
  PROVE  LeakInv'
<1>1. /\ pc \in PCs /\ fre \in [Callers -> FreeCall] /\ frame.n \in Nat
      /\ pc["handler"] = "test" /\ fault = "none"
  BY DEF TypeInv, TypeOK, Frames, TestFree, At
<1>2. /\ frame.id \in Slots /\ Answering /\ comms[frame.id].origFrame = frame.n
      /\ frame.n > 0
  BY <1>1 DEF TypeInv, Control, SlotInv, CommandsOnly, Answering, InSlot
<1>3. comms[frame.id].waiting = 0 /\ comms[frame.id].id # 0
  BY <1>2 DEF LeakInv, Dispatched
<1>4. /\ Goto("handler", "free")
      /\ fre' = [fre EXCEPT !["handler"].slot = frame.id]
  <2>1. /\ comms[frame.id].origFrame # Blank /\ comms[frame.id].origFrame # Raw
        /\ comms[frame.id].origFrame # NULL
    BY <1>1, <1>2
  <2> QED BY <1>3, <2>1, Zenon DEF TestFree
<1>5. UNCHANGED <<bits, comms, queue, air, disp>> /\ frame'.n = 0
  BY DEF TestFree, NoFrame, slotVars, queueVars, radioVars
<1>6. /\ pc'["handler"] = "free" /\ (Writing' <=> Writing)
      /\ fre'["handler"].slot = frame.id
  BY <1>1, <1>4, GotoHandler DEF HandlerPCs, Writing, FreeCall
<1>7. Pending' = Pending
  BY <1>5, <1>6, PendingSame
<1>8. Dispatched'
  BY <1>5, <1>6, StillDispatched DEF LeakInv, Answering
<1>9. AllHeld'
  BY <1>1, <1>5, <1>6, <1>7 DEF LeakInv, AllHeld, Freeing
<1> QED BY <1>8, <1>9 DEF LeakInv

LEMMA StutterHeld == ASSUME LeakInv, UNCHANGED vars PROVE LeakInv'
BY DEF LeakInv, Dispatched, AllHeld, Pending, Queued, BeingWritten, Answering, Writing,
   Freeing, vars

LEMMA StepHeld ==
  ASSUME ~Garbles, ~Loses, TypeInv, Order, SlotInv, LeakInv, [Next]_vars
  PROVE  LeakInv'
<1>1. CASE HandlerWork
  <2>1. ~HandleGarbled
    BY DEF HandleGarbled
  <2> QED BY <1>1, <2>1, AnswerHeld, FieldsHeld, FreedSlot, QuietHeld, TestFreeHeld,
             ClaimHeld, PushHeld, FreeBitHeld DEF HandlerWork
<1>2. CASE Dispatcher
  BY <1>2, QuietHeld, PopHeld, FieldsHeld, WriteHeld, NotMain DEF Dispatcher
<1>3. CASE ReadUnsolicited \/ LoseAnswer
  BY <1>3, UnsolicitedHeld DEF LoseAnswer
<1>4. CASE UNCHANGED vars
  BY <1>4, StutterHeld
<1> QED BY <1>1, <1>2, <1>3, <1>4, NotMain DEF Next

LEMMA HeldInit == Init => LeakInv
BY DEF Init, LeakInv, Dispatched, AllHeld, EmptySlot, NoWord, Writing, Answering, NoFrame

\* While sensors only report and every answer arrives undamaged, a claimed slot
\* always belongs to a request in progress or to the handler inside
\* registerRequest or freeCommStruct: none is lost to the table for ever.
THEOREM NoSlotLeaks ==
  ASSUME ReportsOnly, ~Garbles, ~Loses PROVE Spec => []NoLeakedSlot
<1>1. Init => LeakInv
  BY HeldInit
<1>2. TypeInv /\ Order /\ SlotInv /\ LeakInv /\ [Next]_vars => LeakInv'
  BY StepHeld
<1>3. LeakInv => NoLeakedSlot
  BY DEF LeakInv, AllHeld, NoLeakedSlot, Freeing
<1> QED BY <1>1, <1>2, <1>3, TypingInductive, OrderAlways, SlotAlways, PTL DEF Spec

-----------------------------------------------------------------------------
(* What main waits for.                                                    *)

\* A request on air has a number; between two frames the handler answers nothing;
\* the slot it is about to free is finished.
AnswerInv ==
  /\ \A r \in air : r.n # 0
  /\ pc["handler"] \in {"frame", "free", "freeFields", "freeBit"} => ~Answering
  /\ fault = "none" /\ pc["handler"] = "test" => comms[frame.id].finished = 1

\* Writing another field of a slot leaves finished alone.
LEMMA WriteKeeps ==
  ASSUME comms \in [Slots -> Slot], NEW t \in Slots, NEW s, NEW v,
         \/ comms' = comms
         \/ comms' = [comms EXCEPT ![s].waiting = v]
         \/ comms' = [comms EXCEPT ![s].id = v]
         \/ comms' = [comms EXCEPT ![s].replyFrame = v]
         \/ comms' = [comms EXCEPT ![s].replyData = v]
         \/ comms' = [comms EXCEPT ![s].origFrame = v]
  PROVE  comms'[t].finished = comms[t].finished
<1>1. CASE t = s
  BY <1>1 DEF Slot
<1>2. CASE t # s
  BY <1>2
<1> QED BY <1>1, <1>2

LEMMA ClearedFinished ==
  ASSUME comms \in [Slots -> Slot], NEW s, NEW t \in Slots
  PROVE  [comms EXCEPT ![s].replyData = NULL, ![s].origFrame = NULL,
                       ![s].replyFrame = FALSE][t].finished = comms[t].finished
<1> DEFINE c1 == [comms EXCEPT ![s].replyData = NULL]
           c2 == [c1 EXCEPT ![s].origFrame = NULL]
           c3 == [c2 EXCEPT ![s].replyFrame = FALSE]
<1>1. c1 \in [Slots -> Slot] /\ c1[t].finished = comms[t].finished
  <2>1. c1 \in [Slots -> Slot]
    BY ReplyDataType
  <2>2. c1[t].finished = comms[t].finished
    <3>1. CASE t = s
      BY <3>1 DEF Slot
    <3>2. CASE t # s
      BY <3>2
    <3> QED BY <3>1, <3>2
  <2> QED BY <2>1, <2>2
<1>2. c2 \in [Slots -> Slot] /\ c2[t].finished = c1[t].finished
  <2> HIDE DEF c1
  <2>1. ASSUME s \in Slots PROVE [c1[s] EXCEPT !.origFrame = NULL] \in Slot
    BY <1>1, <2>1 DEF Slot
  <2>2. CASE t = s
    BY <1>1, <2>1, <2>2 DEF Slot
  <2>3. CASE t # s
    BY <1>1, <2>1, <2>3
  <2> QED BY <2>2, <2>3
<1>3. c3[t].finished = c2[t].finished
  <2> HIDE DEF c2
  <2>2. CASE t = s
    BY <1>2, <2>2 DEF Slot
  <2>3. CASE t # s
    BY <1>2, <2>3
  <2> QED BY <2>2, <2>3
<1> QED BY <1>1, <1>2, <1>3

\* No step takes finished back: registerRequest does not reset it either.
LEMMA FinishedStays ==
  ASSUME TypeInv, [Next]_vars, NEW t \in Slots, comms[t].finished = 1
  PROVE  comms'[t].finished = 1
<1>1. comms \in [Slots -> Slot]
  BY DEF TypeInv, TypeOK
<1>2. ASSUME comms' = comms PROVE comms'[t].finished = 1
  BY <1>2
<1>3. ASSUME NEW u \in Callers, RegisterScan(u) \/ RegisterClaim(u) \/ FreeGet(u)
      PROVE  comms'[t].finished = 1
  <2>1. CASE RegisterScan(u) \/ FreeGet(u)
    BY <2>1 DEF RegisterScan, FreeGet, slotVars
  <2>2. CASE RegisterClaim(u)
    <3>1. PICK s : \/ comms' = comms
                   \/ comms' = [comms EXCEPT ![s].waiting = 0]
      BY <2>2 DEF RegisterClaim, slotVars
    <3> QED BY <1>1, <3>1, WriteKeeps
  <2> QED BY <1>3, <2>1, <2>2
<1>4. ASSUME NEW u \in Callers, FreeFields(u) PROVE comms'[t].finished = 1
  BY <1>1, <1>4, ClearedFinished DEF FreeFields
<1>5. CASE MainPush \/ MainGet \/ MainReadData \/ MainFreeBit
  BY <1>5 DEF MainPush, MainGet, MainReadData, MainFreeBit, FreeBit, slotVars
<1>6. CASE MainWait \/ MainSpin
  <2>1. PICK s, v : \/ comms' = comms
                    \/ comms' = [comms EXCEPT ![s].waiting = v]
    <3>1. CASE MainWait
      BY <3>1 DEF MainWait
    <3>2. CASE MainSpin
      BY <3>2 DEF MainSpin
    <3> QED BY <1>6, <3>1, <3>2
  <2> QED BY <1>1, <2>1, WriteKeeps
<1>7. CASE HandlerPush \/ HandlerFreeBit \/ ReadAnswer \/ HandleGarbled \/
           HandleFreed \/ PacketDone \/ TestFree \/ ReadUnsolicited \/
           DoubleDelete \/ LoseAnswer
  BY <1>7 DEF HandlerPush, HandlerFreeBit, FreeBit, ReadAnswer, HandleGarbled,
              HandleFreed, PacketDone, TestFree, ReadUnsolicited, DoubleDelete,
              LoseAnswer, slotVars
<1>8. CASE Attach \/ HandleFrame
  <2>1. PICK s, v : \/ comms' = comms
                    \/ comms' = [comms EXCEPT ![s].replyFrame = v]
                    \/ comms' = [comms EXCEPT ![s].replyData = v]
    <3>1. CASE Attach
      BY <3>1 DEF Attach
    <3>2. CASE HandleFrame
      BY <3>2 DEF HandleFrame
    <3> QED BY <1>8, <3>1, <3>2
  <2>2. CASE comms' = comms
    BY <2>2
  <2>3. CASE comms' = [comms EXCEPT ![s].replyFrame = v]
    BY <1>1, <2>3, WriteKeeps
  <2>4. CASE comms' = [comms EXCEPT ![s].replyData = v]
    BY <1>1, <2>4, WriteKeeps
  <2> QED BY <2>1, <2>2, <2>3, <2>4
<1>9. CASE Finish
  <2>1. CASE t = frame.id
    BY <1>1, <1>9, <2>1 DEF Finish, Slot
  <2>2. CASE t # frame.id
    BY <1>1, <1>9, <2>2 DEF Finish
  <2> QED BY <2>1, <2>2
<1>10. CASE DispatchCheck \/ CommandWrite \/ TransmitWrite \/ DispatchArm \/
            DispatchTimeout
  BY <1>10 DEF DispatchCheck, CommandWrite, TransmitWrite, DispatchArm,
               DispatchTimeout, slotVars
<1>11. CASE DispatchPop \/ CommandAlloc \/ CommandFrame \/ TransmitAlloc \/
            TransmitCopy
  <2>1. PICK s, v : \/ comms' = comms
                    \/ comms' = [comms EXCEPT ![s].id = v]
                    \/ comms' = [comms EXCEPT ![s].origFrame = v]
    <3>1. CASE DispatchPop
      BY <3>1 DEF DispatchPop
    <3>2. CASE CommandAlloc
      BY <3>2 DEF CommandAlloc
    <3>3. CASE CommandFrame
      BY <3>3 DEF CommandFrame
    <3>4. CASE TransmitAlloc
      BY <3>4 DEF TransmitAlloc
    <3>5. CASE TransmitCopy
      BY <3>5 DEF TransmitCopy
    <3> QED BY <1>11, <3>1, <3>2, <3>3, <3>4, <3>5
  <2>2. CASE comms' = comms
    BY <2>2
  <2>3. CASE comms' = [comms EXCEPT ![s].id = v]
    BY <1>1, <2>3, WriteKeeps
  <2>4. CASE comms' = [comms EXCEPT ![s].origFrame = v]
    BY <1>1, <2>4, WriteKeeps
  <2> QED BY <2>1, <2>2, <2>3, <2>4
<1>12. CASE UNCHANGED vars
  BY <1>2, <1>12 DEF vars
<1> QED BY <1>3, <1>4, <1>5, <1>6, <1>7, <1>8, <1>9, <1>10, <1>11, <1>12
        DEF Next, Main, HandlerWork, Dispatcher

\* A step that takes no request a place further and keeps the handler's frame.
Still ==
  /\ UNCHANGED <<queue, air, frame>>
  /\ Writing => Writing' /\ disp' = disp

LEMMA StillOwed == ASSUME Still, NEW s, Owed(s) PROVE Owed(s)'
<1>1. Pending \subseteq Pending'
  BY DEF Still, Pending, Queued, BeingWritten, Writing
<1> QED BY <1>1 DEF Still, Owed, Answering

LEMMA CallersAreStill ==
  ASSUME TypeInv, NEW t \in Callers,
         RegisterScan(t) \/ RegisterClaim(t) \/ FreeGet(t) \/ FreeFields(t)
  PROVE  Still
BY DEF Still, Writing, TypeInv, TypeOK, PCs, Goto, queueVars, radioVars, handlerVars,
       RegisterScan, RegisterClaim, FreeGet, FreeFields

LEMMA MainIsStill ==
  ASSUME TypeInv,
         MainWait \/ MainSpin \/ MainGet \/ MainReadData \/ MainFreeBit \/ DoubleDelete
  PROVE  Still
BY DEF Still, Writing, TypeInv, TypeOK, PCs, Goto, queueVars, radioVars, handlerVars,
       MainWait, MainSpin, MainGet, MainReadData, MainFreeBit, FreeBit, DoubleDelete

LEMMA HandlerIsStill ==
  ASSUME TypeInv, HandlerFreeBit \/ Attach \/ HandleFrame \/ HandleFreed \/ PacketDone
  PROVE  Still
BY DEF Still, Writing, TypeInv, TypeOK, PCs, Goto, queueVars, radioVars, handlerVars,
       HandlerFreeBit, FreeBit, Attach, HandleFrame, HandleFreed, PacketDone

LEMMA DispatcherIsStill ==
  ASSUME TypeInv,
         DispatchCheck \/ CommandAlloc \/ CommandFrame \/ TransmitAlloc \/
         TransmitCopy \/ DispatchArm \/ DispatchTimeout
  PROVE  Still
BY DEF Still, Writing, TypeInv, TypeOK, PCs, Goto, At, queueVars, radioVars,
       handlerVars, DispatchCheck, CommandAlloc, CommandFrame, TransmitAlloc,
       TransmitCopy, DispatchArm, DispatchTimeout

\* A request that enters the queue is owed an answer, and overtakes none that is.
LEMMA PushOwed ==
  ASSUME TypeInv, NEW t \in Callers, Enqueue(t), UNCHANGED <<air, disp, frame>>,
         Writing => Writing'
  PROVE  /\ \A s : Owed(s) => Owed(s)'
         /\ \A s : s = reg[t].slot => Owed(s)'
<1> DEFINE r == [n |-> pushed + 1, id |-> reg[t].slot, kind |-> reg[t].kind]
<1>1. queue \in Seq(Request) /\ queue' = Append(queue, r) /\ r \in Request
  BY DEF TypeInv, TypeOK, Enqueue, Request, RegCall
<1>2. r.id = reg[t].slot
  OBVIOUS
<1> HIDE DEF r
<1>3. Queued \subseteq Queued' /\ r \in Queued'
  <2>1. Len(queue') = Len(queue) + 1 /\ queue'[Len(queue) + 1] = r
    BY <1>1
  <2>2. \A i \in 1..Len(queue) : queue'[i] = queue[i]
    BY <1>1
  <2>3. Len(queue) \in Nat
    BY <1>1
  <2> QED BY <2>1, <2>2, <2>3 DEF Queued
<1>4. Pending \subseteq Pending' /\ r \in Pending'
  BY <1>3 DEF Pending, BeingWritten, Writing
<1> QED BY <1>2, <1>4 DEF Owed, Answering

LEMMA MainPushOwed ==
  ASSUME TypeInv, MainPush
  PROVE  \A s : Owed(s) \/ s = reg["main"].slot => Owed(s)'
<1>1. Enqueue("main") /\ UNCHANGED <<air, disp, frame>>
  BY DEF MainPush, radioVars, handlerVars
<1>2. Writing => Writing'
  BY DEF TypeInv, TypeOK, PCs, MainPush, Signalled, Writing
<1> QED BY <1>1, <1>2, PushOwed DEF Callers

LEMMA HandlerPushOwed ==
  ASSUME TypeInv, HandlerPush PROVE \A s : Owed(s) => Owed(s)'
<1>1. Enqueue("handler") /\ UNCHANGED <<air, disp, frame>>
  BY DEF HandlerPush, radioVars
<1>2. Writing => Writing'
  BY DEF TypeInv, TypeOK, PCs, HandlerPush, Signalled, Writing
<1> QED BY <1>1, <1>2, PushOwed DEF Callers

\* The request the dispatcher takes off the queue is the one it writes next.
LEMMA PopOwed ==
  ASSUME TypeInv, DispatchPop, NEW s \in Slots, Owed(s) PROVE Owed(s)'
<1>1. /\ queue \in Seq(Request) /\ queue # <<>> /\ queue' = Tail(queue)
      /\ ~Writing /\ UNCHANGED <<air, frame>>
  BY DEF TypeInv, TypeOK, Control, DispatchPop, At, Writing, radioVars, handlerVars
<1>2. ASSUME NEW q \in Queued, q # Head(queue) PROVE q \in Queued'
  <2>1. PICK i \in 1..Len(queue) : q = queue[i]
    BY <1>2 DEF Queued
  <2>2. i # 1
    BY <1>1, <1>2, <2>1
  <2>3. i - 1 \in 1..Len(queue') /\ queue'[i - 1] = q
    BY <1>1, <2>1, <2>2
  <2> QED BY <2>3 DEF Queued
<1>3. Head(queue).id # 0 => Head(queue) \in BeingWritten'
  BY DEF TypeInv, TypeOK, PCs, DispatchPop, Goto, BeingWritten
<1>4. ASSUME NEW q \in Pending, q.id = s PROVE q \in Pending'
  <2>1. q.id # 0
    BY <1>4
  <2>2. q \in Queued \/ q \in air
    BY <1>1, <1>4 DEF Pending, BeingWritten, Writing
  <2> QED BY <1>1, <1>2, <1>3, <2>1, <2>2 DEF Pending
<1> QED BY <1>1, <1>4 DEF Owed, Answering

\* What was written is on air.
LEMMA WriteOwed ==
  ASSUME TypeInv, CommandWrite \/ TransmitWrite, NEW s, Owed(s) PROVE Owed(s)'
<1>1. frame' = frame /\ queue' = queue
  BY DEF CommandWrite, TransmitWrite, handlerVars, queueVars
<1>2. Queued' = Queued
  BY <1>1 DEF Queued
<1>3. air \subseteq air' /\ BeingWritten \subseteq air' \cup BeingWritten'
  <2>1. CASE CommandWrite
    BY <2>1 DEF CommandWrite, WriteFrame, radioVars, BeingWritten
  <2>2. CASE TransmitWrite
    BY <2>2 DEF TransmitWrite, WriteFrame, BeingWritten
  <2> QED BY <2>1, <2>2
<1>4. Pending \subseteq Pending'
  BY <1>2, <1>3 DEF Pending
<1> QED BY <1>1, <1>4 DEF Owed, Answering

\* The answer the handler reads has the id of its request.
LEMMA AnswerOwed ==
  ASSUME TypeInv, AnswerInv, ReadAnswer, NEW s, Owed(s) PROVE Owed(s)'
<1>1. PICK r \in air : /\ air' = air \ {r}
                       /\ frame' = [type |-> AnswerType(r.kind), id |-> r.id,
                                    n |-> r.n, packet |-> "none"]
  BY DEF ReadAnswer
<1>2. ~Answering /\ r.n # 0
  BY DEF AnswerInv, ReadAnswer, At
<1>3. Answering' /\ frame'.id = r.id
  BY <1>1, <1>2 DEF Answering
<1>4. UNCHANGED <<queue, disp>> /\ pc'["dispatcher"] = pc["dispatcher"]
  BY DEF ReadAnswer, queueVars, Goto, TypeInv, TypeOK, PCs
<1>5. Pending \subseteq Pending' \cup {r}
  BY <1>1, <1>4 DEF Pending, Queued, BeingWritten
<1> QED BY <1>2, <1>3, <1>5 DEF Owed

\* A frame that answers nothing is read between two answers, and one that answered
\* a request is let go when its slot is finished.
LEMMA FrameOwed ==
  ASSUME TypeInv, AnswerInv, ReadUnsolicited \/ Finish \/ TestFree,
         NEW s \in Slots, Owed(s)
  PROVE  Owed(s)' \/ comms'[s].finished = 1
<1>1. UNCHANGED <<queue, air, disp>> /\ pc'["dispatcher"] = pc["dispatcher"]
  BY DEF ReadUnsolicited, Finish, TestFree, queueVars, radioVars, Goto, TypeInv,
         TypeOK, PCs
<1>2. Pending' = Pending
  BY <1>1 DEF Pending, Queued, BeingWritten
<1>3. ASSUME Answering, frame.id = s
      PROVE  (Answering' /\ frame' = frame) \/ comms'[s].finished = 1
  <2>1. CASE ReadUnsolicited
    BY <1>3, <2>1 DEF AnswerInv, ReadUnsolicited, At
  <2>2. CASE Finish
    BY <1>3, <2>2 DEF Finish, TypeInv, TypeOK, Slot
  <2>3. CASE TestFree
    BY <1>3, <2>3 DEF AnswerInv, TestFree, At, slotVars
  <2> QED BY <2>1, <2>2, <2>3
<1> QED BY <1>2, <1>3 DEF Owed

LEMMA OwedStays ==
  ASSUME ~Loses, ~Garbles, TypeInv, AnswerInv, [Next]_vars,
         NEW s \in Slots, Owed(s)
  PROVE  Owed(s)' \/ comms'[s].finished = 1
<1>1. CASE Main \/ DoubleDelete
  BY <1>1, CallersAreStill, MainIsStill, StillOwed, MainPushOwed DEF Main, Callers
<1>2. CASE HandlerWork
  <2>1. ~HandleGarbled
    BY DEF HandleGarbled
  <2> QED BY <1>2, <2>1, CallersAreStill, HandlerIsStill, StillOwed, HandlerPushOwed,
             AnswerOwed, FrameOwed DEF HandlerWork, Callers
<1>3. CASE Dispatcher
  BY <1>3, DispatcherIsStill, StillOwed, PopOwed, WriteOwed DEF Dispatcher
<1>4. CASE ReadUnsolicited
  BY <1>4, FrameOwed
<1>5. ~LoseAnswer
  BY DEF LoseAnswer
<1>6. CASE UNCHANGED vars
  BY <1>6, StillOwed DEF Still, Writing, vars
<1> QED BY <1>1, <1>2, <1>3, <1>4, <1>5, <1>6 DEF Next

\* A step that leaves the handler and the requests on air alone.
Aloof ==
  /\ UNCHANGED <<frame, air>> /\ pc'["handler"] = pc["handler"]
  /\ fault' = "none" => fault = "none"

LEMMA AloofAnswer ==
  ASSUME TypeInv, AnswerInv, [Next]_vars, Aloof PROVE AnswerInv'
<1>1. fault = "none" /\ pc["handler"] = "test" =>
        frame.id \in Slots /\ comms[frame.id].finished = 1
  BY DEF TypeInv, Control, AnswerInv
<1> QED BY <1>1, FinishedStays DEF AnswerInv, Aloof, Answering

LEMMA MainIsAloof ==
  ASSUME TypeInv,
         \/ RegisterScan("main") \/ RegisterClaim("main") \/ FreeGet("main")
         \/ FreeFields("main") \/ MainPush \/ MainWait \/ MainSpin \/ MainGet
         \/ MainReadData \/ MainFreeBit
  PROVE  Aloof
BY DEF Aloof, TypeInv, TypeOK, PCs, Goto, At, Signalled, radioVars, handlerVars,
       RegisterScan, RegisterClaim, FreeGet, FreeFields, MainPush, MainWait,
       MainSpin, MainGet, MainReadData, MainFreeBit, FreeBit

LEMMA DispatcherIsAloof ==
  ASSUME TypeInv,
         \/ DispatchCheck \/ DispatchPop \/ CommandAlloc \/ CommandFrame
         \/ TransmitAlloc \/ TransmitCopy \/ DispatchArm \/ DispatchTimeout
         \/ DoubleDelete
  PROVE  Aloof
BY DEF Aloof, TypeInv, TypeOK, PCs, Goto, At, radioVars, handlerVars, DispatchCheck,
       DispatchPop, CommandAlloc, CommandFrame, TransmitAlloc, TransmitCopy,
       DispatchArm, DispatchTimeout, DoubleDelete, Callers

LEMMA WriteAnswer ==
  ASSUME TypeInv, Order, AnswerInv, CommandWrite \/ TransmitWrite
  PROVE  AnswerInv'
<1>1. Writing /\ disp.n # 0
  <2>1. Writing
    BY DEF CommandWrite, TransmitWrite, At, Writing
  <2>2. 1 <= disp.n /\ disp.n \in Nat
    BY <2>1 DEF Order, TypeInv, TypeOK, Request
  <2> QED BY <2>1, <2>2
<1>2. /\ UNCHANGED <<frame, comms>> /\ pc'["handler"] = pc["handler"]
      /\ fault' = "none" => fault = "none"
      /\ air' \subseteq air \cup {disp}
  BY DEF CommandWrite, TransmitWrite, WriteFrame, At, Goto, TypeInv, TypeOK, PCs,
         handlerVars, slotVars, radioVars
<1> QED BY <1>1, <1>2 DEF AnswerInv, Answering

LEMMA CallAnswer ==
  ASSUME TypeInv, AnswerInv,
         \/ RegisterScan("handler") \/ RegisterClaim("handler") \/ HandlerPush
         \/ FreeGet("handler") \/ FreeFields("handler") \/ HandlerFreeBit
  PROVE  AnswerInv'
<1>1. UNCHANGED <<frame, air>>
  BY DEF RegisterScan, RegisterClaim, HandlerPush, FreeGet, FreeFields,
         HandlerFreeBit, FreeBit, radioVars, handlerVars
<1>2. /\ pc'["handler"] \in {"claim", "push", "register", "free", "freeFields",
                             "freeBit", "frame"}
      /\ pc'["handler"] \in {"frame", "free", "freeFields", "freeBit"}
           => pc["handler"] \in {"free", "freeFields", "freeBit"}
  BY DEF RegisterScan, RegisterClaim, HandlerPush, FreeGet, FreeFields,
         HandlerFreeBit, FreeBit, Signalled, At, Goto, TypeInv, TypeOK, PCs
<1> QED BY <1>1, <1>2 DEF AnswerInv, Answering

LEMMA ReadAnswerInv ==
  ASSUME TypeInv, AnswerInv, ReadAnswer \/ ReadUnsolicited \/ LoseAnswer
  PROVE  AnswerInv'
<1>1. CASE ReadAnswer \/ ReadUnsolicited
  <2>1. air' \subseteq air /\ pc'["handler"] = "attach"
    BY <1>1 DEF ReadAnswer, ReadUnsolicited, Goto, TypeInv, TypeOK, PCs
  <2> QED BY <2>1 DEF AnswerInv
<1>2. CASE LoseAnswer
  BY <1>2 DEF LoseAnswer, AnswerInv, Answering, slotVars, handlerVars
<1> QED BY <1>1, <1>2

LEMMA HandleAnswer ==
  ASSUME TypeInv, AnswerInv,
         \/ Attach \/ HandleFrame \/ HandleGarbled \/ HandleFreed \/ PacketDone
         \/ Finish \/ TestFree
  PROVE  AnswerInv'
<1> USE DEF AnswerInv, Answering, At, Goto, TypeInv, TypeOK, PCs, radioVars,
            handlerVars, NoFrame
<1>1. CASE Attach
  BY <1>1 DEF Attach
<1>2. CASE HandleFrame
  BY <1>2 DEF HandleFrame
<1>3. CASE HandleGarbled
  BY <1>3 DEF HandleGarbled
<1>4. CASE HandleFreed
  BY <1>4 DEF HandleFreed
<1>5. CASE PacketDone
  BY <1>5 DEF PacketDone
<1>6. CASE Finish
  <2>1. CASE frame.id \in Slots
    <3>1. comms'[frame.id].finished = 1
      BY <1>6, <2>1 DEF Finish, Slot
    <3> QED BY <1>6, <2>1, <3>1 DEF Finish
  <2>2. CASE frame.id \notin Slots
    BY <1>6, <2>2 DEF Finish
  <2> QED BY <2>1, <2>2
<1>7. CASE TestFree
  <2>1. ~Answering' /\ air' = air
    BY <1>7 DEF TestFree
  <2>2. fault' # "none" \/ pc'["handler"] # "test"
    BY <1>7 DEF TestFree, Crash
  <2> QED BY <2>1, <2>2
<1> QED BY <1>1, <1>2, <1>3, <1>4, <1>5, <1>6, <1>7

LEMMA StepAnswer ==
  ASSUME TypeInv, Order, AnswerInv, [Next]_vars PROVE AnswerInv'
<1>1. CASE Main \/ DoubleDelete
  BY <1>1, MainIsAloof, DispatcherIsAloof, AloofAnswer DEF Main
<1>2. CASE HandlerWork
  BY <1>2, CallAnswer, ReadAnswerInv, HandleAnswer DEF HandlerWork
<1>3. CASE Dispatcher
  BY <1>3, DispatcherIsAloof, AloofAnswer, WriteAnswer DEF Dispatcher
<1>4. CASE ReadUnsolicited \/ LoseAnswer
  BY <1>4, ReadAnswerInv
<1>5. CASE UNCHANGED vars
  BY <1>5, AloofAnswer DEF Aloof, vars
<1> QED BY <1>1, <1>2, <1>3, <1>4, <1>5 DEF Next

\* The ids main waits for grow by the slot of the request it pushes.
LEMMA MainIdsGrow ==
  ASSUME TypeInv, [Next]_vars, NEW k \in 1..Len(mainIds)'
  PROVE  \/ k \in 1..Len(mainIds) /\ mainIds'[k] = mainIds[k]
         \/ MainPush /\ mainIds'[k] = reg["main"].slot
<1>1. mainIds \in Seq(0..NumSlots)
  BY DEF TypeInv, TypeOK
<1>2. CASE MainPush
  BY <1>1, <1>2 DEF MainPush
<1>3. CASE mainIds' = mainIds
  BY <1>3
<1>4. CASE Main /\ ~MainPush
  BY <1>3, <1>4 DEF Main, RegisterScan, RegisterClaim, MainWait, MainSpin, MainGet,
     MainReadData, FreeGet, FreeFields, MainFreeBit, FreeBit, mainVars
<1>5. CASE HandlerWork
  BY <1>3, <1>5 DEF HandlerWork, ReadAnswer, Attach, HandleFrame, HandleGarbled,
     HandleFreed, PacketDone, Finish, TestFree, RegisterScan, RegisterClaim,
     HandlerPush, FreeGet, FreeFields, HandlerFreeBit, FreeBit, mainVars
<1>6. CASE Dispatcher
  BY <1>3, <1>6 DEF Dispatcher, DispatchCheck, DispatchPop, CommandAlloc,
     CommandFrame, CommandWrite, TransmitWrite, TransmitAlloc, TransmitCopy,
     DispatchArm, DispatchTimeout, mainVars
<1>7. CASE ReadUnsolicited \/ DoubleDelete \/ LoseAnswer \/ UNCHANGED vars
  BY <1>3, <1>7 DEF ReadUnsolicited, DoubleDelete, LoseAnswer, mainVars, vars
<1> QED BY <1>2, <1>3, <1>4, <1>5, <1>6, <1>7 DEF Next

LEMMA StepWait ==
  ASSUME TypeInv, Order, AnswerInv, WaitIsOwed, [Next]_vars PROVE WaitIsOwed'
<1> SUFFICES ASSUME ~Loses, ~Garbles, NEW k \in 1..Len(mainIds)', mainIds'[k] # 0
             PROVE  (comms[mainIds[k]].finished = 1 \/ Owed(mainIds[k]))'
  BY DEF WaitIsOwed
<1>1. CASE MainPush /\ mainIds'[k] = reg["main"].slot
  <2>1. PICK s : s = mainIds'[k]
    OBVIOUS
  <2>2. Owed(s)'
    BY <1>1, <2>1, MainPushOwed
  <2> QED BY <2>1, <2>2 DEF Owed
<1>2. CASE k \in 1..Len(mainIds) /\ mainIds'[k] = mainIds[k]
  <2>0. PICK s : s = mainIds[k]
    OBVIOUS
  <2>1. s \in Slots
    <3>1. mainIds \in Seq(0..NumSlots)
      BY DEF TypeInv, TypeOK
    <3>2. s \in 0..NumSlots
      BY <1>2, <2>0, <3>1
    <3> QED BY <1>2, <2>0, <3>2
  <2>2. comms[s].finished = 1 \/ Owed(s)
    <3>1. mainIds[k] # 0
      BY <1>2
    <3> QED BY <1>2, <2>0, <3>1 DEF WaitIsOwed
  <2>3. comms'[s].finished = 1 \/ Owed(s)'
    BY <2>1, <2>2, FinishedStays, OwedStays
  <2>4. mainIds'[k] = s
    BY <1>2, <2>0
  <2> QED BY <2>3, <2>4 DEF Owed
<1> QED BY <1>1, <1>2, MainIdsGrow

\* As long as the line loses and damages no answer, what main waits for is finished
\* or will be: whatever packets and status frames arrive meanwhile, and although the
\* handler may free the slot or hand it on before main looks.  Only a request that
\* found the table full (id 0) is waited for in vain.
THEOREM WaitsAreOwed == Spec => []WaitIsOwed
<1>1. Init => AnswerInv /\ WaitIsOwed
  BY DEF Init, AnswerInv, WaitIsOwed, Answering, NoFrame
<1>2. TypeInv /\ Order /\ AnswerInv /\ WaitIsOwed /\ [Next]_vars
        => AnswerInv' /\ WaitIsOwed'
  BY StepAnswer, StepWait
<1> QED BY <1>1, <1>2, TypingInductive, OrderAlways, PTL DEF Spec

\* That wait never ends, for any number of slots and whatever the other threads do.
THEOREM FullTableHangs == Spec => FullTableHangsMain
<1>1. ASSUME TypeInv, [Next]_vars, WaitsForNobody PROVE WaitsForNobody'
  <2>1. CASE UNCHANGED vars
    BY <1>1, <2>1 DEF WaitsForNobody, MainSlot, vars
  <2>2. CASE Main
    <3>1. MainWait
      BY <1>1, <2>2 DEF WaitsForNobody, MainSlot, Main, RegisterScan, RegisterClaim,
         MainPush, MainSpin, MainGet, MainReadData, FreeGet, FreeFields, MainFreeBit,
         FreeBit, At
    <3>2. pc'["main"] = "spin" /\ UNCHANGED <<mainIds, mainStep>>
      BY <1>1, <3>1 DEF MainWait, Goto, TypeInv, TypeOK, PCs, mainVars
    <3> QED BY <1>1, <3>2 DEF WaitsForNobody, MainSlot
  <2>3. CASE HandlerWork \/ Dispatcher \/ ReadUnsolicited \/ DoubleDelete \/ LoseAnswer
    <3>1. pc'["main"] = pc["main"]
      <4>1. CASE HandlerWork
        BY <1>1, <4>1 DEF TypeInv, TypeOK, PCs, Goto, Signalled, HandlerWork,
           ReadAnswer, Attach, HandleFrame, HandleGarbled, HandleFreed, PacketDone,
           Finish, TestFree, RegisterScan, RegisterClaim, HandlerPush, FreeGet,
           FreeFields, HandlerFreeBit, FreeBit
      <4>2. CASE Dispatcher
        BY <1>1, <4>2 DEF TypeInv, TypeOK, PCs, Goto, Dispatcher, DispatchCheck,
           DispatchPop, CommandAlloc, CommandFrame, CommandWrite, TransmitWrite,
           TransmitAlloc, TransmitCopy, DispatchArm, DispatchTimeout
      <4>3. CASE ReadUnsolicited \/ DoubleDelete \/ LoseAnswer
        BY <1>1, <4>3 DEF TypeInv, TypeOK, PCs, Goto, ReadUnsolicited, DoubleDelete,
           LoseAnswer
      <4> QED BY <2>3, <4>1, <4>2, <4>3
    <3>2. UNCHANGED <<mainIds, mainStep>>
      <4>1. CASE HandlerWork
        BY <4>1 DEF HandlerWork, ReadAnswer, Attach, HandleFrame, HandleGarbled,
           HandleFreed, PacketDone, Finish, TestFree, RegisterScan, RegisterClaim,
           HandlerPush, FreeGet, FreeFields, HandlerFreeBit, FreeBit, mainVars
      <4>2. CASE Dispatcher
        BY <4>2 DEF Dispatcher, DispatchCheck, DispatchPop, CommandAlloc,
           CommandFrame, CommandWrite, TransmitWrite, TransmitAlloc, TransmitCopy,
           DispatchArm, DispatchTimeout, mainVars
      <4>3. CASE ReadUnsolicited \/ DoubleDelete \/ LoseAnswer
        BY <4>3 DEF ReadUnsolicited, DoubleDelete, LoseAnswer, mainVars
      <4> QED BY <2>3, <4>1, <4>2, <4>3
    <3> QED BY <1>1, <3>1, <3>2 DEF WaitsForNobody, MainSlot
  <2> QED BY <1>1, <2>1, <2>2, <2>3 DEF Next
<1> QED BY <1>1, TypingInductive, PTL DEF Spec, FullTableHangsMain

=============================================================================
