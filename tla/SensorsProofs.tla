---------------------------- MODULE SensorsProofs ----------------------------
(***************************************************************************)
(* The sensors, and what is reported of them.                              *)
(*                                                                         *)
(* For any set of ids and any limit: the table of sensors is well typed,   *)
(* nobody meets the NULL of AddSensor but the scanner, and only a sensor   *)
(* that was silent is marked inactive.                                     *)
(*                                                                         *)
(* For any block size, number of retries and pieces of an answer: what     *)
(* AddReport holds is well typed, the pieces fit into the buffer, the      *)
(* verdict and the copies are those of posts that were made, and the work  *)
(* that a report has left shrinks with every step.                         *)
(***************************************************************************)
EXTENDS Sensors, Reports, TLAPS

-----------------------------------------------------------------------------
(* The sensors.                                                            *)

\* The scanner is about to mark a sensor that was silent when it read its time,
\* and is silent still unless it reported since.
SilentOrOvertaken ==
  scanner \in {"silent", "mark"} =>
    /\ entry \in Ids /\ sensorMap[entry] = "sensor"
    /\ age[entry] > Limit \/ overtaken

\* What the handler is adding is not yet a sensor, and not active.
InHand ==
  /\ handler # "idle" => packet.id \in Ids
  /\ handler = "add" => sensorMap[packet.id] = "absent"
  /\ handler = "store" => sensorMap[packet.id] = "null"
  /\ \A s \in Ids : sensorMap[s] # "sensor" => ~isActive[s]

SensorsInv == SensorsTypeOK /\ NullIsInAdd /\ SilentOrOvertaken /\ InHand

USE LimitAssumption, IdsAssumption

LEMMA SensorsInitInv == SensorsInit => SensorsInv
  <1> SUFFICES ASSUME SensorsInit PROVE SensorsInv
    OBVIOUS
  <1>1. overtaken \in BOOLEAN /\ isActive \in [Ids -> BOOLEAN]
    BY Zenon DEF SensorsInit
  <1>2. packet \in [id : Ids \cup {Nobody}, reports : BOOLEAN]
    BY Zenon DEF SensorsInit
  <1> QED BY <1>1, <1>2 DEF SensorsInit, SensorsInv, SensorsTypeOK, NullIsInAdd,
      SilentOrOvertaken, InHand, Entries, Ages

\* A packet is taken, and its sensor is looked for in the map.
LEMMA TakeStep ==
  ASSUME SensorsInv, NEW s \in Ids, NEW reports \in BOOLEAN, TakePacket(s, reports)
  PROVE  SensorsInv'
  <1>1. packet' \in [id : Ids \cup {Nobody}, reports : BOOLEAN] /\ packet'.id = s
    BY Zenon DEF TakePacket
  <1>2. UNCHANGED <<table, scanVars, overtaken>> /\ awake' = Nobody
    BY DEF TakePacket
  <1>3. \/ handler' \in {"stamp", "idle"} /\ sensorMap[s] = "sensor"
        \/ handler' = "add" /\ sensorMap[s] # "sensor"
    BY DEF TakePacket, Renewal
  <1>4. handler = "idle"
    BY DEF TakePacket
  <1>5. sensorMap[s] \in {"absent", "sensor"}
    BY <1>4 DEF SensorsInv, SensorsTypeOK, NullIsInAdd, Entries
  <1>6. SensorsTypeOK'
    BY <1>1, <1>2, <1>3 DEF table, scanVars, SensorsInv, SensorsTypeOK, Ages
  <1>7. NullIsInAdd'
    BY <1>1, <1>2, <1>3, <1>4 DEF table, SensorsInv, NullIsInAdd, Entries
  <1>8. SilentOrOvertaken' /\ InHand'
    BY <1>1, <1>2, <1>3, <1>5 DEF table, scanVars, SensorsInv, SilentOrOvertaken,
      InHand
  <1> QED BY <1>6, <1>7, <1>8 DEF SensorsInv

\* AddSensor makes the entry; there is no other NULL.
LEMMA AddEntryStep == ASSUME SensorsInv, AddEntry PROVE SensorsInv'
  <1>1. /\ packet.id \in Ids /\ handler' = "store" /\ packet' = packet
        /\ sensorMap[packet.id] = "absent"
        /\ sensorMap' = [sensorMap EXCEPT ![packet.id] = "null"]
        /\ \A s \in Ids : sensorMap[s] # "null"
    BY DEF AddEntry, SensorsInv, InHand, NullIsInAdd, Entries
  <1>2. SensorsTypeOK'
    BY <1>1 DEF AddEntry, SensorsInv, SensorsTypeOK, Ages
  <1>3. NullIsInAdd'
    BY <1>1 DEF SensorsInv, SensorsTypeOK, NullIsInAdd, Entries
  <1>4. SilentOrOvertaken' /\ InHand'
    BY <1>1 DEF AddEntry, SensorsInv, SensorsTypeOK, SilentOrOvertaken, InHand
  <1> QED BY <1>2, <1>3, <1>4 DEF SensorsInv

\* AddSensor stores the sensor in its place.
LEMMA StoreSensorStep == ASSUME SensorsInv, StoreSensor PROVE SensorsInv'
  <1>1. /\ packet.id \in Ids /\ handler' \in {"stamp", "idle"} /\ packet' = packet
        /\ sensorMap[packet.id] = "null"
        /\ sensorMap' = [sensorMap EXCEPT ![packet.id] = "sensor"]
        /\ \A s \in Ids : sensorMap[s] = "null" => s = packet.id
    BY DEF StoreSensor, SensorsInv, InHand, NullIsInAdd, Entries, Renewal
  <1>2. /\ isActive' \in [Ids -> BOOLEAN]
        /\ \A s \in Ids : s # packet.id => isActive'[s] = isActive[s]
    <2>1. isActive' = [isActive EXCEPT ![packet.id] = FALSE]
      BY DEF StoreSensor
    <2>2. isActive \in [Ids -> BOOLEAN]
      BY DEF SensorsInv, SensorsTypeOK
    <2> QED BY <2>1, <2>2, Zenon
  <1>3. SensorsTypeOK'
    BY <1>1, <1>2 DEF StoreSensor, SensorsInv, SensorsTypeOK, Ages, scanVars
  <1>4. NullIsInAdd'
    BY <1>1 DEF SensorsInv, SensorsTypeOK, NullIsInAdd, Entries
  <1>5. SilentOrOvertaken'
    BY <1>1 DEF StoreSensor, SensorsInv, SensorsTypeOK, SilentOrOvertaken, scanVars
  <1>6. InHand'
    BY <1>1, <1>2 DEF SensorsInv, SensorsTypeOK, InHand
  <1> QED BY <1>3, <1>4, <1>5, <1>6 DEF SensorsInv

\* SensorUpdate sets the time; a scanner that looks at the sensor is overtaken.
LEMMA StampStep == ASSUME SensorsInv, Stamp PROVE SensorsInv'
  <1>1. overtaken' \in BOOLEAN
    BY Zenon DEF Stamp
  <1>2. /\ handler' = "activate" /\ awake' = Nobody
        /\ UNCHANGED <<sensorMap, isActive, packet, scanVars>>
    BY DEF Stamp
  <1>3. age' \in [Ids -> Ages]
    <2>1. age' = [age EXCEPT ![packet.id] = 0] /\ age \in [Ids -> Ages]
      BY Zenon DEF Stamp, SensorsInv, SensorsTypeOK
    <2>2. 0 \in Ages
      BY DEF Ages
    <2> QED BY <2>1, <2>2, Zenon
  <1>4. SensorsTypeOK'
    BY <1>1, <1>2, <1>3 DEF SensorsInv, SensorsTypeOK, scanVars
  <1>5. NullIsInAdd'
    BY DEF Stamp, SensorsInv, NullIsInAdd, Entries
  <1>6. SilentOrOvertaken' /\ InHand'
    BY DEF Stamp, SensorsInv, SensorsTypeOK, SilentOrOvertaken, InHand, scanVars
  <1> QED BY <1>4, <1>5, <1>6 DEF SensorsInv

\* SensorUpdate sets the flag.
LEMMA ActivateStep == ASSUME SensorsInv, Activate PROVE SensorsInv'
  <1>1. /\ isActive' \in [Ids -> BOOLEAN]
        /\ \A s \in Ids : s # packet.id => isActive'[s] = isActive[s]
    <2>1. isActive' = [isActive EXCEPT ![packet.id] = TRUE]
      BY DEF Activate
    <2>2. isActive \in [Ids -> BOOLEAN]
      BY DEF SensorsInv, SensorsTypeOK
    <2> QED BY <2>1, <2>2, Zenon
  <1>2. packet.id \in Ids /\ sensorMap[packet.id] = "sensor"
    BY DEF Activate, SensorsInv, InHand, NullIsInAdd
  <1> QED BY <1>1, <1>2 DEF Activate, SensorsInv, SensorsTypeOK, NullIsInAdd,
      SilentOrOvertaken, InHand, Entries, scanVars

\* The scanner moves on: it stops only at a sensor, and only at a silent one.
LEMMA ScanNextStep ==
  ASSUME SensorsInv, NEW s \in Ids, ScanNext(s) PROVE SensorsInv'
  <1>1. /\ entry' = s /\ UNCHANGED <<table, hand>> /\ awake' = Nobody
        /\ seen' = seen \cup {s}
        /\ scanner' \in {"next", "silent"}
        /\ scanner' = "silent" => sensorMap[s] = "sensor" /\ age[s] > Limit
    BY DEF ScanNext, Silent
  <1>2. overtaken' \in BOOLEAN
    BY Zenon DEF ScanNext
  <1> QED BY <1>1, <1>2 DEF SensorsInv, SensorsTypeOK, NullIsInAdd,
      SilentOrOvertaken, InHand, Entries, table, hand

\* It tests the flag of the sensor it stopped at.
LEMMA ScanFlagStep == ASSUME SensorsInv, ScanFlag PROVE SensorsInv'
  <1>1. /\ UNCHANGED <<table, hand, entry, seen, overtaken>> /\ awake' = Nobody
        /\ scanner = "silent" /\ scanner' \in {"mark", "next"}
    BY DEF ScanFlag
  <1> QED BY <1>1 DEF SensorsInv, SensorsTypeOK, NullIsInAdd,
      SilentOrOvertaken, InHand, Entries, table, hand

\* The scanner clears the flag, and starts its next round.
LEMMA ScanMarkStep == ASSUME SensorsInv, ScanMark \/ ScanRound PROVE SensorsInv'
  <1>1. /\ isActive' \in [Ids -> BOOLEAN]
        /\ \A s \in Ids : isActive'[s] => isActive[s]
    <2>1. \/ isActive' = [isActive EXCEPT ![entry] = FALSE]
          \/ isActive' = isActive
      BY DEF ScanMark, ScanRound, table
    <2>2. isActive \in [Ids -> BOOLEAN]
      BY DEF SensorsInv, SensorsTypeOK
    <2> QED BY <2>1, <2>2, Zenon
  <1>2. /\ UNCHANGED <<sensorMap, age, hand, entry, overtaken>>
        /\ scanner' = "next" /\ awake' = Nobody /\ seen' \in SUBSET Ids
    BY DEF ScanMark, ScanRound, table, SensorsInv, SensorsTypeOK
  <1> QED BY <1>1, <1>2 DEF SensorsInv, SensorsTypeOK, NullIsInAdd,
      SilentOrOvertaken, InHand, Entries, hand

\* A second passes: who was silent is silent still.
LEMMA SecondStep == ASSUME SensorsInv, SecondPasses PROVE SensorsInv'
  <1>1. age' \in [Ids -> Ages]
        /\ \A s \in Ids : age[s] > Limit => age'[s] > Limit
    BY DEF SecondPasses, SensorsInv, SensorsTypeOK, Ages, Never
  <1>2. UNCHANGED <<sensorMap, isActive, hand, scanVars, overtaken>> /\ awake' = Nobody
    BY DEF SecondPasses
  <1> QED BY <1>1, <1>2 DEF SensorsInv, SensorsTypeOK, NullIsInAdd,
      SilentOrOvertaken, InHand, Entries, hand, scanVars

LEMMA SensorsStep == SensorsInv /\ [SensorsNext]_svars => SensorsInv'
  <1> SUFFICES ASSUME SensorsInv, [SensorsNext]_svars PROVE SensorsInv'
    OBVIOUS
  <1>1. CASE UNCHANGED svars
    BY <1>1 DEF svars, table, hand, scanVars, SensorsInv, SensorsTypeOK, NullIsInAdd,
      SilentOrOvertaken, InHand, Entries
  <1>2. ASSUME NEW s \in Ids, NEW reports \in BOOLEAN, TakePacket(s, reports)
        PROVE  SensorsInv'
    BY <1>2, TakeStep
  <1>3. CASE Handler
    BY <1>3, AddEntryStep, StoreSensorStep, StampStep, ActivateStep DEF Handler
  <1>4. CASE Scanner
    BY <1>4, ScanNextStep, ScanFlagStep, ScanMarkStep DEF Scanner
  <1>5. CASE SecondPasses
    BY <1>5, SecondStep
  <1> QED BY <1>1, <1>2, <1>3, <1>4, <1>5 DEF SensorsNext

LEMMA SensorsAlways == SensorsSpec => []SensorsInv
  BY SensorsInitInv, SensorsStep, PTL DEF SensorsSpec

\* The table and both threads' positions are well typed.
THEOREM SensorsAreTyped == SensorsSpec => []SensorsTypeOK
  BY SensorsAlways, PTL DEF SensorsInv

\* Nobody but the scanner can meet the NULL that operator[] leaves, and
\* SensorUpdate never writes through it (AddSensor, SensorUpdate).
THEOREM NullStaysInAdd == SensorsSpec => []NullIsInAdd
  BY SensorsAlways, PTL DEF SensorsInv

\* Only the two steps that clear a flag can: the scanner's, on a sensor that was
\* silent, and AddSensor's, on one that is not active yet.
LEMMA MarkStep ==
  ASSUME SensorsInv, SensorsNext, NEW s \in Ids, isActive[s], ~isActive'[s]
  PROVE  age[s] > Limit \/ overtaken
  <1>1. isActive \in [Ids -> BOOLEAN]
    BY DEF SensorsInv, SensorsTypeOK
  <1>2. CASE isActive' = isActive
    BY <1>2
  <1>3. CASE Activate
    <2>1. isActive' = [isActive EXCEPT ![packet.id] = TRUE]
      BY <1>3 DEF Activate
    <2> QED BY <1>1, <2>1, Zenon
  <1>4. CASE StoreSensor
    <2>1. isActive' = [isActive EXCEPT ![packet.id] = FALSE]
      BY <1>4 DEF StoreSensor
    <2>2. s = packet.id
      BY <1>1, <2>1, Zenon
    <2>3. ~isActive[s]
      BY <1>4, <2>2 DEF StoreSensor, SensorsInv, InHand
    <2> QED BY <2>3
  <1>5. CASE ScanMark
    <2>1. isActive' = [isActive EXCEPT ![entry] = FALSE]
      BY <1>5 DEF ScanMark
    <2>2. s = entry
      BY <1>1, <2>1, Zenon
    <2> QED BY <1>5, <2>2 DEF ScanMark, SensorsInv, SilentOrOvertaken
  <1>6. \/ isActive' = isActive \/ Activate \/ StoreSensor \/ ScanMark
    BY DEF SensorsNext, Handler, Scanner, TakePacket, AddEntry, Stamp, ScanNext,
       ScanFlag, ScanRound, SecondPasses, table
  <1> QED BY <1>2, <1>3, <1>4, <1>5, <1>6

\* Only a sensor that was silent for longer than the limit is marked inactive,
\* but for one that reports at that moment (sensor_scanning_thread).
THEOREM MarksAreDeserved == SensorsSpec => OnlyTheSilentAreMarked
  <1>1. SensorsInv /\ [SensorsNext]_svars =>
          [\A s \in Ids :
             isActive[s] /\ ~isActive'[s] => age[s] > Limit \/ overtaken]_svars
    BY MarkStep
  <1> QED BY <1>1, SensorsAlways, PTL DEF SensorsSpec, OnlyTheSilentAreMarked

-----------------------------------------------------------------------------
(* The reports.                                                            *)

\* What is left of the retries and what was posted make Retries, and a buffer
\* that arrived or was deleted belongs to an answer.
Bookkeeping ==
  /\ attempts + retries <= Retries
  /\ at # "idle" => attempts + retries = Retries
  /\ copies <= attempts
  /\ at = "judge" /\ buf = "live" => answered
  /\ buf = "freed" => answered
  /\ at \in {"post", "parse"} => buf # "live"
  /\ at = "parse" => retries = 0
  /\ at = "done" => retries = 0
  /\ verdict = "true" => answered

ReportsInv == ReportsTypeOK /\ AnswerFits /\ Bookkeeping

USE BlockAssumption, AnswerAssumption

\* The capacity that writeFunc provides for n more bytes, in a buffer that is
\* new or in which the bytes so far fit, is enough for all of them.
LEMMA CapacityGrows ==
  ASSUME capacity \in Nat, length \in Nat, length <= capacity, NEW n \in Nat \ {0}
  PROVE  /\ Initial(n) \in Nat /\ Extended(n) \in Nat
         /\ Initial(n) >= n /\ Extended(n) >= length + n
  BY DEF Initial, Extended

\* A piece of the answer leaves the buffer's bytes within it.
LEMMA PieceFits ==
  ASSUME ReportsTypeOK, AnswerFits, NEW n \in Chunks, WriteFunc(n)
  PROVE  capacity' \in Nat /\ length' \in Nat /\ AnswerFits'
  <1>1. n \in Nat \ {0}
    OBVIOUS
  <1>2. /\ Initial(n) \in Nat /\ Extended(n) \in Nat
        /\ Initial(n) >= n /\ Extended(n) >= length + n
    BY <1>1, CapacityGrows DEF ReportsTypeOK, AnswerFits
  <1>3. /\ length' = length + n
        /\ capacity' = IF capacity = 0 THEN Initial(n)
                       ELSE IF length + n > capacity THEN Extended(n)
                       ELSE capacity
    BY DEF WriteFunc
  <1>4. CASE capacity = 0
    <2>1. length = 0
      BY <1>4 DEF ReportsTypeOK, AnswerFits
    <2> QED BY <1>1, <1>2, <1>3, <1>4, <2>1 DEF AnswerFits
  <1>5. CASE capacity # 0 /\ length + n > capacity
    BY <1>1, <1>2, <1>3, <1>5 DEF ReportsTypeOK, AnswerFits
  <1>6. CASE capacity # 0 /\ ~(length + n > capacity)
    BY <1>1, <1>3, <1>6 DEF ReportsTypeOK, AnswerFits
  <1> QED BY <1>4, <1>5, <1>6

LEMMA ReportsInitInv == ReportsInit => ReportsInv
  <1> SUFFICES ASSUME ReportsInit PROVE ReportsInv
    OBVIOUS
  <1>1. answered \in BOOLEAN
    BY Zenon DEF ReportsInit
  <1> QED BY <1>1 DEF ReportsInit, ReportsInv, ReportsTypeOK, AnswerFits, Bookkeeping

\* The invariant is inductive: one step for each action.
LEMMA ReportsStep == ReportsInv /\ [ReportsNext]_rvars => ReportsInv'
  <1> SUFFICES ASSUME ReportsInv, [ReportsNext]_rvars PROVE ReportsInv'
    OBVIOUS
  <1> USE DEF ReportsInv
  <1>1. CASE AddReport
    <2>1. answered' \in BOOLEAN
      BY <1>1, Zenon DEF AddReport
    <2> QED BY <1>1, <2>1 DEF AddReport, ReportsTypeOK, AnswerFits, Bookkeeping
  <1>2. CASE ServerStores
    BY <1>2 DEF ServerStores, buffer, ReportsTypeOK, AnswerFits, Bookkeeping
  <1>3. CASE Post
    <2>1. CASE retries > 0
      <3>1. Counted(attempts) = attempts + 1
        BY <1>3, <2>1 DEF Post, Counted, ReportsTypeOK, Bookkeeping
      <3> QED BY <1>3, <2>1, <3>1
        DEF Post, ReportsTypeOK, AnswerFits, Bookkeeping
    <2>2. CASE ~(retries > 0)
      BY <1>3, <2>2 DEF Post, buffer, ReportsTypeOK, AnswerFits, Bookkeeping
    <2> QED BY <2>1, <2>2
  <1>4. ASSUME NEW n \in Chunks, WriteFunc(n) PROVE ReportsInv'
    <2>1. capacity' \in Nat /\ length' \in Nat /\ AnswerFits'
      BY <1>4, PieceFits
    <2>2. UNCHANGED <<at, retries, buf, verdict, fate>>
      BY <1>4 DEF WriteFunc
    <2> QED BY <2>1, <2>2 DEF fate, ReportsTypeOK, Bookkeeping
  <1>5. CASE TransferFails
    BY <1>5 DEF TransferFails, fate, ReportsTypeOK, AnswerFits, Bookkeeping
  <1>6. CASE TransferEnds
    <2>1. answered' = TRUE /\ answered' \in BOOLEAN
      BY <1>6, Zenon DEF TransferEnds
    <2> QED BY <1>6, <2>1
      DEF TransferEnds, buffer, ReportsTypeOK, AnswerFits, Bookkeeping
  <1>7. CASE Judge
    BY <1>7 DEF Judge, fate, ReportsTypeOK, AnswerFits, Bookkeeping
  <1>8. CASE Parse
    BY <1>8 DEF Parse, buffer, fate, ReportsTypeOK, AnswerFits, Bookkeeping
  <1>9. CASE UNCHANGED rvars
    BY <1>9 DEF rvars, buffer, fate, ReportsTypeOK, AnswerFits, Bookkeeping
  <1> QED BY <1>1, <1>2, <1>3, <1>4, <1>5, <1>6, <1>7, <1>8, <1>9
    DEF ReportsNext, Handling, Perform

LEMMA ReportsAlways == ReportsSpec => []ReportsInv
  BY ReportsInitInv, ReportsStep, PTL DEF ReportsSpec

\* The state of AddReport is well typed, and retries never exceeds its
\* first value (AddReport).
THEOREM ReportsAreTyped == ReportsSpec => []ReportsTypeOK
  BY ReportsAlways, PTL DEF ReportsInv

\* However an answer is cut into pieces, it fits into its buffer (writeFunc).
THEOREM AnswersFit == ReportsSpec => []AnswerFits
  BY ReportsAlways, PTL DEF ReportsInv

\* The outcome of a report is that of the posts made for it (AddReport).
THEOREM OutcomesAreEarned == ReportsSpec => []OutcomeIsEarned
  <1>1. ReportsInv => OutcomeIsEarned
    BY DEF ReportsInv, ReportsTypeOK, Bookkeeping, OutcomeIsEarned, ReportsInit
  <1> QED BY <1>1, ReportsAlways, PTL

-----------------------------------------------------------------------------
(* A report comes to an end.                                               *)

\* The steps that AddReport has left at most: each retry is a post, the pieces of
\* an answer and its judgement.
Round == MaxAnswer + 3
WorkLeft ==
  CASE at = "post" -> retries * Round + 2
    [] at = "transfer" -> retries * Round + 4 + (MaxAnswer - length)
    [] at = "judge" -> retries * Round + 3
    [] at = "parse" -> 1
    [] OTHER -> 0

AnswerIsBounded == at = "transfer" => length <= MaxAnswer

LEMMA AnswersAreBounded == ReportsSpec => []AnswerIsBounded
  <1>1. ReportsInit => AnswerIsBounded
    BY DEF ReportsInit, AnswerIsBounded
  <1>2. ReportsInv /\ AnswerIsBounded /\ [ReportsNext]_rvars => AnswerIsBounded'
    BY DEF AnswerIsBounded, ReportsNext, Handling, Perform, AddReport, ServerStores,
       Post, WriteFunc, TransferFails, TransferEnds, Judge, Parse, rvars, buffer
  <1> QED BY <1>1, <1>2, ReportsAlways, PTL DEF ReportsSpec

LEMMA OneRound ==
  ASSUME NEW n \in Nat, n > 0
  PROVE  /\ (n - 1) * Round \in Nat /\ n * Round \in Nat
         /\ n * Round = (n - 1) * Round + MaxAnswer + 3
  BY DEF Round

LEMMA WorkIsDone ==
  ASSUME ReportsTypeOK, AnswerIsBounded, Handling
  PROVE  WorkLeft' \in Nat /\ WorkLeft \in Nat /\ WorkLeft' < WorkLeft
  <1>1. /\ retries \in Nat /\ length \in Nat /\ retries * Round \in Nat
        /\ MaxAnswer \in Nat
    BY DEF ReportsTypeOK, Round
  <1>2. CASE Post
    <2>1. CASE retries > 0
      BY <1>1, <1>2, <2>1, OneRound DEF Post, WorkLeft
    <2>2. CASE ~(retries > 0)
      BY <1>1, <1>2, <2>2 DEF Post, WorkLeft
    <2> QED BY <2>1, <2>2
  <1>3. ASSUME NEW n \in Chunks, WriteFunc(n)
        PROVE  WorkLeft' \in Nat /\ WorkLeft \in Nat /\ WorkLeft' < WorkLeft
    BY <1>1, <1>3 DEF WriteFunc, WorkLeft, AnswerIsBounded
  <1>4. CASE TransferFails \/ TransferEnds
    BY <1>1, <1>4 DEF TransferFails, TransferEnds, WorkLeft, AnswerIsBounded
  <1>5. CASE Judge
    BY <1>1, <1>5 DEF Judge, WorkLeft
  <1>6. CASE Parse
    BY <1>1, <1>6 DEF Parse, WorkLeft
  <1> QED BY <1>2, <1>3, <1>4, <1>5, <1>6 DEF Handling, Perform

\* Every step of AddReport leaves less to do, and the server undoes none of it, so
\* no run of replies and failures keeps the handler for more than a fixed number of
\* steps (AddReport, SimpleCurl::post, writeFunc).
THEOREM ReportsShrink ==
  ReportsSpec =>
    [][/\ Handling => WorkLeft' \in Nat /\ WorkLeft' < WorkLeft
       /\ ServerStores => WorkLeft' = WorkLeft]_rvars
  <1>1. ASSUME ReportsInv, AnswerIsBounded, ServerStores PROVE WorkLeft' = WorkLeft
    BY <1>1 DEF ServerStores, WorkLeft, buffer
  <1>2. ReportsInv /\ AnswerIsBounded /\ [ReportsNext]_rvars =>
          [/\ Handling => WorkLeft' \in Nat /\ WorkLeft' < WorkLeft
           /\ ServerStores => WorkLeft' = WorkLeft]_rvars
    BY <1>1, WorkIsDone DEF ReportsInv
  <1> QED BY <1>2, ReportsAlways, AnswersAreBounded, PTL DEF ReportsSpec

=============================================================================
