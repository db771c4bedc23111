------------------------------ MODULE Sensors ------------------------------
(***************************************************************************)
(* The table of sensors and the two threads that use it without a lock:    *)
(* the handler adds a sensor and renews it with each packet, the scanning  *)
(* thread marks those that have been silent for too long.                  *)
(*                                                                         *)
(* An entry of the map is absent, NULL from the moment operator[] makes    *)
(* it, or a sensor.  lastPacketTime is kept as the age of the last packet. *)
(***************************************************************************)
EXTENDS Integers

CONSTANTS
  Ids,    \* the sensor ids that packets carry
  Limit   \* SENSOR_INACTIVITY_TIME, 90 seconds

Nobody == "nobody"

ASSUME LimitAssumption == Limit \in Nat
ASSUME IdsAssumption == Nobody \notin Ids

VARIABLES
  sensorMap,  \* what the map holds for an id
  age,        \* seconds since lastPacketTime, at most Limit + 1; Never if it is 0
  isActive,
  handler,    \* where the handler is in the packet in hand
  packet,     \* [id, reports]: the packet in hand, reports if SensorUpdate runs
  scanner,    \* where the scanning thread is
  entry,      \* the id it looks at
  seen,       \* the ids it has looked at in this round
  overtaken,  \* history: the sensor reported since the scanner read its time
  awake       \* history: the sensor that was set active by this step, if any

table == <<sensorMap, age, isActive>>
hand == <<handler, packet>>
scanVars == <<scanner, entry, seen>>
svars == <<table, hand, scanVars, overtaken, awake>>

Never == -1
Ages == {Never} \cup 0..(Limit + 1)
Entries(kind) == {s \in Ids : sensorMap[s] = kind}

SensorsTypeOK ==
  /\ sensorMap \in [Ids -> {"absent", "null", "sensor"}]
  /\ age \in [Ids -> Ages] /\ isActive \in [Ids -> BOOLEAN]
  /\ handler \in {"idle", "add", "store", "stamp", "activate"}
  /\ packet \in [id : Ids \cup {Nobody}, reports : BOOLEAN]
  /\ scanner \in {"next", "silent", "mark"} /\ entry \in Ids \cup {Nobody}
  /\ seen \in SUBSET Ids
  /\ overtaken \in BOOLEAN /\ awake \in Ids \cup {Nobody}

SensorsInit ==
  /\ sensorMap = [s \in Ids |-> "absent"]
  /\ age = [s \in Ids |-> Never] /\ isActive = [s \in Ids |-> FALSE]
  /\ handler = "idle" /\ packet = [id |-> Nobody, reports |-> FALSE]
  /\ scanner = "next" /\ entry = Nobody /\ seen = {}
  /\ overtaken = FALSE /\ awake = Nobody

-----------------------------------------------------------------------------
(* The handler thread.                                                     *)

\* What is left of the packet once its sensor is in the map.
Renewal(reports) == IF reports THEN "stamp" ELSE "idle"

\* Mutant of TakePacket: GetSensorMap returns the map and not a copy of it, and
\* its operator[] makes the entry.
TakePacketInserting(s, reports) ==
  /\ handler = "idle"
  /\ packet' = [id |-> s, reports |-> reports]
  /\ handler' = IF sensorMap[s] = "sensor" THEN Renewal(reports) ELSE "add"
  /\ sensorMap' = [sensorMap EXCEPT ![s] = IF @ = "absent" THEN "null" ELSE @]
  /\ awake' = Nobody
  /\ UNCHANGED <<age, isActive, scanVars, overtaken>>

\* An intact packet that adds its sensor, and renews it unless it is a request
\* of revision 1.  GetSensorMap() copies the map, so this inserts nothing.
TakePacket(s, reports) ==
  /\ handler = "idle"
  /\ packet' = [id |-> s, reports |-> reports]
  /\ handler' = IF sensorMap[s] = "sensor" THEN Renewal(reports) ELSE "add"
  /\ awake' = Nobody
  /\ UNCHANGED <<table, scanVars, overtaken>>

\* AddSensor: sensorMap[*id] != NULL makes the entry.  The scanner may be moving
\* through the tree meanwhile, and then miss entries or meet some again.
AddEntry ==
  /\ handler = "add"
  /\ sensorMap' = [sensorMap EXCEPT ![packet.id] = "null"]
  /\ handler' = "store"
  /\ seen' \in SUBSET Ids
  /\ awake' = Nobody
  /\ UNCHANGED <<age, isActive, packet, scanner, entry, overtaken>>

\* AddSensor: the new sensor, all zero, is stored.
StoreSensor ==
  /\ handler = "store"
  /\ sensorMap' = [sensorMap EXCEPT ![packet.id] = "sensor"]
  /\ age' = [age EXCEPT ![packet.id] = Never]
  /\ isActive' = [isActive EXCEPT ![packet.id] = FALSE]
  /\ handler' = Renewal(packet.reports)
  /\ awake' = Nobody
  /\ UNCHANGED <<packet, scanVars, overtaken>>

\* SensorUpdate: the time of the packet ...
Stamp ==
  /\ handler = "stamp"
  /\ age' = [age EXCEPT ![packet.id] = 0]
  /\ handler' = "activate"
  /\ overtaken' = (overtaken \/ packet.id = entry)
  /\ awake' = Nobody
  /\ UNCHANGED <<sensorMap, isActive, packet, scanVars>>

\* Mutant of Activate: the test of the flag is the wrong way round.
ActivateAgain ==
  /\ handler = "activate"
  /\ handler' = "idle"
  /\ awake' = packet.id
  /\ UNCHANGED <<table, packet, scanVars, overtaken>>

\* ... and then the flag, if it is not set.
Activate ==
  /\ handler = "activate"
  /\ isActive' = [isActive EXCEPT ![packet.id] = TRUE]
  /\ handler' = "idle"
  /\ awake' = packet.id
  /\ UNCHANGED <<sensorMap, age, packet, scanVars, overtaken>>

Handler == AddEntry \/ StoreSensor \/ Stamp \/ Activate

-----------------------------------------------------------------------------
(* The scanning thread.                                                    *)

\* Mutant of Silent: the sensor is not allowed its last second.
SilentEarly(s) == age[s] >= Limit

Silent(s) == age[s] > Limit

\* The iterator moves to an entry; a NULL is passed over, and of a sensor the time
\* of its last packet is tested ...
ScanNext(s) ==
  /\ scanner = "next"
  /\ sensorMap[s] # "absent" /\ s \notin seen
  /\ entry' = s /\ seen' = seen \cup {s}
  /\ scanner' = IF sensorMap[s] = "sensor" /\ Silent(s) THEN "silent" ELSE "next"
  /\ overtaken' = FALSE /\ awake' = Nobody
  /\ UNCHANGED <<table, hand>>

\* ... and then the flag.
ScanFlag ==
  /\ scanner = "silent"
  /\ scanner' = IF isActive[entry] THEN "mark" ELSE "next"
  /\ awake' = Nobody
  /\ UNCHANGED <<table, hand, entry, seen, overtaken>>

\* Mutant of ScanMark: the silence is logged, but the flag stays.
ScanMarkLogs ==
  /\ scanner = "mark"
  /\ scanner' = "next"
  /\ awake' = Nobody
  /\ UNCHANGED <<table, hand, entry, seen, overtaken>>

\* The flag is cleared once the silence is logged.
ScanMark ==
  /\ scanner = "mark"
  /\ scanner' = "next"
  /\ isActive' = [isActive EXCEPT ![entry] = FALSE]
  /\ awake' = Nobody
  /\ UNCHANGED <<sensorMap, age, hand, entry, seen, overtaken>>

\* The end of the map, and the sleep of five seconds.
ScanRound ==
  /\ scanner = "next"
  /\ \A s \in Ids : sensorMap[s] # "absent" => s \in seen
  /\ seen' = {}
  /\ awake' = Nobody
  /\ UNCHANGED <<table, hand, scanner, entry, overtaken>>

Scanner == (\E s \in Ids : ScanNext(s)) \/ ScanFlag \/ ScanMark \/ ScanRound

-----------------------------------------------------------------------------
\* External: a second passes.
SecondPasses ==
  /\ age' = [s \in Ids |-> IF age[s] \in 0..Limit THEN age[s] + 1 ELSE age[s]]
  /\ awake' = Nobody
  /\ UNCHANGED <<sensorMap, isActive, hand, scanVars, overtaken>>

SensorsNext ==
  \/ \E s \in Ids, reports \in BOOLEAN : TakePacket(s, reports)
  \/ Handler \/ Scanner \/ SecondPasses

SensorsSpec == SensorsInit /\ [][SensorsNext]_svars

-----------------------------------------------------------------------------
(* Properties.                                                             *)

\* The NULL that operator[] leaves is seen by nobody but the scanner, which
\* passes over it: the handler that made it is still in AddSensor, and what
\* SensorUpdate writes to is a sensor (AddSensor, SensorUpdate).
NullIsInAdd ==
  /\ \A s \in Entries("null") : handler = "store" /\ packet.id = s
  /\ handler \in {"stamp", "activate"} => sensorMap[packet.id] = "sensor"

\* A sensor is marked inactive only if it has been silent for longer than the
\* limit, unless it reported while the scanner was about to mark it
\* (sensor_scanning_thread).
OnlyTheSilentAreMarked ==
  [][\A s \in Ids : isActive[s] /\ ~isActive'[s] => age[s] > Limit \/ overtaken]_svars

\* A sensor that falls silent for good is marked in the end, also while others
\* are being added to the map (sensor_scanning_thread).
SilenceIsNoticed ==
  \A s \in Ids : <>[](age[s] > Limit) => <>[](~isActive[s])

\* A sensor that goes on reporting within the limit is active from some time
\* on: a mark that was set too late is taken back by its next report, and not
\* set again (SensorUpdate against sensor_scanning_thread).
ReportingStaysActive ==
  \A s \in Ids : (<>[](age[s] \in 0..Limit) /\ []<>(awake = s)) => <>[](isActive[s])

=============================================================================
