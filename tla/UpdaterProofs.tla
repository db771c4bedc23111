---------------------------- MODULE UpdaterProofs ----------------------------
(***************************************************************************)
(* For any set of servers, any naps and any number of crashes: what the    *)
(* receiver keeps over a restart is what it should be.                     *)
(***************************************************************************)
EXTENDS Updater, TLAPS

\* The updater runs from the moment main starts it; a store has a new server in
\* memory, and its second half finds the file truncated.
Stages ==
  /\ (upd = "off") <=> main \in {"load", "looping", "start"}
  /\ upd \in {"confirm", "compare"} => serverStr \in Servers
  /\ upd \in {"trunc", "write"} => server \in Servers
  /\ upd = "write" => settingsFile = 0
  /\ main \in {"load", "looping"} => server = 0

\* Where main is, what the server was asked for, and what the id file holds.
IdStages ==
  /\ main \in {"load", "looping", "start", "open", "fetch"} => receiverId = 0
  /\ main = "fetch" => ids = 0 /\ idFile = 0
  /\ main \in {"close", "go"} => idFile # Absent
  /\ idFile = Absent => ids = 0

UpdaterInv ==
  /\ UpdaterTypeOK /\ Stages /\ IdStages
  /\ ServerIsConfirmed /\ LossNeedsCrashInStore /\ MemoryIsStored
  /\ AtMostOneId /\ IdIsStored

USE ServersAssumption, NapAssumption, UpdaterBoundAssumption

Booleans ==
  atEof \in BOOLEAN /\ struck \in BOOLEAN /\ interrupted \in BOOLEAN

LEMMA TotalNap == Naps * Nap \in Nat
  OBVIOUS

LEMMA UpdaterInitInv == UpdaterInit => UpdaterInv
  <1> SUFFICES ASSUME UpdaterInit PROVE UpdaterInv
    OBVIOUS
  <1>1. Booleans
    BY Zenon DEF UpdaterInit, Booleans
  <1>2. UpdaterTypeOK
    BY <1>1, TotalNap DEF UpdaterInit, UpdaterTypeOK, Booleans, Absent
  <1>3. Stages /\ IdStages /\ AtMostOneId /\ IdIsStored
    BY DEF UpdaterInit, Stages, IdStages, AtMostOneId, IdIsStored, Absent
  <1>4. ServerIsConfirmed /\ LossNeedsCrashInStore /\ MemoryIsStored
    BY DEF UpdaterInit, ServerIsConfirmed, Unlost, LossNeedsCrashInStore,
       MemoryIsStored
  <1> QED BY <1>2, <1>3, <1>4 DEF UpdaterInv

-----------------------------------------------------------------------------
(* What the two threads leave alone of each other.                         *)

\* The part of the invariant that main's steps after the start cannot disturb,
\* and the part that the updater's cannot.
ServerInv ==
  /\ Stages /\ ServerIsConfirmed /\ LossNeedsCrashInStore /\ MemoryIsStored
IdInv == IdStages /\ AtMostOneId /\ IdIsStored

LEMMA InvSplits == UpdaterInv <=> UpdaterTypeOK /\ ServerInv /\ IdInv
  BY DEF UpdaterInv, ServerInv, IdInv

LEMMA IdUnchanged ==
  ASSUME IdInv, UNCHANGED <<main, idFile, receiverId, ids>> PROVE IdInv'
  BY DEF IdInv, IdStages, AtMostOneId, IdIsStored

LEMMA ServerUnchanged ==
  ASSUME ServerInv, main \notin {"load", "looping", "start"},
         main' \notin {"load", "looping", "start"},
         UNCHANGED <<settingsFile, server, upd, serverStr, confirmed, struck>>
  PROVE  ServerInv'
  BY DEF ServerInv, Stages, ServerIsConfirmed, Unlost, LossNeedsCrashInStore,
     MemoryIsStored

\* A step of the updater between two requests, which changes no server.
LEMMA UpdaterMoves ==
  ASSUME ServerInv, UNCHANGED <<main, settingsFile, server, confirmed, struck>>,
         upd \notin {"off", "trunc", "write"}, upd' \notin {"off", "trunc", "write"},
         upd' \in {"confirm", "compare"} => serverStr' \in Servers
  PROVE  ServerInv'
  BY DEF ServerInv, Stages, ServerIsConfirmed, Unlost, LossNeedsCrashInStore,
     MemoryIsStored

-----------------------------------------------------------------------------
(* main.                                                                   *)

LEMMA LoadSettingsStep == ASSUME UpdaterInv, LoadSettings PROVE UpdaterInv'
  <1> USE DEF UpdaterInv
  <1>1. UpdaterTypeOK'
    BY DEF LoadSettings, UpdaterTypeOK, disk, updLocals, past
  <1>2. Stages' /\ IdStages' /\ AtMostOneId' /\ IdIsStored'
    BY DEF LoadSettings, Stages, IdStages, AtMostOneId, IdIsStored, disk, past,
       updLocals
  <1>3. ServerIsConfirmed' /\ LossNeedsCrashInStore' /\ MemoryIsStored'
    BY DEF LoadSettings, Stages, ServerIsConfirmed, Unlost, LossNeedsCrashInStore,
       MemoryIsStored, disk, past
  <1> QED BY <1>1, <1>2, <1>3

LEMMA LoadLoopsStep == ASSUME UpdaterInv, LoadLoops PROVE UpdaterInv'
  <1> USE DEF UpdaterInv
  <1>1. UpdaterTypeOK'
    BY DEF LoadLoops, UpdaterTypeOK, disk, updLocals, past
  <1>2. Stages' /\ IdStages' /\ AtMostOneId' /\ IdIsStored'
    BY DEF LoadLoops, Stages, IdStages, AtMostOneId, IdIsStored, disk, past,
       updLocals
  <1>3. ServerIsConfirmed' /\ LossNeedsCrashInStore' /\ MemoryIsStored'
    BY DEF LoadLoops, Stages, ServerIsConfirmed, Unlost, LossNeedsCrashInStore,
       MemoryIsStored, disk, past
  <1> QED BY <1>1, <1>2, <1>3

LEMMA StartUpdaterStep == ASSUME UpdaterInv, StartUpdater PROVE UpdaterInv'
  <1> USE DEF UpdaterInv
  <1>1. UpdaterTypeOK'
    BY DEF StartUpdater, UpdaterTypeOK, disk, updLocals, past
  <1>2. Stages' /\ IdStages' /\ AtMostOneId' /\ IdIsStored'
    BY DEF StartUpdater, Stages, IdStages, AtMostOneId, IdIsStored, disk, past,
       updLocals
  <1>3. ServerIsConfirmed' /\ LossNeedsCrashInStore' /\ MemoryIsStored'
    BY DEF StartUpdater, Stages, ServerIsConfirmed, Unlost, LossNeedsCrashInStore,
       MemoryIsStored, disk, past
  <1> QED BY <1>1, <1>2, <1>3

\* The file is created before the server is asked: once it exists there is no
\* way back to the question.
LEMMA OpenIdStep == ASSUME UpdaterInv, OpenId PROVE UpdaterInv'
  <1>1. UpdaterTypeOK'
    BY DEF OpenId, UpdaterInv, UpdaterTypeOK, updLocals, past, Absent
  <1>2. IdInv'
    BY InvSplits DEF OpenId, IdInv, UpdaterTypeOK, IdStages, AtMostOneId,
       IdIsStored, past, Absent
  <1>3. ServerInv'
    BY InvSplits, ServerUnchanged DEF OpenId, updLocals, past
  <1> QED BY <1>1, <1>2, <1>3 DEF UpdaterInv, ServerInv, IdInv

LEMMA FetchIdStep == ASSUME UpdaterInv, FetchId PROVE UpdaterInv'
  <1>1. UpdaterTypeOK'
    BY DEF FetchId, UpdaterInv, UpdaterTypeOK, disk, updLocals
  <1>2. IdInv'
    BY InvSplits DEF FetchId, IdInv, UpdaterTypeOK, IdStages, AtMostOneId,
       IdIsStored, disk, Absent
  <1>3. ServerInv'
    BY InvSplits, ServerUnchanged DEF FetchId, updLocals, disk
  <1> QED BY <1>1, <1>2, <1>3 DEF UpdaterInv, ServerInv, IdInv

LEMMA CloseIdStep == ASSUME UpdaterInv, CloseId PROVE UpdaterInv'
  <1>1. UpdaterTypeOK'
    BY DEF CloseId, UpdaterInv, UpdaterTypeOK, updLocals, past
  <1>2. IdInv'
    BY InvSplits DEF CloseId, IdInv, UpdaterTypeOK, IdStages, AtMostOneId,
       IdIsStored, past, Absent
  <1>3. ServerInv'
    BY InvSplits, ServerUnchanged DEF CloseId, updLocals, past
  <1> QED BY <1>1, <1>2, <1>3 DEF UpdaterInv, ServerInv, IdInv

-----------------------------------------------------------------------------
(* The updater.                                                            *)

LEMMA AskStep == ASSUME UpdaterInv, AskVersion \/ AskCommand PROVE UpdaterInv'
  <1>1. UpdaterTypeOK'
    BY DEF AskVersion, AskCommand, UpdaterInv, UpdaterTypeOK, disk, updLocals, past
  <1>2. IdInv'
    BY InvSplits, IdUnchanged DEF AskVersion, AskCommand, disk, past
  <1>3. ServerInv'
    BY InvSplits, UpdaterMoves DEF AskVersion, AskCommand, disk, past
  <1> QED BY <1>1, <1>2, <1>3 DEF UpdaterInv, ServerInv, IdInv

LEMMA AskValidStep == ASSUME UpdaterInv, AskValid PROVE UpdaterInv'
  <1>1. UpdaterTypeOK'
    BY DEF AskValid, UpdaterInv, UpdaterTypeOK, disk, past
  <1>2. IdInv'
    BY InvSplits, IdUnchanged DEF AskValid, disk, past
  <1>3. ServerInv'
    BY InvSplits, UpdaterMoves DEF AskValid, disk, past
  <1> QED BY <1>1, <1>2, <1>3 DEF UpdaterInv, ServerInv, IdInv

LEMMA CompareStep == ASSUME UpdaterInv, Compare PROVE UpdaterInv'
  <1>1. UpdaterTypeOK'
    BY TotalNap DEF Compare, ToCommands, UpdaterInv, UpdaterTypeOK, disk, past
  <1>2. IdInv'
    BY InvSplits, IdUnchanged DEF Compare, disk, past
  <1>3. ServerInv'
    <2>1. serverStr' \in Servers
      BY DEF Compare, UpdaterInv, Stages
    <2> QED BY <2>1, InvSplits, UpdaterMoves DEF Compare, ToCommands, disk, past
  <1> QED BY <1>1, <1>2, <1>3 DEF UpdaterInv, ServerInv, IdInv

\* A server is followed only when it has just given its own name; who was
\* confirmed before stays so.
LEMMA ConfirmStep == ASSUME UpdaterInv, Confirm PROVE UpdaterInv'
  <1>1. confirmed \subseteq confirmed' /\ confirmed' \in SUBSET Servers
    BY DEF Confirm, UpdaterInv, UpdaterTypeOK
  <1>2. \/ /\ server' \in Servers /\ server' \in confirmed'
           /\ upd' = "trunc" /\ UNCHANGED sleepLeft
        \/ ToCommands /\ UNCHANGED server
        \/ upd' = "version" /\ UNCHANGED <<server, sleepLeft>>
    BY DEF Confirm
  <1>3. /\ upd = "confirm"
        /\ UNCHANGED <<disk, receiverId, main, serverStr, atEof, crashes, ids,
                       struck, interrupted>>
    BY DEF Confirm
  <1>4. UpdaterTypeOK'
    BY <1>1, <1>2, <1>3, TotalNap DEF ToCommands, UpdaterInv, UpdaterTypeOK, disk
  <1>5. IdInv'
    BY <1>3, InvSplits, IdUnchanged DEF disk
  <1>6. ServerIsConfirmed'
    BY <1>1, <1>2, <1>3 DEF UpdaterInv, ServerIsConfirmed, Unlost, disk
  <1>7. Stages' /\ LossNeedsCrashInStore' /\ MemoryIsStored'
    BY <1>2, <1>3 DEF ToCommands, UpdaterInv, Stages, LossNeedsCrashInStore,
       MemoryIsStored, disk
  <1> QED BY <1>4, <1>5, <1>6, <1>7 DEF UpdaterInv, IdInv

LEMMA StoreTruncStep == ASSUME UpdaterInv, StoreTrunc PROVE UpdaterInv'
  <1>1. UpdaterTypeOK'
    BY DEF StoreTrunc, UpdaterInv, UpdaterTypeOK, updLocals, past
  <1>2. IdInv'
    BY InvSplits, IdUnchanged DEF StoreTrunc, past
  <1>3. ServerInv'
    BY DEF StoreTrunc, UpdaterInv, ServerInv, Stages, ServerIsConfirmed, Unlost,
       LossNeedsCrashInStore, MemoryIsStored, updLocals, past
  <1> QED BY <1>1, <1>2, <1>3 DEF UpdaterInv, ServerInv, IdInv

LEMMA StoreWriteStep == ASSUME UpdaterInv, StoreWrite PROVE UpdaterInv'
  <1>1. UpdaterTypeOK'
    BY TotalNap DEF StoreWrite, ToCommands, UpdaterInv, UpdaterTypeOK, past
  <1>2. IdInv'
    BY InvSplits, IdUnchanged DEF StoreWrite, past
  <1>3. ServerInv'
    BY DEF StoreWrite, ToCommands, UpdaterInv, ServerInv, Stages,
       ServerIsConfirmed, Unlost, LossNeedsCrashInStore, MemoryIsStored, past
  <1> QED BY <1>1, <1>2, <1>3 DEF UpdaterInv, ServerInv, IdInv

LEMMA SleepStep == ASSUME UpdaterInv, Sleep PROVE UpdaterInv'
  <1> PICK slept \in 0..Nap :
        /\ sleepLeft' = Left(sleepLeft - slept)
        /\ interrupted' = (interrupted \/ slept # Nap)
        /\ upd' = IF sleepLeft = slept THEN "version" ELSE "commands"
    BY DEF Sleep
  <1>1. interrupted' \in BOOLEAN
    BY Zenon
  <1>2. sleepLeft' \in -1..(Naps * Nap)
    <2>1. sleepLeft \in -1..(Naps * Nap) /\ sleepLeft' = Left(sleepLeft - slept)
      BY DEF UpdaterInv, UpdaterTypeOK
    <2> QED BY <2>1, TotalNap DEF Left
  <1>3. /\ UNCHANGED <<disk, server, receiverId, main, serverStr, atEof, crashes,
                       ids, confirmed, struck>>
        /\ upd = "sleep" /\ upd' \in {"version", "commands"}
    BY DEF Sleep
  <1>4. UpdaterTypeOK'
    BY <1>1, <1>2, <1>3 DEF UpdaterInv, UpdaterTypeOK, disk
  <1>5. IdInv'
    BY <1>3, InvSplits, IdUnchanged DEF disk
  <1>6. ServerInv'
    BY <1>3, InvSplits, UpdaterMoves DEF disk
  <1> QED BY <1>4, <1>5, <1>6 DEF UpdaterInv, ServerInv, IdInv

-----------------------------------------------------------------------------
\* Memory is lost, the disk is not: a crash between truncating and writing is
\* the one that leaves no server.
LEMMA CrashStep == ASSUME UpdaterInv, Crash PROVE UpdaterInv'
  <1>1. atEof' \in BOOLEAN /\ struck' \in BOOLEAN
    BY Zenon DEF Crash
  <1>2. UpdaterTypeOK'
    BY <1>1, TotalNap DEF Crash, UpdaterInv, UpdaterTypeOK, disk
  <1>3. IdInv'
    BY DEF Crash, UpdaterInv, IdInv, IdStages, AtMostOneId, IdIsStored, disk
  <1>4. Stages' /\ ServerIsConfirmed' /\ MemoryIsStored'
    BY DEF Crash, UpdaterInv, Stages, ServerIsConfirmed, Unlost, MemoryIsStored, disk
  <1>5. LossNeedsCrashInStore'
    BY DEF Crash, UpdaterInv, LossNeedsCrashInStore, disk
  <1> QED BY <1>2, <1>3, <1>4, <1>5 DEF UpdaterInv, IdInv

LEMMA UpdaterStep == UpdaterInv /\ [UpdaterNext]_uvars => UpdaterInv'
  <1> SUFFICES ASSUME UpdaterInv, [UpdaterNext]_uvars PROVE UpdaterInv'
    OBVIOUS
  <1>1. CASE Main
    BY <1>1, LoadSettingsStep, LoadLoopsStep, StartUpdaterStep, OpenIdStep,
       FetchIdStep, CloseIdStep DEF Main
  <1>2. CASE UpdateChecker
    BY <1>2, AskStep, AskValidStep, CompareStep, ConfirmStep, StoreTruncStep,
       StoreWriteStep, SleepStep DEF UpdateChecker
  <1>3. CASE Crash
    BY <1>3, CrashStep
  <1>4. CASE UNCHANGED uvars
    BY <1>4 DEF uvars, disk, updLocals, past, UpdaterInv, UpdaterTypeOK, Stages,
       IdStages, ServerIsConfirmed, Unlost, LossNeedsCrashInStore, MemoryIsStored,
       AtMostOneId, IdIsStored
  <1> QED BY <1>1, <1>2, <1>3, <1>4 DEF UpdaterNext

LEMMA UpdaterAlways == UpdaterSpec => []UpdaterInv
  BY UpdaterInitInv, UpdaterStep, PTL DEF UpdaterSpec

\* The files and both threads' variables are well typed; sleepLeft stays within
\* its thirty minutes.
THEOREM UpdaterIsTyped == UpdaterSpec => []UpdaterTypeOK
  BY UpdaterAlways, PTL DEF UpdaterInv

\* However often it crashes, the receiver follows only its first server and
\* servers that gave their own name (updateChecker).
THEOREM ServersAreConfirmed == UpdaterSpec => []ServerIsConfirmed
  BY UpdaterAlways, PTL DEF UpdaterInv

\* The address is lost only by a crash inside Settings::store.
THEOREM LossIsExplained == UpdaterSpec => []LossNeedsCrashInStore
  BY UpdaterAlways, PTL DEF UpdaterInv

\* Once loaded, what the threads use is what a restart would load (Settings).
THEOREM MemoryMatchesFile == UpdaterSpec => []MemoryIsStored
  BY UpdaterAlways, PTL DEF UpdaterInv

\* The server is asked for a receiver id once at most (initReceiverId).
THEOREM OneIdAtMost == UpdaterSpec => []AtMostOneId
  BY UpdaterAlways, PTL DEF UpdaterInv

\* A restart does not change the receiver's id (initReceiverId).
THEOREM IdSurvives == UpdaterSpec => []IdIsStored
  BY UpdaterAlways, PTL DEF UpdaterInv

=============================================================================
