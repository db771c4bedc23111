------------------------------ MODULE Updater ------------------------------
(***************************************************************************)
(* What the receiver keeps over a restart, the settings file and the       *)
(* receiver id file, and the two threads that write them: the updater,     *)
(* which follows the server to a new address and polls it for commands,    *)
(* and main, which asks for the receiver's id when there is no file.       *)
(*                                                                         *)
(* The process can die between any two steps and is started again: by the  *)
(* update script, a reboot, the watchdog's SIGTERM, or a loss of power.    *)
(***************************************************************************)
EXTENDS Integers

CONSTANTS
  Servers,     \* server addresses; 0 stands for the empty string
  FirstServer, \* the one in the settings file at installation
  Naps,        \* sleeps between two checks: 6
  Nap,         \* the length of a sleep: 300 seconds
  MaxCrashes,  \* bound: how often the process dies
  MaxReceiverIds       \* bound: ids the server hands to this receiver

ASSUME ServersAssumption ==
  Servers \subseteq Nat \ {0} /\ FirstServer \in Servers
ASSUME NapAssumption == Naps \in Nat \ {0} /\ Nap \in Nat \ {0}
ASSUME UpdaterBoundAssumption == MaxCrashes \in Nat /\ MaxReceiverIds \in Nat

Absent == -1

VARIABLES
  settingsFile, \* the server in receiver_settings, 0 if there is none
  idFile,       \* the contents of receiver.id, Absent if there is no file
  server,       \* settings["server"]
  receiverId,
  main,         \* where main is
  upd,          \* where the updater is
  serverStr,    \* local of updateChecker: the server it was referred to
  atEof,        \* serverStream was read to its end and keeps its eofbit
  sleepLeft,
  crashes,
  ids,          \* history: how many ids the server has handed out
  confirmed,    \* history: the servers that gave their own name
  struck,       \* history: a crash fell between truncating and writing
  interrupted   \* history: a signal cut a sleep short

disk == <<settingsFile, idFile>>
updLocals == <<serverStr, atEof, sleepLeft>>
past == <<crashes, ids, confirmed, struck, interrupted>>
uvars == <<disk, server, receiverId, main, upd, updLocals, past>>

UpdaterTypeOK ==
  /\ settingsFile \in Servers \cup {0} /\ server \in Servers \cup {0}
  /\ idFile \in Nat \cup {Absent} /\ receiverId \in Nat
  /\ main \in {"load", "looping", "start", "open", "fetch", "close", "go"}
  /\ upd \in {"off", "version", "valid", "compare", "confirm", "trunc", "write",
              "commands", "sleep"}
  /\ serverStr \in Servers \cup {0} /\ atEof \in BOOLEAN
  /\ sleepLeft \in -1..(Naps * Nap)
  /\ crashes \in Nat /\ ids \in Nat
  /\ confirmed \in SUBSET Servers
  /\ struck \in BOOLEAN /\ interrupted \in BOOLEAN

UpdaterInit ==
  /\ settingsFile = FirstServer /\ idFile = Absent
  /\ server = 0 /\ receiverId = 0
  /\ main = "load" /\ upd = "off"
  /\ serverStr = 0 /\ atEof = FALSE /\ sleepLeft = 0
  /\ crashes = 0 /\ ids = 0 /\ confirmed = {}
  /\ struck = FALSE /\ interrupted = FALSE

\* A server answers requests; the empty address has nobody behind it.
Answers(s) == s # 0

-----------------------------------------------------------------------------
(* main.                                                                   *)

\* Settings::load, of the keys the one that is ever set.  Every file that is
\* opened gives at least the key "".
LoadSettings ==
  /\ main = "load"
  /\ server' = settingsFile
  /\ main' = "start"
  /\ UNCHANGED <<disk, receiverId, upd, updLocals, past>>

\* External: the file cannot be opened.  A stream that was never opened does not
\* come to its end, and Settings::load reads lines from it for ever.
LoadLoops ==
  /\ main = "load"
  /\ main' = "looping"
  /\ UNCHANGED <<disk, server, receiverId, upd, updLocals, past>>

\* The updater is started before the receiver has its id.
StartUpdater ==
  /\ main = "start"
  /\ upd' = "version"
  /\ main' = "open"
  /\ UNCHANGED <<disk, server, receiverId, updLocals, past>>

\* Mutant of OpenId: the file is created when there is an id to put into it.
OpenIdLate ==
  /\ main = "open"
  /\ IF idFile = Absent
     THEN main' = "fetch" /\ UNCHANGED receiverId
     ELSE receiverId' = idFile /\ main' = "go"
  /\ UNCHANGED <<disk, server, upd, updLocals, past>>

\* initReceiverId: a file that cannot be read is created before the id is
\* fetched; one that exists is believed, also if it is empty.
OpenId ==
  /\ main = "open"
  /\ IF idFile = Absent
     THEN idFile' = 0 /\ main' = "fetch" /\ UNCHANGED receiverId
     ELSE receiverId' = idFile /\ main' = "go" /\ UNCHANGED idFile
  /\ UNCHANGED <<settingsFile, server, upd, updLocals, past>>

\* GET /api/getid: answered, answered in vain, or not answered.
FetchId ==
  /\ main = "fetch"
  /\ \/ /\ Answers(server) /\ ids < MaxReceiverIds
        /\ ids' = ids + 1
        /\ \/ receiverId' = ids + 1 /\ main' = "close"
           \/ main' = "go" /\ UNCHANGED receiverId
     \/ main' = "go" /\ UNCHANGED <<ids, receiverId>>
  /\ UNCHANGED <<disk, server, upd, updLocals, crashes, confirmed, struck,
                 interrupted>>

\* Mutant of CloseId: what fwrite has buffered is not flushed.
CloseIdUnflushed ==
  /\ main = "close"
  /\ main' = "go"
  /\ UNCHANGED <<disk, server, receiverId, upd, updLocals, past>>

\* fwrite leaves the id in a buffer; fclose puts it into the file.
CloseId ==
  /\ main = "close"
  /\ idFile' = receiverId
  /\ main' = "go"
  /\ UNCHANGED <<settingsFile, server, receiverId, upd, updLocals, past>>

Main == LoadSettings \/ LoadLoops \/ StartUpdater \/ OpenId \/ FetchId \/ CloseId

-----------------------------------------------------------------------------
(* The updater.                                                            *)

\* GET /receiver/current_version; without an answer it is asked again.  An
\* update runs in the background, and restarts the process some time later.
AskVersion ==
  /\ upd = "version" /\ Answers(server)
  /\ upd' = "valid"
  /\ UNCHANGED <<disk, server, receiverId, main, updLocals, past>>

\* GET /receiver/valid_server.  The stream it is read from reaches its end
\* unless white space follows the name.
AskValid ==
  /\ upd = "valid"
  /\ \/ /\ Answers(server)
        /\ serverStr' \in Servers
        /\ atEof' \in BOOLEAN
        /\ upd' = "compare"
     \/ upd' = "version" /\ UNCHANGED <<serverStr, atEof>>
  /\ UNCHANGED <<disk, server, receiverId, main, sleepLeft, past>>

\* Mutant of ToCommands: a nap too many.
ToCommandsLong ==
  /\ upd' = "commands"
  /\ sleepLeft' = (Naps + 1) * Nap

\* Thirty minutes of sleep, in naps, between two checks.
ToCommands ==
  /\ upd' = "commands"
  /\ sleepLeft' = Naps * Nap

Compare ==
  /\ upd = "compare"
  /\ IF serverStr # server
     THEN upd' = "confirm" /\ UNCHANGED sleepLeft
     ELSE ToCommands
  /\ UNCHANGED <<disk, server, receiverId, main, serverStr, atEof, past>>

\* Mutant of Confirm: the new name is set before it is compared.
ConfirmLate ==
  /\ upd = "confirm"
  /\ \/ \E name \in Servers :
          /\ confirmed' = IF name = serverStr THEN confirmed \cup {name} ELSE confirmed
          /\ server' = name
          /\ IF name = serverStr /\ ~atEof
             THEN upd' = "trunc" /\ UNCHANGED sleepLeft
             ELSE ToCommands
     \/ upd' = "version" /\ UNCHANGED <<server, sleepLeft, confirmed>>
  /\ UNCHANGED <<disk, receiverId, main, serverStr, atEof, crashes, ids, struck,
                 interrupted>>

\* The server it was referred to is asked the same.  serverStream still has its
\* eofbit if the first answer ended with the name: then nothing is read, and
\* the names do not match.
Confirm ==
  /\ upd = "confirm"
  /\ \/ \E name \in Servers :
          /\ confirmed' = IF name = serverStr THEN confirmed \cup {name} ELSE confirmed
          /\ IF name = serverStr /\ ~atEof
             THEN server' = name /\ upd' = "trunc" /\ UNCHANGED sleepLeft
             ELSE ToCommands /\ UNCHANGED server
     \/ upd' = "version" /\ UNCHANGED <<server, sleepLeft, confirmed>>
  /\ UNCHANGED <<disk, receiverId, main, serverStr, atEof, crashes, ids, struck,
                 interrupted>>

\* Settings::store: the file is truncated when it is opened.
StoreTrunc ==
  /\ upd = "trunc"
  /\ settingsFile' = 0
  /\ upd' = "write"
  /\ UNCHANGED <<idFile, server, receiverId, main, updLocals, past>>

\* Mutant of StoreWrite: the lines never leave the stream's buffer.
StoreWriteLost ==
  /\ upd = "write"
  /\ ToCommands
  /\ UNCHANGED <<disk, server, receiverId, main, serverStr, atEof, past>>

\* The lines are in the stream's buffer until it is closed.
StoreWrite ==
  /\ upd = "write"
  /\ settingsFile' = server
  /\ ToCommands
  /\ UNCHANGED <<idFile, server, receiverId, main, serverStr, atEof, past>>

\* GET .../admin/command until the answer is "none"; "reboot" and "test" are
\* carried out and asked for again, and so is no answer.
AskCommand ==
  /\ upd = "commands" /\ Answers(server)
  /\ upd' = "sleep"
  /\ UNCHANGED <<disk, server, receiverId, main, updLocals, past>>

\* Below zero sleepLeft stays below, for the 2^31 seconds until it wraps.
Left(n) == IF n < 0 THEN -1 ELSE n

\* Mutant of Sleep: a nap counts for a second more than it lasted.
SleepOver ==
  /\ upd = "sleep"
  /\ sleepLeft' = Left(sleepLeft - (Nap + 1))
  /\ upd' = IF sleepLeft' = 0 THEN "version" ELSE "commands"
  /\ UNCHANGED <<disk, server, receiverId, main, serverStr, atEof, past>>

\* sleepLeft -= 300 - sleep(300), and on until it is exactly 0.  SIGQUIT has a
\* handler that does nothing, and ends the sleep of the thread it meets.
Sleep ==
  /\ upd = "sleep"
  /\ \E slept \in 0..Nap :
       /\ sleepLeft' = Left(sleepLeft - slept)
       /\ interrupted' = (interrupted \/ slept # Nap)
       /\ upd' = IF sleepLeft = slept THEN "version" ELSE "commands"
  /\ UNCHANGED <<disk, server, receiverId, main, serverStr, atEof, crashes, ids,
                 confirmed, struck>>

UpdateChecker ==
  \/ AskVersion \/ AskValid \/ Compare \/ Confirm \/ StoreTrunc \/ StoreWrite
  \/ AskCommand \/ Sleep

-----------------------------------------------------------------------------
\* External: the process dies and is started again.  What it had in memory and
\* in the buffers of its streams is gone.
Crash ==
  /\ crashes < MaxCrashes
  /\ crashes' = crashes + 1
  /\ struck' = (struck \/ upd = "write")
  /\ server' = 0 /\ receiverId' = 0
  /\ main' = "load" /\ upd' = "off"
  /\ serverStr' = 0 /\ atEof' = FALSE /\ sleepLeft' = 0
  /\ UNCHANGED <<disk, ids, confirmed, interrupted>>

UpdaterNext == Main \/ UpdateChecker \/ Crash

UpdaterSpec == UpdaterInit /\ [][UpdaterNext]_uvars

\* The threads run, and a server that is asked for commands says "none" in the
\* end.
UpdaterFairness == WF_uvars(Main) /\ WF_uvars(UpdateChecker)

-----------------------------------------------------------------------------
(* Properties.                                                             *)

Unlost(s) == s \in {0, FirstServer} \cup confirmed

\* The receiver follows nobody but its first server and servers that gave their
\* own name when they were asked, also after a restart (updateChecker).
ServerIsConfirmed == Unlost(server) /\ Unlost(settingsFile)

\* The server's address is lost, in the file or in memory, only if a crash fell
\* between truncating the file and writing it (Settings::store).
LossNeedsCrashInStore ==
  /\ settingsFile = 0 => upd = "write" \/ struck
  /\ server = 0 => main \in {"load", "looping"} \/ struck

\* Once the settings are loaded, and but for the two steps of a store, what the
\* threads use is what a restart would load (Settings::set, store and load).
MemoryIsStored ==
  main \notin {"load", "looping"} /\ upd \notin {"trunc", "write"}
     => settingsFile = server

\* The server is asked for an id at most once in the life of the receiver,
\* however often it dies: the file is created first (initReceiverId).  The
\* price is a receiver that never gets one.
AtMostOneId == ids <= 1

\* The id in use is the one in the file, so that a restart does not change it.
IdIsStored == main = "go" => receiverId = (IF idFile = Absent THEN 0 ELSE idFile)

\* The updater asks for a new version again and again, if it has a server at
\* all and no signal cut one of its naps short (updateChecker, sleepLeft).
VersionsAreChecked == []<>(upd = "version" \/ interrupted \/ server = 0)

=============================================================================
