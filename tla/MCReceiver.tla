----------------------------- MODULE MCReceiver -----------------------------
(***************************************************************************)
(* The parts of the receiver beside the radio and the serial port: the     *)
(* server connection, watchdog, updater, sensors, reports, packets and     *)
(* CRC.  They share no variable, and no property speaks of two of them, so *)
(* they are checked one at a time: focus is the part that runs, and the    *)
(* others stay in their initial states.                                    *)
(***************************************************************************)
EXTENDS ServerComm, Watchdog, Updater, Sensors, Reports, Packets, Crc16

VARIABLE focus

vars == <<lvars, wvars, uvars, svars, rvars, pvars, cvars>>

Parts == {"server", "watchdog", "updater", "sensors", "reports", "packets", "crc"}

Init ==
  /\ ServerInit /\ WatchdogInit /\ UpdaterInit /\ SensorsInit /\ ReportsInit
  /\ PacketsInit /\ CrcInit
  /\ focus \in Parts

Runs(part) == focus = part /\ UNCHANGED focus

Next ==
  \/ Runs("server") /\ ServerNext
     /\ UNCHANGED <<wvars, uvars, svars, rvars, pvars, cvars>>
  \/ Runs("watchdog") /\ WatchdogNext
     /\ UNCHANGED <<lvars, uvars, svars, rvars, pvars, cvars>>
  \/ Runs("updater") /\ UpdaterNext
     /\ UNCHANGED <<lvars, wvars, svars, rvars, pvars, cvars>>
  \/ Runs("sensors") /\ SensorsNext
     /\ UNCHANGED <<lvars, wvars, uvars, rvars, pvars, cvars>>
  \/ Runs("reports") /\ ReportsNext
     /\ UNCHANGED <<lvars, wvars, uvars, svars, pvars, cvars>>
  \/ Runs("packets") /\ PacketsNext
     /\ UNCHANGED <<lvars, wvars, uvars, svars, rvars, cvars>>
  \/ Runs("crc") /\ CrcNext
     /\ UNCHANGED <<lvars, wvars, uvars, svars, rvars, pvars>>

\* The parts of the server connection, while it is the part that runs.
Serves(action) == focus = "server" /\ comm # "crashed" /\ action

\* Each part's own fairness, while it is the part that runs.  Of the server
\* connection: both its threads keep running, a logger that saw a usable
\* connection goes on, and a CONNECT is answered, or its connection breaks, or
\* the sleep between two polls never ends.
Fairness ==
  /\ WF_lvars(Serves(CommThread)) /\ WF_lvars(Serves(Handshake))
  /\ WF_lvars(Serves(HeartbeatThread)) /\ WF_lvars(Serves(SendContent))
  /\ WF_uvars(focus = "updater" /\ Main)
  /\ WF_uvars(focus = "updater" /\ UpdateChecker)
  /\ WF_svars(focus = "sensors" /\ Handler)
  /\ WF_svars(focus = "sensors" /\ Scanner)
  /\ WF_rvars(focus = "reports" /\ Handling)

FairSpec == Init /\ [][Next]_<<vars, focus>> /\ Fairness

=============================================================================
