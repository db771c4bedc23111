----------------------------- MODULE MCXBeeComm -----------------------------
(* Small instances of XBeeComm for TLC: the workloads its runs choose from. *)
EXTENDS XBeeComm

\* Sensors that know their id and only report: each packet asks for ATDB.
OnlyReports == {"rev1_report"}

\* Everything a sensor sends.
AllPackets == PacketTypes

\* Sensors that ask for the receiver, and are answered by a transmit.
Requests == {"rev0_request"}

NoPackets == {}
NoStatuses == {}

\* "watchdog timer reset", which doubles as frame id 1.
Resets == {1}

=============================================================================
