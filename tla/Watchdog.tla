------------------------------ MODULE Watchdog ------------------------------
(***************************************************************************)
(* The dispatcher's watchdog: the dispatcher resets it once per loop, the  *)
(* watchdog thread scans for one that has expired and "restarts" its       *)
(* thread, by a SIGTERM on which the process exits.                        *)
(*                                                                         *)
(* lastReset is two words that the dispatcher writes and the watchdog      *)
(* thread reads without a lock, and the vector of watchdogs has none       *)
(* either.                                                                 *)
(***************************************************************************)
EXTENDS Timespec

CONSTANTS
  TimeoutSeconds,  \* the dispatcher's timeout: one second
  LeastWait,   \* the nanoseconds of minTime before the scan
  MaxSeconds   \* bound: seconds on the clock

ASSUME TimeoutAssumption == TimeoutSeconds \in Nat
ASSUME WatchdogBoundAssumption ==
  LeastWait \in 0..(NS - 1) /\ MaxSeconds \in Nat

VARIABLES
  clk,         \* CLOCK_REALTIME
  registered,  \* the watchdog is in the vector
  lastReset,   \* Watchdog::lastReset
  scan,        \* where the watchdog thread is
  itr,         \* watchdogs.begin() was taken of a vector that was not empty
  curTime, sec,  \* locals of expired(): the time, the seconds of lastReset
  wake,        \* the time pthread_cond_timedwait waits for
  gone,        \* "no", or how the process ended
  overdue,     \* history: the dispatcher did not reset in time
  torn         \* history: lastReset changed between the two loads of this scan

stamps == <<registered, lastReset>>
scanLocals == <<itr, curTime, sec, wake>>
wvars == <<clk, stamps, scan, scanLocals, gone, overdue, torn>>

WatchdogTypeOK ==
  /\ clk \in Times /\ lastReset \in Times /\ curTime \in Times
  /\ registered \in BOOLEAN /\ itr \in BOOLEAN
  /\ scan \in {"begin", "end", "load", "judge", "rest", "restart"}
  /\ sec \in Nat /\ wake \in [s : Int, ns : Int]
  /\ gone \in {"no", "terminated", "crashed"}
  /\ overdue \in BOOLEAN /\ torn \in BOOLEAN

Zero == [s |-> 0, ns |-> 0]
Timeout == [s |-> TimeoutSeconds, ns |-> 0]

WatchdogInit ==
  /\ clk = Zero /\ lastReset = Zero /\ registered = FALSE
  /\ scan = "begin" /\ itr = FALSE /\ curTime = Zero /\ sec = 0 /\ wake = Zero
  /\ gone = "no"
  /\ overdue = FALSE /\ torn = FALSE

ScanAt(label) == gone = "no" /\ scan = label

-----------------------------------------------------------------------------
(* The dispatcher.                                                         *)

\* History: the deadline has passed.
Lapsed == registered /\ Nanos(clk) > Nanos(lastReset) + Nanos(Timeout)
ObserveLapse == overdue' = (overdue \/ Lapsed')

\* The constructor resets; registerWatchdog pushes into the vector.
RegisterWatchdog ==
  /\ gone = "no" /\ ~registered
  /\ registered' = TRUE
  /\ lastReset' = clk
  /\ UNCHANGED <<clk, scan, scanLocals, gone, torn>>

\* Once per loop of dispatcher(), however long the queue took to drain.
ResetWatchdog ==
  /\ gone = "no" /\ registered
  /\ lastReset' = clk
  /\ torn' = (torn \/ scan = "judge")
  /\ UNCHANGED <<clk, registered, scan, scanLocals, gone>>

-----------------------------------------------------------------------------
(* The watchdog thread.                                                    *)

\* Mutant of expired: a time of day is compared, and not a time.
expiredToday(now, deadline) == now.ns > deadline.ns

\* Both the seconds and the nanoseconds must have passed.
expired(now, deadline) ==
  now.s >= deadline.s /\ now.ns > deadline.ns

\* minTime before the loop is { ~0, 9999999 }, and ~0 is -1.
NoTime == [s |-> -1, ns |-> LeastWait]
MinTime(deadline) ==
  LET left == sub_timespec(deadline, clk)
  IN  IF compare_timespec(left, NoTime) < 0 THEN left ELSE NoTime

ScanBegin ==
  /\ ScanAt("begin")
  /\ itr' = registered
  /\ scan' = "end"
  /\ torn' = FALSE
  /\ UNCHANGED <<clk, stamps, curTime, sec, wake, gone>>

\* itr < watchdogs.end(), then the clock for expired().  The begin of an empty
\* vector is NULL, and less than the end of one that was pushed into since.
ScanEnd ==
  /\ ScanAt("end")
  /\ \/ /\ ~registered
        /\ scan' = "rest" /\ wake' = add_timespec(clk, NoTime)
        /\ UNCHANGED <<curTime, gone>>
     \/ /\ registered /\ ~itr
        /\ gone' = "crashed"
        /\ UNCHANGED <<scan, wake, curTime>>
     \/ /\ registered /\ itr
        /\ scan' = "load" /\ curTime' = clk
        /\ UNCHANGED <<wake, gone>>
  /\ UNCHANGED <<clk, stamps, itr, sec, torn>>

\* this->lastReset is copied in two loads.
LoadReset ==
  /\ ScanAt("load")
  /\ sec' = lastReset.s
  /\ scan' = "judge"
  /\ UNCHANGED <<clk, stamps, itr, curTime, wake, gone, torn>>

Deadline(seconds, nanoseconds) ==
  add_timespec([s |-> seconds, ns |-> nanoseconds], Timeout)

JudgeExpired ==
  /\ ScanAt("judge")
  /\ IF expired(curTime, Deadline(sec, lastReset.ns))
     THEN scan' = "restart" /\ UNCHANGED wake
     ELSE /\ scan' = "rest"
          /\ wake' = add_timespec(clk, MinTime(Deadline(lastReset.s, lastReset.ns)))
  /\ UNCHANGED <<clk, stamps, itr, curTime, sec, gone, torn>>

ScanRest ==
  /\ ScanAt("rest")
  /\ Nanos(clk) >= Nanos(wake)
  /\ scan' = "begin"
  /\ UNCHANGED <<clk, stamps, scanLocals, gone, torn>>

\* restartDispatchThread: pthread_kill(SIGTERM), and sigterm_handler exits.
RestartDispatcher ==
  /\ ScanAt("restart")
  /\ gone' = "terminated"
  /\ UNCHANGED <<clk, stamps, scan, scanLocals, torn>>

-----------------------------------------------------------------------------
\* External: the clock.
ClockTick ==
  /\ gone = "no" /\ clk.s < MaxSeconds
  /\ clk' = add_timespec(clk, [s |-> 0, ns |-> 1])
  /\ UNCHANGED <<stamps, scan, scanLocals, gone, torn>>

WatchdogNext ==
  \/ RegisterWatchdog /\ ObserveLapse
  \/ ResetWatchdog /\ ObserveLapse
  \/ ScanBegin /\ ObserveLapse
  \/ ScanEnd /\ ObserveLapse
  \/ LoadReset /\ ObserveLapse
  \/ JudgeExpired /\ ObserveLapse
  \/ ScanRest /\ ObserveLapse
  \/ RestartDispatcher /\ ObserveLapse
  \/ ClockTick /\ ObserveLapse

WatchdogSpec == WatchdogInit /\ [][WatchdogNext]_wvars

-----------------------------------------------------------------------------
(* Properties.                                                             *)

\* The process is terminated only if the dispatcher once let its deadline pass,
\* although expired() compares seconds and nanoseconds apart and lastReset may
\* change under it; the one exception is a reset between the two loads (expired).
RestartIsDeserved ==
  scan = "restart" \/ gone = "terminated" => overdue \/ torn

=============================================================================
