--------------------------- MODULE WatchdogProofs ---------------------------
(***************************************************************************)
(* The arithmetic of util.cpp for a second of any number of nanoseconds,   *)
(* and the watchdog for any timeout: its times are well formed, and it     *)
(* does not end the process without cause.  Two theorems say where the     *)
(* code does not do what its comments say: an expiry shows for a part of   *)
(* each second only, and the scan does not wait until the next one.        *)
(***************************************************************************)
EXTENDS Watchdog, TLAPS

USE NSAssumption

-----------------------------------------------------------------------------
(* Timespec.                                                               *)

LEMMA DivBounds ==
  ASSUME NEW n \in Nat
  PROVE  n \div NS \in Nat /\ NS * (n \div NS) <= n /\ n < NS * (n \div NS) + NS
  OBVIOUS

LEMMA LessThanSecond == ASSUME NEW n \in Nat, n < NS PROVE n \div NS = 0
  OBVIOUS

LEMMA QuotType ==
  ASSUME NEW n \in Int
  PROVE  /\ Quot(n) \in Int /\ Rem(n) \in -(NS - 1)..(NS - 1)
         /\ n = NS * Quot(n) + Rem(n)
         /\ n >= 0 => Rem(n) >= 0 /\ Quot(n) >= 0
  <1>1. CASE n >= 0
    <2>1. n \in Nat /\ Quot(n) = n \div NS
      BY <1>1 DEF Quot
    <2> QED BY <2>1, DivBounds DEF Rem
  <1>2. CASE n < 0
    <2>1. -n \in Nat /\ Quot(n) = -((-n) \div NS)
      BY <1>2 DEF Quot
    <2> DEFINE q == (-n) \div NS
    <2>2. q \in Nat /\ NS * q <= -n /\ -n < NS * q + NS
      BY <2>1, DivBounds
    <2>3. NS * (-q) = -(NS * q)
      BY <2>2
    <2> HIDE DEF q
    <2>4. Quot(n) = -q
      BY <2>1 DEF q
    <2> QED BY <1>2, <2>2, <2>3, <2>4 DEF Rem
  <1> QED BY <1>1, <1>2

LEMMA Distributes ==
  ASSUME NEW a \in Int, NEW b \in Int, NEW q \in Int
  PROVE  /\ (a + b + q) * NS = a * NS + b * NS + NS * q
         /\ (a - b - q) * NS = a * NS - b * NS - NS * q
  OBVIOUS

LEMMA Regroup ==
  ASSUME NEW x \in Int, NEW y \in Int, NEW p \in Int, NEW q \in Int
  PROVE  (x + p) - (y + q) = x - y + (p - q)
  OBVIOUS

LEMMA Monotone ==
  ASSUME NEW a \in Int, NEW b \in Int, a <= b PROVE a * NS <= b * NS
  OBVIOUS

\* The times that occur: clock_gettime's, differences, and what is waited for.
Spans == [s : Int, ns : Int]

\* add_timespec adds, for any normalised or unnormalised operands.
THEOREM AddIsExact ==
  ASSUME NEW a \in Spans, NEW b \in Spans
  PROVE  /\ add_timespec(a, b) \in Spans
         /\ Nanos(add_timespec(a, b)) = Nanos(a) + Nanos(b)
  <1>1. a.ns + b.ns \in Int /\ a.s \in Int /\ b.s \in Int
    BY DEF Spans
  <1> DEFINE n == a.ns + b.ns
  <1>2. Quot(n) \in Int /\ Rem(n) \in Int /\ n = NS * Quot(n) + Rem(n)
    BY <1>1, QuotType
  <1>3. add_timespec(a, b) = [s |-> a.s + b.s + Quot(n), ns |-> Rem(n)]
    BY DEF add_timespec
  <1>4. (a.s + b.s + Quot(n)) * NS = a.s * NS + b.s * NS + NS * Quot(n)
    BY <1>1, <1>2, Distributes
  <1>5. Nanos(add_timespec(a, b)) = (a.s + b.s + Quot(n)) * NS + Rem(n)
    BY <1>3 DEF Nanos
  <1> QED BY <1>1, <1>2, <1>3, <1>4, <1>5 DEF Nanos, Spans

\* A sum of times is a time: its nanoseconds are below a second.
THEOREM AddIsNormal ==
  ASSUME NEW a \in Times, NEW b \in Times
  PROVE  add_timespec(a, b) \in Times
  <1>1. a.ns + b.ns \in Nat /\ a.s \in Nat /\ b.s \in Nat
    BY DEF Times
  <1>2. Quot(a.ns + b.ns) \in Nat /\ Rem(a.ns + b.ns) \in 0..(NS - 1)
    BY <1>1, QuotType
  <1> QED BY <1>1, <1>2 DEF add_timespec, Times

\* sub_timespec subtracts, but leaves nanoseconds of either sign: what it
\* returns is a difference and not a time (util.cpp borrows nothing).
THEOREM SubIsExact ==
  ASSUME NEW a \in Times, NEW b \in Times
  PROVE  /\ sub_timespec(a, b) \in Differences
         /\ sub_timespec(a, b).s = a.s - b.s
         /\ Nanos(sub_timespec(a, b)) = Nanos(a) - Nanos(b)
  <1>1. a.ns - b.ns \in Int /\ a.s \in Int /\ b.s \in Int
    BY DEF Times
  <1> DEFINE n == a.ns - b.ns
  <1>2. /\ Quot(n) \in Int /\ Rem(n) \in -(NS - 1)..(NS - 1)
        /\ n = NS * Quot(n) + Rem(n)
    BY <1>1, QuotType
  <1>3. sub_timespec(a, b) = [s |-> a.s - b.s - Quot(n), ns |-> Rem(n)]
    BY DEF sub_timespec
  <1>4. n \in Int /\ -NS < n /\ n < NS
    BY DEF Times
  <1>5. Quot(n) = 0
    <2>1. CASE n >= 0
      <3>1. n \in Nat /\ n < NS
        BY <1>4, <2>1
      <3>2. n \div NS = 0
        BY <3>1, LessThanSecond
      <3> QED BY <2>1, <3>2 DEF Quot
    <2>2. CASE n < 0
      <3>1. (-n) \in Nat /\ -n < NS
        BY <1>4, <2>2
      <3>2. (-n) \div NS = 0
        BY <3>1, LessThanSecond
      <3>3. ~(n >= 0)
        BY <1>4, <2>2
      <3> QED BY <3>2, <3>3 DEF Quot
    <2> QED BY <1>4, <2>1, <2>2
  <1>6. Nanos(sub_timespec(a, b)) = (a.s - b.s) * NS + n
    BY <1>1, <1>2, <1>3, <1>5 DEF Nanos
  <1>7. (a.s - b.s - 0) * NS = a.s * NS - b.s * NS - NS * 0
    BY <1>1, Distributes
  <1>8. Rem(n) = n
    BY <1>2, <1>5
  <1>9. sub_timespec(a, b) \in Differences
    BY <1>1, <1>2, <1>3, <1>5 DEF Differences
  <1>10. Nanos(a) - Nanos(b) = a.s * NS - b.s * NS + n
    <2>1. a.s * NS \in Int /\ b.s * NS \in Int /\ a.ns \in Int /\ b.ns \in Int
      BY <1>1 DEF Times
    <2> QED BY <2>1, Regroup DEF Nanos
  <1>11. (a.s - b.s) * NS = a.s * NS - b.s * NS
    BY <1>1, <1>7
  <1>12. Nanos(sub_timespec(a, b)) = Nanos(a) - Nanos(b)
    BY <1>6, <1>10, <1>11
  <1>13. sub_timespec(a, b).s = a.s - b.s
    BY <1>1, <1>3, <1>5
  <1> QED BY <1>9, <1>12, <1>13

-----------------------------------------------------------------------------
(* Typing.                                                                 *)

USE TimeoutAssumption, WatchdogBoundAssumption

LEMMA Constants ==
  /\ Zero \in Times /\ Timeout \in Times /\ NoTime \in Spans /\ Times \subseteq Spans
  /\ [s |-> 0, ns |-> 1] \in Times
  BY DEF Zero, Timeout, NoTime, Spans, Times

LEMMA DeadlineType ==
  ASSUME NEW seconds \in Nat, NEW nanoseconds \in 0..(NS - 1)
  PROVE  /\ Deadline(seconds, nanoseconds) \in Times
         /\ Nanos(Deadline(seconds, nanoseconds)) =
              Nanos([s |-> seconds, ns |-> nanoseconds]) + Nanos(Timeout)
  <1>1. [s |-> seconds, ns |-> nanoseconds] \in Times
    BY DEF Times
  <1> QED BY <1>1, Constants, AddIsNormal, AddIsExact DEF Deadline

\* Whatever is left of the deadline, minTime ends up below zero.
LEMMA MinTimeIsPast ==
  ASSUME NEW deadline \in Times, clk \in Times
  PROVE  MinTime(deadline) \in Spans /\ Nanos(MinTime(deadline)) <= 0
  <1> DEFINE left == sub_timespec(deadline, clk)
  <1>1. left \in Differences
    BY SubIsExact
  <1>2. left.s \in Int /\ left.ns \in -(NS - 1)..(NS - 1) /\ left \in Spans
    BY <1>1 DEF Differences, Spans
  <1>3. NoTime \in Spans /\ Nanos(NoTime) <= 0
    BY DEF NoTime, Spans, Nanos
  <1>4. CASE compare_timespec(left, NoTime) < 0
    <2>1. left.s <= -1
      BY <1>2, <1>4 DEF compare_timespec, NoTime
    <2>2. left.s * NS <= (-1) * NS
      BY <1>2, <2>1, Monotone
    <2>3. Nanos(left) <= 0
      BY <1>2, <2>2 DEF Nanos
    <2> QED BY <1>2, <1>4, <2>3 DEF MinTime
  <1>5. CASE ~(compare_timespec(left, NoTime) < 0)
    BY <1>3, <1>5 DEF MinTime
  <1> QED BY <1>4, <1>5

\* What the clock shows and the dispatcher stamped.
LEMMA Tick ==
  ASSUME clk \in Times, ClockTick
  PROVE  clk' \in Times /\ Nanos(clk') = Nanos(clk) + 1
  <1>1. Nanos([s |-> 0, ns |-> 1]) = 1
    BY DEF Nanos
  <1>2. clk' = add_timespec(clk, [s |-> 0, ns |-> 1])
    BY DEF ClockTick
  <1>3. clk' \in Times
    BY <1>2, Constants, AddIsNormal
  <1>4. Nanos(clk') = Nanos(clk) + Nanos([s |-> 0, ns |-> 1])
    BY <1>2, Constants, AddIsExact
  <1>5. Nanos(clk) \in Int
    BY DEF Times, Nanos
  <1> QED BY <1>1, <1>3, <1>4, <1>5

\* wake, the result of the scan, is a span that has passed.
LEMMA WakeIsPast ==
  ASSUME clk \in Times, NEW left \in Spans, Nanos(left) <= 0
  PROVE  /\ add_timespec(clk, left) \in Spans
         /\ Nanos(add_timespec(clk, left)) <= Nanos(clk)
  <1>1. clk \in Spans
    BY Constants
  <1>2. Nanos(clk) \in Int /\ Nanos(left) \in Int
    BY DEF Times, Spans, Nanos
  <1> QED BY <1>1, <1>2, AddIsExact

-----------------------------------------------------------------------------
(* The invariant, in two layers: what a step does to the clock, the stamps *)
(* and the locals, and why a deadline that was judged to have passed has.  *)

WatchdogLayer ==
  /\ WatchdogTypeOK
  /\ scan \in {"load", "judge"} => registered
  /\ Nanos(curTime) <= Nanos(clk)
  /\ scan = "judge" /\ ~torn => sec = lastReset.s

Booleans ==
  /\ registered \in BOOLEAN /\ itr \in BOOLEAN /\ overdue \in BOOLEAN
  /\ torn \in BOOLEAN

Rest ==
  /\ clk \in Times /\ lastReset \in Times /\ curTime \in Times
  /\ scan \in {"begin", "end", "load", "judge", "rest", "restart"}
  /\ sec \in Nat /\ wake \in Spans /\ gone \in {"no", "terminated", "crashed"}

LEMMA TypeSplits == WatchdogTypeOK <=> Booleans /\ Rest
  BY DEF WatchdogTypeOK, Booleans, Rest, Spans

LEMMA BooleansStep ==
  ASSUME Booleans, [WatchdogNext]_wvars PROVE Booleans'
  BY Zenon DEF Booleans, WatchdogNext, ObserveLapse, RegisterWatchdog, ResetWatchdog,
     ScanBegin, ScanEnd, LoadReset, JudgeExpired, ScanRest, RestartDispatcher,
     ClockTick, stamps, scanLocals, wvars

LEMMA LayerInit == WatchdogInit => WatchdogLayer
  <1> SUFFICES ASSUME WatchdogInit PROVE WatchdogLayer
    OBVIOUS
  <1>1. Booleans
    BY Zenon DEF WatchdogInit, Booleans
  <1>2. Rest
    BY Constants DEF WatchdogInit, Rest, Zero, Spans
  <1>3. Nanos(curTime) <= Nanos(clk)
    BY DEF WatchdogInit, Zero, Nanos
  <1>4. /\ scan \in {"load", "judge"} => registered
        /\ scan = "judge" /\ ~torn => sec = lastReset.s
    BY DEF WatchdogInit
  <1> QED BY <1>1, <1>2, <1>3, <1>4, TypeSplits DEF WatchdogLayer

\* The dispatcher's two steps set lastReset to the present, and nothing else of
\* the layer but torn.
LEMMA DispatcherStep ==
  ASSUME WatchdogLayer, Booleans', RegisterWatchdog \/ ResetWatchdog
  PROVE  WatchdogLayer'
  <1>1. /\ UNCHANGED <<clk, scan, scanLocals, gone>> /\ lastReset' = clk
        /\ registered'
        /\ \/ ~registered /\ torn' = torn
           \/ torn' = (torn \/ scan = "judge")
    BY DEF RegisterWatchdog, ResetWatchdog
  <1>2. Rest'
    BY <1>1, TypeSplits DEF WatchdogLayer, Rest, scanLocals
  <1>3. (scan = "judge" /\ ~torn => sec = lastReset.s)'
    BY <1>1 DEF WatchdogLayer, scanLocals
  <1>4. (Nanos(curTime) <= Nanos(clk))'
    BY <1>1 DEF WatchdogLayer, scanLocals, Nanos
  <1>5. WatchdogTypeOK'
    BY <1>2 DEF WatchdogTypeOK, Booleans, Rest, Spans
  <1> QED BY <1>1, <1>3, <1>4, <1>5 DEF WatchdogLayer

LEMMA ScanEndStep ==
  ASSUME WatchdogLayer, Booleans', ScanEnd PROVE WatchdogLayer'
  <1>1. /\ UNCHANGED <<clk, stamps, itr, sec, torn>> /\ scan = "end"
        /\ \/ /\ scan' = "rest" /\ wake' = add_timespec(clk, NoTime)
              /\ UNCHANGED <<curTime, gone>>
           \/ gone' = "crashed" /\ UNCHANGED <<scan, wake, curTime>>
           \/ /\ registered /\ scan' = "load" /\ curTime' = clk
              /\ UNCHANGED <<wake, gone>>
    BY DEF ScanEnd, ScanAt
  <1>2. clk \in Spans /\ clk \in Times /\ NoTime \in Spans
    BY Constants DEF WatchdogLayer, WatchdogTypeOK
  <1>3. add_timespec(clk, NoTime) \in Spans
    BY <1>2, AddIsExact
  <1>4. Rest'
    BY <1>1, <1>3, TypeSplits DEF WatchdogLayer, Rest, stamps
  <1>6. (Nanos(curTime) <= Nanos(clk))'
    <2>1. Nanos(clk) \in Int
      BY <1>2 DEF Times, Nanos
    <2> QED BY <1>1, <2>1 DEF WatchdogLayer, Nanos
  <1>7. WatchdogTypeOK'
    BY <1>4 DEF WatchdogTypeOK, Booleans, Rest, Spans
  <1> QED BY <1>1, <1>6, <1>7 DEF WatchdogLayer, stamps

LEMMA LoadResetStep ==
  ASSUME WatchdogLayer, Booleans', LoadReset PROVE WatchdogLayer'
  <1>1. /\ UNCHANGED <<clk, stamps, itr, curTime, wake, gone, torn>>
        /\ scan = "load" /\ scan' = "judge" /\ sec' = lastReset.s
    BY DEF LoadReset, ScanAt
  <1>2. Rest'
    BY <1>1, TypeSplits DEF WatchdogLayer, Rest, stamps, Times
  <1>3. WatchdogTypeOK'
    BY <1>2 DEF WatchdogTypeOK, Booleans, Rest, Spans
  <1> QED BY <1>1, <1>3 DEF WatchdogLayer, stamps, Nanos

LEMMA JudgeStep ==
  ASSUME WatchdogLayer, Booleans', JudgeExpired PROVE WatchdogLayer'
  <1> DEFINE deadline == Deadline(lastReset.s, lastReset.ns)
  <1>1. /\ UNCHANGED <<clk, stamps, itr, curTime, sec, gone, torn>>
        /\ scan = "judge"
        /\ \/ scan' = "restart" /\ UNCHANGED wake
           \/ scan' = "rest" /\ wake' = add_timespec(clk, MinTime(deadline))
    BY DEF JudgeExpired, ScanAt
  <1>2. clk \in Times /\ lastReset.s \in Nat /\ lastReset.ns \in 0..(NS - 1)
    BY DEF WatchdogLayer, WatchdogTypeOK, Times
  <1>3. deadline \in Times
    BY <1>2, DeadlineType
  <1> HIDE DEF deadline
  <1>4. add_timespec(clk, MinTime(deadline)) \in Spans
    BY <1>2, <1>3, MinTimeIsPast, WakeIsPast
  <1>5. Rest'
    BY <1>1, <1>4, TypeSplits DEF WatchdogLayer, Rest, stamps
  <1>7. WatchdogTypeOK'
    BY <1>5 DEF WatchdogTypeOK, Booleans, Rest, Spans
  <1> QED BY <1>1, <1>7 DEF WatchdogLayer, stamps, Nanos

\* The other steps of the watchdog thread move it and touch no time.
LEMMA ThreadMoves ==
  ASSUME WatchdogLayer, Booleans', ScanBegin \/ ScanRest \/ RestartDispatcher
  PROVE  WatchdogLayer'
  <1>1. /\ UNCHANGED <<clk, stamps, curTime, sec, wake>>
        /\ gone' \in {"no", "terminated", "crashed"}
        /\ \/ scan' \in {"begin", "end"}
           \/ scan' = "restart" /\ scan = "restart"
    BY DEF ScanBegin, ScanRest, RestartDispatcher, ScanAt, scanLocals, WatchdogLayer,
       WatchdogTypeOK
  <1>2. Rest'
    BY <1>1, TypeSplits DEF WatchdogLayer, Rest, stamps
  <1>3. WatchdogTypeOK'
    BY <1>2 DEF WatchdogTypeOK, Booleans, Rest, Spans
  <1> QED BY <1>1, <1>3 DEF WatchdogLayer, stamps, Nanos

LEMMA ClockStep ==
  ASSUME WatchdogLayer, Booleans', ClockTick PROVE WatchdogLayer'
  <1>1. UNCHANGED <<stamps, scan, scanLocals, gone, torn>>
    BY DEF ClockTick
  <1>2. clk \in Times /\ clk' \in Times /\ Nanos(clk') = Nanos(clk) + 1
    BY Tick DEF WatchdogLayer, WatchdogTypeOK
  <1>3. Nanos(clk) \in Int /\ Nanos(curTime) \in Int /\ Nanos(wake) \in Int
    BY DEF WatchdogLayer, WatchdogTypeOK, Times, Nanos
  <1>4. Rest'
    BY <1>1, <1>2, TypeSplits DEF WatchdogLayer, Rest, stamps, scanLocals
  <1>5. (Nanos(curTime) <= Nanos(clk))'
    <2>1. Nanos(curTime)' = Nanos(curTime)
      BY <1>1 DEF scanLocals, Nanos
    <2>2. Nanos(clk)' = Nanos(clk')
      BY DEF Nanos
    <2> QED BY <1>2, <1>3, <2>1, <2>2 DEF WatchdogLayer
  <1>7. WatchdogTypeOK'
    BY <1>4 DEF WatchdogTypeOK, Booleans, Rest, Spans
  <1> QED BY <1>1, <1>5, <1>7 DEF WatchdogLayer, stamps, scanLocals

LEMMA LayerStep == WatchdogLayer /\ [WatchdogNext]_wvars => WatchdogLayer'
  <1> SUFFICES ASSUME WatchdogLayer, [WatchdogNext]_wvars PROVE WatchdogLayer'
    OBVIOUS
  <1>1. Booleans'
    BY TypeSplits, BooleansStep DEF WatchdogLayer
  <1>2. CASE UNCHANGED wvars
    <2>1. WatchdogTypeOK'
      BY <1>2 DEF WatchdogLayer, WatchdogTypeOK, wvars, stamps, scanLocals
    <2> QED BY <1>2, <2>1 DEF WatchdogLayer, wvars, stamps, scanLocals,
        Nanos
  <1> QED BY <1>1, <1>2, DispatcherStep, ScanEndStep, LoadResetStep, JudgeStep,
      ThreadMoves, ClockStep DEF WatchdogNext

-----------------------------------------------------------------------------
(* A restart is deserved.                                                  *)

\* Comparing seconds and nanoseconds apart can miss an expiry, but not invent
\* one: both are larger only if the time is.
LEMMA ExpiredIsPast ==
  ASSUME NEW time \in Times, NEW deadline \in Times, expired(time, deadline)
  PROVE  Nanos(time) > Nanos(deadline)
  <1>1. deadline.s * NS <= time.s * NS
    BY Monotone DEF expired, Times
  <1> QED BY <1>1 DEF expired, Times, Nanos

\* A watchdog that is judged expired, with its lastReset in one piece, has
\* expired now.
LEMMA JudgedIsLapsed ==
  ASSUME WatchdogLayer, scan = "judge", ~torn,
         expired(curTime, Deadline(sec, lastReset.ns))
  PROVE  Lapsed
  <1>1. /\ sec = lastReset.s /\ sec \in Nat /\ lastReset.ns \in 0..(NS - 1)
        /\ curTime \in Times /\ clk \in Times /\ lastReset \in Times
        /\ Nanos(curTime) <= Nanos(clk) /\ registered
    BY DEF WatchdogLayer, WatchdogTypeOK, Times
  <1> DEFINE deadline == Deadline(sec, lastReset.ns)
  <1>2. deadline \in Times
        /\ Nanos(deadline) = Nanos([s |-> sec, ns |-> lastReset.ns]) + Nanos(Timeout)
    BY <1>1, DeadlineType
  <1>3. Nanos([s |-> sec, ns |-> lastReset.ns]) = Nanos(lastReset)
    BY <1>1 DEF Nanos
  <1>4. Nanos(curTime) > Nanos(deadline)
    BY <1>1, <1>2, ExpiredIsPast
  <1>5. Nanos(deadline) \in Int /\ Nanos(curTime) \in Int /\ Nanos(clk) \in Int
    BY <1>1, <1>2 DEF Times, Nanos
  <1>6. Nanos(clk) > Nanos(lastReset) + Nanos(Timeout)
    BY <1>1, <1>2, <1>3, <1>4, <1>5
  <1> QED BY <1>1, <1>6 DEF Lapsed

DeservedInv == WatchdogLayer /\ RestartIsDeserved /\ (Lapsed => overdue)

LEMMA DeservedInit == WatchdogInit => DeservedInv
  BY LayerInit DEF WatchdogInit, DeservedInv, RestartIsDeserved, Lapsed

LEMMA DeservedStep == DeservedInv /\ [WatchdogNext]_wvars => DeservedInv'
  <1> SUFFICES ASSUME DeservedInv, [WatchdogNext]_wvars PROVE DeservedInv'
    OBVIOUS
  <1>1. WatchdogLayer'
    BY LayerStep DEF DeservedInv
  <1>2. CASE UNCHANGED wvars
    BY <1>1, <1>2 DEF DeservedInv, RestartIsDeserved, Lapsed, wvars, stamps, Nanos
  <1>3. CASE WatchdogNext
    <2>1. /\ overdue' <=> overdue \/ Lapsed'
      BY <1>3 DEF WatchdogNext, ObserveLapse
    <2>2. CASE JudgeExpired
      <3>1. Lapsed' <=> Lapsed
        BY <2>2 DEF JudgeExpired, Lapsed, stamps, Nanos
      <3>2. torn' = torn /\ gone = "no" /\ gone' = gone /\ scan = "judge"
        BY <2>2 DEF JudgeExpired, ScanAt
      <3>3. CASE expired(curTime, Deadline(sec, lastReset.ns))
        <4>1. Lapsed \/ torn
          BY <3>2, <3>3, JudgedIsLapsed DEF DeservedInv
        <4> QED BY <1>1, <2>1, <3>1, <3>2, <4>1 DEF DeservedInv, RestartIsDeserved
      <3>4. CASE ~expired(curTime, Deadline(sec, lastReset.ns))
        <4>1. scan' = "rest"
          BY <2>2, <3>4 DEF JudgeExpired
        <4> QED BY <1>1, <2>1, <3>2, <4>1 DEF DeservedInv, RestartIsDeserved
      <3> QED BY <3>3, <3>4
    <2>3. CASE ~JudgeExpired
      <3>1. /\ scan' = "restart" \/ gone' = "terminated" =>
                  scan = "restart" \/ gone = "terminated"
            /\ scan' = "restart" \/ gone' = "terminated" => (torn => torn')
        <4>1. CASE RegisterWatchdog
          BY <4>1 DEF RegisterWatchdog
        <4>2. CASE ResetWatchdog
          BY <4>2 DEF ResetWatchdog
        <4>3. CASE ScanBegin
          BY <4>3 DEF ScanBegin, ScanAt
        <4>4. CASE ScanEnd
          BY <4>4 DEF ScanEnd, ScanAt
        <4>5. CASE LoadReset
          BY <4>5 DEF LoadReset, ScanAt
        <4>6. CASE ScanRest
          BY <4>6 DEF ScanRest, ScanAt
        <4>7. CASE RestartDispatcher
          BY <4>7 DEF RestartDispatcher, ScanAt
        <4>8. CASE ClockTick
          BY <4>8 DEF ClockTick
        <4> QED BY <1>3, <2>3, <4>1, <4>2, <4>3, <4>4, <4>5, <4>6, <4>7, <4>8
              DEF WatchdogNext
      <3>2. (scan = "restart" \/ gone = "terminated") => (overdue \/ torn)
        BY DEF DeservedInv, RestartIsDeserved
      <3>3. (scan' = "restart" \/ gone' = "terminated") => (overdue' \/ torn')
        BY <2>1, <3>1, <3>2
      <3> QED BY <1>1, <2>1, <3>3 DEF DeservedInv, RestartIsDeserved
    <2> QED BY <2>2, <2>3
  <1> QED BY <1>2, <1>3

LEMMA DeservedAlways == WatchdogSpec => []DeservedInv
  BY DeservedInit, DeservedStep, PTL DEF WatchdogSpec

\* Every time in the watchdog is a time: the carry of add_timespec keeps the
\* clock, the stamps and the deadlines normal (Watchdog, add_timespec).
THEOREM WatchdogIsTyped == WatchdogSpec => []WatchdogTypeOK
  BY DeservedAlways, PTL DEF DeservedInv, WatchdogLayer

\* The watchdog ends the process only if the dispatcher once missed its deadline,
\* or reset between the two loads of lastReset (expired).
THEOREM RestartsAreDeserved == WatchdogSpec => []RestartIsDeserved
  BY DeservedAlways, PTL DEF DeservedInv

-----------------------------------------------------------------------------
(* Where the code and its comments part.                                   *)

\* Of two times the later one has at least as many seconds.
LEMMA LaterSeconds ==
  ASSUME NEW s \in Nat, NEW t \in Nat, NEW m \in 0..(NS - 1), NEW n \in 0..(NS - 1),
         s * NS + m <= t * NS + n
  PROVE  s <= t
  <1> SUFFICES ASSUME t + 1 <= s PROVE FALSE
    OBVIOUS
  <1>1. (t + 1) * NS <= s * NS
    BY Monotone
  <1>2. (t + 1) * NS = t * NS + NS
    OBVIOUS
  <1>3. t * NS \in Int /\ s * NS \in Int
    OBVIOUS
  <1> QED BY <1>1, <1>2, <1>3

\* A deadline has the nanoseconds of the reset: the timeout is whole seconds.
LEMMA DeadlineIsWhole ==
  ASSUME NEW seconds \in Nat, NEW nanoseconds \in 0..(NS - 1)
  PROVE  Deadline(seconds, nanoseconds) =
           [s |-> seconds + TimeoutSeconds, ns |-> nanoseconds]
  <1>1. nanoseconds \in Nat /\ nanoseconds < NS /\ nanoseconds + 0 = nanoseconds
    OBVIOUS
  <1>2. Quot(nanoseconds) = 0
    BY <1>1, LessThanSecond DEF Quot
  <1>3. Rem(nanoseconds) = nanoseconds
    BY <1>1, <1>2 DEF Rem
  <1>4. seconds + TimeoutSeconds + 0 = seconds + TimeoutSeconds
    OBVIOUS
  <1> QED BY <1>1, <1>2, <1>3, <1>4 DEF Deadline, add_timespec, Timeout

\* "This tells us whether the WDT for this thread has expired" (watchdog.h) is not
\* so: of each second after the deadline's own, expired() sees only the part in
\* which the nanoseconds are past the deadline's too.
THEOREM ExpiryShowsForPartOfSecond ==
  ASSUME NEW time \in Times, NEW deadline \in Times, time.s > deadline.s
  PROVE  /\ Nanos(time) > Nanos(deadline)
         /\ expired(time, deadline) <=> time.ns > deadline.ns
  <1>1. /\ time.s \in Nat /\ time.ns \in 0..(NS - 1)
        /\ deadline.s \in Nat /\ deadline.ns \in 0..(NS - 1)
    BY DEF Times
  <1>2. Nanos(time) > Nanos(deadline)
    <2> SUFFICES ASSUME time.s * NS + time.ns <= deadline.s * NS + deadline.ns
                 PROVE  FALSE
      BY <1>1 DEF Nanos
    <2>1. time.s <= deadline.s
      BY <1>1, LaterSeconds
    <2> QED BY <1>1, <2>1
  <1> QED BY <1>1, <1>2 DEF expired

\* For a dispatcher whose last reset was in the last nanosecond of a second that
\* part is empty: it is never found expired, however long ago that was.
THEOREM LastNanosecondNeverExpires ==
  ASSUME NEW now \in Times, NEW seconds \in Nat
  PROVE  ~expired(now, Deadline(seconds, NS - 1))
  <1>1. NS - 1 \in 0..(NS - 1) /\ now.ns \in 0..(NS - 1)
    BY DEF Times
  <1>2. Deadline(seconds, NS - 1).ns = NS - 1
    BY <1>1, DeadlineIsWhole
  <1> QED BY <1>1, <1>2 DEF expired

\* "we want to figure out the minimum time we need to wait" (WatchdogThread) is not
\* what is figured out: a deadline that lies ahead leaves minTime as it is, and
\* whatever the deadline, the time the scan then waits for has passed.
THEOREM TheWaitIsOver ==
  ASSUME clk \in Times, NEW deadline \in Times
  PROVE  /\ Nanos(clk) <= Nanos(deadline) => MinTime(deadline) = NoTime
         /\ Nanos(add_timespec(clk, MinTime(deadline))) <= Nanos(clk)
  <1>1. ASSUME Nanos(clk) <= Nanos(deadline) PROVE MinTime(deadline) = NoTime
    <2> DEFINE left == sub_timespec(deadline, clk)
    <2>1. /\ clk.s \in Nat /\ clk.ns \in 0..(NS - 1)
          /\ deadline.s \in Nat /\ deadline.ns \in 0..(NS - 1)
      BY DEF Times
    <2>2. clk.s <= deadline.s
      BY <1>1, <2>1, LaterSeconds DEF Nanos
    <2>3. left.s = deadline.s - clk.s
      BY SubIsExact
    <2>4. ~(compare_timespec(left, NoTime) < 0)
      BY <2>1, <2>2, <2>3 DEF compare_timespec, NoTime
    <2> QED BY <2>4 DEF MinTime
  <1>2. Nanos(add_timespec(clk, MinTime(deadline))) <= Nanos(clk)
    BY MinTimeIsPast, WakeIsPast
  <1> QED BY <1>1, <1>2

=============================================================================
