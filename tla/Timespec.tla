------------------------------ MODULE Timespec ------------------------------
(***************************************************************************)
(* The arithmetic of util.cpp on struct timespec.  A time is a record of   *)
(* seconds and nanoseconds; Nanos is the reference, its value in           *)
(* nanoseconds.  A second has NS of them: 10^9 in the code, fewer in what  *)
(* TLC checks.                                                             *)
(***************************************************************************)
EXTENDS Integers

CONSTANT NS   \* nanoseconds in a second

ASSUME NSAssumption == NS \in Nat /\ NS > 1

\* A number of nanoseconds divided by a second, as C divides: towards zero.
Quot(n) == IF n >= 0 THEN n \div NS ELSE -((-n) \div NS)
Rem(n) == n - NS * Quot(n)

\* Mutant of add_timespec: the carry stays in the nanoseconds.
add_timespecNoCarry(a, b) == [s |-> a.s + b.s, ns |-> a.ns + b.ns]

add_timespec(a, b) ==
  [s |-> a.s + b.s + Quot(a.ns + b.ns), ns |-> Rem(a.ns + b.ns)]

sub_timespec(a, b) ==
  [s |-> a.s - b.s - Quot(a.ns - b.ns), ns |-> Rem(a.ns - b.ns)]

compare_timespec(a, b) ==
  IF a.s < b.s \/ (a.s = b.s /\ a.ns < b.ns) THEN -1
  ELSE IF a = b THEN 0 ELSE 1

Nanos(t) == t.s * NS + t.ns

\* What clock_gettime returns; a difference may leave it.
Times == [s : Nat, ns : 0..(NS - 1)]
Differences == [s : Int, ns : -(NS - 1)..(NS - 1)]

=============================================================================
