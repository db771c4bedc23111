---------------------------- MODULE FrameChannel ----------------------------
(***************************************************************************)
(* What a queue in front of a line promises the threads that fill it: what *)
(* was accepted reaches the line one at a time, in the order in which it   *)
(* was accepted, each at most once.  Something may be given up, but        *)
(* nothing is sent after what was accepted later.                          *)
(* XBeeCommunicator promises this for the frames of requests (its          *)
(* dispatcher discards a request that got no frame id), ServerComm for     *)
(* contents.                                                               *)
(***************************************************************************)
EXTENDS Naturals, Sequences

VARIABLES
  accepted,   \* how many were accepted; they are numbered from 1
  wire        \* the numbers of those that were written

vars == <<accepted, wire>>

TypeOK ==
  /\ accepted \in Nat
  /\ wire \in Seq(Nat)

Init ==
  /\ accepted = 0
  /\ wire = <<>>

Accept ==
  /\ accepted' = accepted + 1
  /\ UNCHANGED wire

\* The next one was accepted later than all those sent so far.
Send ==
  \E n \in 1..accepted :
    /\ \A i \in 1..Len(wire) : wire[i] < n
    /\ wire' = Append(wire, n)
    /\ UNCHANGED accepted

Next == Accept \/ Send

Spec == Init /\ [][Next]_vars

=============================================================================
