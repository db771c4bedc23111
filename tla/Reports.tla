------------------------------ MODULE Reports ------------------------------
(***************************************************************************)
(* SensorDB::AddReport, called by the handler for each report of a sensor, *)
(* and the transfer it makes through SimpleCurl: the report is posted up   *)
(* to three times, and the answer is collected in a CURLBuffer that grows  *)
(* while it arrives.                                                       *)
(*                                                                         *)
(* The server may store a report whose post then fails, and may answer     *)
(* without storing it.  The response code the loop compares is the result  *)
(* of curl_easy_getinfo, which is never 201.                               *)
(***************************************************************************)
EXTENDS Integers

CONSTANTS
  Block,      \* 256: what a buffer has to begin with
  Retries,    \* 3
  Chunks,     \* bound: the sizes of the pieces an answer arrives in
  MaxAnswer   \* bound: the length of an answer

ASSUME BlockAssumption == Block \in Nat \ {0} /\ Retries \in Nat \ {0}
ASSUME AnswerAssumption == Chunks \subseteq Nat \ {0} /\ MaxAnswer \in Nat

VARIABLES
  at,         \* where AddReport is
  retries,
  buf,        \* "null", "live" or, once it was deleted, "freed"
  capacity, length,  \* of buf; a capacity of 0 stands for no memory
  verdict,    \* what AddReport returns
  copies,     \* history: how often the server has stored this report
  attempts,   \* history: how often it was posted, up to one more than it may
  answered    \* history: the server answered a post

buffer == <<buf, capacity, length>>
fate == <<copies, attempts, answered>>
rvars == <<at, retries, buffer, verdict, fate>>

ReportsTypeOK ==
  /\ at \in {"idle", "post", "transfer", "judge", "parse", "done", "crashed"}
  /\ retries \in 0..Retries
  /\ buf \in {"null", "live", "freed"}
  /\ capacity \in Nat /\ length \in Nat
  /\ verdict \in {"none", "true", "false", "garbage"}
  /\ copies \in Nat /\ attempts \in Nat
  /\ answered \in BOOLEAN

ReportsInit ==
  /\ at = "idle" /\ retries = 0 /\ verdict = "none"
  /\ buf = "null" /\ capacity = 0 /\ length = 0
  /\ copies = 0 /\ attempts = 0 /\ answered = FALSE

\* A report of a sensor; nothing of the one before is left.
AddReport ==
  /\ at \in {"idle", "done"}
  /\ at' = "post"
  /\ retries' = Retries
  /\ buf' = "null" /\ capacity' = 0 /\ length' = 0
  /\ verdict' = "none"
  /\ copies' = 0 /\ attempts' = 0 /\ answered' = FALSE

Counted(n) == IF n > Retries THEN n ELSE n + 1

\* Mutant of Post: the retries are counted before they are tested.
PostCountedFirst ==
  /\ at = "post"
  /\ IF retries > 1
     THEN /\ retries' = retries - 1
          /\ buf' = "live" /\ capacity' = 0 /\ length' = 0
          /\ attempts' = Counted(attempts)
          /\ at' = "transfer"
     ELSE at' = "parse" /\ UNCHANGED <<retries, buffer, attempts>>
  /\ UNCHANGED <<verdict, copies, answered>>

\* while(retries--), and post() with its new buffer.
Post ==
  /\ at = "post"
  /\ IF retries > 0
     THEN /\ retries' = retries - 1
          /\ buf' = "live" /\ capacity' = 0 /\ length' = 0
          /\ attempts' = Counted(attempts)
          /\ at' = "transfer"
     ELSE at' = "parse" /\ UNCHANGED <<retries, buffer, attempts>>
  /\ UNCHANGED <<verdict, copies, answered>>

-----------------------------------------------------------------------------
(* The transfer.                                                           *)

\* Mutant of Extended: twice the capacity is taken to be enough.
ExtendedTwice(n) == 2 * capacity

\* CURLBuffer::init and extend: the capacity for n more bytes.
Initial(n) == IF n > Block THEN n + Block ELSE Block
Extended(n) ==
  IF 2 * capacity < length + n THEN capacity + n + 1 ELSE 2 * capacity

\* writeFunc: a piece of n bytes.
WriteFunc(n) ==
  /\ at = "transfer" /\ length + n <= MaxAnswer
  /\ capacity' = IF capacity = 0 THEN Initial(n)
                 ELSE IF length + n > capacity THEN Extended(n)
                 ELSE capacity
  /\ length' = length + n
  /\ UNCHANGED <<at, retries, buf, verdict, fate>>

\* External: the server stores the report, before its answer arrives or fails.
ServerStores ==
  /\ at = "transfer" /\ length = 0 /\ copies < attempts
  /\ copies' = copies + 1
  /\ UNCHANGED <<at, retries, buffer, verdict, attempts, answered>>

\* Mutant of TransferFails: the error is not told from an answer.
TransferFailsKept ==
  /\ at = "transfer"
  /\ at' = "judge"
  /\ UNCHANGED <<retries, buffer, verdict, fate>>

\* curl_easy_perform returns an error: the buffer is deleted, and post returns
\* NULL.
TransferFails ==
  /\ at = "transfer"
  /\ buf' = "null" /\ capacity' = 0 /\ length' = 0
  /\ at' = "judge"
  /\ UNCHANGED <<retries, verdict, fate>>

\* The answer is complete.
TransferEnds ==
  /\ at = "transfer"
  /\ at' = "judge"
  /\ answered' = TRUE
  /\ UNCHANGED <<retries, buffer, verdict, copies, attempts>>

\* Mutant of Judge: a connection that fails does not use up a retry.
JudgeForgiving ==
  /\ at = "judge"
  /\ at' = "post"
  /\ buf' = IF buf = "live" THEN "freed" ELSE buf
  /\ retries' = IF buf = "live" THEN retries ELSE retries + 1
  /\ UNCHANGED <<capacity, length, verdict, fate>>

\* No answer, or one whose response code is not 201: either way the next retry.
Judge ==
  /\ at = "judge"
  /\ at' = "post"
  /\ buf' = IF buf = "live" THEN "freed" ELSE buf
  /\ UNCHANGED <<retries, capacity, length, verdict, fate>>

\* After the last retry buf is NULL, or points to freed memory: what is parsed
\* there is no JSON, and the buffer is deleted again; or JSON without errors; or
\* with errors, and the response code is not 201.
Parse ==
  /\ at = "parse"
  /\ \/ buf = "null" /\ verdict' = "false" /\ at' = "done"
     \/ buf = "freed" /\ verdict' \in {"true", "false", "garbage"} /\ at' = "done"
     \/ buf = "freed" /\ at' = "crashed" /\ UNCHANGED verdict
  /\ UNCHANGED <<retries, buffer, fate>>

Perform == (\E n \in Chunks : WriteFunc(n)) \/ TransferFails \/ TransferEnds
Handling == Post \/ Perform \/ Judge \/ Parse

ReportsNext == AddReport \/ ServerStores \/ Handling

ReportsSpec == ReportsInit /\ [][ReportsNext]_rvars

\* The handler runs, and a transfer ends: only its connection has a timeout.
ReportsFairness == WF_rvars(Handling)

-----------------------------------------------------------------------------
(* Properties.                                                             *)

\* What has arrived of an answer fits into its buffer, whatever pieces it came
\* in (writeFunc, CURLBuffer::init and extend).
AnswerFits == length <= capacity

\* However the posts end, AddReport does not say that a report was taken unless
\* the server answered one of them, does not give up one that the server never
\* stored before its third post, and has it stored three times at most: one that
\* was stored is posted again (AddReport).
OutcomeIsEarned ==
  /\ copies <= Retries
  /\ at = "done" /\ copies = 0 => attempts = Retries
  /\ verdict = "true" => answered

\* If every transfer ends, AddReport returns, or the second delete of its buffer
\* ends the process; the handler is not held for ever.
ReportEnds == (at = "post") ~> (at \in {"done", "crashed"})

=============================================================================
