--------------------------- MODULE EndpointTransfer ---------------------------
(***************************************************************************)
(* What udd_ep_run (udd.h) promises: a transfer is accepted when none is   *)
(* going on, packets move only while it is and none after a short one, and *)
(* it is ended by exactly one call of its callback, with its outcome and   *)
(* the bytes that count.  UddEp implements this.                           *)
(***************************************************************************)
EXTENDS Integers

CONSTANTS
  EpSize,  \* the size of the endpoint
  NoJob

VARIABLES
  job,     \* the transfer going on: its direction, its size, whether it must
           \* end in a short packet
  moved,   \* the bytes that crossed the bus, in order
  short,   \* the last packet was shorter than the endpoint
  report   \* the last call: its status, the bytes it reported

vars == <<job, moved, short, report>>

Init == job = NoJob /\ moved = 0 /\ short = FALSE /\ report = [status |-> "none", count |-> 0]

Start ==
  /\ job = NoJob /\ job' # NoJob /\ moved' = 0 /\ short' = FALSE
  /\ UNCHANGED report

\* A transfer of no bytes may end as it starts.
Empty ==
  /\ job = NoJob /\ report' = [status |-> "ok", count |-> 0]
  /\ moved' = 0 /\ short' = FALSE
  /\ UNCHANGED job

Packet ==
  /\ job # NoJob /\ ~short
  /\ moved' \in moved .. moved + EpSize
  /\ job.dir = "in" => moved' <= job.size
  /\ short' = (moved' - moved < EpSize)
  /\ UNCHANGED <<job, report>>

Least(a, b) == IF a < b THEN a ELSE b

\* All of it was sent, and closed as requested; or the room is full or the host is done.
Finished ==
  IF job.dir = "in" THEN moved = job.size /\ (job.short => short)
  ELSE moved >= job.size \/ short

End(status, count) ==
  /\ job # NoJob /\ job' = NoJob
  /\ report' = [status |-> status, count |-> count]
  /\ UNCHANGED <<moved, short>>

Finish == job # NoJob /\ Finished /\ End("ok", Least(moved, job.size))
Abort  == \E count \in 0 .. moved : End("abort", count)

Next == Start \/ Empty \/ Packet \/ Finish \/ Abort
Spec == Init /\ [][Next]_vars
=============================================================================
