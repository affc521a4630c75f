---------------------------- MODULE MCTh2Services ----------------------------
(***************************************************************************)
(* Five parts that share no state in their models: of the second device's  *)
(* firmware critical sections, the jobs of an endpoint, the configuration  *)
(* and the way of a sample to the host; and the arithmetic of both         *)
(* devices.  A behaviour exercises one, part.                              *)
(***************************************************************************)
EXTENDS IrqCritical, UddEp, UdcConfig, SampleRead, Conversion

VARIABLE part   \* the part that runs

allVars == <<part, vars, epVars, confVars, readVars, walkVars>>

\* Buffers below, at and above a packet and a transfer of the unit, which is not a
\* whole number of packets, as 8191 is not one of 64.  A host clears a halt it met.
MCSizes == 0 .. 7
Met     == {"stalled"}
\* Numbers and settings the device has, and one of each that it has not.
MCNumbers  == 0 .. 2
MCSettings == {0, 1}
\* Every value of the two bits behind a reading.
MCPads == 0 .. 3

AllInit ==
  /\ part \in {"sections", "jobs", "config", "samples", "arithmetic"}
  /\ Init /\ EpInit /\ ConfInit /\ ReadInit /\ WalkInit
  /\ part # "jobs" => dir = "in"
  /\ part # "arithmetic" => pad = 0

Guards     == part = "sections" /\ Next /\ UNCHANGED <<part, epVars, confVars, readVars, walkVars>>
Transfers  == part = "jobs" /\ EpNext /\ UNCHANGED <<part, vars, confVars, readVars, walkVars>>
Configures == part = "config" /\ ConfNext /\ UNCHANGED <<part, vars, epVars, readVars, walkVars>>
Reads      == part = "samples" /\ ReadNext /\ UNCHANGED <<part, vars, epVars, confVars, walkVars>>
Converts   == part = "arithmetic" /\ WalkNext /\ UNCHANGED <<part, vars, epVars, confVars, readVars>>

AllNext == Guards \/ Transfers \/ Configures \/ Reads \/ Converts
AllSpec == AllInit /\ [][AllNext]_allVars
=============================================================================
