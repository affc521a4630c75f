---- MODULE MCUddEp ----
EXTENDS UddEp
\* Buffers below, at and above a packet and a transfer of the unit.
MCSizes == 0 .. 7
WhileRunning == {"stalled", "running"}
WhileHalted  == {"stalled", "halted"}
=============================================================================
