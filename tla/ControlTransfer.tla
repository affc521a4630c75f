--------------------------- MODULE ControlTransfer ---------------------------
(***************************************************************************)
(* What a device promises the host on its control endpoint: a request is   *)
(* answered with the bytes due to it, in order and in packets of at most   *)
(* Packet bytes, nothing of an earlier request reaches the host, and a     *)
(* request the host does not give up is completed.  VUsb and UddControl    *)
(* implement this.                                                         *)
(***************************************************************************)
EXTENDS Integers

CONSTANTS
  Requests,  \* the requests the host makes, of which NoRequest is none
  NoRequest, \* what it waits for when it makes none
  Due,       \* for each request, the bytes the host is to be sent
  Packet     \* the size of a packet, not 0

VARIABLES
  request,   \* what the host waits for
  received   \* the bytes of the answer it has

vars == <<request, received>>

TypeOK ==
  /\ request \in Requests \cup {NoRequest}
  /\ received \in Nat

Init == request = NoRequest /\ received = 0

\* The host may give up a request, for another or for nothing, at any time.
Ask     == request' \in Requests /\ received' = 0
GiveUp  == request # NoRequest /\ request' = NoRequest /\ received' = 0

Left == Due[request] - received

Deliver ==
  /\ request # NoRequest /\ Left > 0
  /\ received' = received + (IF Left < Packet THEN Left ELSE Packet)
  /\ UNCHANGED request

Complete ==
  /\ request # NoRequest /\ Left = 0
  /\ request' = NoRequest /\ received' = 0

Next == Ask \/ GiveUp \/ Deliver \/ Complete

Spec == Init /\ [][Next]_vars
=============================================================================
