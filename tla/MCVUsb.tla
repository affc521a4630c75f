---- MODULE MCVUsb ----
(* An instance of VUsb for TLC; VUsb.cfg gives the other constants. *)
EXTENDS VUsb
Request(n, v, d, l) == [name |-> n, value |-> v, dir |-> d, wLength |-> l]
\* An answer cut at a full packet, one that ends short, one that ends in a full
\* packet and needs an empty one, and requests without an answer.
MCRequests ==
  { Request("SET_ADDRESS", 1, "out", 0),
    Request("GET_DESCRIPTOR", 0, "in", 16),
    Request("GET_DESCRIPTOR", 0, "in", 64),
    Request("VENDOR", 1, "in", 16),
    Request("SET_REPORT", 0, "out", 4) }
MCDescriptorSize == [d \in {0} |-> 18]
=============================================================================
