------------------------------ MODULE MCUsbWire ------------------------------
(***************************************************************************)
(* The three loops of the first device's USB driver that run once for      *)
(* every bit or byte of a packet: the receiver, the transmitter and the    *)
(* CRC.  They share no state, and none runs while another does, so a       *)
(* behaviour exercises one of them, part.                                  *)
(***************************************************************************)
EXTENDS UsbReceive, UsbSend, UsbCrc

VARIABLE part   \* the loop that runs, and for the transmitter on what

wireVars == <<vars, sendVars, crcVars, part>>

\* The edge is seen 3 to 5 cycles after it came, and 4 are allowed for.
MCPhases == {-3, 3}

\* Any two bytes behind the synchronisation byte, or a packet of the longest length.
MCMessages == SUBSET Bits
MCLengths  == {3, 12}

\* Bytes with few and with many 1s, at either end, for the longest packets.
FewBytes == {{}, Bits, {0, 1, 2, 3, 4, 5}, {2, 3, 4, 5, 6, 7}, {0}}

\* Every bit by itself, and none: the CRC of other bytes follows from these.
MCBytes == {{}} \cup {{i} : i \in Bits} \cup {Bits}

WireInit ==
  /\ part \in {"receive", "short", "long", "crc"}
  /\ Init /\ SendInit /\ CrcInit
  /\ tx.cnt = IF part = "long" THEN 12 ELSE 3
  /\ part \notin {"short", "long"} => tx.x2 = {}

Receives   == part = "receive" /\ Next /\ UNCHANGED <<sendVars, crcVars, part>>
SendsShort == part = "short" /\ SendNext /\ UNCHANGED <<vars, crcVars, part>>
SendsLong  == part = "long" /\ SendNext /\ byte' \in {Sync} \cup FewBytes /\ UNCHANGED <<vars, crcVars, part>>
Sums       == part = "crc" /\ CrcNext /\ UNCHANGED <<vars, sendVars, part>>

WireNext == Receives \/ SendsShort \/ SendsLong \/ Sums
WireSpec == WireInit /\ [][WireNext]_wireVars
=============================================================================
