------------------------------- MODULE I2cBus -------------------------------
(***************************************************************************)
(* The I2C side of the second device, outside the firmware: the SERCOM0    *)
(* peripheral as an I2C master, the HIH temperature and humidity sensor    *)
(* and the two analogue outputs (DAC 0: temperature, DAC 1: humidity).     *)
(* Everything here is hardware, modelled from how main.c of th2 uses it.   *)
(*                                                                         *)
(* Data is abstract.  A sensor sample is an identifier; a byte read from   *)
(* the sensor is the sample, the position of the byte in it and the status *)
(* bits; a word is the sample and quantity it is of, or one of Zero and     *)
(* Full (the two calibration levels), or Torn: a word put together from    *)
(* parts that do not belong together.                                      *)
(***************************************************************************)
EXTENDS Integers

CONSTANTS
  NSAMPLES,    \* sample identifiers are reused after NSAMPLES conversions
  CONV_TICKS   \* a conversion ends before tick CONV_TICKS + 2 after its start

ASSUME SamplesAssumption == NSAMPLES \in Nat /\ NSAMPLES > 1
ASSUME ConvAssumption == CONV_TICKS \in Nat

VARIABLES
  op,        \* what the SERCOM is doing on the wires
  mb, sb,    \* INTFLAG.MB and INTFLAG.SB
  target,    \* what ADDR holds
  acked,     \* ~STATUS.RXNACK of the address packet
  nbytes,    \* data bytes transferred since the address packet
  data,      \* the last byte written to DATA
  conv,      \* 0, or 1 + the ticks since the running conversion began
  sample,    \* the last sample converted
  unread,    \* it has not been fetched
  snap,      \* what the sensor answers to the read in progress
  shift,     \* the first byte the addressed DAC received
  dac        \* the word each DAC puts out

slaveVars == <<conv, sample, unread, snap, shift, dac>>
busVars   == <<op, mb, sb, target, acked, nbytes, data, slaveVars>>

Samples == 0 .. NSAMPLES - 1
Zero == -1
Full == -2
Torn == -3
\* The temperature and the humidity of sample s.
TempOf(s)  == s
HumidOf(s) == NSAMPLES + s
Words == 0 .. 2 * NSAMPLES - 1 \cup {Zero, Full, Torn}

HihWrite == "HIH write"
HihRead  == "HIH read"
Dac(d)   == IF d = 0 THEN "TDAC" ELSE "HDAC"
Targets  == {HihWrite, HihRead, Dac(0), Dac(1)}

Bytes    == [word : Words, part : {"high", "low"}]
HihBytes == [id : Samples, pos : 0 .. 3, status : {0, 1}]

\* What data, shift and snap hold while no transaction uses them.
NoByte   == [word |-> Zero, part |-> "low"]
NoAnswer == [id |-> 0, status |-> 1]

BusTypeOK ==
  /\ op \in {"none", "addr", "write", "read"}
  /\ mb \in BOOLEAN /\ sb \in BOOLEAN /\ acked \in BOOLEAN
  /\ target \in Targets
  /\ nbytes \in 0 .. 4
  /\ data \in Bytes /\ shift \in Bytes
  /\ conv \in 0 .. CONV_TICKS + 1
  /\ sample \in Samples
  /\ unread \in BOOLEAN
  /\ snap \in [id : Samples, status : {0, 1}]
  /\ dac \in [{0, 1} -> Words]

BusInit ==
  /\ op = "none" /\ mb = FALSE /\ sb = FALSE
  /\ target = HihWrite /\ acked = FALSE /\ nbytes = 0
  /\ data = NoByte /\ shift = NoByte
  /\ conv = 0 /\ sample = 0 /\ unread = FALSE
  /\ snap = NoAnswer
  /\ dac = [d \in {0, 1} |-> Zero]

(***************************************************************************)
(* What the firmware does to the registers.  Each clears MB and SB.        *)
(***************************************************************************)
\* Writing ADDR: a start, or a repeated start that gives up what was going on.
WriteAddr(t) ==
  /\ target' = t /\ op' = "addr" /\ nbytes' = 0 /\ acked' = FALSE
  /\ mb' = FALSE /\ sb' = FALSE
  /\ data' = NoByte /\ shift' = NoByte /\ snap' = NoAnswer

\* Writing DATA in a write transaction.
WriteData(word, part) ==
  /\ data' = [word |-> word, part |-> part]
  /\ op' = "write" /\ mb' = FALSE
  /\ UNCHANGED <<sb, target, acked, nbytes, slaveVars>>

\* CMD = 3, a stop condition, and, in the default branches, writing a flag.
EndOrClear ==
  /\ op' = "none" /\ mb' = FALSE /\ sb' = FALSE
  /\ UNCHANGED <<target, acked, nbytes, data, slaveVars>>

\* Reading DATA in smart mode acknowledges the byte and fetches the next one.
ReadDataAndContinue ==
  /\ op' = "read" /\ sb' = FALSE
  /\ UNCHANGED <<mb, target, acked, nbytes, data, slaveVars>>

\* The byte DATA holds after a read.
Received == [id |-> snap.id, pos |-> nbytes - 1, status |-> snap.status]

-----------------------------------------------------------------------------
(***************************************************************************)
(* What the hardware does by itself.                                       *)
(***************************************************************************)
\* The address packet of a write ends; the sensor takes it as a request.
WriteAddrDone ==
  /\ op = "addr" /\ target # HihRead
  /\ \E ack \in BOOLEAN :
       /\ acked' = ack
       /\ conv' = IF ack /\ target = HihWrite THEN 1 ELSE conv
  /\ op' = "none" /\ mb' = TRUE
  /\ UNCHANGED <<sb, target, nbytes, data, sample, unread, snap, shift, dac>>

\* The address packet of a read is acknowledged: the sensor settles its answer.
ReadAddrAcked ==
  /\ op = "addr" /\ target = HihRead
  /\ acked' = TRUE /\ op' = "read"
  /\ snap' = [id |-> sample, status |-> IF unread /\ conv = 0 THEN 0 ELSE 1]
  /\ unread' = FALSE
  /\ UNCHANGED <<mb, sb, target, nbytes, data, conv, sample, shift, dac>>

\* Nobody acknowledges the read address: MB, not SB, is set.
ReadAddrNacked ==
  /\ op = "addr" /\ target = HihRead
  /\ acked' = FALSE /\ op' = "none" /\ mb' = TRUE
  /\ UNCHANGED <<sb, target, nbytes, data, slaveVars>>

ByteRead ==
  /\ op = "read"
  /\ op' = "none" /\ sb' = TRUE /\ nbytes' = nbytes + 1
  /\ UNCHANGED <<mb, target, acked, data, slaveVars>>

\* A word the DAC makes of two bytes: a whole one only of its own two halves.
Joined(high, low) ==
  IF high.part = "high" /\ low.part = "low" /\ high.word = low.word
  THEN high.word ELSE Torn

\* A byte is on the wires; a DAC that acknowledged its address takes it.
ByteWritten ==
  /\ op = "write"
  /\ op' = "none" /\ mb' = TRUE /\ nbytes' = nbytes + 1
  /\ shift' = data
  /\ dac' = IF acked /\ nbytes = 1
            THEN [d \in {0, 1} |-> IF target = Dac(d) THEN Joined(shift, data) ELSE dac[d]]
            ELSE dac
  /\ UNCHANGED <<sb, target, acked, data, conv, sample, unread, snap>>

ConversionDone ==
  /\ conv > 0
  /\ conv' = 0
  /\ sample' = (sample + 1) % NSAMPLES
  /\ unread' = TRUE
  /\ UNCHANGED <<op, mb, sb, target, acked, nbytes, data, snap, shift, dac>>

\* A tick passes for the sensor: a conversion does not take longer than it may.
ConvTick ==
  /\ conv <= CONV_TICKS
  /\ conv' = IF conv = 0 THEN 0 ELSE conv + 1

BusQuiet == op = "none" /\ ~mb /\ ~sb
=============================================================================
