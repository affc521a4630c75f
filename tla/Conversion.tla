------------------------------ MODULE Conversion ------------------------------
(***************************************************************************)
(* The fixed-point arithmetic of the two firmwares (main.c of th2 and of   *)
(* temphumid): the bytes of the sensor's answer become hundredths of a     *)
(* degree and of a percent for USB, and a word for the analogue output.    *)
(* The first device computes with int32_t, the second with uint32_t.       *)
(*                                                                         *)
(* A variable walks over every 14-bit reading, so that a run checks the    *)
(* operators on all their inputs.                                          *)
(***************************************************************************)
EXTENDS Integers

CONSTANTS
  Readings,  \* 2^14, the number of 14-bit readings
  Pads       \* the two low bits of the temperature, which the sensor leaves open

ASSUME ReadingsAssumption == Readings \in Nat \ {0} /\ Readings <= 16384
ASSUME PadsAssumption == Pads \subseteq 0 .. 3 /\ Pads # {}

VARIABLES
  raw,  \* the 14-bit reading, of temperature and of humidity
  pad

walkVars == <<raw, pad>>

WalkInit == raw = 0 /\ pad \in Pads
WalkNext == raw' = (raw + 1) % Readings /\ pad' \in Pads
WalkSpec == WalkInit /\ [][WalkNext]_walkVars

\* The four bytes that carry the reading twice, with the status bits at zero.
Answer == [i \in 0 .. 3 |-> CASE i = 0 -> raw \div 256
                              [] i = 1 -> raw % 256
                              [] i = 2 -> raw \div 64
                              [] i = 3 -> (raw % 64) * 4 + pad]

-----------------------------------------------------------------------------
(***************************************************************************)
(* Words of 32 bits.  A word is written as the integer its bits mean to an *)
(* int32_t: -1 is 2^32 - 1 to a uint32_t, and sums and products of the     *)
(* sizes met here are the same in both readings.                           *)
(***************************************************************************)
MaxInt == 2147483647

\* x / d of uint32_t, where 2^32 is 2 * (MaxInt + 1).
UDiv(x, d) ==
  IF x >= 0 THEN x \div d
  ELSE 2 * (MaxInt \div d) + (2 * ((MaxInt % d) + 1) + x) \div d

\* x / d of int32_t truncates towards zero.
SDiv(x, d) == IF x >= 0 THEN x \div d ELSE -((-x) \div d)

RawHumidity(val) == val[1] + (val[0] % 64) * 256

\* Mutant: the two open bits are not shifted out.
RawTemperatureUnshifted(val) == val[3] + val[2] * 64

RawTemperature(val) == val[3] \div 4 + val[2] * 64

-----------------------------------------------------------------------------
(***************************************************************************)
(* The first device.                                                       *)
(***************************************************************************)
Temp1(val)  == SDiv(RawTemperature(val) * 16500, 16384 - 2) - 4000
Humid1(val) == SDiv(RawHumidity(val) * 10000, 16384 - 2)

\* Mutants: the upper clamp is forgotten; the divisor is that of humidity.
PwmTempUnclamped(temp) == SDiv((IF temp < 0 THEN 0 ELSE temp) * 1023, 5000) % 1024
PwmTempHalf(temp) ==
  SDiv((IF temp < 0 THEN 0 ELSE IF temp > 5000 THEN 5000 ELSE temp) * 1023, 10000) % 1024

\* The timer's compare values, masked to ten bits where they are written.
PwmTemp(temp) ==
  SDiv((IF temp < 0 THEN 0 ELSE IF temp > 5000 THEN 5000 ELSE temp) * 1023, 5000) % 1024
PwmHumid(humid) == SDiv(humid * 1023, 10000) % 1024

-----------------------------------------------------------------------------
(***************************************************************************)
(* The second device.                                                      *)
(***************************************************************************)
Temp2(val)  == UDiv(RawTemperature(val) * 16500, 16384 - 2) - 4000
Humid2(val) == UDiv(RawHumidity(val) * 10000, 16384 - 2)

DacTemp(temp)   == UDiv(temp * 4095, 5000)
DacHumid(humid) == UDiv(humid * 4095, 10000)

-----------------------------------------------------------------------------
\* The logical ranges that the first device's HID report descriptor announces for its
\* two reports (usbDescriptorHidReport).
TempLogical  == {t \in Int : -4000 <= t /\ t <= 16500}
HumidLogical == {h \in Nat : h <= 10000}

-----------------------------------------------------------------------------
(***************************************************************************)
(* What the conversions promise.                                           *)
(***************************************************************************)
\* Both devices publish the same numbers for the same answer, although one of
\* them computes a negative temperature without sign, the two open bits of the
\* temperature make no difference, and no reading leaves the logical range that
\* was announced for it.
DevicesAgree ==
  /\ Temp1(Answer) = Temp2(Answer) /\ Humid1(Answer) = Humid2(Answer)
  /\ Temp1(Answer) = SDiv(raw * 16500, 16384 - 2) - 4000
  /\ Temp1(Answer) \in TempLogical /\ Humid1(Answer) \in HumidLogical

\* Inside 0 to 50 degrees the two devices drive their temperature outputs to the
\* same fraction of full scale, up to one step of the coarser, and everywhere
\* their humidity outputs.
OutputsAgree ==
  /\ 0 <= Temp1(Answer) /\ Temp1(Answer) <= 5000 =>
       DacTemp(Temp2(Answer)) - 4 * PwmTemp(Temp1(Answer)) \in 0 .. 7
  /\ DacHumid(Humid2(Answer)) - 4 * PwmHumid(Humid1(Answer)) \in 0 .. 7

\* A warmer reading never lowers the first device's output, at either end of
\* the scale and beyond it.
WarmerIsHigher ==
  [][raw' > raw => PwmTemp(Temp1(Answer')) >= PwmTemp(Temp1(Answer))]_walkVars

\* What the second device's comment says: temperature is scaled to 0 to 50
\* degrees and humidity to 0 to 100 percent within the 12 bits of a DAC.
DacIn12Bit ==
  DacTemp(Temp2(Answer)) \in 0 .. 4095 /\ DacHumid(Humid2(Answer)) \in 0 .. 4095
=============================================================================
