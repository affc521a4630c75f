-------------------------------- MODULE UsbLine --------------------------------
(***************************************************************************)
(* The line as the USB standard has it, for UsbReceive and UsbSend: bytes  *)
(* go least significant bit first; a 0 toggles the line, a 1 leaves it; a  *)
(* 0 is stuffed after six 1s.  A byte is the set of its bits that are 1.   *)
(***************************************************************************)
EXTENDS Integers

Bits   == 0 .. 7
Levels == {"J", "K"}
BitThirds == 32   \* a bit lasts 10 2/3 cycles at 16 MHz, counted in thirds

Toggled(level) == IF level = "J" THEN "K" ELSE "J"
MustStuff(wire) == wire.ones = 6

\* The line and the 1s in a row after one more bit.
Put(wire, bit) ==
  IF bit THEN [wire EXCEPT !.ones = @ + 1]
  ELSE [line |-> Toggled(wire.line), ones |-> 0]

\* The processor's shifts, and the test for six 1s in the upper bits (cpi 0xfc).
Ror(reg, carry) == {i - 1 : i \in reg \ {0}} \cup (IF carry THEN {7} ELSE {})
SixOnes(reg)    == 2 .. 7 \subseteq reg
Xor(a, b)       == (a \ b) \cup (b \ a)
=============================================================================
