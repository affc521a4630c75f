-------------------------------- MODULE UsbCrc --------------------------------
(***************************************************************************)
(* usbCrc16 of the first device (usbdrvasm.S, USB_USE_FAST_CRC), a byte at *)
(* a time in 8-bit registers with a parity trick, beside the checker of    *)
(* the USB standard, a bit at a time.  A register is the set of its bits   *)
(* that are 1.                                                             *)
(***************************************************************************)
EXTENDS UsbLine

CONSTANTS
  Bytes,     \* of the packets
  MaxLen     \* of the packets

ASSUME CrcAssumption == Bytes \subseteq SUBSET Bits /\ MaxLen \in Nat

VARIABLES
  resCrcL, resCrcH,  \* the result so far
  len,               \* bytes so far
  check              \* the standard's 16-bit register, of the same bytes

crcVars == <<resCrcL, resCrcH, len, check>>

CrcInit == resCrcL = Bits /\ resCrcH = Bits /\ len = 0 /\ check = 0 .. 15

\* The standard's: x^16 + x^15 + x^2 + 1, most significant bit first.
FeedBit(r, byte, i) ==
  LET moved == {j + 1 : j \in r \ {15}} IN
  IF 15 \in r <=> i \in byte THEN moved ELSE Xor(moved, {15, 2, 0})

FeedHalf(r, byte, i) ==
  FeedBit(FeedBit(FeedBit(FeedBit(r, byte, i), byte, i + 1), byte, i + 2), byte, i + 3)

Feed(r, byte) == FeedHalf(FeedHalf(r, byte, 0), byte, 4)

\* Mutant: the parity of half of the byte.
ParityHalf(x) == ~(0 \in x <=> 1 \in x)

\* swap and eor fold the byte in two, lsr and eor in four; inc adds the last two bits.
Parity(x) ==
  LET swapped == {(i + 4) % 8 : i \in x}
      folded  == Xor(swapped, x)
      twice   == Xor({i - 2 : i \in folded \ {0, 1}}, folded) IN
  ~(0 \in twice <=> 1 \in twice)

\* byte begins as parity << 1, without its bit 1 after ror.
usbCrc16ByteLoop(data) ==
  LET x       == Xor(data, resCrcL)
      parity  == Parity(x)
      scratch == Ror(x, parity)
      byte    == Ror(IF parity THEN {1} ELSE {}, 0 \in x) IN
  /\ len < MaxLen /\ len' = len + 1
  /\ resCrcL' = Xor(Xor(byte, resCrcH), Ror(byte, 0 \in scratch))
  /\ resCrcH' = Xor(scratch, Ror(scratch, FALSE))
  /\ check' = Feed(check, data)

CrcNext == \E data \in Bytes : usbCrc16ByteLoop(data)
CrcSpec == CrcInit /\ [][CrcNext]_crcVars

-----------------------------------------------------------------------------
\* A host that checks a packet with the CRC that usbCrc16Append puts behind it finds the
\* residual 1000000000001101 the standard asks for.
HostAccepts == Feed(Feed(check, Bits \ resCrcL), Bits \ resCrcH) = {15, 3, 2, 0}
=============================================================================
