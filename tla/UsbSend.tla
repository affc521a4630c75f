-------------------------------- MODULE UsbSend --------------------------------
(***************************************************************************)
(* The first device's transmitter, usbSendAndReti in usbdrvasm16.inc: a    *)
(* step is one bit on the line, with what the code does until it puts out  *)
(* the next one.  Beside it the bits as the standard has them, and the     *)
(* cycles that passed.                                                     *)
(***************************************************************************)
EXTENDS UsbLine

CONSTANTS
  Messages,  \* the bytes that may follow the synchronisation byte
  Lengths    \* of the packets, with the synchronisation byte

\* "number of bytes in 'cnt' -- including sync byte [range 2 ... 12]" (usbSend).
ASSUME SendAssumption == Messages \subseteq SUBSET Bits /\ Lengths \subseteq 2 .. 12

VARIABLES
  txpc,   \* which bit is put out next
  tx,     \* the registers: shift, x2 (the last bits sent), carry, bitcnt, cnt, and the
          \* level of the line
  sent,   \* the standard's line, and how many bits of the byte it has used
  byte,   \* the byte being sent
  time    \* bits and cycles since the first bit of the packet, and cycles to the next

sendVars == <<txpc, tx, sent, byte, time>>

Sync == {7}   \* 0x80

SendTypeOK ==
  /\ txpc \in {"bit", "bitstuffN", "six", "bitstuff6", "seven", "SE0"}
  /\ tx \in [shift : SUBSET Bits, x2 : SUBSET Bits, carry : BOOLEAN, bitcnt : 0 .. 53,
             cnt : 0 .. 12, line : Levels]
  /\ sent \in [line : Levels, ones : 0 .. 6, n : 0 .. 8]
  /\ byte \in {Sync} \cup Messages
  /\ time \in [bits : Nat, cycles : Nat, due : 10 .. 12]

\* x2 still holds the direction of the port.
SendInit ==
  /\ txpc = "bit" /\ byte = Sync
  /\ \E x2 \in SUBSET Bits, cnt \in Lengths :
       tx = [shift |-> Sync, x2 |-> x2, carry |-> FALSE, bitcnt |-> 53, cnt |-> cnt, line |-> "J"]
  /\ sent = [line |-> "J", ones |-> 0, n |-> 0]
  /\ time = [bits |-> 0, cycles |-> 0, due |-> 10]

-----------------------------------------------------------------------------
\* The standard's next bit: a stuffed one, or the next of the byte.
Standard ==
  sent' = IF MustStuff(sent) THEN [line |-> Toggled(sent.line), ones |-> 0, n |-> sent.n]
          ELSE LET wire == Put([line |-> sent.line, ones |-> sent.ones], sent.n % 8 \in byte) IN
               [line |-> wire.line, ones |-> wire.ones, n |-> (sent.n % 8) + 1]

Out(cycles) ==
  time' = [bits |-> time.bits + 1, due |-> cycles,
           cycles |-> IF time.bits = 0 THEN 0 ELSE time.cycles + time.due]

Level(toggle) == IF toggle THEN Toggled(tx.line) ELSE tx.line

\* The loop of the first six bits ends when the last 1 of 0x35 is shifted out.
LoopGoesOn == tx.bitcnt % 2 = 0 \/ tx.bitcnt > 1

\* Mutant: every turn of the loop takes the same time.
LoopCyclesEven == 10

LoopCycles == IF tx.bitcnt % 2 = 1 /\ tx.bitcnt > 1 THEN 11 ELSE 10
AfterBit   == IF LoopGoesOn THEN "bit" ELSE "six"

txBitLoop ==
  LET one == 0 \in tx.shift
      x2  == Ror(tx.x2, one) IN
  /\ txpc = "bit"
  /\ tx' = [tx EXCEPT !.line = Level(~one), !.shift = Ror(@, FALSE), !.x2 = x2,
                      !.bitcnt = IF SixOnes(x2) THEN @ ELSE @ \div 2]
  /\ IF SixOnes(x2) THEN txpc' = "bitstuffN" /\ Out(11) ELSE txpc' = AfterBit /\ Out(LoopCycles)
  /\ Standard /\ UNCHANGED byte

bitstuffN ==
  /\ txpc = "bitstuffN" /\ txpc' = AfterBit /\ Out(LoopCycles)
  /\ tx' = [tx EXCEPT !.line = Level(TRUE), !.x2 = {}, !.bitcnt = @ \div 2]
  /\ Standard /\ UNCHANGED byte

\* Bit 6 falls out of the loop; bit 7 is taken into the carry before the line is set.
didStuff6 ==
  LET one == 0 \in tx.shift
      x2  == Ror(tx.x2, one)
      shift == Ror(tx.shift, FALSE) IN
  /\ txpc = "six" /\ Out(11)
  /\ IF SixOnes(x2)
     THEN /\ txpc' = "bitstuff6"
          /\ tx' = [tx EXCEPT !.line = Level(~one), !.shift = shift, !.x2 = x2]
     ELSE /\ txpc' = "seven"
          /\ tx' = [tx EXCEPT !.line = Level(~one), !.shift = Ror(shift, FALSE), !.x2 = x2,
                              !.carry = 0 \in shift]
  /\ Standard /\ UNCHANGED byte

\* Mutant: shift is not moved back for the second time it is shifted.
MovedBackNot(shift) == shift

\* rol, with no carry.
MovedBack(shift) == {i + 1 : i \in shift \ {7}}

bitstuff6 ==
  LET shift == Ror(MovedBack(tx.shift), FALSE) IN
  /\ txpc = "bitstuff6" /\ txpc' = "seven" /\ Out(11)
  /\ tx' = [tx EXCEPT !.line = Level(TRUE), !.shift = Ror(shift, FALSE), !.carry = 0 \in shift,
                      !.x2 = Ror({}, 0 \in MovedBack(tx.shift))]
  /\ Standard /\ UNCHANGED byte

MoreBytes == tx.cnt > 1

\* After bit 7, or the bit stuffed behind it (bitstuff7), comes the next byte.
didStuff7 ==
  LET x2 == Ror(tx.x2, tx.carry) IN
  /\ txpc = "seven" /\ Standard
  /\ CASE SixOnes(x2) ->
            /\ txpc' = "seven" /\ Out(11)
            /\ tx' = [tx EXCEPT !.line = Level(~tx.carry), !.x2 = {}, !.carry = FALSE]
            /\ UNCHANGED byte
       [] ~SixOnes(x2) /\ MoreBytes ->
            \E next \in Messages :
              /\ txpc' = "bit" /\ Out(10) /\ byte' = next
              /\ tx' = [tx EXCEPT !.line = Level(~tx.carry), !.x2 = x2, !.shift = next, !.cnt = @ - 1,
                                  !.bitcnt = 53]
       [] OTHER ->
            /\ txpc' = "SE0" /\ Out(12) /\ UNCHANGED byte
            /\ tx' = [tx EXCEPT !.line = Level(~tx.carry), !.x2 = x2, !.cnt = 0]

SendNext == txBitLoop \/ bitstuffN \/ didStuff6 \/ bitstuff6 \/ didStuff7
SendSpec == SendInit /\ [][SendNext]_sendVars

-----------------------------------------------------------------------------
\* Wherever six 1s end, in a byte or across two, the line is what the standard asks
\* for, and a byte is left when its last bit and what was stuffed behind it are sent.
LineStandard ==
  /\ tx.line = sent.line
  /\ txpc = "SE0" \/ (txpc = "bit" /\ tx.bitcnt = 53) => sent.n \in {0, 8} /\ ~MustStuff(sent)

\* "the spec demands only 1.5% precision" (usbdrvasm16.inc, usbSend): without leap
\* cycles, a whole packet still takes as long as it should within that.
RateHeld ==
  txpc = "SE0" => LET due   == BitThirds * time.bits
                    taken == 3 * (time.cycles + time.due) IN
                1000 * taken \in 985 * due .. 1015 * due
=============================================================================
