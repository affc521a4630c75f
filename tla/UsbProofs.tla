------------------------------- MODULE UsbProofs -------------------------------
(***************************************************************************)
(* The first device's driver on the wire: proofs about UsbSend, UsbReceive *)
(* and UsbCrc.                                                             *)
(***************************************************************************)
EXTENDS UsbReceive, UsbSend, UsbCrc, TLAPS

\* The last bits on the line, the latest in bit 7, end with so many 1s behind a 0.
EndsWith(reg, ones) == \A i \in Bits : (i > 7 - ones => i \in reg) /\ (i = 7 - ones => i \notin reg)

-----------------------------------------------------------------------------
(***************************************************************************)
(* UsbSend.                                                                *)
(***************************************************************************)

\* m bits of the byte have left shift.
Shifts(m) == \A i \in Bits : i \in tx.shift <=> i + m \in byte

\* The turns of the loop, counted by the bits of 0x35.
Turn(m, count) ==
  \/ m = 0 /\ count = 53
  \/ m = 1 /\ count = 26
  \/ m = 2 /\ count = 13
  \/ m = 3 /\ count = 6
  \/ m = 4 /\ count = 3
  \/ m = 5 /\ count = 1

\* Bits of this byte that are on the line; its eighth is the last of the byte before.
InByte == IF txpc \in {"bit", "SE0"} THEN sent.n % 8 ELSE sent.n

Where ==
  \/ /\ txpc = "bit" /\ ~MustStuff(sent)
     /\ sent.n \in 0 .. 5 \cup {8} /\ Shifts(InByte) /\ Turn(InByte, tx.bitcnt)
  \/ /\ txpc = "bitstuffN" /\ MustStuff(sent)
     /\ sent.n \in 1 .. 6 /\ Shifts(sent.n) /\ Turn(sent.n - 1, tx.bitcnt)
  \/ txpc = "six" /\ ~MustStuff(sent) /\ sent.n = 6 /\ Shifts(6)
  \/ txpc = "bitstuff6" /\ MustStuff(sent) /\ sent.n = 7 /\ Shifts(7)
  \/ txpc = "seven" /\ ~MustStuff(sent) /\ sent.n = 7 /\ (tx.carry <=> 7 \in byte)
  \/ txpc = "seven" /\ MustStuff(sent) /\ sent.n = 8 /\ ~tx.carry /\ tx.x2 = {}
  \/ txpc = "SE0" /\ ~MustStuff(sent) /\ sent.n = 8

\* x2 is of no meaning before the first bit, which is a 0.
History == IF sent.n = 0 THEN byte = Sync /\ sent.ones = 0
           ELSE ~MustStuff(sent) => EndsWith(tx.x2, sent.ones)

LineInv == SendTypeOK /\ tx.line = sent.line /\ Where /\ History

\* The cycles up to the next bit of a packet of length bytes: eight bits take 84, the odd
\* ones 11 and the even ones 10, and a stuffed bit 11.
BitCycles(m) == (21 * m + (m % 2)) \div 2
Cycles(length, m) == 84 * (length - tx.cnt) + BitCycles(m)

\* Bits of the packet that are on the line, and the stuffed ones among them.
DataBits(length)    == 8 * (length - tx.cnt) + InByte
StuffedBits(length) == time.bits - DataBits(length)

\* A stuffed bit comes behind bits of bytes, and SE0 two cycles later than a bit would.
Timed(length) ==
  /\ tx.cnt \in 0 .. length /\ (txpc = "SE0" <=> tx.cnt = 0)
  /\ sent.n = 0 <=> time.bits = 0
  /\ sent.n = 0 => tx.cnt = length
  /\ StuffedBits(length) >= 0
  /\ IF MustStuff(sent)
     THEN /\ StuffedBits(length) < DataBits(length)
          /\ time.cycles + time.due = Cycles(length, InByte - 1) + 11 * (StuffedBits(length) + 1)
     ELSE /\ StuffedBits(length) <= DataBits(length)
          /\ time.bits > 0 =>
               time.cycles + time.due = Cycles(length, InByte) + 11 * StuffedBits(length)
                                        + (IF txpc = "SE0" THEN 2 ELSE 0)

SendInv == LineInv /\ \E length \in Lengths : Timed(length)
-----------------------------------------------------------------------------
\* The register after a 1, or a 0, is shifted in.
Ror1(reg) == Ror(reg, TRUE)
Ror0(reg) == Ror(reg, FALSE)

\* ror moves every bit one place down and the carry to the top.
LEMMA RorBits ==
  ASSUME NEW reg \in SUBSET Bits
  PROVE  /\ Ror1(reg) \in SUBSET Bits /\ Ror0(reg) \in SUBSET Bits
         /\ \A i \in Bits : i \in Ror1(reg) <=> i + 1 \in reg \/ i = 7
         /\ \A i \in Bits : i \in Ror0(reg) <=> i + 1 \in reg
<1> DEFINE Moved == {i - 1 : i \in reg \ {0}}
<1>1. Moved \in SUBSET Bits
  BY DEF Bits
<1>2. \A i \in Bits : i \in Moved <=> i + 1 \in reg
  <2> SUFFICES ASSUME NEW i \in Bits PROVE i \in Moved <=> i + 1 \in reg
    OBVIOUS
  <2>1. ASSUME i + 1 \in reg PROVE i \in Moved
    <3>1. i + 1 \in reg \ {0} /\ i = (i + 1) - 1
      BY <2>1 DEF Bits
    <3> QED BY <3>1
  <2>2. ASSUME i \in Moved PROVE i + 1 \in reg
    <3>1. PICK j \in reg \ {0} : i = j - 1
      BY <2>2
    <3> QED BY <3>1 DEF Bits
  <2> QED BY <2>1, <2>2
<1>3. 8 \notin reg
  BY DEF Bits
<1>4. Ror1(reg) = Moved \cup {7} /\ Ror0(reg) = Moved
  BY DEF Ror, Ror1, Ror0
<1> HIDE DEF Moved
<1> QED BY <1>1, <1>2, <1>3, <1>4 DEF Bits

\* A bit that is shifted in makes the 1s at the end one more or none, and the test of the
\* upper six bits finds the sixth 1.
LEMMA EndsWithNext ==
  ASSUME NEW reg \in SUBSET Bits, NEW ones \in 0 .. 5, EndsWith(reg, ones)
  PROVE  /\ EndsWith(Ror1(reg), ones + 1)
         /\ SixOnes(Ror1(reg)) <=> ones = 5
<1>1. EndsWith(Ror1(reg), ones + 1)
  BY RorBits DEF EndsWith, Bits
<1>2. ones = 5 => SixOnes(Ror1(reg))
  BY RorBits DEF EndsWith, SixOnes, Bits
<1>3. ASSUME ones # 5 PROVE ~SixOnes(Ror1(reg))
  <2>1. 6 - ones \in 2 .. 7 /\ 6 - ones \in Bits /\ 7 - ones \in Bits /\ 6 - ones # 7
    BY <1>3 DEF Bits
  <2>2. 7 - ones \notin reg
    BY <2>1 DEF EndsWith
  <2>3. 6 - ones \notin Ror1(reg)
    BY <2>1, <2>2, RorBits
  <2> QED BY <2>1, <2>3 DEF SixOnes
<1> QED BY <1>1, <1>2, <1>3

\* After a 0 no 1s are at the end.
LEMMA EndsWithZero ==
  ASSUME NEW reg \in SUBSET Bits
  PROVE  /\ EndsWith(Ror0(reg), 0) /\ ~SixOnes(Ror0(reg))
         /\ 7 \notin reg => EndsWith(reg, 0) /\ ~SixOnes(reg)
<1>1. 7 \notin Ror0(reg)
  BY RorBits DEF Bits
<1> QED BY <1>1 DEF EndsWith, SixOnes, Bits

-----------------------------------------------------------------------------
\* The standard's next bit.
LEMMA StandardBit ==
  ASSUME SendTypeOK, Standard
  PROVE  /\ MustStuff(sent) =>
              sent'.line = Toggled(sent.line) /\ sent'.ones = 0 /\ sent'.n = sent.n
         /\ ~MustStuff(sent) =>
              /\ sent'.n = (sent.n % 8) + 1
              /\ sent.n % 8 \in byte => sent'.line = sent.line /\ sent'.ones = sent.ones + 1
              /\ sent.n % 8 \notin byte => sent'.line = Toggled(sent.line) /\ sent'.ones = 0
         /\ sent' \in [line : Levels, ones : 0 .. 6, n : 0 .. 8]
<1>1. sent \in [line : Levels, ones : 0 .. 6, n : 0 .. 8]
  BY DEF SendTypeOK
<1>2. Toggled(sent.line) \in Levels
  BY DEF Toggled, Levels
<1>3. CASE MustStuff(sent)
  BY <1>1, <1>2, <1>3 DEF Standard, MustStuff
<1>4. CASE ~MustStuff(sent)
  <2>1. sent.n % 8 \in 0 .. 7 /\ (sent.n % 8) + 1 \in 0 .. 8
    BY <1>1
  <2>2. sent.ones + 1 \in 0 .. 6
    BY <1>1, <1>4 DEF MustStuff
  <2>3. CASE sent.n % 8 \in byte
    BY <1>1, <1>2, <1>4, <2>1, <2>2, <2>3 DEF Standard, Put
  <2>4. CASE sent.n % 8 \notin byte
    BY <1>1, <1>2, <1>4, <2>1, <2>2, <2>4 DEF Standard, Put
  <2> QED BY <1>4, <2>1, <2>3, <2>4
<1> QED BY <1>3, <1>4

\* The turns of the loop, and the cycles they take.
LEMMA Turns ==
  ASSUME NEW m \in 0 .. 5, Turn(m, tx.bitcnt)
  PROVE  /\ LoopGoesOn <=> m < 5
         /\ m < 5 => Turn(m + 1, tx.bitcnt \div 2)
         /\ tx.bitcnt \div 2 \in 0 .. 53
         /\ LoopCycles = 10 + ((m + 1) % 2)
         /\ BitCycles(m + 1) = BitCycles(m) + LoopCycles
BY DEF Turn, LoopGoesOn, LoopCycles, BitCycles

\* The history and the standard's 1s agree: the code stuffs a bit where the standard does.
LEMMA StuffsRight ==
  ASSUME LineInv, Standard, ~MustStuff(sent), NEW reg,
         sent.n % 8 \in byte => reg = Ror1(tx.x2),
         sent.n % 8 \notin byte => reg = Ror0(tx.x2)
  PROVE  /\ SixOnes(reg) <=> MustStuff(sent)'
         /\ ~SixOnes(reg) => EndsWith(reg, sent'.ones)
         /\ reg \in SUBSET Bits
<1>1. tx.x2 \in SUBSET Bits /\ sent.ones \in 0 .. 5 /\ sent.n \in 0 .. 8
  BY DEF LineInv, SendTypeOK, MustStuff
<1>2. CASE sent.n % 8 \notin byte
  <2>1. sent'.ones = 0 /\ reg = Ror0(tx.x2)
    BY <1>2, StandardBit DEF LineInv
  <2> QED BY <1>1, <2>1, RorBits, EndsWithZero DEF MustStuff
<1>3. CASE sent.n % 8 \in byte
  <2>1. sent'.ones = sent.ones + 1 /\ reg = Ror1(tx.x2)
    BY <1>3, StandardBit DEF LineInv
  <2>2. sent.n # 0
    <3>1. 0 % 8 = 0 /\ 0 \notin Sync
      BY DEF Sync
    <3> QED BY <1>3, <3>1 DEF LineInv, History
  <2>3. EndsWith(tx.x2, sent.ones)
    BY <2>2 DEF LineInv, History
  <2> QED BY <1>1, <2>1, <2>3, RorBits, EndsWithNext DEF MustStuff
<1> QED BY <1>2, <1>3

\* A turn of the loop keeps the line right.
LEMMA BitLoopLine ==
  ASSUME LineInv, txBitLoop
  PROVE  LineInv'
<1> DEFINE one == 0 \in tx.shift
           x2  == Ror(tx.x2, one)
<1>1. PICK m \in 0 .. 5 :
        /\ txpc = "bit" /\ ~MustStuff(sent)
        /\ sent.n % 8 = m /\ Shifts(m) /\ Turn(m, tx.bitcnt)
  BY DEF LineInv, Where, txBitLoop, InByte
<1>2. one <=> m \in byte
  BY <1>1 DEF Shifts, Bits
<1>3. x2 = (IF one THEN Ror1(tx.x2) ELSE Ror0(tx.x2)) /\ Ror(tx.shift, FALSE) = Ror0(tx.shift)
  BY DEF Ror, Ror1, Ror0
<1>4. SendTypeOK /\ Standard /\ byte' = byte
  BY DEF LineInv, txBitLoop
<1>5. /\ SixOnes(x2) <=> MustStuff(sent)'
      /\ ~SixOnes(x2) => EndsWith(x2, sent'.ones)
      /\ x2 \in SUBSET Bits
  BY <1>1, <1>2, <1>3, <1>4, StuffsRight
<1>6. /\ sent'.n = m + 1 /\ sent' \in [line : Levels, ones : 0 .. 6, n : 0 .. 8]
      /\ one => sent'.line = sent.line
      /\ ~one => sent'.line = Toggled(sent.line)
  BY <1>1, <1>2, <1>4, StandardBit
<1>7. /\ tx'.line = Level(~one) /\ tx'.shift = Ror0(tx.shift) /\ tx'.x2 = x2
      /\ tx'.carry = tx.carry /\ tx'.cnt = tx.cnt
      /\ tx'.bitcnt = IF SixOnes(x2) THEN tx.bitcnt ELSE tx.bitcnt \div 2
      /\ tx' = [shift |-> tx'.shift, x2 |-> tx'.x2, carry |-> tx'.carry, bitcnt |-> tx'.bitcnt,
                cnt |-> tx'.cnt, line |-> tx'.line]
  BY <1>3, <1>4 DEF txBitLoop, SendTypeOK
<1>8. tx'.line = sent'.line
  BY <1>6, <1>7 DEF LineInv, Level
<1>9. tx'.shift \in SUBSET Bits /\ Shifts(m + 1)'
  <2>1. tx.shift \in SUBSET Bits /\ byte \in SUBSET Bits
    BY <1>4, SendAssumption DEF SendTypeOK, Sync, Bits
  <2>2. \A i \in Bits : i \in Ror0(tx.shift) <=> i + 1 \in tx.shift
    BY <2>1, RorBits
  <2>3. \A i \in Bits : i + 1 \in tx.shift <=> i + 1 + m \in byte
    BY <1>1, <2>1 DEF Shifts, Bits
  <2> QED BY <1>1, <1>4, <1>7, <2>1, <2>2, <2>3, RorBits DEF Shifts, Bits
<1>10. time' \in [bits : Nat, cycles : Nat, due : 10 .. 12]
  BY <1>4 DEF txBitLoop, Out, SendTypeOK, LoopCycles
<1>11. SendTypeOK'
  <2>1. tx.bitcnt \in 0 .. 53 /\ tx.carry \in BOOLEAN /\ tx.cnt \in 0 .. 12
    BY <1>4 DEF SendTypeOK
  <2>2. tx'.bitcnt \in 0 .. 53
    BY <1>1, <1>7, <2>1, Turns
  <2>3. tx'.line \in Levels
    BY <1>6, <1>8
  <2>4. tx' \in [shift : SUBSET Bits, x2 : SUBSET Bits, carry : BOOLEAN, bitcnt : 0 .. 53,
                cnt : 0 .. 12, line : Levels]
    BY <1>5, <1>7, <1>9, <2>1, <2>2, <2>3
  <2>5. txpc' \in {"bit", "bitstuffN", "six"}
    BY DEF txBitLoop, AfterBit
  <2> QED BY <1>4, <1>6, <1>10, <2>4, <2>5 DEF SendTypeOK
<1>12. Where'
  <2>1. CASE SixOnes(x2)
    <3>1. txpc' = "bitstuffN"
      BY <2>1 DEF txBitLoop
    <3> QED BY <1>1, <1>5, <1>6, <1>7, <1>9, <2>1, <3>1 DEF Where
  <2>2. CASE ~SixOnes(x2)
    <3>1. txpc' = IF m < 5 THEN "bit" ELSE "six"
      BY <1>1, <2>2, Turns DEF txBitLoop, AfterBit
    <3>2. m < 5 => Turn(m + 1, tx'.bitcnt) /\ InByte' = m + 1
      BY <1>1, <1>6, <1>7, <2>2, <3>1, Turns DEF InByte
    <3> QED BY <1>1, <1>5, <1>6, <1>9, <2>2, <3>1, <3>2 DEF Where
  <2> QED BY <2>1, <2>2
<1>13. History'
  BY <1>1, <1>5, <1>6, <1>7 DEF History
<1> QED BY <1>8, <1>11, <1>12, <1>13 DEF LineInv

\* The stuffed bit in the loop.
LEMMA BitstuffNLine ==
  ASSUME LineInv, bitstuffN
  PROVE  LineInv'
<1>1. PICK m \in 0 .. 5 :
        /\ txpc = "bitstuffN" /\ MustStuff(sent)
        /\ sent.n = m + 1 /\ Shifts(m + 1) /\ Turn(m, tx.bitcnt)
  <2>1. txpc = "bitstuffN" /\ MustStuff(sent) /\ sent.n \in 1 .. 6
        /\ Shifts(sent.n) /\ Turn(sent.n - 1, tx.bitcnt)
    BY DEF LineInv, Where, bitstuffN
  <2>2. sent.n - 1 \in 0 .. 5 /\ sent.n = (sent.n - 1) + 1
    BY <2>1
  <2> QED BY <2>1, <2>2
<1>2. SendTypeOK /\ Standard /\ byte' = byte
  BY DEF LineInv, bitstuffN
<1>3. /\ sent'.n = m + 1 /\ sent' \in [line : Levels, ones : 0 .. 6, n : 0 .. 8]
      /\ sent'.line = Toggled(sent.line) /\ sent'.ones = 0 /\ ~MustStuff(sent)'
  BY <1>1, <1>2, StandardBit DEF MustStuff
<1>4. /\ tx'.line = Level(TRUE) /\ tx'.shift = tx.shift /\ tx'.x2 = {} /\ tx'.carry = tx.carry
      /\ tx'.cnt = tx.cnt /\ tx'.bitcnt = tx.bitcnt \div 2
      /\ tx' = [shift |-> tx'.shift, x2 |-> tx'.x2, carry |-> tx'.carry, bitcnt |-> tx'.bitcnt,
                cnt |-> tx'.cnt, line |-> tx'.line]
  BY <1>2 DEF bitstuffN, SendTypeOK
<1>5. tx'.line = sent'.line
  BY <1>3, <1>4 DEF LineInv, Level
<1>6. time' \in [bits : Nat, cycles : Nat, due : 10 .. 12]
  BY <1>2 DEF bitstuffN, Out, SendTypeOK, LoopCycles
<1>7. SendTypeOK'
  <2>1. tx.shift \in SUBSET Bits /\ tx.carry \in BOOLEAN /\ tx.cnt \in 0 .. 12
    BY <1>2 DEF SendTypeOK
  <2>2. tx'.bitcnt \in 0 .. 53 /\ tx'.line \in Levels
    BY <1>1, <1>3, <1>4, <1>5, Turns
  <2>3. tx' \in [shift : SUBSET Bits, x2 : SUBSET Bits, carry : BOOLEAN, bitcnt : 0 .. 53,
                cnt : 0 .. 12, line : Levels]
    BY <1>4, <2>1, <2>2
  <2>4. txpc' \in {"bit", "six"}
    BY DEF bitstuffN, AfterBit
  <2> QED BY <1>2, <1>3, <1>6, <2>3, <2>4 DEF SendTypeOK
<1>8. txpc' = IF m < 5 THEN "bit" ELSE "six"
  BY <1>1, Turns DEF bitstuffN, AfterBit
<1>9. Where'
  <2>1. m < 5 => Turn(m + 1, tx'.bitcnt) /\ InByte' = m + 1
    BY <1>1, <1>3, <1>4, <1>8, Turns DEF InByte
  <2>2. Shifts(m + 1)'
    BY <1>1, <1>2, <1>4 DEF Shifts
  <2> QED BY <1>3, <1>8, <2>1, <2>2 DEF Where
<1>10. EndsWith(tx'.x2, 0)
  BY <1>4 DEF EndsWith, Bits
<1>11. History'
  BY <1>3, <1>10 DEF History
<1> QED BY <1>5, <1>7, <1>9, <1>11 DEF LineInv

\* Bit 6, and the last bit taken into the carry when nothing has to be stuffed before it.
LEMMA Bit6Line ==
  ASSUME LineInv, didStuff6
  PROVE  LineInv'
<1> DEFINE one == 0 \in tx.shift
           x2  == Ror(tx.x2, one)
<1>1. txpc = "six" /\ ~MustStuff(sent) /\ sent.n = 6 /\ sent.n % 8 = 6 /\ Shifts(6)
  BY DEF LineInv, Where, didStuff6
<1>2. one <=> 6 \in byte
  BY <1>1 DEF Shifts, Bits
<1>3. x2 = (IF one THEN Ror1(tx.x2) ELSE Ror0(tx.x2))
      /\ Ror(tx.shift, FALSE) = Ror0(tx.shift) /\ Ror(Ror0(tx.shift), FALSE) = Ror0(Ror0(tx.shift))
  BY DEF Ror, Ror1, Ror0
<1>4. SendTypeOK /\ Standard /\ byte' = byte
  BY DEF LineInv, didStuff6
<1>5. /\ SixOnes(x2) <=> MustStuff(sent)'
      /\ ~SixOnes(x2) => EndsWith(x2, sent'.ones)
      /\ x2 \in SUBSET Bits
  BY <1>1, <1>2, <1>3, <1>4, StuffsRight
<1>6. /\ sent'.n = 7 /\ sent' \in [line : Levels, ones : 0 .. 6, n : 0 .. 8]
      /\ one => sent'.line = sent.line
      /\ ~one => sent'.line = Toggled(sent.line)
  BY <1>1, <1>2, <1>4, StandardBit
<1>7. tx.shift \in SUBSET Bits /\ Ror0(tx.shift) \in SUBSET Bits
      /\ Ror0(Ror0(tx.shift)) \in SUBSET Bits /\ byte \in SUBSET Bits
  BY <1>4, RorBits, SendAssumption DEF SendTypeOK, Sync, Bits
<1>8. \A i \in Bits : i \in Ror0(tx.shift) <=> i + 7 \in byte
  <2>1. \A i \in Bits : i \in Ror0(tx.shift) <=> i + 1 \in tx.shift
    BY <1>7, RorBits
  <2>2. \A i \in Bits : i + 1 \in tx.shift <=> i + 7 \in byte
    BY <1>1, <1>7 DEF Shifts, Bits
  <2> QED BY <2>1, <2>2
<1>9. 0 \in Ror0(tx.shift) <=> 7 \in byte
  BY <1>8 DEF Bits
<1>10. /\ tx'.line = Level(~one) /\ tx'.x2 = x2 /\ tx'.cnt = tx.cnt /\ tx'.bitcnt = tx.bitcnt
       /\ tx'.shift = IF SixOnes(x2) THEN Ror0(tx.shift) ELSE Ror0(Ror0(tx.shift))
       /\ IF SixOnes(x2) THEN tx'.carry = tx.carry ELSE tx'.carry = (0 \in Ror0(tx.shift))
       /\ tx' = [shift |-> tx'.shift, x2 |-> tx'.x2, carry |-> tx'.carry, bitcnt |-> tx'.bitcnt,
                 cnt |-> tx'.cnt, line |-> tx'.line]
       /\ txpc' = IF SixOnes(x2) THEN "bitstuff6" ELSE "seven"
  <2>1. CASE SixOnes(x2)
    BY <1>3, <1>4, <1>7, <2>1 DEF didStuff6, SendTypeOK
  <2>2. CASE ~SixOnes(x2)
    BY <1>3, <1>4, <1>7, <2>2 DEF didStuff6, SendTypeOK
  <2> QED BY <2>1, <2>2
<1>11. tx'.line = sent'.line
  BY <1>6, <1>10 DEF LineInv, Level
<1>12. time' \in [bits : Nat, cycles : Nat, due : 10 .. 12]
  BY <1>4 DEF didStuff6, Out, SendTypeOK
<1>13. tx'.carry \in BOOLEAN
  <2>1. CASE SixOnes(x2)
    <3>1. tx'.carry = tx.carry /\ tx.carry \in BOOLEAN
      BY <1>4, <1>10, <2>1 DEF SendTypeOK
    <3> QED BY <3>1, Zenon
  <2>2. CASE ~SixOnes(x2)
    <3>1. tx'.carry = (0 \in Ror0(tx.shift))
      BY <1>10, <2>2, Zenon
    <3>2. (0 \in Ror0(tx.shift)) \in BOOLEAN
      OBVIOUS
    <3> QED BY <3>1, <3>2, Zenon
  <2> QED BY <2>1, <2>2
<1>14. SendTypeOK'
  BY <1>4, <1>5, <1>6, <1>7, <1>10, <1>11, <1>12, <1>13 DEF SendTypeOK
<1>15. Where'
  <2>1. CASE SixOnes(x2)
    BY <1>4, <1>5, <1>6, <1>8, <1>10, <2>1 DEF Where, Shifts
  <2>2. CASE ~SixOnes(x2)
    <3>1. tx'.carry <=> 7 \in byte'
      BY <1>4, <1>9, <1>10, <2>2
    <3> QED BY <1>5, <1>6, <1>10, <2>2, <3>1 DEF Where
  <2> QED BY <2>1, <2>2
<1>16. History'
  BY <1>5, <1>6, <1>10 DEF History
<1> QED BY <1>11, <1>14, <1>15, <1>16 DEF LineInv

\* The bit stuffed behind bit 6: shift goes back and forth again.
LEMMA Bitstuff6Line ==
  ASSUME LineInv, bitstuff6
  PROVE  LineInv'
<1> DEFINE moved == MovedBack(tx.shift)
<1>1. txpc = "bitstuff6" /\ MustStuff(sent) /\ sent.n = 7 /\ Shifts(7)
  BY DEF LineInv, Where, bitstuff6
<1>2. SendTypeOK /\ Standard /\ byte' = byte
  BY DEF LineInv, bitstuff6
<1>3. /\ sent'.n = 7 /\ sent' \in [line : Levels, ones : 0 .. 6, n : 0 .. 8]
      /\ sent'.line = Toggled(sent.line) /\ sent'.ones = 0 /\ ~MustStuff(sent)'
  BY <1>1, <1>2, StandardBit DEF MustStuff
<1>4. tx.shift \in SUBSET Bits
  BY <1>2 DEF SendTypeOK
<1>5. moved \in SUBSET Bits /\ 0 \notin moved /\ (1 \in moved <=> 0 \in tx.shift)
  <2>1. moved \subseteq Bits /\ 0 \notin moved
    BY <1>4 DEF MovedBack, Bits
  <2>2. ASSUME 0 \in tx.shift PROVE 1 \in moved
    <3>1. 0 \in tx.shift \ {7} /\ 1 = 0 + 1
      BY <2>2
    <3> QED BY <3>1 DEF MovedBack
  <2>3. ASSUME 1 \in moved PROVE 0 \in tx.shift
    <3>1. PICK i \in tx.shift \ {7} : 1 = i + 1
      BY <2>3 DEF MovedBack
    <3>2. i = 0
      BY <1>4, <3>1 DEF Bits
    <3> QED BY <3>1, <3>2
  <2> QED BY <2>1, <2>2, <2>3
<1>6. Ror0(moved) \in SUBSET Bits /\ (0 \in Ror0(moved) <=> 7 \in byte) /\ Ror0(Ror0(moved)) \in SUBSET Bits
  <2>1. 0 \in tx.shift <=> 7 \in byte
    BY <1>1 DEF Shifts, Bits
  <2>2. 0 \in Ror0(moved) <=> 1 \in moved
    BY <1>5, RorBits DEF Bits
  <2> QED BY <1>5, <2>1, <2>2, RorBits
<1>7. Ror({}, 0 \in moved) = {}
  BY <1>5 DEF Ror
<1>8. Ror(moved, FALSE) = Ror0(moved) /\ Ror(Ror0(moved), FALSE) = Ror0(Ror0(moved))
  BY DEF Ror, Ror0
<1>9. /\ tx'.line = Level(TRUE) /\ tx'.x2 = {} /\ tx'.cnt = tx.cnt /\ tx'.bitcnt = tx.bitcnt
      /\ tx'.shift = Ror0(Ror0(moved)) /\ tx'.carry = (0 \in Ror0(moved))
      /\ tx' = [shift |-> tx'.shift, x2 |-> tx'.x2, carry |-> tx'.carry, bitcnt |-> tx'.bitcnt,
                cnt |-> tx'.cnt, line |-> tx'.line]
      /\ txpc' = "seven"
  BY <1>2, <1>5, <1>6, <1>7, <1>8 DEF bitstuff6, SendTypeOK
<1>10. tx'.line = sent'.line
  BY <1>3, <1>9 DEF LineInv, Level
<1>11. time' \in [bits : Nat, cycles : Nat, due : 10 .. 12]
  BY <1>2 DEF bitstuff6, Out, SendTypeOK
<1>12. SendTypeOK'
  <2>1. (0 \in Ror0(moved)) \in BOOLEAN
    OBVIOUS
  <2>2. tx'.carry \in BOOLEAN
    BY <1>9, <2>1, Zenon
  <2> QED BY <1>2, <1>3, <1>6, <1>9, <1>10, <1>11, <2>2 DEF SendTypeOK
<1>13. Where'
  BY <1>2, <1>3, <1>6, <1>9 DEF Where
<1>14. EndsWith(tx'.x2, 0)
  BY <1>9 DEF EndsWith, Bits
<1>15. History'
  BY <1>3, <1>14 DEF History
<1> QED BY <1>10, <1>12, <1>13, <1>15 DEF LineInv

\* Bit 7, or the bit stuffed behind it, and the byte that comes next.
LEMMA Bit7Line ==
  ASSUME LineInv, didStuff7
  PROVE  LineInv'
<1> DEFINE x2 == Ror(tx.x2, tx.carry)
<1>1. \/ ~MustStuff(sent) /\ sent.n = 7 /\ sent.n % 8 = 7 /\ (tx.carry <=> 7 \in byte)
      \/ MustStuff(sent) /\ sent.n = 8 /\ ~tx.carry /\ tx.x2 = {}
  <2>1. txpc = "seven" /\ Where
    BY DEF LineInv, didStuff7
  <2>2. \/ ~MustStuff(sent) /\ sent.n = 7 /\ (tx.carry <=> 7 \in byte)
        \/ MustStuff(sent) /\ sent.n = 8 /\ ~tx.carry /\ tx.x2 = {}
    BY <2>1, Zenon DEF Where
  <2>3. sent.n = 7 => sent.n % 8 = 7
    OBVIOUS
  <2> QED BY <2>2, <2>3, Zenon
<1>2. SendTypeOK /\ Standard
  BY DEF LineInv, didStuff7
<1>3. x2 = (IF tx.carry THEN Ror1(tx.x2) ELSE Ror0(tx.x2))
  <2>1. tx.carry \in BOOLEAN
    BY <1>2 DEF SendTypeOK
  <2>2. CASE tx.carry
    BY <2>2 DEF Ror, Ror1
  <2>3. CASE ~tx.carry
    BY <2>3 DEF Ror, Ror0
  <2> QED BY <2>1, <2>2, <2>3
<1>4. /\ SixOnes(x2) <=> MustStuff(sent)'
      /\ ~SixOnes(x2) => EndsWith(x2, sent'.ones)
      /\ x2 \in SUBSET Bits
  <2>1. CASE ~MustStuff(sent)
    BY <1>1, <1>2, <1>3, <2>1, StuffsRight
  <2>2. CASE MustStuff(sent)
    <3>1. x2 = {}
      BY <1>1, <2>2 DEF Ror
    <3>2. sent'.ones = 0
      BY <1>2, <2>2, StandardBit
    <3> QED BY <3>1, <3>2 DEF EndsWith, SixOnes, MustStuff, Bits
  <2> QED BY <2>1, <2>2
<1>5. /\ sent'.n = 8 /\ sent' \in [line : Levels, ones : 0 .. 6, n : 0 .. 8]
      /\ tx.carry => sent'.line = sent.line
      /\ ~tx.carry => sent'.line = Toggled(sent.line)
  BY <1>1, <1>2, StandardBit
<1>6. tx.carry \in BOOLEAN /\ tx.shift \in SUBSET Bits
  BY <1>2 DEF SendTypeOK
<1>7. tx'.line = Level(~tx.carry) /\ tx'.x2 = (IF SixOnes(x2) THEN {} ELSE x2)
  <2>1. CASE SixOnes(x2)
    BY <1>2, <2>1 DEF didStuff7, SendTypeOK
  <2>2. CASE ~SixOnes(x2) /\ MoreBytes
    BY <1>2, <2>2 DEF didStuff7, SendTypeOK
  <2>3. CASE ~SixOnes(x2) /\ ~MoreBytes
    BY <1>2, <2>3 DEF didStuff7, SendTypeOK
  <2> QED BY <2>1, <2>2, <2>3
<1>8. tx'.line = sent'.line
  BY <1>5, <1>6, <1>7 DEF LineInv, Level
<1>9. History'
  BY <1>4, <1>5, <1>7 DEF History
<1>10. time' \in [bits : Nat, cycles : Nat, due : 10 .. 12]
  <2>1. \E cycles \in 10 .. 12 : Out(cycles)
    <3>1. Out(10) \/ Out(11) \/ Out(12)
      BY Zenon DEF didStuff7
    <3> QED BY <3>1
  <2> QED BY <1>2, <2>1 DEF Out, SendTypeOK
<1>11. CASE SixOnes(x2)
  <2>1. /\ txpc' = "seven" /\ byte' = byte
        /\ tx'.carry = FALSE /\ tx'.x2 = {}
        /\ tx' = [shift |-> tx.shift, x2 |-> {}, carry |-> FALSE, bitcnt |-> tx.bitcnt,
                  cnt |-> tx.cnt, line |-> tx'.line]
    BY <1>2, <1>11 DEF didStuff7, SendTypeOK
  <2>2. /\ {} \in SUBSET Bits /\ tx'.line \in Levels
        /\ tx.shift \in SUBSET Bits /\ tx.bitcnt \in 0 .. 53 /\ tx.cnt \in 0 .. 12
    BY <1>2, <1>5, <1>8 DEF SendTypeOK
  <2>3. tx' \in [shift : SUBSET Bits, x2 : SUBSET Bits, carry : BOOLEAN, bitcnt : 0 .. 53,
                cnt : 0 .. 12, line : Levels]
    <3>1. PICK level \in Levels : tx'.line = level
      BY <2>2
    <3>2. tx' = [shift |-> tx.shift, x2 |-> {}, carry |-> FALSE, bitcnt |-> tx.bitcnt,
                 cnt |-> tx.cnt, line |-> level]
      BY <2>1, <3>1, Zenon
    <3> QED BY <2>2, <3>2
  <2>4. SendTypeOK'
    BY <1>2, <1>5, <1>10, <2>1, <2>3 DEF SendTypeOK
  <2>5. Where'
    BY <1>4, <1>5, <1>11, <2>1 DEF Where
  <2> QED BY <1>8, <1>9, <2>4, <2>5 DEF LineInv
<1>12. CASE ~SixOnes(x2) /\ MoreBytes
  <2>1. PICK next \in Messages :
          /\ txpc' = "bit" /\ byte' = next
          /\ tx'.shift = next /\ tx'.bitcnt = 53
          /\ tx' = [shift |-> next, x2 |-> x2, carry |-> tx.carry, bitcnt |-> 53,
                    cnt |-> tx.cnt - 1, line |-> tx'.line]
    BY <1>2, <1>12 DEF didStuff7, SendTypeOK
  <2>2. next \in SUBSET Bits
    BY SendAssumption
  <2>3. tx.cnt - 1 \in 0 .. 12
    BY <1>2, <1>12 DEF SendTypeOK, MoreBytes
  <2>4. SendTypeOK'
    BY <1>2, <1>4, <1>5, <1>6, <1>8, <1>10, <2>1, <2>2, <2>3 DEF SendTypeOK
  <2>5. InByte' = 0 /\ Shifts(0)' /\ Turn(0, tx'.bitcnt)
    BY <1>5, <2>1, <2>2 DEF InByte, Shifts, Turn, Bits
  <2>6. Where'
    BY <1>4, <1>5, <1>12, <2>1, <2>5 DEF Where
  <2> QED BY <1>8, <1>9, <2>4, <2>6 DEF LineInv
<1>13. CASE ~SixOnes(x2) /\ ~MoreBytes
  <2>1. /\ txpc' = "SE0" /\ byte' = byte
        /\ tx' = [shift |-> tx.shift, x2 |-> x2, carry |-> tx.carry, bitcnt |-> tx.bitcnt,
                  cnt |-> 0, line |-> tx'.line]
    BY <1>2, <1>13 DEF didStuff7, SendTypeOK
  <2>2. SendTypeOK'
    BY <1>2, <1>4, <1>5, <1>6, <1>8, <1>10, <2>1 DEF SendTypeOK
  <2>3. Where'
    BY <1>4, <1>5, <1>13, <2>1 DEF Where
  <2> QED BY <1>8, <1>9, <2>2, <2>3 DEF LineInv
<1> QED BY <1>11, <1>12, <1>13

\* What a packet starts from.
LEMMA SendInitInv == SendInit => SendInv
<1> SUFFICES ASSUME SendInit PROVE SendInv
  OBVIOUS
<1>1. PICK x2 \in SUBSET Bits, cnt \in Lengths :
        tx = [shift |-> Sync, x2 |-> x2, carry |-> FALSE, bitcnt |-> 53, cnt |-> cnt, line |-> "J"]
  BY DEF SendInit
<1>2. /\ txpc = "bit" /\ byte = Sync /\ sent = [line |-> "J", ones |-> 0, n |-> 0]
      /\ time = [bits |-> 0, cycles |-> 0, due |-> 10]
  BY DEF SendInit
<1>3. Sync \in SUBSET Bits /\ cnt \in 2 .. 12
  BY SendAssumption DEF Sync, Bits
<1>4. InByte = 0 /\ Shifts(0) /\ Turn(0, tx.bitcnt) /\ ~MustStuff(sent)
  BY <1>1, <1>2, <1>3 DEF InByte, Shifts, Turn, MustStuff, Bits
<1>5. SendTypeOK
  BY <1>1, <1>2, <1>3 DEF SendTypeOK, Levels
<1>6. LineInv
  BY <1>1, <1>2, <1>4, <1>5 DEF LineInv, Where, History
<1>7. Timed(cnt)
  BY <1>1, <1>2, <1>3, <1>4 DEF Timed, StuffedBits, DataBits
<1> QED BY <1>6, <1>7 DEF SendInv
-----------------------------------------------------------------------------
\* A bit of a byte comes as many cycles later as its place says.
LEMMA PaceOfBit ==
  ASSUME NEW length \in Lengths, SendTypeOK, Timed(length), ~MustStuff(sent), txpc # "SE0",
         NEW due \in 10 .. 12, Out(due),
         DataBits(length)' = DataBits(length) + 1, DataBits(length) \in Nat,
         sent'.n # 0, tx'.cnt \in 0 .. length, txpc' = "SE0" <=> tx'.cnt = 0,
         sent.n = 0 => Cycles(length, InByte) = 0 /\ DataBits(length) = 0,
         Cycles(length, InByte) \in Int, Cycles(length, InByte)' \in Int,
         IF MustStuff(sent)'
         THEN due = 11 /\ Cycles(length, InByte - 1)' = Cycles(length, InByte)
         ELSE Cycles(length, InByte)' + (IF txpc' = "SE0" THEN 2 ELSE 0)
              = Cycles(length, InByte) + due
  PROVE  Timed(length)'
<1>1. time.bits \in Nat /\ time.cycles \in Nat /\ time.due \in 10 .. 12
  BY DEF SendTypeOK
<1>2. /\ time'.bits = time.bits + 1 /\ time'.due = due
      /\ time'.cycles = IF time.bits = 0 THEN 0 ELSE time.cycles + time.due
  BY DEF Out
<1> DEFINE s == StuffedBits(length)
<1>3. s \in Int /\ s = time.bits - DataBits(length) /\ StuffedBits(length)' = s
  BY <1>1, <1>2 DEF StuffedBits
<1>4. s >= 0 /\ s <= DataBits(length)
  BY DEF Timed
<1>5. time'.cycles = Cycles(length, InByte) + 11 * s
  <2>1. CASE time.bits = 0
    <3>1. sent.n = 0
      BY <2>1 DEF Timed
    <3> QED BY <1>2, <1>3, <2>1, <3>1
  <2>2. CASE time.bits # 0
    <3>1. time.cycles + time.due = Cycles(length, InByte) + 11 * s
      BY <1>1, <1>3, <2>2 DEF Timed
    <3> QED BY <1>2, <2>2, <3>1
  <2> QED BY <2>1, <2>2
<1>6. time'.bits # 0 /\ sent'.n # 0
  BY <1>1, <1>2
<1>7. CASE MustStuff(sent)'
  <2>1. StuffedBits(length)' < DataBits(length)'
    BY <1>3, <1>4
  <2>2. time'.cycles + time'.due = Cycles(length, InByte - 1)' + 11 * (StuffedBits(length)' + 1)
    BY <1>2, <1>3, <1>5, <1>7
  <2> QED BY <1>3, <1>4, <1>6, <1>7, <2>1, <2>2 DEF Timed
<1>8. CASE ~MustStuff(sent)'
  <2>1. StuffedBits(length)' <= DataBits(length)'
    BY <1>3, <1>4
  <2>2. time'.cycles + time'.due
          = Cycles(length, InByte)' + 11 * StuffedBits(length)' + (IF txpc' = "SE0" THEN 2 ELSE 0)
    BY <1>2, <1>3, <1>5, <1>8
  <2> QED BY <1>3, <1>4, <1>6, <1>8, <2>1, <2>2 DEF Timed
<1> QED BY <1>7, <1>8

\* So does a stuffed bit, in the place of the bit behind it.
LEMMA PaceOfStuffed ==
  ASSUME NEW length \in Lengths, SendTypeOK, Timed(length), MustStuff(sent), ~MustStuff(sent)',
         NEW due \in 10 .. 12, Out(due),
         DataBits(length)' = DataBits(length), DataBits(length) \in Nat,
         sent.n # 0, sent'.n # 0, tx'.cnt \in 0 .. length, txpc' = "SE0" <=> tx'.cnt = 0,
         Cycles(length, InByte - 1) \in Int, Cycles(length, InByte)' \in Int,
         Cycles(length, InByte)' + (IF txpc' = "SE0" THEN 2 ELSE 0)
           = Cycles(length, InByte - 1) + due
  PROVE  Timed(length)'
<1>1. time.bits \in Nat /\ time.cycles \in Nat /\ time.due \in 10 .. 12 /\ time.bits # 0
  BY DEF SendTypeOK, Timed
<1>2. /\ time'.bits = time.bits + 1 /\ time'.due = due /\ time'.cycles = time.cycles + time.due
  BY <1>1 DEF Out
<1> DEFINE s == StuffedBits(length)
<1>3. s \in Int /\ StuffedBits(length)' = s + 1
  BY <1>1, <1>2 DEF StuffedBits
<1>4. s >= 0 /\ s < DataBits(length) /\ time.cycles + time.due = Cycles(length, InByte - 1) + 11 * (s + 1)
  BY DEF Timed
<1>5. StuffedBits(length)' <= DataBits(length)'
  BY <1>3, <1>4
<1>6. time'.cycles + time'.due
        = Cycles(length, InByte)' + 11 * StuffedBits(length)' + (IF txpc' = "SE0" THEN 2 ELSE 0)
  BY <1>2, <1>3, <1>4
<1>7. time'.bits # 0
  BY <1>1, <1>2
<1> QED BY <1>3, <1>4, <1>5, <1>6, <1>7 DEF Timed

\* Where bits are stuffed, and how far in its byte the code is.
Placed ==
  /\ txpc = "bit" => ~MustStuff(sent) /\ InByte \in 0 .. 5 /\ InByte = sent.n % 8 /\ Turn(InByte, tx.bitcnt)
  /\ txpc = "bitstuffN" =>
       MustStuff(sent) /\ InByte = sent.n /\ sent.n \in 1 .. 6 /\ Turn(sent.n - 1, tx.bitcnt)
  /\ txpc = "six" => ~MustStuff(sent) /\ InByte = 6 /\ sent.n = 6
  /\ txpc = "bitstuff6" => MustStuff(sent) /\ InByte = 7 /\ sent.n = 7
  /\ txpc = "seven" => InByte = sent.n /\ sent.n \in {7, 8} /\ (MustStuff(sent) <=> sent.n = 8)
  /\ txpc = "SE0" => ~MustStuff(sent) /\ InByte = 0
  /\ InByte \in 0 .. 8 /\ sent.n \in 0 .. 8
  /\ sent.n = 0 => InByte = 0

\* The invariant says so.
LEMMA Places == LineInv => Placed
<1> SUFFICES ASSUME LineInv PROVE Placed
  OBVIOUS
<1>1. Where /\ sent.n \in 0 .. 8 /\ 8 % 8 = 0 /\ 0 % 8 = 0
  BY DEF LineInv, SendTypeOK
<1>2. CASE txpc = "bit"
  BY <1>1, <1>2 DEF Where, InByte, Placed
<1>3. CASE txpc = "bitstuffN"
  BY <1>1, <1>3 DEF Where, InByte, Placed
<1>4. CASE txpc \in {"six", "bitstuff6", "SE0"}
  BY <1>1, <1>4 DEF Where, InByte, Placed
<1>5. CASE txpc = "seven"
  <2>1. (~MustStuff(sent) /\ sent.n = 7) \/ (MustStuff(sent) /\ sent.n = 8)
    BY <1>1, <1>5, Zenon DEF Where
  <2> QED BY <1>1, <1>5, <2>1 DEF InByte, Placed
<1> QED BY <1>1, <1>2, <1>3, <1>4, <1>5 DEF LineInv, SendTypeOK, Placed

\* It does so in the next state.
LEMMA PlacesNext == LineInv' => Placed'
BY Places, PTL

\* 10 or 11 cycles for each bit, 84 for a byte.
LEMMA BitTable ==
  /\ BitCycles(0) = 0 /\ BitCycles(5) = 53 /\ BitCycles(6) = 63 /\ BitCycles(7) = 74 /\ BitCycles(8) = 84
  /\ \A m \in 0 .. 8 : BitCycles(m) \in Nat
BY DEF BitCycles

\* Counts of a packet are numbers.
LEMMA Numbers ==
  ASSUME LineInv, NEW length \in Lengths, Timed(length)
  PROVE  /\ tx.cnt \in 0 .. length /\ length \in 2 .. 12
         /\ InByte \in 0 .. 8 /\ DataBits(length) \in Nat /\ Cycles(length, InByte) \in Int
         /\ InByte # 0 => Cycles(length, InByte - 1) \in Int
         /\ sent.n = 0 => Cycles(length, InByte) = 0 /\ DataBits(length) = 0
<1>1. InByte \in 0 .. 8 /\ (sent.n = 0 => InByte = 0)
  BY Places DEF Placed
<1>2. tx.cnt \in 0 .. length /\ length \in 2 .. 12 /\ (sent.n = 0 => tx.cnt = length)
  BY SendAssumption DEF Timed
<1>3. BitCycles(InByte) \in Nat /\ (InByte # 0 => BitCycles(InByte - 1) \in Nat)
  BY <1>1, BitTable
<1> QED BY <1>1, <1>2, <1>3, BitTable DEF DataBits, Cycles

\* The loop.
LEMMA BitLoopTime ==
  ASSUME LineInv, LineInv', txBitLoop, NEW length \in Lengths, Timed(length)
  PROVE  Timed(length)'
<1> DEFINE stuffs == SixOnes(Ror(tx.x2, 0 \in tx.shift))
<1>1. /\ SendTypeOK /\ Standard /\ txpc = "bit" /\ ~MustStuff(sent)
      /\ InByte \in 0 .. 5 /\ InByte = sent.n % 8 /\ Turn(InByte, tx.bitcnt)
  BY Places DEF LineInv, txBitLoop, Placed
<1>2. sent'.n = InByte + 1
  BY <1>1, StandardBit
<1>3. tx'.cnt = tx.cnt
  BY <1>1 DEF txBitLoop, SendTypeOK
<1>4. /\ tx.cnt \in 0 .. length /\ length \in 2 .. 12 /\ DataBits(length) \in Nat
      /\ Cycles(length, InByte) \in Int /\ tx.cnt # 0
      /\ sent.n = 0 => Cycles(length, InByte) = 0 /\ DataBits(length) = 0
  BY <1>1, Numbers DEF Timed
<1>5. LoopCycles \in 10 .. 12 /\ BitCycles(InByte + 1) = BitCycles(InByte) + LoopCycles
      /\ (LoopGoesOn <=> InByte < 5)
  BY <1>1, Turns DEF LoopCycles
<1>6. BitCycles(InByte) \in Nat /\ BitCycles(InByte + 1) \in Nat
  BY <1>1, BitTable
<1>7. CASE stuffs
  <2>1. txpc' = "bitstuffN" /\ Out(11)
    BY <1>7 DEF txBitLoop
  <2>2. InByte' = InByte + 1 /\ MustStuff(sent)'
    BY <1>2, <2>1, PlacesNext DEF Placed
  <2>3. InByte' - 1 = InByte
    BY <1>1, <2>2
  <2>4. DataBits(length)' = DataBits(length) + 1 /\ Cycles(length, InByte - 1)' = Cycles(length, InByte)
        /\ Cycles(length, InByte)' \in Int
    BY <1>1, <1>3, <1>4, <1>6, <2>2, <2>3 DEF DataBits, Cycles
  <2> QED BY <1>1, <1>2, <1>3, <1>4, <2>1, <2>2, <2>4, PaceOfBit
<1>8. CASE ~stuffs
  <2>1. txpc' = (IF InByte < 5 THEN "bit" ELSE "six") /\ Out(LoopCycles)
    BY <1>5, <1>8 DEF txBitLoop, AfterBit
  <2>2. InByte' = InByte + 1 /\ ~MustStuff(sent)'
    <3>1. InByte < 5 => sent'.n % 8 = InByte + 1
      BY <1>1, <1>2
    <3> QED BY <1>1, <1>2, <2>1, <3>1, PlacesNext DEF Placed
  <2>3. DataBits(length)' = DataBits(length) + 1
        /\ Cycles(length, InByte)' = Cycles(length, InByte) + LoopCycles /\ Cycles(length, InByte)' \in Int
    BY <1>1, <1>3, <1>4, <1>5, <1>6, <2>2 DEF DataBits, Cycles
  <2> QED BY <1>1, <1>2, <1>3, <1>4, <1>5, <2>1, <2>2, <2>3, PaceOfBit
<1> QED BY <1>7, <1>8

\* The stuffed bit in the loop.
LEMMA BitstuffNTime ==
  ASSUME LineInv, LineInv', bitstuffN, NEW length \in Lengths, Timed(length)
  PROVE  Timed(length)'
<1>1. PICK m \in 0 .. 5 :
        /\ txpc = "bitstuffN" /\ MustStuff(sent)
        /\ sent.n = m + 1 /\ InByte = m + 1 /\ InByte - 1 = m /\ Turn(m, tx.bitcnt)
  <2>1. txpc = "bitstuffN" /\ MustStuff(sent) /\ sent.n \in 1 .. 6 /\ InByte = sent.n
        /\ Turn(sent.n - 1, tx.bitcnt)
    BY Places DEF bitstuffN, Placed
  <2>2. sent.n - 1 \in 0 .. 5 /\ sent.n = (sent.n - 1) + 1
    BY <2>1
  <2> QED BY <2>1, <2>2
<1>2. SendTypeOK /\ sent'.n = m + 1 /\ sent.n # 0
  BY <1>1, StandardBit DEF LineInv, bitstuffN
<1>3. tx'.cnt = tx.cnt
  BY <1>2 DEF bitstuffN, SendTypeOK
<1>4. /\ tx.cnt \in 0 .. length /\ length \in 2 .. 12 /\ DataBits(length) \in Nat
      /\ Cycles(length, InByte - 1) \in Int /\ tx.cnt # 0
  BY <1>1, Numbers DEF Timed
<1>5. LoopCycles \in 10 .. 12 /\ BitCycles(m + 1) = BitCycles(m) + LoopCycles /\ (LoopGoesOn <=> m < 5)
  BY <1>1, Turns DEF LoopCycles
<1>6. BitCycles(m) \in Nat /\ BitCycles(m + 1) \in Nat
  BY <1>1, BitTable
<1>7. txpc' = (IF m < 5 THEN "bit" ELSE "six") /\ Out(LoopCycles)
  BY <1>5 DEF bitstuffN, AfterBit
<1>8. InByte' = m + 1 /\ ~MustStuff(sent)'
  BY <1>2, <1>7, PlacesNext DEF Placed
<1>9. DataBits(length)' = DataBits(length) /\ Cycles(length, InByte)' \in Int
      /\ Cycles(length, InByte)' = Cycles(length, InByte - 1) + LoopCycles
  BY <1>1, <1>3, <1>4, <1>5, <1>6, <1>8 DEF DataBits, Cycles
<1> QED BY <1>1, <1>2, <1>3, <1>4, <1>5, <1>7, <1>8, <1>9, PaceOfStuffed

\* Bit 6.
LEMMA Bit6Time ==
  ASSUME LineInv, LineInv', didStuff6, NEW length \in Lengths, Timed(length)
  PROVE  Timed(length)'
<1>1. /\ SendTypeOK /\ Standard /\ txpc = "six" /\ ~MustStuff(sent) /\ InByte = 6 /\ sent.n = 6
      /\ Out(11) /\ txpc' \in {"bitstuff6", "seven"}
  BY Places DEF LineInv, didStuff6, Placed
<1>2. sent'.n = 7
  <2>1. sent'.n = (sent.n % 8) + 1
    BY <1>1, StandardBit
  <2> QED BY <1>1, <2>1
<1>3. tx'.cnt = tx.cnt
  <2>1. CASE SixOnes(Ror(tx.x2, 0 \in tx.shift))
    BY <1>1, <2>1 DEF didStuff6, SendTypeOK
  <2>2. CASE ~SixOnes(Ror(tx.x2, 0 \in tx.shift))
    BY <1>1, <2>2 DEF didStuff6, SendTypeOK
  <2> QED BY <2>1, <2>2
<1>4. /\ tx.cnt \in 0 .. length /\ length \in 2 .. 12 /\ DataBits(length) \in Nat
      /\ Cycles(length, InByte) \in Int /\ tx.cnt # 0
  BY <1>1, Numbers DEF Timed
<1>5. InByte' = 7 /\ (MustStuff(sent)' <=> txpc' = "bitstuff6")
  BY <1>1, <1>2, PlacesNext DEF Placed
<1>6. /\ DataBits(length)' = DataBits(length) + 1
      /\ Cycles(length, InByte)' = Cycles(length, InByte) + 11 /\ Cycles(length, InByte)' \in Int
      /\ Cycles(length, InByte - 1)' = Cycles(length, InByte)
  <2>1. (InByte - 1)' = 6
    BY <1>5
  <2> QED BY <1>1, <1>3, <1>4, <1>5, <2>1, BitTable DEF DataBits, Cycles
<1> QED BY <1>1, <1>2, <1>3, <1>4, <1>5, <1>6, PaceOfBit

\* The bit stuffed behind bit 6.
LEMMA Bitstuff6Time ==
  ASSUME LineInv, LineInv', bitstuff6, NEW length \in Lengths, Timed(length)
  PROVE  Timed(length)'
<1>1. /\ SendTypeOK /\ Standard /\ txpc = "bitstuff6" /\ MustStuff(sent) /\ InByte = 7 /\ sent.n = 7
      /\ Out(11) /\ txpc' = "seven"
  BY Places DEF LineInv, bitstuff6, Placed
<1>2. sent'.n = 7
  BY <1>1, StandardBit
<1>3. tx'.cnt = tx.cnt
  BY <1>1 DEF bitstuff6, SendTypeOK
<1>4. /\ tx.cnt \in 0 .. length /\ length \in 2 .. 12 /\ DataBits(length) \in Nat
      /\ Cycles(length, InByte - 1) \in Int /\ tx.cnt # 0
  BY <1>1, Numbers DEF Timed
<1>5. InByte' = 7 /\ ~MustStuff(sent)'
  BY <1>1, <1>2, PlacesNext DEF Placed
<1>6. /\ DataBits(length)' = DataBits(length)
      /\ Cycles(length, InByte)' = Cycles(length, InByte - 1) + 11 /\ Cycles(length, InByte)' \in Int
  <2>1. InByte - 1 = 6
    BY <1>1
  <2> QED BY <1>1, <1>3, <1>4, <1>5, <2>1, BitTable DEF DataBits, Cycles
<1> QED BY <1>1, <1>2, <1>3, <1>4, <1>5, <1>6, PaceOfStuffed

\* Bit 7, the bit stuffed behind it, and the end of the packet.
LEMMA Bit7Time ==
  ASSUME LineInv, LineInv', didStuff7, NEW length \in Lengths, Timed(length)
  PROVE  Timed(length)'
<1> DEFINE stuffs == SixOnes(Ror(tx.x2, tx.carry))
<1>1. /\ SendTypeOK /\ Standard /\ txpc = "seven" /\ InByte = sent.n /\ sent.n \in {7, 8}
      /\ MustStuff(sent) <=> sent.n = 8
  BY Places DEF LineInv, didStuff7, Placed
<1>2. sent'.n = 8
  <2>1. CASE sent.n = 7
    <3>1. sent'.n = (sent.n % 8) + 1
      BY <1>1, <2>1, StandardBit
    <3> QED BY <2>1, <3>1
  <2>2. CASE sent.n = 8
    BY <1>1, <2>2, StandardBit
  <2> QED BY <1>1, <2>1, <2>2
<1>3. /\ tx.cnt \in 0 .. length /\ length \in 2 .. 12 /\ DataBits(length) \in Nat
      /\ Cycles(length, InByte) \in Int /\ Cycles(length, InByte - 1) \in Int /\ tx.cnt # 0
  BY <1>1, Numbers DEF Timed
<1>4. CASE stuffs
  <2>1. txpc' = "seven" /\ Out(11) /\ tx'.cnt = tx.cnt
    BY <1>1, <1>4 DEF didStuff7, SendTypeOK
  <2>2. InByte' = 8 /\ MustStuff(sent)'
    BY <1>2, <2>1, PlacesNext DEF Placed
  <2>3. sent.n = 7
    <3>1. ASSUME MustStuff(sent) PROVE FALSE
      <4>1. sent'.ones = 0
        BY <1>1, <3>1, StandardBit
      <4> QED BY <2>2, <4>1 DEF MustStuff
    <3> QED BY <1>1, <3>1
  <2>4. /\ DataBits(length)' = DataBits(length) + 1 /\ Cycles(length, InByte)' \in Int
        /\ Cycles(length, InByte - 1)' = Cycles(length, InByte)
    <3>1. (InByte - 1)' = 7 /\ InByte = 7
      BY <1>1, <2>2, <2>3
    <3> QED BY <1>3, <2>1, <2>2, <2>3, <3>1, BitTable DEF DataBits, Cycles
  <2> QED BY <1>1, <1>2, <1>3, <2>1, <2>2, <2>3, <2>4, PaceOfBit
<1>5. CASE ~stuffs
  <2>1. PICK due \in 10 .. 12 :
          /\ Out(due) /\ due = 10 + (IF txpc' = "SE0" THEN 2 ELSE 0)
          /\ txpc' \in {"bit", "SE0"} /\ (txpc' = "SE0" <=> tx.cnt = 1) /\ tx'.cnt = tx.cnt - 1
    <3>1. CASE MoreBytes
      <4>1. txpc' = "bit" /\ Out(10) /\ tx'.cnt = tx.cnt - 1
        BY <1>1, <1>5, <3>1 DEF didStuff7, SendTypeOK
      <4>2. tx.cnt # 1
        BY <1>3, <3>1 DEF MoreBytes
      <4> QED BY <4>1, <4>2
    <3>2. CASE ~MoreBytes
      <4>1. tx.cnt = 1
        BY <1>3, <3>2 DEF MoreBytes
      <4>2. txpc' = "SE0" /\ Out(12) /\ tx'.cnt = 0
        BY <1>1, <1>5, <3>2 DEF didStuff7, SendTypeOK
      <4> QED BY <4>1, <4>2
    <3> QED BY <3>1, <3>2
  <2>2. tx'.cnt \in 0 .. length /\ (txpc' = "SE0" <=> tx'.cnt = 0)
    BY <1>3, <2>1
  <2>3. InByte' = 0 /\ ~MustStuff(sent)'
    <3>1. sent'.n % 8 = 0
      BY <1>2
    <3> QED BY <2>1, <3>1, PlacesNext DEF Placed
  <2>4. DataBits(length)' = 8 * (length - tx.cnt) + 8 /\ Cycles(length, InByte)' = 84 * (length - tx.cnt) + 84
        /\ Cycles(length, InByte)' \in Int
    <3>1. DataBits(length)' = 8 * (length - tx'.cnt) + 0 /\ Cycles(length, InByte)' = 84 * (length - tx'.cnt) + 0
      BY <2>3, BitTable DEF DataBits, Cycles
    <3>2. length - tx'.cnt = (length - tx.cnt) + 1
      BY <1>3, <2>1
    <3> QED BY <1>3, <2>2, <3>1, <3>2
  <2>6. CASE sent.n = 7
    <3>1. InByte = 7
      BY <1>1, <2>6
    <3>2. DataBits(length)' = DataBits(length) + 1 /\ Cycles(length, InByte)' = Cycles(length, InByte) + 10
      BY <1>3, <2>4, <3>1, BitTable DEF DataBits, Cycles
    <3>3. Cycles(length, InByte)' + (IF txpc' = "SE0" THEN 2 ELSE 0) = Cycles(length, InByte) + due
      BY <1>3, <2>1, <2>4, <3>2
    <3> QED BY <1>1, <1>2, <1>3, <2>1, <2>2, <2>3, <2>4, <2>6, <3>2, <3>3, PaceOfBit
  <2>7. CASE sent.n = 8
    <3>1. InByte = 8 /\ InByte - 1 = 7
      BY <1>1, <2>7
    <3>2. DataBits(length)' = DataBits(length) /\ Cycles(length, InByte)' = Cycles(length, InByte - 1) + 10
      BY <1>3, <2>4, <3>1, BitTable DEF DataBits, Cycles
    <3>3. Cycles(length, InByte)' + (IF txpc' = "SE0" THEN 2 ELSE 0) = Cycles(length, InByte - 1) + due
      BY <1>3, <2>1, <2>4, <3>2
    <3> QED BY <1>1, <1>2, <1>3, <2>1, <2>2, <2>3, <2>4, <2>7, <3>2, <3>3, PaceOfStuffed
  <2> QED BY <1>1, <2>6, <2>7
<1> QED BY <1>4, <1>5

\* Every step keeps the invariant.
LEMMA SendNextInv == SendInv /\ [SendNext]_sendVars => SendInv'
<1> SUFFICES ASSUME SendInv, [SendNext]_sendVars PROVE SendInv'
  OBVIOUS
<1>1. LineInv
  BY DEF SendInv
<1>2. PICK length \in Lengths : Timed(length)
  BY DEF SendInv
<1>3. CASE txBitLoop
  BY <1>1, <1>2, <1>3, BitLoopLine, BitLoopTime DEF SendInv
<1>4. CASE bitstuffN
  BY <1>1, <1>2, <1>4, BitstuffNLine, BitstuffNTime DEF SendInv
<1>5. CASE didStuff6
  BY <1>1, <1>2, <1>5, Bit6Line, Bit6Time DEF SendInv
<1>6. CASE bitstuff6
  BY <1>1, <1>2, <1>6, Bitstuff6Line, Bitstuff6Time DEF SendInv
<1>7. CASE didStuff7
  BY <1>1, <1>2, <1>7, Bit7Line, Bit7Time DEF SendInv
<1>8. CASE UNCHANGED sendVars
  <2>1. LineInv'
    BY <1>1, <1>8 DEF sendVars, LineInv, SendTypeOK, Where, History, Shifts, InByte
  <2>2. Timed(length)'
    BY <1>2, <1>8 DEF sendVars, Timed, StuffedBits, DataBits, Cycles, InByte
  <2> QED BY <2>1, <2>2 DEF SendInv
<1> QED BY <1>3, <1>4, <1>5, <1>6, <1>7, <1>8 DEF SendNext

\* The transmitter's variables keep their types, whatever is sent.
THEOREM SendTypes == SendSpec => []SendTypeOK
<1>1. SendInv => SendTypeOK
  BY DEF SendInv, LineInv
<1> QED BY <1>1, SendInitInv, SendNextInv, PTL DEF SendSpec

\* Whatever is sent, and wherever six 1s end in it, the line of usbSendAndReti is the
\* standard's.
THEOREM LineIsStandard == SendSpec => []LineStandard
<1>1. SendInv => LineStandard
  <2> SUFFICES ASSUME SendInv PROVE LineStandard
    OBVIOUS
  <2>1. LineInv /\ Placed
    BY Places DEF SendInv
  <2>2. ASSUME txpc = "SE0" PROVE sent.n = 8 /\ ~MustStuff(sent)
    BY <2>1, <2>2 DEF LineInv, Where
  <2>3. ASSUME txpc = "bit", tx.bitcnt = 53 PROVE sent.n \in {0, 8} /\ ~MustStuff(sent)
    <3>1. InByte = 0
      BY <2>1, <2>3 DEF Placed, Turn
    <3> QED BY <2>1, <2>3, <3>1 DEF Placed
  <2> QED BY <2>1, <2>2, <2>3 DEF LineStandard, LineInv
<1> QED BY <1>1, SendInitInv, SendNextInv, PTL DEF SendSpec

\* Whatever is sent, usbSendAndReti takes as long for it as it should within 1.5 %: the
\* packet is at most 12 bytes, and a stuffed bit has a bit before it.
THEOREM RateIsHeld == SendSpec => []RateHeld
<1>1. SendInv => RateHeld
  <2> SUFFICES ASSUME SendInv, txpc = "SE0"
               PROVE  LET due   == BitThirds * time.bits
                          taken == 3 * (time.cycles + time.due) IN
                      1000 * taken \in 985 * due .. 1015 * due
    BY DEF RateHeld
  <2>1. PICK length \in Lengths : Timed(length)
    BY DEF SendInv
  <2>2. ~MustStuff(sent) /\ InByte = 0 /\ tx.cnt = 0 /\ length \in 2 .. 12
    BY <2>1, Places, SendAssumption DEF SendInv, Placed, Timed
  <2>3. time.bits \in Nat /\ time.cycles \in Nat /\ time.due \in 10 .. 12
    BY DEF SendInv, LineInv, SendTypeOK
  <2> DEFINE s == StuffedBits(length)
  <2>4. DataBits(length) = 8 * length /\ Cycles(length, InByte) = 84 * length
    BY <2>2, BitTable DEF DataBits, Cycles
  <2>5. s \in Nat /\ time.bits = 8 * length + s /\ s <= 8 * length
    BY <2>1, <2>2, <2>3, <2>4 DEF StuffedBits, Timed
  <2>6. time.cycles + time.due = 84 * length + 11 * s + 2
    BY <2>1, <2>2, <2>3, <2>4, <2>5 DEF Timed
  <2> QED BY <2>2, <2>3, <2>5, <2>6 DEF BitThirds
<1> QED BY <1>1, SendInitInv, SendNextInv, PTL DEF SendSpec
-----------------------------------------------------------------------------
(***************************************************************************)
(* UsbCrc.                                                                 *)
(***************************************************************************)
Bits16 == 0 .. 15

\* The bits of the standard's register after one more bit.
Fed(r, fed, word, i) ==
  LET top == ~(15 \in r <=> i \in word) IN
  /\ fed \in SUBSET Bits16
  /\ 0 \in fed <=> top
  /\ 1 \in fed <=> 0 \in r
  /\ 2 \in fed <=> ~(1 \in r <=> top)
  /\ 3 \in fed <=> 2 \in r
  /\ 4 \in fed <=> 3 \in r
  /\ 5 \in fed <=> 4 \in r
  /\ 6 \in fed <=> 5 \in r
  /\ 7 \in fed <=> 6 \in r
  /\ 8 \in fed <=> 7 \in r
  /\ 9 \in fed <=> 8 \in r
  /\ 10 \in fed <=> 9 \in r
  /\ 11 \in fed <=> 10 \in r
  /\ 12 \in fed <=> 11 \in r
  /\ 13 \in fed <=> 12 \in r
  /\ 14 \in fed <=> 13 \in r
  /\ 15 \in fed <=> ~(14 \in r <=> top)

\* FeedBit moves the register, and turns the bits of the polynomial if the bits differ.
LEMMA FeedBitFed ==
  ASSUME NEW r \in SUBSET Bits16, NEW word, NEW i
  PROVE  Fed(r, FeedBit(r, word, i), word, i)
<1> DEFINE moved == {j + 1 : j \in r \ {15}}
<1>1. moved \in SUBSET Bits16 /\ 0 \notin moved
  <2>1. ASSUME NEW k \in r \ {15} PROVE k + 1 \in 1 .. 15
    BY DEF Bits16
  <2>2. \A j \in moved : j \in 1 .. 15
    BY <2>1
  <2> HIDE DEF moved
  <2> QED BY <2>2 DEF Bits16
<1>2. \A j \in 1 .. 15 : j \in moved <=> j - 1 \in r
  <2> SUFFICES ASSUME NEW j \in 1 .. 15 PROVE j \in moved <=> j - 1 \in r
    OBVIOUS
  <2>1. ASSUME j - 1 \in r PROVE j \in moved
    <3>1. j - 1 \in r \ {15} /\ j = (j - 1) + 1
      BY <2>1
    <3> QED BY <3>1
  <2>2. ASSUME j \in moved PROVE j - 1 \in r
    <3>1. PICK k \in r \ {15} : j = k + 1
      BY <2>2
    <3> QED BY <3>1 DEF Bits16
  <2> QED BY <2>1, <2>2
<1>3. CASE 15 \in r <=> i \in word
  <2>1. FeedBit(r, word, i) = moved
    BY <1>3 DEF FeedBit
  <2> HIDE DEF moved
  <2> QED BY <1>1, <1>2, <1>3, <2>1 DEF Fed
<1>4. CASE ~(15 \in r <=> i \in word)
  <2>1. FeedBit(r, word, i) = Xor(moved, {15, 2, 0})
    BY <1>4 DEF FeedBit
  <2> HIDE DEF moved
  <2>2. Xor(moved, {15, 2, 0}) \in SUBSET Bits16
    BY <1>1 DEF Xor, Bits16
  <2>3. \A j \in Bits16 : j \in Xor(moved, {15, 2, 0}) <=> ~(j \in moved <=> j \in {15, 2, 0})
    BY DEF Xor
  <2> QED BY <1>1, <1>2, <1>4, <2>1, <2>2, <2>3 DEF Fed, Bits16
<1> QED BY <1>3, <1>4

\* Whether an odd number of the bits of a byte are 1.
Odd(x) ==
  ~(~(~(0 \in x <=> 1 \in x) <=> ~(2 \in x <=> 3 \in x)) <=> ~(~(4 \in x <=> 5 \in x) <=> ~(6 \in x <=> 7 \in x)))

\* The two bytes of the code are the register, read from its other end.
Reads(r, low, high) == \A i \in Bits : (i \in low <=> 15 - i \in r) /\ (i \in high <=> 7 - i \in r)

\* The value of "table" in usbdrvasm.S, with the byte that moves down:
\* x << 6 ^ x << 7 ^ (parity of x ? 0xc001 : 0) ^ crc >> 8.
Table(x, high, low2, high2) ==
  /\ 0 \in low2 <=> ~(0 \in high <=> Odd(x))
  /\ \A i \in 1 .. 5 : i \in low2 <=> i \in high
  /\ 6 \in low2 <=> ~(6 \in high <=> 0 \in x)
  /\ 7 \in low2 <=> ~(7 \in high <=> ~(0 \in x <=> 1 \in x))
  /\ \A i \in 0 .. 5 : i \in high2 <=> ~(i + 1 \in x <=> i + 2 \in x)
  /\ 6 \in high2 <=> ~(7 \in x <=> Odd(x))
  /\ 7 \in high2 <=> Odd(x)

\* A byte fed to the register is a step of the table.
LEMMA FeedByte ==
  ASSUME NEW r \in SUBSET Bits16, NEW word,
         NEW x \in SUBSET Bits, NEW low \in SUBSET Bits, NEW high \in SUBSET Bits,
         NEW low2 \in SUBSET Bits, NEW high2 \in SUBSET Bits,
         Reads(r, low, high), Table(x, high, low2, high2),
         \A i \in Bits : i \in x <=> ~(i \in low <=> i \in word)
  PROVE  Reads(Feed(r, word), low2, high2) /\ Feed(r, word) \in SUBSET Bits16
<1> DEFINE r0 == r
           r1 == FeedBit(r0, word, 0)
           r2 == FeedBit(r1, word, 1)
           r3 == FeedBit(r2, word, 2)
           r4 == FeedBit(r3, word, 3)
           r5 == FeedBit(r4, word, 4)
           r6 == FeedBit(r5, word, 5)
           r7 == FeedBit(r6, word, 6)
           r8 == FeedBit(r7, word, 7)
<1>1. r0 \in SUBSET Bits16
  OBVIOUS
<1>2. Fed(r0, r1, word, 0) /\ r1 \in SUBSET Bits16
  <2> HIDE DEF r0
  <2> QED BY <1>1, FeedBitFed DEF Fed
<1>3. Fed(r1, r2, word, 1) /\ r2 \in SUBSET Bits16
  <2> HIDE DEF r1
  <2> QED BY <1>2, FeedBitFed DEF Fed
<1>4. Fed(r2, r3, word, 2) /\ r3 \in SUBSET Bits16
  <2> HIDE DEF r2
  <2> QED BY <1>3, FeedBitFed DEF Fed
<1>5. Fed(r3, r4, word, 3) /\ r4 \in SUBSET Bits16
  <2> HIDE DEF r3
  <2> QED BY <1>4, FeedBitFed DEF Fed
<1>6. Fed(r4, r5, word, 4) /\ r5 \in SUBSET Bits16
  <2> HIDE DEF r4
  <2> QED BY <1>5, FeedBitFed DEF Fed
<1>7. Fed(r5, r6, word, 5) /\ r6 \in SUBSET Bits16
  <2> HIDE DEF r5
  <2> QED BY <1>6, FeedBitFed DEF Fed
<1>8. Fed(r6, r7, word, 6) /\ r7 \in SUBSET Bits16
  <2> HIDE DEF r6
  <2> QED BY <1>7, FeedBitFed DEF Fed
<1>9. Fed(r7, r8, word, 7) /\ r8 \in SUBSET Bits16
  <2> HIDE DEF r7
  <2> QED BY <1>8, FeedBitFed DEF Fed
<1>10. Feed(r, word) = r8
  BY DEF Feed, FeedHalf
<1> HIDE DEF r0, r1, r2, r3, r4, r5, r6, r7, r8
<1>11. r0 = r
  BY DEF r0
<1>12. /\ 0 \in low <=> 15 \in r0
       /\ 1 \in low <=> 14 \in r0
       /\ 2 \in low <=> 13 \in r0
       /\ 3 \in low <=> 12 \in r0
       /\ 4 \in low <=> 11 \in r0
       /\ 5 \in low <=> 10 \in r0
       /\ 6 \in low <=> 9 \in r0
       /\ 7 \in low <=> 8 \in r0
  BY <1>11 DEF Reads, Bits
<1>13. /\ 0 \in high <=> 7 \in r0
       /\ 1 \in high <=> 6 \in r0
       /\ 2 \in high <=> 5 \in r0
       /\ 3 \in high <=> 4 \in r0
       /\ 4 \in high <=> 3 \in r0
       /\ 5 \in high <=> 2 \in r0
       /\ 6 \in high <=> 1 \in r0
       /\ 7 \in high <=> 0 \in r0
  BY <1>11 DEF Reads, Bits
<1>14. /\ 0 \in x <=> ~(0 \in low <=> 0 \in word)
       /\ 1 \in x <=> ~(1 \in low <=> 1 \in word)
       /\ 2 \in x <=> ~(2 \in low <=> 2 \in word)
       /\ 3 \in x <=> ~(3 \in low <=> 3 \in word)
       /\ 4 \in x <=> ~(4 \in low <=> 4 \in word)
       /\ 5 \in x <=> ~(5 \in low <=> 5 \in word)
       /\ 6 \in x <=> ~(6 \in low <=> 6 \in word)
       /\ 7 \in x <=> ~(7 \in low <=> 7 \in word)
  BY DEF Bits
<1>15. /\ 0 \in low2 <=> ~(0 \in high <=> Odd(x))
       /\ 1 \in low2 <=> 1 \in high
       /\ 2 \in low2 <=> 2 \in high
       /\ 3 \in low2 <=> 3 \in high
       /\ 4 \in low2 <=> 4 \in high
       /\ 5 \in low2 <=> 5 \in high
       /\ 6 \in low2 <=> ~(6 \in high <=> 0 \in x)
       /\ 7 \in low2 <=> ~(7 \in high <=> ~(0 \in x <=> 1 \in x))
       /\ 0 \in high2 <=> ~(1 \in x <=> 2 \in x)
       /\ 1 \in high2 <=> ~(2 \in x <=> 3 \in x)
       /\ 2 \in high2 <=> ~(3 \in x <=> 4 \in x)
       /\ 3 \in high2 <=> ~(4 \in x <=> 5 \in x)
       /\ 4 \in high2 <=> ~(5 \in x <=> 6 \in x)
       /\ 5 \in high2 <=> ~(6 \in x <=> 7 \in x)
       /\ 6 \in high2 <=> ~(7 \in x <=> Odd(x))
       /\ 7 \in high2 <=> Odd(x)
  BY DEF Table
<1>16. /\ 0 \in low2 <=> 15 \in r8
       /\ 1 \in low2 <=> 14 \in r8
       /\ 2 \in low2 <=> 13 \in r8
       /\ 3 \in low2 <=> 12 \in r8
       /\ 4 \in low2 <=> 11 \in r8
       /\ 5 \in low2 <=> 10 \in r8
       /\ 6 \in low2 <=> 9 \in r8
       /\ 7 \in low2 <=> 8 \in r8
       /\ 0 \in high2 <=> 7 \in r8
       /\ 1 \in high2 <=> 6 \in r8
       /\ 2 \in high2 <=> 5 \in r8
       /\ 3 \in high2 <=> 4 \in r8
       /\ 4 \in high2 <=> 3 \in r8
       /\ 5 \in high2 <=> 2 \in r8
       /\ 6 \in high2 <=> 1 \in r8
       /\ 7 \in high2 <=> 0 \in r8
  BY <1>1, <1>2, <1>3, <1>4, <1>5, <1>6, <1>7, <1>8, <1>9, <1>12, <1>13, <1>14, <1>15 DEF Odd, Fed
<1>17. Reads(r8, low2, high2)
  BY <1>16 DEF Reads, Bits
<1> QED BY <1>9, <1>10, <1>17

\* eor works bit by bit.
LEMMA XorBits ==
  ASSUME NEW a \in SUBSET Bits, NEW b \in SUBSET Bits
  PROVE  Xor(a, b) \in SUBSET Bits /\ \A i \in Bits : i \in Xor(a, b) <=> ~(i \in a <=> i \in b)
BY DEF Xor

\* The parity trick finds whether an odd number of bits is 1.
LEMMA ParityIsOdd ==
  ASSUME NEW x \in SUBSET Bits
  PROVE  Parity(x) <=> Odd(x)
<1> DEFINE swapped == {(i + 4) % 8 : i \in x}
           folded  == Xor(swapped, x)
           moved   == {i - 2 : i \in folded \ {0, 1}}
           twice   == Xor(moved, folded)
<1>1. swapped \in SUBSET Bits
  <2>1. ASSUME NEW i \in x PROVE (i + 4) % 8 \in Bits
    BY DEF Bits
  <2> QED BY <2>1
<1>2. \A i \in 0 .. 3 : i \in swapped <=> i + 4 \in x
  <2> SUFFICES ASSUME NEW i \in 0 .. 3 PROVE i \in swapped <=> i + 4 \in x
    OBVIOUS
  <2>1. ASSUME i + 4 \in x PROVE i \in swapped
    <3>1. ((i + 4) + 4) % 8 = i
      OBVIOUS
    <3> QED BY <2>1, <3>1
  <2>2. ASSUME i \in swapped PROVE i + 4 \in x
    <3>1. PICK j \in x : i = (j + 4) % 8
      BY <2>2
    <3>2. j \in 0 .. 7
      BY DEF Bits
    <3>3. j = i + 4
      BY <3>1, <3>2
    <3> QED BY <3>3
  <2> QED BY <2>1, <2>2
<1> HIDE DEF swapped
<1>3. folded \in SUBSET Bits /\ \A i \in Bits : i \in folded <=> ~(i \in swapped <=> i \in x)
  BY <1>1, XorBits
<1> HIDE DEF folded
<1>4. moved \in SUBSET Bits
  <2>1. ASSUME NEW i \in folded \ {0, 1} PROVE i - 2 \in Bits
    BY <1>3 DEF Bits
  <2> QED BY <2>1
<1>5. \A i \in 0 .. 1 : i \in moved <=> i + 2 \in folded
  <2> SUFFICES ASSUME NEW i \in 0 .. 1 PROVE i \in moved <=> i + 2 \in folded
    OBVIOUS
  <2>1. ASSUME i + 2 \in folded PROVE i \in moved
    <3>1. i + 2 \in folded \ {0, 1} /\ i = (i + 2) - 2
      BY <2>1
    <3> QED BY <3>1
  <2>2. ASSUME i \in moved PROVE i + 2 \in folded
    <3>1. PICK j \in folded \ {0, 1} : i = j - 2
      BY <2>2
    <3> QED BY <1>3, <3>1 DEF Bits
  <2> QED BY <2>1, <2>2
<1> HIDE DEF moved
<1>6. \A i \in Bits : i \in twice <=> ~(i \in moved <=> i \in folded)
  BY <1>3, <1>4, XorBits
<1>7. Parity(x) <=> ~(0 \in twice <=> 1 \in twice)
  BY DEF Parity, swapped, folded, moved
<1> HIDE DEF twice
<1>8. /\ 0 \in twice <=> ~(2 \in folded <=> 0 \in folded)
      /\ 1 \in twice <=> ~(3 \in folded <=> 1 \in folded)
  BY <1>5, <1>6 DEF Bits
<1>9. /\ 0 \in folded <=> ~(4 \in x <=> 0 \in x)
      /\ 1 \in folded <=> ~(5 \in x <=> 1 \in x)
      /\ 2 \in folded <=> ~(6 \in x <=> 2 \in x)
      /\ 3 \in folded <=> ~(7 \in x <=> 3 \in x)
  BY <1>2, <1>3 DEF Bits
<1> QED BY <1>7, <1>8, <1>9 DEF Odd

\* The code's registers are bytes, and together the standard's register.
CrcInv ==
  /\ resCrcL \in SUBSET Bits /\ resCrcH \in SUBSET Bits /\ check \in SUBSET Bits16
  /\ Reads(check, resCrcL, resCrcH)

\* The loop of the code is a step of the table.
LEMMA LoopIsTable ==
  ASSUME CrcInv, NEW data \in SUBSET Bits, usbCrc16ByteLoop(data)
  PROVE  /\ Table(Xor(data, resCrcL), resCrcH, resCrcL', resCrcH')
         /\ resCrcL' \in SUBSET Bits /\ resCrcH' \in SUBSET Bits
<1> DEFINE x       == Xor(data, resCrcL)
           scratch == Ror(x, Parity(x))
           ror     == Ror(IF Parity(x) THEN {1} ELSE {}, 0 \in x)
           twice   == Ror(ror, 0 \in scratch)
           half    == Ror(scratch, FALSE)
<1>1. x \in SUBSET Bits
  BY XorBits DEF CrcInv
<1>2. resCrcL' = Xor(Xor(ror, resCrcH), twice) /\ resCrcH' = Xor(scratch, half)
  BY DEF usbCrc16ByteLoop
<1> HIDE DEF x
<1>3. Parity(x) <=> Odd(x)
  BY <1>1, ParityIsOdd
<1>4. /\ scratch \in SUBSET Bits
      /\ \A i \in 0 .. 6 : i \in scratch <=> i + 1 \in x
      /\ 7 \in scratch <=> Odd(x)
  <2>1. scratch = IF Parity(x) THEN Ror1(x) ELSE Ror0(x)
    BY DEF Ror, Ror1, Ror0
  <2>2. 8 \notin x
    BY <1>1 DEF Bits
  <2> QED BY <1>1, <1>3, <2>1, <2>2, RorBits DEF Bits
<1>5. /\ ror \in SUBSET Bits
      /\ \A i \in 1 .. 6 : i \notin ror
      /\ 0 \in ror <=> Odd(x)
      /\ 7 \in ror <=> 0 \in x
  <2> DEFINE b == IF Parity(x) THEN {1} ELSE {}
  <2>1. b \in SUBSET Bits /\ (\A i \in Bits : i \in b <=> i = 1 /\ Odd(x)) /\ 8 \notin b
    BY <1>3 DEF Bits
  <2>2. ror = IF 0 \in x THEN Ror1(b) ELSE Ror0(b)
    BY DEF Ror, Ror1, Ror0
  <2> HIDE DEF b
  <2>3. /\ Ror1(b) \in SUBSET Bits /\ Ror0(b) \in SUBSET Bits
        /\ \A i \in Bits : i \in Ror1(b) <=> i + 1 \in b \/ i = 7
        /\ \A i \in Bits : i \in Ror0(b) <=> i + 1 \in b
    BY <2>1, RorBits
  <2> QED BY <2>1, <2>2, <2>3 DEF Bits
<1> HIDE DEF scratch, ror
<1>6. /\ twice \in SUBSET Bits
      /\ \A i \in 0 .. 5 : i \notin twice
      /\ 6 \in twice <=> 0 \in x
      /\ 7 \in twice <=> 1 \in x
  <2>1. twice = IF 0 \in scratch THEN Ror1(ror) ELSE Ror0(ror)
    BY DEF Ror, Ror1, Ror0
  <2>2. 8 \notin ror /\ (0 \in scratch <=> 1 \in x)
    BY <1>4, <1>5 DEF Bits
  <2>3. /\ Ror1(ror) \in SUBSET Bits /\ Ror0(ror) \in SUBSET Bits
        /\ \A i \in Bits : i \in Ror1(ror) <=> i + 1 \in ror \/ i = 7
        /\ \A i \in Bits : i \in Ror0(ror) <=> i + 1 \in ror
    BY <1>5, RorBits
  <2> QED BY <1>5, <2>1, <2>2, <2>3 DEF Bits
<1>7. /\ half \in SUBSET Bits
      /\ \A i \in 0 .. 6 : i \in half <=> i + 1 \in scratch
      /\ 7 \notin half
  <2>1. half = Ror0(scratch)
    BY DEF Ror, Ror0
  <2>2. 8 \notin scratch
    BY <1>4 DEF Bits
  <2> HIDE DEF half
  <2>3. /\ Ror0(scratch) \in SUBSET Bits
        /\ \A i \in Bits : i \in Ror0(scratch) <=> i + 1 \in scratch
    BY <1>4, RorBits
  <2> QED BY <2>1, <2>2, <2>3 DEF Bits
<1> HIDE DEF twice, half
<1>8. resCrcH \in SUBSET Bits
  BY DEF CrcInv
<1>9. resCrcL' \in SUBSET Bits /\ resCrcH' \in SUBSET Bits
  BY <1>2, <1>4, <1>5, <1>6, <1>7, <1>8, XorBits
<1>10. \A i \in Bits : i \in resCrcL' <=> ~(~(i \in ror <=> i \in resCrcH) <=> i \in twice)
  BY <1>2, <1>5, <1>6, <1>8, XorBits
<1>11. \A i \in Bits : i \in resCrcH' <=> ~(i \in scratch <=> i \in half)
  BY <1>2, <1>4, <1>7, XorBits
<1>12. Table(x, resCrcH, resCrcL', resCrcH')
  BY <1>4, <1>5, <1>6, <1>7, <1>10, <1>11 DEF Table, Bits
<1> QED BY <1>9, <1>12 DEF x

\* Every step keeps the registers together.
LEMMA CrcNextInv == CrcInv /\ [CrcNext]_crcVars => CrcInv'
<1> SUFFICES ASSUME CrcInv, [CrcNext]_crcVars PROVE CrcInv'
  OBVIOUS
<1>1. CASE UNCHANGED crcVars
  BY <1>1 DEF crcVars, CrcInv
<1>2. ASSUME NEW data \in Bytes, usbCrc16ByteLoop(data) PROVE CrcInv'
  <2>1. data \in SUBSET Bits
    BY CrcAssumption
  <2> DEFINE x == Xor(data, resCrcL)
  <2>2. x \in SUBSET Bits /\ \A i \in Bits : i \in x <=> ~(i \in resCrcL <=> i \in data)
    BY <2>1, XorBits DEF CrcInv
  <2>3. Table(x, resCrcH, resCrcL', resCrcH') /\ resCrcL' \in SUBSET Bits /\ resCrcH' \in SUBSET Bits
    BY <1>2, <2>1, LoopIsTable
  <2>4. check' = Feed(check, data)
    BY <1>2 DEF usbCrc16ByteLoop
  <2> HIDE DEF x
  <2> QED BY <2>2, <2>3, <2>4, FeedByte DEF CrcInv
<1> QED BY <1>1, <1>2 DEF CrcNext

\* All bits are 1 before the first byte.
LEMMA CrcInitInv == CrcInit => CrcInv
BY DEF CrcInit, CrcInv, Reads, Bits, Bits16

\* Behind the packet the inverted registers make the standard's register the residual: the
\* first leaves the CRC's upper half and one bit, the second the four bits.
LEMMA Residual ==
  ASSUME CrcInv
  PROVE  Feed(Feed(check, Bits \ resCrcL), Bits \ resCrcH) = {15, 3, 2, 0}
<1> DEFINE low == Xor(resCrcH, {6})
           rest == Bits \ {6}
           one == Feed(check, Bits \ resCrcL)
           two == Feed(one, Bits \ resCrcH)
<1>1. low \in SUBSET Bits /\ \A i \in Bits : i \in low <=> ~(i \in resCrcH <=> i = 6)
  BY DEF CrcInv, Xor, Bits
<1>2. Bits \in SUBSET Bits /\ {6} \in SUBSET Bits /\ {0} \in SUBSET Bits /\ {4, 5, 7} \in SUBSET Bits
      /\ rest \in SUBSET Bits
  BY DEF Bits
<1>3. ~Odd(Bits) /\ Odd(rest)
  BY DEF Odd, Bits
<1>4. Table(Bits, resCrcH, low, {6})
  <2> HIDE DEF low
  <2> QED BY <1>1, <1>3 DEF Table, Bits
<1> HIDE DEF low
<1>5. Reads(one, low, {6}) /\ one \in SUBSET Bits16
  <2>1. \A i \in Bits : i \in Bits <=> ~(i \in resCrcL <=> i \in Bits \ resCrcL)
    OBVIOUS
  <2> QED BY <1>1, <1>2, <1>4, <2>1, FeedByte DEF CrcInv
<1>6. Table(rest, {6}, {0}, {4, 5, 7})
  BY <1>3 DEF Table, Bits
<1>7. \A i \in Bits : i \in rest <=> ~(i \in low <=> i \in Bits \ resCrcH)
  BY <1>1
<1> HIDE DEF one, rest
<1>8. Reads(two, {0}, {4, 5, 7}) /\ two \in SUBSET Bits16
  BY <1>1, <1>2, <1>5, <1>6, <1>7, FeedByte
<1> HIDE DEF two
<1>9. \A i \in 0 .. 7 : (15 - i \in two <=> i = 0) /\ (7 - i \in two <=> i \in {4, 5, 7})
  BY <1>8 DEF Reads, Bits
<1>10. \A j \in Bits16 : j \in two <=> j \in {15, 3, 2, 0}
  <2> SUFFICES ASSUME NEW j \in Bits16 PROVE j \in two <=> j \in {15, 3, 2, 0}
    OBVIOUS
  <2>1. CASE j \in 0 .. 7
    <3>1. 7 - j \in 0 .. 7 /\ 7 - (7 - j) = j
      BY <2>1
    <3> QED BY <1>9, <2>1, <3>1
  <2>2. CASE j \in 8 .. 15
    <3>1. 15 - j \in 0 .. 7 /\ 15 - (15 - j) = j
      BY <2>2
    <3> QED BY <1>9, <2>2, <3>1
  <2> QED BY <2>1, <2>2 DEF Bits16
<1>11. {15, 3, 2, 0} \subseteq Bits16
  BY DEF Bits16
<1>12. \A j : j \in two <=> j \in {15, 3, 2, 0}
  BY <1>8, <1>10, <1>11, Zenon
<1>13. two = {15, 3, 2, 0}
  BY <1>12
<1> QED BY <1>13 DEF one, two

\* Whatever the packet, a host finds the CRC that usbCrc16Append puts behind it right.
THEOREM HostAlwaysAccepts == CrcSpec => []HostAccepts
<1>1. CrcInv => HostAccepts
  BY Residual DEF HostAccepts
<1> QED BY <1>1, CrcInitInv, CrcNextInv, PTL DEF CrcSpec
-----------------------------------------------------------------------------
(***************************************************************************)
(* UsbReceive.                                                             *)
(***************************************************************************)
Stopped  == pc \in {"se0", "overflow"}
Unstuffs == pc \in {"unstuffEven", "unstuffOdd", "unstuff6", "unstuff7"}

\* Of a byte, n bits are on the line: the receiver is at the sample of the next one.
Turned ==
  \/ pc = "bit0" /\ host.n = 0 /\ host.bytes = 0
  \/ pc = "odd" /\ host.n \in {1, 3, 5}
  \/ pc = "odd" /\ host.n = 8 /\ host.line = SE0
  \/ pc = "even" /\ host.n \in {2, 4, 8}
  \/ pc = "six" /\ host.n = 6
  \/ pc = "seven" /\ host.n = 7
  \/ pc = "unstuffEven" /\ host.n \in {1, 3, 5}
  \/ pc = "unstuffOdd" /\ host.n \in {2, 4, 6}
  \/ pc = "unstuff6" /\ host.n = 7
  \/ pc = "unstuff7" /\ host.n = 8
  \/ pc = "overflow" /\ host.n = 6
  \/ pc = "se0" /\ host.n = 8 /\ host.line = SE0

\* The host stuffs a bit where the receiver unstuffs one, and ends packets behind a byte.
Agreed ==
  /\ host.ones = 6 <=> Unstuffs
  /\ rx.prev = host.line
  /\ host.line = SE0 => pc \in {"odd", "se0"} /\ host.n = 8
  /\ host.n = 8 => host.bytes > 0
  /\ host.n < 8 => host.bytes < MaxBytes

\* The pairs of bits of the byte that bitcnt has counted.
Pairs ==
  CASE host.n \in {0, 1, 8} -> 0
    [] host.n \in {3, 5} -> (host.n - 1) \div 2
    [] host.n \in {2, 4, 6} -> IF pc = "unstuffOdd" THEN host.n \div 2 - 1 ELSE host.n \div 2
    [] OTHER -> 3

\* 85 times the pairs passes 256 with the third, once in a byte, and falls behind by 1 there;
\* cnt is decremented with the third pair.
Counted ==
  /\ host.bytes <= BufSize
  /\ rx.bitcnt = (IF Pairs = 3 THEN 84 ELSE 85 * (Pairs + 1)) - host.bytes
  /\ rx.cnt = IF pc = "overflow" THEN 0 ELSE BufSize - host.bytes - (IF Pairs = 3 THEN 1 ELSE 0)
  /\ pc = "overflow" => host.bytes = BufSize

\* The place in x3 of bit j's mark: marks of bits below 6 have been moved down by two for
\* each later even bit among the n.
Evens(n)     == IF n <= 2 THEN 1 ELSE IF n <= 4 THEN 2 ELSE 3
MarkOf(n, j) == IF j >= 6 THEN j ELSE j + 6 - 2 * Evens(n)

\* The byte's bits are the top ones of shift, those that are marked inverted.
Decoded ==
  host.line # SE0 =>
    \A j \in 0 .. host.n - 1 :
      j \in host.byte <=> ~(8 - host.n + j \in rx.shift <=> MarkOf(host.n, j) \in rx.x3)

\* Nothing is marked yet where the next mark comes.
Marks ==
  /\ host.n \in {1, 3, 5} => rx.x3 \subseteq 0 .. 4
  /\ host.n \in {2, 4, 6} => rx.x3 \subseteq 0 .. 5
  /\ host.n = 7 => rx.x3 \subseteq 0 .. 6

\* The 1 before the PID and its bits as they came over the line, the latest as bit 7.
Came(i) == IF i >= 8 - host.n THEN i - 8 + host.n \in host.byte ELSE i = 7 - host.n

\* In the PID, only bit 0 is marked, as it is stored inverted, and its upper half is the
\* complement of the lower one: there are never six 1s in a row.
First ==
  /\ host.ones # 6
  /\ rx.x3 = {IF host.n = 0 THEN 4 ELSE 6 - 2 * Evens(host.n)}
  /\ \A j \in 4 .. host.n - 1 : j \in host.byte <=> j - 4 \notin host.byte
  /\ \A i \in 0 .. 7 - host.n : i \notin rx.shift
  /\ \A i \in Bits : (i > 7 - host.ones => Came(i)) /\ (i = 7 - host.ones => ~Came(i))

InPid == host.bytes = 0 /\ host.n < 8

\* Behind it, shift ends with the 1s that the host counts, and a stuffed bit's place is 0.
Heard ==
  /\ InPid => First
  /\ ~InPid /\ Unstuffs => 7 \notin rx.shift
  /\ ~InPid /\ ~Unstuffs /\ host.line # SE0 => EndsWith(rx.shift, host.ones)

\* How far the next sample is off, in thirds of a cycle, without the cycles that leap counts.
Lead ==
  CASE pc = "bit0" -> 1
    [] pc \in {"odd", "unstuffEven"} -> IF host.n = 3 THEN -2 ELSE IF host.n = 5 THEN -3 ELSE -1
    [] pc = "even" -> IF host.n = 2 THEN 0 ELSE IF host.n = 4 THEN -1 ELSE 1
    [] pc = "six" -> -2
    [] pc = "unstuffOdd" -> IF host.n = 2 THEN -3 ELSE IF host.n = 4 THEN -4 ELSE -5
    [] pc = "unstuff7" -> -2
    [] OTHER -> 0

\* A stuffed bit takes six 1s and raises leap by 1; the loop lowers it once in eight bits.
Timing ==
  /\ clock.off \in -9 .. 9
  /\ ~Stopped => clock.off + 3 * clock.due - BitThirds = rx.leap + Lead
  /\ pc \in {"seven", "unstuff6", "unstuff7"} => rx.leap >= 0
  /\ 6 * rx.leap + host.ones
       <= 16 + 2 * host.bytes + (IF host.n = 8 THEN 0 ELSE IF host.n = 7 THEN 1 ELSE host.n)

\* The second K of the synchronisation pattern is still on the line.
Started == pc = "bit0" => host.line = "K"

RecvInv ==
  /\ TypeOK /\ Turned /\ Started /\ Agreed /\ Counted /\ Timing
  /\ host.byte \subseteq 0 .. host.n - 1 /\ Decoded /\ Marks /\ Heard /\ right
-----------------------------------------------------------------------------
\* The three things the host does, field by field: one more bit of a byte, ...
Takes ==
  /\ host.ones < 6 /\ host.line \in Levels
  /\ host'.line \in Levels /\ host'.n = (host.n % 8) + 1
  /\ host'.ones = IF Same THEN host.ones + 1 ELSE 0
  /\ host'.bytes = IF host.n = 7 THEN host.bytes + 1 ELSE host.bytes
  /\ host.n = 8 => host.bytes < MaxBytes
  /\ \A j : j \in host'.byte <=> (host.n % 8 # 0 /\ j \in host.byte) \/ (j = host.n % 8 /\ Same)
  /\ InPid /\ host.n >= 4 => (Same <=> host.n - 4 \notin host.byte)

\* ... a stuffed bit, ...
Stuffs ==
  /\ host.ones = 6 /\ host.line \in Levels
  /\ host'.line \in Levels /\ host'.ones = 0
  /\ host'.n = host.n /\ host'.byte = host.byte /\ host'.bytes = host.bytes

\* ... the end of the packet.
Ends ==
  /\ host.n = 8 /\ (host.ones < 6 \/ host.line = SE0)
  /\ host'.line = SE0 /\ host'.ones = host.ones
  /\ host'.n = host.n /\ host'.byte = host.byte /\ host'.bytes = host.bytes

Hosts == [line : Levels \cup {SE0}, ones : 0 .. 6, byte : SUBSET Bits, n : 0 .. 8, bytes : 0 .. MaxBytes]

\* SE0 is none of the line's two levels.
LEMMA SE0IsNoLevel == SE0 \notin Levels
BY DEF SE0, Levels

\* A bit: the level the receiver sampled last is still on the line, so it sees a 1 as the same.
LEMMA BitTaken ==
  ASSUME RecvInv, NEW bit \in BOOLEAN, DataBit(bit)
  PROVE  Takes /\ host' \in Hosts
<1> DEFINE n == host.n % 8
           byte2 == (IF n = 0 THEN {} ELSE host.byte) \cup (IF bit THEN {n} ELSE {})
<1>1. host \in Hosts /\ rx.prev = host.line
  BY DEF RecvInv, TypeOK, Agreed, Hosts
<1>2. host.ones < 6 /\ host.line \in Levels /\ (host.n = 8 => host.bytes < MaxBytes)
  BY <1>1 DEF DataBit, Hosts
<1>3. host' = [line |-> IF bit THEN host.line ELSE Toggled(host.line),
               ones |-> IF bit THEN host.ones + 1 ELSE 0, n |-> n + 1, byte |-> byte2,
               bytes |-> IF host.n = 7 THEN host.bytes + 1 ELSE host.bytes]
  <2>1. n = 7 <=> host.n = 7
    BY <1>1 DEF Hosts
  <2> QED BY <2>1 DEF DataBit, Put
<1>4. n \in 0 .. 7 /\ byte2 \in SUBSET Bits
  BY <1>1 DEF Hosts, Bits
<1>5. Toggled(host.line) \in Levels /\ Toggled(host.line) # host.line
  BY <1>2 DEF Toggled, Levels
<1>6. \A j : j \in byte2 <=> (n # 0 /\ j \in host.byte) \/ (j = n /\ bit)
  OBVIOUS
<1> HIDE DEF n, byte2
<1>7. Same <=> bit
  BY <1>1, <1>3, <1>5 DEF Same
<1>8. host' \in Hosts
  <2>1. host.bytes + (IF host.n = 7 THEN 1 ELSE 0) \in 0 .. MaxBytes
    BY <1>1, PhaseAssumption DEF RecvInv, Agreed, Hosts
  <2>2. CASE bit
    BY <1>1, <1>2, <1>3, <1>4, <2>1, <2>2 DEF Hosts
  <2>3. CASE ~bit
    BY <1>1, <1>2, <1>3, <1>4, <1>5, <2>1, <2>3 DEF Hosts
  <2> QED BY <2>2, <2>3
<1>9. InPid /\ host.n >= 4 => (Same <=> host.n - 4 \notin host.byte)
  BY <1>1, <1>7 DEF DataBit, MaySend, InPid, Hosts
<1>10. \A j : j \in host'.byte <=> (host.n % 8 # 0 /\ j \in host.byte) \/ (j = host.n % 8 /\ Same)
  BY <1>3, <1>6, <1>7 DEF n
<1>11. host'.line \in Levels /\ host'.ones = IF Same THEN host.ones + 1 ELSE 0
  BY <1>2, <1>3, <1>5, <1>7
<1>12. host'.n = (host.n % 8) + 1 /\ host'.bytes = IF host.n = 7 THEN host.bytes + 1 ELSE host.bytes
  BY <1>3 DEF n
<1> QED BY <1>2, <1>8, <1>9, <1>10, <1>11, <1>12 DEF Takes

\* The host does one of the three.
LEMMA HostSteps ==
  ASSUME RecvInv, HostBit
  PROVE  (Takes \/ Stuffs \/ Ends) /\ host' \in Hosts
<1>1. host \in Hosts
  BY DEF RecvInv, TypeOK, Hosts
<1>2. ASSUME NEW bit \in BOOLEAN, DataBit(bit) PROVE Takes /\ host' \in Hosts
  BY <1>2, BitTaken
<1>3. ASSUME StuffedBit PROVE Stuffs /\ host' \in Hosts
  <2>1. host.line \in Levels /\ Toggled(host.line) \in Levels
    BY <1>1, <1>3 DEF StuffedBit, Hosts, Toggled, Levels
  <2>2. host.ones = 6
        /\ host' = [line |-> Toggled(host.line), ones |-> 0, byte |-> host.byte, n |-> host.n,
                    bytes |-> host.bytes]
    BY <1>1, <1>3 DEF StuffedBit, Hosts
  <2> QED BY <1>1, <2>1, <2>2 DEF Stuffs, Hosts
<1>4. ASSUME EndOfPacket PROVE Ends /\ host' \in Hosts
  BY <1>1, <1>4 DEF EndOfPacket, Ends, Hosts
<1> QED BY <1>2, <1>3, <1>4 DEF HostBit

\* What shift holds after the sample.
LEMMA ShiftedBits ==
  ASSUME TypeOK
  PROVE  /\ Shifted \in SUBSET Bits
         /\ \A i \in Bits : i \in Shifted <=> i + 1 \in rx.shift \/ (i = 7 /\ Same)
<1>1. rx.shift \in SUBSET Bits
  BY DEF TypeOK
<1>2. 8 \notin rx.shift
  BY <1>1 DEF Bits
<1>3. CASE Same
  <2>1. Shifted = Ror1(rx.shift)
    BY <1>3 DEF Shifted, Ror, Ror1
  <2> QED BY <1>1, <1>2, <1>3, <2>1, RorBits DEF Bits
<1>4. CASE ~Same
  <2>1. Shifted = Ror0(rx.shift)
    BY <1>4 DEF Shifted, Ror, Ror0
  <2> QED BY <1>1, <1>2, <1>4, <2>1, RorBits DEF Bits
<1> QED BY <1>3, <1>4

\* In a PID a sixth 1 neither comes nor is seen: bits 4 above each other differ, and of the
\* bits that are read as 1 and the one that comes, two would be.
LEMMA PidBits ==
  ASSUME RecvInv, Takes, InPid, host.n >= 1
  PROVE  ~SixOnes(Shifted) /\ host'.ones # 6
<1>1. host.n \in 1 .. 7 /\ host.ones \in 0 .. 5 /\ host.line # SE0 /\ First /\ Decoded /\ TypeOK
  BY SE0IsNoLevel DEF RecvInv, TypeOK, Takes, InPid, Heard
<1>2. /\ \A j \in 4 .. host.n - 1 : j \in host.byte <=> j - 4 \notin host.byte
      /\ host.n >= 4 => (Same <=> host.n - 4 \notin host.byte)
  BY <1>1 DEF First, Takes
<1>3. \A j \in 1 .. host.n - 1 : j \in host.byte <=> 8 - host.n + j \in rx.shift
  <2> SUFFICES ASSUME NEW j \in 1 .. host.n - 1
               PROVE  j \in host.byte <=> 8 - host.n + j \in rx.shift
    OBVIOUS
  <2>1. MarkOf(host.n, j) \notin rx.x3
    BY <1>1 DEF First, MarkOf, Evens
  <2> QED BY <1>1, <2>1 DEF Decoded
<1>4. ASSUME SixOnes(Shifted) PROVE FALSE
  <2>1. Same /\ \A i \in 3 .. 7 : i \in rx.shift
    <3>1. \A i \in 2 .. 7 : i \in Shifted
      BY <1>4 DEF SixOnes
    <3>2. \A i \in Bits : i \in Shifted <=> i + 1 \in rx.shift \/ (i = 7 /\ Same)
      BY <1>1, ShiftedBits
    <3>3. 8 \notin rx.shift
      BY <1>1 DEF TypeOK, Bits
    <3>4. Same
      BY <3>1, <3>2, <3>3 DEF Bits
    <3>5. 3 \in rx.shift /\ 4 \in rx.shift /\ 5 \in rx.shift /\ 6 \in rx.shift /\ 7 \in rx.shift
      BY <3>1, <3>2 DEF Bits
    <3> QED BY <3>4, <3>5
  <2>2. host.n \in 5 .. 7
    BY <1>1, <2>1 DEF First
  <2>3. CASE host.n = 5
    BY <1>2, <1>3, <2>1, <2>3
  <2>4. CASE host.n = 6
    <3>1. 1 \in host.byte /\ 5 \in host.byte
      BY <1>3, <2>1, <2>4
    <3> QED BY <1>2, <2>4, <3>1
  <2>5. CASE host.n = 7
    <3>1. 2 \in host.byte /\ 6 \in host.byte
      BY <1>3, <2>1, <2>5
    <3> QED BY <1>2, <2>5, <3>1
  <2> QED BY <2>2, <2>3, <2>4, <2>5
<1>5. ASSUME host'.ones = 6 PROVE FALSE
  <2>1. Same /\ \A i \in 3 .. 7 : Came(i)
    BY <1>1, <1>5 DEF Takes, First, Bits
  <2>2. Came(3) /\ Came(4) /\ Came(5) /\ Came(6) /\ Came(7)
    BY <2>1
  <2>3. host.n \in 4 .. 7
    BY <1>1, <2>2 DEF Came
  <2>4. CASE host.n = 4
    <3>1. 0 \in host.byte
      BY <2>2, <2>4 DEF Came
    <3> QED BY <1>2, <2>1, <2>4, <3>1
  <2>5. CASE host.n = 5
    <3>1. 0 \in host.byte /\ 4 \in host.byte
      BY <2>2, <2>5 DEF Came
    <3> QED BY <1>2, <2>5, <3>1
  <2>6. CASE host.n = 6
    <3>1. 1 \in host.byte /\ 5 \in host.byte
      BY <2>2, <2>6 DEF Came
    <3> QED BY <1>2, <2>6, <3>1
  <2>7. CASE host.n = 7
    <3>1. 2 \in host.byte /\ 6 \in host.byte
      BY <2>2, <2>7 DEF Came
    <3> QED BY <1>2, <2>7, <3>1
  <2> QED BY <2>3, <2>4, <2>5, <2>6, <2>7
<1> QED BY <1>4, <1>5

\* The receiver sees six 1s exactly when the host has sent them.
LEMMA SixthOne ==
  ASSUME RecvInv, Takes, host.n >= 1
  PROVE  SixOnes(Shifted) <=> host'.ones = 6
<1>1. CASE InPid
  BY <1>1, PidBits
<1>2. CASE ~InPid
  <2>1. rx.shift \in SUBSET Bits /\ host.ones \in 0 .. 5 /\ EndsWith(rx.shift, host.ones)
    BY <1>2, SE0IsNoLevel DEF RecvInv, TypeOK, Takes, Agreed, Heard
  <2>2. CASE Same
    <3>1. Shifted = Ror1(rx.shift)
      BY <2>2 DEF Shifted, Ror, Ror1
    <3>2. SixOnes(Shifted) <=> host.ones = 5
      BY <2>1, <3>1, EndsWithNext
    <3> QED BY <2>1, <2>2, <3>2 DEF Takes
  <2>3. CASE ~Same
    <3>1. 7 \notin Shifted
      BY <2>1, <2>3, ShiftedBits DEF RecvInv, Bits
    <3> QED BY <2>3, <3>1 DEF SixOnes, Takes
  <2> QED BY <2>2, <2>3
<1> QED BY <1>1, <1>2

\* What the receiver does with the registers in the sample of a bit of a byte: the bit is
\* shifted in, as 0 if it is the sixth 1, and then marked.
Stored ==
  /\ rx'.shift = IF SixOnes(Shifted) THEN Clear7(Shifted) ELSE Shifted
  /\ \A j \in 0 .. host'.n - 2 : MarkOf(host'.n, j) \in rx'.x3 <=> MarkOf(host.n, j) \in rx.x3
  /\ MarkOf(host'.n, host'.n - 1) \in rx'.x3 <=> SixOnes(Shifted)

\* Then the registers hold the byte as before, with one more bit.
LEMMA DecodedNext ==
  ASSUME RecvInv, Takes, host.n >= 1, Stored
  PROVE  /\ Decoded' /\ host'.byte \subseteq 0 .. host'.n - 1 /\ rx'.shift \in SUBSET Bits
         /\ \A i \in Bits : i \in rx'.shift <=> i + 1 \in rx.shift \/ (i = 7 /\ Same /\ host'.ones # 6)
<1> DEFINE n == host.n % 8
<1>1. host.n \in 1 .. 8 /\ host.byte \subseteq 0 .. host.n - 1 /\ host.line # SE0 /\ Decoded /\ TypeOK
  BY SE0IsNoLevel DEF RecvInv, TypeOK, Takes
<1>2. n \in 0 .. 7 /\ host'.n = n + 1 /\ (n # 0 => n = host.n)
  BY <1>1 DEF Takes
<1>3. \A j : j \in host'.byte <=> (n # 0 /\ j \in host.byte) \/ (j = n /\ Same)
  BY DEF Takes
<1> HIDE DEF n
<1>4. host'.byte \subseteq 0 .. host'.n - 1
  BY <1>1, <1>2, <1>3
<1>5. /\ rx'.shift \in SUBSET Bits
      /\ \A i \in Bits : i \in rx'.shift <=> i + 1 \in rx.shift \/ (i = 7 /\ Same /\ host'.ones # 6)
  <2>1. CASE SixOnes(Shifted)
    <3>1. rx'.shift = Shifted \ {7} /\ host'.ones = 6
      BY <2>1, SixthOne DEF Stored, Clear7
    <3>2. 8 \notin rx.shift
      BY <1>1 DEF TypeOK, Bits
    <3> QED BY <1>1, <3>1, <3>2, ShiftedBits DEF Bits
  <2>2. CASE ~SixOnes(Shifted)
    <3>1. rx'.shift = Shifted /\ host'.ones # 6
      BY <2>2, SixthOne DEF Stored
    <3> QED BY <1>1, <3>1, ShiftedBits
  <2> QED BY <2>1, <2>2
<1>6. ASSUME NEW j \in 0 .. n
      PROVE  j \in host'.byte <=> ~(7 - n + j \in rx'.shift <=> MarkOf(n + 1, j) \in rx'.x3)
  <2>1. 7 - n + j \in Bits
    BY <1>2 DEF Bits
  <2>2. CASE j = n
    <3>1. MarkOf(n + 1, n) \in rx'.x3 <=> host'.ones = 6
      BY <1>2, SixthOne DEF Stored
    <3>2. 7 - n + j = 7 /\ 8 \notin rx.shift
      BY <1>1, <1>2, <2>2 DEF TypeOK, Bits
    <3>3. 7 \in rx'.shift <=> Same /\ host'.ones # 6
      BY <1>5, <3>2 DEF Bits
    <3>4. host'.ones = 6 => Same
      BY DEF Takes
    <3>5. n \in host'.byte <=> Same
      BY <1>1, <1>2, <1>3
    <3> QED BY <2>2, <3>1, <3>2, <3>3, <3>4, <3>5
  <2>3. CASE j # n
    <3>1. n # 0 /\ n = host.n /\ j \in 0 .. host.n - 1
      BY <1>2, <2>3
    <3>2. j \in host.byte <=> ~(8 - host.n + j \in rx.shift <=> MarkOf(host.n, j) \in rx.x3)
      BY <1>1, <3>1 DEF Decoded
    <3>3. 7 - n + j # 7 /\ 7 - n + j + 1 = 8 - host.n + j
      BY <1>2, <2>3, <3>1
    <3>4. 7 - n + j \in rx'.shift <=> 8 - host.n + j \in rx.shift
      BY <1>5, <2>1, <3>3
    <3>5. MarkOf(n + 1, j) \in rx'.x3 <=> MarkOf(host.n, j) \in rx.x3
      <4>1. j \in 0 .. host'.n - 2
        BY <1>2, <2>3
      <4> QED BY <1>2, <4>1 DEF Stored
    <3>6. j \in host'.byte <=> j \in host.byte
      BY <1>3, <2>3, <3>1
    <3> QED BY <3>2, <3>4, <3>5, <3>6
  <2> QED BY <2>2, <2>3
<1>7. Decoded'
  <2>1. \A j \in 0 .. host'.n - 1 :
          j \in host'.byte <=> ~(8 - host'.n + j \in rx'.shift <=> MarkOf(host'.n, j) \in rx'.x3)
    <3> SUFFICES ASSUME NEW j \in 0 .. host'.n - 1
                 PROVE  j \in host'.byte
                        <=> ~(8 - host'.n + j \in rx'.shift <=> MarkOf(host'.n, j) \in rx'.x3)
      OBVIOUS
    <3>1. j \in 0 .. n /\ 8 - host'.n + j = 7 - n + j
      BY <1>2
    <3> QED BY <1>2, <1>6, <3>1
  <2> QED BY <2>1 DEF Decoded
<1> QED BY <1>4, <1>5, <1>7

\* And shift still tells how many 1s came last.
LEMMA HeardNext ==
  ASSUME RecvInv, Takes, host' \in Hosts, host.n >= 1, Stored, Unstuffs' <=> host'.ones = 6,
         InPid' => rx'.x3 = {6 - 2 * Evens(host'.n)}
  PROVE  Heard'
<1>1. /\ host.n \in 1 .. 8 /\ host.ones \in 0 .. 5 /\ host.line # SE0
      /\ rx.shift \in SUBSET Bits /\ 8 \notin rx.shift /\ host.bytes \in Nat
      /\ host.n = 8 => host.bytes > 0
  BY SE0IsNoLevel, PhaseAssumption DEF RecvInv, Agreed, TypeOK, Takes, Bits
<1>2. \A i \in Bits : i \in rx'.shift <=> i + 1 \in rx.shift \/ (i = 7 /\ Same /\ host'.ones # 6)
  BY DecodedNext
<1>3. ASSUME InPid' PROVE First'
  <2>1. InPid /\ host.n \in 1 .. 6 /\ host'.n = host.n + 1
    BY <1>1, <1>3 DEF InPid, Takes
  <2>2. First /\ host'.ones \in 0 .. 5
    BY <1>1, <2>1, PidBits DEF RecvInv, Heard, Takes
  <2>3. \A j : j \in host'.byte <=> j \in host.byte \/ (j = host.n /\ Same)
    BY <2>1 DEF Takes
  <2>4. host.byte \subseteq 0 .. host.n - 1
    BY DEF RecvInv
  <2>5. \A j \in 4 .. host'.n - 1 : j \in host'.byte <=> j - 4 \notin host'.byte
    <3> SUFFICES ASSUME NEW j \in 4 .. host'.n - 1 PROVE j \in host'.byte <=> j - 4 \notin host'.byte
      OBVIOUS
    <3>1. CASE j = host.n
      BY <2>1, <2>3, <2>4, <3>1 DEF Takes
    <3>2. CASE j < host.n
      BY <2>1, <2>2, <2>3, <3>2 DEF First
    <3> QED BY <2>1, <3>1, <3>2
  <2>6. \A i \in 0 .. 7 - host'.n : i \notin rx'.shift
    <3> SUFFICES ASSUME NEW i \in 0 .. 7 - host'.n PROVE i \notin rx'.shift
      OBVIOUS
    <3>1. i \in Bits /\ i # 7 /\ i + 1 \in 0 .. 7 - host.n
      BY <2>1 DEF Bits
    <3> QED BY <1>2, <2>2, <3>1 DEF First
  <2>7. ASSUME NEW i \in Bits PROVE (i > 7 - host'.ones => Came(i)') /\ (i = 7 - host'.ones => ~Came(i)')
    <3>1. CASE i = 7
      <4>1. Came(i)' <=> Same
        BY <2>1, <2>3, <2>4, <3>1 DEF Came
      <4> QED BY <1>1, <3>1, <4>1 DEF Takes
    <3>2. CASE i # 7
      <4>1. i + 1 \in Bits
        BY <3>2 DEF Bits
      <4>2. Came(i)' <=> Came(i + 1)
        <5>1. i >= 8 - host'.n <=> i + 1 >= 8 - host.n
          BY <2>1 DEF Bits
        <5>2. i - 8 + host'.n = i + 1 - 8 + host.n /\ i - 8 + host'.n # host.n
          BY <2>1, <3>2 DEF Bits
        <5>3. i - 8 + host'.n \in host'.byte <=> i + 1 - 8 + host.n \in host.byte
          BY <2>3, <5>2
        <5>4. i = 7 - host'.n <=> i + 1 = 7 - host.n
          BY <2>1 DEF Bits
        <5> QED BY <2>1, <5>1, <5>2, <5>3, <5>4 DEF Came, Bits
      <4>3. (i + 1 > 7 - host.ones => Came(i + 1)) /\ (i + 1 = 7 - host.ones => ~Came(i + 1))
        BY <2>2, <4>1 DEF First
      <4> QED BY <1>1, <3>2, <4>2, <4>3 DEF Takes, Bits
    <3> QED BY <3>1, <3>2
  <2>8. rx'.x3 = {IF host'.n = 0 THEN 4 ELSE 6 - 2 * Evens(host'.n)}
    BY <1>3, <2>1
  <2> QED BY <2>2, <2>5, <2>6, <2>7, <2>8 DEF First
<1>4. ASSUME ~InPid', host'.ones = 6 PROVE 7 \notin rx'.shift
  BY <1>1, <1>2, <1>4 DEF Bits
<1>5. ASSUME ~InPid', host'.ones # 6 PROVE EndsWith(rx'.shift, host'.ones)
  <2>1. CASE InPid
    <3>1. host.n = 7 /\ First /\ Decoded
      BY <1>1, <1>5, <2>1 DEF InPid, Takes, RecvInv, Heard
    <3>2. \A i \in 3 .. 7 : i \in rx.shift <=> Came(i)
      <4> SUFFICES ASSUME NEW i \in 3 .. 7 PROVE i \in rx.shift <=> Came(i)
        OBVIOUS
      <4>1. MarkOf(7, i - 1) \notin rx.x3
        BY <3>1 DEF First, MarkOf, Evens
      <4>2. i - 1 \in 0 .. host.n - 1 /\ 8 - host.n + (i - 1) = i
        BY <3>1
      <4>3. i - 1 \in host.byte <=> ~(i \in rx.shift <=> MarkOf(7, i - 1) \in rx.x3)
        BY <1>1, <3>1, <4>2 DEF Decoded
      <4>4. Came(i) <=> i - 1 \in host.byte
        BY <3>1 DEF Came
      <4> QED BY <4>1, <4>3, <4>4
    <3>3. host'.ones \in 0 .. 5
      BY <1>1, <1>5 DEF Takes
    <3>4. ASSUME NEW i \in Bits
          PROVE  (i > 7 - host'.ones => i \in rx'.shift) /\ (i = 7 - host'.ones => i \notin rx'.shift)
      <4>1. CASE i = 7
        BY <1>1, <1>2, <1>5, <4>1 DEF Takes
      <4>2. CASE i # 7
        <5>1. i \in rx'.shift <=> i + 1 \in rx.shift
          BY <1>2, <4>2
        <5>2. i + 1 \in Bits
          BY <4>2 DEF Bits
        <5>3. (i + 1 > 7 - host.ones => Came(i + 1)) /\ (i + 1 = 7 - host.ones => ~Came(i + 1))
          BY <3>1, <5>2 DEF First
        <5> QED BY <1>1, <3>2, <3>3, <4>2, <5>1, <5>3 DEF Takes, Bits
      <4> QED BY <4>1, <4>2
    <3> QED BY <3>4 DEF EndsWith
  <2>2. CASE ~InPid
    <3>1. EndsWith(rx.shift, host.ones)
      BY <1>1, <2>2 DEF RecvInv, Agreed, Heard
    <3>2. ASSUME NEW i \in Bits
          PROVE  (i > 7 - host'.ones => i \in rx'.shift) /\ (i = 7 - host'.ones => i \notin rx'.shift)
      <4>1. CASE i = 7
        BY <1>1, <1>2, <1>5, <4>1 DEF Takes
      <4>2. CASE i # 7
        BY <1>1, <1>2, <3>1, <4>2 DEF Takes, EndsWith, Bits
      <4> QED BY <4>1, <4>2
    <3> QED BY <3>2 DEF EndsWith
  <2> QED BY <2>1, <2>2
<1> QED BY <1>3, <1>4, <1>5 DEF Heard
-----------------------------------------------------------------------------
Registers == [shift : SUBSET Bits, x3 : SUBSET Bits, bitcnt : 0 .. 255, cnt : 0 .. BufSize,
              leap : -2 .. 7, prev : Levels \cup {SE0}]

\* The labels the receiver's loop comes to after a sample of the bus.
Samples == {"bit0", "even", "odd", "six", "seven", "unstuffEven", "unstuffOdd", "unstuff6",
            "unstuff7", "se0", "overflow"}

\* A sample keeps the types if the registers have theirs.
LEMMA SampleTypes ==
  ASSUME RecvInv, host' \in Hosts, rx' \in Registers, right' = right \/ right' \in BOOLEAN,
         NEW due \in 10 .. 12, pc' \in Samples,
         clock' = [due |-> due, off |-> clock.off + 3 * clock.due - BitThirds]
  PROVE  TypeOK'
<1>1. TypeOK
  BY DEF RecvInv
<1>2. clock.off \in Int /\ clock.due \in Int /\ right \in BOOLEAN
  BY <1>1 DEF TypeOK
<1>3. clock' \in [due : 10 .. 12, off : Int]
  BY <1>2 DEF BitThirds
<1> QED BY <1>2, <1>3 DEF TypeOK, Hosts, Registers, Samples

\* MarkEven makes a mark in place 4 if the bit is stuffed, and moves the earlier ones down.
LEMMA MarkEvenBits ==
  ASSUME NEW x3 \in SUBSET Bits, NEW stuffed \in BOOLEAN
  PROVE  /\ MarkEven(x3, stuffed) \subseteq 0 .. 4
         /\ \A i \in 0 .. 3 : i \in MarkEven(x3, stuffed) <=> i + 2 \in x3
         /\ 4 \in MarkEven(x3, stuffed) <=> stuffed
<1> DEFINE marks == (x3 \ {6, 7}) \cup (IF stuffed THEN {6} ELSE {})
<1>1. marks \subseteq 0 .. 6 /\ (6 \in marks <=> stuffed) /\ \A i \in 0 .. 5 : i \in marks <=> i \in x3
  BY DEF Bits
<1>2. MarkEven(x3, stuffed) = {i - 2 : i \in marks \ {0, 1}}
  BY DEF MarkEven, Lsr2
<1> HIDE DEF marks
<1>3. ASSUME NEW i \in 0 .. 4 PROVE i \in MarkEven(x3, stuffed) <=> i + 2 \in marks
  <2>1. ASSUME i + 2 \in marks PROVE i \in MarkEven(x3, stuffed)
    <3>1. i + 2 \in marks \ {0, 1} /\ i = (i + 2) - 2
      BY <2>1
    <3> QED BY <1>2, <3>1
  <2>2. ASSUME i \in MarkEven(x3, stuffed) PROVE i + 2 \in marks
    <3>1. PICK j \in marks \ {0, 1} : i = j - 2
      BY <1>2, <2>2
    <3>2. j \in 0 .. 6
      BY <1>1
    <3> QED BY <3>1, <3>2
  <2> QED BY <2>1, <2>2
<1>4. MarkEven(x3, stuffed) \subseteq 0 .. 4
  <2> SUFFICES ASSUME NEW j \in marks \ {0, 1} PROVE j - 2 \in 0 .. 4
    BY <1>2
  <2>1. j \in 0 .. 6
    BY <1>1
  <2> QED BY <2>1
<1> QED BY <1>1, <1>3, <1>4

\* The sample of bit 0, 2 or 4.
LEMMA EvenStep ==
  ASSUME RecvInv, Takes, host' \in Hosts, rxBitLoop
  PROVE  RecvInv'
<1> DEFINE stuffed == SixOnes(Shifted)
<1>1. pc = "even" /\ host \in Hosts /\ rx \in Registers /\ host.n \in {2, 4, 8} /\ clock.off \in Int
  BY DEF RecvInv, TypeOK, Turned, rxBitLoop, Hosts, Registers
<1>2. stuffed \in BOOLEAN /\ (stuffed <=> host'.ones = 6)
  <2>1. stuffed <=> host'.ones = 6
    BY <1>1, SixthOne
  <2> QED BY <2>1 DEF SixOnes
<1>3. rx' = [rx EXCEPT !.prev = host'.line, !.x3 = MarkEven(@, stuffed),
                       !.shift = IF stuffed THEN Clear7(Shifted) ELSE Shifted]
  BY DEF rxBitLoop
<1>4. pc' = IF stuffed THEN "unstuffEven" ELSE "odd"
  BY DEF rxBitLoop, Sample
<1>5. clock' = [due |-> 10, off |-> clock.off + 3 * clock.due - BitThirds] /\ right' = right
  BY DEF rxBitLoop, Sample, StoresNone
<1>6. rx'.shift = IF stuffed THEN Clear7(Shifted) ELSE Shifted
  BY <1>1, <1>3 DEF Registers
<1> HIDE DEF stuffed
<1>7. /\ rx'.prev = host'.line /\ rx'.x3 = MarkEven(rx.x3, stuffed)
      /\ rx'.bitcnt = rx.bitcnt /\ rx'.cnt = rx.cnt /\ rx'.leap = rx.leap
      /\ DOMAIN rx' = DOMAIN rx
  BY <1>1, <1>3 DEF Registers
<1>8. /\ rx'.x3 \subseteq 0 .. 4 /\ \A i \in 0 .. 3 : i \in rx'.x3 <=> i + 2 \in rx.x3
      /\ 4 \in rx'.x3 <=> stuffed
  BY <1>1, <1>2, <1>7, MarkEvenBits DEF Registers
<1>9. host'.n \in {1, 3, 5} /\ host'.n = (host.n % 8) + 1
  BY <1>1 DEF Takes
<1>10. Stored
  <2>1. MarkOf(host'.n, host'.n - 1) = 4
    BY <1>9 DEF MarkOf, Evens
  <2>2. ASSUME NEW j \in 0 .. host'.n - 2
        PROVE  MarkOf(host'.n, j) \in 0 .. 3 /\ MarkOf(host.n, j) = MarkOf(host'.n, j) + 2
    BY <1>1, <1>9 DEF MarkOf, Evens
  <2> QED BY <1>6, <1>8, <2>1, <2>2 DEF Stored, stuffed
<1>11. InPid' => rx'.x3 = {6 - 2 * Evens(host'.n)}
  <2> SUFFICES ASSUME InPid' PROVE rx'.x3 = {6 - 2 * Evens(host'.n)}
    OBVIOUS
  <2>1. InPid /\ host.n \in {2, 4}
    BY <1>1, <1>9 DEF InPid, Takes, RecvInv, Agreed
  <2>2. ~stuffed /\ rx.x3 = {6 - 2 * Evens(host.n)}
    BY <1>2, <2>1, PidBits DEF RecvInv, Heard, First
  <2>3. \A i \in 0 .. 4 : i \in rx'.x3 <=> i + 2 \in rx.x3 /\ i # 4
    BY <1>8, <2>2
  <2>4. CASE host.n = 2
    BY <1>8, <1>9, <2>2, <2>3, <2>4 DEF Evens
  <2>5. CASE host.n = 4
    BY <1>8, <1>9, <2>2, <2>3, <2>5 DEF Evens
  <2> QED BY <2>1, <2>4, <2>5
<1>12. Unstuffs' <=> host'.ones = 6
  BY <1>2, <1>4 DEF Unstuffs
<1>13. Decoded' /\ host'.byte \subseteq 0 .. host'.n - 1 /\ rx'.shift \in SUBSET Bits
  BY <1>1, <1>10, DecodedNext
<1>14. Heard'
  BY <1>1, <1>10, <1>11, <1>12, HeardNext
<1>15. Marks'
  BY <1>8, <1>9 DEF Marks
<1>16. Turned'
  BY <1>4, <1>9 DEF Turned
<1>17. Agreed'
  BY <1>1, <1>7, <1>9, <1>12, SE0IsNoLevel DEF Takes, Agreed, RecvInv
<1>18. Counted'
  BY <1>1, <1>4, <1>7, <1>9 DEF Takes, Counted, Pairs, RecvInv
<1>19. Timing'
  BY <1>1, <1>4, <1>5, <1>7, <1>9 DEF Takes, Timing, Lead, Stopped, BitThirds, RecvInv, Hosts,
     Registers
<1>20. TypeOK'
  <2>1. rx'.x3 \in SUBSET Bits /\ rx'.prev \in Levels \cup {SE0}
    BY <1>7, <1>8 DEF Hosts, Bits
  <2>2. rx' \in Registers
    BY ZenonT(40), <1>1, <1>3, <1>13, <2>1 DEF Registers
  <2> QED BY <1>4, <1>5, <2>2, SampleTypes DEF Samples
<1> QED BY <1>4, <1>5, <1>13, <1>14, <1>15, <1>16, <1>17, <1>18, <1>19, <1>20 DEF RecvInv, Started

\* The third pair makes bitcnt overflow, and only that ends the loop over pairs.
LEMMA PairCounted ==
  ASSUME RecvInv, (pc = "odd" /\ host.n \in {1, 3, 5}) \/ pc = "unstuffOdd"
  PROVE  /\ Pairs \in 0 .. 2
         /\ MorePairs <=> Pairs # 2
         /\ AfterPair = IF Pairs # 2 THEN "even" ELSE IF host.bytes = BufSize THEN "overflow" ELSE "six"
         /\ NextPair = [rx EXCEPT !.bitcnt = (IF Pairs = 2 THEN 84 ELSE 85 * (Pairs + 2)) - host.bytes,
                                  !.cnt = IF Pairs = 2 /\ host.bytes < BufSize
                                          THEN BufSize - host.bytes - 1 ELSE BufSize - host.bytes]
<1>1. rx \in Registers /\ host.n \in 1 .. 6 /\ host.bytes \in 0 .. 11
  BY PhaseAssumption DEF RecvInv, TypeOK, Turned, Registers, Counted, BufSize
<1>2. Pairs \in 0 .. 2
  BY <1>1 DEF Pairs, RecvInv, Turned
<1>3. rx.bitcnt = 85 * (Pairs + 1) - host.bytes /\ rx.cnt = 11 - host.bytes
  BY <1>1, <1>2 DEF RecvInv, Counted, BufSize
<1>4. MorePairs <=> Pairs # 2
  <2>1. Pairs = 0 \/ Pairs = 1 \/ Pairs = 2
    BY <1>2
  <2> QED BY <1>1, <1>3, <2>1 DEF MorePairs
<1>5. (rx.bitcnt + 85) % 256 = (IF Pairs = 2 THEN 84 ELSE 85 * (Pairs + 2)) - host.bytes
  <2>1. CASE Pairs = 2
    <3>1. rx.bitcnt + 85 = 256 + (84 - host.bytes) /\ 84 - host.bytes \in 0 .. 255
      BY <1>1, <1>3, <2>1
    <3> QED BY <2>1, <3>1
  <2>2. CASE Pairs \in 0 .. 1
    <3>1. Pairs = 0 \/ Pairs = 1
      BY <2>2
    <3>2. rx.bitcnt + 85 = 85 * (Pairs + 2) - host.bytes /\ rx.bitcnt + 85 \in 0 .. 255
      BY <1>1, <1>3, <3>1
    <3> QED BY <2>2, <3>2
  <2> QED BY <1>2, <2>1, <2>2
<1>6. AfterPair = IF Pairs # 2 THEN "even" ELSE IF host.bytes = BufSize THEN "overflow" ELSE "six"
  BY <1>1, <1>3, <1>4 DEF AfterPair, BufSize
<1>7. (IF MorePairs \/ rx.cnt = 0 THEN rx.cnt ELSE rx.cnt - 1)
        = IF Pairs = 2 /\ host.bytes < BufSize THEN BufSize - host.bytes - 1 ELSE BufSize - host.bytes
  BY <1>1, <1>3, <1>4 DEF BufSize
<1>8. NextPair = [rx EXCEPT !.bitcnt = (rx.bitcnt + 85) % 256,
                            !.cnt = IF MorePairs \/ rx.cnt = 0 THEN rx.cnt ELSE rx.cnt - 1]
  BY DEF NextPair
<1>9. NextPair = [rx EXCEPT !.bitcnt = (IF Pairs = 2 THEN 84 ELSE 85 * (Pairs + 2)) - host.bytes,
                            !.cnt = IF Pairs = 2 /\ host.bytes < BufSize
                                    THEN BufSize - host.bytes - 1 ELSE BufSize - host.bytes]
  BY <1>5, <1>7, <1>8
<1> QED BY <1>2, <1>4, <1>6, <1>9

\* What the pair's second sample does with the registers.
NextRegisters(shift, leap) ==
  rx' = [NextPair EXCEPT !.prev = host'.line, !.shift = shift, !.leap = leap]

\* Then the counters say so.
LEMMA PairStep ==
  ASSUME RecvInv, (pc = "odd" /\ host.n \in {1, 3, 5}) \/ pc = "unstuffOdd",
         NEW shift \in SUBSET Bits, NEW leap \in -2 .. 7, host'.line \in Levels \cup {SE0},
         NextRegisters(shift, leap),
         pc' = AfterPair, host'.bytes = host.bytes, host'.n = 2 * (Pairs + 1)
  PROVE  /\ rx' \in Registers /\ Counted'
         /\ rx'.prev = host'.line /\ rx'.shift = shift /\ rx'.leap = leap /\ rx'.x3 = rx.x3
<1>1. rx \in Registers /\ host.bytes \in 0 .. 11 /\ Pairs \in 0 .. 2
  BY PhaseAssumption, PairCounted DEF RecvInv, TypeOK, Registers, Counted, BufSize
<1> DEFINE bitcnt == (IF Pairs = 2 THEN 84 ELSE 85 * (Pairs + 2)) - host.bytes
           cnt == IF Pairs = 2 /\ host.bytes < BufSize THEN BufSize - host.bytes - 1 ELSE BufSize - host.bytes
<1>2. rx' = [shift |-> shift, x3 |-> rx.x3, bitcnt |-> bitcnt, cnt |-> cnt, leap |-> leap, prev |-> host'.line]
  BY <1>1, PairCounted DEF Registers, NextRegisters
<1>3. bitcnt \in 0 .. 255 /\ cnt \in 0 .. BufSize
  BY <1>1 DEF BufSize
<1>4. Pairs' = Pairs + 1
  <2>1. pc' # "unstuffOdd"
    BY PairCounted
  <2> QED BY <1>1, <2>1 DEF Pairs
<1>5. pc' = "overflow" <=> Pairs = 2 /\ host.bytes = BufSize
  BY PairCounted
<1>6. /\ bitcnt = (IF Pairs + 1 = 3 THEN 84 ELSE 85 * (Pairs + 1 + 1)) - host.bytes
      /\ cnt = IF pc' = "overflow" THEN 0 ELSE BufSize - host.bytes - (IF Pairs + 1 = 3 THEN 1 ELSE 0)
  BY <1>1, <1>5 DEF BufSize
<1> HIDE DEF bitcnt, cnt
<1>7. rx' \in Registers
  <2>1. rx.x3 \in SUBSET Bits
    BY <1>1 DEF Registers
  <2> QED BY <1>2, <1>3, <2>1 DEF Registers
<1>8. /\ rx'.prev = host'.line /\ rx'.shift = shift /\ rx'.leap = leap /\ rx'.x3 = rx.x3
      /\ rx'.bitcnt = bitcnt /\ rx'.cnt = cnt
  BY <1>2
<1>9. Counted'
  <2>1. host'.bytes <= BufSize /\ (pc' = "overflow" => host'.bytes = BufSize)
    BY <1>1, <1>5 DEF BufSize
  <2> QED BY <1>4, <1>6, <1>8, <2>1 DEF Counted
<1> QED BY <1>7, <1>8, <1>9

\* The sample of bit 1, 3 or 5.
LEMMA OddStep ==
  ASSUME RecvInv, Takes, host' \in Hosts, rxbit1
  PROVE  RecvInv'
<1> DEFINE stuffed == SixOnes(Shifted)
<1>1. /\ pc = "odd" /\ host \in Hosts /\ rx \in Registers /\ host.n \in {1, 3, 5} /\ clock.off \in Int
      /\ host.bytes \in 0 .. BufSize
  BY SE0IsNoLevel, PhaseAssumption
     DEF RecvInv, TypeOK, Turned, rxbit1, Hosts, Registers, Takes, Counted, BufSize
<1>2. stuffed <=> host'.ones = 6
  BY <1>1, SixthOne
<1>3. host'.n \in {2, 4, 6} /\ host'.n = host.n + 1 /\ host'.line # SE0 /\ host'.bytes = host.bytes
  BY <1>1, SE0IsNoLevel DEF Takes
<1>4. Pairs \in 0 .. 2 /\ host.n = 2 * Pairs + 1
  BY <1>1 DEF Pairs
<1>5. /\ rx'.prev = host'.line /\ rx'.leap = rx.leap /\ right' = right
      /\ rx'.x3 = IF stuffed THEN rx.x3 \cup {5} ELSE rx.x3
      /\ rx'.shift = IF stuffed THEN Clear7(Shifted) ELSE Shifted
      /\ pc' = IF stuffed THEN "unstuffOdd" ELSE AfterPair
      /\ clock' = [due |-> IF stuffed THEN 10 ELSE 11, off |-> clock.off + 3 * clock.due - BitThirds]
      /\ rx' \in Registers /\ Counted'
  <2>1. Shifted \in SUBSET Bits /\ host'.line \in Levels \cup {SE0}
    BY ShiftedBits DEF RecvInv, Hosts
  <2>2. CASE stuffed
    <3>1. rx' = [rx EXCEPT !.prev = host'.line, !.x3 = @ \cup {5}, !.shift = Clear7(Shifted)]
      BY <1>3, <2>2 DEF rxbit1
    <3>2. /\ rx'.prev = host'.line /\ rx'.x3 = rx.x3 \cup {5} /\ rx'.shift = Clear7(Shifted)
          /\ rx'.bitcnt = rx.bitcnt /\ rx'.cnt = rx.cnt /\ rx'.leap = rx.leap
      BY <1>1, <3>1 DEF Registers
    <3>3. pc' = "unstuffOdd" /\ right' = right
          /\ clock' = [due |-> 10, off |-> clock.off + 3 * clock.due - BitThirds]
      BY <1>3, <2>2 DEF rxbit1, Sample, StoresNone
    <3>4. Pairs' = Pairs
      BY <1>1, <1>3, <3>3 DEF Pairs
    <3>5. Counted'
      BY <1>1, <1>3, <1>4, <3>2, <3>3, <3>4 DEF RecvInv, Counted
    <3>6. rx' \in Registers
      <4>1. Clear7(Shifted) \in SUBSET Bits /\ rx.x3 \cup {5} \in SUBSET Bits
        BY <1>1, <2>1 DEF Clear7, Registers, Bits
      <4> QED BY ZenonT(40), <1>1, <2>1, <3>1, <4>1 DEF Registers
    <3> QED BY <2>2, <3>2, <3>3, <3>5, <3>6
  <2>3. CASE ~stuffed
    <3>1. rx' = [NextPair EXCEPT !.prev = host'.line, !.shift = Shifted]
      BY <1>3, <2>3 DEF rxbit1
    <3>2. pc' = AfterPair /\ right' = right
          /\ clock' = [due |-> 11, off |-> clock.off + 3 * clock.due - BitThirds]
      BY <1>3, <2>3 DEF rxbit1, Sample, StoresNone
    <3>3. NextRegisters(Shifted, rx.leap)
      BY <1>1, <3>1, PairCounted DEF Registers, NextRegisters
    <3>4. rx.leap \in -2 .. 7
      BY <1>1 DEF Registers
    <3>5. /\ rx' \in Registers /\ Counted'
          /\ rx'.prev = host'.line /\ rx'.shift = Shifted /\ rx'.leap = rx.leap /\ rx'.x3 = rx.x3
      <4>1. host'.n = 2 * (Pairs + 1)
        BY <1>1, <1>3, <1>4
      <4> HIDE DEF stuffed
      <4> QED BY <1>1, <1>3, <2>1, <3>2, <3>3, <3>4, <4>1, PairStep
    <3> QED BY <2>3, <3>2, <3>5
  <2> QED BY <2>2, <2>3
<1>6. Unstuffs' <=> host'.ones = 6
  BY <1>1, <1>2, <1>5, PairCounted DEF Unstuffs
<1>7. Stored
  <2>1. MarkOf(host'.n, host'.n - 1) = 5
    BY <1>1, <1>3 DEF MarkOf, Evens
  <2>2. 5 \notin rx.x3
    BY <1>1 DEF RecvInv, Marks
  <2>3. ASSUME NEW j \in 0 .. host'.n - 2
        PROVE  MarkOf(host'.n, j) = MarkOf(host.n, j) /\ MarkOf(host'.n, j) # 5
    BY <1>1, <1>3 DEF MarkOf, Evens
  <2> QED BY <1>5, <2>1, <2>2, <2>3 DEF Stored
<1>8. InPid' => rx'.x3 = {6 - 2 * Evens(host'.n)}
  <2> SUFFICES ASSUME InPid' PROVE rx'.x3 = {6 - 2 * Evens(host'.n)}
    OBVIOUS
  <2>1. InPid
    BY <1>1, <1>3 DEF InPid
  <2>2. ~stuffed /\ rx.x3 = {6 - 2 * Evens(host.n)}
    BY <1>1, <2>1, PidBits DEF RecvInv, Heard, First
  <2>3. Evens(host'.n) = Evens(host.n)
    BY <1>1, <1>3 DEF Evens
  <2> QED BY <1>5, <2>2, <2>3
<1> HIDE DEF stuffed
<1>9. Decoded' /\ host'.byte \subseteq 0 .. host'.n - 1 /\ rx'.shift \in SUBSET Bits
  BY <1>1, <1>7, DecodedNext
<1>10. Heard'
  BY <1>1, <1>6, <1>7, <1>8, HeardNext
<1>11. Marks'
  BY <1>1, <1>3, <1>5 DEF Marks, RecvInv
<1>12. Turned'
  BY <1>1, <1>3, <1>4, <1>5, PairCounted DEF Turned
<1>13. Agreed'
  BY <1>1, <1>3, <1>5, <1>6 DEF Takes, Agreed, RecvInv
<1>14. Timing'
  <2>1. rx.leap \in -2 .. 7 /\ rx'.leap = rx.leap /\ pc' \in {"unstuffOdd", "even", "six", "overflow"}
    BY <1>1, <1>5, PairCounted DEF Registers
  <2>2. clock'.off = rx.leap + Lead /\ clock.off + 3 * clock.due - BitThirds = rx.leap + Lead
    BY <1>1, <1>5 DEF RecvInv, Timing, Stopped
  <2>3. Lead = -1 - Pairs /\ clock'.off \in -9 .. 9
    BY <1>1, <1>4, <2>1, <2>2 DEF Lead
  <2>4. clock'.due = IF pc' = "unstuffOdd" THEN 10 ELSE 11
    <3>1. AfterPair # "unstuffOdd"
      BY <1>1, PairCounted
    <3> QED BY <1>5, <3>1
  <2>5. ~Stopped' => clock'.off + 3 * clock'.due - BitThirds = rx'.leap + Lead'
    <3>1. CASE pc' = "unstuffOdd"
      BY <1>3, <1>4, <2>1, <2>2, <2>3, <2>4, <3>1 DEF Lead, BitThirds
    <3>2. CASE pc' = "even"
      BY <1>1, <1>3, <1>4, <1>5, <2>1, <2>2, <2>3, <2>4, <3>2, PairCounted DEF Lead, BitThirds
    <3>3. CASE pc' = "six"
      BY <1>1, <1>3, <1>4, <1>5, <2>1, <2>2, <2>3, <2>4, <3>3, PairCounted DEF Lead, BitThirds
    <3> QED BY <2>1, <3>1, <3>2, <3>3 DEF Stopped
  <2>6. 6 * rx'.leap + host'.ones <= 16 + 2 * host'.bytes + host'.n
    BY <1>1, <1>3, <2>1 DEF Takes, RecvInv, Timing, Hosts
  <2> QED BY <1>3, <2>1, <2>3, <2>5, <2>6 DEF Timing
<1>15. TypeOK'
  <2>1. AfterPair \in Samples
    BY <1>1, PairCounted DEF Samples
  <2>2. pc' \in Samples
    BY <1>5, <2>1 DEF Samples
  <2>3. (IF stuffed THEN 10 ELSE 11) \in 10 .. 12
    OBVIOUS
  <2> QED BY <1>5, <2>2, <2>3, SampleTypes
<1>16. Started'
  BY <1>1, <1>5, PairCounted DEF Started
<1> QED BY <1>5, <1>9, <1>10, <1>11, <1>12, <1>13, <1>14, <1>15, <1>16 DEF RecvInv

\* The sample of the PID's first bit: it is the same as the 1 before it if it is a 1, and
\* then nothing is set.
LEMMA Bit0Step ==
  ASSUME RecvInv, Takes, host' \in Hosts, haveTwoBitsK
  PROVE  RecvInv'
<1>1. /\ pc = "bit0" /\ host \in Hosts /\ rx \in Registers /\ host.n = 0 /\ host.bytes = 0
      /\ clock.off \in Int /\ First /\ InPid
  BY DEF RecvInv, TypeOK, Turned, haveTwoBitsK, Hosts, Registers, InPid, Heard
<1>2. host.ones = 1 /\ rx.x3 = {4}
  <2>1. host.ones \in 0 .. 5 /\ rx.x3 = {4}
    BY <1>1 DEF Takes, Hosts, First
  <2>2. Came(7) /\ ~Came(6) /\ ~Came(5) /\ ~Came(4) /\ ~Came(3) /\ ~Came(2)
    BY <1>1 DEF Came
  <2>3. host.ones # 0 /\ host.ones # 2 /\ host.ones # 3 /\ host.ones # 4 /\ host.ones # 5
    BY <1>1, <2>2 DEF First, Bits
  <2> QED BY <2>1, <2>3
<1>3. rx' = [rx EXCEPT !.shift = IF host'.line = "J" THEN {7} ELSE {}, !.prev = host'.line]
  BY DEF haveTwoBitsK
<1>4. /\ pc' = "odd" /\ right' = right
      /\ clock' = [due |-> 10, off |-> clock.off + 3 * clock.due - BitThirds]
  BY DEF haveTwoBitsK, Sample, StoresNone
<1>5. /\ rx'.prev = host'.line /\ rx'.x3 = {4} /\ rx'.shift = IF host'.line = "J" THEN {7} ELSE {}
      /\ rx'.bitcnt = rx.bitcnt /\ rx'.cnt = rx.cnt /\ rx'.leap = rx.leap
      /\ rx' \in Registers
  <2>1. host'.line \in Levels \cup {SE0} /\ (IF host'.line = "J" THEN {7} ELSE {}) \in SUBSET Bits
    BY DEF Hosts, Bits
  <2>2. rx' = [shift |-> IF host'.line = "J" THEN {7} ELSE {}, x3 |-> rx.x3, bitcnt |-> rx.bitcnt,
               cnt |-> rx.cnt, leap |-> rx.leap, prev |-> host'.line]
    BY <1>1, <1>3 DEF Registers
  <2>3. rx' \in Registers
    BY <1>1, <2>1, <2>2 DEF Registers
  <2> QED BY <1>2, <2>2, <2>3
<1>6. host'.n = 1 /\ host'.bytes = 0 /\ \A j : j \in host'.byte <=> j = 0 /\ Same
  BY <1>1 DEF Takes
<1>7. 7 \in rx'.shift <=> ~Same
  <2>1. host'.line \in {"J", "K"} /\ rx.prev \in {"J", "K"} /\ rx.prev = host.line
    BY DEF Takes, RecvInv, Agreed, Levels
  <2>2. host.line = "K"
    BY <1>1 DEF RecvInv, Started
  <2> QED BY <1>5, <2>1, <2>2 DEF Same
<1>8. Decoded' /\ host'.byte \subseteq 0 .. host'.n - 1
  <2>1. MarkOf(1, 0) = 4
    BY DEF MarkOf, Evens
  <2> QED BY <1>5, <1>6, <1>7, <2>1 DEF Decoded
<1>9. host'.ones = IF Same THEN 2 ELSE 0
  BY <1>2 DEF Takes
<1>10. First'
  <2>1. ASSUME NEW i \in Bits PROVE Came(i)' <=> (i = 7 /\ Same) \/ i = 6
    BY <1>6 DEF Came, Bits
  <2>2. ASSUME NEW i \in Bits PROVE (i > 7 - host'.ones => Came(i)') /\ (i = 7 - host'.ones => ~Came(i)')
    BY <1>9, <2>1 DEF Bits
  <2>3. \A i \in 0 .. 7 - host'.n : i \notin rx'.shift
    BY <1>5, <1>6
  <2> QED BY <1>5, <1>6, <1>9, <2>2, <2>3 DEF First, Evens
<1>11. Heard' /\ Marks'
  BY <1>5, <1>6, <1>10 DEF Heard, Marks, InPid
<1>12. Turned' /\ Agreed'
  BY <1>1, <1>4, <1>5, <1>6, <1>9, SE0IsNoLevel DEF Turned, Agreed, Takes, Unstuffs, RecvInv
<1>13. Counted'
  BY <1>1, <1>4, <1>5, <1>6 DEF Counted, Pairs, RecvInv
<1>14. Timing'
  BY <1>1, <1>2, <1>4, <1>5, <1>6, <1>9 DEF Timing, Lead, Stopped, BitThirds, RecvInv, Registers
<1>15. TypeOK'
  BY <1>4, <1>5, SampleTypes DEF Samples
<1> QED BY <1>4, <1>6, <1>8, <1>11, <1>12, <1>13, <1>14, <1>15 DEF RecvInv, Started

\* The sample of bit 6, with the leap cycle.
LEMMA SixStep ==
  ASSUME RecvInv, Takes, host' \in Hosts, rxByteLoop
  PROVE  RecvInv'
<1> DEFINE stuffed == SixOnes(Shifted)
           leap == Leap(rx.leap)
<1>1. pc = "six" /\ host \in Hosts /\ rx \in Registers /\ host.n = 6 /\ clock.off \in Int
  BY DEF RecvInv, TypeOK, Turned, rxByteLoop, Hosts, Registers
<1>2. stuffed <=> host'.ones = 6
  BY <1>1, SixthOne
<1>3. rx' = [rx EXCEPT !.prev = host'.line, !.leap = leap.leap,
                       !.x3 = IF stuffed THEN @ \cup {6} ELSE @,
                       !.shift = IF stuffed THEN Clear7(Shifted) ELSE Shifted]
  BY DEF rxByteLoop
<1>4. /\ pc' = IF stuffed THEN "unstuff6" ELSE "seven"
      /\ clock' = [due |-> leap.cycles, off |-> clock.off + 3 * clock.due - BitThirds] /\ right' = right
  BY DEF rxByteLoop, Sample, StoresNone
<1>5. rx'.shift = IF stuffed THEN Clear7(Shifted) ELSE Shifted
  BY <1>1, <1>3 DEF Registers
<1> HIDE DEF stuffed
<1>6. /\ leap.leap = IF rx.leap >= 1 THEN rx.leap - 1 ELSE rx.leap + 2
      /\ leap.cycles = IF rx.leap >= 1 THEN 11 ELSE 12
      /\ leap.leap \in -2 .. 7 /\ leap.leap >= 0
  BY <1>1 DEF Leap, Registers
<1> HIDE DEF leap
<1>7. /\ rx'.prev = host'.line /\ rx'.x3 = IF stuffed THEN rx.x3 \cup {6} ELSE rx.x3
      /\ rx'.bitcnt = rx.bitcnt /\ rx'.cnt = rx.cnt /\ rx'.leap = leap.leap
  BY <1>1, <1>3 DEF Registers
<1>8. host'.n = 7 /\ host'.bytes = host.bytes
  BY <1>1 DEF Takes
<1>9. Stored
  <2>1. MarkOf(host'.n, host'.n - 1) = 6 /\ 6 \notin rx.x3
    BY <1>1, <1>8 DEF MarkOf, Evens, RecvInv, Marks
  <2>2. ASSUME NEW j \in 0 .. host'.n - 2
        PROVE  MarkOf(host'.n, j) = MarkOf(host.n, j) /\ MarkOf(host'.n, j) # 6
    BY <1>1, <1>8 DEF MarkOf, Evens
  <2> QED BY <1>5, <1>7, <2>1, <2>2 DEF Stored, stuffed
<1>10. InPid' => rx'.x3 = {6 - 2 * Evens(host'.n)}
  <2> SUFFICES ASSUME InPid' PROVE rx'.x3 = {6 - 2 * Evens(host'.n)}
    OBVIOUS
  <2>1. InPid
    BY <1>1, <1>8 DEF InPid
  <2>2. ~stuffed /\ rx.x3 = {6 - 2 * Evens(host.n)}
    BY <1>1, <1>2, <2>1, PidBits DEF RecvInv, Heard, First
  <2> QED BY <1>1, <1>7, <1>8, <2>2 DEF Evens
<1>11. Unstuffs' <=> host'.ones = 6
  BY <1>2, <1>4 DEF Unstuffs
<1>12. Decoded' /\ host'.byte \subseteq 0 .. host'.n - 1 /\ rx'.shift \in SUBSET Bits
  BY <1>1, <1>9, DecodedNext
<1>13. Heard'
  BY <1>1, <1>9, <1>10, <1>11, HeardNext
<1>14. Marks'
  BY <1>1, <1>7, <1>8 DEF Marks, RecvInv
<1>15. Turned' /\ Agreed'
  BY <1>1, <1>4, <1>7, <1>8, <1>11, SE0IsNoLevel DEF Turned, Takes, Agreed, RecvInv
<1>16. Counted'
  BY <1>1, <1>4, <1>7, <1>8 DEF Counted, Pairs, RecvInv
<1>17. Timing'
  <2>1. /\ clock'.off = rx.leap - 2 /\ clock'.due = leap.cycles
        /\ 6 * rx.leap + host.ones <= 22 + 2 * host.bytes /\ rx.leap \in -2 .. 7
    <3>1. Lead = -2 /\ ~Stopped /\ rx.leap \in -2 .. 7
      BY <1>1 DEF Lead, Stopped, Registers
    <3>2. clock'.off = clock.off + 3 * clock.due - BitThirds /\ clock'.due = leap.cycles
      BY <1>4
    <3>3. host.ones \in Int /\ host.bytes \in Int
      BY <1>1, PhaseAssumption DEF Hosts
    <3>4. clock.off + 3 * clock.due - BitThirds = rx.leap - 2
      BY <3>1 DEF RecvInv, Timing
    <3>5. 6 * rx.leap + host.ones <= 16 + 2 * host.bytes + 6
      BY <1>1 DEF RecvInv, Timing
    <3> QED BY <3>1, <3>2, <3>3, <3>4, <3>5
  <2>2. ~Stopped' => clock'.off + 3 * clock'.due - BitThirds = rx'.leap + Lead'
    BY <1>4, <1>6, <1>7, <2>1 DEF Stopped, Lead, BitThirds
  <2>3. host'.ones \in 0 .. 6 /\ host'.ones <= host.ones + 1 /\ host.ones \in 0 .. 6 /\ host.bytes \in Nat
    BY <1>1, PhaseAssumption DEF Takes, Hosts
  <2>4. host.bytes = 0 => host'.ones # 6
    BY <1>1, PidBits DEF InPid
  <2>5. 6 * rx'.leap + host'.ones <= 17 + 2 * host'.bytes /\ host'.bytes \in Nat
    BY <1>6, <1>7, <1>8, <2>1, <2>3, <2>4
  <2> QED BY <1>6, <1>7, <1>8, <2>1, <2>2, <2>5 DEF Timing
<1>18. TypeOK'
  <2>1. rx'.x3 \in SUBSET Bits /\ rx'.prev \in Levels \cup {SE0}
    BY <1>1, <1>7 DEF Hosts, Registers, Bits
  <2>2. rx' \in Registers
    BY ZenonT(40), <1>1, <1>3, <1>6, <1>7, <1>12, <2>1 DEF Registers
  <2>3. pc' \in Samples /\ leap.cycles \in 10 .. 12 /\ right' = right
    BY <1>4, <1>6 DEF Samples
  <2>4. clock' = [due |-> leap.cycles, off |-> clock.off + 3 * clock.due - BitThirds]
    BY <1>4
  <2> QED BY <2>2, <2>3, <2>4, SampleTypes
<1> QED BY <1>4, <1>8, <1>12, <1>13, <1>14, <1>15, <1>16, <1>17, <1>18 DEF RecvInv, Started

\* Inverting the marked bits gives the byte.
LEMMA MarksInverted ==
  ASSUME NEW marks \in SUBSET Bits, NEW shift \in SUBSET Bits, NEW sum \in SUBSET Bits,
         \A j \in Bits : j \in sum <=> ~(j \in shift <=> j \in marks)
  PROVE  sum = Xor(marks, shift)
BY DEF Xor

\* The sample of bit 7: the byte is stored, unless a stuffed bit comes first.
LEMMA SevenStep ==
  ASSUME RecvInv, Takes, host' \in Hosts, didUnstuff6
  PROVE  RecvInv'
<1> DEFINE stuffed == SixOnes(Shifted)
<1>1. pc = "seven" /\ host \in Hosts /\ rx \in Registers /\ host.n = 7 /\ clock.off \in Int
  BY DEF RecvInv, TypeOK, Turned, didUnstuff6, Hosts, Registers
<1>2. stuffed <=> host'.ones = 6
  BY <1>1, SixthOne
<1>3. rx' = [rx EXCEPT !.prev = host'.line, !.x3 = IF stuffed THEN @ \cup {7} ELSE @,
                       !.shift = IF stuffed THEN Clear7(Shifted) ELSE Shifted]
  <2>1. CASE stuffed
    BY <1>1, <2>1 DEF didUnstuff6, Registers
  <2>2. CASE ~stuffed
    BY <1>1, <2>2 DEF didUnstuff6, Registers
  <2> QED BY <2>1, <2>2
<1>4. /\ pc' = IF stuffed THEN "unstuff7" ELSE "even"
      /\ clock' = [due |-> IF stuffed THEN 10 ELSE 11, off |-> clock.off + 3 * clock.due - BitThirds]
  BY DEF didUnstuff6, Sample
<1>5. rx'.shift = IF stuffed THEN Clear7(Shifted) ELSE Shifted
  BY <1>1, <1>3 DEF Registers
<1>6. IF stuffed THEN right' = right ELSE right' = (right /\ Xor(rx.x3, Shifted) = host'.byte)
  BY DEF didUnstuff6, Stores, StoresNone
<1> HIDE DEF stuffed
<1>7. /\ rx'.prev = host'.line /\ rx'.x3 = IF stuffed THEN rx.x3 \cup {7} ELSE rx.x3
      /\ rx'.bitcnt = rx.bitcnt /\ rx'.cnt = rx.cnt /\ rx'.leap = rx.leap
  BY <1>1, <1>3 DEF Registers
<1>8. host'.n = 8 /\ host'.bytes = host.bytes + 1 /\ host.bytes \in Nat /\ host'.bytes > 0
  BY <1>1, PhaseAssumption DEF Takes, Hosts
<1>9. Stored
  <2>1. MarkOf(host'.n, host'.n - 1) = 7 /\ 7 \notin rx.x3
    BY <1>1, <1>8 DEF MarkOf, Evens, RecvInv, Marks
  <2>2. ASSUME NEW j \in 0 .. host'.n - 2
        PROVE  MarkOf(host'.n, j) = MarkOf(host.n, j) /\ MarkOf(host'.n, j) # 7
    BY <1>1, <1>8 DEF MarkOf, Evens
  <2> QED BY <1>5, <1>7, <2>1, <2>2 DEF Stored, stuffed
<1>10. ~InPid'
  BY <1>8 DEF InPid
<1>11. Unstuffs' <=> host'.ones = 6
  BY <1>2, <1>4 DEF Unstuffs
<1>12. Decoded' /\ host'.byte \subseteq 0 .. host'.n - 1 /\ rx'.shift \in SUBSET Bits
  BY <1>1, <1>9, DecodedNext
<1>13. Heard'
  BY <1>1, <1>9, <1>10, <1>11, HeardNext
<1>14. Marks'
  BY <1>8 DEF Marks
<1>15. Turned' /\ Agreed'
  BY <1>1, <1>4, <1>7, <1>8, <1>11, SE0IsNoLevel DEF Turned, Takes, Agreed, RecvInv
<1>16. Counted'
  <2>1. rx.cnt = 10 - host.bytes /\ rx.cnt >= 0 /\ rx.bitcnt = 84 - host.bytes
    <3>1. Pairs = 3
      BY <1>1 DEF Pairs
    <3>2. rx.bitcnt = 84 - host.bytes /\ rx.cnt = BufSize - host.bytes - 1 /\ rx.cnt \in 0 .. BufSize
      BY <1>1, <3>1 DEF Counted, RecvInv, Registers
    <3> QED BY <1>8, <3>2 DEF BufSize
  <2>2. Pairs' = 0 /\ pc' # "overflow"
    BY <1>4, <1>8 DEF Pairs
  <2> QED BY <1>7, <1>8, <2>1, <2>2 DEF Counted, BufSize
<1>17. Timing'
  <2>1. host.ones \in Int /\ rx.leap \in -2 .. 7 /\ rx.leap >= 0
    BY <1>1 DEF Hosts, RecvInv, Timing, Registers
  <2>2. Lead = 0 /\ ~Stopped
    BY <1>1 DEF Lead, Stopped
  <2>3. clock.off + 3 * clock.due - BitThirds = rx.leap + 0
    BY <2>2 DEF RecvInv, Timing
  <2>4. 6 * rx.leap + host.ones <= 16 + 2 * host.bytes + 1
    BY <1>1 DEF RecvInv, Timing
  <2>5. clock'.off = rx.leap /\ clock'.due = IF stuffed THEN 10 ELSE 11
    BY <1>4, <2>1, <2>3
  <2>6. ~Stopped' => clock'.off + 3 * clock'.due - BitThirds = rx'.leap + Lead'
    BY <1>4, <1>7, <1>8, <2>1, <2>5 DEF Lead, BitThirds
  <2>7. 6 * rx'.leap + host'.ones <= 16 + 2 * host'.bytes
    <3>1. host'.ones \in Int /\ host'.ones <= host.ones + 1
      BY <1>1 DEF Takes, Hosts
    <3> QED BY <1>7, <1>8, <2>1, <2>4, <3>1
  <2>8. host'.bytes \in Nat
    BY <1>8
  <2> QED BY <1>7, <1>8, <2>1, <2>5, <2>6, <2>7, <2>8 DEF Timing
<1>18. TypeOK'
  <2>1. rx'.x3 \in SUBSET Bits /\ rx'.prev \in Levels \cup {SE0}
    BY <1>1, <1>7 DEF Hosts, Registers, Bits
  <2>2. rx' \in Registers
    BY ZenonT(40), <1>1, <1>3, <1>12, <2>1 DEF Registers
  <2>3. right' \in BOOLEAN
    BY <1>6 DEF RecvInv, TypeOK
  <2> QED BY <1>4, <2>2, <2>3, SampleTypes DEF Samples
<1>19. right'
  <2>1. ASSUME ~stuffed PROVE Xor(rx.x3, Shifted) = host'.byte
    <3>1. rx.x3 \in SUBSET Bits /\ Shifted \in SUBSET Bits /\ host'.byte \in SUBSET Bits
      BY <1>1, ShiftedBits DEF Registers, RecvInv, Hosts
    <3>2. \A j \in Bits : MarkOf(8, j) = j
      BY DEF MarkOf, Evens, Bits
    <3>3. host'.line # SE0
      BY SE0IsNoLevel DEF Takes
    <3>4. \A j \in Bits : j \in host'.byte <=> ~(8 - 8 + j \in rx'.shift <=> MarkOf(8, j) \in rx'.x3)
      BY <1>8, <1>12, <3>3 DEF Decoded, Bits
    <3>5. \A j \in Bits : j \in host'.byte <=> ~(j \in Shifted <=> j \in rx.x3)
      <4>1. \A j \in Bits : 8 - 8 + j = j
        BY DEF Bits
      <4> QED BY <1>5, <1>7, <2>1, <3>2, <3>4, <4>1
    <3> QED BY ZenonT(40), <3>1, <3>5, MarksInverted
  <2> QED BY <1>6, <2>1 DEF RecvInv
<1>20. Started'
  BY <1>4 DEF Started
<1> QED BY <1>12, <1>13, <1>14, <1>15, <1>16, <1>17, <1>18, <1>19, <1>20 DEF RecvInv

\* A stuffed bit changes no register that holds bits, and the host counts 1s from 0 again.
LEMMA StuffedStep ==
  ASSUME RecvInv, Stuffs, host' \in Hosts, ~Unstuffs',
         rx'.shift = rx.shift, rx'.x3 = rx.x3, rx'.prev = host'.line
  PROVE  Decoded' /\ Marks' /\ Heard' /\ Agreed' /\ host'.byte \subseteq 0 .. host'.n - 1
<1>1. host'.n = host.n /\ host'.byte = host.byte /\ host'.bytes = host.bytes /\ host'.ones = 0
  BY DEF Stuffs
<1>2. host.line # SE0 /\ host'.line # SE0 /\ Unstuffs /\ host.ones = 6
  BY SE0IsNoLevel DEF Stuffs, RecvInv, Agreed
<1>3. ~InPid /\ ~InPid'
  BY <1>1, <1>2 DEF InPid, RecvInv, Heard, First
<1>4. Decoded'
  BY <1>1, <1>2 DEF RecvInv, Decoded
<1>5. Marks'
  BY <1>1 DEF RecvInv, Marks
<1>6. Heard'
  <2>1. 7 \notin rx.shift
    BY <1>2, <1>3 DEF RecvInv, Heard
  <2>2. EndsWith(rx'.shift, 0)
    BY <2>1 DEF EndsWith, Bits
  <2> QED BY <1>1, <1>3, <2>2 DEF Heard
<1>7. Agreed'
  BY <1>1, <1>2 DEF Agreed, RecvInv
<1> QED BY <1>1, <1>4, <1>5, <1>6, <1>7 DEF RecvInv

\* A bit stuffed behind bit 0, 2 or 4.
LEMMA UnstuffEvenStep ==
  ASSUME RecvInv, Stuffs, host' \in Hosts, unstuffEven
  PROVE  RecvInv'
<1>1. /\ pc = "unstuffEven" /\ host \in Hosts /\ rx \in Registers /\ host.n \in {1, 3, 5} /\ clock.off \in Int
      /\ host.bytes \in Nat /\ host'.line # SE0
  BY SE0IsNoLevel, PhaseAssumption
     DEF RecvInv, TypeOK, Turned, unstuffEven, Hosts, Registers, Stuffs
<1>2. host'.n = host.n /\ host'.bytes = host.bytes /\ host'.ones = 0 /\ host.ones = 6
  BY DEF Stuffs
<1>3. rx' = [rx EXCEPT !.prev = host'.line, !.leap = @ + 1]
  BY DEF unstuffEven
<1>4. /\ pc' = "odd" /\ right' = right
      /\ clock' = [due |-> 11, off |-> clock.off + 3 * clock.due - BitThirds]
  BY <1>1 DEF unstuffEven, Sample, StoresNone
<1>5. /\ rx'.prev = host'.line /\ rx'.x3 = rx.x3 /\ rx'.shift = rx.shift
      /\ rx'.bitcnt = rx.bitcnt /\ rx'.cnt = rx.cnt /\ rx'.leap = rx.leap + 1
  BY <1>1, <1>3 DEF Registers
<1>6. Decoded' /\ Marks' /\ Heard' /\ Agreed' /\ host'.byte \subseteq 0 .. host'.n - 1
  BY <1>4, <1>5, StuffedStep DEF Unstuffs
<1>7. Turned' /\ Started'
  BY <1>1, <1>2, <1>4 DEF Turned, Started
<1>8. Counted'
  <2>1. Pairs' = Pairs
    BY <1>1, <1>2, <1>4 DEF Pairs
  <2> QED BY <1>1, <1>2, <1>4, <1>5, <2>1 DEF RecvInv, Counted
<1>9. rx.leap \in -2 .. 7 /\ host.bytes <= 11 /\ 6 * rx.leap + 6 <= 16 + 2 * host.bytes + host.n
  BY <1>1, <1>2 DEF Registers, RecvInv, Counted, BufSize, Timing
<1>10. Timing'
  <2>1. Lead' = Lead /\ Lead \in -3 .. -1
    BY <1>1, <1>2, <1>4 DEF Lead
  <2>2. clock'.off = rx.leap + Lead /\ clock'.due = 11
    BY <1>1, <1>4 DEF RecvInv, Timing, Stopped
  <2>3. clock'.off + 3 * clock'.due - BitThirds = rx'.leap + Lead'
    BY <1>5, <1>9, <2>1, <2>2 DEF BitThirds
  <2>4. 6 * rx'.leap + host'.ones <= 16 + 2 * host'.bytes + host'.n
    BY <1>1, <1>2, <1>5, <1>9
  <2> QED BY <1>1, <1>2, <1>4, <1>9, <2>1, <2>2, <2>3, <2>4 DEF Timing
<1>11. TypeOK'
  <2>1. rx.leap + 1 \in -2 .. 7
    BY <1>1, <1>9
  <2>2. rx' \in Registers
    BY ZenonT(40), <1>1, <1>3, <2>1 DEF Registers, Hosts
  <2> QED BY <1>4, <2>2, SampleTypes DEF Samples
<1> QED BY <1>4, <1>6, <1>7, <1>8, <1>10, <1>11 DEF RecvInv

\* A bit stuffed behind bit 1, 3 or 5: the pair is counted now.
LEMMA UnstuffOddStep ==
  ASSUME RecvInv, Stuffs, host' \in Hosts, unstuffOdd
  PROVE  RecvInv'
<1>1. /\ pc = "unstuffOdd" /\ host \in Hosts /\ rx \in Registers /\ host.n \in {2, 4, 6} /\ clock.off \in Int
      /\ host.bytes \in Nat /\ host'.line # SE0
  BY SE0IsNoLevel, PhaseAssumption
     DEF RecvInv, TypeOK, Turned, unstuffOdd, Hosts, Registers, Stuffs
<1>2. host'.n = host.n /\ host'.bytes = host.bytes /\ host'.ones = 0 /\ host.ones = 6
  BY DEF Stuffs
<1>3. Pairs \in 0 .. 2 /\ host.n = 2 * (Pairs + 1)
  BY <1>1 DEF Pairs
<1>4. rx.leap \in -2 .. 7 /\ host.bytes <= 11 /\ 6 * rx.leap + 6 <= 16 + 2 * host.bytes + host.n
  BY <1>1, <1>2 DEF Registers, RecvInv, Counted, BufSize, Timing
<1>5. /\ pc' = AfterPair /\ right' = right
      /\ clock' = [due |-> 12, off |-> clock.off + 3 * clock.due - BitThirds]
  BY <1>1 DEF unstuffOdd, Sample, StoresNone
<1>6. /\ rx' \in Registers /\ Counted'
      /\ rx'.prev = host'.line /\ rx'.shift = rx.shift /\ rx'.leap = rx.leap + 1 /\ rx'.x3 = rx.x3
  <2>1. rx.leap + 1 \in -2 .. 7 /\ rx.shift \in SUBSET Bits /\ host'.line \in Levels \cup {SE0}
    BY <1>1, <1>4 DEF Registers, Hosts
  <2>2. NextRegisters(rx.shift, rx.leap + 1)
    BY <1>1, PairCounted DEF NextRegisters, unstuffOdd, Registers
  <2> QED BY <1>1, <1>2, <1>3, <1>5, <2>1, <2>2, PairStep
<1>7. /\ pc' = IF host.n # 6 THEN "even" ELSE IF host.bytes = BufSize THEN "overflow" ELSE "six"
      /\ pc' \notin {"unstuffEven", "unstuffOdd", "unstuff6", "unstuff7", "bit0"}
  BY <1>1, <1>3, <1>5, PairCounted
<1>8. Decoded' /\ Marks' /\ Heard' /\ Agreed' /\ host'.byte \subseteq 0 .. host'.n - 1
  BY <1>6, <1>7, StuffedStep DEF Unstuffs
<1>9. Turned' /\ Started'
  BY <1>1, <1>2, <1>7 DEF Turned, Started
<1>10. Timing'
  <2>1. Lead \in -5 .. -3
    BY <1>1 DEF Lead
  <2>2. clock'.off = rx.leap + Lead /\ clock'.due = 12
    BY <1>1, <1>5 DEF RecvInv, Timing, Stopped
  <2>3. ~Stopped' => clock'.off + 3 * clock'.due - BitThirds = rx'.leap + Lead'
    <3>1. CASE pc' = "even"
      <4>1. host.n \in {2, 4} /\ Lead' = Lead + 3
        BY <1>1, <1>2, <1>7, <3>1 DEF Lead
      <4> QED BY <1>4, <1>6, <2>1, <2>2, <4>1 DEF BitThirds
    <3>2. CASE pc' = "six"
      <4>1. host.n = 6 /\ Lead' = Lead + 3
        BY <1>1, <1>2, <1>7, <3>2 DEF Lead
      <4> QED BY <1>4, <1>6, <2>1, <2>2, <4>1 DEF BitThirds
    <3> QED BY <1>7, <3>1, <3>2 DEF Stopped
  <2>4. 6 * rx'.leap + host'.ones <= 16 + 2 * host'.bytes + host'.n
    BY <1>1, <1>2, <1>4, <1>6
  <2> QED BY <1>1, <1>2, <1>4, <1>7, <2>1, <2>2, <2>3, <2>4 DEF Timing
<1>11. TypeOK'
  <2>1. pc' \in Samples
    BY <1>7 DEF Samples
  <2> QED BY <1>5, <1>6, <2>1, SampleTypes
<1> QED BY <1>5, <1>6, <1>8, <1>9, <1>10, <1>11 DEF RecvInv

\* A bit stuffed behind bit 6.
LEMMA Unstuff6Step ==
  ASSUME RecvInv, Stuffs, host' \in Hosts, unstuff6
  PROVE  RecvInv'
<1>1. /\ pc = "unstuff6" /\ host \in Hosts /\ rx \in Registers /\ host.n = 7 /\ clock.off \in Int
      /\ host.bytes \in Nat
  BY PhaseAssumption DEF RecvInv, TypeOK, Turned, unstuff6, Hosts, Registers
<1>2. host'.n = host.n /\ host'.bytes = host.bytes /\ host'.ones = 0 /\ host.ones = 6
  BY DEF Stuffs
<1>3. rx' = [rx EXCEPT !.prev = host'.line, !.leap = @ + 1]
  BY DEF unstuff6
<1>4. /\ pc' = "seven" /\ right' = right
      /\ clock' = [due |-> 11, off |-> clock.off + 3 * clock.due - BitThirds]
  BY DEF unstuff6, Sample, StoresNone
<1>5. /\ rx'.prev = host'.line /\ rx'.x3 = rx.x3 /\ rx'.shift = rx.shift
      /\ rx'.bitcnt = rx.bitcnt /\ rx'.cnt = rx.cnt /\ rx'.leap = rx.leap + 1
  BY <1>1, <1>3 DEF Registers
<1>6. Decoded' /\ Marks' /\ Heard' /\ Agreed' /\ host'.byte \subseteq 0 .. host'.n - 1
  BY <1>4, <1>5, StuffedStep DEF Unstuffs
<1>7. Turned' /\ Started'
  BY <1>1, <1>2, <1>4 DEF Turned, Started
<1>8. Counted'
  <2>1. Pairs' = Pairs
    BY <1>1, <1>2, <1>4 DEF Pairs
  <2> QED BY <1>1, <1>2, <1>4, <1>5, <2>1 DEF RecvInv, Counted
<1>9. rx.leap \in 0 .. 7 /\ host.bytes <= 11 /\ 6 * rx.leap + 6 <= 16 + 2 * host.bytes + 1
  BY <1>1, <1>2 DEF Registers, RecvInv, Counted, BufSize, Timing
<1>10. Timing'
  <2>1. Lead' = 0 /\ Lead = 0
    BY <1>1, <1>4 DEF Lead
  <2>2. clock'.off = rx.leap /\ clock'.due = 11
    BY <1>1, <1>4, <1>9, <2>1 DEF RecvInv, Timing, Stopped
  <2>3. clock'.off + 3 * clock'.due - BitThirds = rx'.leap + Lead'
    BY <1>5, <1>9, <2>1, <2>2 DEF BitThirds
  <2>4. 6 * rx'.leap + host'.ones <= 16 + 2 * host'.bytes + 1
    BY <1>1, <1>2, <1>5, <1>9
  <2> QED BY <1>1, <1>2, <1>4, <1>5, <1>9, <2>2, <2>3, <2>4 DEF Timing
<1>11. TypeOK'
  <2>1. rx.leap + 1 \in -2 .. 7
    BY <1>1, <1>9
  <2>2. rx' \in Registers
    BY ZenonT(40), <1>1, <1>3, <2>1 DEF Registers, Hosts
  <2> QED BY <1>4, <2>2, SampleTypes DEF Samples
<1> QED BY <1>4, <1>6, <1>7, <1>8, <1>10, <1>11 DEF RecvInv

\* A bit stuffed behind bit 7: the byte is stored now.
LEMMA Unstuff7Step ==
  ASSUME RecvInv, Stuffs, host' \in Hosts, unstuff7
  PROVE  RecvInv'
<1>1. /\ pc = "unstuff7" /\ host \in Hosts /\ rx \in Registers /\ host.n = 8 /\ clock.off \in Int
      /\ host.bytes \in Nat
  BY PhaseAssumption DEF RecvInv, TypeOK, Turned, unstuff7, Hosts, Registers
<1>2. /\ host'.n = host.n /\ host'.bytes = host.bytes /\ host'.byte = host.byte
      /\ host'.ones = 0 /\ host.ones = 6
  BY DEF Stuffs
<1>3. rx' = [rx EXCEPT !.prev = host'.line, !.leap = @ - 2]
  BY DEF unstuff7
<1>4. /\ pc' = "even" /\ right' = (right /\ Xor(rx.x3, rx.shift) = host'.byte)
      /\ clock' = [due |-> 11, off |-> clock.off + 3 * clock.due - BitThirds]
  BY DEF unstuff7, Sample, Stores
<1>5. /\ rx'.prev = host'.line /\ rx'.x3 = rx.x3 /\ rx'.shift = rx.shift
      /\ rx'.bitcnt = rx.bitcnt /\ rx'.cnt = rx.cnt /\ rx'.leap = rx.leap - 2
  BY <1>1, <1>3 DEF Registers
<1>6. Decoded' /\ Marks' /\ Heard' /\ Agreed' /\ host'.byte \subseteq 0 .. host'.n - 1
  BY <1>4, <1>5, StuffedStep DEF Unstuffs
<1>7. Turned' /\ Started'
  BY <1>1, <1>2, <1>4 DEF Turned, Started
<1>8. Counted'
  <2>1. Pairs' = Pairs
    BY <1>1, <1>2, <1>4 DEF Pairs
  <2> QED BY <1>1, <1>2, <1>4, <1>5, <2>1 DEF RecvInv, Counted
<1>9. rx.leap \in 0 .. 7 /\ host.bytes <= 11 /\ 6 * rx.leap + 6 <= 16 + 2 * host.bytes
  BY <1>1, <1>2 DEF Registers, RecvInv, Counted, BufSize, Timing
<1>10. Timing'
  <2>1. Lead' = 1 /\ Lead = -2
    BY <1>1, <1>2, <1>4 DEF Lead
  <2>2. clock'.off = rx.leap - 2 /\ clock'.due = 11
    BY <1>1, <1>4, <1>9, <2>1 DEF RecvInv, Timing, Stopped
  <2>3. clock'.off + 3 * clock'.due - BitThirds = rx'.leap + Lead'
    BY <1>5, <1>9, <2>1, <2>2 DEF BitThirds
  <2>4. 6 * rx'.leap + host'.ones <= 16 + 2 * host'.bytes
    BY <1>1, <1>2, <1>5, <1>9
  <2> QED BY <1>1, <1>2, <1>4, <1>5, <1>9, <2>2, <2>3, <2>4 DEF Timing
<1>11. TypeOK'
  <2>1. rx.leap - 2 \in -2 .. 7
    BY <1>1, <1>9
  <2>2. rx' \in Registers
    BY ZenonT(40), <1>1, <1>3, <2>1 DEF Registers, Hosts
  <2>3. right' \in BOOLEAN
    BY <1>4 DEF RecvInv, TypeOK
  <2> QED BY <1>4, <2>2, <2>3, SampleTypes DEF Samples
<1>12. right'
  <2>1. rx.x3 \in SUBSET Bits /\ rx.shift \in SUBSET Bits /\ host.byte \in SUBSET Bits
    BY <1>1 DEF Registers, Hosts
  <2>2. \A j \in Bits : MarkOf(8, j) = j /\ 8 - 8 + j = j
    BY DEF MarkOf, Evens, Bits
  <2>3. host.line # SE0
    BY SE0IsNoLevel DEF Stuffs
  <2>4. \A j \in Bits : j \in host.byte <=> ~(8 - 8 + j \in rx.shift <=> MarkOf(8, j) \in rx.x3)
    BY <1>1, <2>3 DEF RecvInv, Decoded, Bits
  <2>5. \A j \in Bits : j \in host.byte <=> ~(j \in rx.shift <=> j \in rx.x3)
    BY <2>2, <2>4
  <2> QED BY <1>2, <1>4, <2>1, <2>5, MarksInverted DEF RecvInv
<1> QED BY <1>6, <1>7, <1>8, <1>10, <1>11, <1>12 DEF RecvInv

\* SE0 comes where bit 0 of a byte would be.
LEMMA EndInEven ==
  ASSUME RecvInv, Ends, host' \in Hosts, rxBitLoop
  PROVE  RecvInv'
<1> DEFINE stuffed == SixOnes(Shifted)
<1>1. /\ pc = "even" /\ host \in Hosts /\ rx \in Registers /\ host.n = 8 /\ clock.off \in Int
      /\ host.bytes \in Nat /\ host.line # SE0 /\ host.ones # 6 /\ rx.prev = host.line
  BY PhaseAssumption DEF RecvInv, TypeOK, Turned, Agreed, rxBitLoop, Hosts, Registers, Ends
<1>2. /\ host'.n = 8 /\ host'.byte = host.byte /\ host'.bytes = host.bytes /\ host'.ones = host.ones
      /\ host'.line = SE0
  BY DEF Ends
<1>3. ~stuffed
  <2>1. ~Same /\ 8 \notin rx.shift
    BY <1>1, <1>2 DEF Same, Registers, Bits
  <2>2. 7 \notin Shifted
    BY <2>1, ShiftedBits DEF RecvInv, Bits
  <2> QED BY <2>2 DEF SixOnes
<1>4. rx' = [rx EXCEPT !.prev = host'.line, !.x3 = MarkEven(@, stuffed), !.shift = Shifted]
  BY <1>1, <1>3 DEF rxBitLoop, Registers
<1>5. /\ pc' = "odd" /\ right' = right
      /\ clock' = [due |-> 10, off |-> clock.off + 3 * clock.due - BitThirds]
  BY <1>3 DEF rxBitLoop, Sample, StoresNone
<1>6. stuffed \in BOOLEAN
  BY DEF SixOnes
<1> HIDE DEF stuffed
<1>7. /\ rx'.prev = SE0 /\ rx'.bitcnt = rx.bitcnt /\ rx'.cnt = rx.cnt /\ rx'.leap = rx.leap
      /\ rx' \in Registers
  <2>1. MarkEven(rx.x3, stuffed) \in SUBSET Bits
    BY <1>1, <1>6, MarkEvenBits DEF Registers, Bits
  <2>2. Shifted \in SUBSET Bits /\ host'.line \in Levels \cup {SE0}
    BY ShiftedBits DEF RecvInv, Hosts
  <2> QED BY ZenonT(40), <1>1, <1>2, <1>4, <2>1, <2>2 DEF Registers
<1>8. Turned' /\ Started' /\ Agreed'
  BY <1>1, <1>2, <1>5, <1>7 DEF Turned, Started, Agreed, Unstuffs, RecvInv
<1>9. Counted'
  <2>1. Pairs' = Pairs
    BY <1>1, <1>2, <1>5 DEF Pairs
  <2> QED BY <1>1, <1>2, <1>5, <1>7, <2>1 DEF RecvInv, Counted
<1>10. Timing'
  <2>1. Lead' = -1 /\ Lead = 1 /\ rx.leap \in -2 .. 7
    BY <1>1, <1>2, <1>5 DEF Lead, Registers
  <2>2. clock'.off = rx.leap + 1 /\ clock'.due = 10
    BY <1>1, <1>5, <2>1 DEF RecvInv, Timing, Stopped
  <2>3. clock'.off + 3 * clock'.due - BitThirds = rx'.leap + Lead'
    BY <1>7, <2>1, <2>2 DEF BitThirds
  <2>4. 6 * rx'.leap + host'.ones <= 16 + 2 * host'.bytes + 0
    BY <1>1, <1>2, <1>7 DEF RecvInv, Timing
  <2> QED BY <1>2, <1>5, <2>1, <2>2, <2>3, <2>4 DEF Timing
<1>11. Decoded' /\ Marks' /\ Heard' /\ host'.byte \subseteq 0 .. host'.n - 1
  <2>1. Decoded' /\ Marks'
    BY <1>2 DEF Decoded, Marks
  <2>2. ~InPid' /\ ~(Unstuffs')
    BY <1>2, <1>5 DEF InPid, Unstuffs
  <2>3. Heard'
    BY <1>2, <2>2 DEF Heard
  <2>4. host'.byte \subseteq 0 .. host'.n - 1
    BY <1>1, <1>2 DEF RecvInv
  <2> QED BY <2>1, <2>3, <2>4
<1>12. TypeOK'
  BY <1>5, <1>7, SampleTypes DEF Samples
<1> QED BY <1>5, <1>8, <1>9, <1>10, <1>11, <1>12 DEF RecvInv

\* SE0 is still there at the next sample.
LEMMA EndInOdd ==
  ASSUME RecvInv, Ends, host' \in Hosts, rxbit1
  PROVE  RecvInv'
<1>1. /\ pc = "odd" /\ host \in Hosts /\ rx \in Registers /\ host.n = 8 /\ host.line = SE0
      /\ clock.off \in Int /\ host.bytes \in Nat
  BY PhaseAssumption DEF RecvInv, TypeOK, Turned, rxbit1, Hosts, Registers, Ends
<1>2. /\ host'.n = 8 /\ host'.byte = host.byte /\ host'.bytes = host.bytes /\ host'.ones = host.ones
      /\ host'.line = SE0
  BY DEF Ends
<1>3. /\ pc' = "se0" /\ right' = right /\ rx' = rx
      /\ clock' = [due |-> 10, off |-> clock.off + 3 * clock.due - BitThirds]
  BY <1>2 DEF rxbit1, Sample, StoresNone
<1>4. Turned' /\ Started' /\ Agreed'
  BY <1>1, <1>2, <1>3 DEF Turned, Started, Agreed, Unstuffs, RecvInv
<1>5. Counted'
  <2>1. Pairs' = Pairs
    BY <1>1, <1>2, <1>3 DEF Pairs
  <2> QED BY <1>1, <1>2, <1>3, <2>1 DEF RecvInv, Counted
<1>6. Timing'
  <2>1. Lead = -1 /\ rx.leap \in -2 .. 7
    BY <1>1 DEF Lead, Registers
  <2>2. clock'.off = rx.leap - 1
    BY <1>1, <1>3, <2>1 DEF RecvInv, Timing, Stopped
  <2>3. 6 * rx'.leap + host'.ones <= 16 + 2 * host'.bytes + 0
    BY <1>1, <1>2, <1>3 DEF RecvInv, Timing
  <2> QED BY <1>2, <1>3, <2>1, <2>2, <2>3 DEF Timing, Stopped
<1>7. Decoded' /\ Marks' /\ Heard' /\ host'.byte \subseteq 0 .. host'.n - 1
  <2>1. Decoded' /\ Marks'
    BY <1>2 DEF Decoded, Marks
  <2>2. ~InPid' /\ ~(Unstuffs')
    BY <1>2, <1>3 DEF InPid, Unstuffs
  <2>3. Heard'
    BY <1>2, <2>2 DEF Heard
  <2>4. host'.byte \subseteq 0 .. host'.n - 1
    BY <1>1, <1>2 DEF RecvInv
  <2> QED BY <2>1, <2>3, <2>4
<1>8. TypeOK'
  <2>1. rx' \in Registers
    BY <1>1, <1>3
  <2> QED BY <1>3, <2>1, SampleTypes DEF Samples
<1> QED BY <1>3, <1>4, <1>5, <1>6, <1>7, <1>8 DEF RecvInv

\* Every step of the two keeps the invariant: a bit of a byte, a stuffed one and SE0 each
\* come where the receiver samples for them.
LEMMA RecvNextInv == RecvInv /\ [Next]_vars => RecvInv'
<1> SUFFICES ASSUME RecvInv, [Next]_vars PROVE RecvInv'
  OBVIOUS
<1>1. CASE UNCHANGED vars
  BY <1>1 DEF vars, RecvInv, TypeOK, Turned, Started, Agreed, Unstuffs, Counted, Pairs, Timing,
     Lead,
     Stopped, Decoded, Marks, Heard, First, Came, InPid
<1>2. CASE Next
  <2>1. HostBit /\ Receiver
    BY <1>2 DEF Next
  <2>2. (Takes \/ Stuffs \/ Ends) /\ host' \in Hosts
    BY <2>1, HostSteps
  <2>3. CASE Takes
    <3>1. pc \notin {"unstuffEven", "unstuffOdd", "unstuff6", "unstuff7"}
      BY <2>3 DEF Takes, RecvInv, Agreed, Unstuffs
    <3>2. haveTwoBitsK \/ rxBitLoop \/ rxbit1 \/ rxByteLoop \/ didUnstuff6
      BY <2>1, <3>1 DEF Receiver, unstuffEven, unstuffOdd, unstuff6, unstuff7
    <3> QED BY <2>2, <2>3, <3>2, Bit0Step, EvenStep, OddStep, SixStep, SevenStep
  <2>4. CASE Stuffs
    <3>1. pc \in {"unstuffEven", "unstuffOdd", "unstuff6", "unstuff7"}
      BY <2>4 DEF Stuffs, RecvInv, Agreed, Unstuffs
    <3>2. unstuffEven \/ unstuffOdd \/ unstuff6 \/ unstuff7
      BY <2>1, <3>1 DEF Receiver, haveTwoBitsK, rxBitLoop, rxbit1, rxByteLoop, didUnstuff6
    <3> QED BY <2>2, <2>4, <3>2, UnstuffEvenStep, UnstuffOddStep, Unstuff6Step, Unstuff7Step
  <2>5. CASE Ends
    <3>1. pc \in {"even", "odd", "se0"}
      BY <2>5 DEF Ends, RecvInv, Turned, Agreed, Unstuffs
    <3>2. rxBitLoop \/ rxbit1
      BY <2>1, <3>1 DEF Receiver, haveTwoBitsK, rxByteLoop, didUnstuff6, unstuffEven, unstuffOdd,
         unstuff6, unstuff7
    <3> QED BY <2>2, <2>5, <3>2, EndInEven, EndInOdd
  <2> QED BY <2>2, <2>3, <2>4, <2>5
<1> QED BY <1>1, <1>2

\* The 1 of the pattern's last bit counts towards the first stuffed bit.
LEMMA RecvInitInv == Init => RecvInv
<1> SUFFICES ASSUME Init PROVE RecvInv
  OBVIOUS
<1>1. /\ host.line = "K" /\ host.ones = 1 /\ host.byte = {} /\ host.n = 0 /\ host.bytes = 0
      /\ pc = "bit0" /\ right = TRUE /\ clock.due = 11 /\ clock.off = 0
      /\ rx.shift = {} /\ rx.x3 = {4} /\ rx.bitcnt = 85 /\ rx.cnt = 11 /\ rx.leap = 0 /\ rx.prev = "K"
  BY DEF Init, BufSize
<1>2. TypeOK
  BY PhaseAssumption DEF Init, TypeOK, Levels, Bits, BufSize
<1>3. Turned /\ Started /\ Agreed
  <2>1. "K" # SE0
    BY DEF SE0
  <2> QED BY <1>1, <2>1, PhaseAssumption DEF Turned, Started, Agreed, Unstuffs
<1>4. Counted /\ Timing
  BY <1>1 DEF Counted, Pairs, BufSize, Timing, Lead, Stopped, BitThirds
<1>5. host.byte \subseteq 0 .. host.n - 1 /\ Decoded /\ Marks
  BY <1>1 DEF Decoded, Marks
<1>6. Heard
  <2>1. \A i \in Bits : Came(i) <=> i = 7
    BY <1>1 DEF Came, Bits
  <2>2. First
    BY <1>1, <2>1 DEF First, Bits
  <2> QED BY <1>1, <2>2 DEF Heard, InPid, Unstuffs
<1> QED BY <1>1, <1>2, <1>3, <1>4, <1>5, <1>6 DEF RecvInv

\* The receiver's variables have their types: leap in particular stays within its range.
THEOREM ReceiveTypes == Spec => []TypeOK
<1>1. RecvInv => TypeOK
  BY DEF RecvInv
<1> QED BY <1>1, RecvInitInv, RecvNextInv, PTL DEF Spec

\* Whatever the packet, the bytes that are stored are those that were sent, and as many of
\* them as there is room for.
THEOREM PacketAlwaysRight == Spec => []PacketRight
<1>1. RecvInv => PacketRight
  <2> SUFFICES ASSUME RecvInv PROVE PacketRight
    OBVIOUS
  <2>1. host.bytes \in Nat /\ host.bytes <= 11 /\ right
    BY PhaseAssumption DEF RecvInv, TypeOK, Counted, BufSize
  <2>2. ASSUME pc = "se0" PROVE BufSize - rx.cnt = host.bytes
    <3>1. host.n = 8
      BY <2>2 DEF RecvInv, Turned
    <3>2. Pairs = 0
      BY <3>1 DEF Pairs
    <3>3. rx.cnt = BufSize - host.bytes
      BY <2>1, <2>2, <3>2 DEF RecvInv, Counted, BufSize
    <3> QED BY <2>1, <3>3 DEF BufSize
  <2>3. ASSUME pc = "overflow" PROVE host.bytes = BufSize /\ host.n = 6
    BY <2>3 DEF RecvInv, Turned, Counted
  <2> QED BY <2>1, <2>2, <2>3 DEF PacketRight, BufSize
<1> QED BY <1>1, RecvInitInv, RecvNextInv, PTL DEF Spec

\* However many bits are stuffed, no sample is far from the centre of its bit.
THEOREM SamplesAreCentred == Spec => []SampleCentred
<1>1. RecvInv => SampleCentred
  <2> SUFFICES ASSUME RecvInv, NEW phase \in Phases
               PROVE  clock.off + phase \in -(3 * (BitThirds \div 8)) .. 3 * (BitThirds \div 8)
    BY DEF SampleCentred
  <2>1. clock.off \in -9 .. 9 /\ phase \in -3 .. 3
    BY PhaseAssumption DEF RecvInv, Timing
  <2>2. 3 * (BitThirds \div 8) = 12
    BY DEF BitThirds
  <2> QED BY <2>1, <2>2
<1> QED BY <1>1, RecvInitInv, RecvNextInv, PTL DEF Spec
=============================================================================
