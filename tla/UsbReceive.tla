------------------------------ MODULE UsbReceive ------------------------------
(***************************************************************************)
(* The first device's receiver, usbdrvasm16.inc, from the second K of the  *)
(* synchronisation pattern to the end of the packet.  A step is a sample   *)
(* of the line: the host puts its next bit there, the receiver decodes it  *)
(* and counts the cycles until it samples again.  A bit that is followed   *)
(* by a stuffed one is stored as 0 and marked in x3; eor restores it when  *)
(* the byte is whole.                                                       *)
(***************************************************************************)
EXTENDS UsbLine

CONSTANTS
  Phases,    \* thirds of a cycle by which the first edge may be seen too late
  MaxBytes   \* the longest packet of the host

\* "{3, 5} after falling D- edge, average delay: 4 cycles" (foundK).
ASSUME PhaseAssumption == Phases \subseteq -3 .. 3 /\ MaxBytes \in Nat \ {0}

VARIABLES
  host,    \* the line, and the byte the host is sending
  pc,      \* the sample that comes next
  rx,      \* the receiver's registers: shift, x3, bitcnt, cnt, leap, and the
           \* level sampled last
  right,   \* the bytes stored are those that were sent
  clock    \* cycles to the next sample, and how far the last was off its bit's centre

vars == <<host, pc, rx, right, clock>>

BufSize == 11   \* USB_BUFSIZE
SE0     == "SE0"

TypeOK ==
  /\ host \in [line : Levels \cup {SE0}, ones : 0 .. 6, byte : SUBSET Bits, n : 0 .. 8, bytes : 0 .. MaxBytes]
  /\ pc \in {"bit0", "even", "odd", "six", "seven", "unstuffEven", "unstuffOdd", "unstuff6",
             "unstuff7", "se0", "overflow"}
  /\ rx \in [shift : SUBSET Bits, x3 : SUBSET Bits, bitcnt : 0 .. 255, cnt : 0 .. BufSize,
             leap : -2 .. 7, prev : Levels \cup {SE0}] /\ right \in BOOLEAN
  /\ clock \in [due : 10 .. 12, off : Int]

\* The first sample comes 11 cycles after the centre of the last bit of the pattern.
Init ==
  /\ host = [line |-> "K", ones |-> 1, byte |-> {}, n |-> 0, bytes |-> 0]
  /\ pc = "bit0"
  /\ rx = [shift |-> {}, x3 |-> {4}, bitcnt |-> 85, cnt |-> BufSize, leap |-> 0, prev |-> "K"]
  /\ right = TRUE /\ clock = [due |-> 11, off |-> 0]

-----------------------------------------------------------------------------
(***************************************************************************)
(* The host.                                                               *)
(***************************************************************************)
\* The first byte is a PID: its upper half is the complement of its lower half.
MaySend(bit) ==
  host.bytes = 0 /\ host.n \in 4 .. 7 => (bit <=> host.n - 4 \notin host.byte)

DataBit(bit) ==
  LET wire == Put([line |-> host.line, ones |-> host.ones], bit)
      n    == host.n % 8 IN
  /\ host.ones < 6 /\ host.line # SE0
  /\ MaySend(bit)
  /\ host.n = 8 => host.bytes < MaxBytes
  /\ host' = [line |-> wire.line, ones |-> wire.ones, n |-> n + 1,
              byte |-> (IF n = 0 THEN {} ELSE host.byte) \cup (IF bit THEN {n} ELSE {}),
              bytes |-> IF n = 7 THEN host.bytes + 1 ELSE host.bytes]

StuffedBit ==
  /\ host.ones = 6 /\ host.line # SE0
  /\ host' = [host EXCEPT !.line = Toggled(@), !.ones = 0]

EndOfPacket ==
  /\ host.n = 8 /\ (host.ones < 6 \/ host.line = SE0)
  /\ host' = [host EXCEPT !.line = SE0]

HostBit == (\E bit \in BOOLEAN : DataBit(bit)) \/ StuffedBit \/ EndOfPacket

-----------------------------------------------------------------------------
(***************************************************************************)
(* The receiver.                                                           *)
(***************************************************************************)
\* The sample is taken; the next one comes in so many cycles.
Sample(next, cycles) ==
  /\ pc' = next
  /\ clock' = [due |-> cycles, off |-> clock.off + 3 * clock.due - BitThirds]

Stores(byte) == right' = (right /\ byte = host'.byte)
StoresNone   == UNCHANGED right

Same     == host'.line = rx.prev
Shifted  == Ror(rx.shift, Same)
Clear7(reg) == reg \ {7}
Lsr2(reg)   == {i - 2 : i \in reg \ {0, 1}}

\* bitcnt counts three pairs of bits: adding 0x55 carries twice of three times.
MorePairs == rx.bitcnt < 171

NextPair  == [rx EXCEPT !.bitcnt = (@ + 85) % 256, !.cnt = IF MorePairs \/ @ = 0 THEN @ ELSE @ - 1]
AfterPair == IF MorePairs THEN "even" ELSE IF rx.cnt = 0 THEN "overflow" ELSE "six"

\* The first bit is taken as it is, and comes out inverted.
haveTwoBitsK ==
  /\ pc = "bit0" /\ Sample("odd", 10) /\ StoresNone
  /\ rx' = [rx EXCEPT !.shift = IF host'.line = "J" THEN {7} ELSE {}, !.prev = host'.line]

\* Mutant: a mark made for bit 0, 2 or 4 starts one place too low.
MarkEvenLow(x3, stuffed) == Lsr2((x3 \ {6, 7}) \cup (IF stuffed THEN {5} ELSE {}))

MarkEven(x3, stuffed) == Lsr2((x3 \ {6, 7}) \cup (IF stuffed THEN {6} ELSE {}))

rxBitLoop ==
  LET stuffed == SixOnes(Shifted) IN
  /\ pc = "even" /\ Sample(IF stuffed THEN "unstuffEven" ELSE "odd", 10) /\ StoresNone
  /\ rx' = [rx EXCEPT !.prev = host'.line, !.x3 = MarkEven(@, stuffed),
                      !.shift = IF stuffed THEN Clear7(Shifted) ELSE Shifted]

rxbit1 ==
  /\ pc = "odd" /\ StoresNone
  /\ CASE host'.line = SE0 -> Sample("se0", 10) /\ UNCHANGED rx
       [] host'.line # SE0 /\ SixOnes(Shifted) ->
            /\ Sample("unstuffOdd", 10)
            /\ rx' = [rx EXCEPT !.prev = host'.line, !.x3 = @ \cup {5}, !.shift = Clear7(Shifted)]
       [] OTHER ->
            /\ Sample(AfterPair, 11)
            /\ rx' = [NextPair EXCEPT !.prev = host'.line, !.shift = Shifted]

\* Mutant: no leap cycle is ever inserted.
LeapNever(leap) == [leap |-> leap, cycles |-> 11]

\* One more cycle in every third byte, later for every bit that took 11 cycles to unstuff.
Leap(leap) ==
  IF leap - 1 >= 0 THEN [leap |-> leap - 1, cycles |-> 11] ELSE [leap |-> leap + 2, cycles |-> 12]

rxByteLoop ==
  LET stuffed == SixOnes(Shifted)
      leap    == Leap(rx.leap) IN
  /\ pc = "six" /\ Sample(IF stuffed THEN "unstuff6" ELSE "seven", leap.cycles) /\ StoresNone
  /\ rx' = [rx EXCEPT !.prev = host'.line, !.leap = leap.leap,
                      !.x3 = IF stuffed THEN @ \cup {6} ELSE @,
                      !.shift = IF stuffed THEN Clear7(Shifted) ELSE Shifted]

didUnstuff6 ==
  LET stuffed == SixOnes(Shifted) IN
  /\ pc = "seven" /\ Sample(IF stuffed THEN "unstuff7" ELSE "even", IF stuffed THEN 10 ELSE 11)
  /\ IF stuffed
     THEN /\ rx' = [rx EXCEPT !.prev = host'.line, !.x3 = @ \cup {7}, !.shift = Clear7(Shifted)]
          /\ StoresNone
     ELSE rx' = [rx EXCEPT !.prev = host'.line, !.shift = Shifted] /\ Stores(Xor(rx.x3, Shifted))

\* The stuffed bit is sampled as the level the next one is compared with.
unstuffEven ==
  /\ pc = "unstuffEven" /\ Sample(IF host'.line = SE0 THEN "se0" ELSE "odd", 11) /\ StoresNone
  /\ rx' = [rx EXCEPT !.prev = host'.line, !.leap = @ + 1]

unstuffOdd ==
  /\ pc = "unstuffOdd" /\ Sample(IF host'.line = SE0 THEN "se0" ELSE AfterPair, 12) /\ StoresNone
  /\ rx' = [NextPair EXCEPT !.prev = host'.line, !.leap = @ + 1]

unstuff6 ==
  /\ pc = "unstuff6" /\ Sample("seven", 11) /\ StoresNone
  /\ rx' = [rx EXCEPT !.prev = host'.line, !.leap = @ + 1]

unstuff7 ==
  /\ pc = "unstuff7" /\ Sample("even", 11)
  /\ rx' = [rx EXCEPT !.prev = host'.line, !.leap = @ - 2]
  /\ Stores(Xor(rx.x3, rx.shift))

Receiver ==
  \/ haveTwoBitsK \/ rxBitLoop \/ rxbit1 \/ rxByteLoop \/ didUnstuff6
  \/ unstuffEven \/ unstuffOdd \/ unstuff6 \/ unstuff7

Next == HostBit /\ Receiver

Spec == Init /\ [][Next]_vars

-----------------------------------------------------------------------------
\* Every byte that is stored is the one the host sent, wherever bits were stuffed, the
\* length the rest of the driver is given is that of the packet, and no more is stored
\* than the buffer holds (asmcommon.inc, se0 and overflow).
PacketRight ==
  /\ right
  /\ pc = "se0" => BufSize - rx.cnt = host.bytes
  /\ pc = "overflow" => host.bytes = BufSize /\ host.n = 6
  /\ host.bytes > BufSize => pc = "overflow"

\* However many bits are stuffed and whenever the edge was seen, every sample is within
\* three eighths of a bit of its centre.
SampleCentred ==
  \A phase \in Phases : clock.off + phase \in -(3 * (BitThirds \div 8)) .. 3 * (BitThirds \div 8)
=============================================================================
