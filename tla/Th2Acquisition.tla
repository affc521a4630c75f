--------------------------- MODULE Th2Acquisition ---------------------------
(***************************************************************************)
(* The second device's firmware (th2, main.c): two interrupt handlers that *)
(* share a state variable and the I2C master.  TC1_Handler, the tick,      *)
(* starts a measurement every POLL_DELAY ticks and fetches it some ticks   *)
(* later; SERCOM0_Handler carries each transaction on, publishes a fresh   *)
(* sample in usb_val and writes the two DACs.  Neither handler looks       *)
(* whether the other's transaction is over before it starts one.           *)
(*                                                                         *)
(* Both interrupts have the same priority: a handler is never interrupted  *)
(* by the other, and an action is a whole run of TC1_Handler, or one       *)
(* iteration of a loop of SERCOM0_Handler.                                 *)
(***************************************************************************)
EXTENDS I2cBus

CONSTANTS
  POLL_DELAY,   \* ticks between two measurements
  CALIB_DELAY,  \* ticks between calibration high and low
  HIH_DELAY,    \* ticks from a request's end to its fetch: the 2 of line 153
  TICKS,        \* cur_tick is unsigned and wraps here: 2^32 in the code
  Stall,        \* a transaction may outlast a tick (a slave stretches the clock)
  Switch        \* the positions the calibration switch is put in

ASSUME DelayAssumption ==
  /\ POLL_DELAY \in Nat \ {0} /\ CALIB_DELAY \in Nat \ {0} /\ HIH_DELAY \in Nat
  /\ TICKS \in Nat \ {0}
ASSUME StallAssumption == Stall \in BOOLEAN
ASSUME SwitchAssumption == Switch \subseteq BOOLEAN /\ Switch # {}

VARIABLES
  state, bytes_read, hih_val, usb_val, cur_tick, hih_request_at,
  tdac_val, hdac_val,
  poll_cnt,    \* the static of TC1_Handler
  pressed,     \* the calibration switch pulls its pin low
  published    \* history: the samples published since they were converted

fwVars == <<state, bytes_read, hih_val, usb_val, cur_tick, hih_request_at,
            tdac_val, hdac_val, poll_cnt, published>>
vars   == <<busVars, fwVars, pressed>>

STATE_IDLE        == 0
STATE_HIH_REQUEST == 1
STATE_HIH_RECEIVE == 2
STATE_DAC0_WRITE  == 3
STATE_DAC1_WRITE  == 6
\* The state in which DAC d is addressed; its two bytes follow in the next two.
STATE_DAC_WRITE(d) == IF d = 0 THEN STATE_DAC0_WRITE ELSE STATE_DAC1_WRITE

TypeOK ==
  /\ BusTypeOK
  /\ state \in 0 .. 8
  /\ bytes_read \in 0 .. 3
  /\ hih_val \in [0 .. 3 -> HihBytes]
  /\ usb_val \in [{0, 1} -> Words]
  /\ cur_tick \in 0 .. TICKS - 1 /\ hih_request_at \in 0 .. TICKS - 1
  /\ tdac_val \in Words /\ hdac_val \in Words
  /\ poll_cnt \in 0 .. POLL_DELAY - 1
  /\ pressed \in Switch
  /\ published \subseteq Samples

Init ==
  /\ BusInit
  /\ state = STATE_IDLE /\ bytes_read = 0
  /\ hih_val = [i \in 0 .. 3 |-> [id |-> 0, pos |-> 0, status |-> 0]]
  /\ usb_val = [i \in {0, 1} |-> Zero]
  /\ cur_tick = 0 /\ hih_request_at = 0
  /\ tdac_val = Zero /\ hdac_val = Zero
  /\ poll_cnt = 0 /\ published = {}
  /\ pressed \in Switch

-----------------------------------------------------------------------------
(***************************************************************************)
(* TC1_Handler.                                                            *)
(***************************************************************************)
Tick == (cur_tick + 1) % TICKS

\* Mutant: the calibration switch sets one DAC value only.
CalibrateTemperatureOnly ==
  IF pressed
  THEN tdac_val' = (IF (Tick \div CALIB_DELAY) % 2 = 1 THEN Full ELSE Zero)
       /\ UNCHANGED hdac_val
  ELSE UNCHANGED <<tdac_val, hdac_val>>

\* With the switch pressed the DAC values alternate between the two ends.
CalibrationLevel(now) == IF (now \div CALIB_DELAY) % 2 = 1 THEN Full ELSE Zero
Calibrate ==
  IF pressed
  THEN tdac_val' = CalibrationLevel(Tick) /\ hdac_val' = CalibrationLevel(Tick)
  ELSE UNCHANGED <<tdac_val, hdac_val>>

\* Mutant: the request does not set the state.
RequestKeepsState == UNCHANGED state /\ WriteAddr(HihWrite)

\* Line 291: a request is a write without data.
request_measurement == state' = STATE_HIH_REQUEST /\ WriteAddr(HihWrite)

FetchDue == Tick = hih_request_at
PollDue  == poll_cnt + 1 >= POLL_DELAY

\* When both fall on one tick the request's ADDR write follows the fetch's.
StartTransaction ==
  \/ PollDue /\ request_measurement
  \/ ~PollDue /\ FetchDue /\ state' = STATE_HIH_RECEIVE /\ WriteAddr(HihRead)
  \/ ~PollDue /\ ~FetchDue
       /\ UNCHANGED <<state, op, mb, sb, target, acked, nbytes, data, shift, snap>>

\* Mutant: a fetch does not reset bytes_read.
TC1_HandlerKeepsCount ==
  /\ Stall \/ BusQuiet
  /\ ConvTick
  /\ cur_tick' = Tick
  /\ Calibrate
  /\ StartTransaction
  /\ poll_cnt' = IF PollDue THEN 0 ELSE poll_cnt + 1
  /\ UNCHANGED <<sample, unread, dac, bytes_read, hih_val, usb_val,
                 hih_request_at, published, pressed>>

TC1_Handler ==
  /\ Stall \/ BusQuiet
  /\ ConvTick
  /\ cur_tick' = Tick
  /\ Calibrate
  /\ StartTransaction
  /\ bytes_read' = IF FetchDue THEN 0 ELSE bytes_read
  /\ poll_cnt' = IF PollDue THEN 0 ELSE poll_cnt + 1
  /\ UNCHANGED <<sample, unread, dac, hih_val, usb_val,
                 hih_request_at, published, pressed>>

-----------------------------------------------------------------------------
(***************************************************************************)
(* SERCOM0_Handler, the loop on MB.                                        *)
(***************************************************************************)
\* Mutant: the fetch is not put on the calendar.
RequestSentForgotten ==
  /\ mb /\ state = STATE_HIH_REQUEST
  /\ EndOrClear
  /\ UNCHANGED <<state, bytes_read, hih_val, usb_val, cur_tick, hih_request_at,
                 tdac_val, hdac_val, poll_cnt, published, pressed>>

\* The request is out, acknowledged or not: stop, and fetch it later.
RequestSent ==
  /\ mb /\ state = STATE_HIH_REQUEST
  /\ EndOrClear
  /\ hih_request_at' = (cur_tick + HIH_DELAY) % TICKS
  /\ UNCHANGED <<state, bytes_read, hih_val, usb_val, cur_tick, tdac_val,
                 hdac_val, poll_cnt, published, pressed>>

\* Mutant: both DACs get the temperature.
DacValueOfTemperature(d) == tdac_val

\* The DAC values are read anew for each byte.
DacValue(d) == IF d = 0 THEN tdac_val ELSE hdac_val

\* Mutant: the low byte goes first.
DacByteSwapped(d, k) ==
  /\ mb /\ state = STATE_DAC_WRITE(d) + k
  /\ WriteData(DacValue(d), IF k = 0 THEN "low" ELSE "high")
  /\ state' = state + 1
  /\ UNCHANGED <<bytes_read, hih_val, usb_val, cur_tick, hih_request_at, tdac_val,
                 hdac_val, poll_cnt, published, pressed>>

\* The DAC's address is out, or its first byte: the next byte.
DacByte(d, k) ==
  /\ mb /\ state = STATE_DAC_WRITE(d) + k
  /\ WriteData(DacValue(d), IF k = 0 THEN "high" ELSE "low")
  /\ state' = state + 1
  /\ UNCHANGED <<bytes_read, hih_val, usb_val, cur_tick, hih_request_at, tdac_val,
                 hdac_val, poll_cnt, published, pressed>>

\* DAC 0 has its bytes: stop, and address DAC 1.
Dac0Written ==
  /\ mb /\ state = STATE_DAC0_WRITE + 2
  /\ state' = STATE_DAC1_WRITE
  /\ WriteAddr(Dac(1))
  /\ UNCHANGED <<conv, sample, unread, dac, bytes_read, hih_val, usb_val, cur_tick,
                 hih_request_at, tdac_val, hdac_val, poll_cnt, published, pressed>>

Dac1Written ==
  /\ mb /\ state = STATE_DAC1_WRITE + 2
  /\ state' = STATE_IDLE
  /\ EndOrClear
  /\ UNCHANGED <<bytes_read, hih_val, usb_val, cur_tick, hih_request_at, tdac_val,
                 hdac_val, poll_cnt, published, pressed>>

-----------------------------------------------------------------------------
(***************************************************************************)
(* SERCOM0_Handler, the loop on SB.                                        *)
(***************************************************************************)
NextByte ==
  /\ sb /\ ~mb /\ state = STATE_HIH_RECEIVE /\ bytes_read < 3
  /\ hih_val' = [hih_val EXCEPT ![bytes_read] = Received]
  /\ bytes_read' = bytes_read + 1
  /\ ReadDataAndContinue
  /\ UNCHANGED <<state, usb_val, cur_tick, hih_request_at, tdac_val, hdac_val,
                 poll_cnt, published, pressed>>

\* Bytes 0 and 1 of one answer are its humidity, 2 and 3 its temperature.
OneAnswer(val, i) ==
  val[i].id = val[i + 1].id /\ val[i].pos = i /\ val[i + 1].pos = i + 1
Humidity(val)    == IF OneAnswer(val, 0) THEN HumidOf(val[0].id) ELSE Torn
Temperature(val) == IF OneAnswer(val, 2) THEN TempOf(val[2].id) ELSE Torn

\* A fresh sample goes to USB and, unless the switch is pressed, to the DACs.
Publish(val) ==
  /\ usb_val' = [i \in {0, 1} |-> IF i = 0 THEN Temperature(val) ELSE Humidity(val)]
  /\ published' = published \cup {val[0].id}
  /\ IF pressed THEN UNCHANGED <<tdac_val, hdac_val>>
     ELSE tdac_val' = Temperature(val) /\ hdac_val' = Humidity(val)

\* Mutant: the status bits are not looked at.
FreshAlways(val) == TRUE

Fresh(val) == val[0].status = 0

\* Mutant: bytes_read goes on counting.
LastByteKeepsCount ==
  /\ sb /\ ~mb /\ state = STATE_HIH_RECEIVE /\ bytes_read = 3
  /\ hih_val' = [hih_val EXCEPT ![bytes_read] = Received]
  /\ bytes_read' = bytes_read + 1
  /\ IF Fresh(hih_val') THEN Publish(hih_val')
     ELSE UNCHANGED <<usb_val, tdac_val, hdac_val, published>>
  /\ state' = STATE_DAC0_WRITE
  /\ WriteAddr(Dac(0))
  /\ UNCHANGED <<conv, sample, unread, dac, cur_tick, hih_request_at, poll_cnt, pressed>>

\* The fourth byte: stop, publish, and begin with DAC 0.
LastByte ==
  /\ sb /\ ~mb /\ state = STATE_HIH_RECEIVE /\ bytes_read = 3
  /\ hih_val' = [hih_val EXCEPT ![bytes_read] = Received]
  /\ bytes_read' = 0
  /\ IF Fresh(hih_val') THEN Publish(hih_val')
     ELSE UNCHANGED <<usb_val, tdac_val, hdac_val, published>>
  /\ state' = STATE_DAC0_WRITE
  /\ WriteAddr(Dac(0))
  /\ UNCHANGED <<conv, sample, unread, dac, cur_tick, hih_request_at, poll_cnt, pressed>>

-----------------------------------------------------------------------------
\* A flag the state has no use for: the default branch of the loop on MB and
\* the else branch of the loop on SB clear it (and turn the red light on).
Unexpected ==
  /\ IF mb THEN state \in {STATE_IDLE, STATE_HIH_RECEIVE}
     ELSE sb /\ state # STATE_HIH_RECEIVE
  /\ EndOrClear
  /\ UNCHANGED <<state, bytes_read, hih_val, usb_val, cur_tick, hih_request_at,
                 tdac_val, hdac_val, poll_cnt, published, pressed>>

-----------------------------------------------------------------------------
(***************************************************************************)
(* The whole device.                                                       *)
(***************************************************************************)
SERCOM0_Handler ==
  \/ RequestSent
  \/ \E d \in {0, 1}, k \in {0, 1} : DacByte(d, k)
  \/ Dac0Written
  \/ Dac1Written
  \/ NextByte
  \/ LastByte
  \/ Unexpected

Transfer ==
  /\ WriteAddrDone \/ ReadAddrAcked \/ ReadAddrNacked \/ ByteRead \/ ByteWritten
  /\ UNCHANGED <<fwVars, pressed>>

NewSample ==
  /\ ConversionDone
  /\ published' = published \ {sample'}
  /\ UNCHANGED <<state, bytes_read, hih_val, usb_val, cur_tick, hih_request_at,
                 tdac_val, hdac_val, poll_cnt, pressed>>

SwitchMoves == pressed' \in Switch \ {pressed} /\ UNCHANGED <<busVars, fwVars>>

Next ==
  \/ TC1_Handler \/ SERCOM0_Handler
  \/ Transfer \/ NewSample \/ SwitchMoves

Spec == Init /\ [][Next]_vars

(***************************************************************************)
(* Fairness: TC1 runs freely and its interrupt and SERCOM0's are enabled   *)
(* for good (lines 324, 357, 368 to 370); the main loop does nothing else. *)
(* The bus and the sensor finish what they began.                          *)
(***************************************************************************)
FairSpec ==
  /\ Spec
  /\ WF_vars(TC1_Handler) /\ WF_vars(SERCOM0_Handler)
  /\ WF_vars(Transfer) /\ WF_vars(NewSample)

-----------------------------------------------------------------------------
(***************************************************************************)
(* Safety.                                                                 *)
(***************************************************************************)
\* The state and the bus agree, whenever the tick falls: the transaction on
\* the bus is the one the state is about, the handler that takes its next
\* flag is at the byte the bus is at, and SB only comes while receiving.
AgreeWithBus ==
  /\ state = STATE_HIH_REQUEST => target = HihWrite
  /\ state = STATE_HIH_RECEIVE => target = HihRead
  /\ \A d \in {0, 1}, k \in 0 .. 2 :
       state = STATE_DAC_WRITE(d) + k => target = Dac(d) /\ (mb => nbytes = k)
  /\ sb => state = STATE_HIH_RECEIVE /\ bytes_read = nbytes - 1
  /\ mb => state # STATE_IDLE

\* The temperature and the humidity published for USB are whole numbers of one
\* and the same sample, also when a tick gives up a fetch half-way and a later
\* fetch overwrites hih_val.
SampleWhole ==
  \/ usb_val[0] = Zero /\ usb_val[1] = Zero
  \/ \E s \in Samples : usb_val[0] = TempOf(s) /\ usb_val[1] = HumidOf(s)

\* A DAC is never left with the high byte of one value and the low byte of
\* another, although the value is read anew for each byte, as long as
\* either no tick falls inside a transaction or the switch is left alone.
NeverTorn == (~Stall \/ Switch = {FALSE}) => \A d \in {0, 1} : dac[d] # Torn

\* Each conversion is published at most once: a sample fetched a second time,
\* because a request was not acknowledged, is told by its status and dropped.
NoSampleTwice ==
  [][(LastByte /\ Fresh(hih_val')) => hih_val'[0].id \notin published]_vars

\* If transactions fit in a tick, a DAC that acknowledged its address shows,
\* when its transaction ends, the value the firmware holds for it then.
DacShowsValue ==
  [][(~Stall /\ acked) => (Dac0Written => dac[0] = tdac_val)
                          /\ (Dac1Written => dac[1] = hdac_val)]_vars

\* The handler meets a flag its state has no use for, which it reports with the
\* red light, only when the sensor did not acknowledge a fetch.
UnexpectedOnlyNack == [][Unexpected => target = HihRead /\ ~acked /\ mb]_vars

(***************************************************************************)
(* Liveness, of FairSpec with transactions that fit in a tick.             *)
(***************************************************************************)
Healthy == <>[][Transfer /\ op = "addr" => acked']_vars

\* Once the slaves acknowledge their addresses again, samples are published
\* forever, whatever the handlers had gone through before.
SamplesFlow == Healthy => \A s \in Samples : []<>(usb_val[0] = TempOf(s))

\* With the switch held, both ends of the range reach both DACs again and again:
\* the measurements that make the DACs be written sample both half-periods.
CalibrationSeen ==
  (Healthy /\ <>[]pressed) =>
    \A d \in {0, 1}, level \in {Zero, Full} : []<>(dac[d] = level)
=============================================================================
