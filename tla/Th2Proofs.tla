------------------------------ MODULE Th2Proofs ------------------------------
(***************************************************************************)
(* Proofs about Th2Acquisition, for every value of its constants: whatever *)
(* the delays, however long a transaction takes, wherever ticks fall.      *)
(***************************************************************************)
EXTENDS Th2Acquisition, TLAPS

\* Where the bus stands in the transaction of each state.
Addressing ==
  op = "addr" =>
    /\ nbytes = 0 /\ ~mb /\ ~sb
    /\ state \in {STATE_HIH_REQUEST, STATE_HIH_RECEIVE, STATE_DAC0_WRITE, STATE_DAC1_WRITE}
    /\ state = STATE_HIH_RECEIVE => bytes_read = 0

Reading ==
  op = "read" =>
    /\ ~mb /\ ~sb
    /\ state = STATE_HIH_RECEIVE /\ nbytes = bytes_read

Writing ==
  op = "write" =>
    /\ ~mb /\ ~sb
    /\ \E d \in {0, 1}, k \in {1, 2} : state = STATE_DAC_WRITE(d) + k /\ nbytes = k - 1

Flags ==
  /\ mb => ~sb /\ op = "none"
  /\ sb => op = "none" /\ nbytes \in 1 .. 4

Phases == Addressing /\ Reading /\ Writing /\ Flags

\* What makes TypeOK and AgreeWithBus inductive.
IInv == TypeOK /\ AgreeWithBus /\ Phases

\* What the constants are made of belongs to the types the variables have.
LEMMA Constants ==
  /\ Zero \in Words /\ Full \in Words /\ Torn \in Words
  /\ 0 \in Samples
  /\ \A s \in Samples : TempOf(s) \in Words /\ HumidOf(s) \in Words
  /\ \A s \in Samples : (s + 1) % NSAMPLES \in Samples
  /\ HihWrite \in Targets /\ HihRead \in Targets
  /\ Dac(0) \in Targets /\ Dac(1) \in Targets
  /\ NoByte \in Bytes
<1>1. Zero \in Words /\ Full \in Words /\ Torn \in Words
  BY DEF Words
<1>2. 0 \in Samples
  BY SamplesAssumption DEF Samples
<1>3. \A s \in Samples : TempOf(s) \in Words /\ HumidOf(s) \in Words
  BY SamplesAssumption DEF Samples, Words, TempOf, HumidOf
<1>4. \A s \in Samples : (s + 1) % NSAMPLES \in Samples
  BY SamplesAssumption DEF Samples
<1>5. /\ HihWrite \in Targets /\ HihRead \in Targets
      /\ Dac(0) \in Targets /\ Dac(1) \in Targets
  BY DEF Targets
<1>6. NoByte \in Bytes
  BY <1>1 DEF NoByte, Bytes
<1> QED BY <1>1, <1>2, <1>3, <1>4, <1>5, <1>6

\* The bus is idle at the start.
THEOREM InitIInv == Init => IInv
<1> SUFFICES ASSUME Init PROVE IInv
  OBVIOUS
<1> USE Constants, DelayAssumption DEF Init, BusInit
<1>1. BusTypeOK
  <2>1. snap \in [id : Samples, status : {0, 1}]
    BY DEF NoAnswer
  <2>2. dac \in [{0, 1} -> Words]
    OBVIOUS
  <2>3. conv \in 0 .. CONV_TICKS + 1
    BY ConvAssumption
  <2>4. mb \in BOOLEAN /\ sb \in BOOLEAN /\ acked \in BOOLEAN /\ unread \in BOOLEAN
    OBVIOUS
  <2>5. nbytes \in 0 .. 4
    OBVIOUS
  <2>6. /\ op \in {"none", "addr", "write", "read"}
        /\ target \in Targets /\ sample \in Samples
    OBVIOUS
  <2>7. data \in Bytes /\ shift \in Bytes
    OBVIOUS
  <2> QED BY <2>1, <2>2, <2>3, <2>4, <2>5, <2>6, <2>7, Zenon DEF BusTypeOK
<1>2. TypeOK
  BY <1>1 DEF TypeOK, HihBytes, STATE_IDLE
<1>3. AgreeWithBus /\ Phases
  BY DEF AgreeWithBus, Phases, Addressing, Reading, Writing, Flags,
     STATE_IDLE, STATE_HIH_REQUEST, STATE_HIH_RECEIVE, STATE_DAC_WRITE,
     STATE_DAC0_WRITE, STATE_DAC1_WRITE
<1> QED BY <1>2, <1>3 DEF IInv

\* What the SERCOM's DATA holds when SB is set.
LEMMA ReceivedType == IInv /\ sb => Received \in HihBytes
<1> SUFFICES ASSUME IInv, sb PROVE Received \in HihBytes
  OBVIOUS
<1>1. nbytes - 1 \in 0 .. 3
  BY DEF IInv, Phases, Flags
<1>2. snap.id \in Samples /\ snap.status \in {0, 1}
  BY DEF IInv, TypeOK, BusTypeOK
<1> QED BY <1>1, <1>2 DEF Received, HihBytes

\* Two bytes never make anything but a word.
LEMMA JoinedType == ASSUME NEW x \in Bytes, NEW y \in Bytes PROVE Joined(x, y) \in Words
<1>1. x.word \in Words
  BY DEF Bytes
<1> QED BY <1>1, Constants DEF Joined

\* Every step of the bus, of the handlers and of the main loop preserves IInv.
THEOREM StepIInv == IInv /\ [Next]_vars => IInv'
<1> SUFFICES ASSUME IInv, [Next]_vars PROVE IInv'
  OBVIOUS
<1> USE DEF IInv, Phases, Addressing, Reading, Writing, Flags, AgreeWithBus,
        STATE_IDLE, STATE_HIH_REQUEST, STATE_HIH_RECEIVE, STATE_DAC_WRITE,
        STATE_DAC0_WRITE, STATE_DAC1_WRITE
<1>1. CASE RequestSent
  <2> USE <1>1 DEF RequestSent, EndOrClear, slaveVars
  <2>1. TypeOK'
    <3>1. BusTypeOK'
      BY DEF TypeOK, BusTypeOK
    <3>2. hih_request_at' \in 0 .. TICKS - 1
      BY DelayAssumption DEF TypeOK
    <3> QED BY <3>1, <3>2 DEF TypeOK
  <2>2. AgreeWithBus'
    OBVIOUS
  <2>3. Phases'
    OBVIOUS
  <2> QED BY <2>1, <2>2, <2>3
<1>2. CASE \E d \in {0, 1}, k \in {0, 1} : DacByte(d, k)
  <2> PICK d \in {0, 1}, k \in {0, 1} : DacByte(d, k)
    BY <1>2
  <2> USE DEF DacByte, WriteData, slaveVars
  <2>1. TypeOK'
    <3>1. data' \in Bytes
      BY DEF TypeOK, Bytes, DacValue
    <3>2. BusTypeOK'
      BY <3>1 DEF TypeOK, BusTypeOK
    <3> QED BY <3>2 DEF TypeOK
  <2>2. AgreeWithBus'
    BY DEF TypeOK
  <2>3. Phases'
    BY DEF TypeOK
  <2> QED BY <2>1, <2>2, <2>3
<1>3. CASE Dac0Written
  <2> USE <1>3 DEF Dac0Written, WriteAddr
  <2>1. TypeOK'
    <3>1. target' \in Targets /\ data' \in Bytes /\ shift' \in Bytes
      BY Constants
    <3>2. snap' \in [id : Samples, status : {0, 1}]
      BY Constants DEF NoAnswer
    <3>b. mb' \in BOOLEAN /\ sb' \in BOOLEAN /\ acked' \in BOOLEAN /\ unread' \in BOOLEAN
      BY DEF TypeOK, BusTypeOK
    <3>n. op' \in {"none", "addr", "write", "read"} /\ nbytes' \in 0 .. 4
      OBVIOUS
    <3>3. BusTypeOK'
      BY <3>1, <3>2, <3>b, <3>n DEF TypeOK, BusTypeOK
    <3> QED BY <3>3 DEF TypeOK
  <2>2. AgreeWithBus'
    BY DEF TypeOK
  <2>3. Phases'
    BY DEF TypeOK
  <2> QED BY <2>1, <2>2, <2>3
<1>4. CASE Dac1Written
  <2> USE <1>4 DEF Dac1Written, EndOrClear, slaveVars
  <2>1. TypeOK'
    <3>1. BusTypeOK'
      BY DEF TypeOK, BusTypeOK
    <3> QED BY <3>1 DEF TypeOK
  <2>2. AgreeWithBus'
    OBVIOUS
  <2>3. Phases'
    OBVIOUS
  <2> QED BY <2>1, <2>2, <2>3
<1>5. CASE NextByte
  <2> USE <1>5 DEF NextByte, ReadDataAndContinue, slaveVars
  <2>0. nbytes \in 1 .. 4 /\ bytes_read = nbytes - 1
    OBVIOUS
  <2>1. TypeOK'
    <3>1. hih_val' \in [0 .. 3 -> HihBytes]
      <4>1. Received \in HihBytes
        BY ReceivedType
      <4>2. hih_val \in [0 .. 3 -> HihBytes]
        BY DEF TypeOK
      <4>3. hih_val' = [hih_val EXCEPT ![bytes_read] = Received]
        OBVIOUS
      <4> QED BY ONLY <4>1, <4>2, <4>3
    <3>2. BusTypeOK'
      BY DEF TypeOK, BusTypeOK
    <3>3. bytes_read' \in 0 .. 3
      BY DEF TypeOK
    <3> QED BY <3>1, <3>2, <3>3 DEF TypeOK
  <2>2. AgreeWithBus'
    BY DEF TypeOK
  <2>3. Phases'
    <3>1. Addressing' /\ Writing' /\ Flags'
      OBVIOUS
    <3>2. Reading'
      BY <2>0
    <3> QED BY <3>1, <3>2
  <2> QED BY <2>1, <2>2, <2>3
<1>6. CASE LastByte
  <2> USE <1>6 DEF LastByte, WriteAddr
  <2>1. TypeOK'
    <3>1. target' \in Targets /\ data' \in Bytes /\ shift' \in Bytes
      BY Constants
    <3>2. snap' \in [id : Samples, status : {0, 1}]
      BY Constants DEF NoAnswer
    <3>b. mb' \in BOOLEAN /\ sb' \in BOOLEAN /\ acked' \in BOOLEAN /\ unread' \in BOOLEAN
      BY DEF TypeOK, BusTypeOK
    <3>n. op' \in {"none", "addr", "write", "read"} /\ nbytes' \in 0 .. 4
      OBVIOUS
    <3>3. BusTypeOK'
      BY <3>1, <3>2, <3>b, <3>n DEF TypeOK, BusTypeOK
    <3>4. hih_val' \in [0 .. 3 -> HihBytes]
      <4>1. Received \in HihBytes
        BY ReceivedType
      <4>2. hih_val \in [0 .. 3 -> HihBytes]
        BY DEF TypeOK
      <4>3. hih_val' = [hih_val EXCEPT ![bytes_read] = Received]
        OBVIOUS
      <4> QED BY ONLY <4>1, <4>2, <4>3
    <3>5. Temperature(hih_val') \in Words /\ Humidity(hih_val') \in Words
      BY <3>4, Constants DEF Temperature, Humidity, HihBytes
    <3>6. /\ usb_val' \in [{0, 1} -> Words]
          /\ tdac_val' \in Words /\ hdac_val' \in Words
          /\ published' \subseteq Samples
      BY <3>4, <3>5 DEF Publish, TypeOK, HihBytes
    <3> QED BY <3>3, <3>4, <3>6 DEF TypeOK
  <2>2. AgreeWithBus'
    BY DEF TypeOK
  <2>3. Phases'
    BY DEF TypeOK
  <2> QED BY <2>1, <2>2, <2>3
<1>7. CASE Unexpected
  <2> USE <1>7 DEF Unexpected, EndOrClear, slaveVars
  <2>1. TypeOK'
    BY DEF TypeOK, BusTypeOK
  <2>2. AgreeWithBus'
    BY DEF TypeOK
  <2>3. Phases'
    BY DEF TypeOK
  <2> QED BY <2>1, <2>2, <2>3
<1>8. CASE TC1_Handler
  <2> USE <1>8 DEF TC1_Handler
  <2>1. TypeOK'
    <3>1. conv' \in 0 .. CONV_TICKS + 1
      BY ConvAssumption DEF ConvTick, TypeOK, BusTypeOK
    <3>2. cur_tick' \in 0 .. TICKS - 1
      BY DelayAssumption DEF TypeOK, Tick
    <3>3. poll_cnt' \in 0 .. POLL_DELAY - 1
      BY DelayAssumption DEF TypeOK, PollDue
    <3>4. tdac_val' \in Words /\ hdac_val' \in Words
      BY Constants DEF TypeOK, Calibrate, CalibrationLevel
    <3>5. state' \in 0 .. 8
      BY DEF TypeOK, StartTransaction, request_measurement
    <3>6. /\ target' \in Targets /\ data' \in Bytes /\ shift' \in Bytes
          /\ op' \in {"none", "addr", "write", "read"} /\ nbytes' \in 0 .. 4
          /\ snap' \in [id : Samples, status : {0, 1}]
      BY Constants DEF TypeOK, BusTypeOK, StartTransaction, request_measurement,
         WriteAddr, NoAnswer
    <3>7. mb' \in BOOLEAN /\ sb' \in BOOLEAN /\ acked' \in BOOLEAN
      BY DEF TypeOK, BusTypeOK, StartTransaction, request_measurement, WriteAddr
    <3>8. BusTypeOK'
      BY <3>1, <3>6, <3>7 DEF TypeOK, BusTypeOK
    <3> QED BY <3>2, <3>3, <3>4, <3>5, <3>8 DEF TypeOK
  <2>2. AgreeWithBus'
    BY DEF TypeOK, StartTransaction, request_measurement, WriteAddr
  <2>3. Phases'
    BY DEF TypeOK, StartTransaction, request_measurement, WriteAddr
  <2> QED BY <2>1, <2>2, <2>3
<1>9. CASE Transfer
  <2> USE <1>9 DEF Transfer, fwVars
  <2>1. CASE WriteAddrDone
    <3> USE <2>1 DEF WriteAddrDone
    <3>1. TypeOK'
      BY ConvAssumption DEF TypeOK, BusTypeOK
    <3>2. AgreeWithBus'
      BY DEF TypeOK
    <3>3. Phases'
      BY DEF TypeOK
    <3> QED BY <3>1, <3>2, <3>3
  <2>2. CASE ReadAddrAcked
    <3> USE <2>2 DEF ReadAddrAcked
    <3>1. TypeOK'
      BY DEF TypeOK, BusTypeOK
    <3>2. AgreeWithBus'
      BY DEF TypeOK
    <3>3. state = STATE_HIH_RECEIVE
      <4>1. Dac(0) # HihRead /\ Dac(1) # HihRead /\ HihWrite # HihRead
        BY ONLY DEF Dac, HihRead, HihWrite
      <4>2. state # STATE_HIH_REQUEST
        BY <4>1
      <4>3. \A d \in {0, 1} : state # STATE_DAC_WRITE(d) + 0
        BY <4>1
      <4> QED BY <4>2, <4>3
    <3>4. Phases'
      BY <3>3
    <3> QED BY <3>1, <3>2, <3>4
  <2>3. CASE ReadAddrNacked
    <3> USE <2>3 DEF ReadAddrNacked, slaveVars
    <3>1. TypeOK'
      BY DEF TypeOK, BusTypeOK
    <3>2. AgreeWithBus'
      BY DEF TypeOK
    <3>3. Phases'
      BY DEF TypeOK
    <3> QED BY <3>1, <3>2, <3>3
  <2>4. CASE ByteRead
    <3> USE <2>4 DEF ByteRead, slaveVars
    <3>1. TypeOK'
      BY DEF TypeOK, BusTypeOK
    <3>2. AgreeWithBus'
      BY DEF TypeOK
    <3>3. Phases'
      BY DEF TypeOK
    <3> QED BY <3>1, <3>2, <3>3
  <2>5. CASE ByteWritten
    <3> USE <2>5 DEF ByteWritten
    <3>1. TypeOK'
      <4>1. dac' \in [{0, 1} -> Words]
        <5>1. Joined(shift, data) \in Words
          BY JoinedType DEF TypeOK, BusTypeOK
        <5>2. dac \in [{0, 1} -> Words]
          BY DEF TypeOK, BusTypeOK
        <5> QED BY <5>1, <5>2
      <4>2. nbytes' \in 0 .. 4
        BY DEF TypeOK, BusTypeOK
      <4>3. BusTypeOK'
        BY <4>1, <4>2 DEF TypeOK, BusTypeOK
      <4> QED BY <4>3 DEF TypeOK
    <3>2. AgreeWithBus'
      BY DEF TypeOK
    <3>3. Phases'
      <4>1. Addressing' /\ Reading' /\ Writing'
        OBVIOUS
      <4>2. Flags'
        OBVIOUS
      <4> QED BY <4>1, <4>2
    <3> QED BY <3>1, <3>2, <3>3
  <2> QED BY <2>1, <2>2, <2>3, <2>4, <2>5
<1>10. CASE NewSample
  <2> USE <1>10 DEF NewSample, ConversionDone
  <2>1. TypeOK'
    <3>1. sample' \in Samples
      BY Constants DEF TypeOK, BusTypeOK
    <3>2. conv' \in 0 .. CONV_TICKS + 1
      BY ConvAssumption
    <3> QED BY <3>1, <3>2 DEF TypeOK, BusTypeOK
  <2>2. AgreeWithBus'
    OBVIOUS
  <2>3. Phases'
    OBVIOUS
  <2> QED BY <2>1, <2>2, <2>3
<1>11. CASE SwitchMoves
  <2> USE <1>11 DEF SwitchMoves, busVars, slaveVars, fwVars
  <2>1. TypeOK'
    BY DEF TypeOK, BusTypeOK
  <2>2. AgreeWithBus' /\ Phases'
    OBVIOUS
  <2> QED BY <2>1, <2>2
<1>12. CASE UNCHANGED vars
  BY <1>12 DEF vars, busVars, slaveVars, fwVars, TypeOK, BusTypeOK
<1> QED
  BY <1>1, <1>2, <1>3, <1>4, <1>5, <1>6, <1>7, <1>8, <1>9, <1>10, <1>11, <1>12
     DEF Next, SERCOM0_Handler

\* Every variable of the acquisition keeps its type; the byte counters stay in range.
THEOREM TypeCorrect == Spec => []TypeOK
<1>1. IInv => TypeOK
  BY DEF IInv
<1> QED BY InitIInv, StepIInv, <1>1, PTL DEF Spec

\* The state machine of SERCOM0_Handler and the bus are always in the same place.
THEOREM HandlersAgreeWithBus == Spec => []AgreeWithBus
<1>1. IInv => AgreeWithBus
  BY DEF IInv
<1> QED BY InitIInv, StepIInv, <1>1, PTL DEF Spec

-----------------------------------------------------------------------------
(***************************************************************************)
(* Published samples are whole.                                            *)
(***************************************************************************)

\* While receiving, the bytes stored so far are this answer's, in place.
InPlace ==
  state = STATE_HIH_RECEIVE =>
    \A i \in 0 .. 3 : i < bytes_read =>
      hih_val[i] = [id |-> snap.id, pos |-> i, status |-> snap.status]

SInv == InPlace /\ SampleWhole

\* The four bytes the handler has after the last one are one answer.
LEMMA LastByteWhole ==
  ASSUME IInv, InPlace, LastByte
  PROVE  /\ Temperature(hih_val') = TempOf(snap.id)
         /\ Humidity(hih_val') = HumidOf(snap.id)
         /\ snap.id \in Samples
<1>0. bytes_read \in 0 .. 3 /\ hih_val \in [0 .. 3 -> HihBytes]
  BY DEF IInv, TypeOK
<1>1. nbytes \in 1 .. 4 /\ bytes_read = nbytes - 1
  BY DEF LastByte, IInv, Phases, Flags, AgreeWithBus
<1>2. Received = [id |-> snap.id, pos |-> 3, status |-> snap.status]
  BY <1>1 DEF Received, LastByte
<1>3. \A i \in 0 .. 3 :
        hih_val'[i] = [id |-> snap.id, pos |-> i, status |-> snap.status]
  BY <1>0, <1>2 DEF InPlace, LastByte
<1>4. /\ Temperature(hih_val') = TempOf(snap.id)
      /\ Humidity(hih_val') = HumidOf(snap.id)
  BY <1>3 DEF Temperature, Humidity, OneAnswer
<1>5. snap.id \in Samples
  BY DEF IInv, TypeOK, BusTypeOK
<1> QED BY <1>4, <1>5

\* Nothing was sampled yet.
THEOREM InitSInv == Init => SInv
BY DEF Init, BusInit, SInv, InPlace, SampleWhole

\* Every step keeps each half of a sample where the handlers think it is.
THEOREM StepSInv == IInv /\ SInv /\ [Next]_vars => SInv'
<1> SUFFICES ASSUME IInv, SInv, [Next]_vars PROVE SInv'
  OBVIOUS
<1> USE DEF SInv
<1>0. bytes_read \in 0 .. 3 /\ hih_val \in [0 .. 3 -> HihBytes]
  BY DEF IInv, TypeOK
<1>1. CASE RequestSent
  BY <1>1 DEF RequestSent, InPlace, SampleWhole, STATE_HIH_REQUEST, STATE_HIH_RECEIVE
<1>2. CASE \E d \in {0, 1}, k \in {0, 1} : DacByte(d, k)
  <2> PICK d \in {0, 1}, k \in {0, 1} : DacByte(d, k)
    BY <1>2
  <2>1. state' # STATE_HIH_RECEIVE
    BY DEF DacByte, STATE_DAC_WRITE, STATE_DAC0_WRITE, STATE_DAC1_WRITE, STATE_HIH_RECEIVE
  <2> QED BY <2>1 DEF DacByte, InPlace, SampleWhole
<1>3. CASE Dac0Written
  BY <1>3 DEF Dac0Written, InPlace, SampleWhole, STATE_DAC1_WRITE, STATE_HIH_RECEIVE
<1>4. CASE Dac1Written
  BY <1>4 DEF Dac1Written, InPlace, SampleWhole, STATE_IDLE, STATE_HIH_RECEIVE
<1>5. CASE NextByte
  <2>1. nbytes \in 1 .. 4 /\ bytes_read = nbytes - 1
    BY <1>5 DEF NextByte, IInv, Phases, Flags, AgreeWithBus
  <2>2. Received = [id |-> snap.id, pos |-> bytes_read, status |-> snap.status]
    BY <2>1 DEF Received
  <2>3. snap' = snap
    BY <1>5 DEF NextByte, ReadDataAndContinue, slaveVars
  <2>4. InPlace'
    BY <1>0, <1>5, <2>2, <2>3 DEF InPlace, NextByte
  <2>5. SampleWhole'
    BY <1>5 DEF NextByte, SampleWhole
  <2> QED BY <2>4, <2>5
<1>6. CASE LastByte
  <2>4. /\ Temperature(hih_val') = TempOf(snap.id)
        /\ Humidity(hih_val') = HumidOf(snap.id)
        /\ snap.id \in Samples
    BY <1>6, LastByteWhole
  <2>6. SampleWhole'
    <3>1. CASE Fresh(hih_val')
      BY <1>6, <2>4, <3>1 DEF LastByte, Publish, SampleWhole
    <3>2. CASE ~Fresh(hih_val')
      BY <1>6, <3>2 DEF LastByte, SampleWhole
    <3> QED BY <3>1, <3>2
  <2>7. InPlace'
    BY <1>6 DEF LastByte, InPlace, STATE_DAC0_WRITE, STATE_HIH_RECEIVE
  <2> QED BY <2>6, <2>7
<1>7. CASE Unexpected
  BY <1>7 DEF Unexpected, EndOrClear, slaveVars, InPlace, SampleWhole
<1>8. CASE TC1_Handler
  <2>1. SampleWhole'
    BY <1>8 DEF TC1_Handler, SampleWhole
  <2>2. CASE PollDue
    BY <1>8, <2>1, <2>2 DEF TC1_Handler, StartTransaction, request_measurement, InPlace,
       STATE_HIH_REQUEST, STATE_HIH_RECEIVE
  <2>3. CASE FetchDue
    BY <1>8, <2>1, <2>3 DEF TC1_Handler, InPlace
  <2>4. CASE ~PollDue /\ ~FetchDue
    BY <1>8, <2>1, <2>4 DEF TC1_Handler, StartTransaction, InPlace
  <2> QED BY <2>2, <2>3, <2>4
<1>9. CASE Transfer
  <2>1. SampleWhole'
    BY <1>9 DEF Transfer, fwVars, SampleWhole
  <2>2. CASE op # "addr" \/ target # HihRead
    BY <1>9, <2>1, <2>2 DEF Transfer, fwVars, slaveVars, InPlace, WriteAddrDone,
       ReadAddrAcked, ReadAddrNacked, ByteRead, ByteWritten
  <2>3. CASE op = "addr" /\ target = HihRead
    BY <1>0, <1>9, <2>1, <2>3 DEF IInv, Phases, Addressing, Transfer, fwVars, InPlace
  <2> QED BY <2>2, <2>3
<1>10. CASE NewSample
  BY <1>10 DEF NewSample, ConversionDone, InPlace, SampleWhole
<1>11. CASE SwitchMoves
  BY <1>11 DEF SwitchMoves, busVars, slaveVars, fwVars, InPlace, SampleWhole
<1>12. CASE UNCHANGED vars
  BY <1>12 DEF vars, busVars, slaveVars, fwVars, InPlace, SampleWhole
<1> QED
  BY <1>1, <1>2, <1>3, <1>4, <1>5, <1>6, <1>7, <1>8, <1>9, <1>10, <1>11, <1>12
     DEF Next, SERCOM0_Handler

\* What USB hands out is always a whole sample (SampleWhole), for any delays
\* and any interleaving of the two handlers and the bus.
THEOREM PublishedSamplesAreWhole == Spec => []SampleWhole
<1>1. SInv => SampleWhole
  BY DEF SInv
<1> QED BY InitIInv, StepIInv, InitSInv, StepSInv, <1>1, PTL DEF Spec

-----------------------------------------------------------------------------
(***************************************************************************)
(* DAC words are whole.                                                    *)
(***************************************************************************)
Calm == ~Stall \/ Switch = {FALSE}

\* While the DACs are written the bus is never quiet.
Engaged == state >= STATE_DAC0_WRITE => ~BusQuiet

\* The bytes under way are those of the value the firmware holds.
BytesInStep ==
  \A d \in {0, 1} :
    /\ state = STATE_DAC_WRITE(d) + 1 =>
         /\ data = [word |-> DacValue(d), part |-> "high"]
         /\ mb => shift = data
    /\ state = STATE_DAC_WRITE(d) + 2 /\ op = "write" =>
         /\ shift = [word |-> DacValue(d), part |-> "high"]
         /\ data = [word |-> DacValue(d), part |-> "low"]

NoTornWord ==
  /\ tdac_val # Torn /\ hdac_val # Torn
  /\ \A d \in {0, 1} : dac[d] # Torn

TInv == Engaged /\ (Calm => BytesInStep /\ NoTornWord)

\* No word of a sample, nor either end of the range, is the value that stands for a torn word.
LEMMA WholeWords ==
  /\ Zero # Torn /\ Full # Torn
  /\ \A s \in Samples : TempOf(s) # Torn /\ HumidOf(s) # Torn
BY SamplesAssumption DEF Zero, Full, Torn, TempOf, HumidOf, Samples

\* No word is torn at the start.
THEOREM InitTInv == Init => TInv
<1> SUFFICES ASSUME Init PROVE TInv
  OBVIOUS
<1>1. Engaged
  BY DEF Init, Engaged, STATE_IDLE, STATE_DAC0_WRITE
<1>2. BytesInStep
  BY DEF Init, BytesInStep, STATE_IDLE, STATE_DAC_WRITE, STATE_DAC0_WRITE, STATE_DAC1_WRITE
<1>3. NoTornWord
  BY WholeWords DEF Init, BusInit, NoTornWord
<1> QED BY <1>1, <1>2, <1>3 DEF TInv

\* Every step preserves what keeps the words of the DACs whole while things are calm.
THEOREM StepTInv == IInv /\ SInv /\ TInv /\ [Next]_vars => TInv'
<1> SUFFICES ASSUME IInv, SInv, TInv, [Next]_vars PROVE TInv'
  OBVIOUS
<1> USE DEF STATE_IDLE, STATE_HIH_REQUEST, STATE_HIH_RECEIVE, STATE_DAC_WRITE,
        STATE_DAC0_WRITE, STATE_DAC1_WRITE
<1>0. state \in 0 .. 8
  BY DEF IInv, TypeOK
<1>1. CASE RequestSent
  BY <1>1 DEF RequestSent, EndOrClear, slaveVars, TInv, Engaged, BytesInStep, NoTornWord
<1>2. CASE \E d \in {0, 1}, k \in {0, 1} : DacByte(d, k)
  <2> PICK d \in {0, 1}, k \in {0, 1} : DacByte(d, k)
    BY <1>2
  <2> USE DEF DacByte, WriteData, slaveVars
  <2>1. Engaged'
    BY DEF Engaged, BusQuiet
  <2>2. ASSUME Calm PROVE BytesInStep'
    BY <1>0, <2>2 DEF TInv, BytesInStep, DacValue
  <2>3. ASSUME Calm PROVE NoTornWord'
    BY <2>3 DEF TInv, NoTornWord
  <2> QED BY <2>1, <2>2, <2>3 DEF TInv, Calm
<1>3. CASE Dac0Written
  BY <1>3 DEF Dac0Written, WriteAddr, TInv, Engaged, BusQuiet, BytesInStep, NoTornWord
<1>4. CASE Dac1Written
  BY <1>4 DEF Dac1Written, EndOrClear, slaveVars, TInv, Engaged, BytesInStep, NoTornWord
<1>5. CASE NextByte
  BY <1>5 DEF NextByte, ReadDataAndContinue, slaveVars, TInv, Engaged, BytesInStep, NoTornWord
<1>6. CASE LastByte
  <2>1. Engaged' /\ BytesInStep'
    BY <1>6 DEF LastByte, WriteAddr, Engaged, BusQuiet, BytesInStep
  <2>2. Temperature(hih_val') # Torn /\ Humidity(hih_val') # Torn
    BY <1>6, LastByteWhole, WholeWords DEF SInv
  <2>3. ASSUME Calm PROVE NoTornWord'
    BY <1>6, <2>2, <2>3 DEF LastByte, Publish, TInv, NoTornWord
  <2> QED BY <2>1, <2>3 DEF TInv, Calm
<1>7. CASE Unexpected
  <2>1. state \in {STATE_IDLE, STATE_HIH_RECEIVE}
    BY <1>7 DEF Unexpected, IInv, AgreeWithBus
  <2> QED
    BY <1>7, <2>1 DEF Unexpected, EndOrClear, slaveVars, TInv, Engaged, BytesInStep, NoTornWord
<1>8. CASE TC1_Handler
  <2> USE <1>8 DEF TC1_Handler
  <2>1. \/ state' \in {STATE_HIH_REQUEST, STATE_HIH_RECEIVE}
        \/ UNCHANGED <<state, op, mb, sb, data, shift>>
    BY DEF StartTransaction, request_measurement
  <2>2. Engaged'
    BY <2>1 DEF TInv, Engaged, BusQuiet
  <2>3. ASSUME Calm PROVE state >= STATE_DAC0_WRITE => UNCHANGED <<tdac_val, hdac_val>>
    <3>1. CASE ~Stall
      BY <3>1 DEF TInv, Engaged
    <3>2. CASE Switch = {FALSE}
      BY <3>2 DEF IInv, TypeOK, Calibrate
    <3> QED BY <2>3, <3>1, <3>2 DEF Calm
  <2>4. ASSUME Calm PROVE BytesInStep'
    BY <1>0, <2>1, <2>3, <2>4 DEF TInv, BytesInStep, DacValue
  <2>5. ASSUME Calm PROVE NoTornWord'
    BY <2>5, WholeWords DEF TInv, NoTornWord, Calibrate, CalibrationLevel
  <2> QED BY <2>2, <2>4, <2>5 DEF TInv, Calm
<1>9. CASE Transfer
  <2> USE <1>9 DEF Transfer, fwVars
  <2>1. Engaged'
    BY DEF IInv, Phases, Flags, Addressing, Reading, Writing, TInv, Engaged, BusQuiet,
       WriteAddrDone, ReadAddrAcked, ReadAddrNacked, ByteRead, ByteWritten, slaveVars
  <2>2. CASE ByteWritten
    <3>1. mb = FALSE
      BY <2>2 DEF ByteWritten, IInv, TypeOK, BusTypeOK, Phases, Writing
    <3>2. PICK d \in {0, 1}, k \in {1, 2} : state = STATE_DAC_WRITE(d) + k /\ nbytes = k - 1
      BY <2>2 DEF ByteWritten, IInv, Phases, Writing
    <3>3. ASSUME Calm PROVE BytesInStep'
      BY <2>2, <3>3 DEF TInv, BytesInStep, ByteWritten, DacValue
    <3>4. ASSUME Calm PROVE NoTornWord'
      <4>1. ASSUME nbytes = 1 PROVE Joined(shift, data) # Torn
        BY <2>2, <3>2, <3>4, <4>1 DEF TInv, BytesInStep, NoTornWord, ByteWritten, Joined, DacValue
      <4> QED BY <2>2, <3>4, <4>1 DEF TInv, NoTornWord, ByteWritten
    <3> QED BY <2>1, <3>3, <3>4 DEF TInv, Calm
  <2>3. CASE WriteAddrDone
    <3>1. state \in {STATE_HIH_REQUEST, STATE_HIH_RECEIVE, STATE_DAC0_WRITE, STATE_DAC1_WRITE}
      BY <2>3 DEF WriteAddrDone, IInv, Phases, Addressing
    <3>2. BytesInStep'
      BY <3>1 DEF BytesInStep
    <3>3. ASSUME Calm PROVE NoTornWord'
      BY <2>3, <3>3 DEF WriteAddrDone, TInv, NoTornWord
    <3> QED BY <2>1, <3>2, <3>3 DEF TInv, Calm
  <2>4. CASE ReadAddrAcked \/ ReadAddrNacked
    <3>1. state \in {STATE_HIH_REQUEST, STATE_HIH_RECEIVE, STATE_DAC0_WRITE, STATE_DAC1_WRITE}
      BY <2>4 DEF ReadAddrAcked, ReadAddrNacked, IInv, Phases, Addressing
    <3>2. BytesInStep'
      BY <3>1 DEF BytesInStep
    <3>3. ASSUME Calm PROVE NoTornWord'
      BY <2>4, <3>3 DEF ReadAddrAcked, ReadAddrNacked, slaveVars, TInv, NoTornWord
    <3> QED BY <2>1, <3>2, <3>3 DEF TInv, Calm
  <2>5. CASE ByteRead
    <3>1. state = STATE_HIH_RECEIVE
      BY <2>5 DEF ByteRead, IInv, Phases, Reading
    <3>2. BytesInStep'
      BY <3>1 DEF BytesInStep
    <3>3. ASSUME Calm PROVE NoTornWord'
      BY <2>5, <3>3 DEF ByteRead, slaveVars, TInv, NoTornWord
    <3> QED BY <2>1, <3>2, <3>3 DEF TInv, Calm
  <2> QED BY <2>2, <2>3, <2>4, <2>5
<1>10. CASE NewSample
  BY <1>10 DEF NewSample, ConversionDone, TInv, Calm, Engaged, BusQuiet, BytesInStep,
     DacValue, NoTornWord
<1>11. CASE SwitchMoves
  BY <1>11 DEF SwitchMoves, busVars, slaveVars, fwVars, TInv, Calm, Engaged, BusQuiet,
     BytesInStep, DacValue, NoTornWord
<1>12. CASE UNCHANGED vars
  BY <1>12 DEF vars, busVars, slaveVars, fwVars, TInv, Calm, Engaged, BusQuiet,
     BytesInStep, DacValue, NoTornWord
<1> QED
  BY <1>1, <1>2, <1>3, <1>4, <1>5, <1>6, <1>7, <1>8, <1>9, <1>10, <1>11, <1>12
     DEF Next, SERCOM0_Handler

\* No DAC is left with a torn word (NeverTorn) if no tick falls inside a
\* transaction, or, wherever ticks fall, if the switch is left alone.
THEOREM DacWordsAreWhole == Spec => []NeverTorn
<1>1. TInv => NeverTorn
  BY DEF TInv, Calm, NoTornWord, NeverTorn
<1> QED BY InitIInv, StepIInv, InitSInv, StepSInv, InitTInv, StepTInv, <1>1, PTL DEF Spec

-----------------------------------------------------------------------------
(***************************************************************************)
(* The red light.                                                          *)
(***************************************************************************)

\* MB comes while receiving only because the address was not acknowledged.
NInv == state = STATE_HIH_RECEIVE /\ mb => ~acked

\* A NACK of the sensor is noticed before the first byte of its answer.
THEOREM StepNInv == IInv /\ NInv /\ [Next]_vars => NInv'
<1> SUFFICES ASSUME IInv, NInv, [Next]_vars PROVE NInv'
  OBVIOUS
<1> USE DEF NInv, STATE_IDLE, STATE_HIH_REQUEST, STATE_HIH_RECEIVE, STATE_DAC_WRITE,
        STATE_DAC0_WRITE, STATE_DAC1_WRITE
<1>1. CASE SERCOM0_Handler
  BY <1>1 DEF SERCOM0_Handler, RequestSent, DacByte, Dac0Written, Dac1Written, NextByte,
     LastByte, Unexpected, EndOrClear, WriteData, WriteAddr, ReadDataAndContinue
<1>2. CASE TC1_Handler
  BY <1>2 DEF TC1_Handler, StartTransaction, request_measurement, WriteAddr
<1>3. CASE Transfer
  <2>1. state = STATE_HIH_RECEIVE => target = HihRead
    BY DEF IInv, AgreeWithBus
  <2>2. op = "write" => state # STATE_HIH_RECEIVE
    BY DEF IInv, Phases, Writing
  <2> QED
    BY <1>3, <2>1, <2>2 DEF IInv, Phases, Flags, Transfer, fwVars, WriteAddrDone,
       ReadAddrAcked, ReadAddrNacked, ByteRead, ByteWritten
<1>4. CASE NewSample
  BY <1>4 DEF NewSample, ConversionDone
<1>5. CASE SwitchMoves
  BY <1>5 DEF SwitchMoves, busVars, fwVars
<1>6. CASE UNCHANGED vars
  BY <1>6 DEF vars, busVars, fwVars
<1> QED BY <1>1, <1>2, <1>3, <1>4, <1>5, <1>6 DEF Next

\* The handlers meet a flag their state has no use for only when the sensor did
\* not acknowledge a fetch (UnexpectedOnlyNack).
THEOREM RedLightMeansNack == Spec => UnexpectedOnlyNack
<1>1. Init => NInv
  BY DEF Init, BusInit, NInv
<1>2. IInv /\ NInv /\ [Next]_vars => [Unexpected => target = HihRead /\ ~acked /\ mb]_vars
  <2> SUFFICES ASSUME IInv, NInv, Unexpected PROVE target = HihRead /\ ~acked /\ mb
    OBVIOUS
  <2> QED
    BY DEF IInv, AgreeWithBus, NInv, Unexpected
<1> QED BY InitIInv, StepIInv, StepNInv, <1>1, <1>2, PTL DEF Spec, UnexpectedOnlyNack

-----------------------------------------------------------------------------
(***************************************************************************)
(* No sample is published twice.                                           *)
(***************************************************************************)

\* A sample that waits in the sensor was not published; an answer marked as fresh is the
\* only copy of its sample, and no conversion runs while it is read.
OnlyCopy ==
  /\ unread => sample \notin published
  /\ snap.status = 0 =>
       /\ snap.id \notin published
       /\ ~unread /\ conv = 0 /\ op # "addr"

\* Nothing waits at the start.
LEMMA InitOnlyCopy == Init => OnlyCopy
BY DEF Init, BusInit, OnlyCopy, NoAnswer

\* The answer the handler has after the last byte is the one the sensor settled.
LEMMA LastByteAnswer ==
  ASSUME IInv, InPlace, LastByte
  PROVE  hih_val'[0].id = snap.id /\ (Fresh(hih_val') <=> snap.status = 0)
<1>1. bytes_read = 3 /\ hih_val \in [0 .. 3 -> HihBytes]
  BY DEF IInv, TypeOK, LastByte
<1>2. hih_val[0] = [id |-> snap.id, pos |-> 0, status |-> snap.status]
  BY <1>1 DEF InPlace, LastByte
<1>3. hih_val'[0] = hih_val[0]
  BY <1>1 DEF LastByte
<1> QED BY <1>2, <1>3 DEF Fresh

\* A new address on the bus ends what the sensor was answering.
LEMMA AddressedAnew ==
  ASSUME NEW t \in Targets, WriteAddr(t)
  PROVE  snap'.status = 1
BY DEF WriteAddr, NoAnswer

\* Every step keeps it so: what a fetch takes is gone from the sensor, and what it
\* publishes is not read again.
LEMMA StepOnlyCopy == IInv /\ SInv /\ OnlyCopy /\ [Next]_vars => OnlyCopy'
<1> SUFFICES ASSUME IInv, SInv, OnlyCopy, [Next]_vars PROVE OnlyCopy'
  OBVIOUS
<1> USE DEF OnlyCopy
<1>1. CASE RequestSent \/ Dac1Written \/ Unexpected
  BY <1>1 DEF RequestSent, Dac1Written, Unexpected, EndOrClear, slaveVars
<1>2. CASE \E d \in {0, 1}, k \in {0, 1} : DacByte(d, k)
  BY <1>2 DEF DacByte, WriteData, slaveVars
<1>3. CASE Dac0Written
  <2>1. snap'.status = 1
    BY <1>3, Constants, AddressedAnew DEF Dac0Written
  <2> QED BY <1>3, <2>1 DEF Dac0Written
<1>4. CASE NextByte
  BY <1>4 DEF NextByte, ReadDataAndContinue, slaveVars
<1>5. CASE LastByte
  <2>1. snap'.status = 1 /\ sample' = sample /\ unread' = unread
    BY <1>5, Constants, AddressedAnew DEF LastByte
  <2>2. published' = published \/ snap.status = 0
    BY <1>5, LastByteAnswer DEF LastByte, SInv
  <2> QED BY <2>1, <2>2
<1>6. CASE TC1_Handler
  <2>1. UNCHANGED <<sample, unread, published>>
    BY <1>6 DEF TC1_Handler
  <2>2. snap'.status = 1 \/ (snap' = snap /\ op' = op)
    BY <1>6, Constants, AddressedAnew DEF TC1_Handler, StartTransaction, request_measurement
  <2>3. conv = 0 => conv' = 0
    BY <1>6 DEF TC1_Handler, ConvTick
  <2> QED BY <2>1, <2>2, <2>3
<1>7. CASE Transfer
  <2>1. published' = published
    BY <1>7 DEF Transfer, fwVars
  <2>2. CASE WriteAddrDone \/ ReadAddrNacked \/ ByteRead \/ ByteWritten
    BY <2>1, <2>2 DEF WriteAddrDone, ReadAddrNacked, ByteRead, ByteWritten, slaveVars
  <2>3. CASE ReadAddrAcked
    BY <2>1, <2>3 DEF ReadAddrAcked
  <2> QED BY <1>7, <2>2, <2>3 DEF Transfer
<1>8. CASE NewSample
  BY <1>8 DEF NewSample, ConversionDone, IInv, TypeOK, BusTypeOK
<1>9. CASE SwitchMoves \/ UNCHANGED vars
  BY <1>9 DEF SwitchMoves, vars, busVars, slaveVars, fwVars
<1> QED
  BY <1>1, <1>2, <1>3, <1>4, <1>5, <1>6, <1>7, <1>8, <1>9 DEF Next, SERCOM0_Handler

\* Each conversion is published at most once (NoSampleTwice), wherever ticks give up
\* fetches or requests are refused.
THEOREM SamplesPublishedOnce == Spec => NoSampleTwice
<1>1. IInv /\ SInv /\ OnlyCopy =>
        [(LastByte /\ Fresh(hih_val')) => hih_val'[0].id \notin published]_vars
  BY LastByteAnswer DEF SInv, OnlyCopy
<1> QED
  BY InitIInv, StepIInv, InitSInv, StepSInv, InitOnlyCopy, StepOnlyCopy, <1>1, PTL
     DEF Spec, NoSampleTwice

-----------------------------------------------------------------------------
(***************************************************************************)
(* The DACs show the values.                                               *)
(***************************************************************************)

\* A DAC that has both bytes puts out what the firmware holds for it.
Shown ==
  ~Stall => \A d \in {0, 1} :
    state = STATE_DAC_WRITE(d) + 2 /\ mb /\ acked => dac[d] = DacValue(d)

\* No step in the middle of a DAC's transaction changes its value, and its two bytes
\* are joined to it.
LEMMA StepShown == IInv /\ TInv /\ Shown /\ [Next]_vars => Shown'
<1> SUFFICES ASSUME IInv, TInv, Shown, [Next]_vars, ~Stall,
                    NEW d \in {0, 1}, state' = STATE_DAC_WRITE(d) + 2, mb', acked'
             PROVE  dac'[d] = DacValue(d)'
  BY DEF Shown
<1>1. state \in 0 .. 8 /\ state' \in 0 .. 8
  BY StepIInv DEF IInv, TypeOK
<1>2. state' \in {5, 8}
  BY DEF STATE_DAC_WRITE, STATE_DAC0_WRITE, STATE_DAC1_WRITE
<1>3. CASE RequestSent \/ Dac1Written \/ Dac0Written \/ NextByte \/ LastByte \/ Unexpected
  <2>1. state' \in {0, 1, 2, 3, 6} \/ ~mb'
    BY <1>3 DEF RequestSent, Dac1Written, Dac0Written, NextByte, LastByte, Unexpected,
       EndOrClear, STATE_IDLE, STATE_DAC0_WRITE, STATE_DAC1_WRITE, STATE_HIH_REQUEST,
       STATE_HIH_RECEIVE
  <2> QED BY <1>2, <2>1
<1>4. CASE \E e \in {0, 1}, k \in {0, 1} : DacByte(e, k)
  BY <1>4 DEF DacByte, WriteData
<1>5. CASE TC1_Handler
  <2>1. BusQuiet
    BY <1>5 DEF TC1_Handler
  <2>2. state < STATE_DAC0_WRITE
    BY <1>1, <2>1 DEF TInv, Engaged, STATE_DAC0_WRITE
  <2>3. state' \in {STATE_HIH_REQUEST, STATE_HIH_RECEIVE} \/ state' = state
    BY <1>5 DEF TC1_Handler, StartTransaction, request_measurement
  <2> QED BY <1>1, <1>2, <2>2, <2>3 DEF STATE_HIH_REQUEST, STATE_HIH_RECEIVE, STATE_DAC0_WRITE
<1>6. CASE Transfer
  <2>1. state' = state /\ DacValue(d)' = DacValue(d)
    BY <1>6 DEF Transfer, fwVars, DacValue
  <2>2. state \notin {STATE_HIH_REQUEST, STATE_HIH_RECEIVE, STATE_DAC0_WRITE, STATE_DAC1_WRITE}
    BY <1>2, <2>1 DEF STATE_HIH_REQUEST, STATE_HIH_RECEIVE, STATE_DAC0_WRITE, STATE_DAC1_WRITE
  <2>3. op # "addr" /\ op # "read"
    BY <2>2 DEF IInv, Phases, Addressing, Reading
  <2>4. ByteWritten
    BY <1>6, <2>3 DEF Transfer, WriteAddrDone, ReadAddrAcked, ReadAddrNacked, ByteRead
  <2>5. PICK e \in {0, 1}, k \in {1, 2} : state = STATE_DAC_WRITE(e) + k /\ nbytes = k - 1
    BY <2>4 DEF ByteWritten, IInv, Phases, Writing
  <2>6. state = STATE_DAC_WRITE(d) + 2 /\ nbytes = 1
    BY <2>1, <2>5 DEF STATE_DAC_WRITE, STATE_DAC0_WRITE, STATE_DAC1_WRITE
  <2>7. target = Dac(d) /\ acked
    BY <2>4, <2>6 DEF IInv, AgreeWithBus, ByteWritten
  <2>8. Joined(shift, data) = DacValue(d)
    BY <2>4, <2>6 DEF ByteWritten, TInv, Calm, BytesInStep, Joined
  <2> QED BY <2>1, <2>4, <2>6, <2>7, <2>8 DEF ByteWritten
<1>7. CASE NewSample \/ SwitchMoves \/ UNCHANGED vars
  <2>1. UNCHANGED <<state, mb, acked, dac, tdac_val, hdac_val>>
    BY <1>7 DEF NewSample, ConversionDone, SwitchMoves, vars, busVars, slaveVars, fwVars
  <2>2. state = STATE_DAC_WRITE(d) + 2 /\ mb /\ acked
    BY <2>1
  <2>3. dac[d] = DacValue(d)
    BY <2>2 DEF Shown
  <2> QED BY <2>1, <2>3 DEF DacValue
<1> QED BY <1>3, <1>4, <1>5, <1>6, <1>7 DEF Next, SERCOM0_Handler

\* If transactions fit in a tick, a DAC that acknowledged its address shows, when its
\* transaction ends, the value the firmware holds for it then (DacShowsValue).
THEOREM DacsShowTheValues == Spec => DacShowsValue
<1>1. Init => Shown
  BY DEF Init, BusInit, Shown
<1>2. Shown =>
        [(~Stall /\ acked) => (Dac0Written => dac[0] = tdac_val)
                              /\ (Dac1Written => dac[1] = hdac_val)]_vars
  BY DEF Shown, Dac0Written, Dac1Written, STATE_DAC_WRITE, DacValue
<1> QED
  BY InitIInv, StepIInv, InitSInv, StepSInv, InitTInv, StepTInv, StepShown, <1>1, <1>2, PTL
     DEF Spec, DacShowsValue
=============================================================================
