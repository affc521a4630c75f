-------------------------------- MODULE Th1Main --------------------------------
(***************************************************************************)
(* The first device's application (temphumid, main.c): one loop that       *)
(* drives the I2C master by polling, starts a measurement, fetches it 100  *)
(* iterations later, and puts the values on two PWM outputs.  It calls     *)
(* usbPoll between any two waits for the bus, in the middle of read_result *)
(* too; usbPoll, which VUsb models step by step, is one action here: it    *)
(* may copy the two words of usb_val into an answer.                       *)
(*                                                                         *)
(* The sensor and the I2C unit are external.  A sample is an identifier.   *)
(***************************************************************************)
EXTENDS Integers

CONSTANTS
  DELAY,     \* pre_read_delay and pre_measure_delay, 100 in the code
  HALF,      \* iterations per half period of the square wave, 256 in the code
  CONV,      \* a conversion ends within CONV iterations
  NSAMPLES   \* sample identifiers are reused after as many conversions

ASSUME DelayAssumption == DELAY \in Nat \ {0} /\ HALF \in Nat \ {0} /\ CONV \in Nat
ASSUME SamplesAssumption == NSAMPLES \in Nat /\ NSAMPLES > 1

VARIABLES
  pc,         \* where the loop is
  poll,       \* usbPoll is called before it goes on
  state, cnt, cnt2,
  nread,      \* bytes read_result has
  usb_val, temp_val, humid_val,
  ocr,        \* the compare values of the two outputs
  pwm,        \* what the two outputs show in this period of the timer
  answer,     \* the last answer with both words that usbPoll made
  held,       \* the master holds the bus: it has sent no STOP
  TWSR,       \* what the last START or address came to
  conv,       \* 0, or 1 + the iterations since the conversion began
  sample, unread,
  fetched,    \* what the sensor answers to the read in progress
  pressed,    \* the switch pulls its pin low
  older,      \* history: the sample published before the last
  published   \* history: the samples published since they were converted

sensorVars == <<conv, sample, unread, fetched>>
outVars    == <<usb_val, temp_val, humid_val, ocr, older, published>>
vars       == <<pc, poll, state, cnt, cnt2, nread, outVars, pwm, answer, held, TWSR, sensorVars, pressed>>

STATE_PRE_MEASURE == 0
STATE_PRE_READ    == 1
Samples == 0 .. NSAMPLES - 1
None    == -1   \* the values before the first sample
Low     == -2
High    == -3
Half    == -4   \* 50 % duty cycle, until the loop has run once
Levels  == Samples \cup {None, Low, High, Half}

\* One output is written, the other is not: with its value, or with a level.
SecondStore == {"outputValue", "outputLow", "outputHigh"}

LoopTypeOK ==
  /\ pc \in {"loop", "count", "request", "requestAddr", "requestStop", "read",
             "readAddr", "readByte", "status", "humid", "output", "delay"} \cup SecondStore
  /\ poll \in BOOLEAN /\ state \in {STATE_PRE_MEASURE, STATE_PRE_READ}
  /\ cnt \in 0 .. DELAY /\ cnt2 \in 0 .. 2 * HALF - 1 /\ nread \in 0 .. 3

WordsTypeOK ==
  /\ usb_val \in [{0, 1} -> Samples \cup {None}] /\ answer \in [{0, 1} -> Samples \cup {None}]
  /\ {temp_val, humid_val, older} \subseteq Samples \cup {None}
  /\ {ocr, pwm} \subseteq [{0, 1} -> Levels] /\ published \subseteq Samples

BusTypeOK ==
  /\ TWSR \in {"start", "repeated start", "fault", "ack", "nack"}
  /\ held \in BOOLEAN /\ unread \in BOOLEAN /\ pressed \in BOOLEAN
  /\ conv \in 0 .. CONV + 1 /\ sample \in Samples
  /\ fetched \in [id : Samples, status : 0 .. 2]

TypeOK == LoopTypeOK /\ WordsTypeOK /\ BusTypeOK

Init ==
  /\ pc = "loop" /\ poll = FALSE
  /\ state = STATE_PRE_MEASURE /\ cnt = DELAY /\ cnt2 = 0 /\ nread = 0
  /\ usb_val = [i \in {0, 1} |-> None] /\ temp_val = None /\ humid_val = None
  /\ ocr = [i \in {0, 1} |-> Half] /\ pwm = ocr /\ answer = usb_val
  /\ held = FALSE /\ TWSR = "ack" /\ conv = 0 /\ sample = 0 /\ unread = FALSE
  /\ fetched = [id |-> 0, status |-> 1]
  /\ pressed \in BOOLEAN /\ older = None /\ published = {}

-----------------------------------------------------------------------------
(***************************************************************************)
(* usbPoll, and the loop around the state machine.                         *)
(***************************************************************************)
usbPoll ==
  /\ poll /\ poll' = FALSE
  /\ answer' \in {answer, usb_val}
  /\ UNCHANGED <<TWSR, pc, state, cnt, cnt2, nread, pwm, outVars, held, sensorVars, pressed>>

At(here)           == pc = here /\ ~poll
ThenPoll(next)     == pc' = next /\ poll' = TRUE
ThenGo(next)       == pc' = next /\ poll' = FALSE
\* The state machine is left: the next state, in DELAY iterations.
ThenWait(newState) == ThenGo("output") /\ state' = newState /\ cnt' = DELAY

Loop ==
  /\ At("loop") /\ ThenPoll("count")
  /\ UNCHANGED <<TWSR, state, cnt, cnt2, nread, pwm, outVars, answer, held, sensorVars, pressed>>

Count ==
  /\ At("count")
  /\ IF cnt > 0 THEN ThenGo("output") /\ cnt' = cnt - 1
     ELSE ThenGo(IF state = STATE_PRE_MEASURE THEN "request" ELSE "read") /\ UNCHANGED cnt
  /\ UNCHANGED <<TWSR, state, cnt2, nread, pwm, outVars, answer, held, sensorVars, pressed>>

\* The switch is looked at, and the first of two compare registers written.
Output ==
  /\ At("output")
  /\ \/ ~pressed /\ ThenGo("outputValue") /\ ocr' = [ocr EXCEPT ![0] = temp_val]
     \/ pressed /\ cnt2 >= HALF /\ ThenGo("outputLow") /\ ocr' = [ocr EXCEPT ![0] = Low]
     \/ pressed /\ cnt2 < HALF /\ ThenGo("outputHigh") /\ ocr' = [ocr EXCEPT ![0] = High]
  /\ UNCHANGED <<TWSR, state, cnt, cnt2, nread, usb_val, temp_val, humid_val, older, published,
                 answer, held, sensorVars, pressed, pwm>>

\* The other one is written later, in the branch that was chosen.
OutputSecond ==
  /\ \/ At("outputValue") /\ ocr' = [ocr EXCEPT ![1] = humid_val]
     \/ At("outputLow") /\ ocr' = [ocr EXCEPT ![1] = Low]
     \/ At("outputHigh") /\ ocr' = [ocr EXCEPT ![1] = High]
  /\ ThenGo("delay")
  /\ cnt2' = (cnt2 + 1) % (2 * HALF)
  /\ UNCHANGED <<TWSR, state, cnt, nread, usb_val, temp_val, humid_val, older, published,
                 answer, held, sensorVars, pressed, pwm>>

\* A millisecond has several periods of the timer (1024 cycles at 16 MHz), so that the
\* last values written are shown when it is over.
Delay ==
  /\ At("delay") /\ pwm = ocr /\ ThenGo("loop")
  /\ conv <= CONV /\ conv' = IF conv = 0 THEN 0 ELSE conv + 1
  /\ UNCHANGED <<TWSR, state, cnt, cnt2, nread, outVars, answer, held, sample, unread,
                 fetched, pressed, pwm>>

-----------------------------------------------------------------------------
(***************************************************************************)
(* The I2C unit: what TWSR may hold after a START, and after an address.   *)
(***************************************************************************)
StartStatus == {IF held THEN "repeated start" ELSE "start", "fault"}

\* Mutant: a repeated START is taken for a failure.
StartAcceptedOnce(status) == status = "start"

\* A START is good whether the bus was released or not.
StartAccepted(status) == status \in {"start", "repeated start"}

\* After a START the bus is the master's; after a fault it may be or not.
Started(status) == IF status = "fault" THEN held' \in BOOLEAN ELSE held' = TRUE

(***************************************************************************)
(* request_measurement.                                                    *)
(***************************************************************************)
RequestStart ==
  /\ At("request")
  /\ TWSR' \in StartStatus /\ Started(TWSR')
  /\ IF StartAccepted(TWSR') THEN ThenPoll("requestAddr") /\ UNCHANGED <<state, cnt>>
     ELSE ThenWait(STATE_PRE_MEASURE)
  /\ UNCHANGED <<cnt2, nread, pwm, outVars, answer, sensorVars, pressed>>

\* Refused, no STOP is sent: the next START is a repeated one.
RequestAddr ==
  /\ At("requestAddr")
  /\ TWSR' \in {"ack", "nack"}
  /\ IF TWSR' = "ack" THEN ThenPoll("requestStop") /\ UNCHANGED <<state, cnt>>
     ELSE ThenWait(STATE_PRE_MEASURE)
  /\ UNCHANGED <<cnt2, nread, pwm, outVars, answer, held, sensorVars, pressed>>

RequestStop ==
  /\ At("requestStop")
  /\ held' = FALSE /\ conv' = 1
  /\ ThenWait(STATE_PRE_READ)
  /\ UNCHANGED <<TWSR, cnt2, nread, pwm, outVars, answer, sample, unread, pwm, fetched, pressed>>

-----------------------------------------------------------------------------
(***************************************************************************)
(* read_result, whose result the loop does not look at.                    *)
(***************************************************************************)
ReadStart ==
  /\ At("read")
  /\ TWSR' \in StartStatus /\ Started(TWSR')
  /\ IF StartAccepted(TWSR') THEN ThenPoll("readAddr") /\ UNCHANGED <<state, cnt>>
     ELSE ThenWait(STATE_PRE_MEASURE)
  /\ UNCHANGED <<cnt2, nread, pwm, outVars, answer, sensorVars, pressed>>

\* The sensor tells an answer already fetched by its status, 1; 2 is command mode.
SensorAnswers ==
  /\ fetched' \in [id : {sample}, status : IF unread THEN {0} ELSE {1, 2}]
  /\ unread' = FALSE

ReadAddr ==
  /\ At("readAddr")
  /\ TWSR' \in {"ack", "nack"}
  /\ IF TWSR' = "ack"
     THEN ThenPoll("readByte") /\ SensorAnswers /\ nread' = 0 /\ UNCHANGED <<state, cnt>>
     ELSE ThenWait(STATE_PRE_MEASURE) /\ UNCHANGED <<nread, unread, fetched>>
  /\ UNCHANGED <<cnt2, pwm, outVars, answer, held, conv, sample, pressed>>

\* A poll has gone before: take the byte and wait for the next, or stop.
ReadByte ==
  /\ At("readByte")
  /\ IF nread < 3 THEN ThenPoll("readByte") /\ nread' = nread + 1 /\ UNCHANGED held
     ELSE ThenPoll("status") /\ nread' = 0 /\ held' = FALSE
  /\ UNCHANGED <<TWSR, state, cnt, cnt2, pwm, outVars, answer, sensorVars, pressed>>

\* Mutants: the humidity is left to a later iteration; the status is not looked at.
StatusThenWaits ==
  /\ At("status")
  /\ IF fetched.status = 0
     THEN /\ usb_val' = [usb_val EXCEPT ![0] = fetched.id]
          /\ temp_val' = fetched.id
          /\ older' = usb_val[0] /\ published' = published \cup {fetched.id}
     ELSE UNCHANGED <<usb_val, temp_val, older, published>>
  /\ ThenWait(STATE_PRE_MEASURE)
  /\ UNCHANGED <<TWSR, cnt2, nread, pwm, humid_val, ocr, answer, held, sensorVars, pressed>>

StatusIgnored ==
  /\ At("status")
  /\ ThenPoll("humid") /\ UNCHANGED <<state, cnt>>
  /\ usb_val' = [usb_val EXCEPT ![0] = fetched.id]
  /\ temp_val' = fetched.id
  /\ older' = usb_val[0] /\ published' = published \cup {fetched.id}
  /\ UNCHANGED <<TWSR, cnt2, nread, pwm, humid_val, ocr, answer, held, sensorVars, pressed>>

\* A fresh temperature is stored, and the stack polled before the humidity.
Status ==
  /\ At("status")
  /\ IF fetched.status = 0
     THEN /\ ThenPoll("humid") /\ UNCHANGED <<state, cnt>>
          /\ usb_val' = [usb_val EXCEPT ![0] = fetched.id]
          /\ temp_val' = fetched.id
          /\ older' = usb_val[0] /\ published' = published \cup {fetched.id}
     ELSE ThenWait(STATE_PRE_MEASURE) /\ UNCHANGED <<usb_val, temp_val, older, published>>
  /\ UNCHANGED <<TWSR, cnt2, nread, pwm, humid_val, ocr, answer, held, sensorVars, pressed>>

\* Mutant: the humidity is put out but not published.
HumidUnpublished ==
  /\ At("humid")
  /\ humid_val' = fetched.id
  /\ ThenWait(STATE_PRE_MEASURE)
  /\ UNCHANGED <<TWSR, cnt2, nread, pwm, usb_val, temp_val, ocr, older, published, answer, held, sensorVars,
                 pressed>>

Humid ==
  /\ At("humid")
  /\ usb_val' = [usb_val EXCEPT ![1] = fetched.id] /\ humid_val' = fetched.id
  /\ ThenWait(STATE_PRE_MEASURE)
  /\ UNCHANGED <<TWSR, cnt2, nread, pwm, temp_val, ocr, older, published, answer, held, sensorVars, pressed>>

-----------------------------------------------------------------------------
ConversionDone ==
  /\ conv > 0 /\ conv' = 0
  /\ sample' = (sample + 1) % NSAMPLES /\ unread' = TRUE
  /\ published' = published \ {sample'}
  /\ UNCHANGED <<TWSR, pc, poll, state, cnt, cnt2, nread, pwm, usb_val, temp_val, humid_val, ocr,
                 older, answer, held, fetched, pressed>>

\* A period of the timer begins: in fast PWM mode it takes both compare values over then.
Period ==
  /\ pwm' = ocr
  /\ UNCHANGED <<TWSR, pc, poll, state, cnt, cnt2, nread, outVars, answer, held, sensorVars, pressed>>

SwitchMoves ==
  /\ pressed' = ~pressed
  /\ UNCHANGED <<TWSR, pc, poll, state, cnt, cnt2, nread, pwm, outVars, answer, held, sensorVars>>

main ==
  \/ usbPoll \/ Loop \/ Count \/ Output \/ OutputSecond \/ Delay
  \/ RequestStart \/ RequestAddr \/ RequestStop
  \/ ReadStart \/ ReadAddr \/ ReadByte \/ Status \/ Humid

Next == main \/ ConversionDone \/ Period \/ SwitchMoves
Spec == Init /\ [][Next]_vars

\* The loop runs forever; TWINT_WAIT waits without bound, for a bus that answers.
FairSpec == Spec /\ WF_vars(main) /\ WF_vars(ConversionDone) /\ WF_vars(Period)

-----------------------------------------------------------------------------
\* The temperature of one sample stands beside the humidity of another, or a level beside a
\* value, for one period at most: a period that begins between the two stores shows them,
\* and before the next iteration both outputs show one sample or one level again.
OutputsTogether == pwm[0] # pwm[1] => pc \in SecondStore \cup {"delay"}

\* An answer that carries both words has them of one sample, or, when it is made
\* by the poll in the middle of read_result, the humidity of the sample before.
AnswerOfOneSample ==
  [][answer' # answer => answer'[0] = answer'[1] \/ (pc = "humid" /\ answer'[1] = older)]_vars

\* Each conversion is published at most once, also by a sensor that needs longer
\* than the delay and is asked again before it is done.
NoSampleTwice == [][(pc = "status" /\ pc' = "humid") => fetched.id \notin published]_vars

\* Once the bus answers, new samples are published forever, although nothing that
\* failed before released it, and although a sensor a little slower than the
\* delay is asked too early again and again.
Healthy == <>[](TWSR \notin {"fault", "nack"})
SamplesFlow == Healthy => []<><<usb_val'[1] # usb_val[1]>>_vars
=============================================================================
