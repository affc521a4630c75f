------------------------------- MODULE Th1Proofs -------------------------------
(***************************************************************************)
(* Proofs about the first device: its main loop (Th1Main), however long    *)
(* the delays, wherever usbPoll is called, whatever fails on the bus and   *)
(* however late a conversion ends; and the arithmetic of its samples       *)
(* (Conversion), side by side with that of the second device.              *)
(***************************************************************************)
EXTENDS Th1Main, Conversion, TLAPS

-----------------------------------------------------------------------------
(***************************************************************************)
(* Th1Main.                                                                *)
(***************************************************************************)

\* Only between the two stores of read_result do the words differ, and then the
\* humidity is that of the sample before.
Paired ==
  /\ pc # "humid" => temp_val = humid_val /\ usb_val[0] = usb_val[1]
  /\ pc = "humid" => temp_val = fetched.id /\ usb_val[0] = fetched.id /\ usb_val[1] = older

\* The first of the two outputs has what the second is about to get; outside the two stores
\* the compare values are alike, and once the delay is over so is what is shown.
Shown ==
  /\ pc \notin SecondStore => ocr[0] = ocr[1]
  /\ pc = "outputValue" => ocr[0] = temp_val
  /\ pc = "outputLow" => ocr[0] = Low
  /\ pc = "outputHigh" => ocr[0] = High
  /\ pc \notin SecondStore \cup {"delay"} => pwm[0] = pwm[1]

\* A sample that can still be fetched is not published, nor one that was fetched fresh
\* and is on its way.  At most one conversion ends on that way, for none is asked for.
FreshUnpublished ==
  /\ unread => sample \notin published
  /\ pc \in {"readByte", "status"} /\ fetched.status = 0 =>
       /\ fetched.id \notin published
       /\ (fetched.id = sample /\ ~unread) \/ (fetched.id # sample /\ conv = 0)

IInv == TypeOK /\ Paired /\ Shown /\ FreshUnpublished

\* The identifier of the next sample is another one.
LEMMA NextSample ==
  ASSUME NEW s \in Samples
  PROVE  (s + 1) % NSAMPLES \in Samples /\ (s + 1) % NSAMPLES # s
BY SamplesAssumption DEF Samples

\* What the countdown of a delay and the age of a conversion may become.
LEMMA Ranges ==
  /\ DELAY \in 0 .. DELAY /\ \A c \in 0 .. DELAY : c > 0 => c - 1 \in 0 .. DELAY
  /\ {0, 1} \subseteq 0 .. CONV + 1 /\ \A c \in 0 .. CONV + 1 : c <= CONV => c + 1 \in 0 .. CONV + 1
BY DelayAssumption

\* The invariant holds when main starts.
THEOREM InitIInv == Init => IInv
<1> SUFFICES ASSUME Init PROVE IInv
  OBVIOUS
<1> USE DEF Init
<1>1. TypeOK
  <2>1. 0 \in Samples /\ None \in Samples \cup {None} /\ Half \in Levels
    BY SamplesAssumption DEF Samples, Levels
  <2>2. cnt \in 0 .. DELAY /\ cnt2 \in 0 .. 2 * HALF - 1 /\ conv \in 0 .. CONV + 1
    BY DelayAssumption
  <2>3. usb_val \in [{0, 1} -> Samples \cup {None}] /\ answer \in [{0, 1} -> Samples \cup {None}]
    BY <2>1
  <2>4. {ocr, pwm} \subseteq [{0, 1} -> Levels]
    BY <2>1
  <2>5. fetched \in [id : Samples, status : 0 .. 2]
    BY <2>1
  <2>6. {temp_val, humid_val, older} \subseteq Samples \cup {None} /\ sample \in Samples
    BY <2>1
  <2>7. poll \in BOOLEAN /\ held \in BOOLEAN /\ unread \in BOOLEAN /\ pressed \in BOOLEAN
    OBVIOUS
  <2>8. /\ pc = "loop" /\ state \in {STATE_PRE_MEASURE, STATE_PRE_READ} /\ nread \in 0 .. 3
        /\ TWSR = "ack" /\ published \subseteq Samples
    OBVIOUS
  <2> QED BY <2>2, <2>3, <2>4, <2>5, <2>6, <2>7, <2>8 DEF TypeOK, LoopTypeOK, WordsTypeOK, BusTypeOK
<1>2. Paired /\ Shown /\ FreshUnpublished
  BY DEF Paired, Shown, SecondStore, FreshUnpublished
<1> QED BY <1>1, <1>2 DEF IInv

\* The counters of the loop stay in their ranges: read_result takes four bytes at most.
LEMMA LoopTypes ==
  LoopTypeOK /\ [Next]_vars => LoopTypeOK'
<1> SUFFICES ASSUME LoopTypeOK, [Next]_vars PROVE LoopTypeOK'
  OBVIOUS
<1>1. CASE usbPoll
  BY <1>1 DEF usbPoll, ThenPoll, ThenGo, ThenWait, outVars, sensorVars, LoopTypeOK
<1>2. CASE Loop
  BY <1>2 DEF Loop, ThenPoll, ThenGo, ThenWait, outVars, sensorVars, LoopTypeOK
<1>3. CASE Count
  <2>1. CASE cnt > 0
    <3>1. cnt' = cnt - 1 /\ pc' = "output" /\ poll' = FALSE
      BY <1>3, <2>1 DEF Count, ThenGo
    <3>2. cnt' \in 0 .. DELAY
      BY <2>1, <3>1, Ranges DEF LoopTypeOK
    <3> QED BY <1>3, <3>1, <3>2 DEF Count, outVars, LoopTypeOK
  <2>2. CASE ~(cnt > 0)
    BY <1>3, <2>2 DEF Count, ThenGo, outVars, LoopTypeOK
  <2> QED BY <2>1, <2>2
<1>4. CASE Output
  BY <1>4 DEF Output, ThenGo, sensorVars, SecondStore, LoopTypeOK
<1>4a. CASE OutputSecond
  <2>1. cnt2' \in 0 .. 2 * HALF - 1
    BY <1>4a, DelayAssumption DEF OutputSecond, LoopTypeOK
  <2> QED BY <1>4a, <2>1 DEF OutputSecond, ThenGo, sensorVars, LoopTypeOK
<1>4b. CASE Delay
  BY <1>4b DEF Delay, ThenGo, outVars, LoopTypeOK
<1>4c. CASE Period
  BY <1>4c DEF Period, outVars, sensorVars, LoopTypeOK
<1>5. CASE RequestStart
  <2>1. CASE StartAccepted(TWSR')
    BY <1>5, <2>1, Ranges DEF RequestStart, At, ThenPoll, ThenGo, ThenWait, LoopTypeOK
  <2>2. CASE ~StartAccepted(TWSR')
    BY <1>5, <2>2, Ranges DEF RequestStart, At, ThenPoll, ThenGo, ThenWait, LoopTypeOK
  <2> QED BY <2>1, <2>2
<1>6. CASE RequestAddr
  <2>1. CASE TWSR' = "ack"
    BY <1>6, <2>1, Ranges DEF RequestAddr, At, ThenPoll, ThenGo, ThenWait, LoopTypeOK
  <2>2. CASE TWSR' # "ack"
    BY <1>6, <2>2, Ranges DEF RequestAddr, At, ThenPoll, ThenGo, ThenWait, LoopTypeOK
  <2> QED BY <2>1, <2>2
<1>7. CASE RequestStop
  BY <1>7, Ranges DEF RequestStop, ThenWait, ThenGo, LoopTypeOK
<1>8. CASE ReadStart
  <2>1. CASE StartAccepted(TWSR')
    BY <1>8, <2>1, Ranges DEF ReadStart, At, ThenPoll, ThenGo, ThenWait, LoopTypeOK
  <2>2. CASE ~StartAccepted(TWSR')
    BY <1>8, <2>2, Ranges DEF ReadStart, At, ThenPoll, ThenGo, ThenWait, LoopTypeOK
  <2> QED BY <2>1, <2>2
<1>9. CASE ReadAddr
  <2>1. CASE TWSR' = "ack"
    BY <1>9, <2>1, Ranges DEF ReadAddr, At, ThenPoll, ThenGo, ThenWait, LoopTypeOK
  <2>2. CASE TWSR' # "ack"
    BY <1>9, <2>2, Ranges DEF ReadAddr, At, ThenPoll, ThenGo, ThenWait, LoopTypeOK
  <2> QED BY <2>1, <2>2
<1>10. CASE ReadByte
  <2>1. CASE nread < 3
    BY <1>10, <2>1, Ranges DEF ReadByte, At, ThenPoll, ThenGo, ThenWait, LoopTypeOK
  <2>2. CASE ~(nread < 3)
    BY <1>10, <2>2, Ranges DEF ReadByte, At, ThenPoll, ThenGo, ThenWait, LoopTypeOK
  <2> QED BY <2>1, <2>2
<1>11. CASE Status
  <2>1. CASE fetched.status = 0
    BY <1>11, <2>1, Ranges DEF Status, At, ThenPoll, ThenGo, ThenWait, LoopTypeOK
  <2>2. CASE fetched.status # 0
    BY <1>11, <2>2, Ranges DEF Status, At, ThenPoll, ThenGo, ThenWait, LoopTypeOK
  <2> QED BY <2>1, <2>2
<1>12. CASE Humid
  BY <1>12, Ranges DEF Humid, ThenWait, ThenGo, LoopTypeOK
<1>13. CASE ConversionDone
  BY <1>13 DEF ConversionDone, ThenPoll, ThenGo, ThenWait, outVars, sensorVars, LoopTypeOK
<1>14. CASE SwitchMoves
  BY <1>14 DEF SwitchMoves, ThenPoll, ThenGo, ThenWait, outVars, sensorVars, LoopTypeOK
<1>15. CASE UNCHANGED vars
  BY <1>15 DEF vars, outVars, sensorVars, LoopTypeOK
<1> QED BY <1>1, <1>2, <1>3, <1>4, <1>5, <1>6, <1>7, <1>8, <1>9, <1>10, <1>11, <1>12, <1>13,
           <1>14, <1>15, <1>4a, <1>4b, <1>4c DEF Next, main

\* What is stored, put out and answered is a sample, or nothing yet.
LEMMA WordsTypes ==
  WordsTypeOK /\ BusTypeOK /\ [Next]_vars => WordsTypeOK'
<1> SUFFICES ASSUME WordsTypeOK, BusTypeOK, [Next]_vars PROVE WordsTypeOK'
  OBVIOUS
<1>1. CASE usbPoll
  BY <1>1 DEF usbPoll, outVars, WordsTypeOK
<1>2. CASE Loop
  BY <1>2 DEF Loop, outVars, WordsTypeOK
<1>3. CASE Count
  BY <1>3 DEF Count, outVars, WordsTypeOK
<1>4. CASE Output
  <2>1. ocr' \in [{0, 1} -> Levels]
    BY <1>4 DEF Output, WordsTypeOK, Levels
  <2> QED BY <1>4, <2>1 DEF Output, WordsTypeOK
<1>4a. CASE OutputSecond
  <2>1. ocr' \in [{0, 1} -> Levels]
    BY <1>4a DEF OutputSecond, WordsTypeOK, Levels
  <2> QED BY <1>4a, <2>1 DEF OutputSecond, WordsTypeOK
<1>4b. CASE Delay
  BY <1>4b DEF Delay, outVars, WordsTypeOK
<1>4c. CASE Period
  BY <1>4c DEF Period, outVars, WordsTypeOK
<1>5. CASE RequestStart
  BY <1>5 DEF RequestStart, outVars, WordsTypeOK
<1>6. CASE RequestAddr
  BY <1>6 DEF RequestAddr, outVars, WordsTypeOK
<1>7. CASE RequestStop
  BY <1>7 DEF RequestStop, outVars, WordsTypeOK
<1>8. CASE ReadStart
  BY <1>8 DEF ReadStart, outVars, WordsTypeOK
<1>9. CASE ReadAddr
  BY <1>9 DEF ReadAddr, outVars, WordsTypeOK
<1>10. CASE ReadByte
  BY <1>10 DEF ReadByte, outVars, WordsTypeOK
<1>11. CASE Status
  <2>1. fetched.id \in Samples
    BY DEF BusTypeOK
  <2>2. usb_val' \in [{0, 1} -> Samples \cup {None}]
    BY <1>11, <2>1 DEF Status, WordsTypeOK
  <2>3. {temp_val', older'} \subseteq Samples \cup {None} /\ published' \subseteq Samples
    BY <1>11, <2>1 DEF Status, WordsTypeOK
  <2> QED BY <1>11, <2>2, <2>3 DEF Status, WordsTypeOK
<1>12. CASE Humid
  <2>1. fetched.id \in Samples
    BY DEF BusTypeOK
  <2>2. usb_val' \in [{0, 1} -> Samples \cup {None}] /\ humid_val' \in Samples
    BY <1>12, <2>1 DEF Humid, WordsTypeOK
  <2> QED BY <1>12, <2>2 DEF Humid, WordsTypeOK
<1>13. CASE ConversionDone
  BY <1>13 DEF ConversionDone, outVars, WordsTypeOK
<1>14. CASE SwitchMoves
  BY <1>14 DEF SwitchMoves, outVars, WordsTypeOK
<1>15. CASE UNCHANGED vars
  BY <1>15 DEF vars, outVars, sensorVars, WordsTypeOK
<1> QED BY <1>1, <1>2, <1>3, <1>4, <1>5, <1>6, <1>7, <1>8, <1>9, <1>10, <1>11, <1>12, <1>13,
           <1>14, <1>15, <1>4a, <1>4b, <1>4c DEF Next, main

\* The bus and the sensor stay in the states the model gives them.
LEMMA BusTypes ==
  BusTypeOK /\ [Next]_vars => BusTypeOK'
<1> SUFFICES ASSUME BusTypeOK, [Next]_vars PROVE BusTypeOK'
  OBVIOUS
<1>1. CASE usbPoll
  BY <1>1 DEF usbPoll, sensorVars, BusTypeOK
<1>2. CASE Loop
  BY <1>2 DEF Loop, sensorVars, BusTypeOK
<1>3. CASE Count
  BY <1>3 DEF Count, sensorVars, BusTypeOK
<1>4. CASE Output
  BY <1>4 DEF Output, sensorVars, BusTypeOK
<1>4a. CASE OutputSecond
  BY <1>4a DEF OutputSecond, sensorVars, BusTypeOK
<1>4b. CASE Delay
  <2>1. conv' \in 0 .. CONV + 1
    BY <1>4b, Ranges DEF Delay, BusTypeOK
  <2> QED BY <1>4b, <2>1 DEF Delay, BusTypeOK
<1>4c. CASE Period
  BY <1>4c DEF Period, sensorVars, BusTypeOK
<1>5. CASE RequestStart
  <2>1. TWSR' \in {"start", "repeated start", "fault"} /\ held' \in BOOLEAN
    BY <1>5 DEF RequestStart, StartStatus, Started
  <2> QED BY <1>5, <2>1 DEF RequestStart, sensorVars, BusTypeOK
<1>6. CASE RequestAddr
  BY <1>6 DEF RequestAddr, sensorVars, BusTypeOK
<1>7. CASE RequestStop
  <2>1. conv' \in 0 .. CONV + 1 /\ held' \in BOOLEAN
    BY <1>7, Ranges DEF RequestStop
  <2> QED BY <1>7, <2>1 DEF RequestStop, BusTypeOK
<1>8. CASE ReadStart
  <2>1. TWSR' \in {"start", "repeated start", "fault"} /\ held' \in BOOLEAN
    BY <1>8 DEF ReadStart, StartStatus, Started
  <2> QED BY <1>8, <2>1 DEF ReadStart, sensorVars, BusTypeOK
<1>9. CASE ReadAddr
  <2>1. fetched' \in [id : Samples, status : 0 .. 2] /\ unread' \in BOOLEAN
    <3>1. CASE TWSR' = "ack"
      <4>1. sample \in Samples
        BY DEF BusTypeOK
      <4>2. (IF unread THEN {0} ELSE {1, 2}) \subseteq 0 .. 2
        OBVIOUS
      <4>3. fetched' \in [id : {sample}, status : IF unread THEN {0} ELSE {1, 2}] /\ unread' = FALSE
        BY <1>9, <3>1 DEF ReadAddr, SensorAnswers
      <4> QED BY <4>1, <4>2, <4>3
    <3>2. CASE TWSR' # "ack"
      BY <1>9, <3>2 DEF ReadAddr, BusTypeOK
    <3> QED BY <3>1, <3>2
  <2> QED BY <1>9, <2>1 DEF ReadAddr, BusTypeOK
<1>10. CASE ReadByte
  BY <1>10 DEF ReadByte, sensorVars, BusTypeOK
<1>11. CASE Status
  BY <1>11 DEF Status, sensorVars, BusTypeOK
<1>12. CASE Humid
  BY <1>12 DEF Humid, sensorVars, BusTypeOK
<1>13. CASE ConversionDone
  <2>1. sample' \in Samples
    BY <1>13, NextSample DEF ConversionDone, BusTypeOK
  <2>2. conv' \in 0 .. CONV + 1 /\ unread' \in BOOLEAN
    BY <1>13, Ranges DEF ConversionDone
  <2> QED BY <1>13, <2>1, <2>2 DEF ConversionDone, BusTypeOK
<1>14. CASE SwitchMoves
  <2>1. pressed' \in BOOLEAN
    BY <1>14 DEF SwitchMoves
  <2> QED BY <1>14, <2>1 DEF SwitchMoves, sensorVars, BusTypeOK
<1>15. CASE UNCHANGED vars
  BY <1>15 DEF vars, outVars, sensorVars, BusTypeOK
<1> QED BY <1>1, <1>2, <1>3, <1>4, <1>5, <1>6, <1>7, <1>8, <1>9, <1>10, <1>11, <1>12, <1>13,
           <1>14, <1>15, <1>4a, <1>4b, <1>4c DEF Next, main

\* Every step keeps the words together outside the middle of read_result.
LEMMA PairedStep ==
  WordsTypeOK /\ Paired /\ Shown /\ [Next]_vars => (Paired /\ Shown)'
<1> SUFFICES ASSUME WordsTypeOK, Paired, Shown, [Next]_vars PROVE (Paired /\ Shown)'
  OBVIOUS
<1>1. CASE usbPoll
  BY <1>1 DEF usbPoll, At, ThenPoll, ThenGo, ThenWait, outVars, sensorVars, Paired, Shown, SecondStore
<1>2. CASE Loop
  BY <1>2 DEF Loop, At, ThenPoll, ThenGo, ThenWait, outVars, sensorVars, Paired, Shown, SecondStore
<1>3. CASE Count
  BY <1>3 DEF Count, At, ThenPoll, ThenGo, ThenWait, outVars, sensorVars, Paired, Shown, SecondStore
<1>4. CASE Output
  <2>1. temp_val = humid_val /\ usb_val[0] = usb_val[1] /\ pwm[0] = pwm[1]
    BY <1>4 DEF Output, At, Paired, Shown, SecondStore
  <2>2. Paired'
    BY <1>4, <2>1 DEF Output, ThenGo, Paired
  <2>3. Shown'
    BY <1>4, <2>1 DEF Output, ThenGo, WordsTypeOK, Shown, SecondStore
  <2> QED BY <2>2, <2>3
<1>4a. CASE OutputSecond
  <2>1. temp_val = humid_val /\ usb_val[0] = usb_val[1]
    BY <1>4a DEF OutputSecond, At, Paired
  <2>2. ocr'[0] = ocr[0] /\ ocr'[1] = ocr[0]
    BY <1>4a, <2>1 DEF OutputSecond, At, WordsTypeOK, Shown
  <2> QED BY <1>4a, <2>1, <2>2 DEF OutputSecond, ThenGo, Paired, Shown, SecondStore
<1>4b. CASE Delay
  BY <1>4b DEF Delay, At, ThenGo, outVars, Paired, Shown, SecondStore
<1>4c. CASE Period
  BY <1>4c DEF Period, outVars, sensorVars, Paired, Shown, SecondStore
<1>5. CASE RequestStart
  BY <1>5 DEF RequestStart, At, ThenPoll, ThenGo, ThenWait, outVars, sensorVars, Paired, Shown, SecondStore
<1>6. CASE RequestAddr
  BY <1>6 DEF RequestAddr, At, ThenPoll, ThenGo, ThenWait, outVars, sensorVars, Paired, Shown, SecondStore
<1>7. CASE RequestStop
  BY <1>7 DEF RequestStop, At, ThenPoll, ThenGo, ThenWait, outVars, sensorVars, Paired, Shown, SecondStore
<1>8. CASE ReadStart
  BY <1>8 DEF ReadStart, At, ThenPoll, ThenGo, ThenWait, outVars, sensorVars, Paired, Shown, SecondStore
<1>9. CASE ReadAddr
  <2>1. CASE TWSR' = "ack"
    BY <1>9, <2>1 DEF ReadAddr, At, ThenPoll, outVars, Paired, Shown, SecondStore
  <2>2. CASE TWSR' # "ack"
    BY <1>9, <2>2 DEF ReadAddr, At, ThenWait, ThenGo, outVars, Paired, Shown, SecondStore
  <2> QED BY <2>1, <2>2
<1>10. CASE ReadByte
  BY <1>10 DEF ReadByte, At, ThenPoll, ThenGo, ThenWait, outVars, sensorVars, Paired, Shown, SecondStore
<1>11. CASE Status
  <2>1. CASE fetched.status = 0
    <3>1. usb_val[0] = usb_val[1] /\ usb_val' = [usb_val EXCEPT ![0] = fetched.id]
      BY <1>11, <2>1 DEF Status, At, Paired
    <3>2. usb_val'[0] = fetched.id /\ usb_val'[1] = usb_val[0]
      BY <3>1 DEF WordsTypeOK
    <3> QED BY <1>11, <2>1, <3>2 DEF Status, At, ThenPoll, sensorVars, Paired, Shown, SecondStore
  <2>2. CASE fetched.status # 0
    BY <1>11, <2>2 DEF Status, At, ThenWait, ThenGo, Paired, Shown, SecondStore
  <2> QED BY <2>1, <2>2
<1>12. CASE Humid
  BY <1>12 DEF Humid, At, ThenWait, ThenGo, WordsTypeOK, Paired, Shown, SecondStore
<1>13. CASE ConversionDone
  BY <1>13 DEF ConversionDone, At, ThenPoll, ThenGo, ThenWait, outVars, sensorVars, Paired, Shown, SecondStore
<1>14. CASE SwitchMoves
  BY <1>14 DEF SwitchMoves, At, ThenPoll, ThenGo, ThenWait, outVars, sensorVars, Paired, Shown, SecondStore
<1>15. CASE UNCHANGED vars
  BY <1>15 DEF vars, outVars, sensorVars, Paired, Shown, SecondStore
<1> QED BY <1>1, <1>2, <1>3, <1>4, <1>5, <1>6, <1>7, <1>8, <1>9, <1>10, <1>11, <1>12, <1>13,
           <1>14, <1>15, <1>4a, <1>4b, <1>4c DEF Next, main

\* Every step keeps a fresh sample unpublished: the one store that publishes it is the
\* step that leaves the status byte behind.
LEMMA FreshStep ==
  BusTypeOK /\ FreshUnpublished /\ [Next]_vars => FreshUnpublished'
<1> SUFFICES ASSUME BusTypeOK, FreshUnpublished, [Next]_vars PROVE FreshUnpublished'
  OBVIOUS
<1>1. CASE usbPoll
  BY <1>1 DEF usbPoll, At, ThenPoll, ThenGo, ThenWait, outVars, sensorVars, FreshUnpublished
<1>2. CASE Loop
  BY <1>2 DEF Loop, At, ThenPoll, ThenGo, ThenWait, outVars, sensorVars, FreshUnpublished
<1>3. CASE Count
  BY <1>3 DEF Count, At, ThenPoll, ThenGo, ThenWait, outVars, sensorVars, FreshUnpublished
<1>4. CASE Output
  BY <1>4 DEF Output, At, ThenPoll, ThenGo, ThenWait, outVars, sensorVars, FreshUnpublished
<1>4a. CASE OutputSecond
  BY <1>4a DEF OutputSecond, ThenGo, sensorVars, FreshUnpublished
<1>4b. CASE Delay
  BY <1>4b DEF Delay, ThenGo, outVars, FreshUnpublished
<1>4c. CASE Period
  BY <1>4c DEF Period, outVars, sensorVars, FreshUnpublished
<1>5. CASE RequestStart
  BY <1>5 DEF RequestStart, At, ThenPoll, ThenGo, ThenWait, outVars, sensorVars, FreshUnpublished
<1>6. CASE RequestAddr
  BY <1>6 DEF RequestAddr, At, ThenPoll, ThenGo, ThenWait, outVars, sensorVars, FreshUnpublished
<1>7. CASE RequestStop
  BY <1>7 DEF RequestStop, At, ThenPoll, ThenGo, ThenWait, outVars, sensorVars, FreshUnpublished
<1>8. CASE ReadStart
  BY <1>8 DEF ReadStart, At, ThenPoll, ThenGo, ThenWait, outVars, sensorVars, FreshUnpublished
<1>9. CASE ReadAddr
  <2>1. CASE TWSR' = "ack"
    <3>1. fetched'.id = sample /\ fetched'.status \in (IF unread THEN {0} ELSE {1, 2})
      BY <1>9, <2>1 DEF ReadAddr, SensorAnswers
    <3>2. unread' = FALSE /\ sample' = sample /\ published' = published
      BY <1>9, <2>1 DEF ReadAddr, SensorAnswers, outVars
    <3> QED BY <3>1, <3>2 DEF FreshUnpublished
  <2>2. CASE TWSR' # "ack"
    BY <1>9, <2>2 DEF ReadAddr, At, ThenWait, ThenGo, outVars, FreshUnpublished
  <2> QED BY <2>1, <2>2
<1>10. CASE ReadByte
  BY <1>10 DEF ReadByte, At, ThenPoll, ThenGo, ThenWait, outVars, sensorVars, FreshUnpublished
<1>11. CASE Status
  BY <1>11 DEF Status, At, ThenPoll, ThenGo, ThenWait, outVars, sensorVars, FreshUnpublished
<1>12. CASE Humid
  BY <1>12 DEF Humid, At, ThenPoll, ThenGo, ThenWait, outVars, sensorVars, FreshUnpublished
<1>13. CASE ConversionDone
  <2>1. sample' # sample /\ sample' \notin published'
    BY <1>13, NextSample DEF ConversionDone, BusTypeOK
  <2>2. published' \subseteq published
    BY <1>13 DEF ConversionDone
  <2>3. conv > 0 /\ conv' = 0 /\ UNCHANGED <<pc, fetched>>
    BY <1>13 DEF ConversionDone
  <2>4. conv # 0
    BY <2>3
  <2>5. unread' => sample' \notin published'
    BY <2>1
  <2>6. ASSUME pc' \in {"readByte", "status"}, fetched'.status = 0
        PROVE  fetched'.id \notin published' /\ fetched'.id # sample' /\ conv' = 0
    <3>1. fetched.id \notin published /\ fetched.id = sample
      BY <2>3, <2>4, <2>6 DEF FreshUnpublished
    <3> QED BY <2>1, <2>2, <2>3, <3>1
  <2> QED BY <2>5, <2>6 DEF FreshUnpublished
<1>14. CASE SwitchMoves
  BY <1>14 DEF SwitchMoves, At, ThenPoll, ThenGo, ThenWait, outVars, sensorVars, FreshUnpublished
<1>15. CASE UNCHANGED vars
  BY <1>15 DEF vars, outVars, sensorVars, FreshUnpublished
<1> QED BY <1>1, <1>2, <1>3, <1>4, <1>5, <1>6, <1>7, <1>8, <1>9, <1>10, <1>11, <1>12, <1>13,
           <1>14, <1>15, <1>4a, <1>4b, <1>4c DEF Next, main

\* The invariant is inductive.
THEOREM StepIInv == IInv /\ [Next]_vars => IInv'
BY LoopTypes, WordsTypes, BusTypes, PairedStep, FreshStep DEF IInv, TypeOK

\* The invariant holds in every state main reaches.
LEMMA AlwaysIInv == Spec => []IInv
BY InitIInv, StepIInv, PTL DEF Spec

\* The variables keep their types; in particular read_result never takes more than the
\* four bytes it has room for.
THEOREM TypeCorrect == Spec => []TypeOK
<1>1. IInv => TypeOK
  BY DEF IInv
<1> QED BY AlwaysIInv, <1>1, PTL

\* A period that begins between the two stores shows two samples, or a level and a value;
\* before the delay is over the outputs show one sample, or one level of the square wave.
THEOREM OutputsShowOneSample == Spec => []OutputsTogether
<1>1. IInv => OutputsTogether
  BY DEF IInv, Shown, OutputsTogether
<1> QED BY AlwaysIInv, <1>1, PTL

\* usbPoll, called in the middle of read_result too, never mixes more than a sample with
\* the one before it.
THEOREM AnswersAreOfOneSample == Spec => AnswerOfOneSample
<1>1. IInv /\ [Next]_vars =>
        [answer' # answer => answer'[0] = answer'[1] \/ (pc = "humid" /\ answer'[1] = older)]_vars
  <2> SUFFICES ASSUME IInv, Next, answer' # answer
               PROVE  answer'[0] = answer'[1] \/ (pc = "humid" /\ answer'[1] = older)
    OBVIOUS
  <2>1. usbPoll
    BY DEF Next, outVars, main, Loop, Count, Output, OutputSecond, Delay, Period, RequestStart, RequestAddr,
       RequestStop, ReadStart, ReadAddr, ReadByte, Status, Humid, ConversionDone, SwitchMoves
  <2>2. answer' = usb_val
    BY <2>1 DEF usbPoll
  <2> QED BY <2>2 DEF IInv, Paired
<1> QED BY AlwaysIInv, <1>1, PTL DEF Spec, AnswerOfOneSample

\* A conversion is never published twice, however slow the sensor.
THEOREM SamplesPublishedOnce == Spec => NoSampleTwice
<1>1. IInv /\ [Next]_vars => [(pc = "status" /\ pc' = "humid") => fetched.id \notin published]_vars
  <2> SUFFICES ASSUME IInv, Next, pc = "status", pc' = "humid"
               PROVE  fetched.id \notin published
    OBVIOUS
  <2>1. Status
    BY DEF Next, main, At, ThenPoll, ThenGo, ThenWait, usbPoll, Loop, Count, Output, OutputSecond,
       Delay, Period, SecondStore, RequestStart, RequestAddr, RequestStop, ReadStart, ReadAddr,
       ReadByte, Humid, ConversionDone, SwitchMoves
  <2>2. fetched.status = 0
    BY <2>1 DEF Status, ThenWait, ThenGo
  <2> QED BY <2>2 DEF IInv, FreshUnpublished
<1> QED BY AlwaysIInv, <1>1, PTL DEF Spec, NoSampleTwice

-----------------------------------------------------------------------------
(***************************************************************************)
(* Conversion.                                                             *)
(***************************************************************************)

\* The readings, and the temperatures on the scale of the outputs.  The lemmas range
\* over these sets and over HumidLogical, which the provers need not look into: they
\* would take a range between two numbers one by one.
Raws  == {r \in Nat : r < 16384}
Scale == {t \in Nat : t <= 5000}

\* Where the walk is.
WalkInv == raw \in Raws /\ pad \in 0 .. 3

\* The next reading is a 14-bit one.
LEMMA NextReading ==
  ASSUME NEW r \in Raws
  PROVE  (r + 1) % Readings \in Raws
<1>1. r + 1 \in Int /\ Readings \in Int /\ Readings > 0 /\ Readings <= 16384
  BY ReadingsAssumption DEF Raws
<1> DEFINE next == (r + 1) % Readings
<1>2. next \in Int /\ 0 <= next /\ next < Readings
  BY <1>1
<1> HIDE DEF next
<1>3. next \in Raws
  BY <1>1, <1>2 DEF Raws
<1> QED BY <1>3 DEF next

\* The walk of the model stays in the readings and the open bits.
LEMMA WalkAlwaysInv == WalkSpec => []WalkInv
<1>1. WalkInit => WalkInv
  BY PadsAssumption DEF WalkInit, WalkInv, Raws
<1>2. WalkInv /\ [WalkNext]_walkVars => WalkInv'
  BY NextReading, PadsAssumption DEF WalkInv, WalkNext, walkVars
<1> QED BY <1>1, <1>2, PTL DEF WalkSpec

\* Both readings are found in the sensor's bytes again, whatever the two open bits.
LEMMA ReadingFound ==
  ASSUME NEW r \in Raws, NEW p \in 0 .. 3
  PROVE  /\ ((r % 64) * 4 + p) \div 4 + (r \div 64) * 64 = r
         /\ (r % 256) + ((r \div 256) % 64) * 256 = r
<1> r \in Int /\ 0 <= r /\ r <= 16383
  BY DEF Raws
<1>1. ((r % 64) * 4 + p) \div 4 = r % 64
  OBVIOUS
<1>2. (r % 64) + (r \div 64) * 64 = r
  OBVIOUS
<1>3. r \div 256 \in Int /\ 0 <= r \div 256 /\ r \div 256 <= 63
  OBVIOUS
<1>4. (r \div 256) % 64 = r \div 256
  BY <1>3
<1>5. (r % 256) + (r \div 256) * 256 = r
  OBVIOUS
<1> QED BY <1>1, <1>2, <1>4, <1>5

\* What both devices take out of the answer is the reading.
LEMMA RawRead ==
  WalkInv => RawTemperature(Answer) = raw /\ RawHumidity(Answer) = raw
<1> SUFFICES ASSUME WalkInv PROVE RawTemperature(Answer) = raw /\ RawHumidity(Answer) = raw
  OBVIOUS
<1>1. /\ Answer[0] = raw \div 256 /\ Answer[1] = raw % 256
      /\ Answer[2] = raw \div 64 /\ Answer[3] = (raw % 64) * 4 + pad
  BY DEF Answer
<1>2. /\ ((raw % 64) * 4 + pad) \div 4 + (raw \div 64) * 64 = raw
      /\ (raw % 256) + ((raw \div 256) % 64) * 256 = raw
  BY ReadingFound DEF WalkInv
<1> QED BY <1>1, <1>2 DEF RawTemperature, RawHumidity

\* What both devices publish for a reading.
Hundredths(r) == (r * 16500) \div 16382 - 4000
Share(r)      == (r * 10000) \div 16382

\* Temp1 and Temp2, and Humid1 and Humid2, are these numbers: no product
\* is negative, so that division with and without sign is the same.
LEMMA Published ==
  WalkInv => /\ Temp1(Answer) = Hundredths(raw) /\ Temp2(Answer) = Hundredths(raw)
             /\ Humid1(Answer) = Share(raw) /\ Humid2(Answer) = Share(raw)
<1> SUFFICES ASSUME WalkInv
             PROVE  /\ Temp1(Answer) = Hundredths(raw) /\ Temp2(Answer) = Hundredths(raw)
                    /\ Humid1(Answer) = Share(raw) /\ Humid2(Answer) = Share(raw)
  OBVIOUS
<1>1. raw * 16500 >= 0 /\ raw * 10000 >= 0 /\ 16384 - 2 = 16382
  BY DEF WalkInv, Raws
<1>2. Temp1(Answer) = Hundredths(raw) /\ Temp2(Answer) = Hundredths(raw)
  BY <1>1, RawRead DEF Temp1, Temp2, SDiv, UDiv, Hundredths
<1>3. Humid1(Answer) = Share(raw) /\ Humid2(Answer) = Share(raw)
  BY <1>1, RawRead DEF Humid1, Humid2, SDiv, UDiv, Share
<1> QED BY <1>2, <1>3

\* A higher reading is not a lower temperature.
LEMMA HundredthsOrder ==
  ASSUME NEW r \in Raws, NEW s \in Raws, r < s
  PROVE  Hundredths(r) \in Int /\ Hundredths(s) \in Int /\ Hundredths(r) <= Hundredths(s)
BY DEF Raws, Hundredths

\* A humidity is between 0 and 100 percent.
LEMMA ShareInRange ==
  ASSUME NEW r \in Raws
  PROVE  Share(r) \in HumidLogical
BY DEF Raws, HumidLogical, Share

\* The compare values of the first device, which ten bits hold: a temperature clamped to
\* the scale of the output, and a humidity as it is.
Clamped(t)      == IF t < 0 THEN 0 ELSE IF t > 5000 THEN 5000 ELSE t
TempCompare(c)  == (c * 1023) \div 5000
HumidCompare(h) == (h * 1023) \div 10000

\* The clamp of read_result ends on the scale and keeps the order.
LEMMA ClampedOrder ==
  ASSUME NEW t \in Int, NEW u \in Int, t <= u
  PROVE  Clamped(t) \in Scale /\ Clamped(u) \in Scale /\ Clamped(t) <= Clamped(u)
BY DEF Clamped, Scale

\* The mask to ten bits takes nothing from a compare value of the scale.
LEMMA TempFits ==
  ASSUME NEW c \in Scale
  PROVE  c * 1023 >= 0 /\ TempCompare(c) % 1024 = TempCompare(c)
BY DEF Scale, TempCompare

\* A higher temperature has not the lower compare value.
LEMMA TempOrder ==
  ASSUME NEW c \in Scale, NEW d \in Scale, c <= d
  PROVE  TempCompare(c) \in Int /\ TempCompare(d) \in Int /\ TempCompare(c) <= TempCompare(d)
BY DEF Scale, TempCompare

\* What read_result writes for a temperature.
LEMMA TempWritten ==
  ASSUME NEW t \in Int
  PROVE  PwmTemp(t) = TempCompare(Clamped(t))
<1>1. Clamped(t) * 1023 >= 0 /\ TempCompare(Clamped(t)) % 1024 = TempCompare(Clamped(t))
  BY ClampedOrder, TempFits
<1>2. PwmTemp(t) = SDiv(Clamped(t) * 1023, 5000) % 1024
  BY DEF PwmTemp, Clamped
<1>3. SDiv(Clamped(t) * 1023, 5000) = TempCompare(Clamped(t))
  BY <1>1 DEF SDiv, TempCompare
<1> QED BY <1>1, <1>2, <1>3

\* What read_result writes for a humidity.
LEMMA HumidWritten ==
  ASSUME NEW h \in HumidLogical
  PROVE  PwmHumid(h) = HumidCompare(h)
<1>1. h * 1023 >= 0 /\ HumidCompare(h) % 1024 = HumidCompare(h)
  BY DEF HumidLogical, HumidCompare
<1>2. SDiv(h * 1023, 10000) = HumidCompare(h)
  BY <1>1 DEF SDiv, HumidCompare
<1> QED BY <1>1, <1>2 DEF PwmHumid

\* A step of the ten bits is four of the twelve.
LEMMA TempAlike ==
  ASSUME NEW t \in Scale
  PROVE  DacTemp(t) - 4 * PwmTemp(t) \in 0 .. 7
<1>1. t \in Int /\ Clamped(t) = t /\ t * 4095 >= 0
  BY DEF Scale, Clamped
<1>2. DacTemp(t) = (t * 4095) \div 5000
  BY <1>1 DEF DacTemp, UDiv
<1>3. PwmTemp(t) = TempCompare(t)
  BY <1>1, TempWritten
<1>4. (t * 4095) \div 5000 - 4 * TempCompare(t) \in 0 .. 7
  BY DEF Scale, TempCompare
<1> QED BY <1>2, <1>3, <1>4

\* And so it is for humidity.
LEMMA HumidAlike ==
  ASSUME NEW h \in HumidLogical
  PROVE  DacHumid(h) - 4 * PwmHumid(h) \in 0 .. 7
<1>1. h * 4095 >= 0
  BY DEF HumidLogical
<1>2. DacHumid(h) = (h * 4095) \div 10000
  BY <1>1 DEF DacHumid, UDiv
<1>3. (h * 4095) \div 10000 - 4 * HumidCompare(h) \in 0 .. 7
  BY DEF HumidLogical, HumidCompare
<1> QED BY <1>2, <1>3, HumidWritten

\* Both devices publish the same numbers for every reading, whatever the open bits, and
\* they are in the range the report descriptor announces.
THEOREM DevicesAlwaysAgree == WalkSpec => []DevicesAgree
<1>1. WalkInv => DevicesAgree
  <2> SUFFICES ASSUME WalkInv PROVE DevicesAgree
    OBVIOUS
  <2>1. SDiv(raw * 16500, 16384 - 2) - 4000 = Hundredths(raw)
    <3>1. raw * 16500 >= 0 /\ 16384 - 2 = 16382
      BY DEF WalkInv, Raws
    <3> QED BY <3>1 DEF SDiv, Hundredths
  <2>2. Hundredths(raw) \in TempLogical /\ Share(raw) \in HumidLogical
    BY DEF WalkInv, Raws, Hundredths, Share, TempLogical, HumidLogical
  <2> QED BY <2>1, <2>2, Published DEF DevicesAgree
<1> QED BY <1>1, WalkAlwaysInv, PTL

\* Inside the scale the outputs of the two devices differ by less than two steps of the
\* coarser, temperature and humidity.
THEOREM OutputsAlwaysAgree == WalkSpec => []OutputsAgree
<1>1. WalkInv => OutputsAgree
  <2> SUFFICES ASSUME WalkInv PROVE OutputsAgree
    OBVIOUS
  <2>1. Temp1(Answer) = Temp2(Answer) /\ Humid1(Answer) = Humid2(Answer) /\ Humid1(Answer) \in HumidLogical
    BY Published, ShareInRange DEF WalkInv
  <2>2. ASSUME 0 <= Temp1(Answer), Temp1(Answer) <= 5000
        PROVE  DacTemp(Temp2(Answer)) - 4 * PwmTemp(Temp1(Answer)) \in 0 .. 7
    <3>1. Hundredths(raw) \in Int /\ Temp1(Answer) = Hundredths(raw)
      BY Published DEF WalkInv, Raws, Hundredths
    <3>2. Temp1(Answer) \in Scale
      BY <2>2, <3>1 DEF Scale
    <3> QED BY <2>1, <3>2, TempAlike
  <2>3. DacHumid(Humid2(Answer)) - 4 * PwmHumid(Humid1(Answer)) \in 0 .. 7
    BY <2>1, HumidAlike
  <2> QED BY <2>2, <2>3 DEF OutputsAgree
<1> QED BY <1>1, WalkAlwaysInv, PTL

\* A warmer reading never lowers the first device's output: each of the three steps from
\* a reading to a compare value keeps the order.
THEOREM WarmerNeverLower == WalkSpec => WarmerIsHigher
<1>1. WalkInv /\ WalkInv' /\ [WalkNext]_walkVars =>
        [raw' > raw => PwmTemp(Temp1(Answer')) >= PwmTemp(Temp1(Answer))]_walkVars
  <2> SUFFICES ASSUME WalkInv, WalkInv', raw' > raw
               PROVE  PwmTemp(Temp1(Answer')) >= PwmTemp(Temp1(Answer))
    OBVIOUS
  <2> DEFINE t == Hundredths(raw)
             u == Hundredths(raw')
  <2>1. Temp1(Answer) = t
    BY Published
  <2>2. Temp1(Answer') = u
    <3>1. (Temp1(Answer) = Hundredths(raw))'
      BY Published, PTL
    <3> QED BY <3>1 DEF Temp1, RawTemperature, SDiv, Hundredths
  <2>3. raw \in Raws /\ raw' \in Raws /\ raw < raw'
    BY DEF WalkInv, Raws
  <2>4. t \in Int /\ u \in Int /\ t <= u
    BY <2>3, HundredthsOrder
  <2> HIDE DEF t, u
  <2>5. TempCompare(Clamped(t)) \in Int /\ TempCompare(Clamped(u)) \in Int
        /\ TempCompare(Clamped(t)) <= TempCompare(Clamped(u))
    BY <2>4, ClampedOrder, TempOrder
  <2>6. PwmTemp(t) = TempCompare(Clamped(t)) /\ PwmTemp(u) = TempCompare(Clamped(u))
    BY <2>4, TempWritten
  <2> QED BY <2>1, <2>2, <2>5, <2>6
<1> QED BY <1>1, WalkAlwaysInv, PTL DEF WalkSpec, WarmerIsHigher
=============================================================================
