------------------------------ MODULE HostProofs ------------------------------
(***************************************************************************)
(* Proofs about the two models of the host's side.                         *)
(***************************************************************************)
EXTENDS HostGui, SampleRead, FiniteSetTheorems, TLAPS

-----------------------------------------------------------------------------
(***************************************************************************)
(* The GUI (HostGui), whatever devices there are and however they come and *)
(* go.                                                                     *)
(***************************************************************************)

\* The form looks for a device only while it has none, and reads only one it has.
Holds ==
  /\ pc \in {"init", "count", "fill", "thrown"} => d = Null
  /\ pc = "humid" => d \in Devices /\ temp \in {NaN, "C"}

\* If none came and none was passed over, there is no device that the first pass has not counted.
Counted == pc = "fill" /\ ~missed /\ count = 0 => plugged = {}

GuiInv == TypeOK /\ Holds /\ Counted /\ LabelsRight /\ UnsetOnlyByChange

\* A getter returns its own quantity or fails, from a device of either kind.
LEMMA GetTells ==
  ASSUME d \in Devices, NEW i \in {1, 2}, NEW result, Get(i, result)
  PROVE  result \in {NaN, IF i = 1 THEN "C" ELSE "%"}
<1> USE DEF Transfer, Answer, Answer1, parse_usb_request, Word
<1>1. Kind[d] \in {1, 2}
  BY KindAssumption
<1>2. PICK one \in Transfer(Kind[d], 256 + i, 0, 4) :
        IF one.ret = 4 THEN result = Word(one.at)
        ELSE \E two \in Transfer(Kind[d], 256, 0, 8) :
               result = IF two.ret = 8 THEN Word(two.at + 4 * (i - 1)) ELSE NaN
  BY DEF Get
<1>3. CASE one.ret = 4
  <2>1. CASE i = 1
    <3>1. one.at = 0
      BY <1>1, <1>2, <1>3, <2>1
    <3> QED BY <1>2, <1>3, <2>1, <3>1
  <2>2. CASE i = 2
    <3>1. one.at = 4
      BY <1>1, <1>2, <1>3, <2>2
    <3> QED BY <1>2, <1>3, <2>2, <3>1
  <2> QED BY <2>1, <2>2
<1>4. CASE one.ret # 4
  <2>1. PICK two \in Transfer(Kind[d], 256, 0, 8) :
          result = IF two.ret = 8 THEN Word(two.at + 4 * (i - 1)) ELSE NaN
    BY <1>2, <1>4
  <2>2. two.ret = 8 => two.at = 0
    BY <1>1, <2>1
  <2> QED BY <2>1, <2>2
<1> QED BY <1>3, <1>4

\* The window as it opens.
LEMMA GuiInit == Init => GuiInv
<1> SUFFICES ASSUME Init PROVE GuiInv
  OBVIOUS
<1>1. Cardinality(Devices) \in Nat
  BY DevicesAssumption, FS_CardinalityType
<1>2. TypeOK
  <2>1. count \in 0 .. Cardinality(Devices) /\ chk_count \in Lowest .. chk_interval
    BY <1>1, IntervalAssumption DEF Init, Lowest
  <2>2. loaded \in BOOLEAN /\ live \in BOOLEAN /\ missed \in BOOLEAN
    BY DEF Init
  <2>3. plugged \in SUBSET Devices /\ pc = "init" /\ d = Null /\ temp = NaN /\ label = Blank
    BY DEF Init
  <2> QED BY <2>1, <2>2, <2>3 DEF TypeOK
<1>3. Holds /\ Counted /\ LabelsRight /\ UnsetOnlyByChange
  BY DevicesAssumption DEF Init, Holds, Counted, LabelsRight, UnsetOnlyByChange, Null, Unset
<1> QED BY <1>2, <1>3 DEF GuiInv

\* What the first pass counts, whichever devices it finds.
LEMMA CountRight ==
  ASSUME TypeOK, NEW found \in SUBSET plugged
  PROVE  /\ Cardinality(found) \in 0 .. Cardinality(Devices)
         /\ Cardinality(found) = 0 => found = {}
<1>1. found \subseteq Devices
  BY DEF TypeOK
<1>2. IsFiniteSet(found) /\ Cardinality(found) <= Cardinality(Devices)
  BY <1>1, DevicesAssumption, FS_Subset
<1>3. Cardinality(found) \in Nat /\ Cardinality(Devices) \in Nat
  BY <1>2, DevicesAssumption, FS_CardinalityType
<1>4. Cardinality(found) = 0 => found = {}
  BY <1>2, FS_EmptySet
<1> QED BY <1>2, <1>3, <1>4

\* Every click, answer and error keeps the labels, the buttons and the devices in step.
LEMMA GuiStep == GuiInv /\ [Next]_vars => GuiInv'
<1> SUFFICES ASSUME GuiInv, [Next]_vars PROVE GuiInv'
  OBVIOUS
<1> USE DEF GuiInv, TypeOK, formVars
<1>1. CASE Plug
  <2> USE <1>1 DEF Plug
  <2>1. TypeOK'
    OBVIOUS
  <2>2. Holds' /\ Counted'
    BY DEF Holds, Counted
  <2>3. LabelsRight' /\ UnsetOnlyByChange'
    BY DEF Holds, Counted, LabelsRight, UnsetOnlyByChange
  <2> QED BY <2>1, <2>2, <2>3
<1>2. CASE Unplug
  <2> USE <1>2 DEF Unplug
  <2>1. TypeOK'
    OBVIOUS
  <2>2. Holds' /\ Counted'
    BY DEF Holds, Counted
  <2>3. LabelsRight' /\ UnsetOnlyByChange'
    BY DEF Holds, Counted, LabelsRight, UnsetOnlyByChange
  <2> QED BY <2>1, <2>2, <2>3
<1>3. CASE InitThrows
  <2> USE <1>3 DEF InitThrows
  <2>1. TypeOK'
    OBVIOUS
  <2>2. Holds' /\ Counted'
    BY DEF Holds, Counted
  <2>3. LabelsRight' /\ UnsetOnlyByChange'
    BY DEF Holds, Counted, LabelsRight, UnsetOnlyByChange
  <2> QED BY <2>1, <2>2, <2>3
<1>4. CASE UserContinues
  <2> USE <1>4 DEF UserContinues
  <2>1. TypeOK'
    OBVIOUS
  <2>2. Holds' /\ Counted'
    BY DEF Holds, Counted
  <2>3. LabelsRight' /\ UnsetOnlyByChange'
    BY DEF Holds, Counted, LabelsRight, UnsetOnlyByChange
  <2> QED BY <2>1, <2>2, <2>3
<1>5. CASE InitOk
  <2> USE <1>5 DEF InitOk
  <2>1. TypeOK'
    OBVIOUS
  <2>2. Holds' /\ Counted'
    BY DEF Holds, Counted
  <2>3. LabelsRight' /\ UnsetOnlyByChange'
    BY DEF Holds, Counted, LabelsRight, UnsetOnlyByChange
  <2> QED BY <2>1, <2>2, <2>3
<1>6. CASE CountPass
  <2> PICK found \in SUBSET plugged : count' = Cardinality(found) /\ missed' = (found # plugged)
    BY <1>6 DEF CountPass, Found
  <2>0. pc = "count" /\ pc' = "fill" /\ UNCHANGED <<plugged, d, live, temp, formVars>>
    BY <1>6 DEF CountPass
  <2>1. TypeOK'
    BY <2>0, CountRight
  <2>2. Holds' /\ Counted'
    BY <2>0, CountRight DEF Holds, Counted
  <2>3. LabelsRight' /\ UnsetOnlyByChange'
    BY <2>0 DEF Holds, LabelsRight, UnsetOnlyByChange, Null, Unset
  <2> QED BY <2>1, <2>2, <2>3
<1>7. CASE FillPass
  <2> USE <1>7 DEF FillPass
  <2>1. d' \in Devices \cup {Null, Unset} /\ (d' = Unset => plugged # {} /\ count = 0)
    <3>1. PICK found \in SUBSET plugged : d' \in FirstOf(found)
      BY DEF Found
    <3> QED BY <3>1, DevicesAssumption DEF FirstOf, Null, Unset
  <2>2. live' \in BOOLEAN /\ loaded' \in BOOLEAN
    <3>1. live' = (d' \in Devices) /\ loaded' = TRUE
      OBVIOUS
    <3> QED BY ONLY <3>1
  <2>3. chk_count' \in Lowest .. chk_interval
    BY IntervalAssumption DEF Lowest
  <2>4. TypeOK'
    BY <2>1, <2>2, <2>3
  <2>5. Holds' /\ Counted'
    BY DEF Holds, Counted
  <2>6. LabelsRight' /\ UnsetOnlyByChange'
    BY <2>1 DEF Counted, LabelsRight, UnsetOnlyByChange
  <2> QED BY <2>4, <2>5, <2>6
<1>8. CASE NoDeviceTick
  <2> USE <1>8 DEF NoDeviceTick
  <2>1. chk_count' \in Lowest .. chk_interval
    BY IntervalAssumption DEF Lowest
  <2>2. TypeOK'
    BY <2>1
  <2>3. Holds' /\ Counted'
    BY DEF Holds, Counted
  <2>4. LabelsRight' /\ UnsetOnlyByChange'
    BY DEF LabelsRight, UnsetOnlyByChange
  <2> QED BY <2>2, <2>3, <2>4
<1>9. CASE DeviceTick
  <2> USE <1>9 DEF DeviceTick
  <2>1. temp' \in {NaN, "C"}
    BY GetTells
  <2>2. TypeOK'
    BY <2>1
  <2>3. Holds' /\ Counted'
    BY <2>1 DEF Holds, Counted
  <2>4. LabelsRight' /\ UnsetOnlyByChange'
    BY DEF LabelsRight, UnsetOnlyByChange
  <2> QED BY <2>2, <2>3, <2>4
<1>10. CASE UnsetTick
  <2> USE <1>10 DEF UnsetTick
  <2>1. TypeOK'
    OBVIOUS
  <2>2. Holds' /\ Counted'
    BY DEF Holds, Counted
  <2>3. LabelsRight' /\ UnsetOnlyByChange'
    BY DEF LabelsRight, UnsetOnlyByChange, Null, Unset
  <2> QED BY <2>1, <2>2, <2>3
<1>11. CASE Show
  <2> PICK humid \in {NaN, "C", "%"} :
         /\ Get(2, humid)
         /\ IF NaN \in {temp, humid} THEN d' = Null /\ live' = FALSE /\ UNCHANGED label
            ELSE label' = <<temp, humid>> /\ UNCHANGED <<d, live>>
    BY <1>11 DEF Show
  <2>1. /\ pc = "humid" /\ pc' = "wait"
        /\ UNCHANGED <<plugged, count, missed, temp, loaded, chk_count>>
    BY <1>11 DEF Show
  <2>2. temp \in {NaN, "C"} /\ humid \in {NaN, "%"}
    BY <2>1, GetTells DEF Holds
  <2>3. (d' = Null /\ live' = FALSE) \/ (d' = d /\ live' = live)
    OBVIOUS
  <2>4. label' = label \/ label' = <<"C", "%">>
    BY <2>2 DEF NaN
  <2>5. TypeOK'
    <3>1. label' \in {Blank, NoDevice} \cup ({"C", "%"} \X {"C", "%"})
      BY <2>4
    <3> QED BY <2>1, <2>3, <3>1
  <2>6. Holds' /\ Counted'
    BY <2>1 DEF Holds, Counted
  <2>7. LabelsRight' /\ UnsetOnlyByChange'
    BY <2>1, <2>3, <2>4 DEF LabelsRight, UnsetOnlyByChange, Null, Unset
  <2> QED BY <2>5, <2>6, <2>7
<1>12. CASE UNCHANGED vars
  BY <1>12 DEF vars, Holds, Counted, LabelsRight, UnsetOnlyByChange
<1> QED BY <1>1, <1>2, <1>3, <1>4, <1>5, <1>6, <1>7, <1>8, <1>9, <1>10, <1>11, <1>12 DEF Next, Form

\* The variables keep their types; chk_count passes zero and goes on.
THEOREM TypeCorrect == Spec => []TypeOK
<1>1. GuiInv => TypeOK
  BY DEF GuiInv
<1> QED BY GuiInit, GuiStep, <1>1, PTL DEF Spec

\* The form never shows a quantity for the other one, whichever kind of device it reads.
THEOREM LabelsAreRight == Spec => []LabelsRight
<1>1. GuiInv => LabelsRight
  BY DEF GuiInv
<1> QED BY GuiInit, GuiStep, <1>1, PTL DEF Spec

\* An element from beyond the list is taken only when a device came between the passes or
\* was passed over by the first.
THEOREM UnsetNeedsChange == Spec => []UnsetOnlyByChange
<1>1. GuiInv => UnsetOnlyByChange
  BY DEF GuiInv
<1> QED BY GuiInit, GuiStep, <1>1, PTL DEF Spec

-----------------------------------------------------------------------------
(***************************************************************************)
(* The way of a sample to the library's getters (SampleRead).              *)
(***************************************************************************)
SampleType ==
  /\ usb_val \in [1 .. 2 -> Nat] /\ since \in [1 .. 2 -> Nat] /\ got \in [1 .. 2 -> Nat]
  /\ storing \in BOOLEAN /\ ready \in BOOLEAN /\ both \in BOOLEAN
  /\ getter \in {1, 2}
  /\ packet \in Seq(Nat) /\ Len(packet) \in 0 .. 2

\* Between the two stores, and only there, the temperature is one sample ahead.
StoreInv == usb_val[1] = IF storing THEN usb_val[2] + 1 ELSE usb_val[2]

\* The call of a getter saw no newer word than there is, and what is copied for it is
\* no older.
PacketInv ==
  /\ \A w \in 1 .. 2 : since[w] <= usb_val[w]
  /\ ready => \A i \in 1 .. Len(packet) : i = getter => packet[i] >= since[i]

\* From the answer to the second getter on, what it copies is no older than the
\* temperature the first one returned.
OrderInv ==
  /\ got[1] <= usb_val[1]
  /\ getter = 2 /\ ready =>
       got[1] <= usb_val[2] /\ (Len(packet) = 2 => got[1] <= packet[2])
  /\ ready => \A i \in 1 .. Len(packet) : packet[i] <= usb_val[i]

SampleInv == SampleType /\ StoreInv /\ PacketInv /\ OrderInv /\ ReadingCurrent

\* No reading and no packet at the start.
LEMMA SampleInit == ReadInit => SampleInv
<1> SUFFICES ASSUME ReadInit PROVE SampleInv
  OBVIOUS
<1> USE DEF ReadInit
<1>1. SampleType
  <2>1. <<0, 0>> \in [1 .. 2 -> Nat]
    OBVIOUS
  <2>2. packet \in Seq(Nat) /\ Len(packet) = 0
    OBVIOUS
  <2>3. storing \in BOOLEAN /\ ready \in BOOLEAN /\ both \in BOOLEAN
    OBVIOUS
  <2>4. /\ usb_val \in [1 .. 2 -> Nat] /\ since \in [1 .. 2 -> Nat] /\ got \in [1 .. 2 -> Nat]
    BY <2>1
  <2> QED BY <2>2, <2>3, <2>4 DEF SampleType
<1>2. StoreInv /\ PacketInv /\ OrderInv
  BY DEF StoreInv, PacketInv, OrderInv
<1>3. ReadingCurrent
  BY DEF ReadingCurrent, Words
<1> QED BY <1>1, <1>2, <1>3 DEF SampleInv

\* What is found in a packet is a word.
LEMMA WordOf ==
  ASSUME NEW words \in Seq(Nat), NEW i \in 1 .. Len(words)
  PROVE  words[i] \in Nat
OBVIOUS

\* Each half of a store, each word of a copy and each lost or late packet keeps the order
\* of what was sampled, copied and read.
LEMMA SampleStep == SampleInv /\ [ReadNext]_readVars => SampleInv'
<1> SUFFICES ASSUME SampleInv, [ReadNext]_readVars PROVE SampleInv'
  OBVIOUS
<1> USE DEF SampleInv
<1>1. CASE StoreTemp
  <2> USE <1>1 DEF StoreTemp
  <2>1. SampleType'
    BY DEF SampleType
  <2>2. StoreInv'
    BY DEF SampleType, StoreInv
  <2>3. PacketInv'
    BY DEF SampleType, StoreInv, PacketInv
  <2>4. OrderInv'
    <3>1. usb_val'[1] = usb_val[1] + 1 /\ usb_val'[2] = usb_val[2] /\ usb_val \in [1 .. 2 -> Nat]
      BY DEF SampleType
    <3>2. \A i \in 1 .. 2 : usb_val[i] \in Nat /\ usb_val'[i] \in Nat /\ usb_val[i] <= usb_val'[i]
      BY <3>1
    <3>3. packet \in Seq(Nat) /\ Len(packet) \in 0 .. 2 /\ got[1] \in Nat
      BY DEF SampleType
    <3>4. got[1] <= usb_val'[1]
      BY <3>2, <3>3 DEF OrderInv
    <3>5. getter = 2 /\ ready => got[1] <= usb_val'[2] /\ (Len(packet) = 2 => got[1] <= packet[2])
      BY <3>2, <3>3 DEF OrderInv
    <3>6. ASSUME ready, NEW i \in 1 .. Len(packet) PROVE packet[i] <= usb_val'[i]
      <4>1. packet[i] <= usb_val[i]
        BY <3>6 DEF OrderInv
      <4>2. i \in 1 .. 2 /\ packet[i] \in Nat
        BY <3>3, WordOf
      <4> QED BY <3>2, <4>1, <4>2
    <3> QED BY <3>4, <3>5, <3>6 DEF OrderInv
  <2>5. ReadingCurrent'
    BY DEF SampleType, PacketInv, OrderInv, ReadingCurrent, Words
  <2> QED BY <2>1, <2>2, <2>3, <2>4, <2>5
<1>2. CASE StoreHumid
  <2> USE <1>2 DEF StoreHumid
  <2>1. SampleType'
    <3>1. storing' \in BOOLEAN /\ ready' \in BOOLEAN /\ both' \in BOOLEAN
      BY DEF SampleType
    <3>2. usb_val' \in [1 .. 2 -> Nat]
      BY DEF SampleType
    <3> QED BY <3>1, <3>2 DEF SampleType
  <2>2. StoreInv'
    BY DEF SampleType, StoreInv
  <2>3. PacketInv'
    BY DEF SampleType, StoreInv, PacketInv
  <2>4. OrderInv'
    <3>1. usb_val'[2] = usb_val[2] + 1 /\ usb_val'[1] = usb_val[1] /\ usb_val \in [1 .. 2 -> Nat]
      BY DEF SampleType
    <3>2. \A i \in 1 .. 2 : usb_val[i] \in Nat /\ usb_val'[i] \in Nat /\ usb_val[i] <= usb_val'[i]
      BY <3>1
    <3>3. packet \in Seq(Nat) /\ Len(packet) \in 0 .. 2 /\ got[1] \in Nat
      BY DEF SampleType
    <3>4. got[1] <= usb_val'[1]
      BY <3>2, <3>3 DEF OrderInv
    <3>5. getter = 2 /\ ready => got[1] <= usb_val'[2] /\ (Len(packet) = 2 => got[1] <= packet[2])
      BY <3>2, <3>3 DEF OrderInv
    <3>6. ASSUME ready, NEW i \in 1 .. Len(packet) PROVE packet[i] <= usb_val'[i]
      <4>1. packet[i] <= usb_val[i]
        BY <3>6 DEF OrderInv
      <4>2. i \in 1 .. 2 /\ packet[i] \in Nat
        BY <3>3, WordOf
      <4> QED BY <3>2, <4>1, <4>2
    <3> QED BY <3>4, <3>5, <3>6 DEF OrderInv
  <2>5. ReadingCurrent'
    BY DEF SampleType, PacketInv, OrderInv, ReadingCurrent, Words
  <2> QED BY <2>1, <2>2, <2>3, <2>4, <2>5
<1>3. CASE HandOut
  <2> USE <1>3 DEF HandOut, Serves, Copied
  <2>1. SampleType'
    BY DEF SampleType
  <2>2. StoreInv'
    BY DEF SampleType, StoreInv
  <2>3. PacketInv'
    BY DEF SampleType, StoreInv, PacketInv
  <2>4. OrderInv'
    BY DEF SampleType, StoreInv, OrderInv
  <2>5. ReadingCurrent'
    BY DEF SampleType, PacketInv, OrderInv, ReadingCurrent, Words
  <2> QED BY <2>1, <2>2, <2>3, <2>4, <2>5
<1>4. CASE CopyWord
  <2> USE <1>4 DEF CopyWord
  <2>1. SampleType'
    BY DEF SampleType
  <2>2. StoreInv'
    BY DEF SampleType, StoreInv
  <2>3. PacketInv'
    BY DEF SampleType, StoreInv, PacketInv
  <2>4. OrderInv'
    BY DEF SampleType, StoreInv, OrderInv
  <2>5. ReadingCurrent'
    BY DEF SampleType, PacketInv, OrderInv, ReadingCurrent, Words
  <2> QED BY <2>1, <2>2, <2>3, <2>4, <2>5
<1>5. CASE Lost
  <2> USE <1>5 DEF Lost
  <2>1. SampleType'
    BY DEF SampleType
  <2>2. StoreInv'
    BY DEF SampleType, StoreInv
  <2>3. PacketInv'
    BY DEF SampleType, StoreInv, PacketInv
  <2>4. OrderInv'
    BY DEF SampleType, StoreInv, OrderInv
  <2>5. ReadingCurrent'
    BY DEF SampleType, PacketInv, OrderInv, ReadingCurrent, Words
  <2> QED BY <2>1, <2>2, <2>3, <2>4, <2>5
<1>6. CASE FallBack
  <2> USE <1>6 DEF FallBack
  <2>1. SampleType'
    BY DEF SampleType
  <2>2. StoreInv'
    BY DEF SampleType, StoreInv
  <2>3. PacketInv'
    BY DEF SampleType, StoreInv, PacketInv
  <2>4. OrderInv'
    BY DEF SampleType, StoreInv, OrderInv
  <2>5. ReadingCurrent'
    BY DEF SampleType, PacketInv, OrderInv, ReadingCurrent, Words
  <2> QED BY <2>1, <2>2, <2>3, <2>4, <2>5
<1>7. CASE Returns
  <2> USE <1>7 DEF Returns
  <2>1. SampleType'
    <3>1. storing' \in BOOLEAN /\ ready' \in BOOLEAN /\ both' \in BOOLEAN
      BY DEF SampleType
    <3>2. getter' \in {1, 2}
      BY DEF SampleType
    <3>3. packet[getter] \in Nat
      <4>1. packet \in Seq(Nat) /\ getter \in 1 .. Len(packet)
        BY DEF SampleType
      <4> QED BY ONLY <4>1, WordOf
    <3>4. got' \in [1 .. 2 -> Nat]
      BY <3>3 DEF SampleType
    <3> QED BY <3>1, <3>2, <3>4 DEF SampleType
  <2>2. StoreInv'
    BY DEF SampleType, StoreInv
  <2>3. PacketInv'
    BY <2>1 DEF SampleType, PacketInv
  <2>4. OrderInv'
    BY DEF SampleType, StoreInv, OrderInv
  <2>5. ReadingCurrent'
    BY DEF SampleType, PacketInv, OrderInv, ReadingCurrent, Words
  <2> QED BY <2>1, <2>2, <2>3, <2>4, <2>5
<1>8. CASE UNCHANGED readVars
  BY <1>8 DEF readVars, SampleType, StoreInv, PacketInv, OrderInv, ReadingCurrent
<1> QED BY <1>1, <1>2, <1>3, <1>4, <1>5, <1>6, <1>7, <1>8 DEF ReadNext

\* A word libth_get_temperature or libth_get_humidity hands out was current when the device
\* copied it for this call: no call returns what an earlier one asked for
\* (libtemphumid/main.cpp, parse_usb_request of the th2 main.c).
THEOREM ReadingsAreCurrent == ReadSpec => []ReadingCurrent
<1>1. SampleInv => ReadingCurrent
  BY DEF SampleInv
<1> QED BY SampleInit, SampleStep, <1>1, PTL DEF ReadSpec
=============================================================================
