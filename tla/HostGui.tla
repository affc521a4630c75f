-------------------------------- MODULE HostGui --------------------------------
(***************************************************************************)
(* The host: the GUI's timer (Form1.cs) over the .NET wrapper              *)
(* (libtemphumid.net.cpp) and the library (libtemphumid, main.cpp).  A     *)
(* tick reads the two values of the device it holds; without a device it   *)
(* looks for one every few ticks.  Devices come and go between any two     *)
(* steps, and are of either kind: the two firmwares take the number of a   *)
(* report from different fields of the request, and the library tries a    *)
(* report each and then both together.                                     *)
(***************************************************************************)
EXTENDS Integers, FiniteSets

CONSTANTS
  Devices,       \* what may be plugged in
  Kind,          \* the firmware of each: 1 or 2
  chk_interval   \* 4

ASSUME KindAssumption == Kind \in [Devices -> {1, 2}]
ASSUME IntervalAssumption == chk_interval \in Nat

VARIABLES
  plugged,    \* the devices on the bus
  pc,         \* where Form1 is: between ticks, or in a step of one
  loaded,     \* Form1_Load has enabled the timer
  d,          \* the device the form holds
  live,       \* it was not unplugged since it was opened
  count,      \* the length of the wrapper's buffer
  missed,     \* history: when its length was taken a device was passed over, or one came since
  chk_count,
  temp,       \* what the getter returned for the temperature
  label       \* what the form shows

formVars == <<loaded, chk_count, label>>
vars == <<plugged, pc, d, live, count, missed, temp, formVars>>

Null     == "null"
Unset    == "unset"     \* an element from beyond the wrapper's buffer
NaN      == "NaN"
Blank    == <<"", "">>
NoDevice == <<"No Device", "">>
ASSUME DevicesAssumption == IsFiniteSet(Devices) /\ {Null, Unset} \cap Devices = {}
Lowest   == -2          \* chk_count is not followed below: 2^32 ticks of 500 ms

TypeOK ==
  /\ plugged \in SUBSET Devices
  /\ pc \in {"wait", "init", "count", "fill", "humid", "thrown", "crashed"}
  /\ d \in Devices \cup {Null, Unset}
  /\ loaded \in BOOLEAN /\ live \in BOOLEAN /\ missed \in BOOLEAN
  /\ count \in 0 .. Cardinality(Devices) /\ chk_count \in Lowest .. chk_interval
  /\ temp \in {NaN, "C", "%"}
  /\ label \in {Blank, NoDevice} \cup ({"C", "%"} \X {"C", "%"})

\* Form1_Load is about to look for a device.
Init ==
  /\ plugged \in SUBSET Devices
  /\ pc = "init" /\ loaded = FALSE /\ d = Null /\ live = FALSE
  /\ count = 0 /\ missed = FALSE /\ chk_count = 0
  /\ temp = NaN /\ label = Blank

-----------------------------------------------------------------------------
(***************************************************************************)
(* The request of a report, and what comes back: the words at the bytes    *)
(* at, of length len.  wLength is the room the library has.                *)
(***************************************************************************)
\* The first firmware's usbFunctionSetup and V-USB's limit.
Answer1(wValue, wIndex, wLength) ==
  LET at  == IF wValue % 256 = 2 THEN 4 ELSE 0
      len == IF wValue % 256 \in {1, 2} THEN 4 ELSE 0
  IN  [at |-> at, len |-> IF len > wLength THEN wLength ELSE len]

\* The second firmware's.  Its length is not limited to the room.
parse_usb_request(wValue, wIndex) ==
  CASE wIndex = 1 -> [at |-> 0, len |-> 4]
    [] wIndex = 2 -> [at |-> 4, len |-> 4]
    [] OTHER      -> [at |-> 0, len |-> 8]

Answer(kind, wValue, wIndex, wLength) ==
  IF kind = 1 THEN Answer1(wValue, wIndex, wLength) ELSE parse_usb_request(wValue, wIndex)

\* libusb returns the length, or an error if more came than there is room for
\* or if the transfer fails, as it does when the device is gone.
Transfer(kind, wValue, wIndex, wLength) ==
  LET a == Answer(kind, wValue, wIndex, wLength) IN
  {[at |-> 0, ret |-> -1]} \cup
  (IF live THEN {[at |-> a.at, ret |-> IF a.len > wLength THEN -1 ELSE a.len]} ELSE {})

\* Mutant: both getters take the first of two words.
WordFirst(at) == "C"

\* Each word's quantity: temperature at byte 0, humidity at byte 4.
Word(at) == IF at = 0 THEN "C" ELSE "%"

\* libth_get_temperature and libth_get_humidity: report i, then both.
Get(i, result) ==
  \E one \in Transfer(Kind[d], 256 + i, 0, 4) :
    IF one.ret = 4 THEN result = Word(one.at)
    ELSE \E both \in Transfer(Kind[d], 256, 0, 8) :
           result = IF both.ret = 8 THEN Word(both.at + 4 * (i - 1)) ELSE NaN

-----------------------------------------------------------------------------
(***************************************************************************)
(* The bus.                                                                *)
(***************************************************************************)
Plug ==
  /\ \E x \in Devices \ plugged : plugged' = plugged \cup {x}
  /\ missed' = TRUE
  /\ UNCHANGED <<pc, d, live, count, temp, formVars>>

\* A handle does not come back to life with its device.
Unplug ==
  /\ \E x \in plugged : plugged' = plugged \ {x} /\ live' = (live /\ x # d)
  /\ UNCHANGED <<pc, d, count, missed, temp, formVars>>

-----------------------------------------------------------------------------
(***************************************************************************)
(* get_device: a new context, a pass over the devices to count them and    *)
(* one to open them.                                                       *)
(***************************************************************************)
\* The exception leaves the tick as far as it got; the user chooses to go on.
InitThrows ==
  /\ pc = "init" /\ pc' = "thrown"
  /\ UNCHANGED <<plugged, d, live, count, missed, temp, formVars>>

UserContinues ==
  /\ pc = "thrown" /\ pc' = "wait"
  /\ UNCHANGED <<plugged, d, live, count, missed, temp, formVars>>

InitOk ==
  /\ pc = "init" /\ pc' = "count"
  /\ UNCHANGED <<plugged, d, live, count, missed, temp, formVars>>

\* A pass passes over a device whose descriptor, open or serial number fails; so does
\* it over all if there is no list.
Found == SUBSET plugged

\* Mutant: what is not stored is not counted.
CountStored ==
  /\ pc = "count" /\ pc' = "fill"
  /\ \E found \in Found : count' = 0 /\ missed' = (found # plugged)
  /\ UNCHANGED <<plugged, d, live, temp, formVars>>

CountPass ==
  /\ pc = "count" /\ pc' = "fill"
  /\ \E found \in Found : count' = Cardinality(found) /\ missed' = (found # plugged)
  /\ UNCHANGED <<plugged, d, live, temp, formVars>>

\* The first element of the list: there if the buffer has one, and unset if not.
FirstOf(found) == IF found = {} THEN {Null} ELSE IF count = 0 THEN {Unset} ELSE found

\* Mutant: the count of ticks is not set again.
FillPassOnce ==
  /\ pc = "fill" /\ pc' = "wait" /\ loaded' = TRUE
  /\ \E found \in Found : d' \in FirstOf(found)
  /\ live' = (d' \in Devices)
  /\ UNCHANGED <<plugged, count, missed, temp, chk_count, label>>

\* The form takes the first device of the list.  Form1_Load calls without a count of ticks.
FillPass ==
  /\ pc = "fill" /\ pc' = "wait" /\ loaded' = TRUE
  /\ \E found \in Found : d' \in FirstOf(found)
  /\ live' = (d' \in Devices)
  /\ chk_count' = IF loaded THEN chk_interval ELSE chk_count
  /\ UNCHANGED <<plugged, count, missed, temp, label>>

-----------------------------------------------------------------------------
(***************************************************************************)
(* update, on a tick of the timer.                                         *)
(***************************************************************************)
\* chk_count is lowered before get_device, and set again after it only.
NoDeviceTick ==
  /\ pc = "wait" /\ loaded /\ d = Null
  /\ label' = NoDevice
  /\ pc' = IF chk_count = 0 THEN "init" ELSE "wait"
  /\ chk_count' = IF chk_count > Lowest THEN chk_count - 1 ELSE Lowest
  /\ UNCHANGED <<plugged, loaded, d, live, count, missed, temp>>

DeviceTick ==
  /\ pc = "wait" /\ loaded /\ d \in Devices
  /\ Get(1, temp') /\ pc' = "humid"
  /\ UNCHANGED <<plugged, d, live, count, missed, formVars>>

\* Whatever the element points at is taken for a device.
UnsetTick ==
  /\ pc = "wait" /\ loaded /\ d = Unset
  /\ \/ pc' = "crashed" /\ UNCHANGED d
     \/ d' = Null /\ UNCHANGED pc
  /\ UNCHANGED <<plugged, live, count, missed, temp, formVars>>

Show ==
  /\ pc = "humid" /\ pc' = "wait"
  /\ \E humid \in {NaN, "C", "%"} :
       /\ Get(2, humid)
       /\ IF NaN \in {temp, humid} THEN d' = Null /\ live' = FALSE /\ UNCHANGED label
          ELSE label' = <<temp, humid>> /\ UNCHANGED <<d, live>>
  /\ UNCHANGED <<plugged, count, missed, temp, loaded, chk_count>>

Form == \/ InitThrows \/ UserContinues \/ InitOk \/ CountPass \/ FillPass
        \/ NoDeviceTick \/ DeviceTick \/ UnsetTick \/ Show

Next == Plug \/ Unplug \/ Form
Spec == Init /\ [][Next]_vars

\* The timer goes on ticking, and a step of a tick is not left unfinished.
FairSpec == Spec /\ WF_vars(Form)

-----------------------------------------------------------------------------
\* What stands before the degree sign is a temperature and what stands before
\* the percent sign a humidity, whichever kind of device was read, and whichever
\* of the library's two requests it answered.
LabelsRight == label \in {Blank, NoDevice, <<"C", "%">>}

\* The form is handed an element the library did not fill only if the wrapper's two passes
\* saw different devices: one came between them, or could not be opened in the first.
UnsetOnlyByChange == d = Unset => missed

\* libusb can be initialised, and from some point on no device comes or goes, a pass
\* finds what is there, and a transfer to a device that is there succeeds.
Healthy ==
  /\ [](d # Unset /\ pc # "thrown")
  /\ <>[][/\ plugged' = plugged
          /\ CountPass => count' = Cardinality(plugged)
          /\ (FillPass /\ plugged # {}) => d' # Null
          /\ (DeviceTick /\ live) => temp' # NaN
          /\ (Show /\ live /\ temp # NaN) => d' = d]_vars

\* A device that stays is shown in the end, although the one that was read went
\* away, and although transfers to it failed before.  (After one refusal of
\* libusb the form never looks for a device again: chk_count has passed zero.)
\* And when the last device has gone for good the form says so in the end.
FoundAgain ==
  /\ (Healthy /\ <>[](plugged # {})) => <>[](live /\ label = <<"C", "%">>)
  /\ ([](d # Unset) /\ <>loaded /\ <>[](plugged = {})) => <>[](label = NoDevice)
=============================================================================
