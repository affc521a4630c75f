--------------------------------- MODULE VUsb ---------------------------------
(***************************************************************************)
(* The first device's software USB driver (V-USB, usbdrv.c and             *)
(* asmcommon.inc) on its control endpoint, with usbFunctionSetup of the    *)
(* application (main.c).  The main loop calls usbPoll; the interrupt       *)
(* routine runs between any two of its steps, for every packet the host    *)
(* sends, and shares the buffers and their lengths with it, unprotected.   *)
(*                                                                         *)
(* The host is external.  It may give up a request for another one at any  *)
(* time, miss the handshake of a SETUP and repeat it, and reset the bus.   *)
(* Data packets of the device arrive: the driver assumes so.               *)
(***************************************************************************)
EXTENDS Integers

CONSTANTS
  Requests,        \* the setup packets the host sends, records
  DescriptorSize,  \* the size of each descriptor, 0 for those there are not
  NIds,            \* tags that tell a request from the ones before it
  Words            \* what the application stores in usb_val

ASSUME RequestAssumption == \A r \in Requests :
  /\ r.wLength \in 0 .. 254 /\ r.dir \in {"in", "out"} /\ r.value \in Nat
  /\ r.name = "GET_DESCRIPTOR" => r.value \in DOMAIN DescriptorSize
  /\ r.name = "SET_ADDRESS" => r.dir = "out" /\ r.wLength = 0
ASSUME DescriptorAssumption ==
  \A d \in DOMAIN DescriptorSize : DescriptorSize[d] \in 0 .. 254
ASSUME NIdsAssumption == NIds \in Nat \ {0}
ASSUME WordsAssumption == Words \subseteq Nat /\ 0 \in Words

VARIABLES
  \* shared with the interrupt routine
  usbRxBuf, usbInputBufOffset, usbRxLen, usbRxToken, usbTxLen, usbTxBuf,
  usbDeviceAddr, usbNewDeviceAddr,
  \* the main loop's
  usbMsgPtr, usbMsgLen, usbConfiguration,
  poll,        \* where usbPoll is, "out" when it does not run
  data,        \* its pointer to the packet received
  usb_val,     \* the application's two words
  \* the host and the line
  hostStage, hostReq, hostId, hostGot, hostTog, hostAddr,
  se0,         \* the host holds the line at SE0: a bus reset
  resetPolls   \* calls of usbPoll that saw this reset

rxVars   == <<usbRxBuf, usbInputBufOffset, usbRxLen, usbRxToken>>
txVars   == <<usbTxLen, usbTxBuf>>
addrVars == <<usbDeviceAddr, usbNewDeviceAddr>>
msgVars  == <<usbMsgPtr, usbMsgLen, usbConfiguration>>
mainVars == <<msgVars, poll, data, usb_val>>
hostVars == <<hostStage, hostReq, hostId, hostGot, hostTog, hostAddr>>
lineVars == <<se0, resetPolls>>
usbVars  == <<rxVars, txVars, addrVars, msgVars, poll, data, hostVars, lineVars>>
vars     == <<usbVars, usb_val>>

USB_NO_MSG == 255
USBPID_NAK == 90    \* as a length; the lengths of data packets are 4 to 12
NoRequest  == [name |-> "none", value |-> 0, dir |-> "out", wLength |-> 0]
Junk       == [id |-> 0, req |-> NoRequest]  \* not a packet waiting for usbPoll
ASSUME NoRequestAssumption == NoRequest \notin Requests
Garbled    == -1    \* hostGot once the host has bytes that are not its answer's
Unread     == [i \in {0, 1} |-> -1]
Ids        == 0 .. NIds - 1
Min2(a, b) == IF a < b THEN a ELSE b

-----------------------------------------------------------------------------
(***************************************************************************)
(* The answers: what usbMsgPtr points at and the length returned.          *)
(***************************************************************************)
\* Requests that are not standard ones are the application's.
usbFunctionSetup(r) ==
  CASE r.name = "VENDOR"                       -> [src |-> "usb_val", at |-> 0, len |-> 8]
    [] r.name = "GET_REPORT" /\ r.value = 1    -> [src |-> "usb_val", at |-> 0, len |-> 4]
    [] r.name = "GET_REPORT" /\ r.value = 2    -> [src |-> "usb_val", at |-> 4, len |-> 4]
    [] OTHER                                   -> [src |-> "none", at |-> 0, len |-> 0]

usbDriverSetup(r) ==
  CASE r.name = "GET_DESCRIPTOR"    -> [src |-> "rom", at |-> 0, len |-> DescriptorSize[r.value]]
    [] r.name = "GET_CONFIGURATION" -> [src |-> "configuration", at |-> 0, len |-> 1]
    [] r.name = "GET_STATUS"        -> [src |-> "status", at |-> 0, len |-> 2]
    [] r.name = "GET_INTERFACE"     -> [src |-> "status", at |-> 0, len |-> 1]
    [] OTHER                        -> [src |-> "status", at |-> 0, len |-> 0]

Reply(r) == IF r.name \in {"VENDOR", "GET_REPORT", "SET_REPORT"}
            THEN usbFunctionSetup(r) ELSE usbDriverSetup(r)

\* The bytes the host is to be sent.
Due == [r \in Requests |-> Min2(Reply(r).len, r.wLength)]
\* A request either brings data or asks for some.
ASSUME DirectionAssumption == \A r \in Requests : r.dir = "out" => Due[r] = 0

Sources  == {"none", "usb_val", "rom", "configuration", "status"}
Pointers == [src : Sources, at : 0 .. 254, of : Ids]
Blocks   == [pid : {0, 1}, src : Sources, at : 0 .. 254, of : Ids, len : 0 .. 8,
             val : [{0, 1} -> Words] \cup {Unread}]
PollSteps == {"out", "start", "pid", "abort", "setup", "limit", "free",
              "transmit", "build", "send", "line", "address"}
Stages   == {"idle", "setup", "in", "out", "statusIn", "statusOut"}

Addresses == {0} \cup {r.value : r \in Requests}

RxTypeOK ==
  /\ usbRxBuf \in [{0, 1} -> [id : Ids, req : Requests] \cup {Junk}]
  /\ usbInputBufOffset \in {0, 1} /\ data \in {0, 1}
  /\ usbRxLen \in {0, 11} /\ usbRxToken \in {"SETUP", "OUT"}

TxTypeOK == usbTxLen \in 4 .. 12 \cup {USBPID_NAK} /\ usbTxBuf \in Blocks

AddrTypeOK ==
  {usbDeviceAddr, usbNewDeviceAddr, usbConfiguration, hostAddr} \subseteq Addresses

MainTypeOK ==
  /\ usbMsgPtr \in Pointers /\ usbMsgLen \in 0 .. 255
  /\ poll \in PollSteps
  /\ usb_val \in [{0, 1} -> Words]

HostTypeOK ==
  /\ hostStage \in Stages /\ hostReq \in Requests \cup {NoRequest} /\ hostId \in Ids
  /\ hostGot \in -1 .. 254 /\ hostTog \in {0, 1}
  /\ se0 \in BOOLEAN /\ resetPolls \in 0 .. 2

TypeOK == RxTypeOK /\ TxTypeOK /\ AddrTypeOK /\ MainTypeOK /\ HostTypeOK

\* After usbInit and the disconnect and connect of main.
UsbInit ==
  /\ usbRxBuf = [i \in {0, 1} |-> Junk] /\ usbInputBufOffset = 0
  /\ usbRxLen = 0 /\ usbRxToken = "OUT"
  /\ usbTxLen = USBPID_NAK
  /\ usbTxBuf = [pid |-> 0, src |-> "none", at |-> 0, of |-> 0, len |-> 0, val |-> Unread]
  /\ usbDeviceAddr = 0 /\ usbNewDeviceAddr = 0 /\ usbConfiguration = 0
  /\ usbMsgPtr = [src |-> "none", at |-> 0, of |-> 0] /\ usbMsgLen = USB_NO_MSG
  /\ poll = "out" /\ data = 0
  /\ hostStage = "idle" /\ hostReq = NoRequest /\ hostId = 0
  /\ hostGot = 0 /\ hostTog = 1 /\ hostAddr = 0
  /\ se0 = FALSE /\ resetPolls = 2

-----------------------------------------------------------------------------
(***************************************************************************)
(* usbPoll, a step for each access to what the interrupt routine shares.   *)
(***************************************************************************)
Goto(from, to) == poll = from /\ poll' = to

\* Mutant: the half that is being received into.
PollStartOther ==
  /\ poll = "start"
  /\ poll' = IF usbRxLen = 0 THEN "transmit"
             ELSE IF usbRxToken = "SETUP" THEN "pid" ELSE "free"
  /\ data' = usbInputBufOffset
  /\ UNCHANGED <<rxVars, txVars, addrVars, msgVars, hostVars, lineVars, usb_val>>

\* Is there a packet?  Only that of a SETUP has an effect.
PollStart ==
  /\ poll = "start"
  /\ poll' = IF usbRxLen = 0 THEN "transmit"
             ELSE IF usbRxToken = "SETUP" THEN "pid" ELSE "free"
  /\ data' = 1 - usbInputBufOffset
  /\ UNCHANGED <<rxVars, txVars, addrVars, msgVars, hostVars, lineVars, usb_val>>

\* Mutant: the toggle goes on from the request before.
KeepToggle ==
  /\ Goto("pid", "abort")
  /\ UNCHANGED <<rxVars, txVars, addrVars, msgVars, data, usb_val, hostVars, lineVars>>

\* usbProcessRx.
ResetToggle ==
  /\ Goto("pid", "abort")
  /\ usbTxBuf' = [usbTxBuf EXCEPT !.pid = 0]
  /\ UNCHANGED <<rxVars, usbTxLen, addrVars, msgVars, data, usb_val, hostVars, lineVars>>

AbortTransmit ==
  /\ Goto("abort", "setup")
  /\ usbTxLen' = USBPID_NAK
  /\ UNCHANGED <<rxVars, usbTxBuf, addrVars, msgVars, data, usb_val, hostVars, lineVars>>

\* Mutant: a new address is taken up at once.
DispatchSetupAtOnce ==
  LET rq == usbRxBuf[data].req
      address == IF rq.name = "SET_ADDRESS" THEN rq.value ELSE usbDeviceAddr IN
  /\ Goto("setup", "limit")
  /\ usbMsgPtr' = [src |-> Reply(rq).src, at |-> Reply(rq).at, of |-> usbRxBuf[data].id]
  /\ usbNewDeviceAddr' = address /\ usbDeviceAddr' = address
  /\ usbConfiguration' = IF rq.name = "SET_CONFIGURATION" THEN rq.value ELSE usbConfiguration
  /\ UNCHANGED <<rxVars, txVars, usbMsgLen, data, usb_val, hostVars, lineVars>>

\* usbFunctionSetup and usbDriverSetup.  An answer of no bytes has no source.
DispatchSetup ==
  LET rq == usbRxBuf[data].req IN
  /\ Goto("setup", "limit")
  /\ usbMsgPtr' = [src |-> Reply(rq).src, at |-> Reply(rq).at, of |-> usbRxBuf[data].id]
  /\ usbNewDeviceAddr' = IF rq.name = "SET_ADDRESS" THEN rq.value ELSE usbNewDeviceAddr
  /\ usbConfiguration' = IF rq.name = "SET_CONFIGURATION" THEN rq.value ELSE usbConfiguration
  /\ UNCHANGED <<rxVars, txVars, usbDeviceAddr, usbMsgLen, data, usb_val, hostVars, lineVars>>

LimitReply ==
  LET rq == usbRxBuf[data].req IN
  /\ Goto("limit", "free")
  /\ usbMsgLen' = Min2(Reply(rq).len, rq.wLength)
  /\ UNCHANGED <<rxVars, txVars, addrVars, usbMsgPtr, usbConfiguration, data, usb_val,
                 hostVars, lineVars>>

FreeRxBuf ==
  /\ Goto("free", "transmit")
  /\ usbRxLen' = 0
  /\ usbRxBuf' = [usbRxBuf EXCEPT ![data] = Junk]
  /\ UNCHANGED <<usbInputBufOffset, usbRxToken, txVars, addrVars, msgVars,
                 data, usb_val, hostVars, lineVars>>

\* Mutant: no packet of no bytes is made.
TestTransmitBytes ==
  /\ poll = "transmit"
  /\ poll' = IF usbTxLen = USBPID_NAK /\ usbMsgLen \notin {0, USB_NO_MSG}
             THEN "build" ELSE "line"
  /\ UNCHANGED <<rxVars, txVars, addrVars, msgVars, data, usb_val, hostVars, lineVars>>

TestTransmit ==
  /\ poll = "transmit"
  /\ poll' = IF usbTxLen = USBPID_NAK /\ usbMsgLen # USB_NO_MSG THEN "build" ELSE "line"
  /\ UNCHANGED <<rxVars, txVars, addrVars, msgVars, data, usb_val, hostVars, lineVars>>

\* usbBuildTxBlock up to the last line.  Memory of the application is read here.
BuildTxBlock ==
  LET wantLen == Min2(usbMsgLen, 8) IN
  /\ Goto("build", "send")
  /\ usbTxBuf' = [pid |-> 1 - usbTxBuf.pid, src |-> usbMsgPtr.src, at |-> usbMsgPtr.at,
                  of |-> usbMsgPtr.of, len |-> wantLen,
                  val |-> IF usbMsgPtr.src = "usb_val" THEN usb_val ELSE Unread]
  /\ usbMsgPtr' = [usbMsgPtr EXCEPT !.at = @ + wantLen]
  /\ usbMsgLen' = IF wantLen < 8 THEN USB_NO_MSG ELSE usbMsgLen - wantLen
  /\ UNCHANGED <<rxVars, usbTxLen, addrVars, usbConfiguration, data, usb_val,
                 hostVars, lineVars>>

SendTxBlock ==
  /\ Goto("send", "line")
  /\ usbTxLen' = usbTxBuf.len + 4
  /\ UNCHANGED <<rxVars, usbTxBuf, addrVars, msgVars, data, usb_val, hostVars, lineVars>>

\* Is the line at SE0, twenty times?  Then forget the addresses.
TestLine ==
  /\ poll = "line"
  /\ poll' = IF se0 THEN "address" ELSE "out"
  /\ usbNewDeviceAddr' = IF se0 THEN 0 ELSE usbNewDeviceAddr
  /\ UNCHANGED <<rxVars, txVars, usbDeviceAddr, msgVars, data, usb_val, hostVars, lineVars>>

ForgetAddress ==
  /\ Goto("address", "out")
  /\ usbDeviceAddr' = 0
  /\ resetPolls' = Min2(resetPolls + 1, 2)
  /\ UNCHANGED <<rxVars, txVars, usbNewDeviceAddr, msgVars, data, usb_val, hostVars, se0>>

usbPoll ==
  \/ PollStart \/ ResetToggle \/ AbortTransmit \/ DispatchSetup \/ LimitReply
  \/ FreeRxBuf \/ TestTransmit \/ BuildTxBlock \/ SendTxBlock \/ TestLine
  \/ ForgetAddress

-----------------------------------------------------------------------------
(***************************************************************************)
(* The interrupt routine.  A token and the data that follows it are one    *)
(* action: two bit times are too short for a step of usbPoll to matter,    *)
(* which never looks at usbCurrentTok.                                     *)
(***************************************************************************)
\* The device hears packets for its address only.
Heard == ~se0 /\ hostAddr = usbDeviceAddr

\* Every packet is received into the half at the input offset, refused or not.
handleData(token, packet) ==
  /\ usbRxBuf' = [usbRxBuf EXCEPT ![usbInputBufOffset] =
                               IF usbRxLen = 0 THEN packet ELSE Junk]
  /\ IF usbRxLen # 0 THEN UNCHANGED <<usbInputBufOffset, usbRxLen, usbRxToken>>
     ELSE /\ usbRxLen' = 11 /\ usbRxToken' = token
          /\ usbInputBufOffset' = 1 - usbInputBufOffset
  /\ UNCHANGED <<txVars, addrVars, mainVars>>

\* Zero-sized data is acknowledged and otherwise ignored.
handleStatusOut ==
  /\ usbRxBuf' = [usbRxBuf EXCEPT ![usbInputBufOffset] = Junk]
  /\ UNCHANGED <<usbInputBufOffset, usbRxLen, usbRxToken, txVars, addrVars, mainVars>>

\* A data packet goes out; the new address takes effect after it.
handleIn ==
  /\ usbRxLen = 0 /\ usbTxLen # USBPID_NAK
  /\ usbTxLen' = USBPID_NAK
  /\ usbDeviceAddr' = usbNewDeviceAddr
  /\ usbRxBuf' = [usbRxBuf EXCEPT ![usbInputBufOffset] = Junk]
  /\ UNCHANGED <<usbInputBufOffset, usbRxLen, usbRxToken, usbTxBuf, usbNewDeviceAddr,
                 mainVars>>

-----------------------------------------------------------------------------
(***************************************************************************)
(* The host.                                                               *)
(***************************************************************************)
\* A new request; the one before it is given up if it was not done.  Only a
\* reset makes the host give up a change of address.
HostAsks(r) ==
  /\ ~se0
  /\ hostStage = "idle" \/ hostReq.name # "SET_ADDRESS"
  /\ r.name = "SET_ADDRESS" => hostAddr = 0
  /\ hostStage' = "setup" /\ hostReq' = r /\ hostId' = (hostId + 1) % NIds
  /\ hostGot' = 0 /\ hostTog' = 1
  /\ UNCHANGED <<rxVars, txVars, addrVars, mainVars, hostAddr, lineVars>>

StageAfterSetup(r) ==
  IF r.dir = "in" THEN "in" ELSE IF r.wLength > 0 THEN "out" ELSE "statusIn"

\* The setup packet.  Refused, or when its handshake is lost, it is sent again.
HostSetup ==
  /\ hostStage = "setup" /\ Heard
  /\ handleData("SETUP", [id |-> hostId, req |-> hostReq])
  /\ hostStage' \in {"setup"} \cup
                    (IF usbRxLen = 0 THEN {StageAfterSetup(hostReq)} ELSE {})
  /\ UNCHANGED <<hostReq, hostId, hostGot, hostTog, hostAddr, lineVars>>

HostOut ==
  /\ hostStage = "out" /\ Heard
  /\ handleData("OUT", Junk)
  /\ hostStage' = IF usbRxLen = 0 THEN "statusIn" ELSE "out"
  /\ UNCHANGED <<hostReq, hostId, hostGot, hostTog, hostAddr, lineVars>>

HostDone ==
  /\ hostStage' = "idle" /\ hostReq' = NoRequest /\ hostTog' = 1

\* A data packet arrives; one with the toggle of the last is dropped.
Expected(block) ==
  /\ block.of = hostId
  /\ IF hostStage = "in" THEN block.at = Reply(hostReq).at + hostGot
     ELSE block.len = 0
HostIn ==
  /\ hostStage \in {"in", "statusIn"} /\ Heard
  /\ handleIn
  /\ IF usbTxBuf.pid # hostTog
     THEN UNCHANGED <<hostStage, hostReq, hostGot, hostTog, hostAddr>>
     ELSE IF hostStage = "statusIn"
     THEN /\ HostDone
          /\ hostGot' = IF Expected(usbTxBuf) THEN 0 ELSE Garbled
          /\ hostAddr' = IF hostReq.name = "SET_ADDRESS" THEN hostReq.value ELSE hostAddr
     ELSE /\ hostGot' = IF Expected(usbTxBuf) THEN hostGot + usbTxBuf.len ELSE Garbled
          /\ hostStage' = IF usbTxBuf.len < 8 \/ hostGot + usbTxBuf.len >= hostReq.wLength
                          THEN "statusOut" ELSE "in"
          /\ hostTog' = 1 - hostTog
          /\ UNCHANGED <<hostReq, hostAddr>>
  /\ UNCHANGED <<hostId, lineVars>>

\* No data packet is ready, or a packet received is not processed yet.
HostInRefused ==
  /\ hostStage \in {"in", "statusIn"} /\ Heard
  /\ usbRxLen # 0 \/ usbTxLen = USBPID_NAK
  /\ usbRxBuf' = [usbRxBuf EXCEPT ![usbInputBufOffset] = Junk]
  /\ UNCHANGED <<usbInputBufOffset, usbRxLen, usbRxToken, txVars, addrVars, mainVars,
                 hostVars, lineVars>>

HostStatusOut ==
  /\ hostStage = "statusOut" /\ Heard /\ usbRxLen = 0
  /\ handleStatusOut
  /\ HostDone
  /\ hostGot' = 0
  /\ UNCHANGED <<hostId, hostAddr, lineVars>>

HostReset ==
  /\ ~se0 /\ se0' = TRUE /\ resetPolls' = 0
  /\ HostDone /\ hostGot' = 0 /\ hostAddr' = 0
  /\ UNCHANGED <<rxVars, txVars, addrVars, mainVars, hostId>>

\* A reset lasts 10 ms, the main loop calls usbPoll every millisecond.
HostResetEnds ==
  /\ se0 /\ resetPolls = 2 /\ se0' = FALSE
  /\ UNCHANGED <<rxVars, txVars, addrVars, mainVars, hostVars, resetPolls>>

Transaction == HostSetup \/ HostOut \/ HostIn \/ HostStatusOut
Host ==
  \/ \E r \in Requests : HostAsks(r)
  \/ Transaction \/ HostInRefused \/ HostReset \/ HostResetEnds

-----------------------------------------------------------------------------
(***************************************************************************)
(* The driver alone, under a main loop that does nothing but call it.      *)
(***************************************************************************)
CallPoll ==
  /\ Goto("out", "start")
  /\ UNCHANGED <<rxVars, txVars, addrVars, msgVars, data, usb_val, hostVars, lineVars>>

Init == UsbInit /\ usb_val = [i \in {0, 1} |-> 0]
Next == CallPoll \/ usbPoll \/ Host

Spec == Init /\ [][Next]_vars

\* The main loop runs forever (main.c, line 289).  The host goes on with its request,
\* does not miss the handshake of a setup forever, and ends its resets.
FairSpec ==
  /\ Spec
  /\ WF_vars(CallPoll \/ usbPoll)
  /\ WF_vars(Transaction) /\ SF_vars(HostSetup /\ hostStage' # "setup")
  /\ WF_vars(HostResetEnds)

-----------------------------------------------------------------------------
\* The device hears the host at the address the host uses: a new address is
\* taken up when its change is acknowledged and not before, and none survives a
\* reset, whatever step of usbPoll the reset meets.
AddressesAgree == ~se0 => usbDeviceAddr = hostAddr

\* While usbPoll works on a setup packet the interrupt routine leaves it alone:
\* what comes meanwhile goes to the other half, and is refused.
PacketStays ==
  poll \in {"pid", "abort", "setup", "limit"} =>
    usbRxLen # 0 /\ data # usbInputBufOffset /\ usbRxBuf[data] # Junk

\* The control endpoint keeps its promise: the bytes a request is due, in order,
\* none of an earlier request, whenever the host gives up one for another.
Service == INSTANCE ControlTransfer WITH request <- hostReq, received <- hostGot, Packet <- 8
Delivers == Service!Spec

\* And if the host stops giving up requests they are completed, although setups
\* are refused as long as usbPoll has not seen the packet before.
Patient   == <>[][hostReq # NoRequest => hostId' = hostId]_vars
Completes == Patient => []<>(hostReq = NoRequest)
=============================================================================
