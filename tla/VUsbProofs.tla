------------------------------- MODULE VUsbProofs -------------------------------
(***************************************************************************)
(* Proofs about VUsb, for every set of requests and descriptors: whatever  *)
(* step of usbPoll a packet, a new request or a bus reset meets, however   *)
(* often a setup is repeated, and although the tags that tell requests     *)
(* apart come round.                                                       *)
(***************************************************************************)
EXTENDS VUsb, TLAPS

\* The packet waiting for usbPoll is in the half that is not received into.
Pending      == usbRxBuf[1 - usbInputBufOffset]
SetupPending == usbRxLen # 0 /\ usbRxToken = "SETUP"

\* usbPoll works on a setup packet and is at one of the steps, or past all of them.
Past(steps) == poll \in steps \/ (poll = "free" /\ usbRxToken = "SETUP")

\* What usbPoll has done to the packet it works on, and what it found before it went on.
PollInv ==
  /\ SetupPending => Pending \in [id : Ids, req : Requests]
  /\ poll \in {"pid", "abort", "setup", "limit"} => SetupPending
  /\ poll \in {"pid", "abort", "setup", "limit", "free"} =>
       usbRxLen # 0 /\ data = 1 - usbInputBufOffset
  /\ Past({"abort", "setup", "limit"}) => usbTxBuf.pid = 0
  /\ Past({"setup", "limit"}) => usbTxLen = USBPID_NAK
  /\ poll \in {"build", "send"} => usbTxLen = USBPID_NAK
  /\ poll = "build" => usbMsgLen # USB_NO_MSG

\* The answer it has prepared is that to the packet it works on.
ReplyInv ==
  /\ Past({"limit"}) =>
       /\ usbMsgPtr = [src |-> Reply(Pending.req).src, at |-> Reply(Pending.req).at, of |-> Pending.id]
       /\ Pending.req.name = "SET_ADDRESS" => usbNewDeviceAddr = Pending.req.value
  /\ Past({}) => usbMsgLen = Due[Pending.req]
  /\ poll # "limit" /\ usbMsgLen # USB_NO_MSG => usbMsgPtr.at + usbMsgLen <= 254

\* A bus reset lasts until usbPoll has seen it twice: what it was doing when the reset
\* began is then done, and what that left of an address is forgotten.
ResetInv ==
  /\ se0 => hostAddr = 0 /\ hostStage = "idle"
  /\ se0 /\ resetPolls # 0 => usbDeviceAddr = 0
  /\ se0 /\ resetPolls = 1 /\ poll \in {"transmit", "build", "send", "line", "address"} => usbRxLen = 0
  /\ se0 /\ resetPolls = 2 => usbRxLen = 0 /\ usbNewDeviceAddr = 0
  /\ poll = "address" => hostAddr = 0 /\ usbNewDeviceAddr = 0

\* The addresses differ only while the host changes them; no change it has given up
\* waits for usbPoll.
AddressInv ==
  /\ AddressesAgree
  /\ ~se0 => usbNewDeviceAddr \in {hostAddr} \cup
                                  (IF hostReq.name = "SET_ADDRESS" THEN {hostReq.value} ELSE {})
  /\ ~se0 /\ SetupPending /\ Pending.req.name = "SET_ADDRESS" => Pending.req = hostReq

\* Where the host is in its request.
HostInv ==
  /\ hostStage = "idle" => hostReq = NoRequest /\ hostGot = 0
  /\ hostStage # "idle" => hostReq \in Requests
  /\ hostStage \in {"setup", "out", "statusIn"} => hostGot = 0 /\ hostTog = 1
  /\ hostStage \in {"out", "statusIn"} => hostReq.dir = "out"
  /\ hostStage = "out" => hostReq.wLength > 0
  /\ hostStage = "in" => hostReq.dir = "in" /\ hostGot >= 0
  /\ hostStage = "statusOut" => hostGot = Due[hostReq] /\ hostReq.dir = "in"

\* usbPoll has taken up the host's request: a packet is ready, or the next is to be made.
Ready == poll = "send" \/ usbTxLen # USBPID_NAK
Left  == Due[hostReq] - hostGot
Answering ==
  /\ Left >= 0 /\ usbMsgPtr.of = hostId
  /\ hostReq.name = "SET_ADDRESS" => usbNewDeviceAddr = hostReq.value
  /\ ~Ready =>
       /\ usbTxBuf.pid = 1 - hostTog
       /\ usbMsgPtr.at = Reply(hostReq).at + hostGot
       /\ usbMsgLen = Left
  /\ Ready =>
       /\ usbTxBuf.pid = hostTog /\ usbTxBuf.of = hostId
       /\ usbTxBuf.at = Reply(hostReq).at + hostGot /\ usbTxBuf.len = Min2(Left, 8)
       /\ usbMsgPtr.at = usbTxBuf.at + usbTxBuf.len
       /\ usbMsgLen = IF Left < 8 THEN USB_NO_MSG ELSE Left - 8

\* Once the device has acknowledged the setup, its packet waits, or it is answered.
AnswerInv ==
  hostStage \in {"in", "out", "statusIn"} =>
    IF SetupPending
    THEN Pending = [id |-> hostId, req |-> hostReq] /\ hostGot = 0 /\ hostTog = 1
    ELSE Answering

IInv == TypeOK /\ PollInv /\ ReplyInv /\ ResetInv /\ AddressInv /\ HostInv /\ AnswerInv

\* An answer lies within its object, which is at most 254 bytes long.
LEMMA ReplyFits ==
  ASSUME NEW r \in Requests
  PROVE  /\ Reply(r).src \in Sources /\ Reply(r).at \in 0 .. 254 /\ Reply(r).len \in 0 .. 254
         /\ Reply(r).at + Reply(r).len <= 254
<1>1. usbFunctionSetup(r) \in {[src |-> "usb_val", at |-> 0, len |-> 8], [src |-> "usb_val", at |-> 0, len |-> 4],
                               [src |-> "usb_val", at |-> 4, len |-> 4], [src |-> "none", at |-> 0, len |-> 0]}
  BY DEF usbFunctionSetup
<1>2. \E n \in 0 .. 254 : \E s \in {"rom", "configuration", "status"} :
        usbDriverSetup(r) = [src |-> s, at |-> 0, len |-> n]
  <2>1. r.name = "GET_DESCRIPTOR" => DescriptorSize[r.value] \in 0 .. 254
    BY RequestAssumption, DescriptorAssumption
  <2>2. {0, 1, 2} \subseteq 0 .. 254
    OBVIOUS
  <2> QED BY <2>1, <2>2 DEF usbDriverSetup
<1>3. Reply(r) = usbFunctionSetup(r) \/ Reply(r) = usbDriverSetup(r)
  BY DEF Reply
<1>4. CASE Reply(r) = usbFunctionSetup(r)
  BY <1>1, <1>4 DEF Sources
<1>5. CASE Reply(r) = usbDriverSetup(r)
  BY <1>2, <1>5 DEF Sources
<1> QED BY <1>3, <1>4, <1>5

\* The host is due no more than it asks for, nor more than there is.
LEMMA DueFits ==
  ASSUME NEW r \in Requests
  PROVE  /\ Due[r] = Min2(Reply(r).len, r.wLength)
         /\ Due[r] \in 0 .. 254 /\ Due[r] <= r.wLength /\ Reply(r).at + Due[r] <= 254
<1>1. Due[r] = Min2(Reply(r).len, r.wLength)
  BY DEF Due
<1>2. r.wLength \in 0 .. 254
  BY RequestAssumption
<1> HIDE DEF Due
<1>3. PICK a \in 0 .. 254, n \in 0 .. 254, w \in 0 .. 254 :
        a = Reply(r).at /\ n = Reply(r).len /\ w = r.wLength /\ a + n <= 254
  BY ZenonT(40), <1>2, ReplyFits
<1>4. Min2(n, w) \in 0 .. 254 /\ Min2(n, w) <= w /\ a + Min2(n, w) <= 254
  BY <1>3 DEF Min2
<1> QED BY <1>1, <1>3, <1>4

\* A packet has as many bytes as are left, eight at most.
LEMMA PacketFits ==
  ASSUME NEW n \in 0 .. 255
  PROVE  /\ Min2(n, 8) \in 0 .. 8 /\ Min2(n, 8) <= n
         /\ Min2(n, 8) < 8 => Min2(n, 8) = n
         /\ ~(Min2(n, 8) < 8) => Min2(n, 8) = 8
BY DEF Min2

\* The two halves of the receive buffer.
LEMMA Halves ==
  ASSUME NEW i \in {0, 1}
  PROVE  1 - i \in {0, 1} /\ 1 - i # i /\ 1 - (1 - i) = i
OBVIOUS

\* The receive buffer holds requests of the host.
LEMMA RxTypes ==
  RxTypeOK /\ HostTypeOK /\ HostInv /\ [Next]_vars => RxTypeOK'
<1> SUFFICES ASSUME RxTypeOK, HostTypeOK, HostInv, [Next]_vars PROVE RxTypeOK'
  OBVIOUS
<1> USE DEF rxVars, txVars, addrVars, msgVars, mainVars, hostVars, lineVars
<1>1. CASE CallPoll
  BY <1>1 DEF CallPoll, Goto, RxTypeOK
<1>2. CASE PollStart
  BY <1>2 DEF PollStart, RxTypeOK
<1>3. CASE ResetToggle
  BY <1>3 DEF ResetToggle, Goto, RxTypeOK
<1>4. CASE AbortTransmit
  BY <1>4 DEF AbortTransmit, Goto, RxTypeOK
<1>5. CASE DispatchSetup
  BY <1>5 DEF DispatchSetup, Goto, RxTypeOK
<1>6. CASE LimitReply
  BY <1>6 DEF LimitReply, Goto, RxTypeOK
<1>7. CASE FreeRxBuf
  BY <1>7 DEF FreeRxBuf, Goto, RxTypeOK
<1>8. CASE TestTransmit
  BY <1>8 DEF TestTransmit, RxTypeOK
<1>9. CASE BuildTxBlock
  BY <1>9 DEF BuildTxBlock, Goto, RxTypeOK
<1>10. CASE SendTxBlock
  BY <1>10 DEF SendTxBlock, Goto, RxTypeOK
<1>11. CASE TestLine
  BY <1>11 DEF TestLine, RxTypeOK
<1>12. CASE ForgetAddress
  BY <1>12 DEF ForgetAddress, Goto, RxTypeOK
<1>13. CASE \E r \in Requests : HostAsks(r)
  BY <1>13 DEF HostAsks, RxTypeOK
<1>14. CASE HostSetup
  <2>1. [id |-> hostId, req |-> hostReq] \in [id : Ids, req : Requests]
    BY <1>14 DEF HostSetup, HostTypeOK, HostInv
  <2>2. usbRxBuf' \in [{0, 1} -> [id : Ids, req : Requests] \cup {Junk}]
    BY <1>14, <2>1 DEF HostSetup, handleData, RxTypeOK
  <2>3. UNCHANGED data /\ usbRxToken' \in {"SETUP", "OUT"} /\ usbRxLen' \in {0, 11} /\ usbInputBufOffset' \in {0, 1}
    BY <1>14 DEF HostSetup, handleData, RxTypeOK
  <2> QED BY <2>2, <2>3 DEF RxTypeOK
<1>15. CASE HostOut
  BY <1>15 DEF HostOut, handleData, Heard, RxTypeOK
<1>16. CASE HostIn
  BY <1>16 DEF HostIn, handleIn, Heard, HostDone, RxTypeOK
<1>17. CASE HostInRefused
  BY <1>17 DEF HostInRefused, Heard, RxTypeOK
<1>18. CASE HostStatusOut
  BY <1>18 DEF HostStatusOut, handleStatusOut, HostDone, RxTypeOK
<1>19. CASE HostReset
  BY <1>19 DEF HostReset, HostDone, RxTypeOK
<1>20. CASE HostResetEnds
  BY <1>20 DEF HostResetEnds, RxTypeOK
<1>21. CASE UNCHANGED vars
  BY <1>21 DEF vars, usbVars, RxTypeOK
<1> QED BY <1>1, <1>2, <1>3, <1>4, <1>5, <1>6, <1>7, <1>8, <1>9, <1>10, <1>11, <1>12, <1>13,
           <1>14, <1>15, <1>16, <1>17, <1>18, <1>19, <1>20, <1>21 DEF Next, usbPoll, Host,
           Transaction

\* The transmit buffer holds a block of an answer.
LEMMA TxTypes ==
  TxTypeOK /\ MainTypeOK /\ [Next]_vars => TxTypeOK'
<1> SUFFICES ASSUME TxTypeOK, MainTypeOK, [Next]_vars PROVE TxTypeOK'
  OBVIOUS
<1> USE DEF rxVars, txVars, addrVars, msgVars, mainVars, hostVars, lineVars
<1>1. CASE CallPoll
  BY <1>1 DEF CallPoll, Goto, TxTypeOK
<1>2. CASE PollStart
  BY <1>2 DEF PollStart, TxTypeOK
<1>3. CASE ResetToggle
  <2>1. usbTxBuf' \in Blocks
    BY <1>3 DEF ResetToggle, TxTypeOK, Blocks
  <2> QED BY <1>3, <2>1 DEF ResetToggle, TxTypeOK
<1>4. CASE AbortTransmit
  BY <1>4 DEF AbortTransmit, Goto, TxTypeOK
<1>5. CASE DispatchSetup
  BY <1>5 DEF DispatchSetup, Goto, TxTypeOK
<1>6. CASE LimitReply
  BY <1>6 DEF LimitReply, Goto, TxTypeOK
<1>7. CASE FreeRxBuf
  BY <1>7 DEF FreeRxBuf, Goto, TxTypeOK
<1>8. CASE TestTransmit
  BY <1>8 DEF TestTransmit, TxTypeOK
<1>9. CASE BuildTxBlock
  <2>1. Min2(usbMsgLen, 8) \in 0 .. 8
    BY PacketFits DEF MainTypeOK
  <2>2. 1 - usbTxBuf.pid \in {0, 1}
    BY DEF TxTypeOK, Blocks
  <2>3. (IF usbMsgPtr.src = "usb_val" THEN usb_val ELSE Unread) \in [{0, 1} -> Words] \cup {Unread}
    BY DEF MainTypeOK
  <2>4. usbMsgPtr.src \in Sources /\ usbMsgPtr.at \in 0 .. 254 /\ usbMsgPtr.of \in Ids
    BY DEF MainTypeOK, Pointers
  <2>5. usbTxBuf' \in Blocks
    BY <1>9, <2>1, <2>2, <2>3, <2>4 DEF BuildTxBlock, Blocks
  <2> QED BY <1>9, <2>5 DEF BuildTxBlock, TxTypeOK
<1>10. CASE SendTxBlock
  <2>1. usbTxBuf.len \in 0 .. 8
    BY DEF TxTypeOK, Blocks
  <2>2. usbTxBuf.len + 4 \in 4 .. 12
    BY <2>1
  <2> QED BY <1>10, <2>2 DEF SendTxBlock, TxTypeOK
<1>11. CASE TestLine
  BY <1>11 DEF TestLine, TxTypeOK
<1>12. CASE ForgetAddress
  BY <1>12 DEF ForgetAddress, Goto, TxTypeOK
<1>13. CASE \E r \in Requests : HostAsks(r)
  BY <1>13 DEF HostAsks, TxTypeOK
<1>14. CASE HostSetup
  BY <1>14 DEF HostSetup, handleData, Heard, TxTypeOK
<1>15. CASE HostOut
  BY <1>15 DEF HostOut, handleData, Heard, TxTypeOK
<1>16. CASE HostIn
  BY <1>16 DEF HostIn, handleIn, Heard, HostDone, TxTypeOK
<1>17. CASE HostInRefused
  BY <1>17 DEF HostInRefused, Heard, TxTypeOK
<1>18. CASE HostStatusOut
  BY <1>18 DEF HostStatusOut, handleStatusOut, HostDone, TxTypeOK
<1>19. CASE HostReset
  BY <1>19 DEF HostReset, HostDone, TxTypeOK
<1>20. CASE HostResetEnds
  BY <1>20 DEF HostResetEnds, TxTypeOK
<1>21. CASE UNCHANGED vars
  BY <1>21 DEF vars, usbVars, TxTypeOK
<1> QED BY <1>1, <1>2, <1>3, <1>4, <1>5, <1>6, <1>7, <1>8, <1>9, <1>10, <1>11, <1>12, <1>13,
           <1>14, <1>15, <1>16, <1>17, <1>18, <1>19, <1>20, <1>21 DEF Next, usbPoll, Host,
           Transaction

\* An address is 0 or one the host gave.
LEMMA AddrTypes ==
  RxTypeOK /\ AddrTypeOK /\ PollInv /\ HostInv /\ [Next]_vars => AddrTypeOK'
<1> SUFFICES ASSUME RxTypeOK, AddrTypeOK, PollInv, HostInv, [Next]_vars PROVE AddrTypeOK'
  OBVIOUS
<1> USE DEF rxVars, txVars, addrVars, msgVars, mainVars, hostVars, lineVars
<1> 0 \in Addresses
  BY DEF Addresses
<1>1. CASE CallPoll
  BY <1>1 DEF CallPoll, Goto, AddrTypeOK
<1>2. CASE PollStart
  BY <1>2 DEF PollStart, AddrTypeOK
<1>3. CASE ResetToggle
  BY <1>3 DEF ResetToggle, Goto, AddrTypeOK
<1>4. CASE AbortTransmit
  BY <1>4 DEF AbortTransmit, Goto, AddrTypeOK
<1>5. CASE DispatchSetup
  <2>1. usbRxBuf[data] \in [id : Ids, req : Requests]
    BY <1>5 DEF DispatchSetup, Goto, PollInv, Pending
  <2>2. usbRxBuf[data].req.value \in Addresses
    BY <2>1 DEF Addresses
  <2>3. UNCHANGED <<usbDeviceAddr, hostAddr>> /\ {usbNewDeviceAddr', usbConfiguration'} \subseteq Addresses
    BY <1>5, <2>2 DEF DispatchSetup, AddrTypeOK
  <2> QED BY <2>3 DEF AddrTypeOK
<1>6. CASE LimitReply
  BY <1>6 DEF LimitReply, Goto, AddrTypeOK
<1>7. CASE FreeRxBuf
  BY <1>7 DEF FreeRxBuf, Goto, AddrTypeOK
<1>8. CASE TestTransmit
  BY <1>8 DEF TestTransmit, AddrTypeOK
<1>9. CASE BuildTxBlock
  BY <1>9 DEF BuildTxBlock, Goto, AddrTypeOK
<1>10. CASE SendTxBlock
  BY <1>10 DEF SendTxBlock, Goto, AddrTypeOK
<1>11. CASE TestLine
  BY <1>11 DEF TestLine, AddrTypeOK
<1>12. CASE ForgetAddress
  BY <1>12 DEF ForgetAddress, Goto, AddrTypeOK
<1>13. CASE \E r \in Requests : HostAsks(r)
  BY <1>13 DEF HostAsks, AddrTypeOK
<1>14. CASE HostSetup
  BY <1>14 DEF HostSetup, handleData, Heard, AddrTypeOK
<1>15. CASE HostOut
  BY <1>15 DEF HostOut, handleData, Heard, AddrTypeOK
<1>16. CASE HostIn
  <2>1. 0 \in Addresses /\ (hostReq \in Requests => hostReq.value \in Addresses)
    BY DEF Addresses
  <2>2. hostAddr' \in Addresses
    BY <1>16, <2>1 DEF HostIn, HostInv, AddrTypeOK
  <2> QED BY <1>16, <2>2 DEF HostIn, handleIn, AddrTypeOK
<1>17. CASE HostInRefused
  BY <1>17 DEF HostInRefused, Heard, AddrTypeOK
<1>18. CASE HostStatusOut
  BY <1>18 DEF HostStatusOut, handleStatusOut, HostDone, AddrTypeOK
<1>19. CASE HostReset
  BY <1>19 DEF HostReset, HostDone, AddrTypeOK
<1>20. CASE HostResetEnds
  BY <1>20 DEF HostResetEnds, AddrTypeOK
<1>21. CASE UNCHANGED vars
  BY <1>21 DEF vars, usbVars, AddrTypeOK
<1> QED BY <1>1, <1>2, <1>3, <1>4, <1>5, <1>6, <1>7, <1>8, <1>9, <1>10, <1>11, <1>12, <1>13,
           <1>14, <1>15, <1>16, <1>17, <1>18, <1>19, <1>20, <1>21 DEF Next, usbPoll, Host,
           Transaction

\* usbMsgPtr stays within the object it points into.
LEMMA MainTypes ==
  RxTypeOK /\ MainTypeOK /\ PollInv /\ ReplyInv /\ [Next]_vars => MainTypeOK'
<1> SUFFICES ASSUME RxTypeOK, MainTypeOK, PollInv, ReplyInv, [Next]_vars PROVE MainTypeOK'
  OBVIOUS
<1> USE DEF rxVars, txVars, addrVars, msgVars, mainVars, hostVars, lineVars
<1>1. CASE CallPoll
  BY <1>1 DEF CallPoll, Goto, MainTypeOK, PollSteps
<1>2. CASE PollStart
  BY <1>2 DEF PollStart, MainTypeOK, PollSteps
<1>3. CASE ResetToggle
  BY <1>3 DEF ResetToggle, Goto, MainTypeOK, PollSteps
<1>4. CASE AbortTransmit
  BY <1>4 DEF AbortTransmit, Goto, MainTypeOK, PollSteps
<1>5. CASE DispatchSetup
  <2>1. usbRxBuf[data] \in [id : Ids, req : Requests]
    BY <1>5 DEF DispatchSetup, Goto, PollInv, Pending
  <2>2. usbMsgPtr' \in Pointers
    <3> DEFINE rq == usbRxBuf[data].req
    <3>1. Reply(rq).src \in Sources /\ Reply(rq).at \in 0 .. 254
      BY <2>1, ReplyFits
    <3> QED BY <1>5, <2>1, <3>1 DEF DispatchSetup, Pointers
  <2> QED BY <1>5, <2>2 DEF DispatchSetup, Goto, MainTypeOK, PollSteps
<1>6. CASE LimitReply
  <2>1. usbRxBuf[data] \in [id : Ids, req : Requests]
    BY <1>6 DEF LimitReply, Goto, PollInv, Pending
  <2>2. usbMsgLen' \in 0 .. 255
    <3>1. PICK rq \in Requests : rq = usbRxBuf[data].req
      BY <2>1
    <3>2. usbMsgLen' = Due[rq]
      BY <1>6, <3>1, DueFits DEF LimitReply
    <3>3. Due[rq] \in 0 .. 254
      BY DueFits
    <3> QED BY <3>2, <3>3
  <2> QED BY <1>6, <2>2 DEF LimitReply, Goto, MainTypeOK, PollSteps
<1>7. CASE FreeRxBuf
  BY <1>7 DEF FreeRxBuf, Goto, MainTypeOK, PollSteps
<1>8. CASE TestTransmit
  BY <1>8 DEF TestTransmit, MainTypeOK, PollSteps
<1>9. CASE BuildTxBlock
  <2>1. Min2(usbMsgLen, 8) \in 0 .. 8 /\ Min2(usbMsgLen, 8) <= usbMsgLen
    BY PacketFits DEF MainTypeOK
  <2>2. usbMsgPtr.at + usbMsgLen <= 254 /\ usbMsgPtr.at \in 0 .. 254 /\ usbMsgLen \in 0 .. 255
    BY <1>9 DEF BuildTxBlock, Goto, PollInv, ReplyInv, MainTypeOK, Pointers
  <2>3. usbMsgPtr.at + Min2(usbMsgLen, 8) \in 0 .. 254
    BY <2>1, <2>2
  <2>4. usbMsgPtr' \in Pointers
    BY <1>9, <2>3 DEF BuildTxBlock, MainTypeOK, Pointers
  <2>5. usbMsgLen' \in 0 .. 255
    BY <1>9, <2>1, <2>2 DEF BuildTxBlock, USB_NO_MSG
  <2> QED BY <1>9, <2>4, <2>5 DEF BuildTxBlock, Goto, MainTypeOK, PollSteps
<1>10. CASE SendTxBlock
  BY <1>10 DEF SendTxBlock, Goto, MainTypeOK, PollSteps
<1>11. CASE TestLine
  BY <1>11 DEF TestLine, MainTypeOK, PollSteps
<1>12. CASE ForgetAddress
  BY <1>12 DEF ForgetAddress, Goto, MainTypeOK, PollSteps
<1>13. CASE \E r \in Requests : HostAsks(r)
  BY <1>13 DEF HostAsks, MainTypeOK, PollSteps
<1>14. CASE HostSetup
  BY <1>14 DEF HostSetup, handleData, Heard, MainTypeOK, PollSteps
<1>15. CASE HostOut
  BY <1>15 DEF HostOut, handleData, Heard, MainTypeOK, PollSteps
<1>16. CASE HostIn
  BY <1>16 DEF HostIn, handleIn, Heard, HostDone, MainTypeOK, PollSteps
<1>17. CASE HostInRefused
  BY <1>17 DEF HostInRefused, Heard, MainTypeOK, PollSteps
<1>18. CASE HostStatusOut
  BY <1>18 DEF HostStatusOut, handleStatusOut, HostDone, MainTypeOK, PollSteps
<1>19. CASE HostReset
  BY <1>19 DEF HostReset, HostDone, MainTypeOK, PollSteps
<1>20. CASE HostResetEnds
  BY <1>20 DEF HostResetEnds, MainTypeOK, PollSteps
<1>21. CASE UNCHANGED vars
  BY <1>21 DEF vars, usbVars, MainTypeOK, PollSteps
<1> QED BY <1>1, <1>2, <1>3, <1>4, <1>5, <1>6, <1>7, <1>8, <1>9, <1>10, <1>11, <1>12, <1>13,
           <1>14, <1>15, <1>16, <1>17, <1>18, <1>19, <1>20, <1>21 DEF Next, usbPoll, Host,
           Transaction

\* When a data packet goes out, the host expects it: it is the next block of the answer
\* to its request, with the toggle that is next.
LEMMA NextBlock ==
  ASSUME TxTypeOK, HostTypeOK, PollInv, HostInv, AnswerInv, HostIn
  PROVE  /\ hostReq \in Requests /\ Answering /\ Ready /\ Left \in 0 .. 254
         /\ Expected(usbTxBuf) /\ usbTxBuf.pid = hostTog
         /\ usbTxBuf.len = Min2(Left, 8)
         /\ hostStage = "statusIn" => Left = 0 /\ usbTxBuf.len = 0
<1>1. hostStage \in {"in", "statusIn"} /\ usbRxLen = 0 /\ usbTxLen # USBPID_NAK
  BY DEF HostIn, handleIn
<1>2. Answering /\ Ready
  BY <1>1 DEF AnswerInv, SetupPending, Ready
<1>3. hostReq \in Requests
  BY <1>1 DEF HostInv
<1>4. Left \in 0 .. 254
  <2>1. Due[hostReq] \in Nat /\ Due[hostReq] <= 254
    BY <1>3, DueFits
  <2>2. hostGot \in Int
    BY DEF HostTypeOK
  <2>3. Left >= 0
    BY <1>2 DEF Answering
  <2>4. hostGot >= 0
    <3>1. CASE hostStage = "statusIn"
      BY <3>1 DEF HostInv
    <3>2. CASE hostStage = "in"
      BY <3>2 DEF HostInv
    <3> QED BY <1>1, <3>1, <3>2
  <2>5. Left \in Int /\ Left <= 254
    BY <2>1, <2>2, <2>4 DEF Left
  <2> QED BY <2>3, <2>5
<1>5. usbTxBuf.pid = hostTog /\ usbTxBuf.len = Min2(Left, 8) /\ usbTxBuf.of = hostId
      /\ usbTxBuf.at = Reply(hostReq).at + hostGot
  BY <1>2 DEF Answering
<1>6. hostStage = "statusIn" => Left = 0
  BY <1>3, DirectionAssumption DEF HostInv, Left
<1>7. hostStage = "statusIn" => usbTxBuf.len = 0
  BY <1>5, <1>6 DEF Min2
<1>8. Expected(usbTxBuf)
  BY <1>1, <1>5, <1>7 DEF Expected
<1> QED BY <1>2, <1>3, <1>4, <1>5, <1>6, <1>7, <1>8

\* The host counts no more bytes than it is due.
LEMMA HostTypes ==
  HostTypeOK /\ HostInv /\ AnswerInv /\ TxTypeOK /\ PollInv /\ [Next]_vars => HostTypeOK'
<1> SUFFICES ASSUME HostTypeOK, HostInv, AnswerInv, TxTypeOK, PollInv, [Next]_vars PROVE HostTypeOK'
  OBVIOUS
<1> USE DEF rxVars, txVars, addrVars, msgVars, mainVars, hostVars, lineVars
<1>1. CASE CallPoll
  BY <1>1 DEF CallPoll, Goto, HostTypeOK
<1>2. CASE PollStart
  BY <1>2 DEF PollStart, HostTypeOK
<1>3. CASE ResetToggle
  BY <1>3 DEF ResetToggle, Goto, HostTypeOK
<1>4. CASE AbortTransmit
  BY <1>4 DEF AbortTransmit, Goto, HostTypeOK
<1>5. CASE DispatchSetup
  BY <1>5 DEF DispatchSetup, Goto, HostTypeOK
<1>6. CASE LimitReply
  BY <1>6 DEF LimitReply, Goto, HostTypeOK
<1>7. CASE FreeRxBuf
  BY <1>7 DEF FreeRxBuf, Goto, HostTypeOK
<1>8. CASE TestTransmit
  BY <1>8 DEF TestTransmit, HostTypeOK
<1>9. CASE BuildTxBlock
  BY <1>9 DEF BuildTxBlock, Goto, HostTypeOK
<1>10. CASE SendTxBlock
  BY <1>10 DEF SendTxBlock, Goto, HostTypeOK
<1>11. CASE TestLine
  BY <1>11 DEF TestLine, HostTypeOK
<1>12. CASE ForgetAddress
  <2>1. resetPolls' \in 0 .. 2
    BY <1>12 DEF ForgetAddress, HostTypeOK, Min2
  <2> QED BY <1>12, <2>1 DEF ForgetAddress, HostTypeOK
<1>13. CASE \E r \in Requests : HostAsks(r)
  <2>1. PICK r \in Requests : HostAsks(r)
    BY <1>13
  <2>2. hostId' \in Ids
    BY <2>1, NIdsAssumption DEF HostAsks, HostTypeOK, Ids
  <2> QED BY <2>1, <2>2 DEF HostAsks, HostTypeOK, Stages
<1>14. CASE HostSetup
  <2>1. hostStage' \in Stages
    BY <1>14 DEF HostSetup, StageAfterSetup, Stages
  <2> QED BY <1>14, <2>1 DEF HostSetup, HostTypeOK
<1>15. CASE HostOut
  BY <1>15 DEF HostOut, Stages, HostTypeOK
<1>16. CASE HostIn
  <2>1. hostReq \in Requests /\ Left \in 0 .. 254 /\ usbTxBuf.len = Min2(Left, 8) /\ Expected(usbTxBuf)
        /\ usbTxBuf.pid = hostTog
    BY <1>16, NextBlock
  <2>2. CASE hostStage = "statusIn"
    BY <1>16, <2>1, <2>2 DEF HostIn, HostDone, Stages, HostTypeOK
  <2>3. CASE hostStage = "in"
    <3>1. hostGot' = hostGot + Min2(Left, 8) /\ hostStage' \in {"in", "statusOut"} /\ hostTog' = 1 - hostTog
          /\ UNCHANGED <<hostReq, hostId, se0, resetPolls>>
      BY <1>16, <2>1, <2>3 DEF HostIn
    <3>2. hostGot' \in -1 .. 254
      <4>1. Due[hostReq] \in Nat /\ Due[hostReq] <= 254
        BY <2>1, DueFits
      <4>2. Min2(Left, 8) \in Nat /\ Min2(Left, 8) <= Due[hostReq] - hostGot
        BY <2>1, PacketFits DEF Left
      <4>3. hostGot \in Int /\ hostGot >= -1
        BY DEF HostTypeOK
      <4>4. hostGot + Min2(Left, 8) \in Int /\ hostGot + Min2(Left, 8) >= -1 /\ hostGot + Min2(Left, 8) <= 254
        BY <4>1, <4>2, <4>3
      <4> QED BY <3>1, <4>4
    <3>3. hostTog' \in {0, 1}
      BY <3>1 DEF HostTypeOK
    <3> QED BY <3>1, <3>2, <3>3 DEF HostTypeOK, Stages
  <2> QED BY <1>16, <2>2, <2>3 DEF HostIn
<1>17. CASE HostInRefused
  BY <1>17 DEF HostInRefused, Heard, HostTypeOK
<1>18. CASE HostStatusOut
  BY <1>18 DEF HostStatusOut, HostDone, Stages, HostTypeOK
<1>19. CASE HostReset
  BY <1>19 DEF HostReset, HostDone, Stages, HostTypeOK
<1>20. CASE HostResetEnds
  BY <1>20 DEF HostResetEnds, HostTypeOK
<1>21. CASE UNCHANGED vars
  BY <1>21 DEF vars, usbVars, HostTypeOK
<1> QED BY <1>1, <1>2, <1>3, <1>4, <1>5, <1>6, <1>7, <1>8, <1>9, <1>10, <1>11, <1>12, <1>13,
           <1>14, <1>15, <1>16, <1>17, <1>18, <1>19, <1>20, <1>21 DEF Next, usbPoll, Host,
           Transaction

\* What is received goes to the half that is not waiting for usbPoll.
LEMMA OtherHalf ==
  ASSUME RxTypeOK, NEW p, usbRxBuf' = [usbRxBuf EXCEPT ![usbInputBufOffset] = p]
  PROVE  /\ usbInputBufOffset' = usbInputBufOffset => Pending' = Pending
         /\ usbInputBufOffset' = 1 - usbInputBufOffset => Pending' = p
<1>1. 1 - usbInputBufOffset # usbInputBufOffset /\ 1 - usbInputBufOffset \in {0, 1}
      /\ 1 - (1 - usbInputBufOffset) = usbInputBufOffset /\ usbInputBufOffset \in {0, 1}
  BY Halves DEF RxTypeOK
<1>2. usbRxBuf'[1 - usbInputBufOffset] = usbRxBuf[1 - usbInputBufOffset] /\ usbRxBuf'[usbInputBufOffset] = p
  BY <1>1 DEF RxTypeOK
<1> QED BY <1>1, <1>2 DEF Pending

\* A packet that is refused leaves the one waiting; one that is accepted waits itself.
LEMMA Received ==
  ASSUME RxTypeOK, NEW t, NEW p, handleData(t, p)
  PROVE  /\ usbRxLen # 0 => Pending' = Pending /\ UNCHANGED <<usbRxLen, usbRxToken, usbInputBufOffset>>
         /\ usbRxLen = 0 => Pending' = p /\ usbRxLen' = 11 /\ usbRxToken' = t
                            /\ usbInputBufOffset' = 1 - usbInputBufOffset
         /\ UNCHANGED <<usbTxLen, usbTxBuf, usbDeviceAddr, usbNewDeviceAddr, usbMsgPtr, usbMsgLen,
                        usbConfiguration, poll, data, usb_val>>
<1>1. usbRxBuf' = [usbRxBuf EXCEPT ![usbInputBufOffset] = IF usbRxLen = 0 THEN p ELSE Junk]
  BY DEF handleData
<1>2. CASE usbRxLen # 0
  BY <1>1, <1>2, OtherHalf DEF handleData, txVars, addrVars, mainVars, msgVars
<1>3. CASE usbRxLen = 0
  BY <1>1, <1>3, OtherHalf DEF handleData, txVars, addrVars, mainVars, msgVars
<1> QED BY <1>2, <1>3

\* The interrupt routine leaves the packet alone that usbPoll works on, and what usbPoll
\* found of the transmit buffer is so when it goes on.
LEMMA PollStep ==
  RxTypeOK /\ TxTypeOK /\ HostTypeOK /\ PollInv /\ HostInv /\ [Next]_vars => PollInv'
<1> SUFFICES ASSUME RxTypeOK, TxTypeOK, HostTypeOK, PollInv, HostInv, [Next]_vars PROVE PollInv'
  OBVIOUS
<1> USE DEF rxVars, txVars, addrVars, msgVars, mainVars, hostVars, lineVars
<1>1. CASE CallPoll
  BY <1>1 DEF CallPoll, Goto, PollInv, Past, SetupPending, Pending
<1>2. CASE PollStart
  BY <1>2 DEF PollStart, PollInv, Past, SetupPending, Pending
<1>3. CASE ResetToggle
  BY <1>3 DEF ResetToggle, Goto, PollInv, Past, SetupPending, Pending
<1>4. CASE AbortTransmit
  BY <1>4 DEF AbortTransmit, Goto, PollInv, Past, SetupPending, Pending
<1>5. CASE DispatchSetup
  BY <1>5 DEF DispatchSetup, Goto, PollInv, Past, SetupPending, Pending
<1>6. CASE LimitReply
  BY <1>6 DEF LimitReply, Goto, PollInv, Past, SetupPending, Pending
<1>7. CASE FreeRxBuf
  BY <1>7 DEF FreeRxBuf, Goto, PollInv, Past, SetupPending, Pending
<1>8. CASE TestTransmit
  BY <1>8 DEF TestTransmit, PollInv, Past, SetupPending, Pending
<1>9. CASE BuildTxBlock
  BY <1>9 DEF BuildTxBlock, Goto, PollInv, Past, SetupPending, Pending
<1>10. CASE SendTxBlock
  BY <1>10 DEF SendTxBlock, Goto, PollInv, Past, SetupPending, Pending
<1>11. CASE TestLine
  BY <1>11 DEF TestLine, PollInv, Past, SetupPending, Pending
<1>12. CASE ForgetAddress
  BY <1>12 DEF ForgetAddress, Goto, PollInv, Past, SetupPending, Pending
<1>13. CASE \E r \in Requests : HostAsks(r)
  BY <1>13 DEF HostAsks, PollInv, Past, SetupPending, Pending
<1>14. CASE HostSetup
  <2>1. handleData("SETUP", [id |-> hostId, req |-> hostReq]) /\ hostStage = "setup"
        /\ UNCHANGED <<hostReq, hostId, hostGot, hostTog, hostAddr, se0, resetPolls>>
    BY <1>14 DEF HostSetup
  <2>2. [id |-> hostId, req |-> hostReq] \in [id : Ids, req : Requests]
    BY <2>1 DEF HostInv, HostTypeOK
  <2>3. CASE usbRxLen # 0
    BY <2>1, <2>3, Received DEF PollInv, Past, SetupPending
  <2>4. CASE usbRxLen = 0
    BY <2>1, <2>2, <2>4, Received DEF PollInv, Past, SetupPending
  <2> QED BY <2>3, <2>4
<1>15. CASE HostOut
  <2>1. handleData("OUT", Junk) /\ UNCHANGED <<hostReq, hostId, hostGot, hostTog, hostAddr, se0, resetPolls>>
    BY <1>15 DEF HostOut
  <2>3. CASE usbRxLen # 0
    BY <2>1, <2>3, Received DEF PollInv, Past, SetupPending
  <2>4. CASE usbRxLen = 0
    BY <2>1, <2>4, Received DEF PollInv, Past, SetupPending
  <2> QED BY <2>3, <2>4
<1>16. CASE HostIn
  BY <1>16 DEF HostIn, handleIn, Heard, HostDone, PollInv, Past, SetupPending, Pending
<1>17. CASE HostInRefused
  <2>1. Pending' = Pending
    BY <1>17, OtherHalf DEF HostInRefused
  <2> QED BY <1>17, <2>1 DEF HostInRefused, PollInv, Past, SetupPending
<1>18. CASE HostStatusOut
  BY <1>18 DEF HostStatusOut, handleStatusOut, HostDone, PollInv, Past, SetupPending, Pending
<1>19. CASE HostReset
  BY <1>19 DEF HostReset, HostDone, PollInv, Past, SetupPending, Pending
<1>20. CASE HostResetEnds
  BY <1>20 DEF HostResetEnds, PollInv, Past, SetupPending, Pending
<1>21. CASE UNCHANGED vars
  BY <1>21 DEF vars, usbVars, PollInv, Past, SetupPending, Pending
<1> QED BY <1>1, <1>2, <1>3, <1>4, <1>5, <1>6, <1>7, <1>8, <1>9, <1>10, <1>11, <1>12, <1>13,
           <1>14, <1>15, <1>16, <1>17, <1>18, <1>19, <1>20, <1>21 DEF Next, usbPoll, Host,
           Transaction

\* The answer made is the answer to the packet.
LEMMA ReplyStep ==
  RxTypeOK /\ MainTypeOK /\ PollInv /\ ReplyInv /\ [Next]_vars => ReplyInv'
<1> SUFFICES ASSUME RxTypeOK, MainTypeOK, PollInv, ReplyInv, [Next]_vars PROVE ReplyInv'
  OBVIOUS
<1> USE DEF rxVars, txVars, addrVars, msgVars, mainVars, hostVars, lineVars
<1>1. CASE CallPoll
  BY <1>1 DEF CallPoll, Goto, ReplyInv, PollInv, Past, SetupPending, Pending
<1>2. CASE PollStart
  BY <1>2 DEF PollStart, ReplyInv, PollInv, Past, SetupPending, Pending
<1>3. CASE ResetToggle
  BY <1>3 DEF ResetToggle, Goto, ReplyInv, PollInv, Past, SetupPending, Pending
<1>4. CASE AbortTransmit
  BY <1>4 DEF AbortTransmit, Goto, ReplyInv, PollInv, Past, SetupPending, Pending
<1>5. CASE DispatchSetup
  BY <1>5 DEF DispatchSetup, Goto, ReplyInv, PollInv, Past, SetupPending, Pending
<1>6. CASE LimitReply
  <2>1. usbRxBuf[data] = Pending /\ Pending \in [id : Ids, req : Requests]
    BY <1>6 DEF LimitReply, Goto, PollInv, Pending
  <2>2. usbMsgLen' = Due[Pending.req] /\ UNCHANGED <<usbMsgPtr, usbNewDeviceAddr>> /\ Pending' = Pending
    BY <1>6, <2>1, DueFits DEF LimitReply, Pending
  <2>3. usbMsgPtr = [src |-> Reply(Pending.req).src, at |-> Reply(Pending.req).at, of |-> Pending.id]
        /\ (Pending.req.name = "SET_ADDRESS" => usbNewDeviceAddr = Pending.req.value)
    BY <1>6 DEF LimitReply, Goto, ReplyInv, Past
  <2>4. usbMsgPtr'.at + usbMsgLen' <= 254
    BY <2>1, <2>2, <2>3, DueFits
  <2> QED BY <1>6, <2>2, <2>3, <2>4 DEF LimitReply, Goto, ReplyInv, Past
<1>7. CASE FreeRxBuf
  BY <1>7 DEF FreeRxBuf, Goto, ReplyInv, PollInv, Past, SetupPending, Pending
<1>8. CASE TestTransmit
  BY <1>8 DEF TestTransmit, ReplyInv, PollInv, Past, SetupPending, Pending
<1>9. CASE BuildTxBlock
  <2>1. usbMsgLen \in 0 .. 255 /\ usbMsgPtr.at \in 0 .. 254 /\ usbMsgPtr.at + usbMsgLen <= 254
    BY <1>9 DEF BuildTxBlock, Goto, PollInv, ReplyInv, MainTypeOK, Pointers
  <2>2. usbMsgPtr'.at = usbMsgPtr.at + Min2(usbMsgLen, 8)
    BY <1>9 DEF BuildTxBlock, MainTypeOK, Pointers
  <2>3. Min2(usbMsgLen, 8) \in Nat
    BY <2>1, PacketFits
  <2>4. usbMsgLen' # USB_NO_MSG => usbMsgLen' = usbMsgLen - Min2(usbMsgLen, 8)
    BY <1>9 DEF BuildTxBlock
  <2>5. usbMsgLen' # USB_NO_MSG => usbMsgPtr'.at + usbMsgLen' <= 254
    BY <2>1, <2>2, <2>3, <2>4
  <2> QED BY <1>9, <2>5 DEF BuildTxBlock, Goto, ReplyInv, Past
<1>10. CASE SendTxBlock
  BY <1>10 DEF SendTxBlock, Goto, ReplyInv, PollInv, Past, SetupPending, Pending
<1>11. CASE TestLine
  BY <1>11 DEF TestLine, ReplyInv, PollInv, Past, SetupPending, Pending
<1>12. CASE ForgetAddress
  BY <1>12 DEF ForgetAddress, Goto, ReplyInv, PollInv, Past, SetupPending, Pending
<1>13. CASE \E r \in Requests : HostAsks(r)
  BY <1>13 DEF HostAsks, ReplyInv, PollInv, Past, SetupPending, Pending
<1>14. CASE HostSetup
  <2>1. handleData("SETUP", [id |-> hostId, req |-> hostReq]) /\ hostStage = "setup"
        /\ UNCHANGED <<hostReq, hostId, hostGot, hostTog, hostAddr, se0, resetPolls>>
    BY <1>14 DEF HostSetup
  <2>3. CASE usbRxLen # 0
    BY <2>1, <2>3, Received DEF ReplyInv, Past
  <2>4. CASE usbRxLen = 0
    BY <2>1, <2>4, Received DEF PollInv, ReplyInv, Past, SetupPending
  <2> QED BY <2>3, <2>4
<1>15. CASE HostOut
  <2>1. handleData("OUT", Junk) /\ UNCHANGED <<hostReq, hostId, hostGot, hostTog, hostAddr, se0, resetPolls>>
    BY <1>15 DEF HostOut
  <2>3. CASE usbRxLen # 0
    BY <2>1, <2>3, Received DEF ReplyInv, Past
  <2>4. CASE usbRxLen = 0
    BY <2>1, <2>4, Received DEF PollInv, ReplyInv, Past, SetupPending
  <2> QED BY <2>3, <2>4
<1>16. CASE HostIn
  BY <1>16 DEF HostIn, handleIn, Heard, HostDone, ReplyInv, PollInv, Past, SetupPending, Pending
<1>17. CASE HostInRefused
  <2>1. Pending' = Pending
    BY <1>17, OtherHalf DEF HostInRefused
  <2> QED BY <1>17, <2>1 DEF HostInRefused, ReplyInv, Past
<1>18. CASE HostStatusOut
  BY <1>18 DEF HostStatusOut, handleStatusOut, HostDone, ReplyInv, PollInv, Past, SetupPending,
     Pending
<1>19. CASE HostReset
  BY <1>19 DEF HostReset, HostDone, ReplyInv, PollInv, Past, SetupPending, Pending
<1>20. CASE HostResetEnds
  BY <1>20 DEF HostResetEnds, ReplyInv, PollInv, Past, SetupPending, Pending
<1>21. CASE UNCHANGED vars
  BY <1>21 DEF vars, usbVars, ReplyInv, PollInv, Past, SetupPending, Pending
<1> QED BY <1>1, <1>2, <1>3, <1>4, <1>5, <1>6, <1>7, <1>8, <1>9, <1>10, <1>11, <1>12, <1>13,
           <1>14, <1>15, <1>16, <1>17, <1>18, <1>19, <1>20, <1>21 DEF Next, usbPoll, Host,
           Transaction

\* A reset is over for usbPoll before it is over for the host.
LEMMA ResetStep ==
  RxTypeOK /\ TxTypeOK /\ HostTypeOK /\ PollInv /\ ResetInv /\ HostInv /\ AnswerInv /\ [Next]_vars => ResetInv'
<1> SUFFICES ASSUME RxTypeOK, TxTypeOK, HostTypeOK, PollInv, ResetInv, HostInv, AnswerInv, [Next]_vars
             PROVE  ResetInv'
  OBVIOUS
<1> USE DEF rxVars, txVars, addrVars, msgVars, mainVars, hostVars, lineVars
<1>1. CASE CallPoll
  BY <1>1 DEF CallPoll, Goto, ResetInv
<1>2. CASE PollStart
  BY <1>2 DEF PollStart, ResetInv
<1>3. CASE ResetToggle
  BY <1>3 DEF ResetToggle, Goto, ResetInv
<1>4. CASE AbortTransmit
  BY <1>4 DEF AbortTransmit, Goto, ResetInv
<1>5. CASE DispatchSetup
  BY <1>5 DEF DispatchSetup, Goto, PollInv, SetupPending, ResetInv
<1>6. CASE LimitReply
  BY <1>6 DEF LimitReply, Goto, ResetInv
<1>7. CASE FreeRxBuf
  BY <1>7 DEF FreeRxBuf, Goto, ResetInv
<1>8. CASE TestTransmit
  BY <1>8 DEF TestTransmit, ResetInv
<1>9. CASE BuildTxBlock
  BY <1>9 DEF BuildTxBlock, Goto, ResetInv
<1>10. CASE SendTxBlock
  BY <1>10 DEF SendTxBlock, Goto, ResetInv
<1>11. CASE TestLine
  BY <1>11 DEF TestLine, ResetInv
<1>12. CASE ForgetAddress
  <2>1. CASE resetPolls = 0
    BY <1>12, <2>1 DEF ForgetAddress, Goto, ResetInv, Min2
  <2>2. CASE resetPolls # 0
    <3>1. resetPolls' = 2
      BY <1>12, <2>2 DEF ForgetAddress, HostTypeOK, Min2
    <3>2. se0 => usbRxLen = 0
      BY <1>12, <2>2 DEF ForgetAddress, Goto, HostTypeOK, ResetInv
    <3>3. usbNewDeviceAddr' = 0 /\ usbDeviceAddr' = 0 /\ poll' = "out"
      BY <1>12 DEF ForgetAddress, Goto, ResetInv
    <3> QED BY <1>12, <3>1, <3>2, <3>3 DEF ForgetAddress, ResetInv
  <2> QED BY <2>1, <2>2
<1>13. CASE \E r \in Requests : HostAsks(r)
  BY <1>13 DEF HostAsks, ResetInv
<1>14. CASE HostSetup
  BY <1>14 DEF HostSetup, handleData, Heard, ResetInv
<1>15. CASE HostOut
  BY <1>15 DEF HostOut, handleData, Heard, ResetInv
<1>16. CASE HostIn
  <2>1. ~se0 /\ UNCHANGED <<poll, usbNewDeviceAddr, se0, resetPolls>>
    BY <1>16 DEF HostIn, handleIn, Heard
  <2>2. poll = "address" => hostAddr' = 0
    <3>1. hostAddr' = hostAddr \/ (hostAddr' = hostReq.value /\ hostReq.name = "SET_ADDRESS")
      BY <1>16 DEF HostIn, HostDone
    <3>2. hostReq.name = "SET_ADDRESS" => usbNewDeviceAddr = hostReq.value
      BY <1>16, NextBlock DEF Answering
    <3> QED BY <3>1, <3>2 DEF ResetInv
  <2> QED BY <2>1, <2>2 DEF ResetInv
<1>17. CASE HostInRefused
  BY <1>17 DEF HostInRefused, Heard, ResetInv
<1>18. CASE HostStatusOut
  BY <1>18 DEF HostStatusOut, handleStatusOut, HostDone, ResetInv
<1>19. CASE HostReset
  BY <1>19 DEF HostReset, HostDone, ResetInv
<1>20. CASE HostResetEnds
  BY <1>20 DEF HostResetEnds, ResetInv
<1>21. CASE UNCHANGED vars
  BY <1>21 DEF vars, usbVars, ResetInv
<1> QED BY <1>1, <1>2, <1>3, <1>4, <1>5, <1>6, <1>7, <1>8, <1>9, <1>10, <1>11, <1>12, <1>13,
           <1>14, <1>15, <1>16, <1>17, <1>18, <1>19, <1>20, <1>21 DEF Next, usbPoll, Host,
           Transaction

\* The address is changed on both sides at once.
LEMMA AddressStep ==
  RxTypeOK /\ TxTypeOK /\ HostTypeOK /\ PollInv /\ ResetInv /\ AddressInv /\ HostInv /\ AnswerInv /\ [Next]_vars => AddressInv'
<1> SUFFICES ASSUME RxTypeOK, TxTypeOK, HostTypeOK, PollInv, ResetInv, AddressInv, HostInv, AnswerInv, [Next]_vars
             PROVE  AddressInv'
  OBVIOUS
<1> USE DEF rxVars, txVars, addrVars, msgVars, mainVars, hostVars, lineVars
<1>1. CASE CallPoll
  BY <1>1 DEF CallPoll, Goto, AddressInv, AddressesAgree, SetupPending, Pending
<1>2. CASE PollStart
  BY <1>2 DEF PollStart, AddressInv, AddressesAgree, SetupPending, Pending
<1>3. CASE ResetToggle
  BY <1>3 DEF ResetToggle, Goto, AddressInv, AddressesAgree, SetupPending, Pending
<1>4. CASE AbortTransmit
  BY <1>4 DEF AbortTransmit, Goto, AddressInv, AddressesAgree, SetupPending, Pending
<1>5. CASE DispatchSetup
  <2>1. usbRxBuf[data] = Pending /\ SetupPending
    BY <1>5 DEF DispatchSetup, Goto, PollInv, Pending
  <2>2. UNCHANGED <<se0, hostReq, hostAddr, usbDeviceAddr>> /\ Pending' = Pending /\ SetupPending' = SetupPending
    BY <1>5 DEF DispatchSetup, Pending, SetupPending
  <2>3. usbNewDeviceAddr' = IF Pending.req.name = "SET_ADDRESS" THEN Pending.req.value ELSE usbNewDeviceAddr
    BY <1>5, <2>1 DEF DispatchSetup
  <2> QED BY <2>1, <2>2, <2>3 DEF AddressInv, AddressesAgree
<1>6. CASE LimitReply
  BY <1>6 DEF LimitReply, Goto, AddressInv, AddressesAgree, SetupPending, Pending
<1>7. CASE FreeRxBuf
  BY <1>7 DEF FreeRxBuf, Goto, AddressInv, AddressesAgree, SetupPending, Pending
<1>8. CASE TestTransmit
  BY <1>8 DEF TestTransmit, AddressInv, AddressesAgree, SetupPending, Pending
<1>9. CASE BuildTxBlock
  BY <1>9 DEF BuildTxBlock, Goto, AddressInv, AddressesAgree, SetupPending, Pending
<1>10. CASE SendTxBlock
  BY <1>10 DEF SendTxBlock, Goto, AddressInv, AddressesAgree, SetupPending, Pending
<1>11. CASE TestLine
  BY <1>11 DEF TestLine, AddressInv, AddressesAgree, SetupPending, Pending
<1>12. CASE ForgetAddress
  <2>1. hostAddr = 0 /\ usbDeviceAddr' = 0 /\ Pending' = Pending /\ SetupPending' = SetupPending
    BY <1>12 DEF ForgetAddress, Goto, ResetInv, Pending, SetupPending
  <2>2. UNCHANGED <<se0, hostReq, hostAddr, usbNewDeviceAddr>>
    BY <1>12 DEF ForgetAddress
  <2> QED BY <2>1, <2>2 DEF AddressInv, AddressesAgree
<1>13. CASE \E r \in Requests : HostAsks(r)
  <2>1. PICK r \in Requests : HostAsks(r)
    BY <1>13
  <2>2. ~se0 /\ hostReq.name # "SET_ADDRESS"
    BY <2>1 DEF HostAsks, HostInv, NoRequest
  <2>3. UNCHANGED <<se0, hostAddr, usbDeviceAddr, usbNewDeviceAddr>> /\ Pending' = Pending /\ SetupPending' = SetupPending
    BY <2>1 DEF HostAsks, Pending, SetupPending
  <2>4. usbNewDeviceAddr = hostAddr /\ ~(SetupPending /\ Pending.req.name = "SET_ADDRESS")
    BY <2>2 DEF AddressInv
  <2> QED BY <2>3, <2>4 DEF AddressInv, AddressesAgree
<1>14. CASE HostSetup
  <2>1. handleData("SETUP", [id |-> hostId, req |-> hostReq]) /\ hostStage = "setup"
        /\ UNCHANGED <<hostReq, hostId, hostGot, hostTog, hostAddr, se0, resetPolls>>
    BY <1>14 DEF HostSetup
  <2>3. CASE usbRxLen # 0
    <3>1. UNCHANGED <<Pending, usbDeviceAddr, usbNewDeviceAddr>> /\ SetupPending' = SetupPending
      BY <2>1, <2>3, Received DEF SetupPending
    <3> QED BY <2>1, <3>1 DEF AddressInv, AddressesAgree
  <2>4. CASE usbRxLen = 0
    <3>1. UNCHANGED <<usbDeviceAddr, usbNewDeviceAddr>> /\ Pending'.req = hostReq
      BY <2>1, <2>4, Received
    <3> QED BY <2>1, <3>1 DEF AddressInv, AddressesAgree
  <2> QED BY <2>3, <2>4
<1>15. CASE HostOut
  <2>1. handleData("OUT", Junk) /\ UNCHANGED <<hostReq, hostId, hostGot, hostTog, hostAddr, se0, resetPolls>>
    BY <1>15 DEF HostOut
  <2>3. CASE usbRxLen # 0
    <3>1. UNCHANGED <<Pending, usbDeviceAddr, usbNewDeviceAddr>> /\ SetupPending' = SetupPending
      BY <2>1, <2>3, Received DEF SetupPending
    <3> QED BY <2>1, <3>1 DEF AddressInv, AddressesAgree
  <2>4. CASE usbRxLen = 0
    <3>1. UNCHANGED <<usbDeviceAddr, usbNewDeviceAddr>> /\ ~SetupPending'
      BY <2>1, <2>4, Received DEF SetupPending
    <3> QED BY <2>1, <3>1 DEF AddressInv, AddressesAgree
  <2> QED BY <2>3, <2>4
<1>16. CASE HostIn
  <2>1. ~se0 /\ se0' = se0 /\ UNCHANGED usbNewDeviceAddr /\ usbDeviceAddr' = usbNewDeviceAddr /\ ~SetupPending'
    BY <1>16 DEF HostIn, handleIn, Heard, SetupPending
  <2>2. hostReq \in Requests /\ usbTxBuf.pid = hostTog
        /\ (hostReq.name = "SET_ADDRESS" => usbNewDeviceAddr = hostReq.value)
    BY <1>16, NextBlock DEF Answering
  <2>3. CASE hostStage = "in"
    <3>1. UNCHANGED <<hostReq, hostAddr>>
      BY <1>16, <2>2, <2>3 DEF HostIn
    <3>2. hostReq.name # "SET_ADDRESS"
      BY <2>2, <2>3, RequestAssumption DEF HostInv
    <3> QED BY <2>1, <3>1, <3>2 DEF AddressInv, AddressesAgree
  <2>4. CASE hostStage = "statusIn"
    <3>1. hostAddr' = (IF hostReq.name = "SET_ADDRESS" THEN hostReq.value ELSE hostAddr)
      BY <1>16, <2>2, <2>4 DEF HostIn
    <3>2. hostAddr' = usbNewDeviceAddr
      BY <2>1, <2>2, <3>1 DEF AddressInv
    <3> QED BY <2>1, <3>2 DEF AddressInv, AddressesAgree
  <2> QED BY <1>16, <2>3, <2>4 DEF HostIn
<1>17. CASE HostInRefused
  <2>1. Pending' = Pending
    BY <1>17, OtherHalf DEF HostInRefused
  <2>2. UNCHANGED <<se0, hostReq, hostAddr, usbDeviceAddr, usbNewDeviceAddr>> /\ SetupPending' = SetupPending
    BY <1>17 DEF HostInRefused, SetupPending
  <2> QED BY <2>1, <2>2 DEF AddressInv, AddressesAgree
<1>18. CASE HostStatusOut
  <2>1. hostReq.name # "SET_ADDRESS"
    BY <1>18, RequestAssumption DEF HostStatusOut, HostInv
  <2>2. UNCHANGED <<se0, hostAddr, usbDeviceAddr, usbNewDeviceAddr>> /\ ~SetupPending'
    BY <1>18 DEF HostStatusOut, handleStatusOut, SetupPending
  <2> QED BY <2>1, <2>2 DEF AddressInv, AddressesAgree
<1>19. CASE HostReset
  BY <1>19 DEF HostReset, HostDone, AddressInv, AddressesAgree, SetupPending, Pending
<1>20. CASE HostResetEnds
  <2>1. usbDeviceAddr = 0 /\ hostAddr = 0 /\ usbNewDeviceAddr = 0 /\ ~SetupPending
    BY <1>20 DEF HostResetEnds, ResetInv, SetupPending
  <2>2. UNCHANGED <<hostReq, hostAddr, usbDeviceAddr, usbNewDeviceAddr>> /\ SetupPending' = SetupPending
    BY <1>20 DEF HostResetEnds, SetupPending
  <2> QED BY <2>1, <2>2 DEF AddressInv, AddressesAgree
<1>21. CASE UNCHANGED vars
  BY <1>21 DEF vars, usbVars, AddressInv, AddressesAgree, SetupPending, Pending
<1> QED BY <1>1, <1>2, <1>3, <1>4, <1>5, <1>6, <1>7, <1>8, <1>9, <1>10, <1>11, <1>12, <1>13,
           <1>14, <1>15, <1>16, <1>17, <1>18, <1>19, <1>20, <1>21 DEF Next, usbPoll, Host,
           Transaction

\* The host goes from stage to stage.
LEMMA HostStep ==
  TxTypeOK /\ HostTypeOK /\ PollInv /\ HostInv /\ AnswerInv /\ [Next]_vars => HostInv'
<1> SUFFICES ASSUME TxTypeOK, HostTypeOK, PollInv, HostInv, AnswerInv, [Next]_vars PROVE HostInv'
  OBVIOUS
<1> USE DEF rxVars, txVars, addrVars, msgVars, mainVars, hostVars, lineVars
<1>1. CASE CallPoll
  BY <1>1 DEF CallPoll, Goto, HostInv
<1>2. CASE PollStart
  BY <1>2 DEF PollStart, HostInv
<1>3. CASE ResetToggle
  BY <1>3 DEF ResetToggle, Goto, HostInv
<1>4. CASE AbortTransmit
  BY <1>4 DEF AbortTransmit, Goto, HostInv
<1>5. CASE DispatchSetup
  BY <1>5 DEF DispatchSetup, Goto, HostInv
<1>6. CASE LimitReply
  BY <1>6 DEF LimitReply, Goto, HostInv
<1>7. CASE FreeRxBuf
  BY <1>7 DEF FreeRxBuf, Goto, HostInv
<1>8. CASE TestTransmit
  BY <1>8 DEF TestTransmit, HostInv
<1>9. CASE BuildTxBlock
  BY <1>9 DEF BuildTxBlock, Goto, HostInv
<1>10. CASE SendTxBlock
  BY <1>10 DEF SendTxBlock, Goto, HostInv
<1>11. CASE TestLine
  BY <1>11 DEF TestLine, HostInv
<1>12. CASE ForgetAddress
  BY <1>12 DEF ForgetAddress, Goto, HostInv
<1>13. CASE \E r \in Requests : HostAsks(r)
  BY <1>13 DEF HostAsks, HostInv
<1>14. CASE HostSetup
  <2>1. handleData("SETUP", [id |-> hostId, req |-> hostReq]) /\ hostStage = "setup"
        /\ UNCHANGED <<hostReq, hostId, hostGot, hostTog, hostAddr, se0, resetPolls>>
    BY <1>14 DEF HostSetup
  <2>2. hostStage' \in {"setup", StageAfterSetup(hostReq)}
    BY <1>14 DEF HostSetup
  <2>3. hostReq \in Requests /\ hostGot = 0 /\ hostTog = 1
    BY <2>1 DEF HostInv
  <2>4. hostReq.dir \in {"in", "out"}
    BY <2>3, RequestAssumption
  <2>5. CASE hostStage' = "setup"
    BY <2>1, <2>3, <2>5 DEF HostInv
  <2>6. CASE hostStage' = StageAfterSetup(hostReq)
    BY <2>1, <2>3, <2>4, <2>6 DEF HostInv, StageAfterSetup
  <2> QED BY <2>2, <2>5, <2>6
<1>15. CASE HostOut
  BY <1>15 DEF HostOut, handleData, Heard, HostInv
<1>16. CASE HostIn
  <2>1. hostReq \in Requests /\ Left \in 0 .. 254 /\ usbTxBuf.len = Min2(Left, 8) /\ Expected(usbTxBuf)
        /\ usbTxBuf.pid = hostTog
    BY <1>16, NextBlock
  <2>2. CASE hostStage = "statusIn"
    BY <1>16, <2>1, <2>2 DEF HostIn, HostDone, HostInv
  <2>3. CASE hostStage = "in"
    <3>1. hostGot' = hostGot + Min2(Left, 8) /\ UNCHANGED hostReq /\ hostReq.dir = "in"
          /\ hostStage' = IF Min2(Left, 8) < 8 \/ hostGot + Min2(Left, 8) >= hostReq.wLength THEN "statusOut" ELSE "in"
      BY <1>16, <2>1, <2>3 DEF HostIn, HostInv
    <3>2. PICK g \in Nat, due \in Nat, w \in Nat, n \in 0 .. 8 :
            g = hostGot /\ due = Due[hostReq] /\ w = hostReq.wLength /\ n = Min2(Left, 8)
            /\ due <= w /\ n <= due - g /\ (n < 8 => n = due - g)
      <4>1. hostGot \in Nat
        BY <2>3 DEF HostInv, HostTypeOK
      <4>2. Due[hostReq] \in Nat /\ hostReq.wLength \in Nat /\ Due[hostReq] <= hostReq.wLength
        BY SMTT(20), <2>1, DueFits, RequestAssumption
      <4>3. Min2(Left, 8) \in 0 .. 8 /\ Min2(Left, 8) <= Left /\ (Min2(Left, 8) < 8 => Min2(Left, 8) = Left)
        BY <2>1, PacketFits
      <4> QED BY <4>1, <4>2, <4>3 DEF Left
    <3>3. hostGot' >= 0 /\ (hostStage' = "statusOut" => hostGot' = Due[hostReq])
      BY <3>1, <3>2
    <3> QED BY <2>1, <3>1, <3>3 DEF HostInv
  <2> QED BY <1>16, <2>2, <2>3 DEF HostIn
<1>17. CASE HostInRefused
  BY <1>17 DEF HostInRefused, Heard, HostInv
<1>18. CASE HostStatusOut
  BY <1>18 DEF HostStatusOut, handleStatusOut, HostDone, HostInv
<1>19. CASE HostReset
  BY <1>19 DEF HostReset, HostDone, HostInv
<1>20. CASE HostResetEnds
  BY <1>20 DEF HostResetEnds, HostInv
<1>21. CASE UNCHANGED vars
  BY <1>21 DEF vars, usbVars, HostInv
<1> QED BY <1>1, <1>2, <1>3, <1>4, <1>5, <1>6, <1>7, <1>8, <1>9, <1>10, <1>11, <1>12, <1>13,
           <1>14, <1>15, <1>16, <1>17, <1>18, <1>19, <1>20, <1>21 DEF Next, usbPoll, Host,
           Transaction

\* The answer goes on when nothing of it changes.
LEMMA AnswerKept ==
  ASSUME AnswerInv, SetupPending' = SetupPending, Pending' = Pending, Ready' = Ready,
         UNCHANGED <<hostVars, usbNewDeviceAddr, usbMsgPtr, usbMsgLen, usbTxBuf>>
  PROVE  AnswerInv'
<1>1. UNCHANGED <<hostStage, hostReq, hostId, hostGot, hostTog>>
  BY DEF hostVars
<1>2. Left' = Left
  BY <1>1 DEF Left
<1>3. Answering' = Answering
  BY <1>1, <1>2 DEF Answering
<1> QED BY <1>1, <1>3 DEF AnswerInv

\* A setup packet that usbPoll works on still waits.
LEMMA PendingKept ==
  ASSUME AnswerInv, SetupPending, UNCHANGED <<usbRxBuf, usbInputBufOffset, usbRxLen, usbRxToken, hostVars>>
  PROVE  AnswerInv'
<1>1. SetupPending' /\ Pending' = Pending /\ UNCHANGED <<hostStage, hostReq, hostId, hostGot, hostTog>>
  BY DEF SetupPending, Pending, hostVars
<1> QED BY <1>1 DEF AnswerInv

\* The device goes from block to block.
LEMMA AnswerStep ==
  TypeOK /\ PollInv /\ ReplyInv /\ ResetInv /\ HostInv /\ AnswerInv /\ [Next]_vars => AnswerInv'
<1> SUFFICES ASSUME TypeOK, PollInv, ReplyInv, ResetInv, HostInv, AnswerInv, [Next]_vars PROVE AnswerInv'
  OBVIOUS
<1> USE DEF rxVars, txVars, addrVars, msgVars, mainVars, hostVars, lineVars
<1>1. CASE CallPoll
  BY <1>1 DEF CallPoll, Goto, AnswerInv, Answering, Ready, Left, SetupPending, Pending
<1>2. CASE PollStart
  BY <1>2 DEF PollStart, AnswerInv, Answering, Ready, Left, SetupPending, Pending
<1>3. CASE ResetToggle
  <2>1. SetupPending
    BY <1>3 DEF ResetToggle, Goto, PollInv
  <2> QED BY <1>3, <2>1, PendingKept DEF ResetToggle
<1>4. CASE AbortTransmit
  <2>1. SetupPending
    BY <1>4 DEF AbortTransmit, Goto, PollInv
  <2> QED BY <1>4, <2>1, PendingKept DEF AbortTransmit
<1>5. CASE DispatchSetup
  <2>1. SetupPending
    BY <1>5 DEF DispatchSetup, Goto, PollInv
  <2> QED BY <1>5, <2>1, PendingKept DEF DispatchSetup
<1>6. CASE LimitReply
  <2>1. SetupPending
    BY <1>6 DEF LimitReply, Goto, PollInv
  <2> QED BY <1>6, <2>1, PendingKept DEF LimitReply
<1>7. CASE FreeRxBuf
  <2>1. ~SetupPending' /\ UNCHANGED <<hostVars, usbTxLen, usbTxBuf, usbNewDeviceAddr, usbMsgPtr, usbMsgLen>>
        /\ poll = "free" /\ poll' = "transmit" /\ usbRxLen # 0
    BY <1>7 DEF FreeRxBuf, Goto, SetupPending, PollInv
  <2>2. UNCHANGED <<hostStage, hostReq, hostId, hostGot, hostTog>> /\ Ready' = (usbTxLen # USBPID_NAK)
        /\ Ready = (usbTxLen # USBPID_NAK)
    BY <2>1 DEF Ready
  <2>3. CASE usbRxToken = "SETUP"
    <3> SUFFICES ASSUME hostStage \in {"in", "out", "statusIn"} PROVE Answering'
      BY <2>1, <2>2 DEF AnswerInv
    <3>1. Pending = [id |-> hostId, req |-> hostReq] /\ hostGot = 0 /\ hostTog = 1
      BY <2>1, <2>3 DEF AnswerInv, SetupPending
    <3>2. usbTxBuf.pid = 0 /\ usbTxLen = USBPID_NAK
      BY <2>1, <2>3 DEF PollInv, Past
    <3>3. /\ usbMsgPtr = [src |-> Reply(hostReq).src, at |-> Reply(hostReq).at, of |-> hostId]
          /\ hostReq.name = "SET_ADDRESS" => usbNewDeviceAddr = hostReq.value
          /\ usbMsgLen = Due[hostReq]
      BY <2>1, <2>3, <3>1 DEF ReplyInv, Past
    <3>4. Due[hostReq] \in Nat /\ Reply(hostReq).at \in Nat
      BY SMTT(20), DueFits, ReplyFits DEF HostInv
    <3>5. Left' = Due[hostReq]
      BY <2>2, <3>1, <3>4 DEF Left
    <3>6. ~Ready'
      BY <2>2, <3>2
    <3>7. usbMsgPtr'.at = Reply(hostReq).at + hostGot /\ usbMsgPtr'.of = hostId
      BY <2>1, <3>1, <3>3, <3>4
    <3> QED BY <2>1, <2>2, <3>1, <3>2, <3>3, <3>4, <3>5, <3>6, <3>7 DEF Answering
  <2>4. CASE usbRxToken # "SETUP"
    <3>1. ~SetupPending /\ Left' = Left
      BY <2>2, <2>4 DEF SetupPending, Left
    <3>2. Answering' = Answering
      BY <2>1, <2>2, <3>1 DEF Answering
    <3> QED BY <2>1, <2>2, <3>1, <3>2 DEF AnswerInv
  <2> QED BY <2>3, <2>4
<1>8. CASE TestTransmit
  BY <1>8 DEF TestTransmit, AnswerInv, Answering, Ready, Left, SetupPending, Pending
<1>9. CASE BuildTxBlock
  <2>1. UNCHANGED <<hostVars, usbRxBuf, usbInputBufOffset, usbRxLen, usbRxToken, usbNewDeviceAddr>>
        /\ poll = "build" /\ poll' = "send" /\ usbTxLen = USBPID_NAK
    BY <1>9 DEF BuildTxBlock, Goto, PollInv
  <2>2. SetupPending' = SetupPending /\ Pending' = Pending /\ UNCHANGED <<hostStage, hostReq, hostId, hostGot, hostTog>>
    BY <2>1 DEF SetupPending, Pending
  <2>3. CASE SetupPending
    BY <2>2, <2>3 DEF AnswerInv
  <2>4. CASE ~SetupPending
    <3> SUFFICES ASSUME hostStage \in {"in", "out", "statusIn"} PROVE Answering'
      BY <2>2, <2>4 DEF AnswerInv
    <3>1. Answering /\ ~Ready /\ Ready'
      BY <2>1, <2>4 DEF AnswerInv, Ready
    <3>2. usbTxBuf.pid = 1 - hostTog /\ usbMsgPtr.at = Reply(hostReq).at + hostGot /\ usbMsgLen = Left
          /\ usbMsgPtr.of = hostId /\ Left >= 0 /\ (hostReq.name = "SET_ADDRESS" => usbNewDeviceAddr = hostReq.value)
      BY <3>1 DEF Answering
    <3>3. usbTxBuf' = [pid |-> 1 - usbTxBuf.pid, src |-> usbMsgPtr.src, at |-> usbMsgPtr.at, of |-> usbMsgPtr.of,
                       len |-> Min2(usbMsgLen, 8), val |-> IF usbMsgPtr.src = "usb_val" THEN usb_val ELSE Unread]
          /\ usbMsgLen' = IF Min2(usbMsgLen, 8) < 8 THEN USB_NO_MSG ELSE usbMsgLen - Min2(usbMsgLen, 8)
      BY <1>9 DEF BuildTxBlock
    <3>4. usbMsgPtr'.at = usbMsgPtr.at + Min2(usbMsgLen, 8) /\ usbMsgPtr'.of = usbMsgPtr.of
      BY <1>9 DEF BuildTxBlock, TypeOK, MainTypeOK, Pointers
    <3>5. 1 - usbTxBuf.pid = hostTog
      BY <3>2 DEF TypeOK, HostTypeOK
    <3>6. Left' = Left /\ Left \in Int
      BY <2>2, <3>2 DEF Left, TypeOK, MainTypeOK
    <3>7. usbMsgLen' = IF Left < 8 THEN USB_NO_MSG ELSE Left - 8
      BY <3>2, <3>3, <3>6 DEF Min2
    <3>8. /\ usbTxBuf'.pid = hostTog /\ usbTxBuf'.of = hostId
          /\ usbTxBuf'.at = Reply(hostReq).at + hostGot /\ usbTxBuf'.len = Min2(Left, 8)
          /\ usbMsgPtr'.at = usbTxBuf'.at + usbTxBuf'.len /\ usbMsgPtr'.of = hostId
      BY <3>2, <3>3, <3>4, <3>5
    <3> QED BY <2>1, <2>2, <3>1, <3>2, <3>6, <3>7, <3>8 DEF Answering
  <2> QED BY <2>3, <2>4
<1>10. CASE SendTxBlock
  <2>1. Ready /\ Ready'
    <3>1. usbTxBuf.len + 4 # USBPID_NAK
      BY DEF TypeOK, TxTypeOK, Blocks, USBPID_NAK
    <3> QED BY <1>10, <3>1 DEF SendTxBlock, Goto, Ready
  <2>2. SetupPending' = SetupPending /\ Pending' = Pending
    BY <1>10 DEF SendTxBlock, SetupPending, Pending
  <2>3. UNCHANGED <<hostVars, usbNewDeviceAddr, usbMsgPtr, usbMsgLen, usbTxBuf>>
    BY <1>10 DEF SendTxBlock
  <2> QED BY <2>1, <2>2, <2>3, AnswerKept
<1>11. CASE TestLine
  <2>1. CASE se0
    <3>1. hostStage' = "idle"
      BY <1>11, <2>1 DEF TestLine, ResetInv
    <3> QED BY <3>1 DEF AnswerInv
  <2>2. CASE ~se0
    <3>1. Ready' = Ready /\ SetupPending' = SetupPending /\ Pending' = Pending
      BY <1>11, <2>2 DEF TestLine, Ready, SetupPending, Pending
    <3>2. UNCHANGED <<hostVars, usbNewDeviceAddr, usbMsgPtr, usbMsgLen, usbTxBuf>>
      BY <1>11, <2>2 DEF TestLine
    <3> QED BY <3>1, <3>2, AnswerKept
  <2> QED BY <2>1, <2>2
<1>12. CASE ForgetAddress
  BY <1>12 DEF ForgetAddress, Goto, AnswerInv, Answering, Ready, Left, SetupPending, Pending
<1>13. CASE \E r \in Requests : HostAsks(r)
  BY <1>13 DEF HostAsks, AnswerInv, Answering, Ready, Left, SetupPending, Pending
<1>14. CASE HostSetup
  <2>1. handleData("SETUP", [id |-> hostId, req |-> hostReq]) /\ hostStage = "setup"
        /\ UNCHANGED <<hostReq, hostId, hostGot, hostTog, hostAddr, se0, resetPolls>>
    BY <1>14 DEF HostSetup
  <2>2. CASE usbRxLen # 0
    <3>1. hostStage' = "setup"
      BY <1>14, <2>2 DEF HostSetup
    <3> QED BY <3>1 DEF AnswerInv
  <2>3. CASE usbRxLen = 0
    <3>1. SetupPending' /\ Pending' = [id |-> hostId, req |-> hostReq]
      BY <2>1, <2>3, Received DEF TypeOK, SetupPending
    <3>2. hostGot = 0 /\ hostTog = 1
      BY <2>1 DEF HostInv
    <3> QED BY <2>1, <3>1, <3>2 DEF AnswerInv
  <2> QED BY <2>2, <2>3
<1>15. CASE HostOut
  <2>1. handleData("OUT", Junk) /\ UNCHANGED <<hostReq, hostId, hostGot, hostTog, hostAddr, se0, resetPolls>>
    BY <1>15 DEF HostOut
  <2>2. UNCHANGED <<usbNewDeviceAddr, usbMsgPtr, usbMsgLen, usbTxBuf, usbTxLen, poll>> /\ hostStage = "out"
        /\ hostStage' \in {"out", "statusIn"}
    BY <1>15, <2>1, Received DEF HostOut, TypeOK
  <2>3. Answering' = Answering
    <3>1. Ready' = Ready /\ Left' = Left
      BY <2>1, <2>2 DEF Ready, Left
    <3> QED BY <2>1, <2>2, <3>1 DEF Answering
  <2>4. CASE usbRxLen # 0
    <3>1. SetupPending' = SetupPending /\ Pending' = Pending
      BY <2>1, <2>4, Received DEF TypeOK, SetupPending
    <3> QED BY <2>1, <2>2, <2>3, <3>1 DEF AnswerInv
  <2>5. CASE usbRxLen = 0
    <3>1. ~SetupPending /\ ~SetupPending'
      BY <2>1, <2>5, Received DEF TypeOK, SetupPending
    <3> QED BY <2>2, <2>3, <3>1 DEF AnswerInv
  <2> QED BY <2>4, <2>5
<1>16. CASE HostIn
  <2>1. hostReq \in Requests /\ Answering /\ Ready /\ Left \in 0 .. 254 /\ Expected(usbTxBuf)
        /\ usbTxBuf.pid = hostTog /\ usbTxBuf.len = Min2(Left, 8)
    BY <1>16, NextBlock DEF TypeOK
  <2>2. ~SetupPending' /\ usbTxLen' = USBPID_NAK /\ poll' # "send"
        /\ UNCHANGED <<usbTxBuf, usbNewDeviceAddr, usbMsgPtr, usbMsgLen, hostId>>
    BY <1>16 DEF HostIn, handleIn, SetupPending, PollInv
  <2>3. CASE hostStage' \in {"in", "out", "statusIn"}
    <3>1. hostStage = "in" /\ hostGot' = hostGot + Min2(Left, 8) /\ hostTog' = 1 - hostTog /\ hostReq' = hostReq
          /\ ~(Min2(Left, 8) < 8)
      BY <1>16, <2>1, <2>3 DEF HostIn, HostDone
    <3>2. Left >= 8 /\ Min2(Left, 8) = 8
      BY <2>1, <3>1, PacketFits
    <3>3. usbTxBuf.at = Reply(hostReq).at + hostGot /\ usbMsgPtr.at = usbTxBuf.at + usbTxBuf.len
          /\ usbMsgLen = Left - 8 /\ usbMsgPtr.of = hostId
          /\ (hostReq.name = "SET_ADDRESS" => usbNewDeviceAddr = hostReq.value)
      BY <2>1, <3>2 DEF Answering
    <3>4. hostGot \in Int /\ hostTog \in {0, 1} /\ Reply(hostReq).at \in Int /\ Due[hostReq] \in Int
      <4>1. hostReq \in Requests
        BY <2>1
      <4>2. Due[hostReq] \in 0 .. 254
        BY <4>1, DueFits
      <4>3. Reply(hostReq).at \in 0 .. 254
        BY <4>1, ReplyFits
      <4>4. hostGot \in -1 .. 254 /\ hostTog \in {0, 1}
        BY DEF TypeOK, HostTypeOK
      <4> QED BY <4>2, <4>3, <4>4
    <3>5. Left' = Left - 8 /\ Left \in Int
      BY <3>1, <3>2, <3>4 DEF Left
    <3>6. ~Ready'
      BY <2>2 DEF Ready
    <3>7. usbMsgPtr'.at = Reply(hostReq').at + hostGot'
      BY <2>1, <2>2, <3>1, <3>2, <3>3, <3>4
    <3>8. usbTxBuf'.pid = 1 - hostTog'
      BY <2>1, <2>2, <3>1, <3>4
    <3> QED BY <2>2, <3>1, <3>2, <3>3, <3>5, <3>6, <3>7, <3>8 DEF Answering, AnswerInv
  <2>4. CASE ~(hostStage' \in {"in", "out", "statusIn"})
    BY <2>4 DEF AnswerInv
  <2> QED BY <2>3, <2>4
<1>17. CASE HostInRefused
  <2>1. Pending' = Pending
    BY <1>17, OtherHalf DEF TypeOK, HostInRefused
  <2>2. SetupPending' = SetupPending /\ Ready' = Ready
    BY <1>17 DEF HostInRefused, SetupPending, Ready
  <2>3. UNCHANGED <<hostVars, usbNewDeviceAddr, usbMsgPtr, usbMsgLen, usbTxBuf>>
    BY <1>17 DEF HostInRefused
  <2> QED BY <2>1, <2>2, <2>3, AnswerKept
<1>18. CASE HostStatusOut
  BY <1>18 DEF HostStatusOut, handleStatusOut, HostDone, AnswerInv, Answering, Ready, Left,
     SetupPending, Pending
<1>19. CASE HostReset
  BY <1>19 DEF HostReset, HostDone, AnswerInv, Answering, Ready, Left, SetupPending, Pending
<1>20. CASE HostResetEnds
  BY <1>20 DEF HostResetEnds, AnswerInv, Answering, Ready, Left, SetupPending, Pending
<1>21. CASE UNCHANGED vars
  BY <1>21 DEF vars, usbVars, AnswerInv, Answering, Ready, Left, SetupPending, Pending
<1> QED BY <1>1, <1>2, <1>3, <1>4, <1>5, <1>6, <1>7, <1>8, <1>9, <1>10, <1>11, <1>12, <1>13,
           <1>14, <1>15, <1>16, <1>17, <1>18, <1>19, <1>20, <1>21 DEF Next, usbPoll, Host,
           Transaction

\* The invariant holds after usbInit.
THEOREM InitIInv == Init => IInv
<1> SUFFICES ASSUME Init PROVE IInv
  OBVIOUS
<1> USE DEF Init, UsbInit
<1>1. RxTypeOK
  BY DEF RxTypeOK
<1>2. 0 \in Ids
  BY NIdsAssumption DEF Ids
<1>3. TxTypeOK
  <2>1. usbTxBuf \in Blocks
    BY <1>2 DEF Blocks, Sources
  <2> QED BY <2>1 DEF TxTypeOK
<1>4. AddrTypeOK
  BY DEF AddrTypeOK, Addresses
<1>5. MainTypeOK
  <2>1. usbMsgPtr \in Pointers
    BY <1>2 DEF Pointers, Sources
  <2>2. usb_val \in [{0, 1} -> Words]
    BY WordsAssumption
  <2> QED BY <2>1, <2>2 DEF MainTypeOK, PollSteps, USB_NO_MSG
<1>6. HostTypeOK
  <2>1. hostStage \in Stages /\ hostReq \in Requests \cup {NoRequest} /\ hostId \in Ids
    BY <1>2 DEF Stages
  <2>2. hostGot \in -1 .. 254 /\ hostTog \in {0, 1} /\ resetPolls \in 0 .. 2
    OBVIOUS
  <2> QED BY <2>1, <2>2 DEF HostTypeOK
<1>7. PollInv /\ ReplyInv
  BY DEF PollInv, ReplyInv, Past, SetupPending
<1>8. ResetInv /\ AddressInv
  BY DEF ResetInv, AddressInv, AddressesAgree, SetupPending
<1>9. HostInv /\ AnswerInv
  BY DEF HostInv, AnswerInv
<1> QED BY <1>1, <1>3, <1>4, <1>5, <1>6, <1>7, <1>8, <1>9 DEF IInv, TypeOK

\* The invariant is inductive.
THEOREM StepIInv == IInv /\ [Next]_vars => IInv'
<1> SUFFICES ASSUME IInv, [Next]_vars PROVE IInv'
  OBVIOUS
<1>1. TypeOK'
  BY RxTypes, TxTypes, AddrTypes, MainTypes, HostTypes DEF IInv, TypeOK
<1>2. PollInv' /\ ReplyInv'
  BY PollStep, ReplyStep DEF IInv, TypeOK
<1>3. ResetInv' /\ AddressInv'
  BY ResetStep, AddressStep DEF IInv, TypeOK
<1>4. HostInv' /\ AnswerInv'
  BY HostStep, AnswerStep DEF IInv, TypeOK
<1> QED BY <1>1, <1>2, <1>3, <1>4 DEF IInv

\* The invariant holds in every state the driver and the host reach.
LEMMA AlwaysIInv == Spec => []IInv
BY InitIInv, StepIInv, PTL DEF Spec

\* The variables keep their types; in particular usbMsgPtr never leaves its object.
THEOREM TypeCorrect == Spec => []TypeOK
<1>1. IInv => TypeOK
  BY DEF IInv
<1> QED BY AlwaysIInv, <1>1, PTL

\* The device hears the host at the address the host uses, whatever step of usbPoll a
\* change of address or a reset meets.
THEOREM AddressesAlwaysAgree == Spec => []AddressesAgree
<1>1. IInv => AddressesAgree
  BY DEF IInv, AddressInv
<1> QED BY AlwaysIInv, <1>1, PTL

\* The interrupt routine never touches the setup packet usbPoll works on.
THEOREM PacketAlwaysStays == Spec => []PacketStays
<1>1. IInv => PacketStays
  <2> SUFFICES ASSUME IInv, poll \in {"pid", "abort", "setup", "limit"}
               PROVE  usbRxLen # 0 /\ data # usbInputBufOffset /\ usbRxBuf[data] # Junk
    BY DEF PacketStays
  <2>1. SetupPending /\ usbRxLen # 0 /\ data = 1 - usbInputBufOffset
    BY DEF IInv, PollInv
  <2>2. data # usbInputBufOffset
    BY <2>1, Halves DEF IInv, TypeOK, RxTypeOK
  <2>3. usbRxBuf[data] \in [id : Ids, req : Requests]
    BY <2>1 DEF IInv, PollInv, Pending
  <2>4. usbRxBuf[data] # Junk
    BY <2>3, NoRequestAssumption DEF Junk
  <2> QED BY <2>1, <2>2, <2>4
<1> QED BY AlwaysIInv, <1>1, PTL

\* A step of the host is one of the control endpoint's service or invisible to it.
LEMMA ServiceStep == IInv /\ [Next]_vars => [Service!Next]_(Service!vars)
<1> SUFFICES ASSUME IInv, [Next]_vars PROVE [Service!Next]_(Service!vars)
  OBVIOUS
<1>1. CASE UNCHANGED <<hostReq, hostGot>>
  BY <1>1 DEF Service!vars
<1>2. CASE \E r \in Requests : HostAsks(r)
  BY <1>2 DEF HostAsks, Service!Ask, Service!Next
<1>3. CASE HostIn
  <2>1. hostReq \in Requests /\ Left \in 0 .. 254 /\ Expected(usbTxBuf) /\ usbTxBuf.pid = hostTog
        /\ usbTxBuf.len = Min2(Left, 8) /\ (hostStage = "statusIn" => Left = 0)
    BY <1>3, NextBlock DEF IInv, TypeOK
  <2>2. hostReq # NoRequest
    BY <2>1, NoRequestAssumption
  <2>3. CASE hostStage = "statusIn"
    <3>1. hostReq' = NoRequest /\ hostGot' = 0
      BY <1>3, <2>1, <2>3 DEF HostIn, HostDone
    <3> QED BY <2>1, <2>2, <2>3, <3>1 DEF Left, Service!Left, Service!Complete, Service!Next
  <2>4. CASE hostStage = "in"
    <3>1. hostReq' = hostReq /\ hostGot' = hostGot + Min2(Left, 8)
      BY <1>3, <2>1, <2>4 DEF HostIn
    <3>2. CASE Left = 0
      <4>1. hostGot' = hostGot
        BY <3>1, <3>2 DEF Min2, IInv, TypeOK, HostTypeOK
      <4> QED BY <3>1, <4>1 DEF Service!vars
    <3>3. CASE Left # 0
      <4>1. Left > 0
        BY <2>1, <3>3
      <4> QED BY <2>2, <3>1, <4>1 DEF Left, Min2, Service!Left, Service!Deliver, Service!Next
    <3> QED BY <3>2, <3>3
  <2> QED BY <1>3, <2>3, <2>4 DEF HostIn
<1>4. CASE HostStatusOut
  <2>1. hostReq \in Requests /\ hostGot = Due[hostReq] /\ hostReq' = NoRequest /\ hostGot' = 0
    BY <1>4 DEF HostStatusOut, HostDone, IInv, HostInv
  <2>2. hostReq # NoRequest /\ Due[hostReq] \in Int
    BY <2>1, NoRequestAssumption, DueFits
  <2> QED BY <2>1, <2>2 DEF Service!Left, Service!Complete, Service!Next
<1>5. CASE HostReset
  <2>1. hostReq' = NoRequest /\ hostGot' = 0
    BY <1>5 DEF HostReset, HostDone
  <2>2. CASE hostReq = NoRequest
    <3>1. hostGot = 0
      BY <2>2, NoRequestAssumption DEF IInv, HostInv
    <3> QED BY <2>1, <2>2, <3>1 DEF Service!vars
  <2>3. CASE hostReq # NoRequest
    BY <2>1, <2>3 DEF Service!GiveUp, Service!Next
  <2> QED BY <2>2, <2>3
<1>6. CASE CallPoll \/ usbPoll \/ HostSetup \/ HostOut \/ HostInRefused \/ HostResetEnds
  <2>1. UNCHANGED <<hostReq, hostGot>>
    BY <1>6 DEF hostVars, CallPoll, usbPoll, PollStart, ResetToggle, AbortTransmit, DispatchSetup,
       LimitReply,
       FreeRxBuf, TestTransmit, BuildTxBlock, SendTxBlock, TestLine, ForgetAddress, HostSetup, HostOut,
       HostInRefused, HostResetEnds
  <2> QED BY <1>1, <2>1
<1>7. CASE UNCHANGED vars
  BY <1>1, <1>7 DEF vars, usbVars, hostVars
<1> QED BY <1>2, <1>3, <1>4, <1>5, <1>6, <1>7 DEF Next, Host, Transaction

\* The driver implements the control endpoint's service: it sends the bytes due, in order
\* and of no earlier request, whenever the host gives up one for another.
THEOREM DriverDelivers == Spec => Delivers
<1>1. Init => Service!Init
  BY DEF Init, UsbInit, Service!Init
<1> QED BY <1>1, ServiceStep, AlwaysIInv, PTL DEF Spec, Delivers, Service!Spec
=============================================================================
