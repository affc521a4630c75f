------------------------------ MODULE UddControl ------------------------------
(***************************************************************************)
(* The second device's control endpoint: the USB unit of the SAMD11, the   *)
(* interrupt handler of its driver (usb.c) and the state machine of        *)
(* usb_device_udd.c.  An interrupt serves one event, the most urgent one   *)
(* pending, and transactions of the host come between any two of them.     *)
(*                                                                         *)
(* The unit is external, modelled from how the driver uses it: a SETUP is  *)
(* always accepted and clears both stalls, the packet waiting in bank 1    *)
(* and the toggles; an OUT needs bank 0 armed and an IN a packet in bank   *)
(* 1, and each is refused (NAK) and recorded as failed otherwise.  STALL   *)
(* flags only make a handler run once more and are left out.               *)
(***************************************************************************)
EXTENDS Integers

CONSTANTS
  Requests,  \* the host's requests, with what udc_process_setup makes of them
  Lossy,     \* the packets whose handshake may get lost: "setup", "in", "out"
  Late       \* may a SETUP come before the handler has served what was before?

\* An accepted IN request has something to send.  SET_ADDRESS has no data (udc.c,
\* udc_req_std_dev_set_address refuses it otherwise).
ASSUME RequestAssumption == \A r \in Requests :
  /\ r.dir \in {"in", "out"} /\ r.wLength \in Nat /\ r.size \in Nat
  /\ r.ok \in BOOLEAN /\ r.address \in Nat
  /\ r.dir = "in" /\ r.ok => r.size > 0 /\ r.wLength > 0
  /\ r.address # 0 => r.ok /\ r.dir = "out" /\ r.wLength = 0

\* What the device holds of a request is "mine" as long as the host waits for that
\* request and has not given it up for another.
VARIABLES
  hw,    \* the USB unit's registers for endpoint 0
  udd,   \* the static variables of usb_device_udd.c
  host

vars == <<hw, udd, host>>

CtrlSize  == 8   \* USB_DEVICE_EP_CTRL_SIZE
NoRequest == [name |-> "none", dir |-> "out", wLength |-> 0, size |-> 0, ok |-> FALSE, address |-> 0]
NoPacket  == [mine |-> FALSE, at |-> 0, len |-> -1]
NoSetup   == [mine |-> FALSE, req |-> NoRequest]
Garbled   == -1  \* host.got once the host has bytes that are not its answer's
Flags     == {"RXSTP", "TRCPT1", "TRCPT0", "TRFAIL1", "TRFAIL0"}
States    == {"SETUP", "DATA_OUT", "DATA_IN", "WAIT_IN_ZLP", "WAIT_OUT_ZLP", "STALL_REQ"}
Stages    == {"idle", "setup", "in", "out", "statusIn", "statusOut"}
Min2(a, b) == IF a < b THEN a ELSE b

HwType ==
  [flags : SUBSET Flags, failing : {"none", "TRFAIL1", "TRFAIL0"}, armed : BOOLEAN,
   bytes : 0 .. CtrlSize, bank1 : [mine : BOOLEAN, at : Nat, len : -1 .. CtrlSize],
   stall : SUBSET {"in", "out"}, dtgin : {0, 1}, dtgout : {0, 1}, address : Nat,
   reset : BOOLEAN, setup : [mine : BOOLEAN, req : Requests \cup {NoRequest}]]
UddType ==
  [state : States, req : Requests \cup {NoRequest}, mine : BOOLEAN, size : Nat,
   trans : Nat, prev : Nat, short : BOOLEAN]
HostType ==
  [stage : Stages, req : Requests \cup {NoRequest}, got : Nat \cup {Garbled},
   sent : Nat, tog : {0, 1}, addr : Nat, parted : SUBSET Nat]

TypeOK == hw \in HwType /\ udd \in UddType /\ host \in HostType

\* After udd_enable, udd_attach and the first bus reset.
Init ==
  /\ hw = [flags |-> {}, failing |-> "none", armed |-> TRUE, bytes |-> 0, bank1 |-> NoPacket,
           stall |-> {}, dtgin |-> 0, dtgout |-> 0, address |-> 0, reset |-> FALSE,
           setup |-> NoSetup]
  /\ udd = [state |-> "SETUP", req |-> NoRequest, mine |-> FALSE, size |-> 0, trans |-> 0,
            prev |-> 0, short |-> FALSE]
  /\ host = [stage |-> "idle", req |-> NoRequest, got |-> 0, sent |-> 0,
             tog |-> 1, addr |-> 0, parted |-> {}]

-----------------------------------------------------------------------------
(***************************************************************************)
(* usb_device_udd.c.  h and u are the registers and variables so far.      *)
(***************************************************************************)
\* Mutant: events are served in any order.
ServeAny(flag, urgent) == flag \in hw.flags /\ hw.failing = "none"

\* The event the handler serves, after its flag is cleared.
Serve(flag, urgent) == flag \in hw.flags /\ hw.flags \cap urgent = {} /\ hw.failing = "none"
Clear(h, flag)      == [h EXCEPT !.flags = @ \ {flag}]

\* Mutant: the callback of a request is not called.
CallbackNot(h, u) == h

\* udc_valid_address is the one callback with an effect on the endpoint.
Callback(h, u) == IF u.req.address # 0 THEN [h EXCEPT !.address = u.req.address] ELSE h

udd_ctrl_send_zlp_in(h, u) ==
  /\ hw' = [h EXCEPT !.armed = TRUE, !.bank1 = [mine |-> u.mine, at |-> u.trans, len |-> 0]]
  /\ udd' = [u EXCEPT !.state = "WAIT_IN_ZLP"]

\* Mutant: no empty packet after a full one.
udd_ctrl_in_sent_no_zlp(h, u) ==
  LET n == Min2(u.size - u.trans, CtrlSize) IN
  IF n = 0
  THEN hw' = [h EXCEPT !.armed = TRUE] /\ udd' = [u EXCEPT !.state = "WAIT_OUT_ZLP"]
  ELSE /\ hw' = [h EXCEPT !.bank1 = [mine |-> u.mine, at |-> u.trans, len |-> n]]
       /\ udd' = [u EXCEPT !.trans = @ + n]

\* No request of this build has an over_under_run callback.
udd_ctrl_in_sent(h, u) ==
  LET remain == u.size - u.trans
      n      == Min2(remain, CtrlSize)
      done   == u.prev + u.trans IN
  IF remain = 0 /\ (u.req.wLength = done \/ u.short)
  THEN hw' = [h EXCEPT !.armed = TRUE] /\ udd' = [u EXCEPT !.state = "WAIT_OUT_ZLP", !.prev = done]
  ELSE /\ hw' = [h EXCEPT !.bank1 = [mine |-> u.mine, at |-> u.trans, len |-> n]]
       /\ udd' = [u EXCEPT !.trans = @ + n, !.short = n < CtrlSize,
                           !.prev = IF remain = 0 THEN done ELSE @]

\* Mutant: what was received is not clipped to the room left.
udd_ctrl_out_received_whole(h, u) ==
  LET trans == u.trans + h.bytes IN
  IF h.bytes # CtrlSize \/ u.req.wLength <= u.prev + trans
  THEN udd_ctrl_send_zlp_in(h, [u EXCEPT !.trans = trans, !.size = trans])
  ELSE hw' = [h EXCEPT !.armed = TRUE] /\ udd' = [u EXCEPT !.trans = trans]

\* A full payload without a new one stalls OUT, disarms bank 0 and drops its event.
udd_ctrl_out_received(h, u) ==
  LET n     == Min2(h.bytes, u.size - u.trans)
      trans == u.trans + n IN
  IF n # CtrlSize \/ u.req.wLength <= u.prev + trans
  THEN udd_ctrl_send_zlp_in(h, [u EXCEPT !.trans = trans, !.size = trans])
  ELSE IF u.size = trans
  THEN /\ hw' = [h EXCEPT !.stall = @ \cup {"out"}, !.armed = FALSE, !.flags = @ \ {"TRCPT0"}]
       /\ udd' = [u EXCEPT !.trans = trans, !.state = "STALL_REQ"]
  ELSE hw' = [h EXCEPT !.armed = TRUE] /\ udd' = [u EXCEPT !.trans = trans]

\* A SETUP finishes a request whose status stage was not seen: its callback runs.
_usb_ep0_on_setup ==
  LET cleared == [Clear(hw, "RXSTP") EXCEPT !.setup = NoSetup]
      h == IF udd.state # "SETUP" THEN Callback(cleared, udd) ELSE cleared
      r == hw.setup.req
      u == [udd EXCEPT !.req = r, !.mine = hw.setup.mine, !.size = r.size] IN
  /\ Serve("RXSTP", {})
  /\ CASE ~r.ok ->  \* udd_ctrl_stall_data
            /\ hw' = [h EXCEPT !.stall = {"in"}]
            /\ udd' = [u EXCEPT !.state = "STALL_REQ", !.size = 0]
       [] r.ok /\ r.dir = "in" ->
            udd_ctrl_in_sent([h EXCEPT !.armed = TRUE],
                             [u EXCEPT !.state = "DATA_IN", !.prev = 0, !.trans = 0])
       [] r.ok /\ r.dir = "out" /\ r.wLength = 0 -> udd_ctrl_send_zlp_in(h, u)
       [] OTHER ->
            /\ hw' = [h EXCEPT !.armed = TRUE]
            /\ udd' = [u EXCEPT !.state = "DATA_OUT", !.prev = 0, !.trans = 0]
  /\ UNCHANGED host

_usb_ep0_on_tansfer_ok(flag, urgent) ==
  LET h == Clear(hw, flag) IN
  /\ Serve(flag, urgent)
  /\ CASE udd.state = "DATA_OUT" -> udd_ctrl_out_received(h, udd)
       [] udd.state = "DATA_IN"  -> udd_ctrl_in_sent(h, udd)
       [] OTHER -> hw' = Callback(h, udd) /\ udd' = [udd EXCEPT !.state = "SETUP"]
  /\ UNCHANGED host

\* The flag of a failed transfer is cleared, then that of a completed one is looked at.
TakeFail(flag, urgent) ==
  /\ Serve(flag, urgent)
  /\ hw' = [Clear(hw, flag) EXCEPT !.failing = flag]
  /\ UNCHANGED <<udd, host>>

udd_ctrl_underflow(h) ==
  CASE udd.state = "DATA_OUT"     -> udd_ctrl_send_zlp_in(h, udd)
    [] udd.state = "WAIT_OUT_ZLP" -> hw' = [h EXCEPT !.stall = @ \cup {"in"}] /\ UNCHANGED udd
    [] OTHER                      -> hw' = h /\ UNCHANGED udd

udd_ctrl_overflow(h) ==
  CASE udd.state = "DATA_IN"     -> hw' = h /\ udd' = [udd EXCEPT !.state = "WAIT_OUT_ZLP"]
    [] udd.state = "WAIT_IN_ZLP" -> hw' = [h EXCEPT !.stall = @ \cup {"out"}] /\ UNCHANGED udd
    [] OTHER                     -> hw' = h /\ UNCHANGED udd

_usb_ep0_on_tansfer_fail ==
  LET h    == [hw EXCEPT !.failing = "none"]
      isIn == hw.failing = "TRFAIL1" IN
  /\ hw.failing # "none"
  /\ IF (IF isIn THEN "TRCPT1" ELSE "TRCPT0") \in hw.flags THEN hw' = h /\ UNCHANGED udd
     ELSE IF isIn THEN udd_ctrl_underflow(h) ELSE udd_ctrl_overflow(h)
  /\ UNCHANGED host

\* Device events wait for those of the endpoints.
_usb_on_bus_reset ==
  /\ hw.reset /\ hw.flags = {} /\ hw.failing = "none"
  /\ hw' = [hw EXCEPT !.reset = FALSE, !.address = 0, !.armed = TRUE]
  /\ udd' = [udd EXCEPT !.state = "SETUP"]
  /\ UNCHANGED host

_usb_device_interrupt_handler ==
  \/ _usb_ep0_on_setup
  \/ _usb_ep0_on_tansfer_ok("TRCPT1", {"RXSTP"})
  \/ _usb_ep0_on_tansfer_ok("TRCPT0", {"RXSTP", "TRCPT1"})
  \/ TakeFail("TRFAIL1", {"RXSTP", "TRCPT1", "TRCPT0"})
  \/ TakeFail("TRFAIL0", {"RXSTP", "TRCPT1", "TRCPT0", "TRFAIL1"})
  \/ _usb_ep0_on_tansfer_fail
  \/ _usb_on_bus_reset

-----------------------------------------------------------------------------
(***************************************************************************)
(* The host and the transactions the USB unit answers by itself.           *)
(***************************************************************************)
Idle(h)  == [h EXCEPT !.stage = "idle", !.req = NoRequest, !.got = 0, !.sent = 0, !.tog = 1]
Heard    == ~hw.reset /\ host.addr = hw.address
Served   == hw.flags = {} /\ hw.failing = "none"

\* History: where the device may be once the host has given up a change of address that it
\* had told the device of.
GivenUp == IF host.stage = "statusIn" /\ host.req.address # 0 THEN {host.req.address} ELSE {}

\* A new request; the one before it is given up if it was not done.
HostAsks(r) ==
  /\ ~hw.reset
  /\ r.address # 0 => host.addr = 0
  /\ host' = [Idle(host) EXCEPT !.stage = "setup", !.req = r,
                !.parted = @ \cup GivenUp]
  /\ hw' = [hw EXCEPT !.setup.mine = FALSE, !.bank1.mine = FALSE]
  /\ udd' = [udd EXCEPT !.mine = FALSE]

AfterSetup(r) ==
  IF r.dir = "in" THEN "in" ELSE IF r.wLength > 0 THEN "out" ELSE "statusIn"

HostSetup ==
  /\ host.stage = "setup" /\ Heard
  /\ Served \/ (Late /\ "RXSTP" \notin hw.flags)
  /\ hw' = [hw EXCEPT !.flags = @ \cup {"RXSTP"}, !.armed = FALSE, !.bank1 = NoPacket,
                      !.stall = {}, !.dtgin = 1, !.dtgout = 1,
                      !.setup = [mine |-> TRUE, req |-> host.req]]
  /\ \/ host' = [host EXCEPT !.stage = AfterSetup(host.req)]
     \/ "setup" \in Lossy /\ UNCHANGED host
  /\ UNCHANGED udd

\* The endpoint halted, the host drops its request.
Stalled ==
  \/ host.stage \in {"in", "statusIn"} /\ "in" \in hw.stall
  \/ host.stage \in {"out", "statusOut"} /\ "out" \in hw.stall

HostStalled ==
  /\ Heard /\ Stalled
  /\ host' = Idle(host)
  /\ UNCHANGED <<hw, udd>>

\* Bank 0 takes data of the expected toggle; a packet sent again is acknowledged.
HostOut ==
  LET n    == IF host.stage = "out" THEN Min2(host.req.wLength - host.sent, CtrlSize) ELSE 0
      sent == host.sent + n IN
  /\ host.stage \in {"out", "statusOut"} /\ Heard /\ "out" \notin hw.stall /\ hw.armed
  /\ hw' = IF host.tog # hw.dtgout THEN hw
           ELSE [hw EXCEPT !.flags = @ \cup {"TRCPT0"}, !.armed = FALSE, !.bytes = n, !.dtgout = 1 - @]
  /\ \/ host' = IF host.stage = "statusOut" THEN Idle(host)
                ELSE IF sent = host.req.wLength
                THEN [host EXCEPT !.sent = sent, !.stage = "statusIn", !.tog = 1]
                ELSE [host EXCEPT !.sent = sent, !.tog = 1 - @]
     \/ "out" \in Lossy /\ UNCHANGED host
  /\ UNCHANGED udd

\* What the host makes of the packet in bank 1.
Arrives(p) ==
  IF host.tog # hw.dtgin THEN host
  ELSE IF host.stage = "statusIn"
  THEN IF ~p.mine \/ p.len # 0 THEN [host EXCEPT !.got = Garbled]
       ELSE [Idle(host) EXCEPT !.addr = IF host.req.address # 0 THEN host.req.address ELSE @]
  ELSE LET got == host.got + p.len
           end == p.len < CtrlSize \/ got = host.req.wLength IN
       [host EXCEPT !.got = IF p.mine /\ p.at = host.got THEN got ELSE Garbled,
                    !.stage = IF end THEN "statusOut" ELSE "in",
                    !.tog = IF end THEN 1 ELSE 1 - @]

\* More than was asked for is an error: the host drops its request.
Overlong == host.stage = "in" /\ host.got + hw.bank1.len > host.req.wLength

\* The device sends its packet again when it misses the handshake.  In the status stage of a
\* change of address it waits at the old one, and the host does not come back to it.
HostIn ==
  /\ host.stage \in {"in", "statusIn"} /\ Heard
  /\ "in" \notin hw.stall /\ hw.bank1 # NoPacket
  /\ IF Overlong THEN host' = Idle(host) /\ UNCHANGED hw
     ELSE \/ /\ host' = Arrives(hw.bank1)
             /\ hw' = [hw EXCEPT !.flags = @ \cup {"TRCPT1"}, !.bank1 = NoPacket, !.dtgin = 1 - @]
          \/ /\ "in" \in Lossy /\ UNCHANGED hw
             /\ host' = [Arrives(hw.bank1) EXCEPT
                           !.parted = @ \cup (IF host.req.address = 0 THEN {} ELSE {hw.address})]
  /\ UNCHANGED udd

\* Nothing to send, or no room: NAK.
HostRefused ==
  /\ Heard
  /\ \/ /\ host.stage \in {"in", "statusIn"} /\ "in" \notin hw.stall /\ hw.bank1 = NoPacket
        /\ hw' = [hw EXCEPT !.flags = @ \cup {"TRFAIL1"}]
     \/ /\ host.stage \in {"out", "statusOut"} /\ "out" \notin hw.stall /\ ~hw.armed
        /\ hw' = [hw EXCEPT !.flags = @ \cup {"TRFAIL0"}]
  /\ UNCHANGED <<udd, host>>

\* The unit clears the address, the stalls and the flags, and leaves its banks.
HostReset ==
  /\ ~hw.reset /\ hw.failing = "none"
  /\ hw' = [hw EXCEPT !.reset = TRUE, !.flags = {}, !.stall = {}, !.address = 0]
  /\ host' = [Idle(host) EXCEPT !.addr = 0, !.parted = {}]
  /\ UNCHANGED udd

Transaction == HostSetup \/ HostOut \/ HostIn \/ HostStalled
Host == (\E r \in Requests : HostAsks(r)) \/ Transaction \/ HostRefused \/ HostReset

Next == _usb_device_interrupt_handler \/ Host
Spec == Init /\ [][Next]_vars

\* Interrupts are served, and the host goes on with its request.
FairSpec == Spec /\ WF_vars(_usb_device_interrupt_handler) /\ WF_vars(Transaction)

-----------------------------------------------------------------------------
\* Device and host use the same address, but for the time between the handshake of the
\* change and the interrupt that takes the address up (udc_valid_address), and until the
\* next reset for a host that gave up the change, or lost the handshake of its end: then
\* the device is at the address given up, or still at the old one, and nowhere else.
AddressesAgree ==
  \/ hw.address = host.addr
  \/ hw.address = 0 /\ "TRCPT1" \in hw.flags /\ udd.state = "WAIT_IN_ZLP"
  \/ hw.address \in host.parted

\* "The address must be changed at the end of setup request after the handshake"
\* (udc.c, udc_req_std_dev_set_address).
AddressAfterHandshake == hw.address \in {0, host.addr}

\* The device reads and writes inside the payload a request was given, and when the
\* host ends the data of a write that fits, the device has all of it, once.
PayloadRight ==
  /\ udd.state \in {"DATA_IN", "DATA_OUT"} \/ (udd.state = "WAIT_IN_ZLP" /\ udd.req.wLength > 0)
       => udd.trans <= udd.req.size
  /\ hw.bank1.len > 0 => hw.bank1.at + hw.bank1.len <= udd.req.size
  /\ host.stage = "statusIn" /\ host.req.ok /\ host.req.wLength \in 1 .. host.req.size /\ hw.bank1 # NoPacket
       => udd.trans = host.req.wLength

\* The device took a packet of the host, whose handshake got lost.  While it leaves no
\* room, NAK is all the host gets for sending it again; in the middle of data
\* udd_ctrl_overflow takes that for too much data.
HandshakeMissed == host.stage \in {"out", "statusOut"} /\ host.tog # hw.dtgout

\* A request that is in order is not stalled while the host follows the protocol and
\* no handshake of its data is missed.
NoFalseStall ==
  /\ host.req.ok /\ (host.req.dir = "out" => host.req.wLength <= host.req.size)
  /\ ~HandshakeMissed
  => ~Stalled

\* The control endpoint keeps its promise, as that of the first device does.  A
\* request that is refused is due an answer that never comes.
Due == [r \in Requests |-> IF ~r.ok THEN 1 ELSE IF r.dir = "in" THEN Min2(r.size, r.wLength) ELSE 0]
Service == INSTANCE ControlTransfer WITH
  request <- host.req, received <- host.got, Packet <- CtrlSize
Delivers == Service!Spec

\* If the host stops giving up requests and resetting the bus, and no more handshakes
\* are lost, requests end, unless the host still looks for the device at an address where
\* it is not.  A write of more than the device takes need not: refused, its
\* data is answered with NAK as long as the host tries, for udd_ctrl_stall_data stalls
\* IN only.  Nor need one whose last handshake of an OUT packet was missed.
Lost ==
  \/ (HostSetup \/ HostOut) /\ host' = host
  \/ HostIn /\ hw' = hw /\ ~Overlong
Patient ==
  /\ <>[](host.parted = {})
  /\ <>[][/\ host.req # NoRequest => host'.req \in {host.req, NoRequest}
          /\ host'.stage = "setup" => host.stage \in {"idle", "setup"}
          /\ ~hw'.reset /\ ~Lost]_vars
TooMuch(r) == r.dir = "out" /\ r.wLength > r.size
Completes == Patient => []<>(host.req = NoRequest \/ TooMuch(host.req) \/ HandshakeMissed)
=============================================================================
