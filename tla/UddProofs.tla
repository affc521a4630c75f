------------------------------- MODULE UddProofs -------------------------------
(***************************************************************************)
(* Proofs about UddControl, for every set of requests and whatever         *)
(* handshakes of data get lost, as long as the handler has served what was *)
(* before when a SETUP comes and no handshake of a SETUP gets lost         *)
(* (Timely).  The host may give any request up, a change of address too.   *)
(***************************************************************************)
EXTENDS UddControl, TLAPS

Timely == ~Late /\ "setup" \notin Lossy

\* The host waits for the answer, and the handler has seen the SETUP.
Waits   == host.stage \in {"in", "out", "statusIn", "statusOut"}
Pending == "RXSTP" \in hw.flags
Serving == Waits /\ ~Pending

Took    == {"TRCPT1", "TRCPT0"} \cap hw.flags # {}

\* The host's stage fits the request it waits for.
StageInv ==
  /\ host.stage = "idle" <=> ~Waits /\ host.stage # "setup"
  /\ host.stage = "idle" => host.req = NoRequest /\ host.got = 0
  /\ host.stage # "idle" => host.req \in Requests
  /\ host.stage = "setup" => host.got = 0 /\ host.sent = 0 /\ host.tog = 1
  /\ host.stage \in {"in", "statusOut"} => host.req.dir = "in"
  /\ host.stage \in {"out", "statusIn"} => host.req.dir = "out" /\ host.got = 0
  /\ host.stage = "out" => host.sent < host.req.wLength
  /\ host.stage = "statusIn" => host.tog = 1
  /\ hw.reset => host.stage = "idle" /\ hw.flags = {} /\ hw.failing = "none" /\ hw.address = 0 /\ host.addr = 0

\* The unit emptied its banks for the SETUP the handler has not seen yet.
PendingInv == Pending =>
  /\ hw.failing = "none" /\ ~Took
  /\ ~hw.armed /\ hw.bank1 = NoPacket /\ hw.stall = {} /\ hw.dtgin = 1 /\ hw.dtgout = 1
  /\ hw.setup.req \in Requests /\ host.stage # "idle"
  /\ hw.setup.req.address # 0 => Waits \/ (host.addr = 0 /\ hw.setup.req.address \in host.parted)
  /\ Waits => /\ hw.setup = [mine |-> TRUE, req |-> host.req] /\ host.stage = AfterSetup(host.req)
              /\ host.got = 0 /\ host.sent = 0 /\ host.tog = 1
  /\ host.stage = "in" => "TRFAIL0" \notin hw.flags
  /\ host.stage = "out" => "TRFAIL1" \notin hw.flags

\* What the device works on is what the host waits for.  A request that was refused
\* gets neither packet nor room.
ServingInv == Serving =>
  /\ udd.mine /\ udd.req = host.req
  /\ ~host.req.ok =>
       /\ host.stage = AfterSetup(host.req) /\ host.got = 0
       /\ udd.state = "STALL_REQ" /\ hw.bank1 = NoPacket /\ ~hw.armed /\ ~Took

\* A read: the packet in bank 1 follows what the host has, or is what the host had last.
Fresh == host.tog = hw.dtgin
SentInv ==
  /\ hw.bank1.mine /\ "TRCPT1" \notin hw.flags
  /\ udd.trans = hw.bank1.at + hw.bank1.len /\ hw.bank1.at <= udd.size
  /\ hw.bank1.len = Min2(udd.size - hw.bank1.at, CtrlSize)
  /\ udd.short <=> hw.bank1.len < CtrlSize
  /\ hw.bank1.len > 0 => udd.prev = 0
  /\ Fresh => hw.bank1.at = host.got
  /\ ~Fresh => hw.bank1.len = CtrlSize /\ udd.trans = host.got
TakenInv ==
  /\ "TRCPT1" \in hw.flags /\ Fresh
  /\ udd.trans = host.got /\ ~udd.short /\ udd.prev = 0
ReadInv == Serving /\ host.req.ok /\ host.req.dir = "in" =>
  /\ "out" \notin hw.stall /\ udd.state \in {"DATA_IN", "WAIT_OUT_ZLP", "SETUP"}
  /\ host.got >= 0 /\ host.got <= udd.req.size /\ host.got <= udd.req.wLength
  /\ host.stage = "statusOut" => host.got = udd.req.size \/ host.got = udd.req.wLength
  /\ host.stage = "in" =>
       /\ udd.state = "DATA_IN" /\ "in" \notin hw.stall
       /\ "TRCPT0" \notin hw.flags /\ "TRFAIL0" \notin hw.flags /\ hw.failing # "TRFAIL0"
       /\ host.got < udd.req.wLength
       /\ hw.bank1 = NoPacket => TakenInv
       /\ hw.bank1 # NoPacket => SentInv

\* A write: IN is for the status stage only.
WriteInv == Serving /\ host.req.ok /\ host.req.dir = "out" =>
  /\ "in" \notin hw.stall /\ hw.dtgin = 1 /\ "TRCPT1" \notin hw.flags
  /\ hw.bank1 # NoPacket => hw.bank1.mine /\ hw.bank1.len = 0
  /\ udd.state \in {"DATA_OUT", "WAIT_IN_ZLP", "STALL_REQ", "SETUP"}
  /\ "TRFAIL1" \in hw.flags => host.stage = "statusIn"

\* A write that fits: the bytes the unit took of the host, whether the host knows or not,
\* are those the device has and those of the packet it has not looked at.
UnitTook ==
  IF host.stage = "statusIn" THEN host.req.wLength
  ELSE IF host.tog = hw.dtgout THEN host.sent
  ELSE host.sent + Min2(host.req.wLength - host.sent, CtrlSize)
FitsInv == Serving /\ host.req.ok /\ host.req.dir = "out" /\ host.req.wLength <= host.req.size =>
  \/ /\ udd.state = "DATA_OUT" /\ hw.bank1 = NoPacket /\ "out" \notin hw.stall /\ hw.failing # "TRFAIL1"
     /\ udd.prev = 0 /\ udd.req.wLength > 0
     /\ "TRCPT0" \in hw.flags =>
          /\ ~hw.armed /\ udd.trans + hw.bytes = UnitTook
          /\ hw.bytes = CtrlSize \/ udd.trans + hw.bytes = udd.req.wLength
     /\ "TRCPT0" \notin hw.flags => udd.trans = UnitTook /\ udd.trans < udd.req.wLength
  \/ /\ udd.state = "WAIT_IN_ZLP" /\ "TRCPT0" \notin hw.flags
     /\ UnitTook = udd.req.wLength /\ (udd.req.wLength > 0 => udd.trans = udd.req.wLength)

\* The device stays inside the payload of the request it works on.
PayloadInv ==
  /\ udd.state \in {"DATA_IN", "DATA_OUT"} => udd.size = udd.req.size /\ udd.trans <= udd.size
  /\ udd.state = "WAIT_IN_ZLP" /\ udd.req.wLength > 0 => udd.trans <= udd.req.size
  /\ hw.bank1.len > 0 => hw.bank1.at + hw.bank1.len <= udd.req.size
  /\ hw.bank1.len = -1 => hw.bank1 = NoPacket

\* The host looks for the device elsewhere, and nothing of the host is left to be served.
Deaf == hw.address # host.addr /\ hw.address \in host.parted /\ ~Took /\ ~Pending

\* The two addresses differ between the handshake of the status stage of SET_ADDRESS and the
\* interrupt for it, or the device is deaf.  SET_ADDRESS, once it was taken up, waits for its
\* handshake, was given up, or is done, and then nothing calls its callback again.
AddressInv ==
  /\ hw.address # host.addr =>
       \/ /\ hw.address = 0 /\ "TRCPT1" \in hw.flags /\ udd.state = "WAIT_IN_ZLP"
          /\ udd.req.address = host.addr
       \/ Deaf
  /\ host.req.address # 0 => host.addr = 0
  /\ udd.req.address # 0 /\ ~hw.reset =>
       \/ Deaf
       \/ udd.state = "SETUP" /\ ~Took /\ ~Serving
       \/ /\ udd.state = "WAIT_IN_ZLP" /\ hw.address = 0 /\ "TRCPT0" \notin hw.flags
          /\ \/ /\ host.stage = "statusIn" /\ host.req = udd.req /\ host.addr = 0
                /\ "TRCPT1" \notin hw.flags /\ ~Pending
             \/ ~Waits /\ host.addr = udd.req.address /\ "TRCPT1" \in hw.flags /\ ~Pending
             \/ /\ ~Serving /\ host.addr = 0 /\ udd.req.address \in host.parted
                /\ "TRCPT1" \notin hw.flags

IInv ==
  /\ TypeOK /\ StageInv /\ PendingInv /\ ServingInv
  /\ ReadInv /\ WriteInv /\ FitsInv /\ PayloadInv /\ AddressInv

-----------------------------------------------------------------------------
\* What the assumption says of the request in a register or a variable.
LEMMA RequestTypes ==
  ASSUME NEW r \in Requests \cup {NoRequest}
  PROVE  /\ r.dir \in {"in", "out"} /\ r.wLength \in Nat /\ r.size \in Nat
         /\ r.ok \in BOOLEAN /\ r.address \in Nat
         /\ r.dir = "in" /\ r.ok => r.size > 0 /\ r.wLength > 0
         /\ r.address # 0 => r.ok /\ r.dir = "out" /\ r.wLength = 0
<1>1. CASE r = NoRequest
  BY <1>1 DEF NoRequest
<1>2. CASE r \in Requests
  BY <1>2, RequestAssumption
<1> QED BY <1>1, <1>2

\* An empty bank.
LEMMA NoPacketIs ==
  ASSUME NEW m \in [mine : BOOLEAN, at : Nat, len : -1 .. CtrlSize]
  PROVE  m = NoPacket <=> ~m.mine /\ m.at = 0 /\ m.len = -1
<1>1. m = NoPacket => ~m.mine /\ m.at = 0 /\ m.len = -1
  BY DEF NoPacket
<1>2. ~m.mine /\ m.at = 0 /\ m.len = -1 => m = NoPacket
  BY DEF NoPacket, CtrlSize
<1> QED BY <1>1, <1>2

\* IInv is about nothing but the variables.
LEMMA UnchangedStep ==
  ASSUME IInv, UNCHANGED vars
  PROVE  IInv'
BY DEF vars, IInv, TypeOK, StageInv, PendingInv, ServingInv, ReadInv, WriteInv, FitsInv,
     PayloadInv, AddressInv, Deaf, Serving, Pending, Waits, Took, SentInv, TakenInv, Fresh, UnitTook

-----------------------------------------------------------------------------
(***************************************************************************)
(* The handler of a SETUP.                                                 *)
(***************************************************************************)

\* The registers and the host when the handler takes a SETUP up.
SetupReady ==
  /\ Pending /\ hw.failing = "none" /\ ~Took /\ ~hw.reset /\ hw.setup.req \in Requests
  /\ hw.address = host.addr
  /\ udd.state # "SETUP" /\ udd.req.address # 0 => host.addr = 0 /\ udd.req.address \in host.parted
  /\ ~hw.armed /\ hw.bank1 = NoPacket /\ hw.stall = {} /\ hw.dtgin = 1 /\ hw.dtgout = 1
  /\ host.stage # "idle"
  /\ Waits => /\ hw.setup.mine /\ hw.setup.req = host.req
              /\ host.got = 0 /\ host.sent = 0 /\ host.tog = 1
              /\ host.stage = "in" <=> host.req.dir = "in"
              /\ host.stage = "out" <=> host.req.dir = "out" /\ host.req.wLength > 0
              /\ host.stage # "statusOut"
  /\ hw.setup.req.address # 0 => Waits \/ (host.addr = 0 /\ hw.setup.req.address \in host.parted)
  /\ host.stage = "in" => "TRFAIL0" \notin hw.flags
  /\ host.stage = "out" => "TRFAIL1" \notin hw.flags

\* What was before can change the address only if it was a change the host gave up.
LEMMA SetupStart ==
  ASSUME IInv, _usb_ep0_on_setup
  PROVE  SetupReady
<1>1. Pending
  BY DEF _usb_ep0_on_setup, Serve, Pending
<1>2. hw.failing = "none" /\ ~Took /\ hw.setup.req \in Requests
  BY <1>1 DEF IInv, PendingInv
<1>3. ~hw.reset
  BY <1>1 DEF IInv, StageInv, Pending
<1>4. hw.address = host.addr
  BY <1>1, <1>2 DEF IInv, AddressInv, Deaf, Took
<1>5. udd.state # "SETUP" /\ udd.req.address # 0 => host.addr = 0 /\ udd.req.address \in host.parted
  BY <1>1, <1>2, <1>3 DEF IInv, AddressInv, Deaf, Serving, Took
<1>6. /\ ~hw.armed /\ hw.bank1 = NoPacket /\ hw.stall = {} /\ hw.dtgin = 1 /\ hw.dtgout = 1
      /\ host.stage # "idle"
      /\ hw.setup.req.address # 0 => Waits \/ (host.addr = 0 /\ hw.setup.req.address \in host.parted)
      /\ host.stage = "in" => "TRFAIL0" \notin hw.flags
      /\ host.stage = "out" => "TRFAIL1" \notin hw.flags
  BY <1>1 DEF IInv, PendingInv
<1>7. ASSUME Waits
      PROVE  /\ hw.setup.mine /\ hw.setup.req = host.req
             /\ host.got = 0 /\ host.sent = 0 /\ host.tog = 1
             /\ host.stage = "in" <=> host.req.dir = "in"
             /\ host.stage = "out" <=> host.req.dir = "out" /\ host.req.wLength > 0
             /\ host.stage # "statusOut"
  <2>1. hw.setup = [mine |-> TRUE, req |-> host.req] /\ host.stage = AfterSetup(host.req)
    BY <1>1, <1>7 DEF IInv, PendingInv
  <2>2. hw.setup.mine /\ hw.setup.req = host.req
    BY <2>1
  <2>3. host.got = 0 /\ host.sent = 0 /\ host.tog = 1
    BY <1>1, <1>7 DEF IInv, PendingInv
  <2>4. host.req.dir \in {"in", "out"}
    BY <2>2, <1>2, RequestAssumption
  <2> QED BY <2>1, <2>2, <2>3, <2>4 DEF AfterSetup
<1> QED BY <1>1, <1>2, <1>3, <1>4, <1>5, <1>6, <1>7 DEF SetupReady

\* The registers and the variables as the handler has them when it looks at the request:
\* the callback of the request before, if it is called, does nothing, or changes the
\* address as the host had asked before it gave that up.
SetupRegs(c) ==
  /\ c \in HwType
  /\ c.flags = hw.flags \ {"RXSTP"} /\ c.setup = NoSetup /\ c.failing = hw.failing
  /\ c.armed = hw.armed /\ c.bytes = hw.bytes /\ c.bank1 = hw.bank1 /\ c.stall = hw.stall
  /\ c.dtgin = hw.dtgin /\ c.dtgout = hw.dtgout /\ c.reset = hw.reset
  /\ c.address = hw.address \/ (c.address # host.addr /\ c.address \in host.parted)
SetupVars(u) ==
  /\ u \in UddType
  /\ u.state = udd.state /\ u.req = hw.setup.req /\ u.mine = hw.setup.mine
  /\ u.size = hw.setup.req.size /\ u.trans = udd.trans /\ u.prev = udd.prev /\ u.short = udd.short
\* The device keeps its address, or takes one up that was given up.
AddressKept == hw'.address = hw.address \/ (hw'.address # host.addr /\ hw'.address \in host.parted)
WriteStarts(c, u) ==
  hw' = [c EXCEPT !.armed = TRUE] /\ udd' = [u EXCEPT !.state = "DATA_OUT", !.prev = 0, !.trans = 0]

\* What _usb_ep0_on_setup leaves, by the kind of the request (usb_device_udd.c:883).
LEMMA SetupLooks ==
  ASSUME IInv, _usb_ep0_on_setup
  PROVE  \E c, u :
         /\ SetupRegs(c) /\ SetupVars(u) /\ host' = host
         /\ ~hw.setup.req.ok =>
              hw' = [c EXCEPT !.stall = {"in"}] /\ udd' = [u EXCEPT !.state = "STALL_REQ", !.size = 0]
         /\ hw.setup.req.ok /\ hw.setup.req.dir = "in" =>
              udd_ctrl_in_sent([c EXCEPT !.armed = TRUE], [u EXCEPT !.state = "DATA_IN", !.prev = 0, !.trans = 0])
         /\ hw.setup.req.ok /\ hw.setup.req.dir = "out" /\ hw.setup.req.wLength = 0 => udd_ctrl_send_zlp_in(c, u)
         /\ hw.setup.req.ok /\ hw.setup.req.dir = "out" /\ hw.setup.req.wLength # 0 => WriteStarts(c, u)
<1>1. hw \in HwType /\ udd \in UddType
  BY DEF IInv, TypeOK
<1>2. hw.setup.mine \in BOOLEAN /\ hw.setup.req \in Requests /\ hw.setup.req.size \in Nat
  BY <1>1, SetupStart, RequestAssumption DEF SetupReady, HwType
<1>0. PICK b : b = [Clear(hw, "RXSTP") EXCEPT !.setup = NoSetup]
  OBVIOUS
<1>3. PICK c : c = IF udd.state # "SETUP" THEN Callback(b, udd) ELSE b
  OBVIOUS
<1>4. PICK u : u = [udd EXCEPT !.req = hw.setup.req, !.mine = hw.setup.mine, !.size = hw.setup.req.size]
  OBVIOUS
<1>5. NoSetup \in [mine : BOOLEAN, req : Requests \cup {NoRequest}]
  BY DEF NoSetup
<1>6. SetupRegs(c)
  <2>1. CASE c = b
    BY <1>0, <1>1, <1>5, <2>1 DEF SetupRegs, HwType, Clear
  <2>2. CASE c # b
    <3>1. udd.state # "SETUP" /\ udd.req.address # 0 /\ c = [b EXCEPT !.address = udd.req.address]
      BY <1>3, <2>2 DEF Callback
    <3>2. udd.req.address \in Nat /\ udd.req.address # host.addr /\ udd.req.address \in host.parted
      BY <1>1, <3>1, SetupStart, RequestTypes DEF SetupReady, UddType
    <3>3. c.address = udd.req.address
      BY <1>0, <1>1, <3>1 DEF HwType, Clear
    <3>4. /\ c \in HwType
          /\ c.flags = hw.flags \ {"RXSTP"} /\ c.setup = NoSetup /\ c.failing = hw.failing
          /\ c.armed = hw.armed /\ c.bytes = hw.bytes /\ c.bank1 = hw.bank1 /\ c.stall = hw.stall
          /\ c.dtgin = hw.dtgin /\ c.dtgout = hw.dtgout /\ c.reset = hw.reset
      BY <1>0, <1>1, <1>5, <3>1, <3>2 DEF HwType, Clear
    <3> QED BY <3>2, <3>3, <3>4 DEF SetupRegs
  <2> QED BY <2>1, <2>2
<1>7. SetupVars(u)
  BY <1>1, <1>2, <1>4 DEF SetupVars, UddType
<1>8. u.req = hw.setup.req
  BY <1>7 DEF SetupVars
<1>9. (IF udd.state # "SETUP" THEN Callback(b, udd) ELSE b) = c
  BY <1>3
<1>10. host' = host
  BY DEF _usb_ep0_on_setup
<1>11. ~hw.setup.req.ok =>
         hw' = [c EXCEPT !.stall = {"in"}] /\ udd' = [u EXCEPT !.state = "STALL_REQ", !.size = 0]
  BY <1>0, <1>4, <1>8, <1>9 DEF _usb_ep0_on_setup
<1>12. hw.setup.req.ok /\ hw.setup.req.dir = "in" =>
         udd_ctrl_in_sent([c EXCEPT !.armed = TRUE], [u EXCEPT !.state = "DATA_IN", !.prev = 0, !.trans = 0])
  BY <1>0, <1>4, <1>8, <1>9 DEF _usb_ep0_on_setup
<1>13. hw.setup.req.ok /\ hw.setup.req.dir = "out" /\ hw.setup.req.wLength = 0 => udd_ctrl_send_zlp_in(c, u)
  BY <1>0, <1>4, <1>8, <1>9 DEF _usb_ep0_on_setup
<1>14. hw.setup.req.ok /\ hw.setup.req.dir = "out" /\ hw.setup.req.wLength # 0 => WriteStarts(c, u)
  BY <1>0, <1>4, <1>8, <1>9 DEF _usb_ep0_on_setup, WriteStarts
<1> QED BY <1>6, <1>7, <1>10, <1>11, <1>12, <1>13, <1>14

\* What udd_ctrl_send_zlp_in does.
ZlpSent(h, u) ==
  /\ hw' \in HwType /\ hw'.flags = h.flags /\ hw'.failing = h.failing /\ hw'.armed = TRUE
  /\ hw'.bytes = h.bytes
  /\ hw'.bank1 # NoPacket /\ hw'.bank1.mine = u.mine /\ hw'.bank1.at = u.trans /\ hw'.bank1.len = 0
  /\ hw'.stall = h.stall /\ hw'.dtgin = h.dtgin /\ hw'.dtgout = h.dtgout
  /\ hw'.address = h.address /\ hw'.reset = h.reset /\ hw'.setup = h.setup
  /\ udd' \in UddType /\ udd'.state = "WAIT_IN_ZLP" /\ udd'.req = u.req /\ udd'.mine = u.mine
  /\ udd'.size = u.size /\ udd'.trans = u.trans /\ udd'.prev = u.prev /\ udd'.short = u.short

\* udd_ctrl_send_zlp_in, field by field.
LEMMA ZlpEffect ==
  ASSUME NEW h \in HwType, NEW u \in UddType, udd_ctrl_send_zlp_in(h, u)
  PROVE  ZlpSent(h, u)
<1>1. [mine |-> u.mine, at |-> u.trans, len |-> 0] \in [mine : BOOLEAN, at : Nat, len : -1 .. CtrlSize]
  BY DEF UddType, CtrlSize
<1>2. PICK p \in [mine : BOOLEAN, at : Nat, len : -1 .. CtrlSize] : p = [mine |-> u.mine, at |-> u.trans, len |-> 0]
  BY <1>1
<1>3. hw' = [h EXCEPT !.armed = TRUE, !.bank1 = p] /\ udd' = [u EXCEPT !.state = "WAIT_IN_ZLP"]
  BY <1>2 DEF udd_ctrl_send_zlp_in
<1>4. /\ hw' \in HwType /\ hw'.flags = h.flags /\ hw'.failing = h.failing /\ hw'.armed = TRUE
      /\ hw'.bytes = h.bytes /\ hw'.bank1 = p
      /\ hw'.stall = h.stall /\ hw'.dtgin = h.dtgin /\ hw'.dtgout = h.dtgout
      /\ hw'.address = h.address /\ hw'.reset = h.reset /\ hw'.setup = h.setup
  BY <1>3 DEF HwType
<1>5. /\ udd' \in UddType /\ udd'.state = "WAIT_IN_ZLP" /\ udd'.req = u.req /\ udd'.mine = u.mine
      /\ udd'.size = u.size /\ udd'.trans = u.trans /\ udd'.prev = u.prev /\ udd'.short = u.short
  BY <1>3 DEF UddType, States
<1>6. p # NoPacket /\ p.mine = u.mine /\ p.at = u.trans /\ p.len = 0
  BY <1>2 DEF NoPacket
<1> QED BY <1>4, <1>5, <1>6 DEF ZlpSent

\* What udd_ctrl_in_sent does: the status stage is next, or one more packet.
InDone(h, u) ==
  /\ u.size = u.trans /\ (u.req.wLength = u.prev + u.trans \/ u.short)
  /\ hw' \in HwType /\ hw'.flags = h.flags /\ hw'.failing = h.failing /\ hw'.armed = TRUE
  /\ hw'.bytes = h.bytes /\ hw'.bank1 = h.bank1
  /\ hw'.stall = h.stall /\ hw'.dtgin = h.dtgin /\ hw'.dtgout = h.dtgout
  /\ hw'.address = h.address /\ hw'.reset = h.reset /\ hw'.setup = h.setup
  /\ udd' \in UddType /\ udd'.state = "WAIT_OUT_ZLP" /\ udd'.req = u.req /\ udd'.mine = u.mine
  /\ udd'.size = u.size /\ udd'.trans = u.trans /\ udd'.short = u.short
InPacket(h, u, n) ==
  /\ n \in 0 .. CtrlSize /\ n <= u.size - u.trans /\ n = Min2(u.size - u.trans, CtrlSize)
  /\ n = 0 => u.size = u.trans /\ ~u.short /\ u.req.wLength # u.prev + u.trans
  /\ hw' \in HwType /\ hw'.flags = h.flags /\ hw'.failing = h.failing /\ hw'.armed = h.armed
  /\ hw'.bytes = h.bytes
  /\ hw'.bank1 # NoPacket /\ hw'.bank1.mine = u.mine /\ hw'.bank1.at = u.trans /\ hw'.bank1.len = n
  /\ hw'.stall = h.stall /\ hw'.dtgin = h.dtgin /\ hw'.dtgout = h.dtgout
  /\ hw'.address = h.address /\ hw'.reset = h.reset /\ hw'.setup = h.setup
  /\ udd' \in UddType /\ udd'.state = u.state /\ udd'.req = u.req /\ udd'.mine = u.mine
  /\ udd'.size = u.size /\ udd'.trans = u.trans + n /\ (n > 0 => udd'.prev = u.prev)
  /\ udd'.short <=> n < CtrlSize

\* udd_ctrl_in_sent, field by field: the data is at its end, or n bytes more are sent.
LEMMA InSentEffect ==
  ASSUME NEW h \in HwType, NEW u \in UddType, u.trans <= u.size, udd_ctrl_in_sent(h, u)
  PROVE  InDone(h, u) \/ \E n \in 0 .. CtrlSize : InPacket(h, u, n)
<1>1. /\ u.size \in Nat /\ u.trans \in Nat /\ u.prev \in Nat /\ u.mine \in BOOLEAN
      /\ u.short \in BOOLEAN
  BY DEF UddType
<1>2. PICK n \in 0 .. CtrlSize : n = Min2(u.size - u.trans, CtrlSize) /\ n <= u.size - u.trans /\ (n = 0 <=> u.size = u.trans)
  BY <1>1 DEF Min2, CtrlSize
<1>3. CASE u.size = u.trans /\ (u.req.wLength = u.prev + u.trans \/ u.short)
  <2>1. hw' = [h EXCEPT !.armed = TRUE] /\ udd' = [u EXCEPT !.state = "WAIT_OUT_ZLP", !.prev = u.prev + u.trans]
    BY <1>1, <1>3 DEF udd_ctrl_in_sent
  <2>2. u.prev + u.trans \in Nat
    BY <1>1
  <2>3. /\ hw' \in HwType /\ hw'.flags = h.flags /\ hw'.failing = h.failing /\ hw'.armed = TRUE
        /\ hw'.bytes = h.bytes /\ hw'.bank1 = h.bank1
        /\ hw'.stall = h.stall /\ hw'.dtgin = h.dtgin /\ hw'.dtgout = h.dtgout
        /\ hw'.address = h.address /\ hw'.reset = h.reset /\ hw'.setup = h.setup
    BY <2>1 DEF HwType
  <2>4. /\ udd' \in UddType /\ udd'.state = "WAIT_OUT_ZLP" /\ udd'.req = u.req /\ udd'.mine = u.mine
        /\ udd'.size = u.size /\ udd'.trans = u.trans /\ udd'.short = u.short
    BY <2>1, <2>2 DEF UddType, States
  <2> QED BY <1>3, <2>3, <2>4 DEF InDone
<1>4. CASE ~(u.size = u.trans /\ (u.req.wLength = u.prev + u.trans \/ u.short))
  <2>1. PICK p \in [mine : BOOLEAN, at : Nat, len : -1 .. CtrlSize] : p = [mine |-> u.mine, at |-> u.trans, len |-> n]
    <3>1. n \in -1 .. CtrlSize
      BY <1>2 DEF CtrlSize
    <3> QED BY <1>1, <3>1
  <2>2. PICK s : s = (n < CtrlSize)
    OBVIOUS
  <2>3. PICK d \in Nat : d = IF u.size - u.trans = 0 THEN u.prev + u.trans ELSE u.prev
    BY <1>1
  <2>4. hw' = [h EXCEPT !.bank1 = p] /\ udd' = [u EXCEPT !.trans = u.trans + n, !.short = s, !.prev = d]
    <3>1. ~(u.size - u.trans = 0 /\ (u.req.wLength = u.prev + u.trans \/ u.short))
      BY <1>1, <1>4
    <3> QED BY <1>2, <2>1, <2>2, <2>3, <3>1 DEF udd_ctrl_in_sent
  <2>5. n > 0 => d = u.prev
    BY <1>1, <1>2, <2>3
  <2>6. u.trans + n \in Nat
    BY <1>1
  <2>7. /\ hw' \in HwType /\ hw'.flags = h.flags /\ hw'.failing = h.failing /\ hw'.armed = h.armed
        /\ hw'.bytes = h.bytes /\ hw'.bank1 = p
        /\ hw'.stall = h.stall /\ hw'.dtgin = h.dtgin /\ hw'.dtgout = h.dtgout
        /\ hw'.address = h.address /\ hw'.reset = h.reset /\ hw'.setup = h.setup
    BY <2>4 DEF HwType
  <2>8. /\ udd' \in UddType /\ udd'.state = u.state /\ udd'.req = u.req /\ udd'.mine = u.mine
        /\ udd'.size = u.size /\ udd'.trans = u.trans + n /\ udd'.prev = d /\ udd'.short = s
    <3>1. s \in BOOLEAN
      BY <2>2
    <3> QED BY <2>4, <2>6, <3>1 DEF UddType
  <2>9. n = 0 => u.size = u.trans /\ ~u.short /\ u.req.wLength # u.prev + u.trans
    BY <1>2, <1>4
  <2>10. p # NoPacket /\ p.mine = u.mine /\ p.at = u.trans /\ p.len = n
    BY <1>2, <2>1 DEF NoPacket
  <2> QED BY <1>2, <2>2, <2>5, <2>7, <2>8, <2>9, <2>10 DEF InPacket
<1> QED BY <1>3, <1>4

\* A request that is refused stalls IN.
LEMMA SetupRefusedStep ==
  ASSUME IInv, _usb_ep0_on_setup, ~hw.setup.req.ok
  PROVE  IInv'
<1>1. SetupReady
  BY SetupStart
<1>2. PICK c, u : SetupRegs(c) /\ SetupVars(u) /\ host' = host
      /\ hw' = [c EXCEPT !.stall = {"in"}] /\ udd' = [u EXCEPT !.state = "STALL_REQ", !.size = 0]
  BY SetupLooks, <1>1
<1>3. /\ hw' \in HwType /\ hw'.flags = hw.flags \ {"RXSTP"} /\ hw'.failing = hw.failing
      /\ hw'.armed = hw.armed /\ hw'.bytes = hw.bytes /\ hw'.bank1 = hw.bank1
      /\ hw'.stall = {"in"} /\ hw'.dtgin = hw.dtgin /\ hw'.dtgout = hw.dtgout
      /\ AddressKept /\ hw'.reset = hw.reset /\ hw'.setup = NoSetup
  BY <1>2 DEF SetupRegs, AddressKept, HwType
<1>4. /\ udd' \in UddType /\ udd'.state = "STALL_REQ" /\ udd'.req = hw.setup.req
      /\ (udd'.mine <=> hw.setup.mine) /\ udd'.size = 0 /\ udd'.trans = udd.trans
      /\ udd'.prev = udd.prev /\ udd'.short = udd.short
  BY <1>2 DEF SetupVars, UddType, States
<1>5. host' = host
  BY <1>2 DEF SetupReady, SetupRegs, SetupVars
<1>6. StageInv'
  BY <1>1, <1>3, <1>5 DEF IInv, StageInv, Waits, SetupReady
<1>7. PendingInv'
  BY <1>3 DEF IInv, PendingInv, Pending
<1>8. ServingInv'
  BY <1>1, <1>3, <1>4, <1>5 DEF IInv, ServingInv, Serving, Pending, Waits, Took, SetupReady,
       StageInv, AfterSetup
<1>9. ReadInv'
  BY <1>1, <1>5 DEF IInv, ServingInv, ReadInv, Serving, Pending, Waits, SetupReady
<1>10. WriteInv'
  BY <1>1, <1>5 DEF IInv, ServingInv, WriteInv, Serving, Pending, Waits, SetupReady
<1>11. FitsInv'
  BY <1>1, <1>5 DEF FitsInv, Serving, Pending, Waits, Took, UnitTook, SetupReady
<1>12. PayloadInv'
  BY <1>1, <1>3, <1>4 DEF PayloadInv, SetupReady, NoPacket
<1>13. AddressInv'
  BY <1>1, <1>3, <1>4, <1>5, RequestTypes DEF IInv, AddressInv, Serving, SetupReady, Deaf, AddressKept, Pending, Waits, Took
<1> QED BY <1>3, <1>4, <1>5, <1>6, <1>7, <1>8, <1>9, <1>10, <1>11, <1>12, <1>13 DEF IInv, TypeOK

\* A read has its first packet.
LEMMA SetupReadStep ==
  ASSUME IInv, _usb_ep0_on_setup, hw.setup.req.ok, hw.setup.req.dir = "in"
  PROVE  IInv'
<1>1. SetupReady
  BY SetupStart
<1>2. PICK c, u : SetupRegs(c) /\ SetupVars(u) /\ host' = host
      /\ udd_ctrl_in_sent([c EXCEPT !.armed = TRUE], [u EXCEPT !.state = "DATA_IN", !.prev = 0, !.trans = 0])
  BY SetupLooks, <1>1
<1>3. PICK h \in HwType, v \in UddType :
        /\ h = [c EXCEPT !.armed = TRUE]
        /\ v = [u EXCEPT !.state = "DATA_IN", !.prev = 0, !.trans = 0]
  BY ZenonT(40), <1>2 DEF SetupRegs, SetupVars, HwType, UddType, States
<1>4. /\ v.state = "DATA_IN" /\ v.prev = 0 /\ v.trans = 0 /\ v.req = hw.setup.req
      /\ v.mine = hw.setup.mine
      /\ v.size = hw.setup.req.size
  BY <1>2, <1>3 DEF SetupVars, UddType
<1>5. /\ h.flags = hw.flags \ {"RXSTP"} /\ h.setup = NoSetup /\ h.failing = hw.failing
      /\ h.armed = TRUE /\ h.bytes = hw.bytes /\ h.stall = hw.stall
      /\ h.dtgin = hw.dtgin /\ h.dtgout = hw.dtgout /\ h.reset = hw.reset
      /\ h.address = hw.address \/ (h.address # host.addr /\ h.address \in host.parted)
  BY <1>2, <1>3 DEF SetupRegs, HwType
<1>6. hw.setup.req.size > 0 /\ hw.setup.req.size \in Nat /\ hw.setup.req.wLength > 0
  BY <1>1, RequestAssumption DEF SetupReady
<1>7. udd_ctrl_in_sent(h, v)
  BY <1>2, <1>3
<1>8. ~InDone(h, v) /\ v.trans <= v.size
  BY <1>4, <1>6 DEF InDone
<1>9. PICK n \in 0 .. CtrlSize : InPacket(h, v, n)
  BY <1>7, <1>8, InSentEffect
<1>10. n > 0 /\ n <= hw.setup.req.size /\ n = Min2(hw.setup.req.size, CtrlSize)
  BY <1>4, <1>6, <1>9 DEF InPacket
<1>11. /\ hw' \in HwType /\ hw'.flags = hw.flags \ {"RXSTP"} /\ hw'.failing = hw.failing
      /\ hw'.armed = TRUE /\ hw'.bytes = hw.bytes /\ hw'.bank1 # NoPacket
      /\ hw'.bank1.mine = hw.setup.mine /\ hw'.bank1.at = 0 /\ hw'.bank1.len = n
      /\ hw'.stall = hw.stall /\ hw'.dtgin = hw.dtgin /\ hw'.dtgout = hw.dtgout
      /\ AddressKept /\ hw'.reset = hw.reset /\ hw'.setup = NoSetup
  BY <1>1, <1>2, <1>3, <1>4, <1>5, <1>6, <1>7, <1>8, <1>9, <1>10 DEF SetupReady, SetupRegs,
       SetupVars, InPacket, AddressKept
<1>12. /\ udd' \in UddType /\ udd'.state = "DATA_IN" /\ udd'.req = hw.setup.req
      /\ (udd'.mine <=> hw.setup.mine) /\ udd'.size = hw.setup.req.size /\ udd'.trans = n
      /\ udd'.prev = 0 /\ (udd'.short <=> n < CtrlSize)
  BY <1>4, <1>9, <1>10 DEF InPacket, InDone, IInv
<1>13. host' = host
  BY <1>2 DEF SetupReady, SetupRegs, SetupVars, InPacket, InDone
<1>14. StageInv'
  BY <1>1, <1>11, <1>13 DEF IInv, StageInv, Waits, SetupReady
<1>15. PendingInv'
  BY <1>11 DEF IInv, PendingInv, Pending
<1>16. ServingInv'
  BY <1>1, <1>2, <1>3, <1>4, <1>5, <1>6, <1>7, <1>8, <1>9, <1>10, <1>11, <1>12, <1>13,
       RequestTypes DEF IInv, TypeOK, ServingInv, Serving, Pending, Waits, Took, SetupReady,
       StageInv, AfterSetup, NoPacket, HwType, UddType, HostType
<1>17. ReadInv'
  BY <1>1, <1>2, <1>3, <1>4, <1>5, <1>6, <1>7, <1>8, <1>9, <1>10, <1>11, <1>12, <1>13,
       RequestTypes DEF IInv, TypeOK, ServingInv, ReadInv, Serving, Pending, Waits, Took,
       TakenInv, SentInv, Fresh, Min2, CtrlSize, SetupReady, StageInv, AfterSetup, NoPacket,
       HwType, UddType, HostType
<1>18. WriteInv'
  BY <1>1, <1>13 DEF IInv, ServingInv, WriteInv, Serving, Pending, Waits, SetupReady
<1>19. FitsInv'
  BY <1>1, <1>13 DEF FitsInv, Serving, Pending, Waits, Took, UnitTook, SetupReady
<1>20. PayloadInv'
  BY <1>10, <1>11, <1>12 DEF PayloadInv
<1>21. AddressInv'
  BY <1>1, <1>2, <1>3, <1>4, <1>5, <1>6, <1>7, <1>8, <1>9, <1>10, <1>11, <1>12, <1>13,
       RequestTypes DEF IInv, TypeOK, AddressInv, Serving, Pending, Waits, Took, SetupReady,
       StageInv, AfterSetup, NoPacket, HwType, UddType, HostType, Deaf, AddressKept
<1> QED BY <1>11, <1>12, <1>13, <1>14, <1>15, <1>16, <1>17, <1>18, <1>19, <1>20, <1>21 DEF IInv,
     TypeOK

\* A request without data is at its status stage.
LEMMA SetupNoDataStep ==
  ASSUME IInv, _usb_ep0_on_setup, hw.setup.req.ok, hw.setup.req.dir = "out",
         hw.setup.req.wLength = 0
  PROVE  IInv'
<1>1. SetupReady
  BY SetupStart
<1>2. PICK c, u : SetupRegs(c) /\ SetupVars(u) /\ host' = host
      /\ udd_ctrl_send_zlp_in(c, u)
  BY SetupLooks, <1>1
<1>3. ZlpSent(c, u)
  BY <1>2, ZlpEffect DEF SetupRegs, SetupVars
<1>4. /\ hw' \in HwType /\ hw'.flags = hw.flags \ {"RXSTP"} /\ hw'.failing = hw.failing
      /\ hw'.armed = TRUE /\ hw'.bytes = hw.bytes /\ hw'.bank1 # NoPacket
      /\ hw'.bank1.mine = hw.setup.mine /\ hw'.bank1.at = udd.trans /\ hw'.bank1.len = 0
      /\ hw'.stall = hw.stall /\ hw'.dtgin = hw.dtgin /\ hw'.dtgout = hw.dtgout
      /\ AddressKept /\ hw'.reset = hw.reset /\ hw'.setup = NoSetup
  BY <1>1, <1>2, <1>3 DEF SetupReady, SetupRegs, SetupVars, ZlpSent, AddressKept
<1>5. /\ udd' \in UddType /\ udd'.state = "WAIT_IN_ZLP" /\ udd'.req = hw.setup.req
      /\ (udd'.mine <=> hw.setup.mine) /\ udd'.size = hw.setup.req.size
      /\ udd'.trans = udd.trans /\ udd'.prev = udd.prev /\ udd'.short = udd.short
  BY <1>1, <1>2, <1>3 DEF SetupReady, SetupRegs, SetupVars, ZlpSent
<1>6. host' = host
  BY <1>2 DEF SetupReady, SetupRegs, SetupVars, ZlpSent
<1>7. StageInv'
  BY <1>1, <1>4, <1>6 DEF IInv, StageInv, Waits, SetupReady
<1>8. PendingInv'
  BY <1>4 DEF IInv, PendingInv, Pending
<1>9. ServingInv'
  BY <1>1, <1>5, <1>6 DEF IInv, ServingInv, Serving, Pending, Waits, Took, SetupReady
<1>10. ReadInv'
  BY <1>1, <1>6 DEF IInv, ServingInv, ReadInv, Serving, Pending, Waits, SetupReady
<1>11. WriteInv'
  BY <1>1, <1>4, <1>5, <1>6 DEF IInv, ServingInv, WriteInv, Serving, Pending, Waits, Took,
       SetupReady
<1>12. FitsInv'
  BY <1>1, <1>4, <1>5, <1>6 DEF FitsInv, Serving, Pending, Waits, Took, UnitTook, SetupReady
<1>13. PayloadInv'
  BY <1>4, <1>5 DEF PayloadInv
<1>14. AddressInv'
  BY <1>1, <1>4, <1>5, <1>6 DEF IInv, AddressInv, Serving, Pending, Waits, Took, SetupReady, Deaf, AddressKept
<1> QED BY <1>4, <1>5, <1>6, <1>7, <1>8, <1>9, <1>10, <1>11, <1>12, <1>13, <1>14 DEF IInv,
     TypeOK

\* A write has room for its first packet.
LEMMA SetupWriteStep ==
  ASSUME IInv, _usb_ep0_on_setup, hw.setup.req.ok, hw.setup.req.dir = "out",
         hw.setup.req.wLength # 0
  PROVE  IInv'
<1>1. SetupReady
  BY SetupStart
<1>2. PICK c, u : SetupRegs(c) /\ SetupVars(u) /\ host' = host
      /\ WriteStarts(c, u)
  BY SetupLooks, <1>1
<1>3. /\ hw' \in HwType /\ hw'.flags = hw.flags \ {"RXSTP"} /\ hw'.failing = hw.failing
      /\ hw'.armed = TRUE /\ hw'.bytes = hw.bytes /\ hw'.bank1 = hw.bank1
      /\ hw'.stall = hw.stall /\ hw'.dtgin = hw.dtgin /\ hw'.dtgout = hw.dtgout
      /\ AddressKept /\ hw'.reset = hw.reset /\ hw'.setup = NoSetup
  BY <1>1, <1>2 DEF SetupReady, SetupRegs, SetupVars, WriteStarts, AddressKept, HwType
<1>4. /\ udd' \in UddType /\ udd'.state = "DATA_OUT" /\ udd'.req = hw.setup.req
      /\ (udd'.mine <=> hw.setup.mine) /\ udd'.size = hw.setup.req.size /\ udd'.trans = 0
      /\ udd'.prev = 0 /\ udd'.short = udd.short
  BY <1>1, <1>2 DEF SetupReady, SetupRegs, SetupVars, WriteStarts, IInv, TypeOK, UddType, States
<1>5. host' = host
  BY <1>2 DEF SetupReady, SetupRegs, SetupVars, WriteStarts
<1>6. StageInv'
  BY <1>1, <1>3, <1>5 DEF IInv, StageInv, Waits, SetupReady
<1>7. PendingInv'
  BY <1>3 DEF IInv, PendingInv, Pending
<1>8. ServingInv'
  BY <1>1, <1>4, <1>5 DEF IInv, ServingInv, Serving, Pending, Waits, Took, SetupReady
<1>9. ReadInv'
  BY <1>1, <1>5 DEF IInv, ServingInv, ReadInv, Serving, Pending, Waits, SetupReady
<1>10. WriteInv'
  BY <1>1, <1>3, <1>4, <1>5 DEF IInv, ServingInv, WriteInv, Serving, Pending, Waits, Took,
       SetupReady
<1>11. FitsInv'
  BY <1>1, <1>3, <1>4, <1>5, RequestTypes DEF FitsInv, Serving, Pending, Waits, Took, UnitTook,
       SetupReady
<1>12. PayloadInv'
  BY <1>1, <1>3, <1>4, RequestTypes DEF PayloadInv, SetupReady, NoPacket
<1>13. AddressInv'
  BY <1>1, <1>3, <1>4, <1>5, RequestTypes DEF IInv, AddressInv, Serving, SetupReady, Deaf, AddressKept, Pending, Waits, Took
<1> QED BY <1>3, <1>4, <1>5, <1>6, <1>7, <1>8, <1>9, <1>10, <1>11, <1>12, <1>13 DEF IInv, TypeOK

-----------------------------------------------------------------------------

\* The flag of a failed transfer moves from the register to the handler.
LEMMA TakeFailStep ==
  ASSUME IInv, NEW flag \in {"TRFAIL1", "TRFAIL0"}, NEW urgent,
         {"RXSTP", "TRCPT1", "TRCPT0"} \subseteq urgent, TakeFail(flag, urgent)
  PROVE  IInv'
<1>1. flag \in hw.flags /\ ~Pending /\ ~Took
  BY DEF TakeFail, Serve, Pending, Took
<1>2. /\ hw' \in HwType /\ hw'.flags = hw.flags \ {flag} /\ hw'.failing = flag
      /\ hw'.armed = hw.armed /\ hw'.bytes = hw.bytes /\ hw'.bank1 = hw.bank1
      /\ hw'.stall = hw.stall /\ hw'.dtgin = hw.dtgin /\ hw'.dtgout = hw.dtgout
      /\ hw'.address = hw.address /\ hw'.reset = hw.reset /\ hw'.setup = hw.setup
  BY <1>1 DEF TakeFail, Serve, Clear, IInv, TypeOK, HwType, Flags
<1>3. udd' = udd
  BY DEF TakeFail, Serve, Clear
<1>4. host' = host
  BY DEF TakeFail, Serve, Clear
<1>5. StageInv'
  BY <1>1, <1>2, <1>3, <1>4 DEF IInv, TypeOK, StageInv, Waits, HwType, UddType, HostType
<1>6. PendingInv'
  BY <1>1, <1>2, <1>3, <1>4 DEF IInv, TypeOK, PendingInv, Pending, Took, Waits, HwType, UddType,
       HostType
<1>7. ServingInv'
  BY <1>2, <1>3, <1>4 DEF IInv, ServingInv, Serving, Pending, Waits, Took
<1>8. ReadInv'
  BY <1>1, <1>2, <1>3, <1>4 DEF IInv, ServingInv, ReadInv, Serving, Pending, Waits, Took,
       TakenInv, SentInv, Fresh, Min2, CtrlSize
<1>9. WriteInv'
  BY <1>2, <1>3, <1>4 DEF IInv, ServingInv, WriteInv, Serving, Pending, Waits
<1>10. FitsInv'
  BY <1>1, <1>2, <1>3, <1>4, RequestTypes DEF IInv, TypeOK, ServingInv, WriteInv, FitsInv,
       Serving, Pending, Waits, Took, UnitTook, HostType
<1>11. PayloadInv'
  BY <1>1, <1>2, <1>3, <1>4 DEF IInv, TypeOK, PayloadInv, HwType, UddType, HostType
<1>12. AddressInv'
  BY <1>2, <1>3, <1>4 DEF IInv, AddressInv, Serving, Pending, Waits, Took, Deaf
<1> QED BY <1>2, <1>3, <1>4, <1>5, <1>6, <1>7, <1>8, <1>9, <1>10, <1>11, <1>12 DEF IInv, TypeOK

\* A new request of the host: what the device and the unit hold is of the one before.
LEMMA HostAsksStep ==
  ASSUME IInv, NEW r \in Requests, HostAsks(r)
  PROVE  IInv'
<1>1. ~hw.reset /\ (r.address # 0 => host.addr = 0)
  BY DEF HostAsks
<1>0. GivenUp \in SUBSET Nat
  <2>1. host.req.address \in Nat
    BY RequestTypes DEF IInv, TypeOK, HostType
  <2> QED BY <2>1 DEF GivenUp
<1>2. hw'.bank1 = [hw.bank1 EXCEPT !.mine = FALSE] /\ hw'.setup = [hw.setup EXCEPT !.mine = FALSE]
  BY DEF HostAsks, IInv, TypeOK, HwType
<1>3. /\ hw'.bank1 \in [mine : BOOLEAN, at : Nat, len : -1 .. CtrlSize]
      /\ ~hw'.bank1.mine /\ hw'.bank1.at = hw.bank1.at /\ hw'.bank1.len = hw.bank1.len
      /\ hw'.setup.req = hw.setup.req
  BY <1>2 DEF IInv, TypeOK, HwType
<1>4. hw.bank1 = NoPacket => hw'.bank1 = NoPacket
  BY <1>3, NoPacketIs DEF IInv, TypeOK, HwType
<1>5. /\ hw' \in HwType /\ hw'.flags = hw.flags /\ hw'.failing = hw.failing
      /\ hw'.armed = hw.armed /\ hw'.bytes = hw.bytes /\ hw'.stall = hw.stall
      /\ hw'.dtgin = hw.dtgin /\ hw'.dtgout = hw.dtgout /\ hw'.address = hw.address
      /\ hw'.reset = hw.reset
  BY <1>1, <1>2, <1>3, <1>4 DEF HostAsks, Idle, IInv, TypeOK, HwType, Flags
<1>6. /\ udd' \in UddType /\ udd'.state = udd.state /\ udd'.req = udd.req /\ udd'.mine = FALSE
      /\ udd'.size = udd.size /\ udd'.trans = udd.trans /\ udd'.prev = udd.prev
      /\ udd'.short = udd.short
  BY <1>1, <1>2, <1>3, <1>4 DEF HostAsks, Idle, IInv, TypeOK, UddType, States
<1>7. /\ host' \in HostType /\ host'.stage = "setup" /\ host'.req = r /\ host'.got = 0
      /\ host'.sent = 0 /\ host'.tog = 1 /\ host'.addr = host.addr
      /\ host'.parted = host.parted \cup GivenUp
  BY <1>0 DEF HostAsks, Idle, IInv, TypeOK, HostType, Stages, Garbled
<1>8. StageInv'
  BY <1>1, <1>5, <1>7 DEF StageInv
<1>9. PendingInv'
  <2>1. ASSUME Pending, hw.setup.req.address # 0
        PROVE  host.addr = 0 /\ hw.setup.req.address \in host'.parted
    <3>1. CASE Waits
      <4>1. hw.setup.req = host.req /\ host.stage = AfterSetup(host.req) /\ host.req \in Requests
        BY <2>1, <3>1 DEF IInv, PendingInv
      <4>2. host.stage = "statusIn"
        BY <2>1, <4>1, RequestTypes DEF AfterSetup
      <4> QED BY <1>7, <2>1, <4>1, <4>2 DEF IInv, AddressInv, GivenUp
    <3>2. CASE ~Waits
      BY <1>7, <2>1, <3>2 DEF IInv, PendingInv
    <3> QED BY <3>1, <3>2
  <2> QED BY <1>1, <1>3, <1>4, <1>5, <1>7, <2>1 DEF IInv, PendingInv, Pending, Took, Waits
<1>10. ServingInv'
  BY <1>7 DEF IInv, ServingInv, Serving, Pending, Waits, Took
<1>11. ReadInv'
  BY <1>7 DEF IInv, ServingInv, ReadInv, Serving, Pending, Waits
<1>12. WriteInv'
  BY <1>7 DEF IInv, ServingInv, WriteInv, Serving, Pending, Waits
<1>13. FitsInv'
  BY <1>7 DEF FitsInv, Serving, Pending, Waits, Took, UnitTook
<1>14. PayloadInv'
  BY <1>1, <1>2, <1>3, <1>4, <1>5, <1>6, <1>7 DEF IInv, TypeOK, PayloadInv, HwType, UddType,
       HostType
<1>15. AddressInv'
  BY <1>1, <1>5, <1>6, <1>7 DEF IInv, AddressInv, Serving, Pending, Waits, Took, Deaf, GivenUp
<1> QED BY <1>5, <1>6, <1>7, <1>8, <1>9, <1>10, <1>11, <1>12, <1>13, <1>14, <1>15 DEF IInv,
     TypeOK

-----------------------------------------------------------------------------
(***************************************************************************)
(* The handler of a completed transfer.                                    *)
(***************************************************************************)

\* The registers once the flag the handler serves is cleared.
Cleared(h, flag) ==
  /\ h \in HwType
  /\ h.flags = hw.flags \ {flag} /\ h.failing = hw.failing
  /\ h.armed = hw.armed /\ h.bytes = hw.bytes /\ h.bank1 = hw.bank1 /\ h.stall = hw.stall
  /\ h.dtgin = hw.dtgin /\ h.dtgout = hw.dtgout /\ h.address = hw.address /\ h.reset = hw.reset
  /\ h.setup = hw.setup

\* A transfer that ends is looked at when no SETUP waits, one of OUT when none of IN does.
Urgent(flag, urgent) == "RXSTP" \in urgent /\ (flag = "TRCPT0" => "TRCPT1" \in urgent)

\* What holds when the handler looks at a transfer that ended.
LEMMA TransferStart ==
  ASSUME IInv, NEW flag \in {"TRCPT1", "TRCPT0"}, NEW urgent, Urgent(flag, urgent),
         _usb_ep0_on_tansfer_ok(flag, urgent)
  PROVE  /\ flag \in hw.flags /\ ~Pending /\ hw.failing = "none" /\ ~hw.reset
         /\ flag = "TRCPT0" => "TRCPT1" \notin hw.flags
<1>1. flag \in hw.flags /\ hw.flags \cap urgent = {} /\ hw.failing = "none"
  BY DEF _usb_ep0_on_tansfer_ok, Serve
<1>2. ~Pending /\ (flag = "TRCPT0" => "TRCPT1" \notin hw.flags)
  BY <1>1 DEF Urgent, Pending
<1>3. ~hw.reset
  BY <1>1 DEF IInv, StageInv
<1> QED BY <1>1, <1>2, <1>3

\* What it does with one, by the state of the request.
LEMMA TransferLooks ==
  ASSUME IInv, NEW flag \in {"TRCPT1", "TRCPT0"}, NEW urgent, _usb_ep0_on_tansfer_ok(flag, urgent)
  PROVE  \E h \in HwType :
         /\ Cleared(h, flag) /\ host' = host
         /\ udd.state = "DATA_OUT" => udd_ctrl_out_received(h, udd)
         /\ udd.state = "DATA_IN" => udd_ctrl_in_sent(h, udd)
         /\ udd.state \notin {"DATA_OUT", "DATA_IN"} =>
              hw' = Callback(h, udd) /\ udd' = [udd EXCEPT !.state = "SETUP"]
<1>1. hw \in HwType
  BY DEF IInv, TypeOK
<1>2. PICK h : h = Clear(hw, flag)
  OBVIOUS
<1>3. Cleared(h, flag)
  BY <1>1, <1>2 DEF Cleared, Clear, HwType
<1>4. h \in HwType
  BY <1>3 DEF Cleared
<1>5. host' = host
  BY DEF _usb_ep0_on_tansfer_ok
<1>6. udd.state = "DATA_OUT" => udd_ctrl_out_received(h, udd)
  BY <1>2 DEF _usb_ep0_on_tansfer_ok
<1>7. udd.state = "DATA_IN" => udd_ctrl_in_sent(h, udd)
  BY <1>2 DEF _usb_ep0_on_tansfer_ok
<1>8. udd.state \notin {"DATA_OUT", "DATA_IN"} =>
        hw' = Callback(h, udd) /\ udd' = [udd EXCEPT !.state = "SETUP"]
  BY <1>2 DEF _usb_ep0_on_tansfer_ok
<1> QED BY <1>3, <1>4, <1>5, <1>6, <1>7, <1>8

\* What udd_ctrl_out_received does with n bytes: the status stage is next, or the payload is
\* full, or there is room for more.
OutTakes(n) ==
  /\ n \in 0 .. CtrlSize /\ n <= hw.bytes /\ n <= udd.size - udd.trans
  /\ n = hw.bytes \/ n = udd.size - udd.trans
OutEnds(h, n) ==
  /\ n # CtrlSize \/ udd.req.wLength <= udd.prev + udd.trans + n
  /\ hw' \in HwType /\ hw'.flags = h.flags /\ hw'.failing = h.failing /\ hw'.armed = TRUE
  /\ hw'.bytes = h.bytes
  /\ hw'.bank1 # NoPacket /\ hw'.bank1.mine = udd.mine /\ hw'.bank1.at = udd.trans + n
  /\ hw'.bank1.len = 0
  /\ hw'.stall = h.stall /\ hw'.dtgin = h.dtgin /\ hw'.dtgout = h.dtgout
  /\ hw'.address = h.address /\ hw'.reset = h.reset /\ hw'.setup = h.setup
  /\ udd' \in UddType /\ udd'.state = "WAIT_IN_ZLP" /\ udd'.req = udd.req /\ udd'.mine = udd.mine
  /\ udd'.size = udd.trans + n /\ udd'.trans = udd.trans + n /\ udd'.prev = udd.prev
  /\ udd'.short = udd.short
OutFull(h, n) ==
  /\ n = CtrlSize /\ udd.req.wLength > udd.prev + udd.trans + n /\ udd.size = udd.trans + n
  /\ hw' \in HwType /\ hw'.flags = h.flags \ {"TRCPT0"} /\ hw'.failing = h.failing
  /\ hw'.armed = FALSE
  /\ hw'.bytes = h.bytes /\ hw'.bank1 = h.bank1
  /\ hw'.stall = h.stall \cup {"out"} /\ hw'.dtgin = h.dtgin /\ hw'.dtgout = h.dtgout
  /\ hw'.address = h.address /\ hw'.reset = h.reset /\ hw'.setup = h.setup
  /\ udd' \in UddType /\ udd'.state = "STALL_REQ" /\ udd'.req = udd.req /\ udd'.mine = udd.mine
  /\ udd'.size = udd.size /\ udd'.trans = udd.trans + n /\ udd'.prev = udd.prev
  /\ udd'.short = udd.short
OutMore(h, n) ==
  /\ n = CtrlSize /\ udd.req.wLength > udd.prev + udd.trans + n /\ udd.size # udd.trans + n
  /\ hw' \in HwType /\ hw'.flags = h.flags /\ hw'.failing = h.failing /\ hw'.armed = TRUE
  /\ hw'.bytes = h.bytes /\ hw'.bank1 = h.bank1
  /\ hw'.stall = h.stall /\ hw'.dtgin = h.dtgin /\ hw'.dtgout = h.dtgout
  /\ hw'.address = h.address /\ hw'.reset = h.reset /\ hw'.setup = h.setup
  /\ udd' \in UddType /\ udd'.state = udd.state /\ udd'.req = udd.req /\ udd'.mine = udd.mine
  /\ udd'.size = udd.size /\ udd'.trans = udd.trans + n /\ udd'.prev = udd.prev
  /\ udd'.short = udd.short

\* udd_ctrl_out_received, field by field: n bytes are taken, and the data or the payload
\* is at its end, or more is to come.
LEMMA OutReceivedEffect ==
  ASSUME udd \in UddType, NEW h \in HwType, h.bytes = hw.bytes, udd.trans <= udd.size,
         udd_ctrl_out_received(h, udd)
  PROVE  \E n \in 0 .. CtrlSize : OutTakes(n) /\ (OutEnds(h, n) \/ OutFull(h, n) \/ OutMore(h, n))
<1>1. /\ udd.size \in Nat /\ udd.trans \in Nat /\ udd.prev \in Nat
      /\ udd.req \in Requests \cup {NoRequest}
  BY DEF UddType
<1>2. udd.req.wLength \in Nat
  BY <1>1, RequestTypes
<1>3. h.bytes \in 0 .. CtrlSize
  BY DEF HwType
<1>4. PICK n \in 0 .. CtrlSize : n = Min2(h.bytes, udd.size - udd.trans) /\ OutTakes(n)
  BY <1>1, <1>3 DEF Min2, CtrlSize, OutTakes
<1>5. PICK t \in Nat : t = udd.trans + n
  BY <1>1
<1>6. CASE n # CtrlSize \/ udd.req.wLength <= udd.prev + t
  <2>1. PICK v : v = [udd EXCEPT !.trans = t, !.size = t]
    OBVIOUS
  <2>2. /\ v \in UddType /\ v.state = udd.state /\ v.req = udd.req /\ v.mine = udd.mine
        /\ v.size = t /\ v.trans = t /\ v.prev = udd.prev /\ v.short = udd.short
    BY <1>1, <1>5, <2>1 DEF UddType
  <2>3. udd_ctrl_send_zlp_in(h, v)
    BY <1>4, <1>5, <1>6, <2>1 DEF udd_ctrl_out_received
  <2>4. ZlpSent(h, v)
    BY <2>2, <2>3, ZlpEffect
  <2>5. n # CtrlSize \/ udd.req.wLength <= udd.prev + udd.trans + n
    BY <1>1, <1>2, <1>5, <1>6
  <2>6. OutEnds(h, n)
    BY <1>5, <2>2, <2>4, <2>5 DEF ZlpSent, OutEnds
  <2> QED BY <1>4, <2>6
<1>7. CASE ~(n # CtrlSize \/ udd.req.wLength <= udd.prev + t) /\ udd.size = t
  <2>1. /\ hw' = [h EXCEPT !.stall = h.stall \cup {"out"}, !.armed = FALSE, !.flags = h.flags \ {"TRCPT0"}]
        /\ udd' = [udd EXCEPT !.trans = t, !.state = "STALL_REQ"]
    BY <1>4, <1>5, <1>7 DEF udd_ctrl_out_received
  <2>2. /\ hw' \in HwType /\ hw'.flags = h.flags \ {"TRCPT0"} /\ hw'.failing = h.failing
        /\ hw'.armed = FALSE
        /\ hw'.bytes = h.bytes /\ hw'.bank1 = h.bank1
        /\ hw'.stall = h.stall \cup {"out"} /\ hw'.dtgin = h.dtgin /\ hw'.dtgout = h.dtgout
        /\ hw'.address = h.address /\ hw'.reset = h.reset /\ hw'.setup = h.setup
    BY <2>1 DEF HwType
  <2>3. /\ udd' \in UddType /\ udd'.state = "STALL_REQ" /\ udd'.req = udd.req
        /\ udd'.mine = udd.mine
        /\ udd'.size = udd.size /\ udd'.trans = t /\ udd'.prev = udd.prev /\ udd'.short = udd.short
    BY <1>5, <2>1 DEF UddType, States
  <2>4. n = CtrlSize /\ udd.req.wLength > udd.prev + udd.trans + n /\ udd.size = udd.trans + n
    BY <1>1, <1>2, <1>5, <1>7
  <2>5. OutFull(h, n)
    BY <1>5, <2>2, <2>3, <2>4 DEF OutFull
  <2> QED BY <1>4, <2>5
<1>8. CASE ~(n # CtrlSize \/ udd.req.wLength <= udd.prev + t) /\ udd.size # t
  <2>1. hw' = [h EXCEPT !.armed = TRUE] /\ udd' = [udd EXCEPT !.trans = t]
    BY <1>4, <1>5, <1>8 DEF udd_ctrl_out_received
  <2>2. /\ hw' \in HwType /\ hw'.flags = h.flags /\ hw'.failing = h.failing /\ hw'.armed = TRUE
        /\ hw'.bytes = h.bytes /\ hw'.bank1 = h.bank1
        /\ hw'.stall = h.stall /\ hw'.dtgin = h.dtgin /\ hw'.dtgout = h.dtgout
        /\ hw'.address = h.address /\ hw'.reset = h.reset /\ hw'.setup = h.setup
    BY <2>1 DEF HwType
  <2>3. /\ udd' \in UddType /\ udd'.state = udd.state /\ udd'.req = udd.req /\ udd'.mine = udd.mine
        /\ udd'.size = udd.size /\ udd'.trans = t /\ udd'.prev = udd.prev /\ udd'.short = udd.short
    BY <1>5, <2>1 DEF UddType
  <2>4. n = CtrlSize /\ udd.req.wLength > udd.prev + udd.trans + n /\ udd.size # udd.trans + n
    BY <1>1, <1>2, <1>5, <1>8
  <2>5. OutMore(h, n)
    BY <1>5, <2>2, <2>3, <2>4 DEF OutMore
  <2> QED BY <1>4, <2>5
<1> QED BY <1>6, <1>7, <1>8

\* What n bytes of a write that fits are, of a transfer of this flag.
FitsPacket(flag, n) ==
  /\ flag = "TRCPT0" /\ udd.req = host.req /\ udd.prev = 0 /\ host.req.wLength > 0
  /\ udd.size = host.req.size /\ host.req.wLength \in Nat /\ host.req.size \in Nat
  /\ udd.trans \in Nat /\ n = hw.bytes /\ udd.trans + n = UnitTook
  /\ UnitTook \in Nat /\ UnitTook <= host.req.wLength
  /\ n = CtrlSize \/ UnitTook = host.req.wLength

\* The packet of a write that fits: all of it fits, and it is the last one or a full one.
LEMMA FitsData ==
  ASSUME IInv, NEW flag \in {"TRCPT1", "TRCPT0"}, flag \in hw.flags, udd.state = "DATA_OUT",
         Serving, host.req.ok, host.req.dir = "out", host.req.wLength <= host.req.size,
         NEW n \in 0 .. CtrlSize, OutTakes(n)
  PROVE  FitsPacket(flag, n)
<1>1. udd.req = host.req /\ "TRCPT1" \notin hw.flags
  BY DEF IInv, ServingInv, WriteInv
<1>2. flag = "TRCPT0" /\ "TRCPT0" \in hw.flags
  BY <1>1
<1>3. /\ udd.prev = 0 /\ host.req.wLength > 0 /\ udd.trans + hw.bytes = UnitTook
      /\ hw.bytes = CtrlSize \/ udd.trans + hw.bytes = host.req.wLength
  BY <1>1, <1>2 DEF IInv, FitsInv
<1>4. /\ udd.size = host.req.size /\ udd.trans <= udd.size
      /\ udd.trans \in Nat /\ hw.bytes \in 0 .. CtrlSize /\ host.sent \in Nat
  BY <1>1 DEF IInv, PayloadInv, TypeOK, HwType, UddType, HostType
<1>5. host.req.wLength \in Nat /\ host.req.size \in Nat
  BY RequestTypes DEF IInv, TypeOK, HostType
<1>6. UnitTook <= host.req.wLength
  <2>1. host.stage = "out" => host.sent < host.req.wLength
    BY DEF IInv, StageInv
  <2>2. host.stage \in {"out", "statusIn"}
    BY DEF IInv, StageInv, Serving, Waits
  <2> QED BY <1>4, <1>5, <2>1, <2>2 DEF UnitTook, Min2, CtrlSize
<1>7. n = hw.bytes
  BY <1>3, <1>4, <1>5, <1>6 DEF OutTakes, CtrlSize
<1> QED BY <1>1, <1>2, <1>3, <1>4, <1>5, <1>6, <1>7 DEF FitsPacket, CtrlSize

\* The data of a write ends.
LEMMA OutEndsStep ==
  ASSUME IInv, NEW flag \in {"TRCPT1", "TRCPT0"}, NEW urgent, Urgent(flag, urgent),
         _usb_ep0_on_tansfer_ok(flag, urgent), NEW h \in HwType, NEW n \in 0 .. CtrlSize,
         udd.state = "DATA_OUT",
         Cleared(h, flag), OutTakes(n), OutEnds(h, n), host' = host
  PROVE  IInv'
<1>1. /\ flag \in hw.flags /\ ~Pending /\ hw.failing = "none" /\ ~hw.reset
      /\ flag = "TRCPT0" => "TRCPT1" \notin hw.flags
  BY TransferStart
<1>2. /\ n \in 0 .. CtrlSize /\ n <= hw.bytes /\ n <= udd.size - udd.trans
      /\ n = hw.bytes \/ n = udd.size - udd.trans
      /\ n # CtrlSize \/ udd.req.wLength <= udd.prev + udd.trans + n
  BY DEF OutTakes, OutEnds
<1>3. /\ hw' \in HwType /\ hw'.flags = hw.flags \ {flag} /\ hw'.failing = hw.failing
      /\ hw'.armed = TRUE /\ hw'.bytes = hw.bytes /\ hw'.bank1 # NoPacket
      /\ hw'.bank1.mine = udd.mine /\ hw'.bank1.at = udd.trans + n /\ hw'.bank1.len = 0
      /\ hw'.stall = hw.stall /\ hw'.dtgin = hw.dtgin /\ hw'.dtgout = hw.dtgout
      /\ hw'.address = hw.address /\ hw'.reset = hw.reset /\ hw'.setup = hw.setup
  BY <1>1, <1>2 DEF Cleared, OutEnds
<1>4. /\ udd' \in UddType /\ udd'.state = "WAIT_IN_ZLP" /\ udd'.req = udd.req
      /\ udd'.mine = udd.mine /\ udd'.size = udd.trans + n /\ udd'.trans = udd.trans + n
      /\ udd'.prev = udd.prev /\ udd'.short = udd.short
  BY <1>1, <1>2 DEF Cleared, OutEnds
<1>5. host' = host
  BY <1>1, <1>2
<1>6. StageInv'
  BY <1>1, <1>2, <1>3, <1>4, <1>5, RequestTypes DEF IInv, TypeOK, StageInv, Waits, HwType,
       UddType, HostType
<1>7. PendingInv'
  BY <1>1, <1>3 DEF IInv, PendingInv, Pending
<1>8. ServingInv'
  BY <1>3, <1>4 DEF IInv, ServingInv, Serving, Pending, Waits, Took
<1>9. ReadInv'
  BY <1>3 DEF IInv, ServingInv, ReadInv, Serving, Pending, Waits
<1>10. WriteInv'
  BY <1>3, <1>4 DEF IInv, ServingInv, WriteInv, Serving, Pending, Waits
<1>11. FitsInv'
  <2> SUFFICES ASSUME Serving', host'.req.ok, host'.req.dir = "out",
                      host'.req.wLength <= host'.req.size
               PROVE  FitsInv'
    BY DEF FitsInv
  <2>1. Serving /\ host.req.ok /\ host.req.dir = "out" /\ host.req.wLength <= host.req.size
    BY <1>1, <1>5 DEF Serving, Pending, Waits
  <2>2. FitsPacket(flag, n)
    BY <1>1, <2>1, FitsData
  <2>3. UnitTook' = host.req.wLength /\ udd'.req.wLength = host.req.wLength /\ udd'.trans = host.req.wLength
    BY <1>2, <1>3, <1>4, <1>5, <2>2 DEF FitsPacket, UnitTook
  <2>4. udd'.state = "WAIT_IN_ZLP" /\ "TRCPT0" \notin hw'.flags
    BY <1>3, <1>4, <2>2 DEF FitsPacket
  <2> QED BY <2>3, <2>4 DEF FitsInv
<1>12. PayloadInv'
  BY <1>1, <1>2, <1>3, <1>4, <1>5, RequestTypes DEF IInv, TypeOK, PayloadInv, HwType, UddType,
       HostType
<1>13. AddressInv'
  BY <1>3, <1>4 DEF IInv, AddressInv, Serving, Deaf, Pending, Waits, Took
<1> QED BY <1>3, <1>4, <1>5, <1>6, <1>7, <1>8, <1>9, <1>10, <1>11, <1>12, <1>13 DEF IInv, TypeOK

\* The payload is full and there is more data.
LEMMA OutFullStep ==
  ASSUME IInv, NEW flag \in {"TRCPT1", "TRCPT0"}, NEW urgent, Urgent(flag, urgent),
         _usb_ep0_on_tansfer_ok(flag, urgent), NEW h \in HwType, NEW n \in 0 .. CtrlSize,
         udd.state = "DATA_OUT",
         Cleared(h, flag), OutTakes(n), OutFull(h, n), host' = host
  PROVE  IInv'
<1>1. /\ flag \in hw.flags /\ ~Pending /\ hw.failing = "none" /\ ~hw.reset
      /\ flag = "TRCPT0" => "TRCPT1" \notin hw.flags
  BY TransferStart
<1>2. /\ n \in 0 .. CtrlSize /\ n <= hw.bytes /\ n <= udd.size - udd.trans
      /\ n = hw.bytes \/ n = udd.size - udd.trans
      /\ n = CtrlSize /\ udd.req.wLength > udd.prev + udd.trans + n /\ udd.size = udd.trans + n
  BY DEF OutTakes, OutFull
<1>3. /\ hw' \in HwType /\ hw'.flags = (hw.flags \ {flag}) \ {"TRCPT0"}
      /\ hw'.failing = hw.failing /\ hw'.armed = FALSE /\ hw'.bytes = hw.bytes
      /\ hw'.bank1 = hw.bank1 /\ hw'.stall = hw.stall \cup {"out"} /\ hw'.dtgin = hw.dtgin
      /\ hw'.dtgout = hw.dtgout /\ hw'.address = hw.address /\ hw'.reset = hw.reset
      /\ hw'.setup = hw.setup
  BY <1>1, <1>2 DEF Cleared, OutFull
<1>4. /\ udd' \in UddType /\ udd'.state = "STALL_REQ" /\ udd'.req = udd.req
      /\ udd'.mine = udd.mine /\ udd'.size = udd.size /\ udd'.trans = udd.trans + n
      /\ udd'.prev = udd.prev /\ udd'.short = udd.short
  BY <1>1, <1>2 DEF Cleared, OutFull
<1>5. host' = host
  BY <1>1, <1>2
<1>6. StageInv'
  BY <1>1, <1>2, <1>3, <1>4, <1>5, RequestTypes DEF IInv, TypeOK, StageInv, Waits, HwType,
       UddType, HostType
<1>7. PendingInv'
  BY <1>1, <1>3 DEF IInv, PendingInv, Pending
<1>8. ServingInv'
  BY <1>3, <1>4 DEF IInv, ServingInv, Serving, Pending, Waits, Took
<1>9. ReadInv'
  BY <1>3 DEF IInv, ServingInv, ReadInv, Serving, Pending, Waits
<1>10. WriteInv'
  BY <1>3, <1>4 DEF IInv, ServingInv, WriteInv, Serving, Pending, Waits
<1>11. FitsInv'
  <2> SUFFICES ASSUME Serving', host'.req.ok, host'.req.dir = "out",
                      host'.req.wLength <= host'.req.size
               PROVE  FitsInv'
    BY DEF FitsInv
  <2>1. Serving /\ host.req.ok /\ host.req.dir = "out" /\ host.req.wLength <= host.req.size
    BY <1>1, <1>5 DEF Serving, Pending, Waits
  <2>2. FitsPacket(flag, n)
    BY <1>1, <2>1, FitsData
  <2> QED BY <1>2, <2>1, <2>2 DEF FitsPacket
<1>12. PayloadInv'
  BY <1>1, <1>2, <1>3, <1>4, <1>5, RequestTypes DEF IInv, TypeOK, PayloadInv, HwType, UddType,
       HostType
<1>13. AddressInv'
  BY <1>3, <1>4 DEF IInv, AddressInv, Serving, Deaf, Pending, Waits, Took
<1> QED BY <1>3, <1>4, <1>5, <1>6, <1>7, <1>8, <1>9, <1>10, <1>11, <1>12, <1>13 DEF IInv, TypeOK

\* There is room for more data.
LEMMA OutMoreStep ==
  ASSUME IInv, NEW flag \in {"TRCPT1", "TRCPT0"}, NEW urgent, Urgent(flag, urgent),
         _usb_ep0_on_tansfer_ok(flag, urgent), NEW h \in HwType, NEW n \in 0 .. CtrlSize,
         udd.state = "DATA_OUT",
         Cleared(h, flag), OutTakes(n), OutMore(h, n), host' = host
  PROVE  IInv'
<1>1. /\ flag \in hw.flags /\ ~Pending /\ hw.failing = "none" /\ ~hw.reset
      /\ flag = "TRCPT0" => "TRCPT1" \notin hw.flags
  BY TransferStart
<1>2. /\ n \in 0 .. CtrlSize /\ n <= hw.bytes /\ n <= udd.size - udd.trans
      /\ n = hw.bytes \/ n = udd.size - udd.trans
      /\ n = CtrlSize /\ udd.req.wLength > udd.prev + udd.trans + n /\ udd.size # udd.trans + n
  BY DEF OutTakes, OutMore
<1>3. /\ hw' \in HwType /\ hw'.flags = hw.flags \ {flag} /\ hw'.failing = hw.failing
      /\ hw'.armed = TRUE /\ hw'.bytes = hw.bytes /\ hw'.bank1 = hw.bank1
      /\ hw'.stall = hw.stall /\ hw'.dtgin = hw.dtgin /\ hw'.dtgout = hw.dtgout
      /\ hw'.address = hw.address /\ hw'.reset = hw.reset /\ hw'.setup = hw.setup
  BY <1>1, <1>2 DEF Cleared, OutMore
<1>4. /\ udd' \in UddType /\ udd'.state = udd.state /\ udd'.req = udd.req
      /\ udd'.mine = udd.mine /\ udd'.size = udd.size /\ udd'.trans = udd.trans + n
      /\ udd'.prev = udd.prev /\ udd'.short = udd.short
  BY <1>1, <1>2 DEF Cleared, OutMore
<1>5. host' = host
  BY <1>1, <1>2
<1>6. StageInv'
  BY <1>1, <1>2, <1>3, <1>4, <1>5, RequestTypes DEF IInv, TypeOK, StageInv, Waits, HwType,
       UddType, HostType
<1>7. PendingInv'
  BY <1>1, <1>3 DEF IInv, PendingInv, Pending
<1>8. ServingInv'
  BY <1>3, <1>4 DEF IInv, ServingInv, Serving, Pending, Waits, Took
<1>9. ReadInv'
  BY <1>3 DEF IInv, ServingInv, ReadInv, Serving, Pending, Waits
<1>10. WriteInv'
  BY <1>3, <1>4 DEF IInv, ServingInv, WriteInv, Serving, Pending, Waits
<1>11. FitsInv'
  <2> SUFFICES ASSUME Serving', host'.req.ok, host'.req.dir = "out",
                      host'.req.wLength <= host'.req.size
               PROVE  FitsInv'
    BY DEF FitsInv
  <2>1. Serving /\ host.req.ok /\ host.req.dir = "out" /\ host.req.wLength <= host.req.size
    BY <1>1, <1>5 DEF Serving, Pending, Waits
  <2>2. FitsPacket(flag, n)
    BY <1>1, <2>1, FitsData
  <2>3. UnitTook' = UnitTook /\ udd'.trans = UnitTook /\ UnitTook < host.req.wLength /\ udd'.req = host.req
    BY <1>2, <1>3, <1>4, <1>5, <2>2 DEF FitsPacket, UnitTook
  <2>4. /\ udd'.state = "DATA_OUT" /\ "TRCPT0" \notin hw'.flags /\ hw'.bank1 = NoPacket
        /\ "out" \notin hw'.stall /\ hw'.failing # "TRFAIL1" /\ udd'.prev = 0
    BY <1>1, <1>3, <1>4, <2>1, <2>2 DEF FitsPacket, IInv, FitsInv
  <2> QED BY <2>2, <2>3, <2>4 DEF FitsPacket, FitsInv
<1>12. PayloadInv'
  BY <1>1, <1>2, <1>3, <1>4, <1>5, RequestTypes DEF IInv, TypeOK, PayloadInv, HwType, UddType,
       HostType
<1>13. AddressInv'
  BY <1>3, <1>4 DEF IInv, AddressInv, Serving, Deaf, Pending, Waits, Took
<1> QED BY <1>3, <1>4, <1>5, <1>6, <1>7, <1>8, <1>9, <1>10, <1>11, <1>12, <1>13 DEF IInv, TypeOK

\* The data of a read ends.
LEMMA InDoneStep ==
  ASSUME IInv, NEW flag \in {"TRCPT1", "TRCPT0"}, NEW urgent, Urgent(flag, urgent),
         _usb_ep0_on_tansfer_ok(flag, urgent), NEW h \in HwType, udd.state = "DATA_IN",
         Cleared(h, flag), InDone(h, udd), host' = host
  PROVE  IInv'
<1>1. /\ flag \in hw.flags /\ ~Pending /\ hw.failing = "none" /\ ~hw.reset
      /\ flag = "TRCPT0" => "TRCPT1" \notin hw.flags
  BY TransferStart
<1>2. udd.size = udd.trans /\ (udd.req.wLength = udd.prev + udd.trans \/ udd.short)
  BY DEF InDone
<1>3. /\ hw' \in HwType /\ hw'.flags = hw.flags \ {flag} /\ hw'.failing = hw.failing
      /\ hw'.armed = TRUE /\ hw'.bytes = hw.bytes /\ hw'.bank1 = hw.bank1
      /\ hw'.stall = hw.stall /\ hw'.dtgin = hw.dtgin /\ hw'.dtgout = hw.dtgout
      /\ hw'.address = hw.address /\ hw'.reset = hw.reset /\ hw'.setup = hw.setup
  BY <1>1, <1>2 DEF Cleared, InDone
<1>4. /\ udd' \in UddType /\ udd'.state = "WAIT_OUT_ZLP" /\ udd'.req = udd.req
      /\ udd'.mine = udd.mine /\ udd'.size = udd.size /\ udd'.trans = udd.trans
      /\ udd'.short = udd.short
  BY <1>1, <1>2 DEF Cleared, InDone
<1>5. host' = host
  BY <1>1, <1>2
<1>6. StageInv'
  BY <1>1, <1>2, <1>3, <1>4, <1>5, RequestTypes DEF IInv, TypeOK, StageInv, Waits, HwType,
       UddType, HostType
<1>7. PendingInv'
  BY <1>1, <1>3 DEF IInv, PendingInv, Pending
<1>8. ServingInv'
  BY <1>3, <1>4 DEF IInv, ServingInv, Serving, Pending, Waits, Took
<1>9. ReadInv'
  BY <1>1, <1>2, <1>3, <1>4 DEF IInv, ServingInv, ReadInv, Serving, Pending, Waits, Took,
       TakenInv, SentInv, UddType
<1>10. WriteInv'
  BY <1>3 DEF IInv, ServingInv, WriteInv, Serving, Pending, Waits
<1>11. FitsInv'
  BY <1>3 DEF IInv, ServingInv, WriteInv, FitsInv, Serving, Pending, Waits, Took, UnitTook
<1>12. PayloadInv'
  BY <1>1, <1>2, <1>3, <1>4, <1>5, RequestTypes DEF IInv, TypeOK, PayloadInv, HwType, UddType,
       HostType
<1>13. AddressInv'
  BY <1>3, <1>4 DEF IInv, AddressInv, Serving, Deaf, Pending, Waits, Took
<1> QED BY <1>3, <1>4, <1>5, <1>6, <1>7, <1>8, <1>9, <1>10, <1>11, <1>12, <1>13 DEF IInv, TypeOK

\* A read has one more packet.
LEMMA InPacketStep ==
  ASSUME IInv, NEW flag \in {"TRCPT1", "TRCPT0"}, NEW urgent, Urgent(flag, urgent),
         _usb_ep0_on_tansfer_ok(flag, urgent), NEW h \in HwType, NEW n \in 0 .. CtrlSize,
         udd.state = "DATA_IN",
         Cleared(h, flag), InPacket(h, udd, n), host' = host
  PROVE  IInv'
<1>1. /\ flag \in hw.flags /\ ~Pending /\ hw.failing = "none" /\ ~hw.reset
      /\ flag = "TRCPT0" => "TRCPT1" \notin hw.flags
  BY TransferStart
<1>2. /\ n \in 0 .. CtrlSize /\ n <= udd.size - udd.trans
      /\ n = Min2(udd.size - udd.trans, CtrlSize)
      /\ n = 0 => udd.size = udd.trans /\ ~udd.short /\ udd.req.wLength # udd.prev + udd.trans
      /\ n > 0 => udd'.prev = udd.prev
  BY DEF InPacket
<1>3. /\ hw' \in HwType /\ hw'.flags = hw.flags \ {flag} /\ hw'.failing = hw.failing
      /\ hw'.armed = hw.armed /\ hw'.bytes = hw.bytes /\ hw'.bank1 # NoPacket
      /\ hw'.bank1.mine = udd.mine /\ hw'.bank1.at = udd.trans /\ hw'.bank1.len = n
      /\ hw'.stall = hw.stall /\ hw'.dtgin = hw.dtgin /\ hw'.dtgout = hw.dtgout
      /\ hw'.address = hw.address /\ hw'.reset = hw.reset /\ hw'.setup = hw.setup
  BY <1>1, <1>2 DEF Cleared, InPacket
<1>4. /\ udd' \in UddType /\ udd'.state = udd.state /\ udd'.req = udd.req
      /\ udd'.mine = udd.mine /\ udd'.size = udd.size /\ udd'.trans = udd.trans + n
      /\ (udd'.short <=> n < CtrlSize)
  BY <1>1, <1>2 DEF Cleared, InPacket
<1>5. host' = host
  BY <1>1, <1>2
<1>6. StageInv'
  BY <1>1, <1>2, <1>3, <1>4, <1>5, RequestTypes DEF IInv, TypeOK, StageInv, Waits, HwType,
       UddType, HostType
<1>7. PendingInv'
  BY <1>1, <1>3 DEF IInv, PendingInv, Pending
<1>8. ServingInv'
  BY <1>3, <1>4 DEF IInv, ServingInv, Serving, Pending, Waits, Took
<1>9. ReadInv'
  BY <1>1, <1>2, <1>3, <1>4, RequestTypes DEF IInv, ServingInv, ReadInv, Serving, Pending,
       Waits, Took, TakenInv, SentInv, Fresh, Min2, CtrlSize, HwType, UddType
<1>10. WriteInv'
  BY <1>3 DEF IInv, ServingInv, WriteInv, Serving, Pending, Waits
<1>11. FitsInv'
  BY <1>3 DEF IInv, ServingInv, WriteInv, FitsInv, Serving, Pending, Waits, Took, UnitTook
<1>12. PayloadInv'
  BY <1>1, <1>2, <1>3, <1>4, <1>5, RequestTypes DEF IInv, TypeOK, PayloadInv, HwType, UddType,
       HostType
<1>13. AddressInv'
  BY <1>3, <1>4 DEF IInv, AddressInv, Serving, Deaf, Pending, Waits, Took
<1> QED BY <1>3, <1>4, <1>5, <1>6, <1>7, <1>8, <1>9, <1>10, <1>11, <1>12, <1>13 DEF IInv, TypeOK

\* A status stage ends, or what was left of a request given up.
LEMMA OtherDoneStep ==
  ASSUME IInv, NEW flag \in {"TRCPT1", "TRCPT0"}, NEW urgent, Urgent(flag, urgent),
         _usb_ep0_on_tansfer_ok(flag, urgent), NEW h \in HwType,
         udd.state \notin {"DATA_OUT", "DATA_IN"}, udd.req.address = 0,
         Cleared(h, flag), hw' = Callback(h, udd), udd' = [udd EXCEPT !.state = "SETUP"],
         host' = host
  PROVE  IInv'
<1>1. /\ flag \in hw.flags /\ ~Pending /\ hw.failing = "none" /\ ~hw.reset
      /\ flag = "TRCPT0" => "TRCPT1" \notin hw.flags
  BY TransferStart
<1>2. /\ hw' \in HwType /\ hw'.flags = hw.flags \ {flag} /\ hw'.failing = hw.failing
      /\ hw'.armed = hw.armed /\ hw'.bytes = hw.bytes /\ hw'.bank1 = hw.bank1
      /\ hw'.stall = hw.stall /\ hw'.dtgin = hw.dtgin /\ hw'.dtgout = hw.dtgout
      /\ hw'.address = hw.address /\ hw'.reset = hw.reset /\ hw'.setup = hw.setup
  BY <1>1 DEF Cleared, Callback, States, IInv, TypeOK, HwType, Flags
<1>3. /\ udd' \in UddType /\ udd'.state = "SETUP" /\ udd'.req = udd.req /\ udd'.mine = udd.mine
      /\ udd'.size = udd.size /\ udd'.trans = udd.trans /\ udd'.prev = udd.prev
      /\ udd'.short = udd.short
  BY <1>1 DEF Cleared, Callback, States, IInv, TypeOK, UddType, States
<1>4. host' = host
  BY <1>1
<1>5. StageInv'
  BY <1>1, <1>2, <1>3, <1>4, RequestTypes DEF IInv, TypeOK, StageInv, Waits, HwType, UddType,
       HostType
<1>6. PendingInv'
  BY <1>2 DEF IInv, PendingInv, Pending, Took, Waits
<1>7. ServingInv'
  BY <1>1 DEF IInv, ServingInv, Serving, Pending, Waits, Took
<1>8. ReadInv'
  BY <1>2 DEF IInv, ServingInv, ReadInv, Serving, Pending, Waits
<1>9. WriteInv'
  BY <1>2 DEF IInv, ServingInv, WriteInv, Serving, Pending, Waits
<1>10. FitsInv'
  BY <1>1 DEF IInv, ServingInv, WriteInv, FitsInv, Serving, Pending, Waits, Took, UnitTook
<1>11. PayloadInv'
  BY <1>1, <1>2, <1>3, <1>4, RequestTypes DEF IInv, TypeOK, PayloadInv, HwType, UddType,
       HostType
<1>12. AddressInv'
  BY <1>2 DEF IInv, AddressInv, Serving, Deaf, Pending, Waits, Took
<1> QED BY <1>2, <1>3, <1>4, <1>5, <1>6, <1>7, <1>8, <1>9, <1>10, <1>11, <1>12 DEF IInv, TypeOK

\* The status stage of SET_ADDRESS ends: the device takes the address up.
LEMMA AddressDoneStep ==
  ASSUME IInv, NEW flag \in {"TRCPT1", "TRCPT0"}, NEW urgent, Urgent(flag, urgent),
         _usb_ep0_on_tansfer_ok(flag, urgent), NEW h \in HwType,
         udd.state \notin {"DATA_OUT", "DATA_IN"}, udd.req.address # 0,
         Cleared(h, flag), hw' = Callback(h, udd), udd' = [udd EXCEPT !.state = "SETUP"],
         host' = host
  PROVE  IInv'
<1>1. /\ flag \in hw.flags /\ ~Pending /\ hw.failing = "none" /\ ~hw.reset
      /\ flag = "TRCPT0" => "TRCPT1" \notin hw.flags
  BY TransferStart
<1>2. /\ udd.state = "WAIT_IN_ZLP" /\ flag = "TRCPT1" /\ "TRCPT0" \notin hw.flags
      /\ ~Waits /\ host.addr = udd.req.address /\ udd.req.address \in Nat
  BY <1>1, RequestTypes DEF IInv, TypeOK, UddType, AddressInv, Deaf, Took
<1>3. hw' = [h EXCEPT !.address = udd.req.address]
  BY DEF Callback
<1>4. /\ hw' \in HwType /\ hw'.flags = hw.flags \ {flag} /\ hw'.failing = hw.failing
      /\ hw'.armed = hw.armed /\ hw'.bytes = hw.bytes /\ hw'.bank1 = hw.bank1
      /\ hw'.stall = hw.stall /\ hw'.dtgin = hw.dtgin /\ hw'.dtgout = hw.dtgout
      /\ hw'.address = udd.req.address /\ hw'.reset = hw.reset /\ hw'.setup = hw.setup
  BY <1>1, <1>2, <1>3 DEF Cleared, Callback, States, IInv, TypeOK, HwType, Flags
<1>5. /\ udd' \in UddType /\ udd'.state = "SETUP" /\ udd'.req = udd.req /\ udd'.mine = udd.mine
      /\ udd'.size = udd.size /\ udd'.trans = udd.trans /\ udd'.prev = udd.prev
      /\ udd'.short = udd.short
  BY <1>1, <1>2, <1>3 DEF Cleared, Callback, States, IInv, TypeOK, UddType, States
<1>6. host' = host
  BY <1>1, <1>2, <1>3
<1>7. StageInv'
  BY <1>2, <1>4 DEF IInv, StageInv, Waits
<1>8. PendingInv'
  BY <1>4 DEF IInv, PendingInv, Pending, Took, Waits
<1>9. ServingInv'
  BY <1>2 DEF IInv, ServingInv, Serving, Pending, Waits, Took
<1>10. ReadInv'
  BY <1>4 DEF IInv, ServingInv, ReadInv, Serving, Pending, Waits
<1>11. WriteInv'
  BY <1>4 DEF IInv, ServingInv, WriteInv, Serving, Pending, Waits
<1>12. FitsInv'
  BY <1>2 DEF FitsInv, Serving, Pending, Waits, Took, UnitTook
<1>13. PayloadInv'
  BY <1>1, <1>2, <1>3, <1>4, <1>5, <1>6, RequestTypes DEF IInv, TypeOK, PayloadInv, HwType,
       UddType, HostType
<1>14. AddressInv'
  BY <1>2, <1>4 DEF IInv, AddressInv, Serving, Pending, Waits, Took, Deaf
<1> QED BY <1>4, <1>5, <1>6, <1>7, <1>8, <1>9, <1>10, <1>11, <1>12, <1>13, <1>14 DEF IInv,
     TypeOK

\* A completed transfer, whatever it was of.
LEMMA TransferStep ==
  ASSUME IInv, NEW flag \in {"TRCPT1", "TRCPT0"}, NEW urgent, Urgent(flag, urgent),
         _usb_ep0_on_tansfer_ok(flag, urgent)
  PROVE  IInv'
<1>1. PICK h \in HwType :
         /\ Cleared(h, flag) /\ host' = host
         /\ udd.state = "DATA_OUT" => udd_ctrl_out_received(h, udd)
         /\ udd.state = "DATA_IN" => udd_ctrl_in_sent(h, udd)
         /\ udd.state \notin {"DATA_OUT", "DATA_IN"} =>
              hw' = Callback(h, udd) /\ udd' = [udd EXCEPT !.state = "SETUP"]
  BY TransferLooks
<1>2. udd \in UddType /\ h.bytes = hw.bytes
  BY <1>1 DEF IInv, TypeOK, Cleared
<1>3. CASE udd.state = "DATA_OUT"
  <2>1. udd.trans <= udd.size
    BY <1>3 DEF IInv, PayloadInv
  <2>2. PICK n \in 0 .. CtrlSize : OutTakes(n) /\ (OutEnds(h, n) \/ OutFull(h, n) \/ OutMore(h, n))
    BY <1>1, <1>2, <1>3, <2>1, OutReceivedEffect
  <2> QED BY <1>1, <1>3, <2>2, OutEndsStep, OutFullStep, OutMoreStep
<1>4. CASE udd.state = "DATA_IN"
  <2>1. udd.trans <= udd.size
    BY <1>4 DEF IInv, PayloadInv
  <2>2. InDone(h, udd) \/ \E n \in 0 .. CtrlSize : InPacket(h, udd, n)
    BY <1>1, <1>2, <1>4, <2>1, InSentEffect
  <2>3. CASE InDone(h, udd)
    BY <1>1, <1>4, <2>3, InDoneStep
  <2>4. CASE \E n \in 0 .. CtrlSize : InPacket(h, udd, n)
    BY <1>1, <1>4, <2>4, InPacketStep
  <2> QED BY <2>2, <2>3, <2>4
<1>5. CASE udd.state \notin {"DATA_OUT", "DATA_IN"}
  BY <1>1, <1>5, OtherDoneStep, AddressDoneStep
<1> QED BY <1>3, <1>4, <1>5

-----------------------------------------------------------------------------
(***************************************************************************)
(* The handler of a failed transfer, and of a bus reset.                   *)
(***************************************************************************)

\* The registers once the handler has looked at the failure it had taken.
Looked(h) ==
  /\ h \in HwType
  /\ h.flags = hw.flags /\ h.failing = "none"
  /\ h.armed = hw.armed /\ h.bytes = hw.bytes /\ h.bank1 = hw.bank1 /\ h.stall = hw.stall
  /\ h.dtgin = hw.dtgin /\ h.dtgout = hw.dtgout /\ h.address = hw.address /\ h.reset = hw.reset
  /\ h.setup = hw.setup
InFailed  == hw.failing = "TRFAIL1" /\ "TRCPT1" \notin hw.flags
OutFailed == hw.failing = "TRFAIL0" /\ "TRCPT0" \notin hw.flags

\* A handler that looks at a failure was not interrupted by a SETUP nor by a reset.
LEMMA FailStart ==
  ASSUME IInv, _usb_ep0_on_tansfer_fail
  PROVE  ~Pending /\ ~hw.reset /\ hw.failing \in {"TRFAIL1", "TRFAIL0"}
<1>1. hw.failing # "none"
  BY DEF _usb_ep0_on_tansfer_fail
<1> QED BY <1>1 DEF IInv, PendingInv, StageInv, TypeOK, HwType

\* What the handler does with a failed transfer, by the state of the request.
LEMMA FailLooks ==
  ASSUME IInv, _usb_ep0_on_tansfer_fail
  PROVE  \E h \in HwType :
         /\ Looked(h) /\ host' = host
         /\ \/ hw' = h /\ udd' = udd
            \/ InFailed /\ udd.state = "DATA_OUT" /\ udd_ctrl_send_zlp_in(h, udd)
            \/ InFailed /\ udd.state = "WAIT_OUT_ZLP" /\ hw' = [h EXCEPT !.stall = h.stall \cup {"in"}] /\ udd' = udd
            \/ OutFailed /\ udd.state = "DATA_IN" /\ hw' = h /\ udd' = [udd EXCEPT !.state = "WAIT_OUT_ZLP"]
            \/ OutFailed /\ udd.state = "WAIT_IN_ZLP" /\ hw' = [h EXCEPT !.stall = h.stall \cup {"out"}] /\ udd' = udd
<1>1. hw \in HwType /\ hw.failing \in {"TRFAIL1", "TRFAIL0"}
  BY FailStart DEF IInv, TypeOK
<1>2. PICK h : h = [hw EXCEPT !.failing = "none"]
  OBVIOUS
<1>3. Looked(h)
  BY <1>1, <1>2 DEF Looked, HwType
<1>4. h \in HwType
  BY <1>3 DEF Looked
<1>5. host' = host
  BY DEF _usb_ep0_on_tansfer_fail
<1>6. CASE hw.failing = "TRFAIL1"
  <2>1. (hw' = h /\ udd' = udd) \/ ("TRCPT1" \notin hw.flags /\ udd_ctrl_underflow(h))
    BY <1>2, <1>6 DEF _usb_ep0_on_tansfer_fail
  <2>2. CASE "TRCPT1" \notin hw.flags /\ udd_ctrl_underflow(h)
    <3>1. \/ hw' = h /\ udd' = udd
          \/ udd.state = "DATA_OUT" /\ udd_ctrl_send_zlp_in(h, udd)
          \/ udd.state = "WAIT_OUT_ZLP" /\ hw' = [h EXCEPT !.stall = h.stall \cup {"in"}] /\ udd' = udd
      BY <2>2 DEF udd_ctrl_underflow
    <3>2. InFailed
      BY <1>6, <2>2 DEF InFailed
    <3> QED BY <1>3, <1>4, <1>5, <3>1, <3>2
  <2> QED BY <1>3, <1>4, <1>5, <2>1, <2>2
<1>7. CASE hw.failing = "TRFAIL0"
  <2>1. (hw' = h /\ udd' = udd) \/ ("TRCPT0" \notin hw.flags /\ udd_ctrl_overflow(h))
    BY <1>2, <1>7 DEF _usb_ep0_on_tansfer_fail
  <2>2. CASE "TRCPT0" \notin hw.flags /\ udd_ctrl_overflow(h)
    <3>1. \/ hw' = h /\ udd' = udd
          \/ udd.state = "DATA_IN" /\ hw' = h /\ udd' = [udd EXCEPT !.state = "WAIT_OUT_ZLP"]
          \/ udd.state = "WAIT_IN_ZLP" /\ hw' = [h EXCEPT !.stall = h.stall \cup {"out"}] /\ udd' = udd
      BY <2>2 DEF udd_ctrl_overflow
    <3>2. OutFailed
      BY <1>7, <2>2 DEF OutFailed
    <3> QED BY <1>3, <1>4, <1>5, <3>1, <3>2
  <2> QED BY <1>3, <1>4, <1>5, <2>1, <2>2
<1> QED BY <1>1, <1>6, <1>7

\* Nothing failed that matters.
LEMMA FailQuietStep ==
  ASSUME IInv, _usb_ep0_on_tansfer_fail, NEW h \in HwType, Looked(h), host' = host,
         hw' = h, udd' = udd
  PROVE  IInv'
<1>1. ~Pending /\ ~hw.reset /\ hw.failing \in {"TRFAIL1", "TRFAIL0"}
  BY FailStart
<1>2. /\ hw' \in HwType /\ hw'.flags = hw.flags /\ hw'.failing = "none" /\ hw'.armed = hw.armed
      /\ hw'.bytes = hw.bytes /\ hw'.bank1 = hw.bank1 /\ hw'.stall = hw.stall
      /\ hw'.dtgin = hw.dtgin /\ hw'.dtgout = hw.dtgout /\ hw'.address = hw.address
      /\ hw'.reset = hw.reset /\ hw'.setup = hw.setup
  BY <1>1 DEF Looked
<1>3. udd' = udd
  BY <1>1
<1>4. host' = host
  BY <1>1
<1>5. StageInv'
  BY <1>2 DEF IInv, StageInv, Waits
<1>6. PendingInv'
  BY <1>2 DEF IInv, PendingInv, Pending, Took, Waits, InFailed
<1>7. ServingInv'
  BY <1>2 DEF IInv, ServingInv, Serving, Pending, Waits, Took
<1>8. ReadInv'
  BY <1>2 DEF IInv, ServingInv, ReadInv, Serving, Pending, Waits, Took, TakenInv, SentInv,
       Fresh, Min2, CtrlSize
<1>9. WriteInv'
  BY <1>2 DEF IInv, ServingInv, WriteInv, Serving, Pending, Waits
<1>10. FitsInv'
  BY <1>2 DEF IInv, ServingInv, WriteInv, FitsInv, Serving, Pending, Waits, Took, UnitTook
<1>11. PayloadInv'
  BY <1>1, <1>2, <1>3, <1>4, RequestTypes DEF IInv, TypeOK, PayloadInv, InFailed, OutFailed,
       HwType, UddType, HostType
<1>12. AddressInv'
  BY <1>2 DEF IInv, AddressInv, Serving, Pending, Waits, Took, Deaf
<1> QED BY <1>2, <1>3, <1>4, <1>5, <1>6, <1>7, <1>8, <1>9, <1>10, <1>11, <1>12 DEF IInv, TypeOK

\* The host wants the status stage before the data of a write is complete.
LEMMA FailZlpStep ==
  ASSUME IInv, _usb_ep0_on_tansfer_fail, NEW h \in HwType, Looked(h), host' = host,
         InFailed, udd.state = "DATA_OUT", ZlpSent(h, udd)
  PROVE  IInv'
<1>1. ~Pending /\ ~hw.reset /\ hw.failing \in {"TRFAIL1", "TRFAIL0"}
  BY FailStart
<1>2. /\ hw' \in HwType /\ hw'.flags = hw.flags /\ hw'.failing = "none" /\ hw'.armed = TRUE
      /\ hw'.bytes = hw.bytes /\ hw'.bank1 # NoPacket /\ hw'.bank1.mine = udd.mine
      /\ hw'.bank1.at = udd.trans /\ hw'.bank1.len = 0 /\ hw'.stall = hw.stall
      /\ hw'.dtgin = hw.dtgin /\ hw'.dtgout = hw.dtgout /\ hw'.address = hw.address
      /\ hw'.reset = hw.reset /\ hw'.setup = hw.setup
  BY <1>1 DEF Looked, ZlpSent
<1>3. /\ udd' \in UddType /\ udd'.state = "WAIT_IN_ZLP" /\ udd'.req = udd.req
      /\ udd'.mine = udd.mine /\ udd'.size = udd.size /\ udd'.trans = udd.trans
      /\ udd'.prev = udd.prev /\ udd'.short = udd.short
  BY <1>1 DEF Looked, ZlpSent
<1>4. host' = host
  BY <1>1
<1>5. StageInv'
  BY <1>2 DEF IInv, StageInv, Waits
<1>6. PendingInv'
  BY <1>2 DEF IInv, PendingInv, Pending, Took, Waits, InFailed
<1>7. ServingInv'
  BY <1>2, <1>3 DEF IInv, ServingInv, Serving, Pending, Waits, Took
<1>8. ReadInv'
  BY <1>2 DEF IInv, ServingInv, ReadInv, Serving, Pending, Waits
<1>9. WriteInv'
  BY <1>2, <1>3 DEF IInv, ServingInv, WriteInv, Serving, Pending, Waits
<1>10. FitsInv'
  BY <1>2 DEF IInv, ServingInv, WriteInv, FitsInv, Serving, Pending, Waits, Took, UnitTook,
       InFailed, OutFailed
<1>11. PayloadInv'
  BY <1>1, <1>2, <1>3, <1>4, RequestTypes DEF IInv, TypeOK, PayloadInv, InFailed, OutFailed,
       HwType, UddType, HostType
<1>12. AddressInv'
  BY <1>2, <1>3 DEF IInv, AddressInv, Serving, Deaf, Pending, Waits, Took
<1> QED BY <1>2, <1>3, <1>4, <1>5, <1>6, <1>7, <1>8, <1>9, <1>10, <1>11, <1>12 DEF IInv, TypeOK

\* The host wants more data than a read has.
LEMMA FailInStep ==
  ASSUME IInv, _usb_ep0_on_tansfer_fail, NEW h \in HwType, Looked(h), host' = host,
         InFailed, udd.state = "WAIT_OUT_ZLP", hw' = [h EXCEPT !.stall = h.stall \cup {"in"}],
         udd' = udd
  PROVE  IInv'
<1>1. ~Pending /\ ~hw.reset /\ hw.failing \in {"TRFAIL1", "TRFAIL0"}
  BY FailStart
<1>2. /\ hw' \in HwType /\ hw'.flags = hw.flags /\ hw'.failing = "none" /\ hw'.armed = hw.armed
      /\ hw'.bytes = hw.bytes /\ hw'.bank1 = hw.bank1 /\ hw'.stall = hw.stall \cup {"in"}
      /\ hw'.dtgin = hw.dtgin /\ hw'.dtgout = hw.dtgout /\ hw'.address = hw.address
      /\ hw'.reset = hw.reset /\ hw'.setup = hw.setup
  BY <1>1 DEF Looked, IInv, TypeOK, HwType, Flags
<1>3. udd' = udd
  BY <1>1
<1>4. host' = host
  BY <1>1
<1>5. StageInv'
  BY <1>2 DEF IInv, StageInv, Waits
<1>6. PendingInv'
  BY <1>2 DEF IInv, PendingInv, Pending, Took, Waits, InFailed
<1>7. ServingInv'
  BY <1>2 DEF IInv, ServingInv, Serving, Pending, Waits, Took
<1>8. ReadInv'
  BY <1>2 DEF IInv, ServingInv, ReadInv, Serving, Pending, Waits
<1>9. WriteInv'
  BY <1>2 DEF IInv, ServingInv, WriteInv, Serving, Pending, Waits
<1>10. FitsInv'
  BY <1>2 DEF IInv, ServingInv, WriteInv, FitsInv, Serving, Pending, Waits, Took, UnitTook
<1>11. PayloadInv'
  BY <1>1, <1>2, <1>3, <1>4, RequestTypes DEF IInv, TypeOK, PayloadInv, InFailed, OutFailed,
       HwType, UddType, HostType
<1>12. AddressInv'
  BY <1>2 DEF IInv, AddressInv, Serving, Deaf, Pending, Waits, Took
<1> QED BY <1>2, <1>3, <1>4, <1>5, <1>6, <1>7, <1>8, <1>9, <1>10, <1>11, <1>12 DEF IInv, TypeOK

\* The host ends a read before all of it was sent.
LEMMA FailEndStep ==
  ASSUME IInv, _usb_ep0_on_tansfer_fail, NEW h \in HwType, Looked(h), host' = host,
         OutFailed, udd.state = "DATA_IN", hw' = h, udd' = [udd EXCEPT !.state = "WAIT_OUT_ZLP"]
  PROVE  IInv'
<1>1. ~Pending /\ ~hw.reset /\ hw.failing \in {"TRFAIL1", "TRFAIL0"}
  BY FailStart
<1>2. /\ hw' \in HwType /\ hw'.flags = hw.flags /\ hw'.failing = "none" /\ hw'.armed = hw.armed
      /\ hw'.bytes = hw.bytes /\ hw'.bank1 = hw.bank1 /\ hw'.stall = hw.stall
      /\ hw'.dtgin = hw.dtgin /\ hw'.dtgout = hw.dtgout /\ hw'.address = hw.address
      /\ hw'.reset = hw.reset /\ hw'.setup = hw.setup
  BY <1>1 DEF Looked, IInv, TypeOK, HwType, Flags
<1>3. /\ udd' \in UddType /\ udd'.state = "WAIT_OUT_ZLP" /\ udd'.req = udd.req
      /\ udd'.mine = udd.mine /\ udd'.size = udd.size /\ udd'.trans = udd.trans
      /\ udd'.prev = udd.prev /\ udd'.short = udd.short
  BY <1>1 DEF Looked, IInv, TypeOK, UddType, States
<1>4. host' = host
  BY <1>1
<1>5. StageInv'
  BY <1>2 DEF IInv, StageInv, Waits
<1>6. PendingInv'
  BY <1>2 DEF IInv, PendingInv, Pending, OutFailed
<1>7. ServingInv'
  BY <1>2 DEF IInv, ServingInv, Serving, Pending, Waits, Took
<1>8. ReadInv'
  BY <1>2 DEF IInv, ServingInv, ReadInv, Serving, Pending, Waits, InFailed, OutFailed
<1>9. WriteInv'
  BY <1>2 DEF IInv, ServingInv, WriteInv, Serving, Pending, Waits
<1>10. FitsInv'
  BY <1>2 DEF IInv, ServingInv, WriteInv, FitsInv, Serving, Pending, Waits, Took, UnitTook
<1>11. PayloadInv'
  BY <1>1, <1>2, <1>3, <1>4, RequestTypes DEF IInv, TypeOK, PayloadInv, InFailed, OutFailed,
       HwType, UddType, HostType
<1>12. AddressInv'
  BY <1>2 DEF IInv, AddressInv, Serving, Deaf, Pending, Waits, Took
<1> QED BY <1>2, <1>3, <1>4, <1>5, <1>6, <1>7, <1>8, <1>9, <1>10, <1>11, <1>12 DEF IInv, TypeOK

\* The host sends more data than a write has.
LEMMA FailOutStep ==
  ASSUME IInv, _usb_ep0_on_tansfer_fail, NEW h \in HwType, Looked(h), host' = host,
         OutFailed, udd.state = "WAIT_IN_ZLP", hw' = [h EXCEPT !.stall = h.stall \cup {"out"}],
         udd' = udd
  PROVE  IInv'
<1>1. ~Pending /\ ~hw.reset /\ hw.failing \in {"TRFAIL1", "TRFAIL0"}
  BY FailStart
<1>2. /\ hw' \in HwType /\ hw'.flags = hw.flags /\ hw'.failing = "none" /\ hw'.armed = hw.armed
      /\ hw'.bytes = hw.bytes /\ hw'.bank1 = hw.bank1 /\ hw'.stall = hw.stall \cup {"out"}
      /\ hw'.dtgin = hw.dtgin /\ hw'.dtgout = hw.dtgout /\ hw'.address = hw.address
      /\ hw'.reset = hw.reset /\ hw'.setup = hw.setup
  BY <1>1 DEF Looked, IInv, TypeOK, HwType, Flags
<1>3. udd' = udd
  BY <1>1
<1>4. host' = host
  BY <1>1
<1>5. StageInv'
  BY <1>2 DEF IInv, StageInv, Waits
<1>6. PendingInv'
  BY <1>2 DEF IInv, PendingInv, Pending, OutFailed
<1>7. ServingInv'
  BY <1>2 DEF IInv, ServingInv, Serving, Pending, Waits, Took
<1>8. ReadInv'
  BY <1>2 DEF IInv, ServingInv, ReadInv, Serving, Pending, Waits
<1>9. WriteInv'
  BY <1>2 DEF IInv, ServingInv, WriteInv, Serving, Pending, Waits
<1>10. FitsInv'
  BY <1>2 DEF IInv, ServingInv, WriteInv, FitsInv, Serving, Pending, Waits, Took, UnitTook
<1>11. PayloadInv'
  BY <1>1, <1>2, <1>3, <1>4, RequestTypes DEF IInv, TypeOK, PayloadInv, InFailed, OutFailed,
       HwType, UddType, HostType
<1>12. AddressInv'
  BY <1>2 DEF IInv, AddressInv, Serving, Pending, Waits, Took, Deaf
<1> QED BY <1>2, <1>3, <1>4, <1>5, <1>6, <1>7, <1>8, <1>9, <1>10, <1>11, <1>12 DEF IInv, TypeOK

\* A failed transfer, whatever it was of.
LEMMA FailStep ==
  ASSUME IInv, _usb_ep0_on_tansfer_fail
  PROVE  IInv'
<1>1. PICK h \in HwType :
         /\ Looked(h) /\ host' = host
         /\ \/ hw' = h /\ udd' = udd
            \/ InFailed /\ udd.state = "DATA_OUT" /\ udd_ctrl_send_zlp_in(h, udd)
            \/ InFailed /\ udd.state = "WAIT_OUT_ZLP" /\ hw' = [h EXCEPT !.stall = h.stall \cup {"in"}] /\ udd' = udd
            \/ OutFailed /\ udd.state = "DATA_IN" /\ hw' = h /\ udd' = [udd EXCEPT !.state = "WAIT_OUT_ZLP"]
            \/ OutFailed /\ udd.state = "WAIT_IN_ZLP" /\ hw' = [h EXCEPT !.stall = h.stall \cup {"out"}] /\ udd' = udd
  BY FailLooks
<1>2. CASE hw' = h /\ udd' = udd
  BY <1>1, <1>2, FailQuietStep
<1>3. CASE InFailed /\ udd.state = "DATA_OUT" /\ udd_ctrl_send_zlp_in(h, udd)
  <2>1. udd \in UddType
    BY DEF IInv, TypeOK
  <2>2. ZlpSent(h, udd)
    BY <1>3, <2>1, ZlpEffect
  <2> QED BY <1>1, <1>3, <2>2, FailZlpStep
<1>4. CASE InFailed /\ udd.state = "WAIT_OUT_ZLP" /\ hw' = [h EXCEPT !.stall = h.stall \cup {"in"}] /\ udd' = udd
  BY <1>1, <1>4, FailInStep
<1>5. CASE OutFailed /\ udd.state = "DATA_IN" /\ hw' = h /\ udd' = [udd EXCEPT !.state = "WAIT_OUT_ZLP"]
  BY <1>1, <1>5, FailEndStep
<1>6. CASE OutFailed /\ udd.state = "WAIT_IN_ZLP" /\ hw' = [h EXCEPT !.stall = h.stall \cup {"out"}] /\ udd' = udd
  BY <1>1, <1>6, FailOutStep
<1> QED BY <1>1, <1>2, <1>3, <1>4, <1>5, <1>6

\* The device starts over.
LEMMA BusResetStep ==
  ASSUME IInv, _usb_on_bus_reset
  PROVE  IInv'
<1>1. hw.reset /\ hw.flags = {} /\ hw.failing = "none"
  BY DEF _usb_on_bus_reset
<1>2. host.stage = "idle" /\ host.addr = 0 /\ ~Waits
  BY <1>1 DEF IInv, StageInv, Waits
<1>3. /\ hw' \in HwType /\ hw'.flags = hw.flags /\ hw'.failing = hw.failing /\ hw'.armed = TRUE
      /\ hw'.bytes = hw.bytes /\ hw'.bank1 = hw.bank1 /\ hw'.stall = hw.stall
      /\ hw'.dtgin = hw.dtgin /\ hw'.dtgout = hw.dtgout /\ hw'.address = 0 /\ hw'.reset = FALSE
      /\ hw'.setup = hw.setup
  BY <1>1, <1>2 DEF _usb_on_bus_reset, IInv, TypeOK, HwType, Flags
<1>4. /\ udd' \in UddType /\ udd'.state = "SETUP" /\ udd'.req = udd.req /\ udd'.mine = udd.mine
      /\ udd'.size = udd.size /\ udd'.trans = udd.trans /\ udd'.prev = udd.prev
      /\ udd'.short = udd.short
  BY <1>1, <1>2 DEF _usb_on_bus_reset, IInv, TypeOK, UddType, States
<1>5. host' = host
  BY DEF _usb_on_bus_reset
<1>6. StageInv'
  BY <1>1, <1>2, <1>3, <1>4, <1>5, RequestTypes DEF IInv, TypeOK, StageInv, Waits, HwType,
       UddType, HostType
<1>7. PendingInv'
  BY <1>2, <1>3 DEF IInv, PendingInv, Pending
<1>8. ServingInv'
  BY <1>2, <1>5 DEF IInv, ServingInv, Serving, Pending, Waits, Took
<1>9. ReadInv'
  BY <1>2, <1>5 DEF IInv, ServingInv, ReadInv, Serving, Pending, Waits
<1>10. WriteInv'
  BY <1>3, <1>4, <1>5 DEF IInv, ServingInv, WriteInv, Serving, Pending, Waits
<1>11. FitsInv'
  BY <1>2, <1>5 DEF FitsInv, Serving, Pending, Waits, Took, UnitTook
<1>12. PayloadInv'
  BY <1>1, <1>2, <1>3, <1>4, <1>5, RequestTypes DEF IInv, TypeOK, PayloadInv, HwType, UddType,
       HostType
<1>13. AddressInv'
  BY <1>1, <1>2, <1>3, <1>4, <1>5 DEF IInv, AddressInv, Serving, Pending, Waits, Took, Deaf
<1> QED BY <1>3, <1>4, <1>5, <1>6, <1>7, <1>8, <1>9, <1>10, <1>11, <1>12, <1>13 DEF IInv, TypeOK

\* A request that was given up or is done: the host waits for nothing.
LEMMA IdleEffect ==
  ASSUME host \in HostType, host' = Idle(host)
  PROVE  /\ host' \in HostType /\ host'.stage = "idle" /\ host'.req = NoRequest /\ host'.got = 0
         /\ host'.sent = 0 /\ host'.tog = 1 /\ host'.addr = host.addr /\ host'.parted = host.parted
BY DEF Idle, HostType, Stages

\* The SETUP of a request: the unit empties its banks.
LEMMA HostSetupStep ==
  ASSUME IInv, Timely, HostSetup, host' = [host EXCEPT !.stage = AfterSetup(host.req)]
  PROVE  IInv'
<1>1. /\ host.stage = "setup" /\ hw.flags = {} /\ hw.failing = "none" /\ ~hw.reset
      /\ host.addr = hw.address
      /\ host.req \in Requests
  BY DEF HostSetup, Served, Heard, Timely, IInv, StageInv
<1>2. NoPacket \in [mine : BOOLEAN, at : Nat, len : -1 .. CtrlSize]
  BY DEF NoPacket, CtrlSize
<1>3. [mine |-> TRUE, req |-> host.req] \in [mine : BOOLEAN, req : Requests \cup {NoRequest}]
  BY <1>1
<1>4. AfterSetup(host.req) \in {"in", "out", "statusIn"}
  BY DEF AfterSetup
<1>5. /\ hw' \in HwType /\ hw'.flags = {"RXSTP"} /\ hw'.failing = hw.failing
      /\ hw'.armed = FALSE /\ hw'.bytes = hw.bytes /\ hw'.bank1 = NoPacket /\ hw'.stall = {}
      /\ hw'.dtgin = 1 /\ hw'.dtgout = 1 /\ hw'.address = hw.address /\ hw'.reset = hw.reset
      /\ hw'.setup = [mine |-> TRUE, req |-> host.req]
  BY <1>1, <1>2, <1>3, <1>4 DEF HostSetup, Served, IInv, TypeOK, HwType, Flags
<1>6. udd' = udd
  BY DEF HostSetup, Served
<1>7. /\ host' \in HostType /\ host'.stage = AfterSetup(host.req) /\ host'.req = host.req
      /\ host'.got = host.got /\ host'.sent = host.sent /\ host'.tog = host.tog
      /\ host'.addr = host.addr /\ host'.parted = host.parted
  BY <1>1, <1>2, <1>3, <1>4 DEF HostSetup, Served, IInv, TypeOK, HostType, Stages, Garbled
<1>8. StageInv'
  BY <1>1, <1>5, RequestTypes DEF IInv, StageInv, Waits, AfterSetup
<1>9. PendingInv'
  BY <1>1, <1>5 DEF IInv, PendingInv, Pending, Took, Waits, AfterSetup, StageInv
<1>10. ServingInv'
  BY <1>5 DEF IInv, ServingInv, Serving, Pending, Waits, Took
<1>11. ReadInv'
  BY <1>5 DEF IInv, ServingInv, ReadInv, Serving, Pending, Waits
<1>12. WriteInv'
  BY <1>5 DEF IInv, ServingInv, WriteInv, Serving, Pending, Waits
<1>13. FitsInv'
  BY <1>5 DEF FitsInv, Serving, Pending
<1>14. PayloadInv'
  BY <1>5, <1>6 DEF IInv, PayloadInv, NoPacket
<1>15. AddressInv'
  BY <1>1, <1>5, <1>6 DEF IInv, AddressInv, Serving, Pending, Waits, Took, Deaf
<1> QED BY <1>5, <1>6, <1>7, <1>8, <1>9, <1>10, <1>11, <1>12, <1>13, <1>14, <1>15 DEF IInv,
     TypeOK

\* The endpoint halted: the host drops its request.
LEMMA HostStalledStep ==
  ASSUME IInv, HostStalled
  PROVE  IInv'
<1>1. Heard /\ Stalled /\ host' = Idle(host)
  BY DEF HostStalled
<1>2. hw' = hw
  BY DEF HostStalled, Idle
<1>3. udd' = udd
  BY DEF HostStalled, Idle
<1>4. /\ host' \in HostType /\ host'.stage = "idle" /\ host'.req = NoRequest /\ host'.got = 0
      /\ host'.sent = 0 /\ host'.tog = 1 /\ host'.addr = host.addr /\ host'.parted = host.parted
  BY <1>1, IdleEffect DEF HostStalled, Idle, IInv, TypeOK, HostType, Stages, Garbled
<1>5. StageInv'
  BY <1>2, <1>4 DEF IInv, StageInv, Waits
<1>6. PendingInv'
  BY <1>1, <1>2 DEF IInv, PendingInv, Pending, Heard, Stalled, WriteInv
<1>7. ServingInv'
  BY <1>4 DEF IInv, ServingInv, Serving, Pending, Waits, Took
<1>8. ReadInv'
  BY <1>4 DEF IInv, ServingInv, ReadInv, NoRequest
<1>9. WriteInv'
  BY <1>4 DEF IInv, ServingInv, WriteInv, NoRequest
<1>10. FitsInv'
  BY <1>4 DEF FitsInv, Serving, Pending, NoRequest
<1>11. PayloadInv'
  BY <1>2, <1>3 DEF IInv, PayloadInv
<1>12. AddressInv'
  BY <1>1, <1>2, <1>3, <1>4, RequestTypes DEF IInv, AddressInv, Serving, Pending, Waits, Took,
       NoRequest, Stalled, WriteInv, StageInv, Deaf
<1> QED BY <1>2, <1>3, <1>4, <1>5, <1>6, <1>7, <1>8, <1>9, <1>10, <1>11, <1>12 DEF IInv, TypeOK

\* The bus is reset.
LEMMA HostResetStep ==
  ASSUME IInv, HostReset
  PROVE  IInv'
<1>1. ~hw.reset /\ hw.failing = "none"
  BY DEF HostReset
<1>2. /\ hw' \in HwType /\ hw'.flags = {} /\ hw'.failing = hw.failing /\ hw'.armed = hw.armed
      /\ hw'.bytes = hw.bytes /\ hw'.bank1 = hw.bank1 /\ hw'.stall = {} /\ hw'.dtgin = hw.dtgin
      /\ hw'.dtgout = hw.dtgout /\ hw'.address = 0 /\ hw'.reset = TRUE /\ hw'.setup = hw.setup
  BY <1>1 DEF HostReset, Idle, IInv, TypeOK, HwType, Flags
<1>3. udd' = udd
  BY DEF HostReset, Idle
<1>4. /\ host' \in HostType /\ host'.stage = "idle" /\ host'.req = NoRequest /\ host'.got = 0
      /\ host'.sent = 0 /\ host'.tog = 1 /\ host'.addr = 0
  BY <1>1 DEF HostReset, Idle, IInv, TypeOK, HostType, Stages, Garbled
<1>5. StageInv'
  BY <1>1, <1>2, <1>3, <1>4 DEF IInv, TypeOK, StageInv, Waits, NoRequest, HwType, UddType,
       HostType
<1>6. PendingInv'
  BY <1>2 DEF IInv, PendingInv, Pending
<1>7. ServingInv'
  BY <1>4 DEF IInv, ServingInv, Serving, Pending, Waits, Took
<1>8. ReadInv'
  BY <1>4 DEF IInv, ServingInv, ReadInv, NoRequest
<1>9. WriteInv'
  BY <1>4 DEF IInv, ServingInv, WriteInv, NoRequest
<1>10. FitsInv'
  BY <1>4 DEF FitsInv, Serving, Pending, NoRequest
<1>11. PayloadInv'
  BY <1>1, <1>2, <1>3, <1>4 DEF IInv, TypeOK, PayloadInv, NoRequest, HwType, UddType, HostType
<1>12. AddressInv'
  BY <1>2, <1>4 DEF IInv, AddressInv, Serving, Deaf, Pending, Waits, Took
<1> QED BY <1>2, <1>3, <1>4, <1>5, <1>6, <1>7, <1>8, <1>9, <1>10, <1>11, <1>12 DEF IInv, TypeOK

\* There is nothing to send.
LEMMA RefusedInStep ==
  ASSUME IInv, HostRefused,
         hw' = [hw EXCEPT !.flags = @ \cup {"TRFAIL1"}], host.stage \in {"in", "statusIn"}
  PROVE  IInv'
<1>1. ~hw.reset
  BY DEF HostRefused, Heard
<1>2. /\ hw' \in HwType /\ hw'.flags = hw.flags \cup {"TRFAIL1"} /\ hw'.failing = hw.failing
      /\ hw'.armed = hw.armed /\ hw'.bytes = hw.bytes /\ hw'.bank1 = hw.bank1
      /\ hw'.stall = hw.stall /\ hw'.dtgin = hw.dtgin /\ hw'.dtgout = hw.dtgout
      /\ hw'.address = hw.address /\ hw'.reset = hw.reset /\ hw'.setup = hw.setup
  BY <1>1 DEF HostRefused, IInv, TypeOK, HwType, Flags
<1>3. udd' = udd
  BY DEF HostRefused
<1>4. host' = host
  BY DEF HostRefused
<1>5. StageInv'
  BY <1>1, <1>2, <1>3, <1>4 DEF IInv, TypeOK, StageInv, Waits, HwType, UddType, HostType
<1>6. PendingInv'
  BY <1>4 DEF IInv, PendingInv, Pending, Took, Waits
<1>7. ServingInv'
  BY <1>3, <1>4 DEF IInv, ServingInv, Serving, Pending, Waits, Took
<1>8. ReadInv'
  BY <1>3, <1>4 DEF IInv, ServingInv, ReadInv, Serving, Pending, Waits, Took, TakenInv, SentInv,
       Fresh, Min2, CtrlSize
<1>9. WriteInv'
  BY <1>3, <1>4 DEF IInv, ServingInv, WriteInv, Serving, Pending, Waits, StageInv
<1>10. FitsInv'
  BY <1>3, <1>4 DEF IInv, ServingInv, WriteInv, FitsInv, Serving, Pending, Waits, Took, UnitTook
<1>11. PayloadInv'
  BY <1>1, <1>2, <1>3, <1>4 DEF IInv, TypeOK, PayloadInv, StageInv, HwType, UddType, HostType
<1>12. AddressInv'
  BY <1>3, <1>4 DEF IInv, AddressInv, Serving, Pending, Waits, Took, Deaf
<1> QED BY <1>2, <1>3, <1>4, <1>5, <1>6, <1>7, <1>8, <1>9, <1>10, <1>11, <1>12 DEF IInv, TypeOK

\* There is no room.
LEMMA RefusedOutStep ==
  ASSUME IInv, HostRefused,
         hw' = [hw EXCEPT !.flags = @ \cup {"TRFAIL0"}], host.stage \in {"out", "statusOut"}
  PROVE  IInv'
<1>1. ~hw.reset
  BY DEF HostRefused, Heard
<1>2. /\ hw' \in HwType /\ hw'.flags = hw.flags \cup {"TRFAIL0"} /\ hw'.failing = hw.failing
      /\ hw'.armed = hw.armed /\ hw'.bytes = hw.bytes /\ hw'.bank1 = hw.bank1
      /\ hw'.stall = hw.stall /\ hw'.dtgin = hw.dtgin /\ hw'.dtgout = hw.dtgout
      /\ hw'.address = hw.address /\ hw'.reset = hw.reset /\ hw'.setup = hw.setup
  BY <1>1 DEF HostRefused, IInv, TypeOK, HwType, Flags
<1>3. udd' = udd
  BY DEF HostRefused
<1>4. host' = host
  BY DEF HostRefused
<1>5. StageInv'
  BY <1>1, <1>2, <1>3, <1>4 DEF IInv, TypeOK, StageInv, Waits, HwType, UddType, HostType
<1>6. PendingInv'
  BY <1>4 DEF IInv, PendingInv, Pending, Took, Waits
<1>7. ServingInv'
  BY <1>3, <1>4 DEF IInv, ServingInv, Serving, Pending, Waits, Took
<1>8. ReadInv'
  BY <1>3, <1>4 DEF IInv, ServingInv, ReadInv, Serving, Pending, Waits
<1>9. WriteInv'
  BY <1>3, <1>4 DEF IInv, ServingInv, WriteInv, Serving, Pending, Waits
<1>10. FitsInv'
  BY <1>3, <1>4 DEF IInv, ServingInv, WriteInv, FitsInv, Serving, Pending, Waits, Took, UnitTook
<1>11. PayloadInv'
  BY <1>1, <1>2, <1>3, <1>4 DEF IInv, TypeOK, PayloadInv, StageInv, HwType, UddType, HostType
<1>12. AddressInv'
  BY <1>3, <1>4 DEF IInv, AddressInv, Serving, Pending, Waits, Took, Deaf
<1> QED BY <1>2, <1>3, <1>4, <1>5, <1>6, <1>7, <1>8, <1>9, <1>10, <1>11, <1>12 DEF IInv, TypeOK

-----------------------------------------------------------------------------
(***************************************************************************)
(* The packets of the host.                                                *)
(***************************************************************************)

\* Bank 0, the device and the host when a packet of the host is taken.
OutReady ==
  /\ Serving /\ host.req.ok /\ hw.armed /\ ~hw.reset /\ host.addr = hw.address
  /\ udd.req = host.req /\ udd.mine /\ udd.req.address = 0
  /\ host.stage \in {"out", "statusOut"} /\ host.req \in Requests
  /\ "out" \notin hw.stall

\* Bank 0 is armed only for a request that is in order.
LEMMA OutStart ==
  ASSUME IInv, HostOut
  PROVE  OutReady
<1>1. /\ hw.armed /\ ~hw.reset /\ host.addr = hw.address /\ host.stage \in {"out", "statusOut"}
      /\ "out" \notin hw.stall
  BY DEF HostOut, Heard
<1>2. Serving
  BY <1>1 DEF IInv, PendingInv, Serving, Waits
<1>3. host.req.ok /\ udd.req = host.req /\ udd.mine
  BY <1>1, <1>2 DEF IInv, ServingInv
<1>4. host.req \in Requests
  BY <1>1 DEF IInv, StageInv
<1>5. udd.req.address = 0
  BY <1>1, <1>2 DEF IInv, AddressInv, Serving, Pending, Waits, Deaf
<1> QED BY <1>1, <1>2, <1>3, <1>4, <1>5 DEF OutReady

\* What the unit makes of a packet: it takes it, or acknowledges one it has taken before.
OutTaken(n) ==
  /\ host.tog = hw.dtgout
  /\ hw' = [hw EXCEPT !.flags = hw.flags \cup {"TRCPT0"}, !.armed = FALSE, !.bytes = n, !.dtgout = 1 - hw.dtgout]
OutAgain == host.tog # hw.dtgout /\ hw' = hw
DataHeard(n) ==
  /\ host.stage = "out" /\ n = Min2(host.req.wLength - host.sent, CtrlSize)
  /\ host' = IF host.sent + n = host.req.wLength
             THEN [host EXCEPT !.sent = host.sent + n, !.stage = "statusIn", !.tog = 1]
             ELSE [host EXCEPT !.sent = host.sent + n, !.tog = 1 - host.tog]

\* An OUT that is not refused is taken or sent again, and the host hears of it or not.
LEMMA OutCases ==
  ASSUME IInv, HostOut
  PROVE  \E n \in 0 .. CtrlSize :
         /\ host.stage = "out" => /\ n > 0 /\ n = Min2(host.req.wLength - host.sent, CtrlSize)
                                  /\ host.sent + n <= host.req.wLength
         /\ OutTaken(n) \/ OutAgain
         /\ host' = host \/ DataHeard(n) \/ (host.stage = "statusOut" /\ host' = Idle(host))
<1>1. host \in HostType /\ host.stage \in {"out", "statusOut"} /\ host.req \in Requests
  BY OutStart DEF OutReady, IInv, TypeOK
<1>2. host.req.wLength \in Nat /\ host.sent \in Nat
  BY <1>1, RequestAssumption DEF HostType
<1>3. host.stage = "out" => host.sent < host.req.wLength
  BY DEF IInv, StageInv
<1>4. PICK n : n = IF host.stage = "out" THEN Min2(host.req.wLength - host.sent, CtrlSize) ELSE 0
  OBVIOUS
<1>5. /\ n \in 0 .. CtrlSize
      /\ host.stage = "out" => /\ n > 0 /\ n = Min2(host.req.wLength - host.sent, CtrlSize)
                               /\ host.sent + n <= host.req.wLength
  BY <1>2, <1>3, <1>4 DEF OutReady, Min2, CtrlSize
<1>6. OutTaken(n) \/ OutAgain
  BY <1>4 DEF HostOut, OutTaken, OutAgain
<1>7. host' = host \/ DataHeard(n) \/ (host.stage = "statusOut" /\ host' = Idle(host))
  <2>1. CASE host.stage = "statusOut"
    BY <2>1 DEF HostOut
  <2>2. CASE host.stage = "out"
    BY <1>4, <1>5, <2>2 DEF HostOut, DataHeard
  <2> QED BY <1>1, <2>1, <2>2
<1> QED BY <1>5, <1>6, <1>7

\* The registers once the unit has taken n bytes.
TakenRegs(n) ==
  /\ hw' \in HwType /\ hw'.flags = hw.flags \cup {"TRCPT0"} /\ hw'.failing = hw.failing
  /\ hw'.armed = FALSE
  /\ hw'.bytes = n /\ hw'.bank1 = hw.bank1 /\ hw'.stall = hw.stall /\ hw'.dtgin = hw.dtgin
  /\ hw'.dtgout = 1 - hw.dtgout /\ hw'.address = hw.address /\ hw'.reset = hw.reset
  /\ hw'.setup = hw.setup

\* The unit's registers when it takes a packet, field by field.
LEMMA TakenEffect ==
  ASSUME hw \in HwType, NEW n \in 0 .. CtrlSize, OutTaken(n)
  PROVE  TakenRegs(n) /\ host.tog = hw.dtgout
<1>1. PICK t \in {0, 1} : t = 1 - hw.dtgout
  BY DEF HwType
<1>2. PICK f \in SUBSET Flags : f = hw.flags \cup {"TRCPT0"}
  BY DEF HwType, Flags
<1>3. /\ hw' = [hw EXCEPT !.flags = f, !.armed = FALSE, !.bytes = n, !.dtgout = t]
      /\ host.tog = hw.dtgout
  BY <1>1, <1>2 DEF OutTaken
<1>4. /\ hw' \in HwType /\ hw'.flags = f /\ hw'.failing = hw.failing /\ hw'.armed = FALSE
      /\ hw'.bytes = n /\ hw'.bank1 = hw.bank1 /\ hw'.stall = hw.stall /\ hw'.dtgin = hw.dtgin
      /\ hw'.dtgout = t /\ hw'.address = hw.address /\ hw'.reset = hw.reset /\ hw'.setup = hw.setup
  BY <1>3 DEF HwType
<1> QED BY <1>1, <1>2, <1>3, <1>4 DEF TakenRegs

\* The host once it knows that n bytes more were taken.
HeardHost(n) ==
  /\ host' \in HostType /\ host'.req = host.req /\ host'.got = host.got /\ host'.addr = host.addr /\ host'.parted = host.parted
  /\ host'.sent = host.sent + n
  /\ host.sent + n = host.req.wLength => host'.stage = "statusIn" /\ host'.tog = 1
  /\ host.sent + n # host.req.wLength => host'.stage = "out" /\ host'.tog = 1 - host.tog

\* The host when it hears that its data arrived, field by field.
LEMMA HeardEffect ==
  ASSUME host \in HostType, NEW n \in 0 .. CtrlSize, DataHeard(n)
  PROVE  HeardHost(n)
<1>1. PICK s \in Nat : s = host.sent + n
  BY DEF HostType
<1>2. PICK t \in {0, 1} : t = 1 - host.tog
  BY DEF HostType
<1>3. CASE s = host.req.wLength
  <2>1. host' = [host EXCEPT !.sent = s, !.stage = "statusIn", !.tog = 1]
    BY <1>1, <1>3 DEF DataHeard
  <2> QED BY <1>1, <1>3, <2>1 DEF HeardHost, HostType, Stages
<1>4. CASE s # host.req.wLength
  <2>1. host' = [host EXCEPT !.sent = s, !.tog = t] /\ host.stage = "out"
    BY <1>1, <1>2, <1>4 DEF DataHeard
  <2> QED BY <1>1, <1>2, <1>4, <2>1 DEF HeardHost, HostType, Stages
<1> QED BY <1>3, <1>4

\* A write that fits and has room: the unit takes the packet the host sends unless it has
\* taken it before, and what it has taken before the device has.
LEMMA FitsRoom ==
  ASSUME IInv, HostOut, host.stage = "out", host.req.wLength <= host.req.size
  PROVE  /\ host.tog = hw.dtgout =>
              /\ udd.state = "DATA_OUT" /\ udd.trans = host.sent /\ hw.bank1 = NoPacket
              /\ hw.failing # "TRFAIL1" /\ udd.prev = 0
         /\ udd.state = "DATA_OUT" => "TRCPT0" \notin hw.flags
<1>1. /\ Serving /\ host.req.ok /\ hw.armed /\ udd.req = host.req /\ host.req \in Requests
  BY OutStart DEF OutReady
<1>2. host.req.dir = "out" /\ host.sent < host.req.wLength
  BY DEF IInv, StageInv
<1>3. host.sent \in Nat /\ host.req.wLength \in Nat
  BY <1>1, RequestAssumption DEF IInv, TypeOK, HostType
<1>4. host.tog = hw.dtgout => UnitTook = host.sent
  BY DEF OutReady, UnitTook
<1> QED BY <1>1, <1>2, <1>3, <1>4 DEF IInv, FitsInv

\* The unit takes data of a write, and the host knows.
LEMMA DataStep ==
  ASSUME IInv, HostOut, NEW n \in 0 .. CtrlSize, OutTaken(n), DataHeard(n), n > 0,
         host.sent + n <= host.req.wLength
  PROVE  IInv'
<1>1. OutReady
  BY OutStart
<1>2. host.req.wLength \in Nat /\ host.sent \in Nat /\ host.tog \in {0, 1} /\ hw.dtgout \in {0, 1}
  BY <1>1, RequestAssumption DEF OutReady, IInv, TypeOK, HostType, HwType
<1>3. TakenRegs(n) /\ host.tog = hw.dtgout
  BY TakenEffect DEF IInv, TypeOK
<1>4. HeardHost(n)
  BY HeardEffect DEF IInv, TypeOK
<1>5. /\ host.stage = "out" /\ n > 0 /\ n = Min2(host.req.wLength - host.sent, CtrlSize)
      /\ host.sent + n <= host.req.wLength
  BY DEF DataHeard
<1>6. /\ host.sent + n = host.req.wLength => host'.stage = "statusIn" /\ host'.tog = 1
      /\ host.sent + n # host.req.wLength => host'.stage = "out" /\ host'.tog = 1 - host.tog
  BY <1>4 DEF HeardHost
<1>7. /\ hw' \in HwType /\ hw'.flags = hw.flags \cup {"TRCPT0"} /\ hw'.failing = hw.failing
      /\ hw'.armed = FALSE /\ hw'.bytes = n /\ hw'.bank1 = hw.bank1 /\ hw'.stall = hw.stall
      /\ hw'.dtgin = hw.dtgin /\ hw'.dtgout = 1 - hw.dtgout /\ hw'.address = hw.address
      /\ hw'.reset = hw.reset /\ hw'.setup = hw.setup
  BY <1>1, <1>2, <1>3, <1>4, <1>5, <1>6 DEF HostOut, OutReady, TakenRegs, HeardHost
<1>8. udd' = udd
  BY DEF HostOut, OutReady, TakenRegs, HeardHost
<1>9. /\ host' \in HostType /\ host'.req = host.req /\ host'.got = host.got
      /\ host'.sent = host.sent + n /\ host'.addr = host.addr /\ host'.parted = host.parted
  BY <1>1, <1>2, <1>3, <1>4, <1>5, <1>6 DEF HostOut, OutReady, TakenRegs, HeardHost
<1>10. StageInv'
  BY <1>2, <1>5, <1>6, <1>7, <1>9 DEF IInv, StageInv, Waits
<1>11. PendingInv'
  BY <1>1, <1>7 DEF IInv, PendingInv, Pending, OutReady
<1>12. ServingInv'
  BY <1>1, <1>8, <1>9 DEF IInv, ServingInv, Serving, OutReady
<1>13. ReadInv'
  BY <1>5, <1>9 DEF IInv, ServingInv, ReadInv, StageInv
<1>14. WriteInv'
  BY <1>5, <1>7, <1>8, <1>9 DEF IInv, ServingInv, WriteInv, Serving, Pending, Waits
<1>15. FitsInv'
  <2> SUFFICES ASSUME Serving', host'.req.ok, host'.req.dir = "out",
                      host'.req.wLength <= host'.req.size
               PROVE  FitsInv'
    BY DEF FitsInv
  <2>1. host.req.wLength <= host.req.size /\ host.req.dir = "out"
    BY <1>9
  <2>2. /\ udd.state = "DATA_OUT" /\ udd.trans = host.sent /\ hw.bank1 = NoPacket
        /\ hw.failing # "TRFAIL1" /\ udd.prev = 0
    BY <1>3, <1>5, <2>1, FitsRoom DEF OutReady
  <2>3. UnitTook' = host.sent + n
    BY <1>2, <1>3, <1>6, <1>7, <1>9 DEF OutReady, UnitTook
  <2>4. n = CtrlSize \/ host.sent + n = host.req.wLength
    BY <1>2, <1>5 DEF OutReady, Min2, CtrlSize
  <2>5. /\ udd'.state = "DATA_OUT" /\ hw'.bank1 = NoPacket /\ "out" \notin hw'.stall
        /\ hw'.failing # "TRFAIL1"
        /\ udd'.prev = 0 /\ udd'.req.wLength > 0 /\ ~hw'.armed /\ "TRCPT0" \in hw'.flags
        /\ udd'.trans + hw'.bytes = UnitTook'
        /\ hw'.bytes = CtrlSize \/ udd'.trans + hw'.bytes = udd'.req.wLength
    BY <1>1, <1>2, <1>5, <1>7, <1>8, <2>2, <2>3, <2>4 DEF OutReady
  <2> QED BY <2>5 DEF OutReady, FitsInv
<1>16. PayloadInv'
  BY <1>7, <1>8 DEF IInv, PayloadInv
<1>17. AddressInv'
  BY <1>1, <1>7, <1>8, <1>9 DEF IInv, AddressInv, Serving, OutReady, Deaf, Pending, Waits, Took
<1> QED BY <1>7, <1>8, <1>9, <1>10, <1>11, <1>12, <1>13, <1>14, <1>15, <1>16, <1>17 DEF IInv,
     TypeOK

\* The unit takes data of a write, and the handshake gets lost.
LEMMA DataLostStep ==
  ASSUME IInv, HostOut, NEW n \in 0 .. CtrlSize, OutTaken(n), host.stage = "out",
         n > 0, n = Min2(host.req.wLength - host.sent, CtrlSize),
         host.sent + n <= host.req.wLength, host' = host
  PROVE  IInv'
<1>1. OutReady
  BY OutStart
<1>2. host.req.wLength \in Nat /\ host.sent \in Nat /\ host.tog \in {0, 1} /\ hw.dtgout \in {0, 1}
  BY <1>1, RequestAssumption DEF OutReady, IInv, TypeOK, HostType, HwType
<1>3. TakenRegs(n) /\ host.tog = hw.dtgout
  BY TakenEffect DEF IInv, TypeOK
<1>4. udd' = udd
  BY DEF HostOut
<1>5. /\ hw' \in HwType /\ hw'.flags = hw.flags \cup {"TRCPT0"} /\ hw'.failing = hw.failing
      /\ hw'.armed = FALSE /\ hw'.bytes = n /\ hw'.bank1 = hw.bank1 /\ hw'.stall = hw.stall
      /\ hw'.dtgin = hw.dtgin /\ hw'.dtgout = 1 - hw.dtgout /\ hw'.address = hw.address
      /\ hw'.reset = hw.reset /\ hw'.setup = hw.setup
  BY <1>1, <1>2, <1>3, <1>4 DEF HostOut, OutReady, TakenRegs
<1>6. udd' = udd
  BY <1>1, <1>2, <1>3, <1>4
<1>7. host' = host
  BY <1>1, <1>2, <1>3, <1>4
<1>8. StageInv'
  BY <1>5 DEF IInv, StageInv, Waits
<1>9. PendingInv'
  BY <1>1, <1>5 DEF IInv, PendingInv, Pending, OutReady
<1>10. ServingInv'
  BY <1>1, <1>6 DEF IInv, ServingInv, Serving, OutReady
<1>11. ReadInv'
  BY DEF IInv, ServingInv, ReadInv, StageInv
<1>12. WriteInv'
  BY <1>5, <1>6 DEF IInv, ServingInv, WriteInv, Serving, Pending, Waits
<1>13. FitsInv'
  <2> SUFFICES ASSUME Serving', host'.req.ok, host'.req.dir = "out",
                      host'.req.wLength <= host'.req.size
               PROVE  FitsInv'
    BY DEF FitsInv
  <2>1. host.req.wLength <= host.req.size /\ host.req.dir = "out"
    BY <1>7
  <2>2. /\ udd.state = "DATA_OUT" /\ udd.trans = host.sent /\ hw.bank1 = NoPacket
        /\ hw.failing # "TRFAIL1" /\ udd.prev = 0
    BY <1>3, <2>1, FitsRoom DEF OutReady
  <2>3. UnitTook' = host.sent + n
    BY <1>2, <1>3, <1>5, <1>7 DEF OutReady, UnitTook
  <2>4. n = CtrlSize \/ host.sent + n = host.req.wLength
    BY <1>2 DEF OutReady, Min2, CtrlSize
  <2>5. /\ udd'.state = "DATA_OUT" /\ hw'.bank1 = NoPacket /\ "out" \notin hw'.stall
        /\ hw'.failing # "TRFAIL1"
        /\ udd'.prev = 0 /\ udd'.req.wLength > 0 /\ ~hw'.armed /\ "TRCPT0" \in hw'.flags
        /\ udd'.trans + hw'.bytes = UnitTook'
        /\ hw'.bytes = CtrlSize \/ udd'.trans + hw'.bytes = udd'.req.wLength
    BY <1>1, <1>2, <1>5, <1>6, <2>2, <2>3, <2>4 DEF OutReady
  <2> QED BY <2>5 DEF OutReady, FitsInv
<1>14. PayloadInv'
  BY <1>5, <1>6 DEF IInv, PayloadInv
<1>15. AddressInv'
  BY <1>1, <1>5, <1>6 DEF IInv, AddressInv, Serving, OutReady, Deaf, Pending, Waits, Took
<1> QED BY <1>5, <1>6, <1>7, <1>8, <1>9, <1>10, <1>11, <1>12, <1>13, <1>14, <1>15 DEF IInv,
     TypeOK

\* The host sends data again which the unit has taken.
LEMMA DataAgainStep ==
  ASSUME IInv, HostOut, NEW n \in 0 .. CtrlSize, OutAgain, DataHeard(n), n > 0,
         host.sent + n <= host.req.wLength
  PROVE  IInv'
<1>1. OutReady
  BY OutStart
<1>2. host.req.wLength \in Nat /\ host.sent \in Nat /\ host.tog \in {0, 1} /\ hw.dtgout \in {0, 1}
  BY <1>1, RequestAssumption DEF OutReady, IInv, TypeOK, HostType, HwType
<1>3. host.tog # hw.dtgout
  BY DEF OutAgain
<1>4. HeardHost(n)
  BY HeardEffect DEF IInv, TypeOK
<1>5. /\ host.stage = "out" /\ n > 0 /\ n = Min2(host.req.wLength - host.sent, CtrlSize)
      /\ host.sent + n <= host.req.wLength
  BY DEF DataHeard
<1>6. /\ host.sent + n = host.req.wLength => host'.stage = "statusIn" /\ host'.tog = 1
      /\ host.sent + n # host.req.wLength => host'.stage = "out" /\ host'.tog = 1 - host.tog
  BY <1>4 DEF HeardHost
<1>7. hw' = hw
  BY DEF HostOut, OutReady, OutAgain, HeardHost
<1>8. udd' = udd
  BY DEF HostOut, OutReady, OutAgain, HeardHost
<1>9. /\ host' \in HostType /\ host'.req = host.req /\ host'.got = host.got
      /\ host'.sent = host.sent + n /\ host'.addr = host.addr /\ host'.parted = host.parted
  BY <1>1, <1>2, <1>3, <1>4, <1>5, <1>6 DEF HostOut, OutReady, OutAgain, HeardHost
<1>10. StageInv'
  BY <1>2, <1>5, <1>6, <1>7, <1>9 DEF IInv, StageInv, Waits
<1>11. PendingInv'
  BY <1>3, <1>7 DEF IInv, PendingInv, Pending, StageInv
<1>12. ServingInv'
  BY <1>1, <1>8, <1>9 DEF IInv, ServingInv, Serving, OutReady
<1>13. ReadInv'
  BY <1>5, <1>9 DEF IInv, ServingInv, ReadInv, StageInv
<1>14. WriteInv'
  BY <1>5, <1>7, <1>8, <1>9 DEF IInv, ServingInv, WriteInv, Serving, Pending, Waits
<1>15. FitsInv'
  <2> SUFFICES ASSUME Serving', host'.req.ok, host'.req.dir = "out",
                      host'.req.wLength <= host'.req.size
               PROVE  FitsInv'
    BY DEF FitsInv
  <2>1. host.req.wLength <= host.req.size /\ host.req.dir = "out"
    BY <1>9
  <2>2. UnitTook = host.sent + n /\ UnitTook' = host.sent + n
    BY <1>2, <1>3, <1>6, <1>5, <1>7, <1>9 DEF OutReady, UnitTook
  <2>3. Serving /\ (udd.state = "DATA_OUT" => "TRCPT0" \notin hw.flags)
    BY <1>1, <1>5, <2>1, FitsRoom DEF OutReady
  <2> QED BY <1>1, <1>7, <1>8, <1>9, <2>1, <2>2, <2>3 DEF OutReady, IInv, FitsInv
<1>16. PayloadInv'
  BY <1>7, <1>8 DEF IInv, PayloadInv
<1>17. AddressInv'
  BY <1>5, <1>7, <1>8, <1>9 DEF IInv, AddressInv, Serving, Pending, Waits, Took, Deaf
<1> QED BY <1>7, <1>8, <1>9, <1>10, <1>11, <1>12, <1>13, <1>14, <1>15, <1>16, <1>17 DEF IInv,
     TypeOK

\* The handshake of the status stage of a read gets lost.
LEMMA StatusLostStep ==
  ASSUME IInv, HostOut, NEW n \in 0 .. CtrlSize, OutTaken(n), host.stage = "statusOut", host' = host
  PROVE  IInv'
<1>1. OutReady
  BY OutStart
<1>2. host.req.wLength \in Nat /\ host.sent \in Nat /\ host.tog \in {0, 1} /\ hw.dtgout \in {0, 1}
  BY <1>1, RequestAssumption DEF OutReady, IInv, TypeOK, HostType, HwType
<1>3. TakenRegs(n) /\ host.tog = hw.dtgout
  BY TakenEffect DEF IInv, TypeOK
<1>4. udd' = udd
  BY DEF HostOut
<1>5. /\ hw' \in HwType /\ hw'.flags = hw.flags \cup {"TRCPT0"} /\ hw'.failing = hw.failing
      /\ hw'.armed = FALSE /\ hw'.bytes = n /\ hw'.bank1 = hw.bank1 /\ hw'.stall = hw.stall
      /\ hw'.dtgin = hw.dtgin /\ hw'.dtgout = 1 - hw.dtgout /\ hw'.address = hw.address
      /\ hw'.reset = hw.reset /\ hw'.setup = hw.setup
  BY <1>1, <1>2, <1>3, <1>4 DEF HostOut, OutReady, TakenRegs
<1>6. udd' = udd
  BY <1>1, <1>2, <1>3, <1>4
<1>7. host' = host
  BY <1>1, <1>2, <1>3, <1>4
<1>8. StageInv'
  BY <1>5 DEF IInv, StageInv, Waits
<1>9. PendingInv'
  BY <1>1, <1>5 DEF IInv, PendingInv, Pending, OutReady
<1>10. ServingInv'
  BY <1>1, <1>6 DEF IInv, ServingInv, Serving, OutReady
<1>11. ReadInv'
  BY <1>5, <1>6 DEF IInv, ServingInv, ReadInv, Serving, Pending, Waits
<1>12. WriteInv'
  BY DEF IInv, ServingInv, WriteInv, StageInv
<1>13. FitsInv'
  BY DEF IInv, ServingInv, WriteInv, FitsInv, Serving, Pending, StageInv
<1>14. PayloadInv'
  BY <1>5, <1>6 DEF IInv, PayloadInv
<1>15. AddressInv'
  BY <1>1, <1>5, <1>6 DEF IInv, AddressInv, Serving, OutReady, Deaf, Pending, Waits, Took
<1> QED BY <1>5, <1>6, <1>7, <1>8, <1>9, <1>10, <1>11, <1>12, <1>13, <1>14, <1>15 DEF IInv,
     TypeOK

\* The status stage of a read: the unit takes it, and the host is done.
LEMMA StatusTakenStep ==
  ASSUME IInv, HostOut, NEW n \in 0 .. CtrlSize, OutTaken(n), host.stage = "statusOut",
         host' = Idle(host)
  PROVE  IInv'
<1>1. OutReady
  BY OutStart
<1>2. host.req.wLength \in Nat /\ host.sent \in Nat /\ host.tog \in {0, 1} /\ hw.dtgout \in {0, 1}
  BY <1>1, RequestAssumption DEF OutReady, IInv, TypeOK, HostType, HwType
<1>3. TakenRegs(n) /\ host.tog = hw.dtgout
  BY TakenEffect DEF IInv, TypeOK
<1>4. /\ hw' \in HwType /\ hw'.flags = hw.flags \cup {"TRCPT0"} /\ hw'.failing = hw.failing
      /\ hw'.armed = FALSE /\ hw'.bytes = n /\ hw'.bank1 = hw.bank1 /\ hw'.stall = hw.stall
      /\ hw'.dtgin = hw.dtgin /\ hw'.dtgout = 1 - hw.dtgout /\ hw'.address = hw.address
      /\ hw'.reset = hw.reset /\ hw'.setup = hw.setup
  BY <1>1, <1>2, <1>3, IdleEffect DEF HostOut, OutReady, TakenRegs, IInv, TypeOK
<1>5. udd' = udd
  BY DEF HostOut, OutReady, TakenRegs, IInv, TypeOK
<1>6. /\ host' \in HostType /\ host'.stage = "idle" /\ host'.req = NoRequest /\ host'.got = 0
      /\ host'.sent = 0 /\ host'.tog = 1 /\ host'.addr = host.addr /\ host'.parted = host.parted
  BY <1>1, <1>2, <1>3, IdleEffect DEF HostOut, OutReady, TakenRegs, IInv, TypeOK
<1>7. StageInv'
  BY <1>4, <1>6 DEF IInv, StageInv, Waits
<1>8. PendingInv'
  BY <1>1, <1>4 DEF IInv, PendingInv, Pending, OutReady
<1>9. ServingInv'
  BY <1>6 DEF IInv, ServingInv, Serving, Pending, Waits, Took
<1>10. ReadInv'
  BY <1>6 DEF IInv, ServingInv, ReadInv, NoRequest
<1>11. WriteInv'
  BY <1>6 DEF IInv, ServingInv, WriteInv, NoRequest
<1>12. FitsInv'
  BY <1>6 DEF FitsInv, Serving, Pending, NoRequest
<1>13. PayloadInv'
  BY <1>4, <1>5 DEF IInv, PayloadInv
<1>14. AddressInv'
  BY <1>1, <1>4, <1>5, <1>6 DEF IInv, AddressInv, Serving, OutReady, NoRequest, Deaf, Pending, Waits, Took
<1> QED BY <1>4, <1>5, <1>6, <1>7, <1>8, <1>9, <1>10, <1>11, <1>12, <1>13, <1>14 DEF IInv,
     TypeOK

\* The status stage of a read, sent again: the host is done.
LEMMA StatusAgainStep ==
  ASSUME IInv, HostOut, OutAgain, host.stage = "statusOut", host' = Idle(host)
  PROVE  IInv'
<1>1. OutReady
  BY OutStart
<1>2. hw' = hw
  BY DEF HostOut, OutReady, OutTaken, OutAgain, Idle
<1>3. udd' = udd
  BY DEF HostOut, OutReady, OutTaken, OutAgain, Idle
<1>4. /\ host' \in HostType /\ host'.stage = "idle" /\ host'.req = NoRequest /\ host'.got = 0
      /\ host'.sent = 0 /\ host'.tog = 1 /\ host'.addr = host.addr /\ host'.parted = host.parted
  BY <1>1 DEF HostOut, OutReady, OutTaken, OutAgain, Idle, IInv, TypeOK, HostType, Stages,
       Garbled
<1>5. StageInv'
  BY <1>1, <1>2, <1>3, <1>4 DEF IInv, TypeOK, StageInv, Waits, OutReady, NoRequest, HwType,
       UddType, HostType
<1>6. PendingInv'
  BY <1>1, <1>2 DEF IInv, PendingInv, Pending, OutReady
<1>7. ServingInv'
  BY <1>4 DEF IInv, ServingInv, Serving, Pending, Waits, Took
<1>8. ReadInv'
  BY <1>4 DEF IInv, ServingInv, ReadInv, NoRequest
<1>9. WriteInv'
  BY <1>4 DEF IInv, ServingInv, WriteInv, NoRequest
<1>10. FitsInv'
  BY <1>4 DEF FitsInv, Serving, Pending, NoRequest
<1>11. PayloadInv'
  BY <1>1, <1>2, <1>3, <1>4 DEF IInv, TypeOK, PayloadInv, OutReady, StageInv, NoRequest, HwType,
       UddType, HostType
<1>12. AddressInv'
  BY <1>2, <1>3, <1>4 DEF IInv, AddressInv, Serving, Pending, Waits, Took, NoRequest, Deaf
<1> QED BY <1>2, <1>3, <1>4, <1>5, <1>6, <1>7, <1>8, <1>9, <1>10, <1>11, <1>12 DEF IInv, TypeOK

\* A packet of the host, whatever becomes of it.
LEMMA HostOutStep ==
  ASSUME IInv, HostOut
  PROVE  IInv'
<1>1. PICK n \in 0 .. CtrlSize :
         /\ host.stage = "out" => /\ n > 0 /\ n = Min2(host.req.wLength - host.sent, CtrlSize)
                                  /\ host.sent + n <= host.req.wLength
         /\ OutTaken(n) \/ OutAgain
         /\ host' = host \/ DataHeard(n) \/ (host.stage = "statusOut" /\ host' = Idle(host))
  BY OutCases
<1>2. host.stage \in {"out", "statusOut"}
  BY OutStart DEF OutReady
<1>3. CASE host' = host /\ OutTaken(n) /\ host.stage = "out"
  BY <1>1, <1>3, DataLostStep
<1>4. CASE host' = host /\ OutTaken(n) /\ host.stage = "statusOut"
  BY <1>4, StatusLostStep
<1>5. CASE host' = host /\ OutAgain
  <2>1. UNCHANGED vars
    BY <1>5 DEF OutAgain, HostOut, vars
  <2> QED BY <2>1, UnchangedStep
<1>6. CASE DataHeard(n)
  <2>1. host.stage = "out"
    BY <1>6 DEF DataHeard
  <2> QED BY <1>1, <1>6, <2>1, DataStep, DataAgainStep
<1>7. CASE host.stage = "statusOut" /\ host' = Idle(host)
  BY <1>1, <1>7, StatusTakenStep, StatusAgainStep
<1> QED BY <1>1, <1>2, <1>3, <1>4, <1>5, <1>6, <1>7

-----------------------------------------------------------------------------
(***************************************************************************)
(* The packets of the device.                                              *)
(***************************************************************************)

\* Bank 1, the device and the host when a packet of the device is.
InReady ==
  /\ Serving /\ host.req.ok /\ ~hw.reset /\ host.addr = hw.address /\ hw.bank1 # NoPacket
  /\ udd.req = host.req /\ udd.mine /\ host.req \in Requests
  /\ host.stage \in {"in", "statusIn"} /\ "in" \notin hw.stall
  /\ hw.bank1.mine /\ hw.bank1.at \in Nat /\ hw.bank1.len \in 0 .. CtrlSize
  /\ host.stage = "in" => /\ host.req.dir = "in" /\ SentInv /\ host.req.address = 0
                          /\ host.got \in Nat /\ udd.size = udd.req.size
  /\ host.stage = "statusIn" => host.req.dir = "out" /\ hw.bank1.len = 0 /\ Fresh

\* A packet in bank 1 which the host can fetch is one of its request's.
LEMMA InStart ==
  ASSUME IInv, HostIn
  PROVE  InReady
<1>1. /\ host.stage \in {"in", "statusIn"} /\ ~hw.reset /\ host.addr = hw.address
      /\ hw.bank1 # NoPacket /\ "in" \notin hw.stall
  BY DEF HostIn, Heard
<1>2. Serving
  BY <1>1 DEF IInv, PendingInv, Serving, Waits
<1>3. host.req.ok /\ udd.req = host.req /\ udd.mine
  BY <1>1, <1>2 DEF IInv, ServingInv
<1>4. host.req \in Requests
  BY <1>1 DEF IInv, StageInv
<1>5. hw.bank1 \in [mine : BOOLEAN, at : Nat, len : -1 .. CtrlSize]
  BY DEF IInv, TypeOK, HwType
<1>6. hw.bank1.at \in Nat /\ hw.bank1.len \in 0 .. CtrlSize
  BY <1>1, <1>5 DEF IInv, PayloadInv, CtrlSize
<1>7. ASSUME host.stage = "in"
      PROVE  /\ host.req.dir = "in" /\ SentInv /\ host.req.address = 0
             /\ host.got \in Nat /\ udd.size = udd.req.size
  <2>1. host.req.dir = "in"
    BY <1>7 DEF IInv, StageInv
  <2>2. host.req.address = 0
    BY <1>4, <2>1, RequestTypes
  <2>3. SentInv /\ udd.state = "DATA_IN" /\ host.got >= 0
    BY <1>1, <1>2, <1>3, <1>7, <2>1 DEF IInv, ReadInv
  <2>4. host.got \in Nat
    BY <2>3 DEF IInv, TypeOK, HostType, Garbled
  <2> QED BY <2>1, <2>2, <2>3, <2>4 DEF IInv, PayloadInv
<1>8. ASSUME host.stage = "statusIn"
      PROVE  host.req.dir = "out" /\ hw.bank1.mine /\ hw.bank1.len = 0 /\ Fresh
  <2>1. host.req.dir = "out" /\ host.tog = 1
    BY <1>8 DEF IInv, StageInv
  <2> QED BY <1>1, <1>2, <1>3, <2>1 DEF IInv, WriteInv, Fresh
<1>9. hw.bank1.mine
  BY <1>1, <1>7, <1>8 DEF SentInv
<1> QED BY <1>1, <1>2, <1>3, <1>4, <1>6, <1>7, <1>8, <1>9 DEF InReady

\* The registers once the packet in bank 1 is acknowledged.
SentRegs ==
  /\ hw' \in HwType /\ hw'.flags = hw.flags \cup {"TRCPT1"} /\ hw'.failing = hw.failing
  /\ hw'.armed = hw.armed
  /\ hw'.bytes = hw.bytes /\ hw'.bank1 = NoPacket /\ hw'.stall = hw.stall
  /\ hw'.dtgin = 1 - hw.dtgin
  /\ hw'.dtgout = hw.dtgout /\ hw'.address = hw.address /\ hw'.reset = hw.reset
  /\ hw'.setup = hw.setup
InTaken == hw' = [hw EXCEPT !.flags = hw.flags \cup {"TRCPT1"}, !.bank1 = NoPacket, !.dtgin = 1 - hw.dtgin]

\* The device sees the handshake of its packet.
LEMMA SentEffect ==
  ASSUME hw \in HwType, InTaken
  PROVE  SentRegs
<1>1. PICK t \in {0, 1} : t = 1 - hw.dtgin
  BY DEF HwType
<1>2. PICK f \in SUBSET Flags : f = hw.flags \cup {"TRCPT1"}
  BY DEF HwType, Flags
<1>3. PICK p \in [mine : BOOLEAN, at : Nat, len : -1 .. CtrlSize] : p = NoPacket
  <2>1. NoPacket \in [mine : BOOLEAN, at : Nat, len : -1 .. CtrlSize]
    BY DEF NoPacket, CtrlSize
  <2> QED BY <2>1
<1>4. hw' = [hw EXCEPT !.flags = f, !.bank1 = p, !.dtgin = t]
  BY <1>1, <1>2, <1>3 DEF InTaken
<1>5. /\ hw' \in HwType /\ hw'.flags = f /\ hw'.failing = hw.failing /\ hw'.armed = hw.armed
      /\ hw'.bytes = hw.bytes /\ hw'.bank1 = p /\ hw'.stall = hw.stall /\ hw'.dtgin = t
      /\ hw'.dtgout = hw.dtgout /\ hw'.address = hw.address /\ hw'.reset = hw.reset
      /\ hw'.setup = hw.setup
  BY <1>4 DEF HwType
<1> QED BY <1>1, <1>2, <1>3, <1>5 DEF SentRegs

\* The host once it has a packet of its answer, the last one or not.
GotLast == hw.bank1.len < CtrlSize \/ host.got + hw.bank1.len = host.req.wLength
GotHost ==
  /\ host' \in HostType /\ host'.req = host.req /\ host'.sent = host.sent /\ host'.addr = host.addr /\ host'.parted = host.parted
  /\ host'.got = host.got + hw.bank1.len
  /\ GotLast => host'.stage = "statusOut"
  /\ ~GotLast => host'.stage = "in" /\ host'.tog = 1 - host.tog

\* A packet the host has not had continues its answer.
LEMMA GotEffect ==
  ASSUME IInv, HostIn, host.stage = "in", Fresh, host' = Arrives(hw.bank1)
  PROVE  GotHost
<1>1. hw.bank1.mine /\ hw.bank1.at = host.got /\ hw.bank1.len \in 0 .. CtrlSize /\ host.got \in Nat
  BY InStart DEF InReady, SentInv
<1>2. host \in HostType /\ host.tog \in {0, 1}
  BY DEF IInv, TypeOK, HostType
<1>3. PICK g \in Nat : g = host.got + hw.bank1.len
  BY <1>1 DEF CtrlSize
<1>4. PICK s \in Stages : s = IF GotLast THEN "statusOut" ELSE "in"
  BY DEF Stages
<1>5. PICK t \in {0, 1} : t = IF GotLast THEN 1 ELSE 1 - host.tog
  BY <1>2
<1>6. host' = [host EXCEPT !.got = g, !.stage = s, !.tog = t]
  BY <1>1, <1>3, <1>4, <1>5 DEF Arrives, Fresh, GotLast
<1>7. /\ host' \in HostType /\ host'.req = host.req /\ host'.sent = host.sent
      /\ host'.addr = host.addr /\ host'.parted = host.parted
      /\ host'.got = g /\ host'.stage = s /\ host'.tog = t
  BY <1>2, <1>6 DEF HostType
<1> QED BY <1>3, <1>4, <1>5, <1>7 DEF GotHost

\* The host has a packet of its answer: it is the host it was but for what it has.
LEMMA ArrivesType ==
  ASSUME IInv, HostIn, host.stage = "in"
  PROVE  Arrives(hw.bank1) \in HostType
<1>1. hw.bank1.mine /\ hw.bank1.len \in 0 .. CtrlSize /\ host.got \in Nat
      /\ (Fresh => hw.bank1.at = host.got)
  BY InStart DEF InReady, SentInv
<1>2. host \in HostType /\ host.tog \in {0, 1}
  BY DEF IInv, TypeOK, HostType
<1>3. CASE ~Fresh
  BY <1>2, <1>3 DEF Arrives, Fresh
<1>4. CASE Fresh
  <2>1. PICK g \in Nat : g = host.got + hw.bank1.len
    BY <1>1 DEF CtrlSize
  <2>2. PICK s \in Stages : s = IF GotLast THEN "statusOut" ELSE "in"
    BY DEF Stages
  <2>3. PICK t \in {0, 1} : t = IF GotLast THEN 1 ELSE 1 - host.tog
    BY <1>2
  <2>4. Arrives(hw.bank1) = [host EXCEPT !.got = g, !.stage = s, !.tog = t]
    BY <1>1, <1>4, <2>1, <2>2, <2>3 DEF Arrives, Fresh, GotLast
  <2> QED BY <1>2, <2>4 DEF HostType
<1> QED BY <1>3, <1>4

\* The host after its status stage, and the places where the device may be if it misses the
\* handshake of that.
Ended == [Idle(host) EXCEPT !.addr = IF host.req.address # 0 THEN host.req.address ELSE @]
Parts == IF host.req.address = 0 THEN {} ELSE {hw.address}

\* What a packet does in either stage.
LEMMA InCases ==
  ASSUME IInv, HostIn
  PROVE  \/ host.stage = "in" /\ host' = Idle(host) /\ hw' = hw
         \/ /\ host.stage = "in" /\ (InTaken \/ hw' = hw)
            /\ \/ ~Fresh /\ host' = host
               \/ /\ Fresh /\ host' = Arrives(hw.bank1)
                  /\ host.got + hw.bank1.len <= host.req.wLength
         \/ /\ host.stage = "statusIn"
            /\ \/ InTaken /\ host' = Ended
               \/ hw' = hw /\ host' = [Ended EXCEPT !.parted = @ \cup Parts]
<1>1. /\ host.stage \in {"in", "statusIn"} /\ hw.bank1.mine /\ hw.bank1.len \in 0 .. CtrlSize
      /\ host.stage = "in" => host.got \in Nat /\ host.req.address = 0
      /\ host.stage = "statusIn" => hw.bank1.len = 0 /\ Fresh
      /\ host.req \in Requests
  BY InStart DEF InReady
<1>2. host.req.wLength \in Nat
  BY <1>1, RequestAssumption
<1>3. CASE Overlong
  BY <1>3 DEF HostIn, Overlong
<1>4. CASE ~Overlong
  <2>1. \/ InTaken /\ host' = Arrives(hw.bank1)
        \/ hw' = hw /\ host' = [Arrives(hw.bank1) EXCEPT !.parted = @ \cup Parts]
    BY <1>4 DEF HostIn, InTaken, Parts
  <2>2. CASE host.stage = "in"
    <3>1. PICK h \in HostType : h = Arrives(hw.bank1)
      BY <2>2, ArrivesType
    <3>2. [h EXCEPT !.parted = @ \cup {}] = h
      BY <3>1 DEF HostType
    <3>3. Parts = {}
      BY <1>1, <2>2 DEF Parts
    <3>4. host' = Arrives(hw.bank1) /\ (InTaken \/ hw' = hw)
      BY <2>1, <3>1, <3>2, <3>3
    <3>5. CASE ~Fresh
      BY <2>2, <3>4, <3>5 DEF Arrives, Fresh
    <3>6. CASE Fresh
      BY <1>1, <1>2, <1>4, <2>2, <3>4, <3>6 DEF Overlong, CtrlSize
    <3> QED BY <3>5, <3>6
  <2>3. CASE host.stage = "statusIn"
    <3>1. Arrives(hw.bank1) = Ended
      BY <1>1, <2>3 DEF Arrives, Fresh, Ended
    <3> QED BY <2>1, <2>3, <3>1
  <2> QED BY <1>1, <2>2, <2>3
<1> QED BY <1>3, <1>4

\* More than was asked for: the host drops its request.
LEMMA InOverlongStep ==
  ASSUME IInv, HostIn, host.stage = "in", hw' = hw, host' = Idle(host)
  PROVE  IInv'
<1>1. InReady
  BY InStart
<1>2. udd' = udd
  BY DEF HostIn
<1>3. hw' = hw
  BY <1>1, <1>2
<1>4. udd' = udd
  BY <1>1, <1>2
<1>5. /\ host' \in HostType /\ host'.stage = "idle" /\ host'.req = NoRequest /\ host'.got = 0
      /\ host'.sent = 0 /\ host'.tog = 1 /\ host'.addr = host.addr /\ host'.parted = host.parted
  BY <1>1, <1>2, IdleEffect DEF HostIn, IInv, TypeOK
<1>6. StageInv'
  BY <1>5 DEF IInv, StageInv, Waits
<1>7. PendingInv'
  BY <1>1 DEF IInv, PendingInv, Pending, InReady
<1>8. ServingInv'
  BY <1>5 DEF IInv, ServingInv, Serving, Pending, Waits, Took
<1>9. ReadInv'
  BY <1>5 DEF IInv, ServingInv, ReadInv, NoRequest
<1>10. WriteInv'
  BY <1>5 DEF IInv, ServingInv, WriteInv, NoRequest
<1>11. FitsInv'
  BY <1>5 DEF FitsInv, Serving, Pending, NoRequest
<1>12. PayloadInv'
  BY <1>4 DEF IInv, PayloadInv
<1>13. AddressInv'
  BY <1>4, <1>5 DEF IInv, AddressInv, Serving, Pending, Waits, Took, NoRequest, Deaf
<1> QED BY <1>3, <1>4, <1>5, <1>6, <1>7, <1>8, <1>9, <1>10, <1>11, <1>12, <1>13 DEF IInv, TypeOK

\* The host has had the packet, and the device sees the handshake now.
LEMMA InAgainStep ==
  ASSUME IInv, HostIn, InTaken, host.stage = "in", ~Fresh, host' = host
  PROVE  IInv'
<1>1. InReady
  BY InStart
<1>2. /\ host.req.wLength \in Nat /\ host.req.size \in Nat /\ host.tog \in {0, 1}
      /\ hw.dtgin \in {0, 1}
      /\ udd.size \in Nat /\ udd.trans \in Nat /\ udd.prev \in Nat
  BY <1>1, RequestAssumption DEF InReady, IInv, TypeOK, HostType, HwType, UddType
<1>3. SentRegs
  BY SentEffect DEF IInv, TypeOK
<1>4. udd' = udd
  BY DEF HostIn
<1>5. /\ hw' \in HwType /\ hw'.flags = hw.flags \cup {"TRCPT1"} /\ hw'.failing = hw.failing
      /\ hw'.armed = hw.armed /\ hw'.bytes = hw.bytes /\ hw'.bank1 = NoPacket
      /\ hw'.stall = hw.stall /\ hw'.dtgin = 1 - hw.dtgin /\ hw'.dtgout = hw.dtgout
      /\ hw'.address = hw.address /\ hw'.reset = hw.reset /\ hw'.setup = hw.setup
  BY <1>1, <1>2, <1>3, <1>4 DEF InReady, SentRegs
<1>6. udd' = udd
  BY <1>1, <1>2, <1>3, <1>4
<1>7. host' = host
  BY <1>1, <1>2, <1>3, <1>4
<1>8. StageInv'
  BY <1>5 DEF IInv, StageInv, Waits
<1>9. PendingInv'
  BY <1>1, <1>5 DEF IInv, PendingInv, Pending, InReady
<1>10. ServingInv'
  BY <1>1, <1>6 DEF IInv, ServingInv, Serving, InReady
<1>11. ReadInv'
  BY <1>2, <1>5, <1>6 DEF IInv, ServingInv, ReadInv, Serving, Pending, Waits, Took, TakenInv,
       SentInv, Fresh, Min2, CtrlSize
<1>12. WriteInv'
  BY DEF IInv, ServingInv, WriteInv, StageInv
<1>13. FitsInv'
  BY DEF IInv, ServingInv, WriteInv, FitsInv, Serving, Pending, StageInv
<1>14. PayloadInv'
  BY <1>5, <1>6 DEF IInv, PayloadInv, NoPacket
<1>15. AddressInv'
  BY <1>1, <1>5, <1>6 DEF IInv, AddressInv, Serving, InReady, Deaf, Pending, Waits, Took
<1> QED BY <1>5, <1>6, <1>7, <1>8, <1>9, <1>10, <1>11, <1>12, <1>13, <1>14, <1>15 DEF IInv,
     TypeOK

\* The host takes the packet, and the device sees the handshake.
LEMMA InFreshStep ==
  ASSUME IInv, HostIn, InTaken, host.stage = "in", Fresh,
         host' = Arrives(hw.bank1), host.got + hw.bank1.len <= host.req.wLength
  PROVE  IInv'
<1>1. InReady
  BY InStart
<1>2. /\ host.req.wLength \in Nat /\ host.req.size \in Nat /\ host.tog \in {0, 1}
      /\ hw.dtgin \in {0, 1}
      /\ udd.size \in Nat /\ udd.trans \in Nat /\ udd.prev \in Nat
  BY <1>1, RequestAssumption DEF InReady, IInv, TypeOK, HostType, HwType, UddType
<1>3. SentRegs
  BY SentEffect DEF IInv, TypeOK
<1>4. udd' = udd
  BY DEF HostIn
<1>5. GotHost
  BY GotEffect
<1>6. /\ GotLast => host'.stage = "statusOut"
      /\ ~GotLast => host'.stage = "in" /\ host'.tog = 1 - host.tog
  BY <1>5 DEF GotHost
<1>7. /\ hw' \in HwType /\ hw'.flags = hw.flags \cup {"TRCPT1"} /\ hw'.failing = hw.failing
      /\ hw'.armed = hw.armed /\ hw'.bytes = hw.bytes /\ hw'.bank1 = NoPacket
      /\ hw'.stall = hw.stall /\ hw'.dtgin = 1 - hw.dtgin /\ hw'.dtgout = hw.dtgout
      /\ hw'.address = hw.address /\ hw'.reset = hw.reset /\ hw'.setup = hw.setup
  BY <1>1, <1>2, <1>3, <1>4, <1>5, <1>6 DEF InReady, SentRegs, GotHost
<1>8. udd' = udd
  BY <1>1, <1>2, <1>3, <1>4, <1>5, <1>6
<1>9. /\ host' \in HostType /\ host'.req = host.req /\ host'.got = host.got + hw.bank1.len
      /\ host'.sent = host.sent /\ host'.addr = host.addr /\ host'.parted = host.parted
  BY <1>1, <1>2, <1>3, <1>4, <1>5, <1>6 DEF InReady, SentRegs, GotHost
<1>10. StageInv'
  BY <1>6, <1>7, <1>9 DEF IInv, StageInv, Waits
<1>11. PendingInv'
  BY <1>1, <1>7 DEF IInv, PendingInv, Pending, InReady
<1>12. ServingInv'
  BY <1>1, <1>8, <1>9 DEF IInv, ServingInv, Serving, InReady
<1>13. ReadInv'
  BY <1>1, <1>2, <1>6, <1>7, <1>8, <1>9 DEF IInv, ServingInv, ReadInv, Took, TakenInv, SentInv,
       Fresh, Min2, CtrlSize, InReady, GotLast
<1>14. WriteInv'
  BY <1>9 DEF IInv, ServingInv, WriteInv, StageInv
<1>15. FitsInv'
  BY <1>9 DEF IInv, ServingInv, WriteInv, FitsInv, Serving, Pending, StageInv
<1>16. PayloadInv'
  BY <1>7, <1>8 DEF IInv, PayloadInv, NoPacket
<1>17. AddressInv'
  BY <1>1, <1>7, <1>8, <1>9 DEF IInv, AddressInv, Serving, InReady, Deaf, Pending, Waits, Took
<1> QED BY <1>7, <1>8, <1>9, <1>10, <1>11, <1>12, <1>13, <1>14, <1>15, <1>16, <1>17 DEF IInv,
     TypeOK

\* The host takes the packet, and the handshake gets lost.
LEMMA InFreshLostStep ==
  ASSUME IInv, HostIn, hw' = hw, host.stage = "in", Fresh,
         host' = Arrives(hw.bank1), host.got + hw.bank1.len <= host.req.wLength
  PROVE  IInv'
<1>1. InReady
  BY InStart
<1>2. /\ host.req.wLength \in Nat /\ host.req.size \in Nat /\ host.tog \in {0, 1}
      /\ hw.dtgin \in {0, 1}
      /\ udd.size \in Nat /\ udd.trans \in Nat /\ udd.prev \in Nat
  BY <1>1, RequestAssumption DEF InReady, IInv, TypeOK, HostType, HwType, UddType
<1>3. udd' = udd
  BY DEF HostIn
<1>4. GotHost
  BY GotEffect
<1>5. /\ GotLast => host'.stage = "statusOut"
      /\ ~GotLast => host'.stage = "in" /\ host'.tog = 1 - host.tog
  BY <1>4 DEF GotHost
<1>6. hw' = hw
  BY <1>1, <1>2, <1>3, <1>4, <1>5
<1>7. udd' = udd
  BY <1>1, <1>2, <1>3, <1>4, <1>5
<1>8. /\ host' \in HostType /\ host'.req = host.req /\ host'.got = host.got + hw.bank1.len
      /\ host'.sent = host.sent /\ host'.addr = host.addr /\ host'.parted = host.parted
  BY <1>1, <1>2, <1>3, <1>4, <1>5 DEF InReady, GotHost
<1>9. StageInv'
  BY <1>5, <1>8 DEF IInv, StageInv, Waits
<1>10. PendingInv'
  BY <1>1 DEF IInv, PendingInv, Pending, InReady
<1>11. ServingInv'
  BY <1>1, <1>7, <1>8 DEF IInv, ServingInv, Serving, InReady
<1>12. ReadInv'
  BY <1>1, <1>2, <1>5, <1>7, <1>8 DEF IInv, ServingInv, ReadInv, Took, TakenInv, SentInv, Fresh,
       Min2, CtrlSize, InReady, GotLast
<1>13. WriteInv'
  BY <1>8 DEF IInv, ServingInv, WriteInv, StageInv
<1>14. FitsInv'
  BY <1>8 DEF IInv, ServingInv, WriteInv, FitsInv, Serving, Pending, StageInv
<1>15. PayloadInv'
  BY <1>7 DEF IInv, PayloadInv
<1>16. AddressInv'
  BY <1>7, <1>8 DEF IInv, AddressInv, Serving, Pending, Waits, Took, Deaf
<1> QED BY <1>6, <1>7, <1>8, <1>9, <1>10, <1>11, <1>12, <1>13, <1>14, <1>15, <1>16 DEF IInv,
     TypeOK

\* The host has the empty packet of the status stage.
LEMMA EndedIs ==
  ASSUME IInv, host.stage = "statusIn"
  PROVE  /\ Ended \in HostType /\ Ended.stage = "idle" /\ Ended.req = NoRequest /\ Ended.got = 0
         /\ Ended.sent = 0 /\ Ended.tog = 1 /\ Ended.parted = host.parted
         /\ Ended.addr = IF host.req.address # 0 THEN host.req.address ELSE host.addr
<1>1. host \in HostType /\ host.req \in Requests
  BY DEF IInv, TypeOK, StageInv
<1>2. PICK a \in Nat : a = IF host.req.address # 0 THEN host.req.address ELSE host.addr
  BY <1>1, RequestAssumption DEF HostType
<1>3. PICK h : h = Idle(host)
  OBVIOUS
<1>4. /\ h \in HostType /\ h.stage = "idle" /\ h.req = NoRequest /\ h.got = 0
      /\ h.sent = 0 /\ h.tog = 1 /\ h.addr = host.addr /\ h.parted = host.parted
  BY <1>1, <1>3 DEF Idle, HostType, Stages
<1>5. PICK e : e = [h EXCEPT !.addr = a]
  OBVIOUS
<1>6. e = Ended
  BY <1>2, <1>3, <1>4, <1>5 DEF Ended
<1>7. /\ e \in HostType /\ e.stage = "idle" /\ e.req = NoRequest /\ e.got = 0
      /\ e.sent = 0 /\ e.tog = 1 /\ e.addr = a /\ e.parted = host.parted
  BY <1>2, <1>4, <1>5 DEF HostType
<1> QED BY <1>2, <1>6, <1>7

\* The status stage ends, and the device sees the handshake.
LEMMA StatusInStep ==
  ASSUME IInv, HostIn, InTaken, host.stage = "statusIn",
         host' = Ended
  PROVE  IInv'
<1>1. InReady
  BY InStart
<1>2. /\ host.req.wLength \in Nat /\ host.req.size \in Nat /\ host.tog \in {0, 1}
      /\ hw.dtgin \in {0, 1}
      /\ udd.size \in Nat /\ udd.trans \in Nat /\ udd.prev \in Nat
  BY <1>1, RequestAssumption DEF InReady, IInv, TypeOK, HostType, HwType, UddType
<1>3. SentRegs
  BY SentEffect DEF IInv, TypeOK
<1>4. udd' = udd
  BY DEF HostIn
<1>5. /\ host' \in HostType /\ host'.stage = "idle" /\ host'.req = NoRequest /\ host'.got = 0
      /\ host'.sent = 0 /\ host'.tog = 1
      /\ host'.addr = IF host.req.address # 0 THEN host.req.address ELSE host.addr
  BY EndedIs
<1>6. host.req.address # 0 => udd.state = "WAIT_IN_ZLP" /\ hw.address = 0 /\ "TRCPT0" \notin hw.flags
  BY <1>1 DEF InReady, IInv, AddressInv, Serving, Deaf
<1>7. /\ hw' \in HwType /\ hw'.flags = hw.flags \cup {"TRCPT1"} /\ hw'.failing = hw.failing
      /\ hw'.armed = hw.armed /\ hw'.bytes = hw.bytes /\ hw'.bank1 = NoPacket
      /\ hw'.stall = hw.stall /\ hw'.dtgin = 1 - hw.dtgin /\ hw'.dtgout = hw.dtgout
      /\ hw'.address = hw.address /\ hw'.reset = hw.reset /\ hw'.setup = hw.setup
  BY <1>1, <1>2, <1>3, <1>4, <1>5, <1>6 DEF InReady, SentRegs
<1>8. udd' = udd
  BY <1>1, <1>2, <1>3, <1>4, <1>5, <1>6
<1>9. /\ host' \in HostType /\ host'.stage = "idle" /\ host'.req = NoRequest /\ host'.got = 0
      /\ host'.sent = 0 /\ host'.tog = 1
      /\ host'.addr = (IF host.req.address # 0 THEN host.req.address ELSE host.addr)
  BY <1>1, <1>2, <1>3, <1>4, <1>5, <1>6 DEF InReady, SentRegs
<1>10. StageInv'
  BY <1>7, <1>9 DEF IInv, StageInv, Waits
<1>11. PendingInv'
  BY <1>1, <1>7 DEF IInv, PendingInv, Pending, InReady
<1>12. ServingInv'
  BY <1>9 DEF IInv, ServingInv, Serving, Pending, Waits, Took
<1>13. ReadInv'
  BY <1>9 DEF IInv, ServingInv, ReadInv, NoRequest
<1>14. WriteInv'
  BY <1>9 DEF IInv, ServingInv, WriteInv, NoRequest
<1>15. FitsInv'
  BY <1>9 DEF FitsInv, Serving, Pending, NoRequest
<1>16. PayloadInv'
  BY <1>7, <1>8 DEF IInv, PayloadInv, NoPacket
<1>17. AddressInv'
  BY <1>1, <1>7, <1>8, <1>9 DEF IInv, AddressInv, Serving, Pending, Waits, Took, InReady,
       NoRequest, Deaf
<1> QED BY <1>7, <1>8, <1>9, <1>10, <1>11, <1>12, <1>13, <1>14, <1>15, <1>16, <1>17 DEF IInv,
     TypeOK

\* The status stage ends, and the handshake gets lost.
LEMMA StatusInLostStep ==
  ASSUME IInv, HostIn, hw' = hw, host.stage = "statusIn",
         host' = [Ended EXCEPT !.parted = @ \cup Parts]
  PROVE  IInv'
<1>1. InReady
  BY InStart
<1>2. udd' = udd
  BY DEF HostIn
<1>3. Parts \in SUBSET Nat
  BY DEF IInv, TypeOK, HwType, Parts
<1>4. PICK e \in HostType :
        /\ e = Ended /\ e.stage = "idle" /\ e.req = NoRequest /\ e.got = 0
        /\ e.sent = 0 /\ e.tog = 1 /\ e.parted = host.parted
        /\ e.addr = IF host.req.address # 0 THEN host.req.address ELSE host.addr
  BY EndedIs
<1>5. PICK s \in SUBSET Nat : s = host.parted \cup Parts
  BY <1>3 DEF IInv, TypeOK, HostType
<1>6. host' = [e EXCEPT !.parted = s]
  BY <1>4, <1>5
<1>7. /\ host' \in HostType /\ host'.stage = "idle" /\ host'.req = NoRequest /\ host'.got = 0
      /\ host'.sent = 0 /\ host'.tog = 1 /\ host'.parted = s /\ host'.addr = e.addr
  BY <1>4, <1>5, <1>6 DEF HostType
<1>8. StageInv'
  BY <1>1, <1>7 DEF IInv, StageInv, Waits, InReady
<1>9. PendingInv'
  BY <1>1 DEF IInv, PendingInv, Pending, InReady
<1>10. ServingInv'
  BY <1>7 DEF IInv, ServingInv, Serving, Pending, Waits, Took
<1>11. ReadInv'
  BY <1>7 DEF IInv, ServingInv, ReadInv, NoRequest
<1>12. WriteInv'
  BY <1>7 DEF IInv, ServingInv, WriteInv, NoRequest
<1>13. FitsInv'
  BY <1>7 DEF FitsInv, Serving, Pending, NoRequest
<1>14. PayloadInv'
  BY <1>2 DEF IInv, PayloadInv
<1>15. AddressInv'
  <2>1. hw.address = host.addr /\ Serving /\ udd.req = host.req /\ ~hw.reset
    BY <1>1 DEF InReady
  <2>2. CASE host.req.address # 0
    <3>1. hw.address = 0 /\ ~Took /\ ~Pending
      BY <2>1, <2>2, <1>1 DEF IInv, AddressInv, Deaf, Serving, Took, InReady
    <3>2. hw.address \in host'.parted /\ hw.address # host'.addr
      BY <1>4, <1>5, <1>7, <2>2, <3>1 DEF Parts
    <3>3. Deaf'
      BY <3>1, <3>2 DEF Deaf, Took, Pending
    <3> QED BY <1>7, <3>3 DEF AddressInv, NoRequest
  <2>3. CASE host.req.address = 0
    <3>1. host'.addr = host.addr
      BY <1>4, <1>7, <2>3
    <3> QED BY <1>2, <1>7, <2>1, <2>3, <3>1 DEF AddressInv, NoRequest
  <2> QED BY <2>2, <2>3
<1> QED BY <1>2, <1>7, <1>8, <1>9, <1>10, <1>11, <1>12, <1>13, <1>14, <1>15 DEF IInv, TypeOK

\* A packet of the device, whatever becomes of it.
LEMMA HostInStep ==
  ASSUME IInv, HostIn
  PROVE  IInv'
<1>1. CASE host.stage = "in" /\ host' = Idle(host) /\ hw' = hw
  BY <1>1, InOverlongStep
<1>2. CASE host.stage = "in" /\ ~Fresh /\ host' = host /\ InTaken
  BY <1>2, InAgainStep
<1>3. CASE host' = host /\ hw' = hw
  <2>1. UNCHANGED vars
    BY <1>3 DEF HostIn, vars
  <2> QED BY <2>1, UnchangedStep
<1>4. CASE /\ host.stage = "in" /\ Fresh /\ host' = Arrives(hw.bank1)
           /\ host.got + hw.bank1.len <= host.req.wLength /\ (InTaken \/ hw' = hw)
  BY <1>4, InFreshStep, InFreshLostStep
<1>5. CASE /\ host.stage = "statusIn"
           /\ \/ InTaken /\ host' = Ended
              \/ hw' = hw /\ host' = [Ended EXCEPT !.parted = @ \cup Parts]
  BY <1>5, StatusInStep, StatusInLostStep
<1> QED BY InCases, <1>1, <1>2, <1>3, <1>4, <1>5

-----------------------------------------------------------------------------
(***************************************************************************)
(* The invariant.                                                          *)
(***************************************************************************)

\* A SETUP, whatever the request.
LEMMA SetupStep ==
  ASSUME IInv, _usb_ep0_on_setup
  PROVE  IInv'
<1>1. hw.setup.req \in Requests
  BY SetupStart DEF SetupReady
<1>2. hw.setup.req.dir \in {"in", "out"}
  BY <1>1, RequestAssumption
<1> QED BY <1>2, SetupRefusedStep, SetupReadStep, SetupNoDataStep, SetupWriteStep

\* An interrupt.
LEMMA HandlerStep ==
  ASSUME IInv, _usb_device_interrupt_handler
  PROVE  IInv'
<1>1. CASE _usb_ep0_on_setup
  BY <1>1, SetupStep
<1>2. CASE _usb_ep0_on_tansfer_ok("TRCPT1", {"RXSTP"})
  <2>1. Urgent("TRCPT1", {"RXSTP"})
    BY DEF Urgent
  <2> QED BY <1>2, <2>1, TransferStep
<1>3. CASE _usb_ep0_on_tansfer_ok("TRCPT0", {"RXSTP", "TRCPT1"})
  <2>1. Urgent("TRCPT0", {"RXSTP", "TRCPT1"})
    BY DEF Urgent
  <2> QED BY <1>3, <2>1, TransferStep
<1>4. CASE TakeFail("TRFAIL1", {"RXSTP", "TRCPT1", "TRCPT0"})
  BY <1>4, TakeFailStep
<1>5. CASE TakeFail("TRFAIL0", {"RXSTP", "TRCPT1", "TRCPT0", "TRFAIL1"})
  <2>1. {"RXSTP", "TRCPT1", "TRCPT0"} \subseteq {"RXSTP", "TRCPT1", "TRCPT0", "TRFAIL1"}
    OBVIOUS
  <2> QED BY <1>5, <2>1, TakeFailStep
<1>6. CASE _usb_ep0_on_tansfer_fail
  BY <1>6, FailStep
<1>7. CASE _usb_on_bus_reset
  BY <1>7, BusResetStep
<1> QED BY <1>1, <1>2, <1>3, <1>4, <1>5, <1>6, <1>7 DEF _usb_device_interrupt_handler

\* A step of the host, and the unit's answer.
LEMMA HostStep ==
  ASSUME Timely, IInv, Host
  PROVE  IInv'
<1>1. CASE \E r \in Requests : HostAsks(r)
  BY <1>1, HostAsksStep
<1>2. CASE HostSetup
  <2>1. host' = [host EXCEPT !.stage = AfterSetup(host.req)]
    BY <1>2 DEF HostSetup, Timely
  <2> QED BY <1>2, <2>1, HostSetupStep
<1>3. CASE HostRefused
  <2>1. \/ host.stage \in {"in", "statusIn"} /\ hw' = [hw EXCEPT !.flags = @ \cup {"TRFAIL1"}]
        \/ host.stage \in {"out", "statusOut"} /\ hw' = [hw EXCEPT !.flags = @ \cup {"TRFAIL0"}]
    BY <1>3 DEF HostRefused
  <2> QED BY <1>3, <2>1, RefusedInStep, RefusedOutStep
<1>4. CASE HostOut \/ HostIn \/ HostStalled \/ HostReset
  BY <1>4, HostOutStep, HostInStep, HostStalledStep, HostResetStep
<1> QED BY <1>1, <1>2, <1>3, <1>4 DEF Host, Transaction

\* The invariant holds at the start: nothing is pending, and nobody waits.
THEOREM InitIInv == Init => IInv
<1> SUFFICES ASSUME Init PROVE IInv
  OBVIOUS
<1>1. TypeOK
  <2>1. NoPacket \in [mine : BOOLEAN, at : Nat, len : -1 .. CtrlSize]
    BY DEF NoPacket, CtrlSize
  <2>2. NoSetup \in [mine : BOOLEAN, req : Requests \cup {NoRequest}]
    BY DEF NoSetup
  <2>3. hw \in HwType
    BY <2>1, <2>2 DEF Init, HwType, Flags, CtrlSize
  <2>4. udd \in UddType
    BY DEF Init, UddType, States
  <2>5. host \in HostType
    BY DEF Init, HostType, Stages
  <2> QED BY <2>3, <2>4, <2>5 DEF TypeOK
<1>2. /\ hw.flags = {} /\ hw.failing = "none" /\ hw.bank1 = NoPacket /\ hw.address = 0 /\ ~hw.reset
      /\ udd.state = "SETUP" /\ udd.req = NoRequest
      /\ host.stage = "idle" /\ host.req = NoRequest /\ host.got = 0 /\ host.addr = 0
  BY DEF Init
<1>3. NoPacket.len = -1 /\ NoRequest.address = 0
  BY DEF NoPacket, NoRequest
<1> QED BY <1>1, <1>2, <1>3 DEF IInv, StageInv, PendingInv, ServingInv, ReadInv, WriteInv,
     FitsInv, PayloadInv, AddressInv, Serving, Pending, Waits

\* Every step keeps it: an interrupt, a step of the host, and none.
THEOREM StepIInv ==
  ASSUME Timely, IInv, [Next]_vars
  PROVE  IInv'
BY HandlerStep, HostStep, UnchangedStep DEF Next

\* What both theorems are for.
LEMMA AlwaysIInv == Timely => (Spec => []IInv)
<1> SUFFICES ASSUME Timely PROVE Spec => []IInv
  OBVIOUS
<1>1. IInv /\ [Next]_vars => IInv'
  BY StepIInv
<1> QED BY <1>1, InitIInv, PTL DEF Spec

-----------------------------------------------------------------------------
(***************************************************************************)
(* What follows from it.                                                   *)
(***************************************************************************)

\* A host that expects an answer the handler has seen the SETUP of is being served.
LEMMA WaitingIsServed ==
  ASSUME IInv, Waits, hw.stall # {} \/ hw.bank1 # NoPacket
  PROVE  Serving
BY DEF IInv, PendingInv, Serving

\* The host and the device use one address but between the handshake of SET_ADDRESS and
\* the interrupt for it, or the device is where a change was given up.
LEMMA AddressesFollow ==
  ASSUME IInv
  PROVE  AddressesAgree
BY DEF IInv, AddressInv, AddressesAgree, Deaf

\* The invariant keeps the device inside the payload, and gives it all of a write.
LEMMA PayloadFollows ==
  ASSUME IInv
  PROVE  PayloadRight
<1>1. udd.state \in {"DATA_IN", "DATA_OUT"} \/ (udd.state = "WAIT_IN_ZLP" /\ udd.req.wLength > 0)
        => udd.trans <= udd.req.size
  BY DEF IInv, PayloadInv
<1>2. hw.bank1.len > 0 => hw.bank1.at + hw.bank1.len <= udd.req.size
  BY DEF IInv, PayloadInv
<1>3. ASSUME host.stage = "statusIn", host.req.ok, host.req.wLength \in 1 .. host.req.size, hw.bank1 # NoPacket
      PROVE  udd.trans = host.req.wLength
  <2>1. Serving
    BY <1>3, WaitingIsServed DEF Waits
  <2>2. udd.req = host.req /\ host.req.dir = "out" /\ host.req \in Requests
    BY <1>3, <2>1 DEF IInv, StageInv, ServingInv
  <2>3. host.req.wLength > 0 /\ host.req.wLength <= host.req.size
    BY <1>3, <2>2, RequestAssumption
  <2>4. udd.state = "WAIT_IN_ZLP" /\ (udd.req.wLength > 0 => udd.trans = udd.req.wLength)
    BY <1>3, <2>1, <2>2, <2>3 DEF IInv, FitsInv
  <2> QED BY <2>2, <2>3, <2>4
<1> QED BY <1>1, <1>2, <1>3 DEF PayloadRight

\* The invariant keeps both stalls off a request that is in order.
LEMMA NoStallFollows ==
  ASSUME IInv
  PROVE  NoFalseStall
<1> SUFFICES ASSUME host.req.ok, host.req.dir = "out" => host.req.wLength <= host.req.size,
                    ~HandshakeMissed, Stalled
             PROVE  FALSE
  BY DEF NoFalseStall
<1>1. Serving
  BY WaitingIsServed DEF Stalled, Waits
<1>2. udd.req = host.req
  BY <1>1 DEF IInv, ServingInv
<1>3. CASE host.stage = "in" /\ "in" \in hw.stall
  BY <1>1, <1>3 DEF IInv, StageInv, ReadInv
<1>4. CASE host.stage = "statusIn" /\ "in" \in hw.stall
  BY <1>1, <1>4 DEF IInv, StageInv, WriteInv
<1>5. CASE host.stage = "statusOut" /\ "out" \in hw.stall
  BY <1>1, <1>5 DEF IInv, StageInv, ReadInv
<1>6. CASE host.stage = "out" /\ "out" \in hw.stall
  <2>1. host.req.dir = "out" /\ host.sent < host.req.wLength /\ host.req \in Requests
    BY <1>6 DEF IInv, StageInv
  <2>2. UnitTook = host.sent
    BY <1>6 DEF HandshakeMissed, UnitTook
  <2>3. UnitTook = host.req.wLength
    BY <1>1, <1>2, <1>6, <2>1 DEF IInv, FitsInv
  <2>4. host.sent \in Nat /\ host.req.wLength \in Nat
    BY <2>1, RequestAssumption DEF IInv, TypeOK, HostType
  <2> QED BY <2>1, <2>2, <2>3, <2>4
<1> QED BY <1>3, <1>4, <1>5, <1>6 DEF Stalled

-----------------------------------------------------------------------------
(***************************************************************************)
(* The endpoint implements ControlTransfer.                                *)
(***************************************************************************)

\* Who waits for nothing, or for what was refused, has no bytes.
LEMMA NothingOfNone ==
  ASSUME IInv, ~host.req.ok
  PROVE  host.got = 0
<1>1. CASE ~Waits
  BY <1>1 DEF IInv, StageInv
<1>2. CASE Waits /\ Pending
  BY <1>2 DEF IInv, PendingInv
<1>3. CASE Serving
  BY <1>3 DEF IInv, ServingInv
<1> QED BY <1>1, <1>2, <1>3 DEF Serving

\* A host that becomes idle has given up its request.
LEMMA IdleGivesUp ==
  ASSUME IInv, host'.req = NoRequest, host'.got = 0
  PROVE  Service!Next \/ UNCHANGED Service!vars
<1>1. CASE host.req # NoRequest
  BY <1>1 DEF Service!GiveUp, Service!Next
<1>2. CASE host.req = NoRequest
  <2>1. host.got = 0
    BY <1>2, NothingOfNone DEF NoRequest
  <2> QED BY <1>2, <2>1 DEF Service!vars
<1> QED BY <1>1, <1>2

\* A request that is in order ends when the host has what is due.
LEMMA OkCompletes ==
  ASSUME NEW r \in Requests, r = host.req, r.ok, host.got = Due[r], Due[r] \in Nat,
         host'.req = NoRequest, host'.got = 0
  PROVE  Service!Next
<1>1. r # NoRequest
  BY DEF NoRequest
<1> QED BY <1>1 DEF Service!Left, Service!Complete, Service!Next

\* The bytes of a packet the host takes are the next that are due.
LEMMA ServiceIn ==
  ASSUME IInv, HostIn
  PROVE  Service!Next \/ UNCHANGED Service!vars
<1>1. /\ Serving /\ host.req.ok /\ udd.req = host.req /\ host.req \in Requests
      /\ host.stage \in {"in", "statusIn"} /\ hw.bank1.len \in 0 .. CtrlSize
      /\ host.stage = "in" => host.req.dir = "in" /\ SentInv /\ host.got \in Nat /\ udd.size = udd.req.size
      /\ host.stage = "statusIn" => host.req.dir = "out"
  BY InStart DEF InReady
<1>2. host \in HostType /\ host.req.wLength \in Nat /\ host.req.size \in Nat
  BY <1>1, RequestAssumption DEF IInv, TypeOK
<1>3. CASE host' = Idle(host)
  BY <1>2, <1>3, IdleEffect, IdleGivesUp
<1>4. CASE host' = host
  BY <1>4 DEF Service!vars
<1>5. CASE /\ host.stage = "in" /\ Fresh /\ host' = Arrives(hw.bank1)
           /\ host.got + hw.bank1.len <= host.req.wLength
  <2>1. host'.req = host.req /\ host'.got = host.got + hw.bank1.len
    BY <1>5, GotEffect DEF GotHost
  <2>2. /\ hw.bank1.at = host.got /\ hw.bank1.at <= udd.size
        /\ hw.bank1.len = Min2(udd.size - hw.bank1.at, CtrlSize)
    BY <1>1, <1>5 DEF SentInv
  <2>3. host.got < host.req.wLength
    BY <1>1, <1>5 DEF IInv, ReadInv
  <2>4. Due[host.req] = Min2(host.req.size, host.req.wLength)
    BY <1>1, <1>5 DEF Due
  <2>5. host.req # NoRequest
    BY <1>1 DEF NoRequest
  <2>6. CASE hw.bank1.len = 0
    BY <1>1, <1>5, <2>1, <2>6 DEF Service!vars
  <2>7. CASE hw.bank1.len # 0
    <3>1. PICK left : left = Min2(host.req.size, host.req.wLength) - host.got
      OBVIOUS
    <3>2. left \in Int /\ left > 0 /\ hw.bank1.len = IF left < CtrlSize THEN left ELSE CtrlSize
      BY <1>1, <1>2, <1>5, <2>2, <2>3, <2>7, <3>1 DEF Min2, CtrlSize
    <3>3. Service!Left = left
      BY <2>4, <3>1 DEF Service!Left
    <3> QED BY <2>1, <2>5, <3>2, <3>3 DEF Service!Deliver, Service!Next
  <2> QED BY <2>6, <2>7
<1>6. CASE /\ host.stage = "statusIn"
           /\ host' = Ended \/ host' = [Ended EXCEPT !.parted = @ \cup Parts]
  <2>1. host'.req = NoRequest /\ host'.got = 0
    <3>1. PICK e \in HostType : e = Ended /\ e.req = NoRequest /\ e.got = 0
      BY <1>6, EndedIs
    <3> QED BY <1>6, <3>1 DEF HostType
  <2>2. host.got = 0
    BY <1>6 DEF IInv, StageInv
  <2>3. Due[host.req] = 0
    BY <1>1, <1>6 DEF Due
  <2> QED BY <1>1, <2>1, <2>2, <2>3, OkCompletes
<1> QED BY InCases, <1>3, <1>4, <1>5, <1>6

\* A packet of the host ends a read that has had what is due, and nothing else.
LEMMA ServiceOut ==
  ASSUME IInv, HostOut
  PROVE  Service!Next \/ UNCHANGED Service!vars
<1>1. Serving /\ host.req.ok /\ udd.req = host.req /\ host.req \in Requests
  BY OutStart DEF OutReady
<1>2. host \in HostType /\ host.req.wLength \in Nat /\ host.req.size \in Nat
  BY <1>1, RequestAssumption DEF IInv, TypeOK
<1>3. PICK n \in 0 .. CtrlSize :
        host' = host \/ DataHeard(n) \/ (host.stage = "statusOut" /\ host' = Idle(host))
  BY OutCases
<1>4. CASE host' = host
  BY <1>4 DEF Service!vars
<1>5. CASE DataHeard(n)
  BY <1>2, <1>5, HeardEffect DEF HeardHost, Service!vars
<1>6. CASE host.stage = "statusOut" /\ host' = Idle(host)
  <2>1. host'.req = NoRequest /\ host'.got = 0
    BY <1>2, <1>6, IdleEffect
  <2>2. host.req.dir = "in"
    BY <1>6 DEF IInv, StageInv
  <2>3. /\ host.got >= 0 /\ host.got <= host.req.size /\ host.got <= host.req.wLength
        /\ host.got = host.req.size \/ host.got = host.req.wLength
    BY <1>1, <1>6, <2>2 DEF IInv, ReadInv
  <2>4. Due[host.req] = Min2(host.req.size, host.req.wLength)
    BY <1>1, <2>2 DEF Due
  <2>5. host.got = Due[host.req] /\ Due[host.req] \in Nat
    BY <1>2, <2>3, <2>4 DEF Min2
  <2> QED BY <1>1, <2>1, <2>5, OkCompletes
<1> QED BY <1>3, <1>4, <1>5, <1>6

\* Every step is a step of the service, or one it does not see.
LEMMA ServiceStep ==
  ASSUME Timely, IInv, [Next]_vars
  PROVE  [Service!Next]_(Service!vars)
<1>1. CASE _usb_device_interrupt_handler \/ HostRefused \/ UNCHANGED vars
  <2>1. host' = host
    BY <1>1 DEF _usb_device_interrupt_handler, _usb_ep0_on_setup, _usb_ep0_on_tansfer_ok,
         TakeFail, _usb_ep0_on_tansfer_fail, _usb_on_bus_reset, HostRefused, vars
  <2> QED BY <2>1 DEF Service!vars
<1>2. host \in HostType
  BY DEF IInv, TypeOK
<1>3. ASSUME NEW r \in Requests, HostAsks(r)
      PROVE  Service!Next
  <2>1. host' = [Idle(host) EXCEPT !.stage = "setup", !.req = r, !.parted = @ \cup GivenUp]
    BY <1>3 DEF HostAsks
  <2>2. host'.req = r /\ host'.got = 0
    BY <1>2, <2>1 DEF Idle, HostType
  <2> QED BY <2>2 DEF Service!Ask, Service!Next
<1>4. CASE HostSetup
  <2>1. host' = [host EXCEPT !.stage = AfterSetup(host.req)]
    BY <1>4 DEF HostSetup, Timely
  <2>2. host'.req = host.req /\ host'.got = host.got
    BY <1>2, <2>1 DEF HostType
  <2> QED BY <2>2 DEF Service!vars
<1>5. CASE HostStalled
  <2>1. host' = Idle(host)
    BY <1>5 DEF HostStalled
  <2> QED BY <1>2, <2>1, IdleEffect, IdleGivesUp
<1>6. CASE HostReset
  <2>1. host' = [Idle(host) EXCEPT !.addr = 0, !.parted = {}]
    BY <1>6 DEF HostReset
  <2>2. host'.req = NoRequest /\ host'.got = 0
    BY <1>2, <2>1 DEF Idle, HostType
  <2> QED BY <2>2, IdleGivesUp
<1>7. CASE HostOut \/ HostIn
  BY <1>7, ServiceOut, ServiceIn
<1> QED BY <1>1, <1>3, <1>4, <1>5, <1>6, <1>7 DEF Next, Host, Transaction

-----------------------------------------------------------------------------
(***************************************************************************)
(* The theorems.                                                           *)
(***************************************************************************)

\* Every register, variable of the driver and count of the host stays in its range.
THEOREM TypeCorrect == Timely => (Spec => []TypeOK)
<1> SUFFICES ASSUME Timely PROVE Spec => []TypeOK
  OBVIOUS
<1>1. IInv => TypeOK
  BY DEF IInv
<1> QED BY <1>1, AlwaysIInv, PTL

\* Host and device use one address, but between the handshake of the change and the
\* interrupt that takes it up (udc_valid_address), and until the next reset for a host that
\* gave a change up or lost the handshake of its end: then the device is where that left it,
\* and at no address the host never gave.
THEOREM AddressesAlwaysAgree == Timely => (Spec => []AddressesAgree)
<1> SUFFICES ASSUME Timely PROVE Spec => []AddressesAgree
  OBVIOUS
<1>1. IInv => AddressesAgree
  BY AddressesFollow
<1> QED BY <1>1, AlwaysIInv, PTL

\* The device stays inside the payload of the request, and has all of a write that fits
\* when the host has ended its data.
THEOREM PayloadAlwaysRight == Timely => (Spec => []PayloadRight)
<1> SUFFICES ASSUME Timely PROVE Spec => []PayloadRight
  OBVIOUS
<1>1. IInv => PayloadRight
  BY PayloadFollows
<1> QED BY <1>1, AlwaysIInv, PTL

\* A request that is in order is not stalled while no handshake of its data is missed.
THEOREM NeverFalselyStalled == Timely => (Spec => []NoFalseStall)
<1> SUFFICES ASSUME Timely PROVE Spec => []NoFalseStall
  OBVIOUS
<1>1. IInv => NoFalseStall
  BY NoStallFollows
<1> QED BY <1>1, AlwaysIInv, PTL

\* The control endpoint implements the service: whatever handshakes of data get lost, the
\* host is sent the bytes due to the request it waits for, in order and once.
THEOREM EndpointDelivers == Timely => (Spec => Delivers)
<1> SUFFICES ASSUME Timely PROVE Spec => Delivers
  OBVIOUS
<1>1. Init => Service!Init
  BY DEF Init, Service!Init
<1>2. IInv /\ [Next]_vars => [Service!Next]_(Service!vars)
  BY ServiceStep
<1> QED BY <1>1, <1>2, AlwaysIInv, PTL DEF Spec, Delivers, Service!Spec
=============================================================================
