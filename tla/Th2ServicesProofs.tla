--------------------------- MODULE Th2ServicesProofs ---------------------------
(***************************************************************************)
(* Proofs about two services of the second device's framework: the         *)
(* requests that configure it (UdcConfig), whatever the host asks for in   *)
(* whatever order and whatever handler a bus reset, a lost answer or a     *)
(* report meets; and critical sections (IrqCritical), which keep           *)
(* interrupts out, and give them back, however deeply they are nested.     *)
(***************************************************************************)
EXTENDS UdcConfig, IrqCritical, FiniteSets, FiniteSetTheorems, TLAPS

-----------------------------------------------------------------------------
(***************************************************************************)
(* UdcConfig.                                                              *)
(***************************************************************************)

\* The fields of the endpoints, one by one.
On(e)    == ep[e].on
Ready(e) == ep[e].ready
Done(e)  == ep[e].done
Stall(e) == ep[e].stall
Busy(e)  == ep[e].busy

\* What a handler has left to do: an interface to enable, or the job to start again.
Enables  == isr \in {"alloc", "enable"}
Restarts == isr \in {"rearm", "nohalt"}

\* No handler is on its way in a device that is not configured, and nothing is left of
\* the endpoints but a halt.
Quiet ==
  conf = 0 => isr = "idle" /\ ~active /\ \A e \in Eps : ~On(e) /\ ~Ready(e) /\ ~Done(e) /\ ~Busy(e)

\* The job on endpoint OUT: its bank is the unit's, or its callback is pending.  A bus
\* reset that was not handled yet may have taken the endpoint from it.  A bank may be left
\* without a job, when a halt was cleared that was not set.
JobInv ==
  /\ ~Busy("in") /\ (isr # "idle" => ~Busy("out"))
  /\ ~reset /\ isr = "idle" /\ Busy("out") => Ready("out") \/ Done("out")
  /\ ~reset /\ (Ready("out") \/ Done("out") \/ Restarts) => On("out") /\ ~Stall("out")
  /\ ~reset /\ isr = "enable" => \A e \in Eps : On(e)

\* The host waits for one answer at a time, and a bus reset makes it start over.
RequestInv ==
  /\ reset => asked = NotAsked /\ host = "none"
  /\ asked = NotAsked => answer = "none"
  /\ Enables \/ isr = "nohalt" => answer = "none" /\ (asked = NotAsked => reset)
  /\ Enables => asked \in {NotAsked, <<"SET_CONFIGURATION", 1>>, <<"SET_INTERFACE", 0>>}
  /\ isr = "nohalt" => asked \in {NotAsked, <<"CLEAR_HALT", "out">>}

\* What the host knows, and what it will know once it hears the answer, is so.
Works == active /\ On("in") /\ On("out")
Room  == Ready("out") \/ Done("out") \/ Restarts
KnowsInv ==
  /\ answer = "none" /\ ~Enables => (host # "none" => Works) /\ (host = "configured" => Room)
  /\ answer # "none" => (Learns # "none" => Works) /\ (Learns = "configured" => Room)

ConfInv == ConfTypeOK /\ Quiet /\ JobInv /\ RequestInv /\ KnowsInv

\* The shapes the lemmas below need of the variables.
Pipe  == [on : BOOLEAN, ready : BOOLEAN, done : BOOLEAN, stall : BOOLEAN, busy : BOOLEAN]
Typed == ep \in [Eps -> Pipe] /\ active \in BOOLEAN /\ reset \in BOOLEAN /\ conf \in {0, 1}

\* The interface is disabled: the endpoints keep nothing but a halt.
LEMMA DisabledIsQuiet ==
  ASSUME Typed
  PROVE  /\ Disabled \in [Eps -> Pipe]
         /\ \A e \in Eps : /\ ~Disabled[e].on /\ ~Disabled[e].ready /\ ~Disabled[e].done /\ ~Disabled[e].busy
                           /\ Disabled[e].stall = ep[e].stall
BY DEF Typed, Pipe, Disabled, udd_ep_free, Aborted

\* udc_reset leaves endpoints without a job, whether there was a configuration or not.
LEMMA ResetIsQuiet ==
  ASSUME Typed, Quiet
  PROVE  /\ udc_reset \in [Eps -> Pipe]
         /\ \A e \in Eps : /\ ~udc_reset[e].on /\ ~udc_reset[e].ready /\ ~udc_reset[e].done /\ ~udc_reset[e].busy
                           /\ udc_reset[e].stall = ep[e].stall
<1>1. CASE conf = 0
  BY <1>1 DEF udc_reset, Quiet, On, Ready, Done, Busy, Typed
<1>2. CASE conf # 0
  BY <1>2, DisabledIsQuiet DEF udc_reset
<1> QED BY <1>1, <1>2

\* Endpoints that are enabled have no bank at the unit yet.
LEMMA AllocEffect ==
  ASSUME Typed, udc_iface_enable
  PROVE  /\ ep' \in [Eps -> Pipe]
         /\ \A e \in Eps : /\ On(e)' /\ ~Ready(e)'
                           /\ Done(e)' = Done(e) /\ Busy(e)' = Busy(e) /\ Stall(e)' = Stall(e)
BY DEF Typed, Pipe, udc_iface_enable, udd_ep_alloc, On, Ready, Done, Busy, Stall

\* udd_ep_run starts the job unless the endpoint is halted or has one.
LEMMA RunEffect ==
  ASSUME Typed, ep' = Run
  PROVE  /\ ep' \in [Eps -> Pipe]
         /\ \A e \in Eps : On(e)' = On(e) /\ Stall(e)' = Stall(e) /\ Done(e)' = Done(e)
         /\ Runs => Busy("out")' /\ (Ready("out")' <=> Ready("out") \/ On("out"))
         /\ ~Runs => ep' = ep
<1>1. CASE ~Runs
  BY <1>1 DEF Run, Typed, On, Stall, Done
<1>2. CASE Runs
  <2>1. PICK b \in BOOLEAN : b = (ep["out"].ready \/ ep["out"].on)
    OBVIOUS
  <2>2. ep["out"] \in Pipe /\ ep["in"] \in Pipe
    BY DEF Typed, Eps
  <2>3. [ep["out"] EXCEPT !.busy = TRUE, !.ready = b] \in Pipe
    BY <2>1, <2>2 DEF Pipe
  <2>4. ep' = [ep EXCEPT !["out"] = [ep["out"] EXCEPT !.busy = TRUE, !.ready = b]]
    BY <1>2, <2>1, <2>2 DEF Run, Typed, Pipe, Eps
  <2>5. ep' \in [Eps -> Pipe]
    BY <2>3, <2>4 DEF Typed
  <2>6. ep'["out"] = [ep["out"] EXCEPT !.busy = TRUE, !.ready = b] /\ ep'["in"] = ep["in"]
    BY <2>4 DEF Typed, Eps
  <2>7. \A e \in Eps : On(e)' = On(e) /\ Stall(e)' = Stall(e) /\ Done(e)' = Done(e)
    BY ZenonT(40), <2>2, <2>6 DEF On, Stall, Done, Pipe, Eps
  <2>8. Busy("out")' /\ (Ready("out")' <=> Ready("out") \/ On("out"))
    BY <2>1, <2>2, <2>6 DEF Busy, Ready, On, Pipe
  <2> QED BY <1>2, <2>5, <2>7, <2>8
<1> QED BY <1>1, <1>2

\* SET_FEATURE halts an endpoint and aborts its job.
LEMMA HaltEffect ==
  ASSUME Typed, NEW h \in Eps, udc_req_std_ep_set_feature(h)
  PROVE  /\ ep' \in [Eps -> Pipe]
         /\ \A e \in Eps : On(e)' = On(e)
         /\ ~Ready(h)' /\ ~Done(h)' /\ ~Busy(h)'
         /\ \A e \in Eps \ {h} : ep'[e] = ep[e]
<1>1. ep[h] \in Pipe
  BY DEF Typed
<1>2. ep' = [ep EXCEPT ![h] = [Aborted(ep[h]) EXCEPT !.stall = TRUE]]
  BY DEF udc_req_std_ep_set_feature, Typed
<1>3. [Aborted(ep[h]) EXCEPT !.stall = TRUE] \in Pipe
  BY <1>1 DEF Aborted, Pipe
<1>4. ep'[h] = [Aborted(ep[h]) EXCEPT !.stall = TRUE] /\ \A e \in Eps \ {h} : ep'[e] = ep[e]
  BY <1>2 DEF Typed
<1>5. ep' \in [Eps -> Pipe]
  BY <1>2, <1>3 DEF Typed
<1>6. On(h)' = On(h) /\ ~Ready(h)' /\ ~Done(h)' /\ ~Busy(h)'
  BY <1>1, <1>4 DEF On, Ready, Done, Busy, Aborted, Pipe
<1>7. \A e \in Eps : On(e)' = On(e)
  BY <1>4, <1>6 DEF On
<1> QED BY <1>4, <1>5, <1>6, <1>7

\* CLEAR_FEATURE ends the halt and the job, and leaves the bank alone.
LEMMA ClearEffect ==
  ASSUME Typed, NEW h \in Eps, udc_req_std_ep_clear_feature(h)
  PROVE  /\ ep' \in [Eps -> Pipe] /\ ~Stall(h)' /\ ~Busy(h)'
         /\ \A e \in Eps \ {h} : Stall(e)' = Stall(e) /\ Busy(e)' = Busy(e)
         /\ \A e \in Eps : On(e)' = On(e) /\ Ready(e)' = Ready(e) /\ Done(e)' = Done(e)
<1>1. ep[h] \in Pipe
  BY DEF Typed
<1>2. ep' = [ep EXCEPT ![h] = [ep[h] EXCEPT !.stall = FALSE, !.busy = FALSE]]
  BY <1>1 DEF udc_req_std_ep_clear_feature, Typed, Pipe
<1>3. [ep[h] EXCEPT !.stall = FALSE, !.busy = FALSE] \in Pipe
  BY <1>1 DEF Pipe
<1>4. ep'[h] = [ep[h] EXCEPT !.stall = FALSE, !.busy = FALSE] /\ \A e \in Eps \ {h} : ep'[e] = ep[e]
  BY <1>2 DEF Typed
<1>5. ep' \in [Eps -> Pipe]
  BY <1>2, <1>3 DEF Typed
<1>6. On(h)' = On(h) /\ Ready(h)' = Ready(h) /\ Done(h)' = Done(h) /\ ~Busy(h)' /\ ~Stall(h)'
  BY <1>1, <1>4 DEF On, Ready, Done, Busy, Stall, Pipe
<1> QED BY <1>4, <1>5, <1>6 DEF On, Ready, Done, Busy, Stall

\* The end of a job makes its endpoint idle, its bank given back.
LEMMA DoneEffect ==
  ASSUME Typed, TransferDone
  PROVE  /\ ep' \in [Eps -> Pipe] /\ ~Done("out")' /\ ~Busy("out")' /\ Ready("out")' = Ready("out")
         /\ \A e \in Eps : On(e)' = On(e) /\ Stall(e)' = Stall(e)
<1>1. ep["out"] \in Pipe /\ ep["in"] \in Pipe
  BY DEF Typed, Eps
<1>2. ep' = [ep EXCEPT !["out"] = [ep["out"] EXCEPT !.done = FALSE, !.busy = FALSE]]
  BY <1>1 DEF TransferDone, Typed, Pipe, Eps
<1>3. [ep["out"] EXCEPT !.done = FALSE, !.busy = FALSE] \in Pipe
  BY <1>1 DEF Pipe
<1>4. ep' \in [Eps -> Pipe]
  BY <1>2, <1>3 DEF Typed
<1>5. ep'["out"] = [ep["out"] EXCEPT !.done = FALSE, !.busy = FALSE] /\ ep'["in"] = ep["in"]
  BY <1>2 DEF Typed, Eps
<1> QED BY <1>1, <1>4, <1>5 DEF On, Stall, Ready, Done, Busy, Pipe, Eps

\* A report fills the bank, which is then the firmware's.
LEMMA ReportEffect ==
  ASSUME Typed, ReportOut
  PROVE  /\ ep' \in [Eps -> Pipe] /\ Done("out")' /\ ~Ready("out")' /\ Busy("out")' = Busy("out")
         /\ \A e \in Eps : On(e)' = On(e) /\ Stall(e)' = Stall(e)
<1>1. ep["out"] \in Pipe /\ ep["in"] \in Pipe
  BY DEF Typed, Eps
<1>2. ep' = [ep EXCEPT !["out"] = [ep["out"] EXCEPT !.ready = FALSE, !.done = TRUE]]
  BY <1>1 DEF ReportOut, Typed, Pipe, Eps
<1>3. [ep["out"] EXCEPT !.ready = FALSE, !.done = TRUE] \in Pipe
  BY <1>1 DEF Pipe
<1>4. ep' \in [Eps -> Pipe]
  BY <1>2, <1>3 DEF Typed
<1>5. ep'["out"] = [ep["out"] EXCEPT !.ready = FALSE, !.done = TRUE] /\ ep'["in"] = ep["in"]
  BY <1>2 DEF Typed, Eps
<1> QED BY <1>1, <1>4, <1>5 DEF On, Stall, Ready, Done, Busy, Pipe, Eps

\* A bus reset takes the endpoints away, with the halts and what is pending.
LEMMA BusResetEffect ==
  ASSUME Typed, BusReset
  PROVE  /\ ep' \in [Eps -> Pipe]
         /\ \A e \in Eps : /\ ~On(e)' /\ ~Stall(e)' /\ ~Done(e)'
                           /\ Ready(e)' = Ready(e) /\ Busy(e)' = Busy(e)
BY DEF Typed, Pipe, BusReset, On, Stall, Ready, Done, Busy

\* A configuration takes the endpoints of the one before away.
LEMMA ConfigurationEffect ==
  ASSUME Typed, Quiet, NEW n \in Numbers, udc_req_std_dev_set_configuration(n)
  PROVE  /\ ep' \in [Eps -> Pipe]
         /\ ~Authorized(n) => UNCHANGED <<ep, conf, active, isr>> /\ answer' = "stall"
         /\ Authorized(n) /\ n = 0 =>
              /\ conf' = 0 /\ active' = FALSE /\ isr' = "idle" /\ answer' = "ok"
              /\ \A e \in Eps : ~On(e)' /\ ~Ready(e)' /\ ~Done(e)' /\ ~Busy(e)'
         /\ Authorized(n) /\ n # 0 =>
              /\ n = 1 /\ conf' = 1 /\ isr' = "alloc" /\ answer' = "none" /\ active' \in BOOLEAN
              /\ \A e \in Eps : ~On(e)' /\ ~Ready(e)' /\ ~Done(e)' /\ ~Busy(e)'
<1>1. CASE ~Authorized(n)
  BY <1>1 DEF udc_req_std_dev_set_configuration, Typed, Reply
<1>2. CASE Authorized(n) /\ n = 0
  <2>1. ep' = udc_reset /\ conf' = 0 /\ isr' = "idle" /\ answer' = "ok" /\ active' = (active /\ conf = 0)
    BY <1>2 DEF udc_req_std_dev_set_configuration, Reply, Serve
  <2>2. active' = FALSE
    BY <2>1 DEF Quiet
  <2> QED BY <1>2, <2>1, <2>2, ResetIsQuiet DEF On, Ready, Done, Busy
<1>3. CASE Authorized(n) /\ n # 0
  <2>1. n = 1
    BY <1>3 DEF Authorized
  <2>2. /\ ep' = udc_reset /\ conf' = 1 /\ isr' = "alloc" /\ answer' = "none"
        /\ active' = (active /\ conf = 0)
    BY <1>3, <2>1 DEF udc_req_std_dev_set_configuration, Serve
  <2>3. active' \in BOOLEAN
    BY ONLY <2>2
  <2>4. ep' \in [Eps -> Pipe] /\ \A e \in Eps : ~On(e)' /\ ~Ready(e)' /\ ~Done(e)' /\ ~Busy(e)'
    BY <2>2, ResetIsQuiet DEF On, Ready, Done, Busy
  <2> QED BY <1>3, <2>1, <2>2, <2>3, <2>4
<1> QED BY <1>1, <1>2, <1>3

\* A setting of the interface that does not exist disables it all the same.
LEMMA SettingEffect ==
  ASSUME Typed, NEW s \in Settings, udc_req_std_iface_set_setting(s)
  PROVE  /\ ep' \in [Eps -> Pipe] /\ UNCHANGED conf
         /\ conf = 0 => UNCHANGED <<ep, active, isr>> /\ answer' = "stall"
         /\ conf = 1 => ~active' /\ \A e \in Eps : ~On(e)' /\ ~Ready(e)' /\ ~Done(e)' /\ ~Busy(e)'
         /\ conf = 1 /\ s # 0 => isr' = "idle" /\ answer' = "stall"
         /\ conf = 1 /\ s = 0 => isr' = "alloc" /\ answer' = "none"
<1>1. CASE conf = 0
  BY <1>1 DEF udc_req_std_iface_set_setting, Typed, Reply
<1>2. CASE conf = 1
  <2>1. ep' = Disabled /\ UNCHANGED conf /\ active' = FALSE
    BY <1>2 DEF udc_req_std_iface_set_setting
  <2>2. (s # 0 => isr' = "idle" /\ answer' = "stall") /\ (s = 0 => isr' = "alloc" /\ answer' = "none")
    BY <1>2 DEF udc_req_std_iface_set_setting, Reply, Serve
  <2> QED BY <1>2, <2>1, <2>2, DisabledIsQuiet DEF On, Ready, Done, Busy
<1> QED BY <1>1, <1>2 DEF Typed

\* The handler of a bus reset leaves nothing but halts.
LEMMA ResetEffect ==
  ASSUME Typed, Quiet, _usb_on_bus_reset
  PROVE  /\ ep' \in [Eps -> Pipe] /\ conf' = 0 /\ ~active' /\ isr' = "idle" /\ isr = "idle"
         /\ \A e \in Eps : ~On(e)' /\ ~Ready(e)' /\ ~Done(e)' /\ ~Busy(e)'
<1>1. ep' = udc_reset /\ conf' = 0 /\ isr' = "idle" /\ isr = "idle" /\ active' = (active /\ conf = 0)
  BY DEF _usb_on_bus_reset
<1>2. ~active'
  BY <1>1 DEF Quiet
<1> QED BY <1>1, <1>2, ResetIsQuiet DEF On, Ready, Done, Busy

\* A request is served when nothing else is being done, and when no reset is pending.
LEMMA Served ==
  ASSUME RequestInv, NEW name, NEW arg, name # "none", Serve(name, arg)
  PROVE  /\ isr = "idle" /\ answer = "none" /\ asked = <<name, arg>> /\ asked # NotAsked
         /\ asked[1] = name /\ asked[2] = arg /\ ~reset
<1>1. isr = "idle" /\ answer = "none" /\ asked = <<name, arg>>
  BY DEF Serve
<1>2. asked # NotAsked
  BY <1>1 DEF NotAsked
<1> QED BY <1>1, <1>2 DEF RequestInv

\* The endpoints keep their shape.
LEMMA PipeTypes ==
  Typed /\ Quiet /\ [ConfNext]_confVars => (ep \in [Eps -> Pipe])'
<1> SUFFICES ASSUME Typed, Quiet, [ConfNext]_confVars PROVE (ep \in [Eps -> Pipe])'
  OBVIOUS
<1>1. CASE udc_req_std_dev_set_address
  BY <1>1 DEF udc_req_std_dev_set_address, Serve, Reply, Typed
<1>2. CASE \E n \in Numbers : udc_req_std_dev_set_configuration(n)
  <2>1. PICK n \in Numbers : udc_req_std_dev_set_configuration(n)
    BY <1>2
  <2> QED BY <2>1, ConfigurationEffect
<1>3. CASE \E s \in Settings : udc_req_std_iface_set_setting(s)
  <2>1. PICK s \in Settings : udc_req_std_iface_set_setting(s)
    BY <1>3
  <2> QED BY <2>1, SettingEffect
<1>4. CASE \E r \in {0, 1} : udi_hid_setup(r)
  BY <1>4 DEF udi_hid_setup, Serve, Reply, Typed
<1>5. CASE \E e \in Eps : udc_req_std_ep_set_feature(e)
  <2>1. PICK h \in Eps : udc_req_std_ep_set_feature(h)
    BY <1>5
  <2> QED BY <2>1, HaltEffect
<1>6. CASE \E e \in Eps : udc_req_std_ep_clear_feature(e)
  <2>1. PICK h \in Eps : udc_req_std_ep_clear_feature(h)
    BY <1>6
  <2> QED BY <2>1, ClearEffect
<1>7. CASE udi_hid_generic_enable
  BY <1>7, RunEffect DEF udi_hid_generic_enable
<1>8. CASE udd_ep_transfer_process
  BY <1>8, DoneEffect DEF udd_ep_transfer_process
<1>9. CASE udi_hid_generic_report_out_enable
  BY <1>9, RunEffect DEF udi_hid_generic_report_out_enable
<1>10. CASE _usb_on_bus_reset
  BY <1>10, ResetEffect
<1>11. CASE \E r \in Asks : HostAsks(r)
  BY <1>11 DEF HostAsks, Typed
<1>12. CASE HostHears
  BY <1>12 DEF HostHears, Typed
<1>13. CASE ReportOut
  BY <1>13, ReportEffect
<1>14. CASE BusReset
  BY <1>14, BusResetEffect
<1>15. CASE UNCHANGED confVars
  BY <1>15 DEF confVars, Typed
<1>16. CASE udc_iface_enable
  BY <1>16, AllocEffect
<1> QED BY <1>1, <1>2, <1>3, <1>4, <1>5, <1>6, <1>7, <1>8, <1>9, <1>10, <1>11, <1>12, <1>13,
           <1>14, <1>15, <1>16 DEF ConfNext, Handler

\* The flags keep their types.
LEMMA FlagTypes ==
  Typed /\ Quiet /\ ConfTypeOK /\ [ConfNext]_confVars =>
    ({addressed, active, reset} \subseteq BOOLEAN /\ conf \in {0, 1} /\ rate \in {0, 1})'
<1> SUFFICES ASSUME Typed, Quiet, ConfTypeOK, [ConfNext]_confVars
             PROVE  ({addressed, active, reset} \subseteq BOOLEAN /\ conf \in {0, 1} /\ rate \in {0, 1})'
  OBVIOUS
<1>1. CASE udc_req_std_dev_set_address
  BY <1>1 DEF udc_req_std_dev_set_address, Serve, Reply, ConfTypeOK
<1>2. CASE \E n \in Numbers : udc_req_std_dev_set_configuration(n)
  <2>1. PICK n \in Numbers : udc_req_std_dev_set_configuration(n)
    BY <1>2
  <2>2. conf' \in {0, 1} /\ active' \in BOOLEAN
    <3>1. CASE Authorized(n)
      BY <2>1, <3>1, ConfigurationEffect DEF Typed
    <3>2. CASE ~Authorized(n)
      BY <2>1, <3>2, ConfigurationEffect DEF Typed
    <3> QED BY <3>1, <3>2
  <2> QED BY <2>1, <2>2 DEF udc_req_std_dev_set_configuration, ConfTypeOK
<1>3. CASE \E s \in Settings : udc_req_std_iface_set_setting(s)
  BY <1>3 DEF udc_req_std_iface_set_setting, Serve, Reply, ConfTypeOK
<1>4. CASE \E r \in {0, 1} : udi_hid_setup(r)
  BY <1>4 DEF udi_hid_setup, Serve, Reply, ConfTypeOK
<1>5. CASE \E e \in Eps : udc_req_std_ep_set_feature(e)
  BY <1>5 DEF udc_req_std_ep_set_feature, Serve, Reply, Aborted, ConfTypeOK
<1>6. CASE \E e \in Eps : udc_req_std_ep_clear_feature(e)
  BY <1>6 DEF udc_req_std_ep_clear_feature, Serve, Reply, ConfTypeOK
<1>7. CASE udi_hid_generic_enable
  BY <1>7 DEF udi_hid_generic_enable, ReplyLate, Reply, ConfTypeOK
<1>8. CASE udd_ep_transfer_process
  BY <1>8 DEF udd_ep_transfer_process, TransferDone, ConfTypeOK
<1>9. CASE udi_hid_generic_report_out_enable
  BY <1>9 DEF udi_hid_generic_report_out_enable, ReplyLate, Reply, ConfTypeOK
<1>10. CASE _usb_on_bus_reset
  BY <1>10 DEF _usb_on_bus_reset, ConfTypeOK
<1>11. CASE \E r \in Asks : HostAsks(r)
  BY <1>11 DEF HostAsks, ConfTypeOK
<1>12. CASE HostHears
  BY <1>12 DEF HostHears, ConfTypeOK
<1>13. CASE ReportOut
  BY <1>13 DEF ReportOut, ConfTypeOK
<1>14. CASE BusReset
  BY <1>14 DEF BusReset, ConfTypeOK
<1>15. CASE UNCHANGED confVars
  BY <1>15 DEF confVars, ConfTypeOK
<1>16. CASE udc_iface_enable
  BY <1>16 DEF udc_iface_enable, ConfTypeOK
<1> QED BY <1>1, <1>2, <1>3, <1>4, <1>5, <1>6, <1>7, <1>8, <1>9, <1>10, <1>11, <1>12, <1>13,
           <1>14, <1>15, <1>16 DEF ConfNext, Handler

\* Requests and answers are those there are.
LEMMA RequestTypes ==
  ConfTypeOK /\ [ConfNext]_confVars => (/\ isr \in {"idle", "alloc", "enable", "rearm", "nohalt"} /\ host \in {"none", "configured", "halted"}
      /\ asked \in Asks \cup {NotAsked} /\ answer \in {"none", "ok", "stall"})'
<1> SUFFICES ASSUME ConfTypeOK, [ConfNext]_confVars PROVE (/\ isr \in {"idle", "alloc", "enable", "rearm", "nohalt"} /\ host \in {"none", "configured", "halted"}
      /\ asked \in Asks \cup {NotAsked} /\ answer \in {"none", "ok", "stall"})'
  OBVIOUS
<1>1. CASE udc_req_std_dev_set_address
  BY <1>1 DEF udc_req_std_dev_set_address, Serve, Reply, ConfTypeOK
<1>2. CASE \E n \in Numbers : udc_req_std_dev_set_configuration(n)
  BY <1>2 DEF udc_req_std_dev_set_configuration, Serve, Reply, Authorized, ConfTypeOK
<1>3. CASE \E s \in Settings : udc_req_std_iface_set_setting(s)
  BY <1>3 DEF udc_req_std_iface_set_setting, Serve, Reply, ConfTypeOK
<1>4. CASE \E r \in {0, 1} : udi_hid_setup(r)
  BY <1>4 DEF udi_hid_setup, Serve, Reply, ConfTypeOK
<1>5. CASE \E e \in Eps : udc_req_std_ep_set_feature(e)
  BY <1>5 DEF udc_req_std_ep_set_feature, Serve, Reply, Aborted, ConfTypeOK
<1>6. CASE \E e \in Eps : udc_req_std_ep_clear_feature(e)
  BY <1>6 DEF udc_req_std_ep_clear_feature, Serve, Reply, ConfTypeOK
<1>7. CASE udi_hid_generic_enable
  BY <1>7 DEF udi_hid_generic_enable, ReplyLate, Reply, ConfTypeOK
<1>8. CASE udd_ep_transfer_process
  BY <1>8 DEF udd_ep_transfer_process, TransferDone, ConfTypeOK
<1>9. CASE udi_hid_generic_report_out_enable
  BY <1>9 DEF udi_hid_generic_report_out_enable, ReplyLate, Reply, ConfTypeOK
<1>10. CASE _usb_on_bus_reset
  BY <1>10 DEF _usb_on_bus_reset, ConfTypeOK
<1>11. CASE \E r \in Asks : HostAsks(r)
  BY <1>11 DEF HostAsks, ConfTypeOK
<1>12. CASE HostHears
  <2>1. host' \in {"none", "configured", "halted"}
    <3>1. Learns \in {"none", "configured", "halted"}
      BY DEF Learns, ConfTypeOK
    <3> QED BY <1>12, <3>1 DEF HostHears
  <2> QED BY <1>12, <2>1 DEF HostHears, ConfTypeOK
<1>13. CASE ReportOut
  BY <1>13 DEF ReportOut, ConfTypeOK
<1>14. CASE BusReset
  BY <1>14 DEF BusReset, ConfTypeOK
<1>15. CASE UNCHANGED confVars
  BY <1>15 DEF confVars, ConfTypeOK
<1>16. CASE udc_iface_enable
  BY <1>16 DEF udc_iface_enable, ConfTypeOK
<1> QED BY <1>1, <1>2, <1>3, <1>4, <1>5, <1>6, <1>7, <1>8, <1>9, <1>10, <1>11, <1>12, <1>13,
           <1>14, <1>15, <1>16 DEF ConfNext, Handler

\* Without a configuration nothing starts.
LEMMA QuietStep ==
  Typed /\ Quiet /\ JobInv /\ [ConfNext]_confVars => Quiet'
<1> SUFFICES ASSUME Typed, Quiet, JobInv, [ConfNext]_confVars PROVE Quiet'
  OBVIOUS
<1>1. CASE udc_req_std_dev_set_address
  BY <1>1 DEF udc_req_std_dev_set_address, Serve, Reply, Quiet, On, Ready, Done, Stall, Busy
<1>2. CASE \E n \in Numbers : udc_req_std_dev_set_configuration(n)
  <2>1. PICK n \in Numbers : udc_req_std_dev_set_configuration(n)
    BY <1>2
  <2>2. CASE Authorized(n)
    BY <2>1, <2>2, ConfigurationEffect DEF Quiet
  <2>3. CASE ~Authorized(n)
    BY <2>1, <2>3, ConfigurationEffect DEF Quiet, On, Ready, Done, Busy
  <2> QED BY <2>2, <2>3
<1>3. CASE \E s \in Settings : udc_req_std_iface_set_setting(s)
  <2>1. PICK s \in Settings : udc_req_std_iface_set_setting(s)
    BY <1>3
  <2>2. CASE conf = 0
    BY <2>1, <2>2, SettingEffect DEF Quiet, On, Ready, Done, Busy
  <2>3. CASE conf # 0
    BY <2>1, <2>3, SettingEffect DEF Quiet
  <2> QED BY <2>2, <2>3
<1>4. CASE \E r \in {0, 1} : udi_hid_setup(r)
  BY <1>4 DEF udi_hid_setup, Serve, Reply, Quiet, On, Ready, Done, Stall, Busy
<1>5. CASE \E e \in Eps : udc_req_std_ep_set_feature(e)
  <2>1. PICK h \in Eps : udc_req_std_ep_set_feature(h)
    BY <1>5
  <2>2. UNCHANGED <<conf, active, isr>>
    BY <2>1 DEF udc_req_std_ep_set_feature
  <2>3. conf = 0 => \A e \in Eps : ~On(e)' /\ ~Ready(e)' /\ ~Done(e)' /\ ~Busy(e)'
    <3> SUFFICES ASSUME conf = 0, NEW e \in Eps PROVE ~On(e)' /\ ~Ready(e)' /\ ~Done(e)' /\ ~Busy(e)'
      OBVIOUS
    <3>1. CASE e = h
      BY <2>1, <3>1, HaltEffect DEF Quiet
    <3>2. CASE e # h
      BY <2>1, <3>2, HaltEffect DEF Quiet, On, Ready, Done, Busy
    <3> QED BY <3>1, <3>2
  <2> QED BY <2>2, <2>3 DEF Quiet
<1>6. CASE \E e \in Eps : udc_req_std_ep_clear_feature(e)
  <2>1. PICK h \in Eps : udc_req_std_ep_clear_feature(h)
    BY <1>6
  <2>2. UNCHANGED <<conf, active>> /\ (isr' = isr \/ Busy(h))
    BY <2>1 DEF udc_req_std_ep_clear_feature, Busy
  <2>3. conf = 0 => \A e \in Eps : ~Busy(e)'
    BY <2>1, ClearEffect DEF Quiet
  <2> QED BY <2>1, <2>2, <2>3, ClearEffect DEF Quiet
<1>7. CASE udi_hid_generic_enable
  BY <1>7 DEF udi_hid_generic_enable, Quiet
<1>8. CASE udd_ep_transfer_process
  BY <1>8 DEF udd_ep_transfer_process, Quiet, Done, Eps
<1>9. CASE udi_hid_generic_report_out_enable
  BY <1>9 DEF udi_hid_generic_report_out_enable, Quiet
<1>10. CASE _usb_on_bus_reset
  BY <1>10, ResetEffect DEF Quiet
<1>11. CASE \E r \in Asks : HostAsks(r)
  BY <1>11 DEF HostAsks, Quiet, On, Ready, Done, Stall, Busy
<1>12. CASE HostHears
  BY <1>12 DEF HostHears, Quiet, On, Ready, Done, Stall, Busy
<1>13. CASE ReportOut
  BY <1>13 DEF ReportOut, Quiet, On, Eps
<1>14. CASE BusReset
  <2>1. UNCHANGED <<conf, active, isr>>
    BY <1>14 DEF BusReset
  <2> QED BY <1>14, <2>1, BusResetEffect DEF Quiet
<1>15. CASE UNCHANGED confVars
  BY <1>15 DEF confVars, Quiet, On, Ready, Done, Stall, Busy
<1>16. CASE udc_iface_enable
  BY <1>16 DEF udc_iface_enable, Quiet
<1> QED BY <1>1, <1>2, <1>3, <1>4, <1>5, <1>6, <1>7, <1>8, <1>9, <1>10, <1>11, <1>12, <1>13,
           <1>14, <1>15, <1>16 DEF ConfNext, Handler

\* A handler that starts the job again leaves it with its bank.
LEMMA RunJob ==
  ASSUME Typed, JobInv, ep' = Run, isr # "idle", isr' = "idle", UNCHANGED reset,
         ~reset => On("out")
  PROVE  JobInv'
<1> "out" \in Eps /\ "in" \in Eps
  BY DEF Eps
<1>1. ~Busy("out") /\ ~Busy("in")
  BY DEF JobInv
<1>2. ep'["in"] = ep["in"]
  BY DEF Run, Typed, Eps
<1>3. CASE Runs
  <2>1. ~Stall("out")
    BY <1>3 DEF Runs, Stall
  <2> QED BY <1>1, <1>2, <1>3, <2>1, RunEffect DEF JobInv, Restarts, Busy
<1>4. CASE ~Runs
  <2>1. ep' = ep
    BY <1>4, RunEffect
  <2>2. On("out")' = On("out") /\ Ready("out")' = Ready("out") /\ Done("out")' = Done("out")
        /\ Stall("out")' = Stall("out") /\ ~Busy("out")' /\ ~Busy("in")'
    BY <1>1, <2>1 DEF On, Ready, Done, Stall, Busy
  <2> QED BY <2>2 DEF JobInv, Restarts
<1> QED BY <1>3, <1>4

\* The job on endpoint OUT goes round.
LEMMA JobStep ==
  Typed /\ Quiet /\ JobInv /\ RequestInv /\ [ConfNext]_confVars => JobInv'
<1> SUFFICES ASSUME Typed, Quiet, JobInv, RequestInv, [ConfNext]_confVars PROVE JobInv'
  OBVIOUS
<1> "out" \in Eps /\ "in" \in Eps
  BY DEF Eps
<1>1. CASE udc_req_std_dev_set_address
  BY <1>1 DEF udc_req_std_dev_set_address, Serve, Reply, JobInv, Restarts, On, Ready, Done, Stall, Busy
<1>2. CASE \E n \in Numbers : udc_req_std_dev_set_configuration(n)
  <2>1. PICK n \in Numbers : udc_req_std_dev_set_configuration(n)
    BY <1>2
  <2>2. UNCHANGED reset
    BY <2>1 DEF udc_req_std_dev_set_configuration
  <2>3. CASE Authorized(n)
    BY <2>1, <2>2, <2>3, ConfigurationEffect DEF JobInv, Restarts
  <2>4. CASE ~Authorized(n)
    <3>1. UNCHANGED <<ep, isr, reset>>
      BY <2>1, <2>2, <2>4, ConfigurationEffect
    <3> QED BY <3>1 DEF JobInv, Restarts, On, Ready, Done, Stall, Busy
  <2> QED BY <2>3, <2>4
<1>3. CASE \E s \in Settings : udc_req_std_iface_set_setting(s)
  <2>1. PICK s \in Settings : udc_req_std_iface_set_setting(s)
    BY <1>3
  <2>2. UNCHANGED reset
    BY <2>1 DEF udc_req_std_iface_set_setting
  <2>3. CASE conf = 0
    <3>1. UNCHANGED <<ep, isr, reset>>
      BY <2>1, <2>2, <2>3, SettingEffect
    <3> QED BY <3>1 DEF JobInv, Restarts, On, Ready, Done, Stall, Busy
  <2>4. CASE conf # 0
    BY <2>1, <2>2, <2>4, SettingEffect DEF JobInv, Typed, Restarts
  <2> QED BY <2>3, <2>4
<1>4. CASE \E r \in {0, 1} : udi_hid_setup(r)
  BY <1>4 DEF udi_hid_setup, Serve, Reply, JobInv, Restarts, On, Ready, Done, Stall, Busy
<1>5. CASE \E e \in Eps : udc_req_std_ep_set_feature(e)
  <2>1. PICK h \in Eps : udc_req_std_ep_set_feature(h)
    BY <1>5
  <2>2. UNCHANGED <<isr, reset>> /\ isr = "idle"
    BY <2>1 DEF udc_req_std_ep_set_feature, Serve
  <2>3. CASE h = "out"
    <3>1. ep'["in"] = ep["in"]
      BY <2>1, <2>3, HaltEffect DEF Eps
    <3> QED BY <2>1, <2>2, <2>3, <3>1, HaltEffect DEF JobInv, Restarts, Busy
  <2>4. CASE h # "out"
    <3>1. ep'["out"] = ep["out"] /\ h = "in"
      BY <2>1, <2>4, HaltEffect DEF Eps
    <3>2. ~Busy("in")'
      BY <2>1, <3>1, HaltEffect
    <3> QED BY <2>2, <3>1, <3>2 DEF JobInv, Restarts, On, Ready, Done, Stall, Busy
  <2> QED BY <2>3, <2>4
<1>6. CASE \E e \in Eps : udc_req_std_ep_clear_feature(e)
  <2>1. PICK h \in Eps : udc_req_std_ep_clear_feature(h)
    BY <1>6
  <2>2. UNCHANGED reset /\ isr = "idle" /\ (isr' = "idle" \/ (isr' = "nohalt" /\ Busy(h)))
    BY <2>1 DEF udc_req_std_ep_clear_feature, Serve, Busy
  <2>3. ~Busy("in")' /\ (~Busy("out")' \/ Busy("out")' = Busy("out"))
    BY <2>1, ClearEffect DEF JobInv, Eps
  <2>4. Stall("out")' => Stall("out")
    BY <2>1, ClearEffect DEF Eps
  <2>5. isr' = "nohalt" => h = "out" /\ Busy("out")
    BY <2>2 DEF JobInv, Eps
  <2>6. ~reset /\ isr' = "nohalt" => On("out")' /\ ~Stall("out")'
    BY <2>1, <2>2, <2>4, <2>5, ClearEffect DEF JobInv
  <2>7. On("out")' = On("out") /\ Ready("out")' = Ready("out") /\ Done("out")' = Done("out")
    BY <2>1, ClearEffect
  <2>8. isr' # "idle" => ~Busy("out")'
    BY <2>1, <2>2, <2>5, ClearEffect
  <2>9. ~reset /\ isr' = "idle" /\ Busy("out")' => Ready("out")' \/ Done("out")'
    BY <2>2, <2>3, <2>7 DEF JobInv
  <2> QED BY <2>2, <2>3, <2>4, <2>6, <2>7, <2>8, <2>9 DEF JobInv, Restarts
<1>7. CASE udi_hid_generic_enable
  <2>1. ep' = Run /\ isr = "enable" /\ isr' = "idle" /\ UNCHANGED reset
    BY <1>7 DEF udi_hid_generic_enable
  <2>2. ~reset => On("out")
    BY <2>1 DEF JobInv
  <2> QED BY <2>1, <2>2, RunJob
<1>8. CASE udd_ep_transfer_process
  <2>1. TransferDone /\ isr = "idle" /\ isr' = "rearm" /\ UNCHANGED reset /\ Done("out")
    BY <1>8 DEF udd_ep_transfer_process, Done
  <2>2. ~reset => On("out") /\ ~Stall("out")
    BY <2>1 DEF JobInv
  <2>3. ~Busy("in")'
    BY <2>1 DEF TransferDone, Typed, JobInv, Busy, Eps
  <2> QED BY <2>1, <2>2, <2>3, DoneEffect DEF JobInv, Restarts
<1>9. CASE udi_hid_generic_report_out_enable
  <2>1. ep' = Run /\ isr \in {"rearm", "nohalt"} /\ isr' = "idle" /\ UNCHANGED reset
    BY <1>9 DEF udi_hid_generic_report_out_enable
  <2>2. ~reset => On("out")
    BY <2>1 DEF JobInv, Restarts
  <2> QED BY <2>1, <2>2, RunJob
<1>10. CASE _usb_on_bus_reset
  BY <1>10, ResetEffect DEF JobInv, Restarts
<1>11. CASE \E r \in Asks : HostAsks(r)
  BY <1>11 DEF HostAsks, JobInv, Restarts, On, Ready, Done, Stall, Busy
<1>12. CASE HostHears
  BY <1>12 DEF HostHears, JobInv, Restarts, On, Ready, Done, Stall, Busy
<1>13. CASE ReportOut
  <2>1. UNCHANGED <<isr, reset>> /\ On("out") /\ Ready("out") /\ ~Stall("out")
    BY <1>13 DEF ReportOut, On, Ready, Stall
  <2>2. ~Busy("in")'
    BY <1>13 DEF ReportOut, Typed, JobInv, Busy, Eps
  <2> QED BY <1>13, <2>1, <2>2, ReportEffect DEF JobInv, Restarts
<1>14. CASE BusReset
  <2>1. UNCHANGED isr /\ reset'
    BY <1>14 DEF BusReset
  <2> QED BY <1>14, <2>1, BusResetEffect DEF JobInv
<1>15. CASE UNCHANGED confVars
  BY <1>15 DEF confVars, JobInv, Restarts, On, Ready, Done, Stall, Busy
<1>16. CASE udc_iface_enable
  <2>1. isr = "alloc" /\ isr' = "enable" /\ UNCHANGED reset
    BY <1>16 DEF udc_iface_enable
  <2> QED BY <1>16, <2>1, AllocEffect DEF JobInv, Restarts, Eps
<1> QED BY <1>1, <1>2, <1>3, <1>4, <1>5, <1>6, <1>7, <1>8, <1>9, <1>10, <1>11, <1>12, <1>13,
           <1>14, <1>15, <1>16 DEF ConfNext, Handler

\* Requests and answers alternate.
LEMMA RequestStep ==
  Typed /\ Quiet /\ JobInv /\ RequestInv /\ [ConfNext]_confVars => RequestInv'
<1> SUFFICES ASSUME Typed, Quiet, JobInv, RequestInv, [ConfNext]_confVars PROVE RequestInv'
  OBVIOUS
<1>1. CASE udc_req_std_dev_set_address
  <2>1. udc_req_std_dev_set_address
    BY <1>1
  <2>2. Serve("SET_ADDRESS", 0) /\ UNCHANGED <<reset, asked, host, isr>>
    BY <2>1 DEF udc_req_std_dev_set_address
  <2> QED BY <2>2, Served DEF RequestInv, Enables
<1>2. CASE \E n \in Numbers : udc_req_std_dev_set_configuration(n)
  <2>1. PICK n \in Numbers : udc_req_std_dev_set_configuration(n)
    BY <1>2
  <2>2. Serve("SET_CONFIGURATION", n) /\ UNCHANGED <<reset, asked, host>>
    BY <2>1 DEF udc_req_std_dev_set_configuration
  <2>3. isr = "idle" /\ ~reset /\ asked # NotAsked /\ asked = <<"SET_CONFIGURATION", n>>
    BY <2>2, Served
  <2>4. isr' # "idle" => isr' = "alloc" /\ n = 1 /\ answer' = "none"
    BY <2>1, <2>3, ConfigurationEffect
  <2> QED BY <2>2, <2>3, <2>4 DEF RequestInv, Enables
<1>3. CASE \E s \in Settings : udc_req_std_iface_set_setting(s)
  <2>1. PICK s \in Settings : udc_req_std_iface_set_setting(s)
    BY <1>3
  <2>2. Serve("SET_INTERFACE", s) /\ UNCHANGED <<reset, asked, host>>
    BY <2>1 DEF udc_req_std_iface_set_setting
  <2>3. isr = "idle" /\ ~reset /\ asked # NotAsked /\ asked = <<"SET_INTERFACE", s>>
    BY <2>2, Served
  <2>4. isr' # "idle" => isr' = "alloc" /\ s = 0 /\ answer' = "none"
    BY <2>1, <2>3, SettingEffect DEF Typed
  <2> QED BY <2>2, <2>3, <2>4 DEF RequestInv, Enables
<1>4. CASE \E r \in {0, 1} : udi_hid_setup(r)
  <2>1. PICK r \in {0, 1} : udi_hid_setup(r)
    BY <1>4
  <2>2. Serve("SET_IDLE", r) /\ UNCHANGED <<reset, asked, host, isr>>
    BY <2>1 DEF udi_hid_setup
  <2> QED BY <2>2, Served DEF RequestInv, Enables
<1>5. CASE \E e \in Eps : udc_req_std_ep_set_feature(e)
  <2>1. PICK h \in Eps : udc_req_std_ep_set_feature(h)
    BY <1>5
  <2>2. Serve("SET_HALT", h) /\ UNCHANGED <<reset, asked, host, isr>>
    BY <2>1 DEF udc_req_std_ep_set_feature
  <2> QED BY <2>2, Served DEF RequestInv, Enables
<1>6. CASE \E e \in Eps : udc_req_std_ep_clear_feature(e)
  <2>1. PICK h \in Eps : udc_req_std_ep_clear_feature(h)
    BY <1>6
  <2>2. Serve("CLEAR_HALT", h) /\ UNCHANGED <<reset, asked, host>>
        /\ (isr' = isr \/ (isr' = "nohalt" /\ UNCHANGED answer /\ Busy(h)))
    BY <2>1 DEF udc_req_std_ep_clear_feature, Busy
  <2>3. isr' = "nohalt" => h = "out" /\ UNCHANGED answer
    BY <2>2, Served DEF JobInv, Eps
  <2> QED BY <2>2, <2>3, Served DEF RequestInv, Enables
<1>7. CASE udi_hid_generic_enable
  BY <1>7 DEF udi_hid_generic_enable, ReplyLate, Reply, RequestInv, Enables
<1>8. CASE udd_ep_transfer_process
  BY <1>8 DEF udd_ep_transfer_process, TransferDone, RequestInv, Enables
<1>9. CASE udi_hid_generic_report_out_enable
  BY <1>9 DEF udi_hid_generic_report_out_enable, ReplyLate, Reply, RequestInv, Enables
<1>10. CASE _usb_on_bus_reset
  BY <1>10 DEF _usb_on_bus_reset, RequestInv, Enables
<1>11. CASE \E r \in Asks : HostAsks(r)
  BY <1>11 DEF HostAsks, RequestInv, Enables
<1>12. CASE HostHears
  BY <1>12 DEF HostHears, RequestInv, Enables
<1>13. CASE ReportOut
  BY <1>13 DEF ReportOut, RequestInv, Enables
<1>14. CASE BusReset
  BY <1>14 DEF BusReset, RequestInv, Enables
<1>15. CASE UNCHANGED confVars
  BY <1>15 DEF confVars, RequestInv, Enables
<1>16. CASE udc_iface_enable
  BY <1>16 DEF udc_iface_enable, RequestInv, Enables
<1> QED BY <1>1, <1>2, <1>3, <1>4, <1>5, <1>6, <1>7, <1>8, <1>9, <1>10, <1>11, <1>12, <1>13,
           <1>14, <1>15, <1>16 DEF ConfNext, Handler

\* An answer that tells the host nothing new, while what it knows stays so.
LEMMA NothingNew ==
  ASSUME KnowsInv, answer = "none", isr = "idle", answer' # "none",
         Learns' # "none" => host # "none" /\ (Works => Works'),
         Learns' = "configured" => host = "configured" /\ (Room => Room')
  PROVE  KnowsInv'
BY DEF KnowsInv, Enables

\* The host is told what is so, and it stays so.
LEMMA KnowsStep ==
  Typed /\ Quiet /\ JobInv /\ RequestInv /\ KnowsInv /\ [ConfNext]_confVars => KnowsInv'
<1> SUFFICES ASSUME Typed, Quiet, JobInv, RequestInv, KnowsInv, [ConfNext]_confVars PROVE KnowsInv'
  OBVIOUS
<1>1. CASE udc_req_std_dev_set_address
  <2>1. udc_req_std_dev_set_address
    BY <1>1
  <2>2. Serve("SET_ADDRESS", 0) /\ UNCHANGED <<asked, host, isr, ep, active>> /\ answer' # "none"
    BY <2>1 DEF udc_req_std_dev_set_address, Reply
  <2>3. Learns' = host
    BY <2>2, Served DEF Learns
  <2>4. Works' = Works /\ Room' = Room
    BY <2>2 DEF Works, Room, Restarts, On, Ready, Done
  <2> QED BY <2>2, <2>3, <2>4, Served, NothingNew
<1>2. CASE \E n \in Numbers : udc_req_std_dev_set_configuration(n)
  <2>1. PICK n \in Numbers : udc_req_std_dev_set_configuration(n)
    BY <1>2
  <2>2. Serve("SET_CONFIGURATION", n) /\ UNCHANGED <<asked, host>>
    BY <2>1 DEF udc_req_std_dev_set_configuration
  <2>3. asked[1] = "SET_CONFIGURATION" /\ asked[2] = n /\ answer = "none" /\ isr = "idle"
    BY <2>2, Served
  <2>4. Learns' = IF answer' = "ok" /\ n = 1 THEN "configured"
                  ELSE IF n \notin 0 .. 1 THEN host ELSE "none"
    BY <2>2, <2>3 DEF Learns
  <2>5. CASE ~Authorized(n)
    <3>1. UNCHANGED <<ep, active, isr>> /\ answer' = "stall"
      BY <2>1, <2>5, ConfigurationEffect
    <3>2. Works' = Works /\ Room' = Room
      BY <3>1 DEF Works, Room, Restarts, On, Ready, Done
    <3> QED BY <2>3, <2>4, <3>1, <3>2, NothingNew
  <2>6. CASE Authorized(n) /\ n = 0
    <3>1. answer' = "ok"
      BY <2>1, <2>6, ConfigurationEffect
    <3>2. Learns' = "none"
      BY <2>4, <2>6
    <3> QED BY <3>1, <3>2 DEF KnowsInv
  <2>7. CASE Authorized(n) /\ n # 0
    BY <2>1, <2>7, ConfigurationEffect DEF KnowsInv, Enables
  <2> QED BY <2>5, <2>6, <2>7
<1>3. CASE \E s \in Settings : udc_req_std_iface_set_setting(s)
  <2>1. PICK s \in Settings : udc_req_std_iface_set_setting(s)
    BY <1>3
  <2>2. Serve("SET_INTERFACE", s) /\ UNCHANGED <<asked, host>>
    BY <2>1 DEF udc_req_std_iface_set_setting
  <2>3. answer' # "ok" => Learns' = "none"
    BY <2>2, Served DEF Learns
  <2>4. (isr' = "alloc" /\ answer' = "none") \/ answer' = "stall"
    BY <2>1, SettingEffect DEF Typed
  <2> QED BY <2>3, <2>4 DEF KnowsInv, Enables
<1>4. CASE \E r \in {0, 1} : udi_hid_setup(r)
  <2>1. PICK r \in {0, 1} : udi_hid_setup(r)
    BY <1>4
  <2>2. Serve("SET_IDLE", r) /\ UNCHANGED <<asked, host, isr, ep, active>> /\ answer' # "none"
    BY <2>1 DEF udi_hid_setup, Reply
  <2>3. Learns' = host
    BY <2>2, Served DEF Learns
  <2>4. Works' = Works /\ Room' = Room
    BY <2>2 DEF Works, Room, Restarts, On, Ready, Done
  <2> QED BY <2>2, <2>3, <2>4, Served, NothingNew
<1>5. CASE \E e \in Eps : udc_req_std_ep_set_feature(e)
  <2>1. PICK h \in Eps : udc_req_std_ep_set_feature(h)
    BY <1>5
  <2>2. Serve("SET_HALT", h) /\ UNCHANGED <<asked, host, isr, active>> /\ answer' # "none"
    BY <2>1 DEF udc_req_std_ep_set_feature, Reply
  <2>3. Learns' = IF h = "out" /\ host = "configured" THEN "halted" ELSE host
    BY <2>2, Served DEF Learns
  <2>4. Works' = Works
    BY <2>1, <2>2, HaltEffect DEF Works, Eps
  <2>5. h # "out" => Room' = Room
    <3>1. h # "out" => ep'["out"] = ep["out"]
      BY <2>1, HaltEffect DEF Eps
    <3> QED BY <2>2, <3>1 DEF Room, Restarts, Ready, Done
  <2> QED BY <2>2, <2>3, <2>4, <2>5, Served, NothingNew
<1>6. CASE \E e \in Eps : udc_req_std_ep_clear_feature(e)
  <2>1. PICK h \in Eps : udc_req_std_ep_clear_feature(h)
    BY <1>6
  <2>2. Serve("CLEAR_HALT", h) /\ UNCHANGED <<asked, host, active>>
    BY <2>1 DEF udc_req_std_ep_clear_feature
  <2>3. Works' = Works
    BY <2>1, <2>2, ClearEffect DEF Works, Eps
  <2>4. Ready("out")' = Ready("out") /\ Done("out")' = Done("out")
    BY <2>1, ClearEffect DEF Eps
  <2>5. CASE isr' = "nohalt" /\ UNCHANGED answer
    <3>1. Room'
      BY <2>5 DEF Room, Restarts
    <3> QED BY <2>2, <2>3, <2>5, <3>1, Served DEF KnowsInv, Enables
  <2>6. CASE Reply(TRUE) /\ UNCHANGED isr
    <3>1. Learns' = host
      BY <2>2, Served DEF Learns
    <3>2. Room' = Room
      BY <2>4, <2>6 DEF Room, Restarts
    <3> QED BY <2>2, <2>3, <2>6, <3>1, <3>2, Served, NothingNew DEF Reply
  <2> QED BY <2>1, <2>5, <2>6 DEF udc_req_std_ep_clear_feature
<1>7. CASE udi_hid_generic_enable
  <2>1. ep' = Run /\ isr = "enable" /\ isr' = "idle" /\ UNCHANGED <<asked, host>>
        /\ active' = (Runs /\ ep["out"].on)
        /\ IF asked = NotAsked THEN UNCHANGED answer ELSE answer' = IF active' THEN "ok" ELSE "stall"
    BY <1>7 DEF udi_hid_generic_enable, ReplyLate, Reply
  <2>2. CASE asked = NotAsked
    <3>1. answer' = "none" /\ host' = "none"
      BY <2>1, <2>2 DEF RequestInv, Enables
    <3> QED BY <3>1 DEF KnowsInv
  <2>3. CASE asked # NotAsked
    <3>1. ~reset /\ asked \in {<<"SET_CONFIGURATION", 1>>, <<"SET_INTERFACE", 0>>}
      BY <2>1, <2>3 DEF RequestInv, Enables
    <3>2. answer' # "ok" => Learns' = "none"
      BY <2>1, <3>1 DEF Learns
    <3>3. CASE active'
      <4>1. Runs /\ ep' = Run /\ answer' = "ok"
        BY <2>1, <2>3, <3>3
      <4>2. On("in")' /\ On("out")' /\ Ready("out")'
        <5>1. On("in") /\ On("out")
          BY <2>1, <3>1 DEF JobInv, Eps
        <5> QED BY <4>1, <5>1, RunEffect DEF Eps
      <4>3. Works' /\ Room'
        BY <3>3, <4>2 DEF Works, Room
      <4> QED BY <4>1, <4>3 DEF KnowsInv
    <3>4. CASE ~active'
      <4>1. answer' = "stall"
        BY <2>1, <2>3, <3>4
      <4> QED BY <3>2, <4>1 DEF KnowsInv
    <3> QED BY <3>3, <3>4
  <2> QED BY <2>2, <2>3
<1>8. CASE udd_ep_transfer_process
  <2>1. TransferDone /\ isr = "idle" /\ isr' = "rearm" /\ UNCHANGED <<asked, answer, host, active>>
    BY <1>8 DEF udd_ep_transfer_process
  <2>2. Works' = Works /\ Room'
    BY <2>1, DoneEffect DEF Works, Room, Restarts, Eps
  <2>3. Learns' = Learns
    BY <2>1 DEF Learns
  <2> QED BY <2>1, <2>2, <2>3 DEF KnowsInv, Enables
<1>9. CASE udi_hid_generic_report_out_enable
  <2>1. ep' = Run /\ isr \in {"rearm", "nohalt"} /\ isr' = "idle" /\ UNCHANGED <<asked, host, active>>
        /\ IF isr = "nohalt" THEN ReplyLate(TRUE) ELSE UNCHANGED answer
    BY <1>9 DEF udi_hid_generic_report_out_enable
  <2>2. Works' = Works
    BY <2>1, RunEffect DEF Works, Eps
  <2>3. CASE reset
    <3>1. answer' = "none" /\ host' = "none"
      BY <2>1, <2>3 DEF RequestInv, ReplyLate
    <3> QED BY <3>1 DEF KnowsInv
  <2>4. CASE ~reset
    <3>1. On("out") /\ ~Stall("out") /\ ~Busy("out")
      BY <2>1, <2>4 DEF JobInv, Restarts
    <3>2. Runs
      BY <3>1 DEF Runs, Stall, Busy
    <3>3. Room'
      BY <2>1, <3>1, <3>2, RunEffect DEF Room
    <3>4. CASE isr = "rearm"
      <4>1. UNCHANGED answer /\ Learns' = Learns
        BY <2>1, <3>4 DEF Learns
      <4> QED BY <2>1, <2>2, <3>3, <3>4, <4>1 DEF KnowsInv, Enables
    <3>5. CASE isr = "nohalt"
      <4>1. answer = "none" /\ asked = <<"CLEAR_HALT", "out">>
        BY <2>4, <3>5 DEF RequestInv
      <4>2. Learns' = host
        BY <2>1, <4>1 DEF Learns
      <4>3. answer' = "ok"
        BY <2>1, <3>5, <4>1 DEF ReplyLate, Reply, NotAsked
      <4> QED BY <2>1, <2>2, <3>3, <3>5, <4>1, <4>2, <4>3 DEF KnowsInv, Enables
    <3> QED BY <2>1, <3>4, <3>5
  <2> QED BY <2>3, <2>4
<1>10. CASE _usb_on_bus_reset
  <2>1. answer' = "none" /\ host' = "none"
    BY <1>10 DEF _usb_on_bus_reset, RequestInv
  <2> QED BY <2>1 DEF KnowsInv
<1>11. CASE \E r \in Asks : HostAsks(r)
  <2>1. PICK r \in Asks : HostAsks(r)
    BY <1>11
  <2>2. UNCHANGED <<active, ep, isr, answer, host>> /\ answer = "none"
    BY <2>1 DEF HostAsks, RequestInv
  <2>3. Works' = Works /\ Room' = Room
    BY <2>2 DEF Works, Room, Restarts, On, Ready, Done
  <2> QED BY <2>2, <2>3 DEF KnowsInv, Enables
<1>12. CASE HostHears
  <2>1. answer # "none" /\ answer' = "none" /\ host' \in {Learns, "none"} /\ UNCHANGED <<active, ep, isr>>
    BY <1>12 DEF HostHears
  <2>2. Works' = Works /\ Room' = Room
    BY <2>1 DEF Works, Room, Restarts, On, Ready, Done
  <2> QED BY <2>1, <2>2 DEF KnowsInv
<1>13. CASE ReportOut
  <2>1. UNCHANGED <<active, isr, asked, answer, host>>
    BY <1>13 DEF ReportOut
  <2>2. Works' = Works /\ Room'
    BY <1>13, <2>1, ReportEffect DEF Works, Room, Eps
  <2>3. Learns' = Learns
    BY <2>1 DEF Learns
  <2> QED BY <2>1, <2>2, <2>3 DEF KnowsInv, Enables
<1>14. CASE BusReset
  <2>1. answer' = "none" /\ host' = "none"
    BY <1>14 DEF BusReset
  <2> QED BY <2>1 DEF KnowsInv
<1>15. CASE UNCHANGED confVars
  BY <1>15 DEF confVars, KnowsInv, Enables, Works, Room, Restarts, Learns, On, Ready, Done, Stall, Busy
<1>16. CASE udc_iface_enable
  <2>1. isr' = "enable" /\ answer' = "none"
    BY <1>16 DEF udc_iface_enable, RequestInv, Enables
  <2> QED BY <2>1 DEF KnowsInv, Enables
<1> QED BY <1>1, <1>2, <1>3, <1>4, <1>5, <1>6, <1>7, <1>8, <1>9, <1>10, <1>11, <1>12, <1>13,
           <1>14, <1>15, <1>16 DEF ConfNext, Handler

\* The invariant holds when the device is attached.
THEOREM ConfInitInv == ConfInit => ConfInv
<1> SUFFICES ASSUME ConfInit PROVE ConfInv
  OBVIOUS
<1>1. ep = [e \in Eps |-> Off] /\ Off \in Pipe
  BY DEF ConfInit, Off, Pipe
<1>2. ConfTypeOK
  <2>1. ep \in [Eps -> Pipe]
    BY <1>1
  <2> QED BY <2>1 DEF ConfInit, ConfTypeOK, Pipe
<1>3. \A e \in Eps : ~On(e) /\ ~Ready(e) /\ ~Done(e) /\ ~Busy(e)
  BY <1>1 DEF On, Ready, Done, Busy, Off
<1>4. Quiet /\ JobInv
  BY <1>3 DEF Quiet, JobInv, Restarts, ConfInit, Eps
<1>5. RequestInv /\ KnowsInv
  BY DEF RequestInv, KnowsInv, Enables, ConfInit
<1> QED BY <1>2, <1>4, <1>5 DEF ConfInv

\* The invariant is inductive.
THEOREM ConfStepInv == ConfInv /\ [ConfNext]_confVars => ConfInv'
<1> SUFFICES ASSUME ConfInv, [ConfNext]_confVars PROVE ConfInv'
  OBVIOUS
<1>1. Typed
  BY DEF ConfInv, ConfTypeOK, Typed, Pipe
<1>2. ConfTypeOK'
  BY <1>1, PipeTypes, FlagTypes, RequestTypes DEF ConfInv, ConfTypeOK, Pipe
<1>3. Quiet' /\ JobInv'
  BY <1>1, QuietStep, JobStep DEF ConfInv
<1>4. RequestInv' /\ KnowsInv'
  BY <1>1, RequestStep, KnowsStep DEF ConfInv
<1> QED BY <1>2, <1>3, <1>4 DEF ConfInv

\* The invariant holds in every state the device and the host reach.
LEMMA ConfAlwaysInv == ConfSpec => []ConfInv
BY ConfInitInv, ConfStepInv, PTL DEF ConfSpec

\* Whatever configurations and settings are asked for, the variables keep their types:
\* the unit's endpoints, the step of the handler, and what the host has asked and knows.
THEOREM ConfTypes == ConfSpec => []ConfTypeOK
<1>1. ConfInv => ConfTypeOK
  BY DEF ConfInv
<1> QED BY ConfAlwaysInv, <1>1, PTL

\* Without a configuration the device has no endpoint but 0 and no job, whatever handler
\* the bus reset met that took the configuration away.
THEOREM UnconfiguredIsQuiet == ConfSpec => []QuietUnconfigured
<1>1. ConfInv => QuietUnconfigured
  BY DEF ConfInv, Quiet, QuietUnconfigured, On, Ready, Busy
<1> QED BY ConfAlwaysInv, <1>1, PTL

\* A host that was told it has the configuration can send its reports: the interface is
\* there, and the bank of endpoint OUT is the unit's, or its report is yet to be served,
\* whether the halts the host cleared before were set or not.
THEOREM ConfigurationWorks == ConfSpec => []ConfiguredWorks
<1>1. ConfInv => ConfiguredWorks
  <2> SUFFICES ASSUME ConfInv PROVE ConfiguredWorks
    OBVIOUS
  <2>1. isr = "idle" /\ ~reset /\ ep["out"].busy => ep["out"].ready \/ ep["out"].done
    BY DEF ConfInv, JobInv, Busy, Ready, Done
  <2>2. host # "none" /\ asked = NotAsked => answer = "none" /\ ~Enables
    BY DEF ConfInv, RequestInv
  <2>3. host # "none" /\ asked = NotAsked => active /\ \A e \in Eps : ep[e].on
    BY <2>2 DEF ConfInv, KnowsInv, Works, On, Eps
  <2>4. host = "configured" /\ asked = NotAsked /\ isr = "idle" => ep["out"].ready \/ ep["out"].done
    BY <2>2 DEF ConfInv, KnowsInv, Room, Restarts, Ready, Done
  <2> QED BY <2>1, <2>3, <2>4 DEF ConfiguredWorks
<1> QED BY ConfAlwaysInv, <1>1, PTL

-----------------------------------------------------------------------------
(***************************************************************************)
(* IrqCritical.                                                            *)
(***************************************************************************)

\* The open critical sections of c, counted from the outermost section.
Critical(c) == {i \in 1 .. depth[c] : open[c][i].kind = "critical"}

\* Whoever does not run has no section open.
Alone ==
  /\ running = "main" => depth["isr"] = 0 /\ seen["isr"] = Nothing
  /\ running = "isr" => depth["main"] = 0

Masked == primask <=> depth[running] > 0

\* Only an outermost section was opened with interrupts enabled.
Outermost == \A c \in Contexts, i \in 1 .. MaxDepth : i <= depth[c] => (open[c][i].on <=> i = 1)
Looked    == \A c \in Contexts : seen[c] # Nothing => depth[c] < MaxDepth /\ (seen[c].on <=> depth[c] = 0)

\* The counter counts the critical sections; the flag is about the first of them.
Counted    == counter = Cardinality(Critical(running))
Remembered == counter > 0 => (prev <=> 1 \in Critical(running))

SectionInv == TypeOK /\ Alone /\ Masked /\ GlobalTells /\ Outermost /\ Looked /\ Counted /\ Remembered

-----------------------------------------------------------------------------
\* There are finitely many sections, and none when no section is open.
LEMMA CriticalFinite ==
  ASSUME TypeOK, NEW c \in Contexts
  PROVE  /\ IsFiniteSet(Critical(c))
         /\ Cardinality(Critical(c)) \in Nat
         /\ Cardinality(Critical(c)) = 0 <=> Critical(c) = {}
         /\ depth[c] = 0 => Critical(c) = {}
<1>1. depth[c] \in Nat
  BY MaxDepthAssumption DEF TypeOK
<1>2. IsFiniteSet(1 .. depth[c])
  BY <1>1, FS_Interval
<1>3. IsFiniteSet(Critical(c))
  <2>1. Critical(c) \subseteq 1 .. depth[c]
    BY DEF Critical
  <2> QED BY <1>2, <2>1, FS_Subset
<1>4. depth[c] = 0 => Critical(c) = {}
  BY <1>1 DEF Critical
<1> QED BY <1>3, <1>4, FS_CardinalityType, FS_EmptySet

\* No section is open at the start, and interrupts are enabled.
THEOREM SectionInitInv == Init => SectionInv
<1> SUFFICES ASSUME Init PROVE SectionInv
  OBVIOUS
<1> USE MaxDepthAssumption DEF Init
<1>1. TypeOK
  <2>1. [kind |-> "save", on |-> FALSE] \in Sections
    BY DEF Sections, Kinds
  <2>2. open \in [Contexts -> [1 .. MaxDepth -> Sections]]
    BY <2>1
  <2>3. depth \in [Contexts -> 0 .. MaxDepth] /\ seen \in [Contexts -> Sections \cup {Nothing}]
    OBVIOUS
  <2>4. running \in Contexts
    BY DEF Contexts
  <2> QED BY <2>2, <2>3, <2>4 DEF TypeOK
<1>2. /\ running = "main"
      /\ \A c \in Contexts : depth[c] = 0 /\ seen[c] = Nothing
      /\ "main" \in Contexts /\ "isr" \in Contexts
  BY DEF Contexts
<1>3. Alone /\ Outermost /\ Looked
  BY <1>2 DEF Alone, Outermost, Looked
<1>4. Masked /\ GlobalTells
  BY <1>2 DEF Masked, GlobalTells
<1>5. Counted /\ Remembered
  <2>1. "main" \in Contexts /\ depth["main"] = 0
    BY <1>2
  <2>2. Cardinality(Critical("main")) = 0
    BY <1>1, <2>1, CriticalFinite
  <2> QED BY <2>2 DEF Counted, Remembered
<1> QED BY <1>1, <1>3, <1>4, <1>5 DEF SectionInv

-----------------------------------------------------------------------------
\* What opening and closing a section does to the nest of the one who runs, and to
\* the set of its critical sections.
LEMMA PushNest ==
  ASSUME TypeOK, NEW s \in Sections, depth[running] < MaxDepth, Push(s)
  PROVE  /\ depth' \in [Contexts -> 0 .. MaxDepth]
         /\ open' \in [Contexts -> [1 .. MaxDepth -> Sections]]
         /\ depth'[running] = depth[running] + 1
         /\ open'[running][depth[running] + 1] = s
         /\ \A i \in 1 .. depth[running] : open'[running][i] = open[running][i]
         /\ \A c \in Contexts \ {running} : depth'[c] = depth[c] /\ open'[c] = open[c]
<1> DEFINE d == depth[running] + 1
<1> USE MaxDepthAssumption
<1>1. running \in Contexts /\ depth[running] \in 0 .. MaxDepth /\ d \in 1 .. MaxDepth
  BY DEF TypeOK
<1>2. [open[running] EXCEPT ![d] = s] \in [1 .. MaxDepth -> Sections]
  BY <1>1 DEF TypeOK
<1>3. open' = [open EXCEPT ![running] = [open[running] EXCEPT ![d] = s]]
  BY DEF Push
<1>4. depth' = [depth EXCEPT ![running] = d]
  BY DEF Push
<1>5. depth' \in [Contexts -> 0 .. MaxDepth] /\ depth'[running] = d
  BY <1>1, <1>4 DEF TypeOK
<1>6. open' \in [Contexts -> [1 .. MaxDepth -> Sections]]
  BY <1>1, <1>2, <1>3 DEF TypeOK
<1>7. open'[running] = [open[running] EXCEPT ![d] = s]
  BY <1>1, <1>3 DEF TypeOK
<1>8. open'[running][d] = s /\ \A i \in 1 .. depth[running] : open'[running][i] = open[running][i]
  BY <1>1, <1>7 DEF TypeOK
<1>9. \A c \in Contexts \ {running} : depth'[c] = depth[c] /\ open'[c] = open[c]
  BY <1>3, <1>4 DEF TypeOK
<1> QED BY <1>5, <1>6, <1>8, <1>9

\* Leaving a section closes the innermost one of the context that runs and nothing else.
LEMMA PopNest ==
  ASSUME TypeOK, NEW kind, Pop(kind)
  PROVE  /\ depth' \in [Contexts -> 0 .. MaxDepth]
         /\ depth'[running] = depth[running] - 1 /\ depth[running] > 0
         /\ \A c \in Contexts \ {running} : depth'[c] = depth[c]
         /\ UNCHANGED <<open, seen, running>>
<1> USE MaxDepthAssumption
<1>1. running \in Contexts /\ depth[running] \in 0 .. MaxDepth /\ depth[running] > 0
  BY DEF TypeOK, Pop
<1>2. depth' = [depth EXCEPT ![running] = depth[running] - 1]
  BY DEF Pop
<1>3. depth' \in [Contexts -> 0 .. MaxDepth] /\ depth'[running] = depth[running] - 1
  BY <1>1, <1>2 DEF TypeOK
<1>4. \A c \in Contexts \ {running} : depth'[c] = depth[c]
  BY <1>2 DEF TypeOK
<1> QED BY <1>1, <1>3, <1>4 DEF Pop

\* What the context that runs had read of the mask is forgotten, that of the other is not.
LEMMA SeenNothing ==
  ASSUME TypeOK, seen' = [seen EXCEPT ![running] = Nothing]
  PROVE  /\ seen' \in [Contexts -> Sections \cup {Nothing}]
         /\ seen'[running] = Nothing
         /\ \A c \in Contexts \ {running} : seen'[c] = seen[c]
BY DEF TypeOK

\* Entering a section adds it to the critical ones if it is one.
LEMMA PushCritical ==
  ASSUME TypeOK, NEW s \in Sections, depth[running] < MaxDepth, Push(s), running' = running
  PROVE  Critical(running)' = IF s.kind = "critical" THEN Critical(running) \cup {depth[running] + 1}
                              ELSE Critical(running)
<1>1. running \in Contexts /\ depth[running] \in Nat
  BY MaxDepthAssumption DEF TypeOK
<1>2. Critical(running)' = {i \in 1 .. depth'[running] : open'[running][i].kind = "critical"}
  BY DEF Critical
<1>3. 1 .. depth'[running] = (1 .. depth[running]) \cup {depth[running] + 1}
  BY <1>1, PushNest
<1>4. \A i \in 1 .. depth[running] : open'[running][i] = open[running][i]
  BY PushNest
<1>5. open'[running][depth[running] + 1] = s
  BY PushNest
<1> QED BY <1>2, <1>3, <1>4, <1>5 DEF Critical

\* Leaving a section takes it from the critical ones if it was one.
LEMMA PopCritical ==
  ASSUME TypeOK, NEW kind, Pop(kind)
  PROVE  Critical(running)' = Critical(running) \ {depth[running]}
<1>1. running \in Contexts /\ depth[running] \in Nat
  BY MaxDepthAssumption DEF TypeOK
<1>2. Critical(running)' = {i \in 1 .. depth'[running] : open[running][i].kind = "critical"}
  BY PopNest DEF Critical
<1>3. 1 .. depth'[running] = (1 .. depth[running]) \ {depth[running]}
  BY <1>1, PopNest
<1> QED BY <1>2, <1>3 DEF Critical

\* A section that is about to be opened is one, and there is room for it.
LEMMA OpenedSection ==
  ASSUME SectionInv, NEW kind \in Kinds, seen[running].kind = kind
  PROVE  /\ seen[running] \in Sections /\ depth[running] < MaxDepth
         /\ seen[running].on <=> depth[running] = 0
<1>1. running \in Contexts /\ seen[running] \in Sections \cup {Nothing}
  BY DEF SectionInv, TypeOK
<1>2. seen[running] # Nothing
  BY DEF Nothing, Kinds
<1> QED BY <1>1, <1>2 DEF SectionInv, Looked

\* Opening a section, of either kind, keeps what is said of the nest.
LEMMA OpenNest ==
  ASSUME SectionInv, NEW kind \in Kinds, seen[running].kind = kind, Push(seen[running]),
         seen' = [seen EXCEPT ![running] = Nothing], UNCHANGED running
  PROVE  (Alone /\ Outermost /\ Looked)' /\ depth'[running] > 0
<1> USE DEF SectionInv
<1>1. running \in Contexts /\ depth[running] \in Nat
  BY MaxDepthAssumption DEF TypeOK
<1>2. /\ seen[running] \in Sections /\ depth[running] < MaxDepth
      /\ seen[running].on <=> depth[running] = 0
  BY OpenedSection
<1>3. /\ depth'[running] = depth[running] + 1
      /\ open'[running][depth[running] + 1] = seen[running]
      /\ \A i \in 1 .. depth[running] : open'[running][i] = open[running][i]
      /\ \A c \in Contexts \ {running} : depth'[c] = depth[c] /\ open'[c] = open[c]
  BY <1>2, PushNest
<1>4. seen'[running] = Nothing /\ \A c \in Contexts \ {running} : seen'[c] = seen[c]
  BY SeenNothing
<1>5. Alone'
  BY <1>1, <1>3, <1>4 DEF Alone, Contexts
<1>6. Outermost'
  <2> SUFFICES ASSUME NEW c \in Contexts, NEW i \in 1 .. MaxDepth, i <= depth'[c]
               PROVE  open'[c][i].on <=> i = 1
    BY DEF Outermost
  <2>1. CASE c # running
    BY <2>1, <1>3 DEF Outermost
  <2>2. CASE c = running /\ i <= depth[running]
    BY <2>2, <1>1, <1>3 DEF Outermost
  <2>3. CASE c = running /\ i = depth[running] + 1
    BY <2>3, <1>1, <1>2, <1>3
  <2> QED BY <2>1, <2>2, <2>3, <1>1, <1>3
<1>7. Looked'
  BY <1>3, <1>4 DEF Looked
<1> QED BY <1>1, <1>3, <1>5, <1>6, <1>7

\* So does closing one.
LEMMA CloseNest ==
  ASSUME SectionInv, NEW kind, Pop(kind)
  PROVE  (Alone /\ Outermost /\ Looked)'
<1> USE DEF SectionInv
<1>1. running \in Contexts /\ depth[running] \in Nat /\ seen[running] = Nothing
  BY MaxDepthAssumption DEF TypeOK, Pop
<1>2. /\ depth'[running] = depth[running] - 1 /\ depth[running] > 0
      /\ \A c \in Contexts \ {running} : depth'[c] = depth[c]
      /\ UNCHANGED <<open, seen, running>>
  BY PopNest
<1>3. Alone'
  BY <1>1, <1>2 DEF Alone, Contexts
<1>4. Outermost'
  <2> SUFFICES ASSUME NEW c \in Contexts, NEW i \in 1 .. MaxDepth, i <= depth'[c]
               PROVE  open[c][i].on <=> i = 1
    BY <1>2 DEF Outermost
  <2>1. i <= depth[c]
    BY <1>1, <1>2
  <2> QED BY <2>1 DEF Outermost
<1>5. Looked'
  BY <1>1, <1>2 DEF Looked
<1> QED BY <1>3, <1>4, <1>5

-----------------------------------------------------------------------------
\* Every entry, exit and interrupt, of the main program and of a handler, preserves SectionInv.
THEOREM SectionNextInv == SectionInv /\ [Next]_vars => SectionInv'
<1> SUFFICES ASSUME SectionInv, [Next]_vars PROVE SectionInv'
  OBVIOUS
<1> USE DEF SectionInv
<1>0. running \in Contexts /\ depth[running] \in 0 .. MaxDepth /\ counter \in Nat
  BY MaxDepthAssumption DEF TypeOK
<1>f. /\ IsFiniteSet(Critical(running))
      /\ Cardinality(Critical(running)) = 0 <=> Critical(running) = {}
      /\ depth[running] = 0 => Critical(running) = {}
  BY <1>0, CriticalFinite
<1>1. ASSUME NEW kind \in Kinds, Looks(kind) PROVE SectionInv'
  <2> DEFINE look == [kind |-> kind, on |-> cpu_irq_is_enabled /\ (kind = "critical" => counter = 0)]
  <2>1. look \in Sections
    BY DEF Sections
  <2>2. /\ seen' = [seen EXCEPT ![running] = look] /\ depth[running] < MaxDepth
        /\ UNCHANGED <<primask, global, counter, prev, running, depth, open>>
    BY <1>1 DEF Looks
  <2>3. seen' \in [Contexts -> Sections \cup {Nothing}]
    BY <2>1, <2>2 DEF TypeOK
  <2>4. seen'[running] = look /\ \A c \in Contexts \ {running} : seen'[c] = seen[c]
    BY <2>2 DEF TypeOK
  <2>5. look.on <=> depth[running] = 0
    <3>1. look.on <=> (~primask /\ (kind = "critical" => counter = 0))
      BY DEF cpu_irq_is_enabled
    <3>2. depth[running] = 0 => ~primask /\ counter = 0
      BY <1>0, <1>f DEF Masked, Counted
    <3>3. primask <=> depth[running] > 0
      BY DEF Masked
    <3> HIDE DEF look
    <3> QED BY <1>0, <3>1, <3>2, <3>3
  <2>6. Looked'
    BY <2>2, <2>4, <2>5 DEF Looked
  <2>7. Alone'
    BY <1>0, <2>2, <2>4 DEF Alone, Contexts
  <2> QED BY <2>2, <2>3, <2>6, <2>7
        DEF TypeOK, Masked, GlobalTells, Outermost, Counted, Remembered, Critical
<1>2. CASE cpu_irq_save
  <2>1. /\ seen[running].kind = "save" /\ Push(seen[running])
        /\ seen' = [seen EXCEPT ![running] = Nothing]
        /\ primask' = TRUE /\ global' = FALSE
        /\ UNCHANGED <<counter, prev, running>>
    BY <1>2 DEF cpu_irq_save, cpu_irq_disable
  <2>2. "save" \in Kinds
    BY DEF Kinds
  <2>3. (Alone /\ Outermost /\ Looked)' /\ depth'[running] > 0
    BY <2>1, <2>2, OpenNest
  <2>4. seen[running] \in Sections /\ depth[running] < MaxDepth
    BY <2>1, <2>2, OpenedSection
  <2>5. TypeOK'
    BY <2>1, <2>4, PushNest, SeenNothing DEF TypeOK
  <2>6. Critical(running)' = Critical(running)
    BY <2>1, <2>4, PushCritical
  <2>7. (Masked /\ GlobalTells)'
    BY <2>1, <2>3 DEF Masked, GlobalTells
  <2>8. (Counted /\ Remembered)'
    BY <2>1, <2>6 DEF Counted, Remembered
  <2> QED BY <2>3, <2>5, <2>7, <2>8
<1>3. CASE cpu_irq_restore
  <2>1. Pop("save") /\ UNCHANGED <<counter, prev>>
        /\ IF Top.on THEN primask' = FALSE /\ global' = TRUE ELSE UNCHANGED <<primask, global>>
    BY <1>3 DEF cpu_irq_restore, cpu_irq_enable
  <2>2. (Alone /\ Outermost /\ Looked)'
    BY <2>1, CloseNest
  <2>3. /\ depth' \in [Contexts -> 0 .. MaxDepth]
        /\ depth'[running] = depth[running] - 1 /\ depth[running] > 0
        /\ UNCHANGED <<open, seen, running>>
    BY <2>1, PopNest
  <2>4. TypeOK'
    <3>1. primask' \in BOOLEAN /\ global' \in BOOLEAN
      BY <2>1 DEF TypeOK
    <3> QED BY <2>1, <2>3, <3>1 DEF TypeOK
  <2>5. Top.on <=> depth[running] = 1
    BY <1>0, <2>3, MaxDepthAssumption DEF Outermost, Top
  <2>6. (Masked /\ GlobalTells)'
    BY <1>0, <2>1, <2>3, <2>5 DEF Masked, GlobalTells
  <2>7. Critical(running)' = Critical(running)
    <3>1. depth[running] \notin Critical(running)
      BY <2>1 DEF Critical, Pop, Top
    <3> QED BY <2>1, <3>1, PopCritical
  <2>8. (Counted /\ Remembered)'
    BY <2>1, <2>3, <2>7 DEF Counted, Remembered
  <2> QED BY <2>2, <2>4, <2>6, <2>8
<1>4. CASE cpu_irq_enter_critical
  <2> DEFINE d == depth[running] + 1
  <2>1. /\ seen[running].kind = "critical" /\ Push(seen[running])
        /\ seen' = [seen EXCEPT ![running] = Nothing]
        /\ IF seen[running].on THEN primask' = TRUE /\ global' = FALSE ELSE UNCHANGED <<primask, global>>
        /\ prev' = IF counter = 0 THEN seen[running].on ELSE prev
        /\ counter' = counter + 1
        /\ UNCHANGED running
    BY <1>4 DEF cpu_irq_enter_critical, cpu_irq_disable, EnterPrev
  <2>2. "critical" \in Kinds
    BY DEF Kinds
  <2>3. (Alone /\ Outermost /\ Looked)' /\ depth'[running] > 0
    BY <2>1, <2>2, OpenNest
  <2>4. /\ seen[running] \in Sections /\ depth[running] < MaxDepth
        /\ seen[running].on <=> depth[running] = 0
    BY <2>1, <2>2, OpenedSection
  <2>5. TypeOK'
    <3>1. primask' \in BOOLEAN /\ global' \in BOOLEAN
      BY <2>1 DEF TypeOK
    <3>2. prev' \in BOOLEAN
      BY <2>1, <2>4 DEF TypeOK, Sections
    <3> QED BY <2>1, <2>4, <3>1, <3>2, PushNest, SeenNothing DEF TypeOK
  <2>6. Critical(running)' = Critical(running) \cup {d}
    BY <2>1, <2>4, PushCritical
  <2>7. d \notin Critical(running) /\ (d = 1 <=> depth[running] = 0)
    BY <1>0, MaxDepthAssumption DEF Critical
  <2>8. (Masked /\ GlobalTells)'
    BY <1>0, <2>1, <2>3, <2>4 DEF Masked, GlobalTells
  <2>9. Counted'
    <3>1. IsFiniteSet(Critical(running)) /\ d \notin Critical(running)
      BY <1>f, <2>7
    <3>2. Cardinality(Critical(running) \cup {d}) = Cardinality(Critical(running)) + 1
      BY <3>1, FS_AddElement
    <3>3. counter = Cardinality(Critical(running))
      BY DEF Counted
    <3>4. counter' = Cardinality(Critical(running)')
      BY <2>1, <2>6, <3>2, <3>3
    <3> QED BY <2>1, <3>4 DEF Counted
  <2>10. Remembered'
    <3>1. CASE counter = 0
      BY <1>f, <2>1, <2>4, <2>6, <2>7, <3>1 DEF Counted, Remembered
    <3>2. CASE counter > 0
      BY <1>f, <2>1, <2>6, <2>7, <3>2 DEF Counted, Remembered
    <3> QED BY <1>0, <3>1, <3>2
  <2> QED BY <2>3, <2>5, <2>8, <2>9, <2>10
<1>5. CASE cpu_irq_leave_critical
  <2> DEFINE d == depth[running]
  <2>1. /\ Pop("critical") /\ counter' = counter - 1 /\ UNCHANGED prev
        /\ IF counter' = 0 /\ prev THEN primask' = FALSE /\ global' = TRUE ELSE UNCHANGED <<primask, global>>
    BY <1>5 DEF cpu_irq_leave_critical, cpu_irq_enable
  <2>2. (Alone /\ Outermost /\ Looked)'
    BY <2>1, CloseNest
  <2>3. /\ depth' \in [Contexts -> 0 .. MaxDepth]
        /\ depth'[running] = d - 1 /\ d > 0
        /\ UNCHANGED <<open, seen, running>>
    BY <2>1, PopNest
  <2>4. d \in Critical(running)
    BY <1>0, <2>1, <2>3, MaxDepthAssumption DEF Critical, Pop, Top
  <2>5. Critical(running)' = Critical(running) \ {d}
    BY <2>1, PopCritical
  <2>6. counter' = Cardinality(Critical(running)') /\ counter' \in Nat
    <3>1. counter > 0
      BY <1>0, <1>f, <2>4 DEF Counted
    <3>2. Cardinality(Critical(running) \ {d}) = Cardinality(Critical(running)) - 1
      BY <1>f, <2>4, FS_RemoveElement
    <3> QED BY <1>0, <2>1, <2>5, <3>1, <3>2 DEF Counted
  <2>7. prev <=> 1 \in Critical(running)
    BY <1>0, <1>f, <2>4 DEF Counted, Remembered
  <2>8. TypeOK'
    <3>1. primask' \in BOOLEAN /\ global' \in BOOLEAN
      BY <2>1 DEF TypeOK
    <3> QED BY <2>1, <2>3, <2>6, <3>1 DEF TypeOK
  <2>9. counter' = 0 <=> Critical(running) = {d}
    <3>1. IsFiniteSet(Critical(running) \ {d})
      BY <1>f, FS_RemoveElement
    <3>2. counter' = 0 <=> Critical(running) \ {d} = {}
      BY <2>5, <2>6, <3>1, FS_EmptySet
    <3> QED BY <2>4, <3>2
  <2>10. counter' = 0 /\ prev <=> d = 1
    <3>1. ASSUME counter' = 0, prev PROVE d = 1
      BY <2>7, <2>9, <3>1
    <3>2. ASSUME d = 1 PROVE counter' = 0 /\ prev
      BY <2>4, <2>7, <2>9, <3>2 DEF Critical
    <3> QED BY <3>1, <3>2
  <2>11. (Masked /\ GlobalTells)'
    BY <1>0, <2>1, <2>3, <2>10, MaxDepthAssumption DEF Masked, GlobalTells
  <2>12. Counted'
    BY <2>3, <2>6 DEF Counted
  <2>13. Remembered'
    <3>1. counter' > 0 => d # 1
      BY <2>10
    <3> QED BY <2>1, <2>3, <2>5, <2>7, <3>1 DEF Remembered
  <2> QED BY <2>2, <2>8, <2>11, <2>12, <2>13
<1>6. CASE Interrupt
  <2>1. /\ running = "main" /\ ~primask /\ running' = "isr"
        /\ UNCHANGED <<primask, global, counter, prev, depth, open, seen>>
    BY <1>6 DEF Interrupt
  <2>2. depth["main"] = 0 /\ depth["isr"] = 0
    BY <1>0, <2>1 DEF Masked, Alone
  <2>3. "isr" \in Contexts /\ TypeOK'
    BY <2>1 DEF TypeOK, Contexts
  <2>4. counter = 0
    BY <1>f, <2>1, <2>2 DEF Counted
  <2>5. Cardinality(Critical("isr")) = 0
    BY <2>2, <2>3, CriticalFinite
  <2>6. Critical("isr")' = Critical("isr")
    BY <2>1 DEF Critical
  <2>7. Counted' /\ Remembered'
    BY <2>1, <2>4, <2>5, <2>6 DEF Counted, Remembered
  <2> QED BY <2>1, <2>2, <2>3, <2>7 DEF Alone, Masked, GlobalTells, Outermost, Looked
<1>7. CASE Return
  <2>1. /\ running = "isr" /\ depth["isr"] = 0 /\ seen["isr"] = Nothing /\ running' = "main"
        /\ UNCHANGED <<primask, global, counter, prev, depth, open, seen>>
    BY <1>7 DEF Return
  <2>2. depth["main"] = 0
    BY <2>1 DEF Alone
  <2>3. "main" \in Contexts /\ TypeOK'
    BY <2>1 DEF TypeOK, Contexts
  <2>4. counter = 0
    BY <1>f, <2>1 DEF Counted
  <2>5. Cardinality(Critical("main")) = 0
    BY <2>2, <2>3, CriticalFinite
  <2>6. Critical("main")' = Critical("main")
    BY <2>1 DEF Critical
  <2>7. Counted' /\ Remembered'
    BY <2>1, <2>4, <2>5, <2>6 DEF Counted, Remembered
  <2> QED BY <2>1, <2>2, <2>3, <2>7 DEF Alone, Masked, GlobalTells, Outermost, Looked
<1>8. CASE UNCHANGED vars
  BY <1>8 DEF vars, TypeOK, Alone, Masked, GlobalTells, Outermost, Looked, Counted, Remembered,
     Critical
<1> QED BY <1>1, <1>2, <1>3, <1>4, <1>5, <1>6, <1>7, <1>8 DEF Next

-----------------------------------------------------------------------------
\* The invariant holds in every reachable state.
THEOREM SectionAlwaysInv == Spec => []SectionInv
BY SectionInitInv, SectionNextInv, PTL DEF Spec

\* The variables keep their types, and the counter never falls below 0, at any depth.
THEOREM SectionTypes == Spec => []TypeOK
<1>1. SectionInv => TypeOK
  BY DEF SectionInv
<1> QED BY <1>1, SectionAlwaysInv, PTL

\* No interrupt comes inside a section of the main program, however deep.
THEOREM SectionsExclusive == Spec => []Exclusive
<1>1. SectionInv => Exclusive
  <2> SUFFICES ASSUME SectionInv, depth["main"] > 0 PROVE primask /\ running = "main"
    BY DEF Exclusive
  <2>1. running = "main"
    BY MaxDepthAssumption DEF SectionInv, TypeOK, Contexts, Alone
  <2> QED BY <2>1 DEF SectionInv, Masked
<1> QED BY <1>1, SectionAlwaysInv, PTL

\* Interrupts are enabled again when the last section is closed.
THEOREM InterruptsGivenBack == Spec => []EnabledOutside
<1>1. SectionInv => EnabledOutside
  BY DEF SectionInv, Masked, EnabledOutside
<1> QED BY <1>1, SectionAlwaysInv, PTL

\* The flag for the QTouch library says what PRIMASK says.
THEOREM FlagTells == Spec => []GlobalTells
<1>1. SectionInv => GlobalTells
  BY DEF SectionInv
<1> QED BY <1>1, SectionAlwaysInv, PTL
=============================================================================
