------------------------------ MODULE UdcConfig ------------------------------
(***************************************************************************)
(* The configuration of the second device: the standard requests of udc.c, *)
(* the HID interface they enable and disable (udi_hid_generic.c), its two  *)
(* endpoints, and the job that receives reports from the host on endpoint  *)
(* OUT and is started again by its own callback.  The USB interrupt runs   *)
(* all of it.  The unit goes on meanwhile: a bus reset in the middle of a  *)
(* handler takes the endpoints away from it.  The host learns of a request *)
(* from its answer only, which may get lost (UddControl has the transfer). *)
(***************************************************************************)
EXTENDS Naturals

CONSTANTS
  Numbers,   \* of the configurations the host asks for; there is 1
  Settings   \* of the interface; there is 0

Eps == {"in", "out"}

VARIABLES
  addressed,  \* udd_getaddress()
  conf,       \* udc_num_configuration
  active,     \* the interface was enabled and not disabled since
  rate,       \* udi_hid_generic_rate
  ep,         \* the endpoints' registers and jobs
  isr,        \* what the handler has left to do
  reset,      \* a bus reset was seen by the unit, and not yet by the handler
  asked,      \* the request of the host, and its answer
  answer,
  host        \* what the host knows: it has configured the device, or halted endpoint
              \* OUT since ("halted"); or it has not

confVars == <<addressed, conf, active, rate, ep, isr, reset, asked, answer, host>>

\* on: configured (EPCFG); ready: the unit may use the bank; done: TRCPT is pending;
\* stall: STALLRQ; busy: a job was started and its callback not called.
Off     == [on |-> FALSE, ready |-> FALSE, done |-> FALSE, stall |-> FALSE, busy |-> FALSE]
NotAsked == <<"none", 0>>
Asks    == {<<"SET_ADDRESS", 0>>} \cup {<<"SET_CONFIGURATION", n>> : n \in Numbers}
             \cup {<<"SET_INTERFACE", s>> : s \in Settings} \cup {<<"SET_IDLE", r>> : r \in {0, 1}}
             \cup {<<halt, e>> : halt \in {"SET_HALT", "CLEAR_HALT"}, e \in Eps}

ConfTypeOK ==
  /\ {addressed, active, reset} \subseteq BOOLEAN /\ conf \in {0, 1} /\ rate \in {0, 1}
  /\ ep \in [Eps -> [on : BOOLEAN, ready : BOOLEAN, done : BOOLEAN, stall : BOOLEAN, busy : BOOLEAN]]
  /\ isr \in {"idle", "alloc", "enable", "rearm", "nohalt"} /\ host \in {"none", "configured", "halted"}
  /\ asked \in Asks \cup {NotAsked} /\ answer \in {"none", "ok", "stall"}

ConfInit ==
  /\ addressed = FALSE /\ conf = 0 /\ active = FALSE /\ rate = 0
  /\ ep = [e \in Eps |-> Off]
  /\ isr = "idle" /\ reset = FALSE
  /\ asked = NotAsked /\ answer = "none" /\ host = "none"

-----------------------------------------------------------------------------
\* udd_ep_abort: the callback of a job that is aborted does not start it again.
Aborted(p) == [p EXCEPT !.ready = FALSE, !.done = FALSE, !.busy = FALSE]

udd_ep_free(p)  == [Aborted(p) EXCEPT !.on = FALSE]
udd_ep_alloc(p) == [p EXCEPT !.on = TRUE, !.ready = FALSE]

Disabled == [e \in Eps |-> udd_ep_free(ep[e])]

\* Mutant: only the configuration number is reset.
udc_resetNumber == ep

\* Disables the interface of a configured device, active or not.
udc_reset == IF conf = 0 THEN ep ELSE Disabled

\* udd_ep_run on endpoint OUT.  A job the unit refuses, its endpoint taken away, stays busy.
Runs == ~ep["out"].stall /\ ~ep["out"].busy
Run  == IF ~Runs THEN ep ELSE [ep EXCEPT !["out"].busy = TRUE, !["out"].ready = @ \/ ep["out"].on]

\* Endpoint 0 is served first: a report that came before the request waits.
Serve(name, arg) == isr = "idle" /\ asked = <<name, arg>> /\ answer = "none"
Reply(ok)        == answer' = IF ok THEN "ok" ELSE "stall"
\* A reset has taken the request away from a handler that went on.
ReplyLate(ok)    == IF asked = NotAsked THEN UNCHANGED answer ELSE Reply(ok)

udc_req_std_dev_set_address ==
  /\ Serve("SET_ADDRESS", 0) /\ addressed' = TRUE /\ Reply(TRUE)
  /\ UNCHANGED <<conf, active, rate, ep, isr, reset, asked, host>>

Authorized(n) == addressed /\ n \in 0 .. 1   \* bNumConfigurations

udc_req_std_dev_set_configuration(n) ==
  /\ Serve("SET_CONFIGURATION", n)
  /\ IF ~Authorized(n) THEN Reply(FALSE) /\ UNCHANGED <<conf, active, ep, isr>>
     ELSE /\ conf' = n /\ active' = (active /\ conf = 0) /\ ep' = udc_reset
          /\ IF n = 0 THEN Reply(TRUE) /\ UNCHANGED isr
             ELSE isr' = "alloc" /\ UNCHANGED answer
  /\ UNCHANGED <<addressed, rate, reset, asked, host>>

\* The interface is disabled before its setting is found to exist; 0 is the only one.
udc_req_std_iface_set_setting(setting) ==
  /\ Serve("SET_INTERFACE", setting)
  /\ IF conf = 0 THEN Reply(FALSE) /\ UNCHANGED <<active, ep, isr>>
     ELSE /\ active' = FALSE /\ ep' = Disabled
          /\ IF setting # 0 THEN Reply(FALSE) /\ UNCHANGED isr
             ELSE isr' = "alloc" /\ UNCHANGED answer
  /\ UNCHANGED <<addressed, conf, rate, reset, asked, host>>

\* The rest of these two requests: first the endpoints, then the interface.  The
\* configuration stays in force when it fails.
udc_iface_enable ==
  /\ isr = "alloc" /\ isr' = "enable"
  /\ ep' = [e \in Eps |-> udd_ep_alloc(ep[e])]
  /\ UNCHANGED <<addressed, conf, active, rate, reset, asked, answer, host>>

udi_hid_generic_enable ==
  /\ isr = "enable" /\ isr' = "idle"
  /\ rate' = 0 /\ ep' = Run
  /\ active' = (Runs /\ ep["out"].on)
  /\ ReplyLate(active')
  /\ UNCHANGED <<addressed, conf, reset, asked, host>>

udc_req_std_ep_set_feature(e) ==
  /\ Serve("SET_HALT", e) /\ Reply(TRUE)
  /\ ep' = [ep EXCEPT ![e] = [Aborted(@) EXCEPT !.stall = TRUE]]
  /\ UNCHANGED <<addressed, conf, active, rate, isr, reset, asked, host>>

\* A job that is going on ends through the callback of a halt, which is not what the job
\* passed: the status it finds is any, and OK starts the job again.
udc_req_std_ep_clear_feature(e) ==
  /\ Serve("CLEAR_HALT", e)
  /\ ep' = [ep EXCEPT ![e].stall = FALSE, ![e].busy = FALSE]
  /\ \/ ep[e].busy /\ isr' = "nohalt" /\ UNCHANGED answer
     \/ Reply(TRUE) /\ UNCHANGED isr
  /\ UNCHANGED <<addressed, conf, active, rate, reset, asked, host>>

\* SET_IDLE with a duration or none: the interface serves it if the device is configured,
\* else the request for a report does (parse_usb_request), to which 1 is a type of report.
udi_hid_setup(r) ==
  /\ Serve("SET_IDLE", r) /\ Reply(conf = 1 \/ r = 1)
  /\ rate' = IF conf = 1 THEN r ELSE rate
  /\ UNCHANGED <<addressed, conf, active, ep, isr, reset, asked, host>>

\* Mutant: a job is busy until its callback returns.
TransferDoneBusy == ep' = [ep EXCEPT !["out"].done = FALSE]

TransferDone == ep' = [ep EXCEPT !["out"].done = FALSE, !["out"].busy = FALSE]

\* A report came.  Its callback starts the job again.
udd_ep_transfer_process ==
  /\ isr = "idle" /\ ep["out"].done /\ isr' = "rearm"
  /\ TransferDone
  /\ UNCHANGED <<addressed, conf, active, rate, reset, asked, answer, host>>

udi_hid_generic_report_out_enable ==
  /\ isr \in {"rearm", "nohalt"} /\ isr' = "idle" /\ ep' = Run
  /\ IF isr = "nohalt" THEN ReplyLate(TRUE) ELSE UNCHANGED answer
  /\ UNCHANGED <<addressed, conf, active, rate, reset, asked, host>>

_usb_on_bus_reset ==
  /\ isr = "idle" /\ ~ep["out"].done /\ reset /\ reset' = FALSE
  /\ addressed' = FALSE /\ conf' = 0
  /\ active' = (active /\ conf = 0) /\ ep' = udc_reset
  /\ UNCHANGED <<rate, isr, asked, answer, host>>

Handler ==
  \/ udc_req_std_dev_set_address
  \/ (\E n \in Numbers : udc_req_std_dev_set_configuration(n))
  \/ (\E s \in Settings : udc_req_std_iface_set_setting(s))
  \/ (\E r \in {0, 1} : udi_hid_setup(r))
  \/ (\E e \in Eps : udc_req_std_ep_set_feature(e)) \/ (\E e \in Eps : udc_req_std_ep_clear_feature(e))
  \/ udc_iface_enable \/ udi_hid_generic_enable \/ udd_ep_transfer_process
  \/ udi_hid_generic_report_out_enable \/ _usb_on_bus_reset

-----------------------------------------------------------------------------
(***************************************************************************)
(* The host and the unit.                                                  *)
(***************************************************************************)
HostAsks(r) ==
  /\ asked = NotAsked /\ ~reset
  /\ asked' = r
  /\ UNCHANGED <<addressed, conf, active, rate, ep, isr, reset, answer, host>>

\* What the host makes of an answer.  A setting that is refused is a lost interface.
Learns ==
  CASE asked[1] = "SET_CONFIGURATION" -> IF answer = "ok" /\ asked[2] = 1 THEN "configured"
                                           ELSE IF asked[2] \notin 0 .. 1 THEN host ELSE "none"
    [] asked[1] = "SET_INTERFACE" -> IF answer = "ok" THEN "configured" ELSE "none"
    [] asked = <<"SET_HALT", "out">> /\ host = "configured" -> "halted"
    [] OTHER -> host

\* A host that misses an answer starts over.
HostHears ==
  /\ answer # "none"
  /\ host' \in {Learns, "none"} /\ asked' = NotAsked /\ answer' = "none"
  /\ UNCHANGED <<addressed, conf, active, rate, ep, isr, reset>>

\* The unit receives a report of the host into the bank of endpoint OUT.
ReportOut ==
  LET out == ep["out"] IN
  /\ out.on /\ out.ready /\ ~out.stall
  /\ ep' = [ep EXCEPT !["out"].ready = FALSE, !["out"].done = TRUE]
  /\ UNCHANGED <<addressed, conf, active, rate, isr, reset, asked, answer, host>>

\* The unit takes away the endpoints, their halts and what they have pending.
BusReset ==
  /\ ~reset /\ reset' = TRUE
  /\ ep' = [e \in Eps |-> [ep[e] EXCEPT !.on = FALSE, !.stall = FALSE, !.done = FALSE]]
  /\ asked' = NotAsked /\ answer' = "none" /\ host' = "none"
  /\ UNCHANGED <<addressed, conf, active, rate, isr>>

ConfNext == Handler \/ (\E r \in Asks : HostAsks(r)) \/ HostHears \/ ReportOut \/ BusReset
ConfSpec == ConfInit /\ [][ConfNext]_confVars

-----------------------------------------------------------------------------
\* A device that is not configured has no endpoint but 0 and no job, whatever the
\* handler was doing when the bus was reset (udc_reset).
QuietUnconfigured ==
  conf = 0 /\ isr = "idle" /\ ~reset => ~active /\ \A e \in Eps : ~ep[e].on /\ ~ep[e].busy /\ ~ep[e].ready

\* A host that was told it has the configuration has the interface with both its
\* endpoints, and unless it halted OUT there is room for its next report (udc.c), even
\* after it cleared a halt that was not set.  A job that receives reports has its bank at
\* the unit, or the unit has just given it back (usb_device_udd.c): none is left behind.
ConfiguredWorks ==
  /\ isr = "idle" /\ ~reset /\ ep["out"].busy => ep["out"].ready \/ ep["out"].done
  /\ host # "none" /\ asked = NotAsked => active /\ \A e \in Eps : ep[e].on
  /\ host = "configured" /\ asked = NotAsked /\ isr = "idle" => ep["out"].ready \/ ep["out"].done
=============================================================================
