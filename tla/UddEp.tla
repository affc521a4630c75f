-------------------------------- MODULE UddEp --------------------------------
(***************************************************************************)
(* An interrupt endpoint of the second device: the jobs of                 *)
(* usb_device_udd.c on a bank of the USB unit (usb.c).  The unit moves     *)
(* the packets of a transfer by itself and raises TRCPT at its end; the    *)
(* interrupt handler splits a job into transfers, the last bytes of an OUT *)
(* job going through a cache buffer of a whole packet.  Everything but the *)
(* unit and the host runs inside interrupts or with interrupts masked, so  *)
(* that only packets come between the steps of udd_ep_abort.               *)
(***************************************************************************)
EXTENDS Integers

CONSTANTS
  EpSize,    \* the size of the endpoint
  MaxTrans,  \* UDD_ENDPOINT_MAX_TRANS, the most a transfer of the unit takes
  Sizes,     \* of the buffers given to udd_ep_run
  Clears     \* when the host clears a halt: after a STALL ("stalled"), before it
             \* met one ("halted"), when there is none ("running")

\* A transfer takes a packet at least (8191 and 64 in usb_device_udd.c).
ASSUME SizeAssumption ==
  /\ EpSize \in Nat \ {0} /\ MaxTrans \in Nat /\ EpSize <= MaxTrans
  /\ Sizes \subseteq Nat /\ \E n \in Sizes : \A m \in Sizes : m <= n

VARIABLES
  dir,     \* of the endpoint
  job,     \* its udd_ep_job_t
  hw,      \* its bank
  buf,     \* which byte of the job's stream is at each place of the OUT buffer
  cache,   \* and of udd_ep_out_cache_buffer
  abort,   \* udd_ep_abort has stopped the unit and not yet acknowledged it
  moved,   \* bytes of the job that crossed the bus, Garbled when out of order
  short,   \* the last packet was a short one
  hostTog,
  report   \* the last call of the callback of a transfer, and in "as" what the job
           \* that ended last was taken for

epVars == <<dir, job, hw, buf, cache, abort, moved, short, hostTog, report>>
devVars == <<dir, job, buf, cache, abort, report>>

Garbled == -1
NoByte  == -1
MaxSize == CHOOSE n \in Sizes : \A m \in Sizes : m <= n
Least(a, b) == IF a < b THEN a ELSE b
OK(n)    == [status |-> "ok", count |-> n, as |-> "trans"]
ABORT(n) == [status |-> "abort", count |-> n, as |-> "trans"]
NOHALT   == [report EXCEPT !.as = "nohalt"]

EpTypeOK ==
  /\ dir \in {"in", "out"}
  /\ job \in [busy : BOOLEAN, call : {"trans", "nohalt"}, size : {0} \cup Sizes, nb : 0 .. MaxSize,
              short : BOOLEAN, close : BOOLEAN, cached : BOOLEAN]
  /\ hw \in [ready : BOOLEAN, stall : BOOLEAN, stalled : BOOLEAN, trcpt : BOOLEAN,
             tog : {0, 1}, at : 0 .. MaxSize, size : 0 .. MaxTrans, count : 0 .. MaxTrans]
  /\ buf \in [0 .. MaxSize - 1 -> Int] /\ cache \in [0 .. EpSize - 1 -> Int]
  /\ {abort, short} \subseteq BOOLEAN /\ moved \in Int /\ hostTog \in {0, 1}
  /\ report \in [status : {"none", "ok", "abort"}, count : 0 .. MaxSize, as : {"trans", "nohalt"}]

EpInit ==
  /\ dir \in {"in", "out"}
  /\ job = [busy |-> FALSE, call |-> "trans", size |-> 0, nb |-> 0, short |-> FALSE,
            close |-> FALSE, cached |-> FALSE]
  /\ hw = [ready |-> FALSE, stall |-> FALSE, stalled |-> FALSE, trcpt |-> FALSE, tog |-> 0,
           at |-> 0, size |-> 0, count |-> 0]
  /\ buf = [i \in 0 .. MaxSize - 1 |-> NoByte] /\ cache = [i \in 0 .. EpSize - 1 |-> NoByte]
  /\ abort = FALSE /\ moved = 0 /\ short = FALSE /\ hostTog = 0
  /\ report = [status |-> "none", count |-> 0, as |-> "trans"]

-----------------------------------------------------------------------------
(***************************************************************************)
(* usb_device_udd.c.                                                       *)
(***************************************************************************)
\* usb_device_endpoint_write_buffer_job and usb_device_endpoint_read_buffer_job.
BufferJob(h, at, n) == hw' = [h EXCEPT !.ready = TRUE, !.at = at, !.size = n, !.count = 0]

\* Mutant: a transfer is cut at the limit of the unit, in the middle of a packet.
ChunkUnaligned(left) == Least(left, MaxTrans)

\* A transfer takes whole packets, or what is left.
Chunk(left) == IF MaxTrans < left THEN MaxTrans - (MaxTrans % EpSize) ELSE left

\* Sends or receives what is left of j.  Less than a packet is received into the cache.
NextTransfer(h, j) ==
  LET n     == Chunk(j.size - j.nb)
      whole == n - (n % EpSize) IN
  IF dir = "in"
  THEN BufferJob(h, j.nb, n) /\ job' = [j EXCEPT !.short = @ /\ n % EpSize = 0]
  ELSE IF whole < EpSize THEN BufferJob(h, j.nb, EpSize) /\ job' = [j EXCEPT !.cached = TRUE]
  ELSE BufferJob(h, j.nb, whole) /\ job' = j

Running == job.busy /\ job.call = "trans"
Done(j, r) == job' = [j EXCEPT !.busy = FALSE] /\ report' = r

udd_ep_run(size, close) ==
  LET j == [busy |-> TRUE, call |-> "trans", size |-> size, nb |-> 0, short |-> close,
            close |-> close, cached |-> FALSE] IN
  /\ ~abort /\ ~hw.stall /\ ~job.busy
  /\ CASE size > 0 -> NextTransfer(hw, j) /\ UNCHANGED report
       [] size = 0 /\ dir = "in" /\ close ->
            BufferJob(hw, 0, 0) /\ job' = [j EXCEPT !.short = FALSE] /\ UNCHANGED report
       [] OTHER -> Done(j, OK(0)) /\ UNCHANGED hw
  /\ moved' = 0 /\ short' = FALSE
  /\ buf' = [i \in DOMAIN buf |-> NoByte]
  /\ UNCHANGED <<dir, cache, abort, hostTog>>

udd_ep_trans_in_next ==
  LET h == [hw EXCEPT !.trcpt = FALSE]
      j == [job EXCEPT !.nb = @ + hw.size] IN
  /\ dir = "in" /\ hw.trcpt /\ ~abort
  /\ CASE j.nb # j.size -> NextTransfer(h, j) /\ UNCHANGED report
       [] j.nb = j.size /\ j.short ->
            BufferJob(h, j.nb, 0) /\ job' = [j EXCEPT !.short = FALSE] /\ UNCHANGED report
       [] OTHER -> Done(j, OK(j.nb)) /\ hw' = h
  /\ UNCHANGED <<dir, buf, cache, abort, moved, short, hostTog>>

\* Mutant: the cache is copied after the bytes it holds were counted.
CopyCacheLate(b) ==
  [i \in DOMAIN b |-> IF i \in job.nb + hw.count .. job.nb + hw.count + (job.size % EpSize) - 1
                      THEN cache[i - job.nb - hw.count] ELSE b[i]]

\* The last bytes of a job, as many as do not fill a packet.
CopyCache(b) ==
  [i \in DOMAIN b |-> IF i \in job.nb .. job.nb + (job.size % EpSize) - 1
                      THEN cache[i - job.nb] ELSE b[i]]

udd_ep_trans_out_next ==
  LET h == [hw EXCEPT !.trcpt = FALSE]
      j == [job EXCEPT !.nb = Least(@ + hw.count, job.size)] IN
  /\ dir = "out" /\ hw.trcpt /\ ~abort
  /\ buf' = IF job.cached THEN CopyCache(buf) ELSE buf
  /\ IF hw.count = hw.size /\ j.nb # j.size THEN NextTransfer(h, j) /\ UNCHANGED report
     ELSE Done(j, OK(j.nb)) /\ hw' = h
  /\ UNCHANGED <<dir, cache, abort, moved, short, hostTog>>

\* udd_ep_abort, and udd_ep_set_halt which asks for STALLs before.
AbortStops(halt) ==
  /\ ~abort /\ abort' = TRUE
  /\ hw' = [hw EXCEPT !.stall = @ \/ halt, !.ready = FALSE]
  /\ UNCHANGED <<dir, job, buf, cache, moved, short, hostTog, report>>

AbortEnds ==
  /\ abort /\ abort' = FALSE
  /\ hw' = [hw EXCEPT !.trcpt = FALSE]
  /\ IF job.busy THEN Done(job, IF Running THEN ABORT(job.nb) ELSE NOHALT) ELSE UNCHANGED <<job, report>>
  /\ UNCHANGED <<dir, buf, cache, moved, short, hostTog>>

\* The handler meets the flag of a STALL when it comes for a packet that was refused (NAK), and
\* clears it before it looks at anything else.
StallSeen ==
  /\ ~abort /\ hw.stalled
  /\ hw' = [hw EXCEPT !.stalled = FALSE]
  /\ UNCHANGED <<devVars, moved, short, hostTog>>

\* The unit starts at DATA0 if the flag says that a STALL was sent.
ClearedToggle == IF hw.stall /\ hw.stalled THEN 0 ELSE hw.tog

\* The host clears a halt and starts at DATA0.
udd_ep_clear_halt ==
  LET state == IF hw.stalled THEN "stalled" ELSE IF hw.stall THEN "halted" ELSE "running" IN
  /\ ~abort /\ state \in Clears
  /\ hw' = [hw EXCEPT !.stall = FALSE, !.stalled = FALSE, !.tog = ClearedToggle]
  /\ hostTog' = 0
  /\ IF job.busy THEN Done(job, NOHALT) ELSE UNCHANGED <<job, report>>
  /\ UNCHANGED <<dir, buf, cache, abort, moved, short>>

\* A job of its own when the endpoint is halted, else a call at once.
udd_ep_wait_stall_clear ==
  /\ ~abort /\ ~job.busy
  /\ IF hw.stall THEN job' = [job EXCEPT !.busy = TRUE, !.call = "nohalt"] /\ UNCHANGED report
     ELSE report' = NOHALT /\ UNCHANGED job
  /\ UNCHANGED <<dir, hw, buf, cache, abort, moved, short, hostTog>>

Device ==
  \/ \E size \in Sizes, close \in BOOLEAN : udd_ep_run(size, close)
  \/ udd_ep_trans_in_next \/ udd_ep_trans_out_next
  \/ (\E halt \in BOOLEAN : AbortStops(halt)) \/ AbortEnds
  \/ udd_ep_clear_halt \/ udd_ep_wait_stall_clear \/ StallSeen

-----------------------------------------------------------------------------
(***************************************************************************)
(* The unit and the host.  No packet of the bus is lost here.              *)
(***************************************************************************)
\* A transfer of the unit ends with its last byte or a short packet.
Moves(n) ==
  LET count == hw.count + n
      ends  == count = hw.size \/ n < EpSize IN
  hw' = [hw EXCEPT !.tog = 1 - @, !.count = count, !.ready = ~ends, !.trcpt = ends]

PacketIn ==
  LET n == Least(EpSize, hw.size - hw.count) IN
  /\ dir = "in" /\ hw.ready /\ ~hw.stall
  /\ Moves(n)
  /\ IF hw.tog # hostTog THEN UNCHANGED <<moved, short, hostTog>>
     ELSE /\ moved' = IF hw.at + hw.count = moved THEN moved + n ELSE Garbled
          /\ short' = (n < EpSize) /\ hostTog' = 1 - hostTog
  /\ UNCHANGED devVars

\* The unit drops a packet of the wrong toggle, as one that was sent again.
PacketOut(n) ==
  LET from  == hw.at + hw.count
      At(i) == moved + i IN
  /\ dir = "out" /\ hw.ready /\ ~hw.stall
  /\ hostTog' = 1 - hostTog
  /\ IF hw.tog # hostTog THEN UNCHANGED <<hw, moved, short, buf, cache>>
     ELSE /\ Moves(n) /\ moved' = moved + n /\ short' = (n < EpSize)
          /\ IF job.cached
             THEN cache' = [i \in DOMAIN cache |-> IF i < n THEN At(i) ELSE cache[i]] /\ UNCHANGED buf
             ELSE /\ buf' = [i \in DOMAIN buf |-> IF i \in from .. from + n - 1
                                                  THEN At(i - from) ELSE buf[i]]
                  /\ UNCHANGED cache
  /\ UNCHANGED <<dir, job, abort, report>>

Stall ==
  /\ hw.stall /\ hw' = [hw EXCEPT !.stalled = TRUE]
  /\ UNCHANGED <<devVars, moved, short, hostTog>>

Unit == PacketIn \/ (\E n \in 0 .. EpSize : PacketOut(n)) \/ Stall

EpNext == Device \/ Unit
EpSpec == EpInit /\ [][EpNext]_epVars

-----------------------------------------------------------------------------
\* A job keeps the promise of udd_ep_run: no packet moves before it starts or after
\* its callback was called, one call ends it, and it is told the right count.
NoJob   == [size |-> -1]
Transfer == INSTANCE EndpointTransfer WITH
  job <- IF Running THEN [dir |-> dir, size |-> job.size, short |-> job.close] ELSE NoJob,
  report <- [status |-> report.status, count |-> report.count]
OneCallback == Transfer!Spec

\* What an OUT job reports as received is in its buffer, in order, and nothing is
\* written behind the buffer: its bytes end at the job's size.
BufferRight ==
  /\ report.as = "trans" /\ report.status = "ok" /\ dir = "out" /\ ~job.busy
       => \A i \in 0 .. report.count - 1 : buf[i] = i
  /\ dir = "out" => \A i \in DOMAIN buf : i >= job.size => buf[i] = NoByte

\* "the data toggle sequence will start at DATA0" (udd.h, udd_ep_clear_halt), as that of the
\* host does.
TogglesAgree == hw.tog = hostTog

\* "If a job is register on clear halt action then execute callback"
\* (usb_device_udd.c, udd_ep_clear_halt): the callback of a transfer is not.
HaltCallbackOnly == [][Running /\ ~Running' => report'.as = "trans"]_epVars
=============================================================================
