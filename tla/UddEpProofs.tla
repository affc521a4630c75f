------------------------------ MODULE UddEpProofs ------------------------------
(***************************************************************************)
(* Proofs about UddEp, for every size of the endpoint, limit of a          *)
(* transfer and set of buffers, when the host clears the halts it met      *)
(* (HaltsMet): the runs udd_ep_clear and udd_ep_toggle tell what happens   *)
(* otherwise.                                                              *)
(***************************************************************************)
EXTENDS UddEp, TLAPS

\* The host clears a halt whose STALL it met while the unit still says so, and no other.
HaltsMet == Clears \subseteq {"stalled"}

JobType ==
  [busy : BOOLEAN, call : {"trans", "nohalt"}, size : Nat, nb : Nat,
   short : BOOLEAN, close : BOOLEAN, cached : BOOLEAN]
HwType ==
  [ready : BOOLEAN, stall : BOOLEAN, stalled : BOOLEAN, trcpt : BOOLEAN,
   tog : {0, 1}, at : Nat, size : Nat, count : Nat]
ReportType == [status : {"none", "ok", "abort"}, count : Nat, as : {"trans", "nohalt"}]
Types ==
  /\ dir \in {"in", "out"} /\ job \in JobType /\ hw \in HwType /\ report \in ReportType
  /\ abort \in BOOLEAN /\ short \in BOOLEAN /\ moved \in Int /\ hostTog \in {0, 1}

\* Both toggles agree, as a halt is cleared by a host that has met it.
Toggles == hw.tog = hostTog /\ (hw.stalled => hw.stall)

\* The bank works for a job only; a halted endpoint has none.
Quiet ==
  /\ hw.ready \/ hw.trcpt => Running
  /\ hw.ready => ~hw.stall /\ ~hw.trcpt /\ ~abort
  /\ hw.stall /\ ~abort => ~Running

Packets(n) == n % EpSize = 0

\* The transfer of an IN job ends in a short packet.
ShortEnd == hw.size = 0 \/ ~Packets(hw.size)

\* How far the unit is with a transfer of a job.
Work == Running =>
  /\ hw.at = job.nb /\ moved = hw.at + hw.count /\ hw.count <= hw.size
  /\ hw.ready => ~short /\ Packets(hw.count)

\* What is left of an IN job after this transfer is whole transfers; the one that
\* ends in a short packet is the last, and there is one if the job is to be closed.
InWork == Running /\ dir = "in" =>
  /\ hw.at + hw.size <= job.size
  /\ ShortEnd => hw.at + hw.size = job.size
  /\ job.short => ~ShortEnd
  /\ job.close /\ ~job.short => ShortEnd
  /\ hw.ready => hw.count < hw.size \/ hw.size = 0
  /\ hw.trcpt => hw.count = hw.size /\ (short <=> ShortEnd)

\* A transfer of an OUT job is whole packets, and ends early with a short one.
OutWork == Running /\ dir = "out" =>
  /\ job.nb < job.size
  /\ hw.size > 0 /\ Packets(hw.size)
  /\ hw.ready => hw.count < hw.size
  /\ hw.trcpt => (short <=> hw.count < hw.size)

IInv == Types /\ Toggles /\ Quiet /\ Work /\ InWork /\ OutWork

-----------------------------------------------------------------------------
(***************************************************************************)
(* Whole packets.                                                          *)
(***************************************************************************)

\* Division with rest.
LEMMA Divided ==
  ASSUME NEW a \in Nat, NEW e \in Nat \ {0}
  PROVE  a = e * (a \div e) + (a % e) /\ a % e \in 0 .. e - 1 /\ a \div e \in Nat
BY SMT

\* The rest of a division is the only one.
LEMMA Rest ==
  ASSUME NEW e \in Nat \ {0}, NEW q \in Int, NEW r \in 0 .. e - 1
  PROVE  (e * q + r) % e = r
BY SMT

\* A number without its rest is whole packets.
LEMMA WholePart ==
  ASSUME NEW a \in Nat, NEW e \in Nat \ {0}
  PROVE  (a - (a % e)) % e = 0
<1>1. PICK q \in Nat, r \in 0 .. e - 1 : a = e * q + r /\ a % e = r
  BY Divided
<1>2. a - r = e * q + 0
  BY <1>1
<1>3. (e * q + 0) % e = 0
  BY Rest
<1> QED BY <1>1, <1>2, <1>3

\* Whole packets added leave the rest alone.
LEMMA WholeAdded ==
  ASSUME NEW a \in Nat, NEW b \in Nat, NEW e \in Nat \ {0}, a % e = 0
  PROVE  (a + b) % e = b % e
<1>1. PICK p \in Nat : a = e * p
  <2>1. a = e * (a \div e) /\ a \div e \in Nat
    BY Divided
  <2> QED BY <2>1
<1>2. PICK q \in Nat, r \in 0 .. e - 1 : b = e * q + r /\ b % e = r
  BY Divided
<1>3. e * (p + q) = e * p + e * q
  BY <1>1, <1>2, SMT
<1>4. a + b = e * (p + q) + r
  BY <1>1, <1>2, <1>3
<1>5. (e * (p + q) + r) % e = r
  BY <1>1, <1>2, Rest
<1> QED BY <1>2, <1>4, <1>5

\* Between two numbers of whole packets there is room for one.
LEMMA WholeGap ==
  ASSUME NEW a \in Nat, NEW b \in Nat, NEW e \in Nat \ {0}, a % e = 0, b % e = 0, a < b
  PROVE  b - a >= e
<1>1. PICK p \in Nat : a = e * p
  <2>1. a = e * (a \div e) /\ a \div e \in Nat
    BY Divided
  <2> QED BY <2>1
<1>2. PICK q \in Nat : b = e * q
  <2>1. b = e * (b \div e) /\ b \div e \in Nat
    BY Divided
  <2> QED BY <2>1
<1>3. PICK d \in Int : d = q - p
  BY <1>1, <1>2
<1>4. e * q - e * p = e * d
  BY <1>1, <1>2, <1>3, SMT
<1>5. d <= 0 => e * d <= 0
  BY <1>3, SMT
<1>6. d >= 1 => e * d >= e
  BY <1>3, SMT
<1>7. e * p \in Int /\ e * q \in Int /\ e * d \in Int
  BY <1>1, <1>2, <1>3, SMT
<1> QED BY <1>1, <1>2, <1>3, <1>4, <1>5, <1>6, <1>7

\* What is less than a packet is its own rest, and a packet is a whole one.
LEMMA SmallRest ==
  ASSUME NEW e \in Nat \ {0}
  PROVE  /\ \A b \in 0 .. e - 1 : b % e = b
         /\ e % e = 0
<1>1. ASSUME NEW b \in 0 .. e - 1 PROVE b % e = b
  <2>1. (e * 0 + b) % e = b
    BY Rest
  <2> QED BY <2>1
<1>2. (e * 1 + 0) % e = 0
  BY Rest
<1> QED BY <1>1, <1>2

-----------------------------------------------------------------------------
(***************************************************************************)
(* What the operations do.                                                 *)
(***************************************************************************)

\* The bank h was given a transfer of n bytes from at.
Given(h, at, n) ==
  /\ hw' \in HwType /\ hw'.ready /\ hw'.stall = h.stall /\ hw'.stalled = h.stalled
  /\ hw'.trcpt = h.trcpt /\ hw'.tog = h.tog /\ hw'.at = at /\ hw'.size = n /\ hw'.count = 0

\* usb_device_endpoint_*_buffer_job, field by field.
LEMMA BufferEffect ==
  ASSUME NEW h \in HwType, NEW at \in Nat, NEW n \in Nat, BufferJob(h, at, n)
  PROVE  Given(h, at, n)
BY DEF BufferJob, Given, HwType

\* A job is left as it was but for its flags.
SameJob(j) ==
  /\ job' \in JobType /\ job'.busy = j.busy /\ job'.call = j.call /\ job'.size = j.size
  /\ job'.nb = j.nb /\ job'.close = j.close

\* What NextTransfer starts: whole packets, but for the end of an IN job and the bytes of
\* an OUT job that go through the cache.
Started(h, j, n) ==
  /\ Given(h, j.nb, n) /\ SameJob(j) /\ n > 0 /\ n <= MaxTrans
  /\ dir = "in" =>
       /\ n <= j.size - j.nb /\ (~Packets(n) => n = j.size - j.nb)
       /\ job'.short <=> j.short /\ Packets(n)
  /\ dir = "out" =>
       /\ Packets(n)
       /\ j.size - j.nb < EpSize => n = EpSize /\ job'.cached
       /\ j.size - j.nb >= EpSize => n <= j.size - j.nb /\ (job'.cached <=> j.cached)

\* A transfer for what is left of a job.
LEMMA NextEffect ==
  ASSUME NEW h \in HwType, NEW j \in JobType, j.nb < j.size, NextTransfer(h, j),
         dir \in {"in", "out"}
  PROVE  \E n \in Nat : Started(h, j, n)
<1>1. PICK left \in Nat : left = j.size - j.nb /\ left > 0
  BY DEF JobType
<1>2. EpSize \in Nat \ {0} /\ MaxTrans \in Nat /\ EpSize <= MaxTrans
  BY SizeAssumption
<1>3. PICK m \in Nat : m = MaxTrans - (MaxTrans % EpSize) /\ Packets(m) /\ m <= MaxTrans /\ m > 0
  <2>1. MaxTrans % EpSize \in 0 .. EpSize - 1 /\ (MaxTrans - (MaxTrans % EpSize)) % EpSize = 0
    BY <1>2, Divided, WholePart
  <2> QED BY <1>2, <2>1 DEF Packets
<1>4. PICK n \in Nat : /\ n = Chunk(left) /\ n > 0 /\ n <= left /\ n <= MaxTrans /\ (n # left => Packets(n))
                       /\ left < EpSize => n = left
                       /\ n < EpSize => n = left
  <2>1. CASE MaxTrans < left
    <3>1. m >= EpSize
      BY <1>2, <1>3, WholeGap, SmallRest DEF Packets
    <3> QED BY <1>1, <1>2, <1>3, <2>1, <3>1 DEF Chunk
  <2>2. CASE ~(MaxTrans < left)
    BY <1>1, <1>2, <2>2 DEF Chunk
  <2> QED BY <2>1, <2>2
<1>5. j.nb \in Nat /\ j.short \in BOOLEAN
  BY DEF JobType
<1>6. CASE dir = "in"
  <2>1. BufferJob(h, j.nb, n) /\ job' = [j EXCEPT !.short = j.short /\ n % EpSize = 0]
    BY <1>1, <1>4, <1>6 DEF NextTransfer
  <2>2. PICK s \in BOOLEAN : s <=> j.short /\ Packets(n)
    OBVIOUS
  <2>3. job' = [j EXCEPT !.short = s]
    BY <1>5, <2>1, <2>2 DEF Packets
  <2>4. SameJob(j) /\ job'.short = s
    BY <2>3 DEF SameJob, JobType
  <2>5. Given(h, j.nb, n)
    BY <1>5, <2>1, BufferEffect
  <2> QED BY <1>1, <1>4, <1>6, <2>2, <2>4, <2>5 DEF Started
<1>7. CASE dir = "out"
  <2>1. PICK w \in Nat : w = n - (n % EpSize) /\ Packets(w) /\ w <= n /\ n - w < EpSize
    <3>1. n % EpSize \in 0 .. EpSize - 1 /\ n % EpSize <= n /\ (n - (n % EpSize)) % EpSize = 0
      <4>1. n = EpSize * (n \div EpSize) + (n % EpSize) /\ n % EpSize \in 0 .. EpSize - 1 /\ n \div EpSize \in Nat
        BY <1>2, Divided
      <4>2. EpSize * (n \div EpSize) >= 0
        BY <1>2, <4>1, SMT
      <4> QED BY <1>2, <4>1, <4>2, WholePart
    <3> QED BY <1>2, <3>1 DEF Packets
  <2>2. w < EpSize => left < EpSize
    <3>1. w < EpSize => w = 0
      BY <1>2, <2>1, SmallRest DEF Packets
    <3> QED BY <1>1, <1>2, <1>4, <2>1, <3>1
  <2>3. CASE w < EpSize
    <3>1. BufferJob(h, j.nb, EpSize) /\ job' = [j EXCEPT !.cached = TRUE]
      BY <1>1, <1>4, <1>7, <2>1, <2>3 DEF NextTransfer
    <3>2. SameJob(j) /\ job'.cached = TRUE
      BY <3>1 DEF SameJob, JobType
    <3>3. Given(h, j.nb, EpSize)
      BY <1>2, <1>5, <3>1, BufferEffect
    <3>4. Packets(EpSize)
      BY <1>2, SmallRest DEF Packets
    <3> QED BY <1>1, <1>2, <1>7, <2>2, <2>3, <3>2, <3>3, <3>4 DEF Started
  <2>4. CASE ~(w < EpSize)
    <3>1. BufferJob(h, j.nb, w) /\ job' = j
      BY <1>1, <1>4, <1>7, <2>1, <2>4 DEF NextTransfer
    <3>2. SameJob(j) /\ job'.cached = j.cached
      BY <3>1 DEF SameJob
    <3>3. Given(h, j.nb, w)
      BY <1>5, <3>1, BufferEffect
    <3> QED BY <1>1, <1>2, <1>4, <1>7, <2>1, <2>4, <3>2, <3>3 DEF Started
  <2> QED BY <2>3, <2>4
<1> QED BY <1>6, <1>7

-----------------------------------------------------------------------------
(***************************************************************************)
(* What the invariant says of the states that follow.                      *)
(***************************************************************************)

\* A state in which no transfer runs.
LEMMA NoTransferLooks ==
  ASSUME Types', Toggles', ~Running', ~hw'.ready, ~hw'.trcpt
  PROVE  IInv'
BY DEF IInv, Quiet, Work, InWork, OutWork

\* A transfer that was started for what is left of a job.
LEMMA StartedLooks ==
  ASSUME Types, NEW h \in HwType, NEW j \in JobType,
         j.busy, j.call = "trans", j.nb < j.size, dir = "in" /\ j.close => j.short,
         ~h.stall, ~h.stalled, ~h.trcpt, h.tog = hostTog, ~abort,
         NextTransfer(h, j), moved' = j.nb, ~short', short' \in BOOLEAN,
         UNCHANGED <<dir, abort, hostTog, report>>
  PROVE  IInv' /\ Running' /\ job'.size = j.size /\ job'.close = j.close
<1>1. dir \in {"in", "out"} /\ dir' = dir
  BY DEF Types
<1>2. PICK n \in Nat : Started(h, j, n)
  <2>1. \E n \in Nat : Started(h, j, n)
    BY <1>1, NextEffect
  <2> QED BY <2>1
<1>3. Given(h, j.nb, n) /\ SameJob(j) /\ n > 0
  BY <1>2 DEF Started
<1>4. /\ hw' \in HwType /\ hw'.ready /\ ~hw'.stall /\ ~hw'.stalled /\ ~hw'.trcpt
      /\ hw'.tog = hostTog /\ hw'.at = j.nb /\ hw'.size = n /\ hw'.count = 0
  BY <1>3 DEF Given
<1>5. /\ job' \in JobType /\ job'.busy /\ job'.call = "trans" /\ job'.size = j.size
      /\ job'.nb = j.nb /\ job'.close = j.close
  BY <1>3 DEF SameJob
<1>6. EpSize \in Nat \ {0} /\ Packets(0)
  BY SmallRest, SizeAssumption DEF Packets
<1>7. j.nb \in Nat /\ j.size \in Nat
  BY DEF JobType
<1>8. Running'
  BY <1>5 DEF Running
<1>9. Types'
  BY <1>1, <1>4, <1>5, <1>7 DEF Types
<1>10. Toggles' /\ Quiet'
  BY <1>4, <1>8 DEF Toggles, Quiet
<1>11. Work'
  BY <1>4, <1>5, <1>6, <1>7 DEF Work, Packets
<1>12. InWork'
  <2>1. SUFFICES ASSUME dir = "in" PROVE InWork'
    BY <1>1 DEF InWork
  <2>2. /\ n <= j.size - j.nb /\ (~Packets(n) => n = j.size - j.nb)
        /\ job'.short <=> j.short /\ Packets(n)
    BY <1>2, <2>1 DEF Started
  <2>3. ShortEnd' <=> ~Packets(n)
    BY <1>3, <1>4 DEF ShortEnd, Packets
  <2> QED BY <1>3, <1>4, <1>5, <1>7, <2>2, <2>3 DEF InWork
<1>13. OutWork'
  <2>1. SUFFICES ASSUME dir = "out" PROVE OutWork'
    BY <1>1 DEF OutWork
  <2>2. Packets(n) /\ Packets(n)' = Packets(n)
    BY <1>2, <2>1 DEF Started, Packets
  <2> QED BY <1>3, <1>4, <1>5, <2>2 DEF OutWork, Packets
<1> QED BY <1>5, <1>8, <1>9, <1>10, <1>11, <1>12, <1>13 DEF IInv

\* The packet of no bytes that closes an IN job.
LEMMA ClosingLooks ==
  ASSUME Types, dir = "in", NEW h \in HwType, NEW j \in JobType,
         j.busy, j.call = "trans", j.nb = j.size,
         ~h.stall, ~h.stalled, ~h.trcpt, h.tog = hostTog, ~abort,
         BufferJob(h, j.nb, 0), job' = [j EXCEPT !.short = FALSE],
         moved' = j.nb, ~short', short' \in BOOLEAN,
         UNCHANGED <<dir, abort, hostTog, report>>
  PROVE  IInv' /\ Running' /\ job'.size = j.size /\ job'.close = j.close
<1>1. j.nb \in Nat /\ j.size \in Nat
  BY DEF JobType
<1>2. Given(h, j.nb, 0)
  BY <1>1, BufferEffect
<1>3. /\ hw' \in HwType /\ hw'.ready /\ ~hw'.stall /\ ~hw'.stalled /\ ~hw'.trcpt
      /\ hw'.tog = hostTog /\ hw'.at = j.nb /\ hw'.size = 0 /\ hw'.count = 0
  BY <1>2 DEF Given
<1>4. /\ job' \in JobType /\ job'.busy /\ job'.call = "trans" /\ job'.size = j.size
      /\ job'.nb = j.nb /\ job'.close = j.close /\ ~job'.short
  BY DEF JobType
<1>5. Packets(0)
  BY SmallRest, SizeAssumption DEF Packets
<1>6. Running'
  BY <1>4 DEF Running
<1>7. Types'
  BY <1>1, <1>3, <1>4 DEF Types
<1>8. Toggles' /\ Quiet'
  BY <1>3, <1>6 DEF Toggles, Quiet
<1>9. Work'
  BY <1>1, <1>3, <1>4, <1>5 DEF Work, Packets
<1>10. ShortEnd'
  BY <1>3 DEF ShortEnd
<1>11. InWork' /\ OutWork'
  BY <1>1, <1>3, <1>4, <1>10 DEF InWork, OutWork
<1> QED BY <1>4, <1>6, <1>7, <1>8, <1>9, <1>11 DEF IInv

-----------------------------------------------------------------------------
(***************************************************************************)
(* The steps of the promised transfer.                                     *)
(***************************************************************************)
TransferStep == [Transfer!Next]_(Transfer!vars)
SameReport == report'.status = report.status /\ report'.count = report.count
SameTransfer ==
  /\ Running' <=> Running
  /\ Running => dir' = dir /\ job'.size = job.size /\ job'.close = job.close

\* A transfer is not the absence of one.
LEMMA SomeJob ==
  ASSUME NEW d, NEW n \in Nat, NEW c
  PROVE  [dir |-> d, size |-> n, short |-> c] # NoJob
<1>1. SUFFICES ASSUME [dir |-> d, size |-> n, short |-> c] = [size |-> -1] PROVE FALSE
  BY DEF NoJob
<1>2. [dir |-> d, size |-> n, short |-> c].size = [size |-> -1].size
  BY <1>1
<1> QED BY <1>2

\* Nothing that the caller sees.
LEMMA Unseen ==
  ASSUME SameTransfer, SameReport, moved' = moved, short' = short
  PROVE  TransferStep
BY DEF SameTransfer, SameReport, TransferStep, Transfer!vars

\* A transfer is accepted.
LEMMA Starts ==
  ASSUME Types', ~Running, Running', moved' = 0, ~short', SameReport
  PROVE  TransferStep
<1>1. job'.size \in Nat /\ short' = FALSE
  BY DEF Types, JobType
<1>2. [dir |-> dir', size |-> job'.size, short |-> job'.close] # NoJob
  BY <1>1, SomeJob
<1> QED BY <1>1, <1>2 DEF SameReport, TransferStep, Transfer!Next, Transfer!Start, NoJob

\* One of no bytes ends at once.
LEMMA StartsEmpty ==
  ASSUME Types', ~Running, ~Running', moved' = 0, ~short', report'.status = "ok", report'.count = 0
  PROVE  TransferStep
<1>1. short' = FALSE
  BY DEF Types
<1> QED BY <1>1 DEF TransferStep, Transfer!Next, Transfer!Empty

\* A packet.
LEMMA Moving ==
  ASSUME Types, Running, SameTransfer, SameReport, ~short,
         moved' \in moved .. moved + EpSize, dir = "in" => moved' <= job.size,
         short' = (moved' - moved < EpSize)
  PROVE  TransferStep
<1>1. job.size \in Nat
  BY DEF Types, JobType
<1>2. [dir |-> dir, size |-> job.size, short |-> job.close] # NoJob
  BY <1>1, SomeJob
<1> QED BY <1>2 DEF SameTransfer, SameReport, TransferStep, Transfer!Next, Transfer!Packet

\* The call that ends a transfer.
LEMMA Ends ==
  ASSUME Types, Running, ~Running', UNCHANGED <<moved, short>>,
         \/ /\ report'.status = "ok" /\ report'.count = Least(moved, job.size)
            /\ IF dir = "in" THEN moved = job.size /\ (job.close => short)
               ELSE moved >= job.size \/ short
         \/ report'.status = "abort" /\ report'.count \in 0 .. moved
  PROVE  TransferStep
<1>1. job.size \in Nat
  BY DEF Types, JobType
<1>2. [dir |-> dir, size |-> job.size, short |-> job.close] # NoJob
  BY <1>1, SomeJob
<1>3. CASE report'.status = "abort" /\ report'.count \in 0 .. moved
  <2>1. Transfer!End("abort", report'.count)
    BY <1>2, <1>3 DEF Transfer!End
  <2> QED BY <1>3, <2>1 DEF TransferStep, Transfer!Next, Transfer!Abort
<1>4. CASE /\ report'.status = "ok" /\ report'.count = Least(moved, job.size)
           /\ IF dir = "in" THEN moved = job.size /\ (job.close => short)
              ELSE moved >= job.size \/ short
  <2>1. Transfer!Finished
    BY <1>4 DEF Transfer!Finished
  <2>2. Transfer!End("ok", Transfer!Least(moved, job.size))
    BY <1>2, <1>4 DEF Transfer!End, Transfer!Least, Least
  <2> QED BY <1>2, <2>1, <2>2 DEF TransferStep, Transfer!Next, Transfer!Finish
<1> QED BY <1>3, <1>4

-----------------------------------------------------------------------------
(***************************************************************************)
(* The operations of the driver.                                           *)
(***************************************************************************)

\* The invariant and the promise of udd_ep_run hold over a step.
Kept == IInv' /\ TransferStep

\* A job is accepted.
LEMMA RunKept ==
  ASSUME IInv, NEW size \in Sizes, NEW close \in BOOLEAN, udd_ep_run(size, close)
  PROVE  Kept
<1>1. Types /\ Toggles /\ Quiet
  BY DEF IInv
<1>2. size \in Nat
  BY SizeAssumption
<1>3. PICK j \in JobType : j = [busy |-> TRUE, call |-> "trans", size |-> size, nb |-> 0,
                                short |-> close, close |-> close, cached |-> FALSE]
  BY <1>2 DEF JobType
<1>4. /\ ~abort /\ ~hw.stall /\ ~job.busy
      /\ CASE size > 0 -> NextTransfer(hw, j) /\ UNCHANGED report
           [] size = 0 /\ dir = "in" /\ close ->
                BufferJob(hw, 0, 0) /\ job' = [j EXCEPT !.short = FALSE] /\ UNCHANGED report
           [] OTHER -> Done(j, OK(0)) /\ UNCHANGED hw
  BY <1>3 DEF udd_ep_run
<1>5. moved' = 0 /\ short' = FALSE /\ dir' = dir /\ abort' = abort /\ hostTog' = hostTog
  BY DEF udd_ep_run
<1>6. /\ j.busy /\ j.call = "trans" /\ j.nb = 0 /\ j.size = size
      /\ j.short = close /\ j.close = close
  BY <1>3
<1>7. ~Running
  BY <1>4 DEF Running
<1>8. /\ hw \in HwType /\ ~hw.ready /\ ~hw.trcpt /\ ~hw.stall /\ ~hw.stalled
      /\ hw.tog = hostTog /\ dir \in {"in", "out"}
  BY <1>1, <1>4, <1>7 DEF Types, Toggles, Quiet
<1>9. CASE size > 0
  <2>1. NextTransfer(hw, j) /\ report' = report
    BY <1>4, <1>9
  <2>2. IInv' /\ Running'
    BY <1>1, <1>2, <1>4, <1>5, <1>6, <1>8, <1>9, <2>1, StartedLooks
  <2>3. Types' /\ SameReport
    BY <2>1, <2>2 DEF IInv, SameReport
  <2> QED BY <1>4, <1>5, <1>7, <2>2, <2>3, Starts DEF Kept
<1>10. CASE size = 0 /\ dir = "in" /\ close
  <2>1. BufferJob(hw, 0, 0) /\ job' = [j EXCEPT !.short = FALSE] /\ report' = report
    BY <1>4, <1>10
  <2>2. IInv' /\ Running'
    BY <1>1, <1>4, <1>5, <1>6, <1>8, <1>10, <2>1, ClosingLooks
  <2>3. Types' /\ SameReport
    BY <2>1, <2>2 DEF IInv, SameReport
  <2> QED BY <1>4, <1>5, <1>7, <2>2, <2>3, Starts DEF Kept
<1>11. CASE ~(size > 0) /\ ~(size = 0 /\ dir = "in" /\ close)
  <2>1. Done(j, OK(0)) /\ hw' = hw
    BY <1>4, <1>11
  <2>2. /\ job' \in JobType /\ ~job'.busy
        /\ report' \in ReportType /\ report'.status = "ok" /\ report'.count = 0
    BY <2>1 DEF Done, OK, JobType, ReportType
  <2>3. ~Running'
    BY <2>2 DEF Running
  <2>4. Types' /\ Toggles'
    <3>1. hw' = hw /\ hw' \in HwType
      BY <1>8, <2>1
    <3>2. report' \in ReportType /\ job' \in JobType
      BY <2>2
    <3>3. abort \in BOOLEAN /\ hostTog \in {0, 1} /\ dir \in {"in", "out"}
      BY <1>1 DEF Types
    <3>4. moved' \in Int
      BY <1>5
    <3>5. short' \in BOOLEAN
      BY <1>5, Zenon
    <3>6. Types'
      BY <1>5, <3>1, <3>2, <3>3, <3>4, <3>5 DEF Types
    <3> QED BY <1>1, <1>5, <3>1, <3>6 DEF Toggles
  <2>5. IInv'
    BY <1>8, <2>1, <2>3, <2>4, NoTransferLooks
  <2> QED BY <1>4, <1>5, <1>7, <2>2, <2>3, <2>4, <2>5, StartsEmpty DEF Kept
<1> QED BY <1>9, <1>10, <1>11

\* What the bank is after its interrupt was acknowledged.
Acknowledged(h) ==
  /\ h \in HwType /\ ~h.trcpt /\ h.ready = hw.ready /\ h.stall = hw.stall
  /\ h.stalled = hw.stalled /\ h.tog = hw.tog

\* The flag of the transfer is cleared.
LEMMA AcknowledgeEffect ==
  ASSUME hw \in HwType
  PROVE  Acknowledged([hw EXCEPT !.trcpt = FALSE])
BY DEF Acknowledged, HwType

\* A transfer of an IN job has ended.
LEMMA InNextKept ==
  ASSUME IInv, udd_ep_trans_in_next
  PROVE  Kept
<1>1. Types /\ Toggles /\ Quiet /\ Work /\ InWork
  BY DEF IInv
<1>2. dir = "in" /\ hw.trcpt /\ ~abort
  BY DEF udd_ep_trans_in_next
<1>3. hw \in HwType /\ job \in JobType
  BY <1>1 DEF Types
<1>4. hw.size \in Nat /\ job.nb \in Nat /\ job.size \in Nat
  BY <1>3 DEF HwType, JobType
<1>5. PICK h \in HwType : h = [hw EXCEPT !.trcpt = FALSE] /\ Acknowledged(h)
  <2>1. Acknowledged([hw EXCEPT !.trcpt = FALSE])
    BY <1>3, AcknowledgeEffect
  <2> QED BY <2>1 DEF Acknowledged
<1>6. PICK j \in JobType : j = [job EXCEPT !.nb = @ + hw.size]
  <2>1. [job EXCEPT !.nb = @ + hw.size] \in JobType
    BY <1>3, <1>4 DEF JobType
  <2> QED BY <2>1
<1>7. /\ CASE j.nb # j.size -> NextTransfer(h, j) /\ UNCHANGED report
           [] j.nb = j.size /\ j.short ->
                BufferJob(h, j.nb, 0) /\ job' = [j EXCEPT !.short = FALSE] /\ UNCHANGED report
           [] OTHER -> Done(j, OK(j.nb)) /\ hw' = h
      /\ UNCHANGED <<dir, abort, moved, short, hostTog>>
  BY <1>5, <1>6 DEF udd_ep_trans_in_next
<1>8. Running /\ ~hw.stall /\ ~hw.stalled /\ ~hw.ready /\ hw.tog = hostTog
  BY <1>1, <1>2 DEF Quiet, Toggles
<1>9. job.busy /\ job.call = "trans"
  BY <1>8 DEF Running
<1>10. /\ j.busy /\ j.call = "trans" /\ j.nb = job.nb + hw.size /\ j.size = job.size
       /\ j.short = job.short /\ j.close = job.close
  BY <1>3, <1>6, <1>9 DEF JobType
<1>11. /\ j.nb <= j.size /\ moved = j.nb /\ (short <=> ShortEnd)
       /\ ShortEnd => j.nb = j.size
       /\ j.short => ~ShortEnd
       /\ j.close /\ ~j.short => ShortEnd
  BY <1>1, <1>2, <1>4, <1>8, <1>10 DEF Work, InWork
<1>12. ~h.stall /\ ~h.stalled /\ ~h.trcpt /\ ~h.ready /\ h.tog = hostTog
  BY <1>5, <1>8 DEF Acknowledged
<1>13. short \in BOOLEAN /\ j.nb \in Nat /\ j.size \in Nat
  BY <1>1 DEF Types, JobType
<1>14. CASE j.nb # j.size
  <2>1. NextTransfer(h, j) /\ report' = report
    BY <1>7, <1>14
  <2>2. j.nb < j.size /\ (j.close => j.short) /\ ~short
    BY <1>11, <1>13, <1>14
  <2>3. IInv' /\ Running' /\ job'.size = j.size /\ job'.close = j.close
    BY <1>1, <1>2, <1>7, <1>10, <1>11, <1>12, <1>13, <2>1, <2>2, StartedLooks
  <2>4. SameTransfer /\ SameReport
    BY <1>7, <1>8, <1>10, <2>1, <2>3 DEF SameTransfer, SameReport
  <2> QED BY <1>7, <2>3, <2>4, Unseen DEF Kept
<1>15. CASE j.nb = j.size /\ j.short
  <2>1. BufferJob(h, j.nb, 0) /\ job' = [j EXCEPT !.short = FALSE] /\ report' = report
    BY <1>7, <1>15
  <2>2. ~short
    BY <1>11, <1>15
  <2>3. IInv' /\ Running' /\ job'.size = j.size /\ job'.close = j.close
    BY <1>1, <1>2, <1>7, <1>10, <1>11, <1>12, <1>13, <1>15, <2>1, <2>2, ClosingLooks
  <2>4. SameTransfer /\ SameReport
    BY <1>7, <1>8, <1>10, <2>1, <2>3 DEF SameTransfer, SameReport
  <2> QED BY <1>7, <2>3, <2>4, Unseen DEF Kept
<1>16. CASE j.nb = j.size /\ ~j.short
  <2>1. Done(j, OK(j.nb)) /\ hw' = h
    BY <1>7, <1>16
  <2>2. /\ job' \in JobType /\ ~job'.busy
        /\ report' \in ReportType /\ report'.status = "ok" /\ report'.count = j.nb
    BY <1>13, <2>1 DEF Done, OK, JobType, ReportType
  <2>3. ~Running'
    BY <2>2 DEF Running
  <2>4. Types' /\ Toggles'
    BY <1>1, <1>7, <1>12, <2>1, <2>2 DEF Types, Toggles
  <2>5. IInv'
    BY <1>12, <2>1, <2>3, <2>4, NoTransferLooks
  <2>6. Least(moved, job.size) = j.nb /\ moved = job.size /\ (job.close => short)
    BY <1>10, <1>11, <1>13, <1>16 DEF Least
  <2> QED BY <1>1, <1>2, <1>7, <1>8, <2>2, <2>3, <2>5, <2>6, Ends DEF Kept
<1> QED BY <1>14, <1>15, <1>16

\* A transfer of an OUT job has ended.
LEMMA OutNextKept ==
  ASSUME IInv, udd_ep_trans_out_next
  PROVE  Kept
<1>1. Types /\ Toggles /\ Quiet /\ Work /\ OutWork
  BY DEF IInv
<1>2. dir = "out" /\ hw.trcpt /\ ~abort
  BY DEF udd_ep_trans_out_next
<1>3. hw \in HwType /\ job \in JobType
  BY <1>1 DEF Types
<1>4. hw.size \in Nat /\ hw.count \in Nat /\ job.nb \in Nat /\ job.size \in Nat
  BY <1>3 DEF HwType, JobType
<1>5. PICK h \in HwType : h = [hw EXCEPT !.trcpt = FALSE] /\ Acknowledged(h)
  <2>1. Acknowledged([hw EXCEPT !.trcpt = FALSE])
    BY <1>3, AcknowledgeEffect
  <2> QED BY <2>1 DEF Acknowledged
<1>6. Least(job.nb + hw.count, job.size) \in Nat
  BY <1>4 DEF Least
<1>7. PICK j \in JobType : j = [job EXCEPT !.nb = Least(@ + hw.count, job.size)]
  <2>1. [job EXCEPT !.nb = Least(@ + hw.count, job.size)] \in JobType
    BY <1>3, <1>6 DEF JobType
  <2> QED BY <2>1
<1>8. IF hw.count = hw.size /\ j.nb # j.size THEN NextTransfer(h, j) /\ UNCHANGED report
      ELSE Done(j, OK(j.nb)) /\ hw' = h
  BY <1>5, <1>7 DEF udd_ep_trans_out_next
<1>9. UNCHANGED <<dir, abort, moved, short, hostTog>>
  BY DEF udd_ep_trans_out_next
<1>10. Running /\ ~hw.stall /\ ~hw.stalled /\ ~hw.ready /\ hw.tog = hostTog
  BY <1>1, <1>2 DEF Quiet, Toggles
<1>11. job.busy /\ job.call = "trans"
  BY <1>10 DEF Running
<1>12. /\ j.busy /\ j.call = "trans" /\ j.nb = Least(job.nb + hw.count, job.size)
       /\ j.size = job.size /\ j.short = job.short /\ j.close = job.close
  BY <1>3, <1>7, <1>11 DEF JobType
<1>13. moved = job.nb + hw.count /\ (short <=> hw.count < hw.size) /\ hw.count <= hw.size
  BY <1>1, <1>2, <1>10 DEF Work, OutWork
<1>14. ~h.stall /\ ~h.stalled /\ ~h.trcpt /\ ~h.ready /\ h.tog = hostTog
  BY <1>5, <1>10 DEF Acknowledged
<1>15. /\ short \in BOOLEAN /\ j.nb \in Nat /\ j.size \in Nat /\ j.nb <= j.size
       /\ j.nb = Least(moved, job.size)
       /\ j.nb # j.size => j.nb = moved
       /\ j.nb = j.size => moved >= job.size
  BY <1>1, <1>4, <1>12, <1>13 DEF Types, Least
<1>16. CASE hw.count = hw.size /\ j.nb # j.size
  <2>1. NextTransfer(h, j) /\ report' = report
    BY <1>8, <1>16
  <2>2. j.nb < j.size /\ ~short /\ moved = j.nb
    BY <1>4, <1>13, <1>15, <1>16
  <2>3. IInv' /\ Running' /\ job'.size = j.size /\ job'.close = j.close
    BY <1>1, <1>2, <1>9, <1>12, <1>14, <1>15, <2>1, <2>2, StartedLooks
  <2>4. SameTransfer /\ SameReport
    BY <1>9, <1>10, <1>12, <2>1, <2>3 DEF SameTransfer, SameReport
  <2> QED BY <1>9, <2>3, <2>4, Unseen DEF Kept
<1>17. CASE ~(hw.count = hw.size /\ j.nb # j.size)
  <2>1. Done(j, OK(j.nb)) /\ hw' = h
    BY <1>8, <1>17
  <2>2. /\ job' \in JobType /\ ~job'.busy
        /\ report' \in ReportType /\ report'.status = "ok" /\ report'.count = j.nb
    BY <1>15, <2>1 DEF Done, OK, JobType, ReportType
  <2>3. ~Running'
    BY <2>2 DEF Running
  <2>4. Types' /\ Toggles'
    BY <1>1, <1>9, <1>14, <2>1, <2>2 DEF Types, Toggles
  <2>5. IInv'
    BY <1>14, <2>1, <2>3, <2>4, NoTransferLooks
  <2>6. moved >= job.size \/ short
    BY <1>4, <1>13, <1>15, <1>17
  <2> QED BY <1>1, <1>2, <1>9, <1>10, <1>15, <2>2, <2>3, <2>5, <2>6, Ends DEF Kept
<1> QED BY <1>16, <1>17

\* The unit is stopped.
LEMMA StopsKept ==
  ASSUME IInv, NEW halt \in BOOLEAN, AbortStops(halt)
  PROVE  Kept
<1>1. Types /\ Toggles /\ Quiet /\ Work /\ InWork /\ OutWork
  BY DEF IInv
<1>2. hw \in HwType /\ hw' = [hw EXCEPT !.stall = @ \/ halt, !.ready = FALSE]
  BY <1>1 DEF Types, AbortStops
<1>3. abort' = TRUE /\ UNCHANGED <<dir, job, moved, short, hostTog, report>>
  BY DEF AbortStops
<1>4. /\ hw' \in HwType /\ ~hw'.ready /\ (hw.stall => hw'.stall) /\ hw'.stalled = hw.stalled
      /\ hw'.trcpt = hw.trcpt /\ hw'.tog = hw.tog /\ hw'.at = hw.at /\ hw'.size = hw.size
      /\ hw'.count = hw.count
  BY <1>2 DEF HwType
<1>5. Running' <=> Running
  BY <1>3 DEF Running
<1>6. Types' /\ Toggles'
  BY <1>1, <1>3, <1>4 DEF Types, Toggles
<1>7. Quiet' /\ Work'
  BY <1>1, <1>3, <1>4, <1>5 DEF Quiet, Work
<1>8. InWork'
  BY <1>1, <1>3, <1>4, <1>5 DEF InWork, ShortEnd, Packets
<1>9. OutWork'
  BY <1>1, <1>3, <1>4, <1>5 DEF OutWork, Packets
<1>10. IInv'
  BY <1>6, <1>7, <1>8, <1>9 DEF IInv
<1>11. SameTransfer /\ SameReport
  BY <1>3, <1>5 DEF SameTransfer, SameReport
<1> QED BY <1>3, <1>10, <1>11, Unseen DEF Kept

\* No transfer runs when a halt is cleared or its end is waited for: only the report of
\* a job of its own may be taken.
LEMMA NoTransferKept ==
  ASSUME Types', Toggles', ~Running, ~Running', ~hw'.ready, ~hw'.trcpt, SameReport,
         UNCHANGED <<moved, short>>
  PROVE  Kept
<1>1. IInv'
  BY NoTransferLooks
<1>2. SameTransfer
  BY DEF SameTransfer
<1> QED BY <1>1, <1>2, Unseen DEF Kept

\* A call that tells of a halt leaves what was told of transfers.
LEMMA NohaltEffect ==
  ASSUME report \in ReportType, report' = NOHALT
  PROVE  report' \in ReportType /\ SameReport
BY DEF ReportType, NOHALT, SameReport

\* A job that is ended.
LEMMA DoneEffect ==
  ASSUME NEW r, job \in JobType, Done(job, r)
  PROVE  job' \in JobType /\ ~job'.busy /\ ~Running' /\ report' = r
BY DEF JobType, Done, Running

\* The job of a stopped unit is ended.
LEMMA AbortEndsKept ==
  ASSUME IInv, AbortEnds
  PROVE  Kept
<1>1. Types /\ Toggles /\ Quiet /\ Work
  BY DEF IInv
<1>2. hw \in HwType /\ job \in JobType /\ report \in ReportType
  BY <1>1 DEF Types
<1>3. abort /\ abort' = FALSE /\ hw' = [hw EXCEPT !.trcpt = FALSE]
      /\ UNCHANGED <<dir, moved, short, hostTog>>
  BY DEF AbortEnds
<1>4. ~hw.ready
  BY <1>1, <1>3 DEF Quiet
<1>5. Acknowledged(hw')
  BY <1>2, <1>3, AcknowledgeEffect
<1>6. hw' \in HwType /\ ~hw'.trcpt /\ ~hw'.ready /\ Toggles'
  BY <1>1, <1>3, <1>4, <1>5 DEF Acknowledged, Toggles
<1>7. CASE Running
  <2>1. Done(job, ABORT(job.nb))
    BY <1>7 DEF AbortEnds, Running
  <2>2. job' \in JobType /\ ~Running' /\ report' = ABORT(job.nb)
    BY <1>2, <2>1, DoneEffect
  <2>3. job.nb \in Nat /\ hw.count \in Nat /\ moved = job.nb + hw.count
    BY <1>1, <1>2, <1>7 DEF Work, JobType, HwType
  <2>4. report' \in ReportType /\ report'.status = "abort" /\ report'.count = job.nb
    BY <2>2, <2>3 DEF ABORT, ReportType
  <2>5. Types'
    BY <1>1, <1>3, <1>6, <2>2, <2>4 DEF Types
  <2>6. IInv'
    BY <1>6, <2>2, <2>5, NoTransferLooks
  <2>7. report'.count \in 0 .. moved
    BY <2>3, <2>4
  <2> QED BY <1>1, <1>3, <1>7, <2>2, <2>4, <2>6, <2>7, Ends DEF Kept
<1>8. CASE ~Running
  <2>1. job' \in JobType /\ ~Running' /\ report' \in ReportType /\ SameReport
    <3>1. CASE job.busy
      <4>1. Done(job, NOHALT)
        BY <1>8, <3>1 DEF AbortEnds
      <4>2. job' \in JobType /\ ~Running' /\ report' = NOHALT
        BY <1>2, <4>1, DoneEffect
      <4> QED BY <1>2, <4>2, NohaltEffect
    <3>2. CASE ~job.busy
      <4>1. job' = job /\ report' = report
        BY <3>2 DEF AbortEnds
      <4> QED BY <1>2, <1>8, <4>1 DEF Running, SameReport
    <3> QED BY <3>1, <3>2
  <2>2. Types'
    BY <1>1, <1>3, <1>6, <2>1 DEF Types
  <2> QED BY <1>3, <1>6, <1>8, <2>1, <2>2, NoTransferKept
<1> QED BY <1>7, <1>8

\* The host clears a halt it has met.
LEMMA ClearKept ==
  ASSUME HaltsMet, IInv, udd_ep_clear_halt
  PROVE  Kept
<1>1. Types /\ Toggles /\ Quiet
  BY DEF IInv
<1>2. hw \in HwType /\ job \in JobType /\ report \in ReportType
  BY <1>1 DEF Types
<1>3. ~abort /\ hw' = [hw EXCEPT !.stall = FALSE, !.stalled = FALSE, !.tog = ClearedToggle]
      /\ hostTog' = 0 /\ UNCHANGED <<dir, abort, moved, short>>
  BY DEF udd_ep_clear_halt
<1>4. hw.stalled
  BY DEF udd_ep_clear_halt, HaltsMet
<1>5. hw.stall /\ ~Running /\ ~hw.ready /\ ~hw.trcpt
  BY <1>1, <1>3, <1>4 DEF Toggles, Quiet
<1>6. ClearedToggle = 0
  BY <1>4, <1>5 DEF ClearedToggle
<1>7. /\ hw' \in HwType /\ ~hw'.ready /\ ~hw'.trcpt /\ ~hw'.stalled /\ hw'.tog = 0
  BY <1>2, <1>3, <1>5, <1>6 DEF HwType
<1>8. job' \in JobType /\ ~Running' /\ report' \in ReportType /\ SameReport
  <2>1. CASE job.busy
    <3>1. Done(job, NOHALT)
      BY <2>1 DEF udd_ep_clear_halt
    <3>2. job' \in JobType /\ ~Running' /\ report' = NOHALT
      BY <1>2, <3>1, DoneEffect
    <3> QED BY <1>2, <3>2, NohaltEffect
  <2>2. CASE ~job.busy
    <3>1. job' = job /\ report' = report
      BY <2>2 DEF udd_ep_clear_halt
    <3> QED BY <1>2, <2>2, <3>1 DEF Running, SameReport
  <2> QED BY <2>1, <2>2
<1>9. Types' /\ Toggles'
  BY <1>1, <1>3, <1>7, <1>8 DEF Types, Toggles
<1> QED BY <1>3, <1>5, <1>7, <1>8, <1>9, NoTransferKept

\* The end of a halt is waited for.
LEMMA WaitKept ==
  ASSUME IInv, udd_ep_wait_stall_clear
  PROVE  Kept
<1>1. Types /\ Toggles /\ Quiet
  BY DEF IInv
<1>2. hw \in HwType /\ job \in JobType /\ report \in ReportType
  BY <1>1 DEF Types
<1>3. ~abort /\ ~job.busy /\ UNCHANGED <<dir, hw, abort, moved, short, hostTog>>
  BY DEF udd_ep_wait_stall_clear
<1>4. ~Running /\ ~hw.ready /\ ~hw.trcpt
  BY <1>1, <1>3 DEF Running, Quiet
<1>5. job' \in JobType /\ ~Running' /\ report' \in ReportType /\ SameReport
  <2>1. CASE hw.stall
    <3>1. job' = [job EXCEPT !.busy = TRUE, !.call = "nohalt"] /\ report' = report
      BY <2>1 DEF udd_ep_wait_stall_clear
    <3>2. job' \in JobType /\ job'.call = "nohalt"
      BY <1>2, <3>1 DEF JobType
    <3> QED BY <1>2, <3>1, <3>2 DEF Running, SameReport
  <2>2. CASE ~hw.stall
    <3>1. job' = job /\ report' = NOHALT
      BY <2>2 DEF udd_ep_wait_stall_clear
    <3> QED BY <1>2, <1>4, <3>1, NohaltEffect DEF Running
  <2> QED BY <2>1, <2>2
<1>6. Types' /\ Toggles'
  BY <1>1, <1>3, <1>5 DEF Types, Toggles
<1> QED BY <1>3, <1>4, <1>5, <1>6, NoTransferKept

-----------------------------------------------------------------------------
(***************************************************************************)
(* The packets.                                                            *)
(***************************************************************************)

\* The unit moved n more bytes, and raises TRCPT at the end of the transfer.
Moved(n, ends) ==
  /\ hw' \in HwType /\ hw'.count = hw.count + n /\ hw'.ready = ~ends /\ hw'.trcpt = ends
  /\ hw'.tog = 1 - hw.tog /\ hw'.stall = hw.stall /\ hw'.stalled = hw.stalled
  /\ hw'.at = hw.at /\ hw'.size = hw.size

\* Moves, field by field.
LEMMA MovesEffect ==
  ASSUME hw \in HwType, EpSize \in Nat, NEW n \in Nat, Moves(n)
  PROVE  Moved(n, hw.count + n = hw.size \/ n < EpSize)
<1>1. PICK ends \in BOOLEAN : ends = (hw.count + n = hw.size \/ n < EpSize)
  OBVIOUS
<1>2. hw' = [hw EXCEPT !.tog = 1 - @, !.count = hw.count + n, !.ready = ~ends, !.trcpt = ends]
  BY <1>1 DEF Moves
<1>3. hw.tog \in {0, 1} /\ hw.count \in Nat
  BY DEF HwType
<1>4. 1 - hw.tog \in {0, 1} /\ hw.count + n \in Nat
  BY <1>3
<1>5. Moved(n, ends)
  BY <1>2, <1>4 DEF Moved, HwType
<1> QED BY <1>1, <1>5

\* The host reads a packet.
LEMMA PacketInKept ==
  ASSUME IInv, PacketIn
  PROVE  Kept
<1>1. Types /\ Toggles /\ Quiet /\ Work /\ InWork
  BY DEF IInv
<1>2. dir = "in" /\ hw.ready /\ ~hw.stall /\ UNCHANGED <<dir, job, abort, report>>
  BY DEF PacketIn, devVars
<1>3. hw \in HwType /\ job \in JobType
  BY <1>1 DEF Types
<1>4. Running /\ hw.tog = hostTog /\ ~hw.trcpt /\ ~abort
  BY <1>1, <1>2 DEF Quiet, Toggles
<1>5. /\ hw.at \in Nat /\ hw.size \in Nat /\ hw.count \in Nat /\ job.size \in Nat
      /\ hw.tog \in {0, 1} /\ EpSize \in Nat \ {0}
  BY <1>3, SizeAssumption DEF HwType, JobType
<1>6. /\ hw.at = job.nb /\ moved = hw.at + hw.count /\ hw.count <= hw.size
      /\ ~short /\ Packets(hw.count)
      /\ hw.at + hw.size <= job.size
      /\ hw.count < hw.size \/ hw.size = 0
  BY <1>1, <1>2, <1>4 DEF Work, InWork
<1>7. PICK n \in Nat : /\ n = Least(EpSize, hw.size - hw.count)
                       /\ n <= EpSize /\ hw.count + n <= hw.size
                       /\ n < EpSize => hw.count + n = hw.size
  <2>1. Least(EpSize, hw.size - hw.count) \in Nat
    BY <1>5, <1>6 DEF Least
  <2>2. PICK n \in Nat : n = Least(EpSize, hw.size - hw.count)
    BY <2>1
  <2>3. n <= EpSize /\ hw.count + n <= hw.size /\ (n < EpSize => hw.count + n = hw.size)
    BY <1>5, <1>6, <2>2 DEF Least
  <2> QED BY <2>2, <2>3
<1>8. Moves(n)
  BY <1>7 DEF PacketIn
<1>9. moved' = moved + n /\ short' = (n < EpSize) /\ hostTog' = 1 - hostTog
  BY <1>4, <1>6, <1>7 DEF PacketIn
<1>10. short' \in BOOLEAN /\ (short' <=> n < EpSize)
  <2>1. PICK few \in BOOLEAN : few = (n < EpSize)
    <3>1. n < EpSize \/ ~(n < EpSize)
      OBVIOUS
    <3>2. (n < EpSize) = TRUE \/ (n < EpSize) = FALSE
      BY <1>5, <3>1
    <3> QED BY <3>2
  <2>2. short' = few
    BY <1>9, <2>1
  <2> QED BY <2>1, <2>2
<1>11. PICK ends \in BOOLEAN : ends <=> hw.count + n = hw.size \/ n < EpSize
  OBVIOUS
<1>12. Moved(n, ends)
  <2>1. Moved(n, hw.count + n = hw.size \/ n < EpSize)
    BY <1>3, <1>5, <1>8, MovesEffect
  <2> QED BY <1>11, <2>1
<1>13. /\ hw' \in HwType /\ hw'.count = hw.count + n /\ (hw'.ready <=> ~ends) /\ (hw'.trcpt <=> ends)
       /\ hw'.tog = 1 - hw.tog /\ hw'.stall = hw.stall /\ hw'.stalled = hw.stalled
       /\ hw'.at = hw.at /\ hw'.size = hw.size
  BY <1>12 DEF Moved
<1>14. Running' /\ (ShortEnd' <=> ShortEnd)
  BY <1>2, <1>4, <1>13 DEF Running, ShortEnd, Packets
<1>15. ends => (short' <=> ShortEnd) /\ hw.count + n = hw.size
  <2>1. SUFFICES ASSUME ends PROVE (short' <=> ShortEnd) /\ hw.count + n = hw.size
    OBVIOUS
  <2>2. hw.size = hw.count + n
    BY <1>7, <1>11, <2>1
  <2>3. hw.size % EpSize = n % EpSize
    <3>1. (hw.count + n) % EpSize = n % EpSize
      BY <1>5, <1>6, WholeAdded DEF Packets
    <3> QED BY <2>2, <3>1
  <2>4. n = EpSize => n % EpSize = 0
    BY <1>5, SmallRest
  <2>5. n < EpSize => n % EpSize = n
    BY <1>5, SmallRest
  <2>6. CASE n = EpSize
    BY <1>5, <1>6, <1>10, <2>2, <2>3, <2>4, <2>6 DEF ShortEnd, Packets
  <2>7. CASE n < EpSize
    <3>1. n = 0 => hw.size = 0
      BY <1>5, <1>6, <2>2
    <3>2. n # 0 => ~Packets(hw.size)
      BY <1>5, <2>3, <2>5, <2>7 DEF Packets
    <3>3. n # 0 => hw.size # 0
      BY <1>5, <2>2
    <3> QED BY <1>10, <2>2, <2>7, <3>1, <3>2, <3>3 DEF ShortEnd
  <2> QED BY <1>5, <1>7, <2>2, <2>6, <2>7
<1>16. ~ends => ~short' /\ Packets(hw.count + n) /\ hw.count + n < hw.size
  <2>1. SUFFICES ASSUME ~ends PROVE ~short' /\ Packets(hw.count + n) /\ hw.count + n < hw.size
    OBVIOUS
  <2>2. n = EpSize /\ hw.count + n < hw.size
    BY <1>5, <1>7, <1>11, <2>1
  <2>3. n % EpSize = 0 /\ (hw.count + n) % EpSize = n % EpSize
    <3>1. n % EpSize = 0
      BY <1>5, <2>2, SmallRest
    <3>2. hw.count % EpSize = 0
      BY <1>6 DEF Packets
    <3> QED BY <1>5, <3>1, <3>2, WholeAdded
  <2> QED BY <1>5, <1>10, <2>2, <2>3 DEF Packets
<1>17. Types' /\ Toggles'
  BY <1>1, <1>2, <1>4, <1>5, <1>6, <1>9, <1>13, <1>10 DEF Types, Toggles
<1>18. Quiet'
  BY <1>2, <1>4, <1>13, <1>14 DEF Quiet
<1>19. Work'
  BY <1>2, <1>5, <1>6, <1>7, <1>9, <1>13, <1>16 DEF Work, Packets
<1>20. InWork'
  <2>1. hw'.at + hw'.size <= job'.size /\ (hw'.ready => hw'.count < hw'.size \/ hw'.size = 0)
    BY <1>2, <1>6, <1>13, <1>16
  <2>2. hw'.trcpt => hw'.count = hw'.size /\ (short' <=> ShortEnd')
    BY <1>13, <1>14, <1>15
  <2>3. /\ ShortEnd' => hw'.at + hw'.size = job'.size
        /\ job'.short => ~ShortEnd'
        /\ job'.close /\ ~job'.short => ShortEnd'
    BY <1>1, <1>2, <1>4, <1>13, <1>14 DEF InWork
  <2> QED BY <2>1, <2>2, <2>3 DEF InWork
<1>21. OutWork'
  BY <1>2 DEF OutWork
<1>22. SameTransfer /\ SameReport
  BY <1>2, <1>4, <1>14 DEF SameTransfer, SameReport
<1>23. /\ moved' \in moved .. moved + EpSize /\ moved' <= job.size
       /\ short' = (moved' - moved < EpSize)
  BY <1>5, <1>6, <1>7, <1>9
<1>24. IInv'
  BY <1>17, <1>18, <1>19, <1>20, <1>21 DEF IInv
<1> QED BY <1>1, <1>4, <1>6, <1>22, <1>23, <1>24, Moving DEF Kept

\* The host writes a packet.
LEMMA PacketOutKept ==
  ASSUME IInv, NEW n \in 0 .. EpSize, PacketOut(n)
  PROVE  Kept
<1>1. Types /\ Toggles /\ Quiet /\ Work /\ OutWork
  BY DEF IInv
<1>2. dir = "out" /\ hw.ready /\ ~hw.stall /\ UNCHANGED <<dir, job, abort, report>>
  BY DEF PacketOut
<1>3. hw \in HwType /\ job \in JobType
  BY <1>1 DEF Types
<1>4. Running /\ hw.tog = hostTog /\ ~hw.trcpt /\ ~abort
  BY <1>1, <1>2 DEF Quiet, Toggles
<1>5. /\ hw.at \in Nat /\ hw.size \in Nat /\ hw.count \in Nat /\ job.size \in Nat
      /\ hw.tog \in {0, 1} /\ EpSize \in Nat \ {0} /\ n \in Nat /\ n <= EpSize
  BY <1>3, SizeAssumption DEF HwType, JobType
<1>6. /\ hw.at = job.nb /\ moved = hw.at + hw.count /\ hw.count < hw.size
      /\ ~short /\ Packets(hw.count) /\ Packets(hw.size) /\ job.nb < job.size
  BY <1>1, <1>2, <1>4 DEF Work, OutWork
<1>7. hw.count + EpSize <= hw.size
  <2>1. hw.size - hw.count >= EpSize
    BY <1>5, <1>6, WholeGap DEF Packets
  <2> QED BY <1>5, <2>1
<1>8. Moves(n) /\ moved' = moved + n /\ short' = (n < EpSize) /\ hostTog' = 1 - hostTog
  BY <1>4 DEF PacketOut
<1>9. short' \in BOOLEAN /\ (short' <=> n < EpSize)
  <2>1. PICK few \in BOOLEAN : few = (n < EpSize)
    <3>1. n < EpSize \/ ~(n < EpSize)
      OBVIOUS
    <3>2. (n < EpSize) = TRUE \/ (n < EpSize) = FALSE
      BY <1>5, <3>1
    <3> QED BY <3>2
  <2>2. short' = few
    BY <1>8, <2>1
  <2> QED BY <2>1, <2>2
<1>10. PICK ends \in BOOLEAN : ends <=> hw.count + n = hw.size \/ n < EpSize
  OBVIOUS
<1>11. Moved(n, ends)
  <2>1. Moved(n, hw.count + n = hw.size \/ n < EpSize)
    BY <1>3, <1>5, <1>8, MovesEffect
  <2> QED BY <1>10, <2>1
<1>12. /\ hw' \in HwType /\ hw'.count = hw.count + n /\ (hw'.ready <=> ~ends) /\ (hw'.trcpt <=> ends)
       /\ hw'.tog = 1 - hw.tog /\ hw'.stall = hw.stall /\ hw'.stalled = hw.stalled
       /\ hw'.at = hw.at /\ hw'.size = hw.size
  BY <1>11 DEF Moved
<1>13. Running'
  BY <1>2, <1>4 DEF Running
<1>14. ends => (short' <=> hw.count + n < hw.size)
  BY <1>5, <1>7, <1>10, <1>9
<1>15. ~ends => ~short' /\ Packets(hw.count + n) /\ hw.count + n < hw.size
  <2>1. SUFFICES ASSUME ~ends PROVE ~short' /\ Packets(hw.count + n) /\ hw.count + n < hw.size
    OBVIOUS
  <2>2. n = EpSize /\ hw.count + n < hw.size
    BY <1>5, <1>7, <1>10, <2>1
  <2>3. n % EpSize = 0 /\ (hw.count + n) % EpSize = n % EpSize
    <3>1. n % EpSize = 0
      BY <1>5, <2>2, SmallRest
    <3>2. hw.count % EpSize = 0
      BY <1>6 DEF Packets
    <3> QED BY <1>5, <3>1, <3>2, WholeAdded
  <2> QED BY <1>5, <1>9, <2>2, <2>3 DEF Packets
<1>16. Types' /\ Toggles'
  BY <1>1, <1>2, <1>4, <1>5, <1>6, <1>8, <1>12, <1>9 DEF Types, Toggles
<1>17. Quiet'
  BY <1>2, <1>4, <1>12, <1>13 DEF Quiet
<1>18. Work'
  BY <1>2, <1>5, <1>6, <1>7, <1>8, <1>12, <1>15 DEF Work, Packets
<1>19. OutWork'
  BY <1>2, <1>6, <1>5, <1>12, <1>14, <1>15 DEF OutWork, Packets
<1>20. InWork'
  BY <1>2 DEF InWork
<1>21. SameTransfer /\ SameReport
  BY <1>2, <1>4, <1>13 DEF SameTransfer, SameReport
<1>22. moved' \in moved .. moved + EpSize /\ short' = (moved' - moved < EpSize)
  BY <1>5, <1>6, <1>8
<1>23. IInv'
  BY <1>16, <1>17, <1>18, <1>19, <1>20 DEF IInv
<1> QED BY <1>1, <1>2, <1>4, <1>6, <1>21, <1>22, <1>23, Moving DEF Kept

\* The unit answers STALL, or the handler clears the flag of it.
LEMMA StallKept ==
  ASSUME IInv, Stall \/ StallSeen
  PROVE  Kept
<1>1. Types /\ Toggles /\ Quiet /\ Work /\ InWork /\ OutWork
  BY DEF IInv
<1>2. PICK flag \in BOOLEAN :
        /\ hw' = [hw EXCEPT !.stalled = flag] /\ (flag => hw.stall)
        /\ UNCHANGED <<dir, job, abort, report, moved, short, hostTog>>
  BY DEF Stall, StallSeen, devVars
<1>3. /\ hw' \in HwType /\ hw'.ready = hw.ready /\ hw'.stall = hw.stall /\ hw'.trcpt = hw.trcpt
      /\ hw'.tog = hw.tog /\ hw'.at = hw.at /\ hw'.size = hw.size /\ hw'.count = hw.count
      /\ hw'.stalled = flag
  BY <1>1, <1>2 DEF Types, HwType
<1>4. Running' <=> Running
  BY <1>2 DEF Running
<1>5. Types' /\ Toggles'
  BY <1>1, <1>2, <1>3 DEF Types, Toggles
<1>6. Quiet' /\ Work'
  BY <1>1, <1>2, <1>3, <1>4 DEF Quiet, Work, Packets
<1>7. InWork'
  BY <1>1, <1>2, <1>3, <1>4 DEF InWork, ShortEnd, Packets
<1>8. OutWork'
  BY <1>1, <1>2, <1>3, <1>4 DEF OutWork, Packets
<1>9. SameTransfer /\ SameReport
  BY <1>2, <1>4 DEF SameTransfer, SameReport
<1>10. IInv'
  BY <1>5, <1>6, <1>7, <1>8 DEF IInv
<1> QED BY <1>2, <1>9, <1>10, Unseen DEF Kept

-----------------------------------------------------------------------------
(***************************************************************************)
(* The inductive invariant.                                                *)
(***************************************************************************)

\* A new endpoint.
LEMMA InitIInv ==
  ASSUME EpInit
  PROVE  IInv
<1>1. /\ hw.ready = FALSE /\ hw.trcpt = FALSE /\ hw.stalled = FALSE /\ hw.tog = hostTog
      /\ job.busy = FALSE
  BY DEF EpInit
<1>2. Types
  <2>1. job \in JobType
    BY DEF EpInit, JobType
  <2>2. hw \in HwType
    BY DEF EpInit, HwType
  <2>3. report \in ReportType
    BY DEF EpInit, ReportType
  <2>4. dir \in {"in", "out"} /\ moved = 0 /\ hostTog = 0
    BY DEF EpInit
  <2>5. abort \in BOOLEAN /\ short \in BOOLEAN
    BY Zenon DEF EpInit
  <2> QED BY <2>1, <2>2, <2>3, <2>4, <2>5 DEF Types
<1> QED BY <1>1, <1>2 DEF IInv, Toggles, Quiet, Work, InWork, OutWork, Running

\* Every step keeps the invariant and the promise of udd_ep_run.
LEMMA StepIInv ==
  ASSUME HaltsMet, IInv, [EpNext]_epVars
  PROVE  Kept
<1>1. CASE Device
  BY <1>1, RunKept, InNextKept, OutNextKept, StopsKept, AbortEndsKept, ClearKept,
     WaitKept, StallKept DEF Device
<1>2. CASE Unit
  BY <1>2, PacketInKept, PacketOutKept, StallKept DEF Unit
<1>3. CASE UNCHANGED epVars
  <2>1. UNCHANGED <<dir, job, hw, abort, moved, short, hostTog, report>>
    BY <1>3 DEF epVars
  <2>2. Running' <=> Running
    BY <2>1 DEF Running
  <2>3. Types' /\ Toggles' /\ Quiet' /\ Work'
    BY <2>1, <2>2 DEF IInv, Types, Toggles, Quiet, Work, Packets
  <2>4. InWork' /\ OutWork'
    BY <2>1, <2>2 DEF IInv, InWork, OutWork, ShortEnd, Packets
  <2>5. SameTransfer /\ SameReport
    BY <2>1, <2>2 DEF SameTransfer, SameReport
  <2> QED BY <2>1, <2>3, <2>4, <2>5, Unseen DEF Kept, IInv
<1> QED BY <1>1, <1>2, <1>3 DEF EpNext

\* The invariant holds at all times.
LEMMA AlwaysIInv ==
  ASSUME HaltsMet
  PROVE  EpSpec => []IInv
<1>1. EpInit => IInv
  BY InitIInv
<1>2. IInv /\ [EpNext]_epVars => IInv'
  BY StepIInv DEF Kept
<1> QED BY <1>1, <1>2, PTL DEF EpSpec

-----------------------------------------------------------------------------
(***************************************************************************)
(* The bytes of an OUT job.                                                *)
(***************************************************************************)
Places == 0 .. MaxSize - 1
BufferType == buf \in [Places -> Int] /\ cache \in [0 .. EpSize - 1 -> Int]

\* Nothing is written behind the buffer of the job.
Behind == dir = "out" =>
  job.size <= MaxSize /\ \A i \in Places : i >= job.size => buf[i] = NoByte

InOrder(n) == \A i \in Places : i < n => buf[i] = i

\* A job is received in place until less than a packet of room is left, and that through
\* the cache.
Receiving == Running /\ dir = "out" =>
  /\ Packets(job.nb)
  /\ ~job.cached => hw.at + hw.size <= job.size /\ InOrder(job.nb + hw.count)
  /\ job.cached =>
       /\ hw.size = EpSize /\ job.size - job.nb < EpSize /\ InOrder(job.nb)
       /\ \A i \in 0 .. EpSize - 1 : i < hw.count => cache[i] = job.nb + i

Received ==
  dir = "out" /\ report.as = "trans" /\ report.status = "ok" /\ ~job.busy
    => report.count <= MaxSize /\ InOrder(report.count)

Bytes == BufferType /\ Behind /\ Receiving /\ Received

\* The largest buffer.
LEMMA Largest == MaxSize \in Nat /\ \A n \in Sizes : n <= MaxSize
<1>1. \E n \in Sizes : \A m \in Sizes : m <= n
  BY SizeAssumption
<1>2. MaxSize \in Sizes /\ \A m \in Sizes : m <= MaxSize
  BY <1>1 DEF MaxSize
<1> QED BY <1>2, SizeAssumption

\* An IN endpoint has no bytes to keep.
LEMMA InBytes ==
  ASSUME dir' # "out", BufferType'
  PROVE  Bytes'
BY DEF Bytes, Behind, Receiving, Received

\* A step that moves no byte and ends no transfer well.
LEMMA SameBytes ==
  ASSUME Bytes, UNCHANGED <<dir, buf, cache>>, job'.size = job.size,
         Running' => /\ Running /\ job'.nb = job.nb /\ job'.cached = job.cached
                     /\ hw'.at = hw.at /\ hw'.size = hw.size /\ hw'.count = hw.count,
         \/ job'.busy = job.busy /\ report' = report
         \/ job'.busy \/ report'.as # "trans" \/ report'.status # "ok"
  PROVE  Bytes'
<1>1. BufferType'
  BY DEF Bytes, BufferType, Places
<1>2. Behind'
  BY DEF Bytes, Behind, Places
<1>3. Receiving'
  <2>1. SUFFICES ASSUME Running', dir = "out" PROVE Receiving'
    BY DEF Receiving
  <2> QED BY <2>1 DEF Bytes, Receiving, InOrder, Places, Packets
<1>4. Received'
  BY DEF Bytes, Received, InOrder, Places
<1> QED BY <1>1, <1>2, <1>3, <1>4 DEF Bytes

\* A transfer that starts when the bytes before it are in place.
LEMMA StartedBytes ==
  ASSUME Types, NEW h \in HwType, NEW j \in JobType, dir = "out", dir' = dir,
         j.nb < j.size, j.size <= MaxSize, j.busy, ~j.cached, Packets(j.nb), NextTransfer(h, j),
         BufferType', InOrder(j.nb)',
         \A i \in Places : i >= j.size => buf'[i] = NoByte
  PROVE  Bytes'
<1>1. PICK n \in Nat : Started(h, j, n)
  <2>1. \E n \in Nat : Started(h, j, n)
    BY NextEffect
  <2> QED BY <2>1
<1>2. /\ hw'.at = j.nb /\ hw'.size = n /\ hw'.count = 0
      /\ job'.busy = j.busy /\ job'.size = j.size /\ job'.nb = j.nb
      /\ j.size - j.nb < EpSize => n = EpSize /\ job'.cached
      /\ j.size - j.nb >= EpSize => n <= j.size - j.nb /\ (job'.cached <=> j.cached)
  BY <1>1 DEF Started, Given, SameJob
<1>3. j.nb \in Nat /\ j.size \in Nat /\ EpSize \in Nat
  BY SizeAssumption DEF JobType
<1>4. Behind'
  BY <1>2 DEF Behind, Places
<1>5. Receiving'
  <2>1. Packets(job.nb)'
    BY <1>2 DEF Packets
  <2>2. InOrder(job.nb)' /\ InOrder(job.nb + hw.count)'
    BY <1>2, <1>3 DEF InOrder, Places
  <2>3. ~job'.cached => hw'.at + hw'.size <= job'.size
    BY <1>2, <1>3
  <2>4. job'.cached => hw'.size = EpSize /\ job'.size - job'.nb < EpSize
    BY <1>2, <1>3
  <2>5. \A i \in 0 .. EpSize - 1 : ~(i < hw'.count)
    BY <1>2
  <2> QED BY <2>1, <2>2, <2>3, <2>4, <2>5 DEF Receiving
<1>6. Received'
  BY <1>2 DEF Received
<1> QED BY <1>4, <1>5, <1>6 DEF Bytes

\* A job starts with a buffer of no bytes.
LEMMA RunBytes ==
  ASSUME IInv, Bytes, NEW size \in Sizes, NEW close \in BOOLEAN, udd_ep_run(size, close)
  PROVE  Bytes'
<1>1. BufferType /\ Types
  BY DEF IInv, Bytes
<1>2. size \in Nat /\ size <= MaxSize /\ MaxSize \in Nat
  BY Largest, SizeAssumption
<1>3. PICK j \in JobType : j = [busy |-> TRUE, call |-> "trans", size |-> size, nb |-> 0,
                                short |-> close, close |-> close, cached |-> FALSE]
  BY <1>2 DEF JobType
<1>4. /\ ~job.busy
      /\ CASE size > 0 -> NextTransfer(hw, j) /\ UNCHANGED report
           [] size = 0 /\ dir = "in" /\ close ->
                BufferJob(hw, 0, 0) /\ job' = [j EXCEPT !.short = FALSE] /\ UNCHANGED report
           [] OTHER -> Done(j, OK(0)) /\ UNCHANGED hw
  BY <1>3 DEF udd_ep_run
<1>5. dir' = dir /\ cache' = cache /\ buf' = [i \in DOMAIN buf |-> NoByte]
  BY DEF udd_ep_run
<1>6. BufferType' /\ \A i \in Places : buf'[i] = NoByte
  BY <1>1, <1>5 DEF BufferType, Places, NoByte
<1>7. CASE dir # "out"
  BY <1>5, <1>6, <1>7, InBytes
<1>8. CASE dir = "out" /\ size > 0
  <2>1. NextTransfer(hw, j)
    BY <1>4, <1>8
  <2>2. j.nb = 0 /\ j.size = size /\ j.busy /\ ~j.cached
    BY <1>3
  <2>3. Packets(j.nb)
    BY <2>2, SmallRest, SizeAssumption DEF Packets
  <2>4. InOrder(j.nb)'
    BY <2>2 DEF InOrder, Places
  <2>5. hw \in HwType
    BY <1>1 DEF Types
  <2> QED BY <1>1, <1>2, <1>5, <1>6, <1>8, <2>1, <2>2, <2>3, <2>4, <2>5, StartedBytes
<1>9. CASE dir = "out" /\ ~(size > 0)
  <2>1. Done(j, OK(0))
    BY <1>4, <1>9
  <2>2. ~job'.busy /\ job'.size = 0 /\ report'.count = 0
    BY <1>2, <1>3, <1>9, <2>1 DEF Done, OK
  <2>3. Behind' /\ Receiving'
    BY <1>2, <1>6, <2>2 DEF Behind, Receiving, Running, Places
  <2>4. Received'
    BY <1>2, <2>2 DEF Received, InOrder, Places
  <2> QED BY <1>6, <2>3, <2>4 DEF Bytes
<1> QED BY <1>7, <1>8, <1>9

\* The last bytes of a job are copied to where they belong.
LEMMA CopyEffect ==
  ASSUME IInv, Bytes, dir = "out", Running, job.cached
  PROVE  /\ CopyCache(buf) \in [Places -> Int]
         /\ \A i \in Places : i < job.nb + hw.count /\ i < job.size => CopyCache(buf)[i] = i
         /\ \A i \in Places : i >= job.size => CopyCache(buf)[i] = buf[i]
<1>1. BufferType /\ Packets(job.nb) /\ InOrder(job.nb) /\ job.size - job.nb < EpSize
      /\ \A i \in 0 .. EpSize - 1 : i < hw.count => cache[i] = job.nb + i
  BY DEF Bytes, Receiving
<1>2. /\ job.nb \in Nat /\ job.size \in Nat /\ job.nb < job.size /\ EpSize \in Nat \ {0}
      /\ hw.count \in Nat
  BY SizeAssumption DEF IInv, Types, JobType, HwType, OutWork
<1>3. PICK left \in Nat : left = job.size - job.nb /\ left < EpSize
  BY <1>1, <1>2
<1>4. job.size % EpSize = left
  <2>1. (job.nb + left) % EpSize = left % EpSize
    BY <1>1, <1>2, WholeAdded DEF Packets
  <2>2. left % EpSize = left
    BY <1>2, <1>3, SmallRest
  <2>3. job.size = job.nb + left
    BY <1>2, <1>3
  <2> QED BY <2>1, <2>2, <2>3
<1>5. CopyCache(buf) = [i \in Places |-> IF i \in job.nb .. job.nb + left - 1
                                         THEN cache[i - job.nb] ELSE buf[i]]
  BY <1>1, <1>4 DEF CopyCache, BufferType
<1>6. ASSUME NEW i \in Places, i >= job.nb, i < job.size
      PROVE  i \in job.nb .. job.nb + left - 1 /\ i - job.nb \in 0 .. EpSize - 1
  BY <1>2, <1>3, <1>6 DEF Places
<1>7. ASSUME NEW i \in Places
      PROVE  CopyCache(buf)[i] \in Int
  <2>1. CASE i \in job.nb .. job.nb + left - 1
    <3>1. i - job.nb \in 0 .. EpSize - 1
      BY <1>2, <1>3, <2>1
    <3> QED BY <1>1, <1>5, <2>1, <3>1 DEF BufferType
  <2>2. CASE ~(i \in job.nb .. job.nb + left - 1)
    BY <1>1, <1>5, <2>2 DEF BufferType
  <2> QED BY <2>1, <2>2
<1>8. ASSUME NEW i \in Places, i < job.nb + hw.count, i < job.size
      PROVE  CopyCache(buf)[i] = i
  <2>1. CASE i < job.nb
    BY <1>1, <1>2, <1>5, <2>1 DEF InOrder, Places
  <2>2. CASE i >= job.nb
    <3>1. cache[i - job.nb] = job.nb + (i - job.nb)
      BY <1>1, <1>2, <1>6, <1>8, <2>2 DEF Places
    <3> QED BY <1>2, <1>5, <1>6, <1>8, <2>2, <3>1 DEF Places
  <2> QED BY <1>2, <2>1, <2>2 DEF Places
<1>9. ASSUME NEW i \in Places, i >= job.size
      PROVE  CopyCache(buf)[i] = buf[i]
  BY <1>2, <1>3, <1>5, <1>9 DEF Places
<1> QED BY <1>5, <1>7, <1>8, <1>9

\* A transfer of an OUT job has ended.
LEMMA OutNextBytes ==
  ASSUME IInv, Bytes, udd_ep_trans_out_next
  PROVE  Bytes'
<1>1. dir = "out" /\ hw.trcpt /\ dir' = dir /\ cache' = cache
  BY DEF udd_ep_trans_out_next
<1>2. Types /\ Quiet /\ Work /\ OutWork /\ BufferType /\ Behind /\ Receiving
  BY DEF IInv, Bytes
<1>3. hw \in HwType /\ job \in JobType
  BY <1>2 DEF Types
<1>4. /\ hw.size \in Nat /\ hw.count \in Nat /\ job.nb \in Nat /\ job.size \in Nat
      /\ EpSize \in Nat \ {0}
  BY <1>3, SizeAssumption DEF HwType, JobType
<1>5. Running /\ job.busy
  BY <1>1, <1>2 DEF Quiet, Running
<1>6. hw.at = job.nb /\ Packets(hw.size) /\ Packets(job.nb) /\ job.size <= MaxSize
      /\ \A i \in Places : i >= job.size => buf[i] = NoByte
  BY <1>1, <1>2, <1>5 DEF Work, OutWork, Receiving, Behind
<1>7. /\ buf' \in [Places -> Int]
      /\ \A i \in Places : i < job.nb + hw.count /\ i < job.size => buf'[i] = i
      /\ \A i \in Places : i >= job.size => buf'[i] = NoByte
  <2>1. CASE job.cached
    <3>1. buf' = CopyCache(buf)
      BY <2>1 DEF udd_ep_trans_out_next
    <3> QED BY <1>1, <1>5, <1>6, <2>1, <3>1, CopyEffect
  <2>2. CASE ~job.cached
    <3>1. buf' = buf
      BY <2>2 DEF udd_ep_trans_out_next
    <3>2. InOrder(job.nb + hw.count)
      BY <1>1, <1>2, <1>5, <2>2 DEF Receiving
    <3> QED BY <1>2, <1>6, <3>1, <3>2 DEF InOrder, BufferType
  <2> QED BY <2>1, <2>2
<1>8. PICK h \in HwType : h = [hw EXCEPT !.trcpt = FALSE]
  <2>1. Acknowledged([hw EXCEPT !.trcpt = FALSE])
    BY <1>3, AcknowledgeEffect
  <2> QED BY <2>1 DEF Acknowledged
<1>9. PICK j \in JobType : j = [job EXCEPT !.nb = Least(@ + hw.count, job.size)]
  <2>1. Least(job.nb + hw.count, job.size) \in Nat
    BY <1>4 DEF Least
  <2>2. [job EXCEPT !.nb = Least(@ + hw.count, job.size)] \in JobType
    BY <1>3, <2>1 DEF JobType
  <2> QED BY <2>2
<1>10. IF hw.count = hw.size /\ j.nb # j.size THEN NextTransfer(h, j) /\ UNCHANGED report
       ELSE Done(j, OK(j.nb)) /\ hw' = h
  BY <1>8, <1>9 DEF udd_ep_trans_out_next
<1>11. /\ j.busy /\ j.size = job.size /\ (j.cached <=> job.cached)
       /\ j.nb = Least(job.nb + hw.count, job.size) /\ j.nb \in Nat
  BY <1>3, <1>5, <1>9 DEF JobType
<1>12. j.nb <= job.nb + hw.count /\ j.nb <= job.size
       /\ (j.nb # job.size => j.nb = job.nb + hw.count /\ j.nb < job.size)
  BY <1>4, <1>11 DEF Least
<1>13. InOrder(j.nb)'
  BY <1>4, <1>7, <1>11, <1>12 DEF InOrder, Places
<1>14. BufferType'
  BY <1>1, <1>2, <1>7 DEF BufferType, Places
<1>15. CASE hw.count = hw.size /\ j.nb # j.size
  <2>1. NextTransfer(h, j)
    BY <1>10, <1>15
  <2>2. j.nb = job.nb + hw.size /\ j.nb < j.size
    BY <1>11, <1>12, <1>15
  <2>3. ~job.cached
    <3>1. job.cached => hw.size = EpSize /\ job.size - job.nb < EpSize
      BY <1>1, <1>2, <1>5 DEF Receiving
    <3> QED BY <1>4, <1>11, <2>2, <3>1
  <2>4. Packets(j.nb)
    <3>1. (job.nb + hw.size) % EpSize = 0
      BY <1>4, <1>6, WholeAdded DEF Packets
    <3> QED BY <2>2, <3>1 DEF Packets
  <2> QED BY <1>1, <1>2, <1>6, <1>7, <1>11, <1>13, <1>14, <2>1, <2>2, <2>3, <2>4, StartedBytes
<1>16. CASE ~(hw.count = hw.size /\ j.nb # j.size)
  <2>1. Done(j, OK(j.nb))
    BY <1>10, <1>16
  <2>2. ~job'.busy /\ job'.size = job.size /\ report'.count = j.nb
    BY <1>11, <2>1 DEF Done, OK, JobType
  <2>3. Behind' /\ Receiving'
    BY <1>6, <1>7, <2>2 DEF Behind, Receiving, Running, Places
  <2>4. Received'
    <3>1. MaxSize \in Nat
      BY Largest
    <3>2. j.nb <= MaxSize
      BY <1>4, <1>6, <1>11, <1>12, <3>1
    <3> QED BY <1>13, <2>2, <3>2 DEF Received, InOrder, Places
  <2> QED BY <1>14, <2>3, <2>4 DEF Bytes
<1> QED BY <1>15, <1>16

\* A packet is written to the buffer or to the cache.
LEMMA PacketOutBytes ==
  ASSUME IInv, Bytes, NEW n \in 0 .. EpSize, PacketOut(n)
  PROVE  Bytes'
<1>1. Types /\ Toggles /\ Quiet /\ Work /\ OutWork /\ BufferType /\ Behind /\ Receiving
  BY DEF IInv, Bytes
<1>2. dir = "out" /\ hw.ready /\ UNCHANGED <<dir, job, abort, report>>
  BY DEF PacketOut
<1>3. hw \in HwType /\ job \in JobType
  BY <1>1 DEF Types
<1>4. Running /\ job.busy /\ hw.tog = hostTog
  BY <1>1, <1>2 DEF Quiet, Toggles, Running
<1>5. /\ hw.at \in Nat /\ hw.size \in Nat /\ hw.count \in Nat /\ job.size \in Nat /\ job.nb \in Nat
      /\ EpSize \in Nat \ {0} /\ n \in Nat /\ n <= EpSize /\ MaxSize \in Nat
  BY <1>3, Largest, SizeAssumption DEF HwType, JobType
<1>6. /\ hw.at = job.nb /\ moved = hw.at + hw.count /\ hw.count < hw.size
      /\ Packets(hw.count) /\ Packets(hw.size) /\ Packets(job.nb) /\ job.size <= MaxSize
  BY <1>1, <1>2, <1>4 DEF Work, OutWork, Receiving, Behind
<1>7. hw.count + EpSize <= hw.size
  <2>1. hw.size - hw.count >= EpSize
    BY <1>5, <1>6, WholeGap DEF Packets
  <2> QED BY <1>5, <2>1
<1>8. Moved(n, hw.count + n = hw.size \/ n < EpSize)
  <2>1. Moves(n)
    BY <1>4 DEF PacketOut
  <2> QED BY <1>3, <1>5, <2>1, MovesEffect
<1>9. hw'.count = hw.count + n /\ hw'.at = hw.at /\ hw'.size = hw.size
  BY <1>8 DEF Moved
<1>10. Received'
  BY <1>2, <1>4 DEF Received
<1>11. CASE job.cached
  <2>1. buf' = buf /\ cache' = [i \in DOMAIN cache |-> IF i < n THEN moved + i ELSE cache[i]]
    BY <1>4, <1>11 DEF PacketOut
  <2>2. /\ hw.size = EpSize /\ job.size - job.nb < EpSize /\ InOrder(job.nb)
        /\ \A i \in 0 .. EpSize - 1 : i < hw.count => cache[i] = job.nb + i
    BY <1>1, <1>2, <1>4, <1>11 DEF Receiving
  <2>3. hw.count = 0
    BY <1>5, <1>7, <2>2
  <2>4. \A i \in 0 .. EpSize - 1 : cache'[i] = IF i < n THEN job.nb + i ELSE cache[i]
    BY <1>1, <1>5, <1>6, <2>1, <2>3 DEF BufferType
  <2>5. BufferType'
    <3>1. DOMAIN cache = 0 .. EpSize - 1
      BY <1>1 DEF BufferType
    <3>2. \A i \in 0 .. EpSize - 1 : (IF i < n THEN moved + i ELSE cache[i]) \in Int
      BY <1>1, <1>5, <1>6 DEF BufferType
    <3>3. cache' \in [0 .. EpSize - 1 -> Int]
      BY <2>1, <3>1, <3>2
    <3> QED BY <1>1, <2>1, <3>3 DEF BufferType, Places
  <2>6. Behind'
    BY <1>1, <1>2, <2>1 DEF Behind, Places
  <2>7. Receiving'
    <3>1. InOrder(job.nb)' /\ Packets(job.nb)'
      BY <1>2, <1>6, <2>1, <2>2 DEF InOrder, Packets, Places
    <3>2. \A i \in 0 .. EpSize - 1 : i < hw'.count => cache'[i] = job'.nb + i
      BY <1>2, <1>5, <1>9, <2>3, <2>4
    <3> QED BY <1>2, <1>9, <1>11, <2>2, <3>1, <3>2 DEF Receiving
  <2> QED BY <1>10, <2>5, <2>6, <2>7 DEF Bytes
<1>12. CASE ~job.cached
  <2>1. PICK from \in Nat : from = hw.at + hw.count
    BY <1>5
  <2>2. cache' = cache
    BY <1>4, <1>12 DEF PacketOut
  <2>3. buf' = [i \in DOMAIN buf |-> IF i \in from .. from + n - 1 THEN moved + (i - from) ELSE buf[i]]
    BY <1>4, <1>12, <2>1 DEF PacketOut
  <2>4. hw.at + hw.size <= job.size /\ InOrder(from)
    BY <1>1, <1>2, <1>4, <1>6, <1>12, <2>1 DEF Receiving
  <2>5. moved = from /\ from + n <= job.size
    BY <1>5, <1>6, <1>7, <2>1, <2>4
  <2>6. \A i \in Places : buf'[i] = IF i \in from .. from + n - 1 THEN i ELSE buf[i]
    BY <1>1, <1>5, <2>1, <2>3, <2>5 DEF BufferType, Places
  <2>7. BufferType'
    <3>1. DOMAIN buf = Places
      BY <1>1 DEF BufferType
    <3>2. \A i \in Places : (IF i \in from .. from + n - 1 THEN moved + (i - from) ELSE buf[i]) \in Int
      BY SMTT(20), <1>1, <1>5, <2>1, <2>5 DEF BufferType, Places
    <3>3. buf' \in [Places -> Int]
      BY <2>3, <3>1, <3>2
    <3> QED BY <1>1, <2>2, <3>3 DEF BufferType, Places
  <2>8. Behind'
    <3>1. \A i \in Places : i >= job.size => buf'[i] = NoByte
      <4>1. SUFFICES ASSUME NEW i \in Places, i >= job.size PROVE buf'[i] = NoByte
        OBVIOUS
      <4>2. ~(i \in from .. from + n - 1)
        BY <1>5, <2>5, <4>1 DEF Places
      <4>3. buf[i] = NoByte
        BY <1>1, <1>2, <4>1 DEF Behind
      <4> QED BY <2>6, <4>2, <4>3
    <3> QED BY <1>2, <1>6, <3>1 DEF Behind, Places
  <2>9. Receiving'
    <3>1. InOrder(from + n)'
      <4>1. SUFFICES ASSUME NEW i \in Places, i < from + n PROVE buf'[i] = i
        BY <1>5 DEF InOrder, Places
      <4>2. CASE i < from
        BY <1>5, <2>1, <2>4, <2>6, <4>2 DEF InOrder, Places
      <4>3. CASE i >= from
        <5>1. i \in from .. from + n - 1
          BY <1>5, <2>1, <4>1, <4>3 DEF Places
        <5> QED BY <2>6, <5>1
      <4> QED BY <2>1, <4>2, <4>3 DEF Places
    <3>2. job'.nb + hw'.count = from + n
      BY <1>2, <1>5, <1>6, <1>9, <2>1
    <3>3. InOrder(job.nb + hw.count)'
      BY <3>1, <3>2 DEF InOrder
    <3>4. Packets(job.nb)'
      BY <1>2, <1>6 DEF Packets
    <3> QED BY <1>2, <1>9, <1>12, <2>4, <3>3, <3>4 DEF Receiving
  <2> QED BY <1>10, <2>7, <2>8, <2>9 DEF Bytes
<1> QED BY <1>11, <1>12

\* Steps that move no byte of the buffer.
LEMMA OtherBytes ==
  ASSUME IInv, Bytes,
         \/ udd_ep_trans_in_next \/ (\E halt \in BOOLEAN : AbortStops(halt)) \/ AbortEnds
         \/ udd_ep_clear_halt \/ udd_ep_wait_stall_clear \/ PacketIn \/ Stall \/ StallSeen
         \/ UNCHANGED epVars
  PROVE  Bytes'
<1>1. hw \in HwType /\ job \in JobType /\ report \in ReportType
  BY DEF IInv, Types
<1>2. UNCHANGED <<dir, buf, cache>>
  BY DEF udd_ep_trans_in_next, AbortStops, AbortEnds, udd_ep_clear_halt, udd_ep_wait_stall_clear,
         PacketIn, Stall, StallSeen, devVars, epVars
<1>3. CASE dir = "in"
  BY <1>2, <1>3, InBytes DEF Bytes, BufferType, Places
<1>4. CASE udd_ep_trans_in_next \/ PacketIn
  BY <1>3, <1>4 DEF udd_ep_trans_in_next, PacketIn
<1>5. ASSUME NEW halt \in BOOLEAN, AbortStops(halt) PROVE Bytes'
  <2>1. hw' = [hw EXCEPT !.stall = @ \/ halt, !.ready = FALSE] /\ job' = job /\ report' = report
    BY <1>5 DEF AbortStops
  <2>2. hw'.at = hw.at /\ hw'.size = hw.size /\ hw'.count = hw.count /\ (Running' <=> Running)
    BY <1>1, <2>1 DEF HwType, Running
  <2> QED BY <1>2, <2>1, <2>2, SameBytes
<1>6. CASE Stall \/ StallSeen \/ UNCHANGED epVars
  <2>1. job' = job /\ report' = report
    BY <1>6 DEF Stall, StallSeen, devVars, epVars
  <2>2. hw' = hw \/ \E flag \in BOOLEAN : hw' = [hw EXCEPT !.stalled = flag]
    BY <1>6 DEF Stall, StallSeen, epVars
  <2>3. hw'.at = hw.at /\ hw'.size = hw.size /\ hw'.count = hw.count /\ (Running' <=> Running)
    BY <1>1, <2>1, <2>2 DEF HwType, Running
  <2> QED BY <1>2, <2>1, <2>3, SameBytes
<1>7. CASE AbortEnds \/ udd_ep_clear_halt
  <2>1. CASE job.busy
    <3>1. PICK r : Done(job, r) /\ (r = ABORT(job.nb) \/ r = NOHALT)
      BY <1>7, <2>1 DEF AbortEnds, udd_ep_clear_halt
    <3>2. ~Running' /\ report' = r /\ job'.size = job.size
      BY <1>1, <3>1 DEF Done, Running, JobType
    <3>3. report'.as # "trans" \/ report'.status # "ok"
      BY <1>1, <3>1, <3>2 DEF ABORT, NOHALT, ReportType
    <3> QED BY <1>2, <3>2, <3>3, SameBytes
  <2>2. CASE ~job.busy
    <3>1. job' = job /\ report' = report
      BY <1>7, <2>2 DEF AbortEnds, udd_ep_clear_halt
    <3> QED BY <1>2, <2>2, <3>1, SameBytes DEF Running
  <2> QED BY <2>1, <2>2
<1>8. CASE udd_ep_wait_stall_clear
  <2>1. CASE hw.stall
    <3>1. job' = [job EXCEPT !.busy = TRUE, !.call = "nohalt"]
      BY <1>8, <2>1 DEF udd_ep_wait_stall_clear
    <3>2. ~Running' /\ job'.busy /\ job'.size = job.size
      BY <1>1, <3>1 DEF Running, JobType
    <3> QED BY <1>2, <3>2, SameBytes
  <2>2. CASE ~hw.stall
    <3>1. job' = job /\ ~job.busy /\ report' = NOHALT
      BY <1>8, <2>2 DEF udd_ep_wait_stall_clear
    <3>2. ~Running' /\ report'.as # "trans"
      BY <1>1, <3>1 DEF Running, NOHALT, ReportType
    <3> QED BY <1>2, <3>1, <3>2, SameBytes
  <2> QED BY <2>1, <2>2
<1> QED BY <1>3, <1>4, <1>5, <1>6, <1>7, <1>8

\* No byte is there at first.
LEMMA InitBytes ==
  ASSUME EpInit
  PROVE  Bytes
<1>1. MaxSize \in Nat
  BY Largest
<1>2. buf = [i \in Places |-> NoByte] /\ cache = [i \in 0 .. EpSize - 1 |-> NoByte]
  BY DEF EpInit, Places
<1>3. BufferType
  BY <1>2 DEF BufferType, NoByte
<1>4. job.busy = FALSE /\ job.size = 0 /\ report.status = "none"
  BY DEF EpInit
<1> QED BY <1>1, <1>2, <1>3, <1>4 DEF Bytes, Behind, Receiving, Received, Running

\* Every step keeps the bytes in order.
LEMMA StepBytes ==
  ASSUME HaltsMet, IInv, Bytes, [EpNext]_epVars
  PROVE  Bytes'
BY RunBytes, OutNextBytes, PacketOutBytes, OtherBytes DEF EpNext, Device, Unit

-----------------------------------------------------------------------------
(***************************************************************************)
(* Bounds.                                                                 *)
(***************************************************************************)

\* A job goes not beyond its buffer, a transfer not beyond the limit of the unit.
Bounded ==
  /\ job.size \in {0} \cup Sizes /\ job.nb <= job.size
  /\ hw.at <= MaxSize /\ hw.size <= MaxTrans /\ hw.count <= hw.size
  /\ report.count <= MaxSize

\* A transfer that starts for what is left of a job.
LEMMA StartedBounded ==
  ASSUME Types, NEW h \in HwType, NEW j \in JobType, j.nb < j.size, j.size \in Sizes,
         NextTransfer(h, j), report'.count <= MaxSize
  PROVE  Bounded'
<1>1. PICK n \in Nat : Started(h, j, n)
  <2>1. \E n \in Nat : Started(h, j, n)
    BY NextEffect DEF Types
  <2> QED BY <2>1
<1>2. /\ hw'.at = j.nb /\ hw'.size = n /\ hw'.count = 0 /\ n <= MaxTrans
      /\ job'.size = j.size /\ job'.nb = j.nb
  BY <1>1 DEF Started, Given, SameJob
<1>3. j.nb \in Nat /\ j.size \in Nat /\ j.size <= MaxSize /\ MaxSize \in Nat
  BY Largest DEF JobType
<1> QED BY <1>2, <1>3 DEF Bounded

\* A step that moves no byte and ends a job, if any, with the bytes it has.
LEMMA SameBounded ==
  ASSUME Types, Bounded, job'.size = job.size, job'.nb = job.nb,
         hw'.at = hw.at, hw'.size = hw.size, hw'.count = hw.count,
         report'.count = report.count \/ report'.count = job.nb
  PROVE  Bounded'
<1>1. job.nb \in Nat /\ job.size \in Nat /\ job.size <= MaxSize /\ MaxSize \in Nat
  BY Largest DEF Types, JobType, Bounded
<1> QED BY <1>1 DEF Bounded

\* A job is accepted.
LEMMA RunBounded ==
  ASSUME IInv, Bounded, NEW size \in Sizes, NEW close \in BOOLEAN, udd_ep_run(size, close)
  PROVE  Bounded'
<1>1. Types /\ hw \in HwType
  BY DEF IInv, Types
<1>2. size \in Nat /\ MaxSize \in Nat /\ MaxTrans \in Nat
  BY Largest, SizeAssumption
<1>3. PICK j \in JobType : j = [busy |-> TRUE, call |-> "trans", size |-> size, nb |-> 0,
                                short |-> close, close |-> close, cached |-> FALSE]
  BY <1>2 DEF JobType
<1>4. /\ CASE size > 0 -> NextTransfer(hw, j) /\ UNCHANGED report
           [] size = 0 /\ dir = "in" /\ close ->
                BufferJob(hw, 0, 0) /\ job' = [j EXCEPT !.short = FALSE] /\ UNCHANGED report
           [] OTHER -> Done(j, OK(0)) /\ UNCHANGED hw
  BY <1>3 DEF udd_ep_run
<1>5. CASE size > 0
  <2>1. NextTransfer(hw, j) /\ report' = report
    BY <1>4, <1>5
  <2>2. j.nb < j.size /\ j.size \in Sizes
    BY <1>2, <1>3, <1>5
  <2> QED BY <1>1, <2>1, <2>2, StartedBounded DEF Bounded
<1>6. CASE size = 0 /\ dir = "in" /\ close
  <2>1. BufferJob(hw, 0, 0) /\ job' = [j EXCEPT !.short = FALSE] /\ report' = report
    BY <1>4, <1>6
  <2>2. Given(hw, 0, 0)
    BY <1>1, <2>1, BufferEffect
  <2>3. job'.size = 0 /\ job'.nb = 0
    BY <1>3, <1>6, <2>1
  <2> QED BY <1>2, <2>1, <2>2, <2>3 DEF Bounded, Given
<1>7. CASE ~(size > 0) /\ ~(size = 0 /\ dir = "in" /\ close)
  <2>1. Done(j, OK(0)) /\ hw' = hw
    BY <1>4, <1>7
  <2>2. job'.size = 0 /\ job'.nb = 0 /\ report'.count = 0
    BY <1>2, <1>3, <1>7, <2>1 DEF Done, OK
  <2> QED BY <1>2, <2>1, <2>2 DEF Bounded
<1> QED BY <1>5, <1>6, <1>7

\* A transfer of an IN job has ended.
LEMMA InNextBounded ==
  ASSUME IInv, Bounded, udd_ep_trans_in_next
  PROVE  Bounded'
<1>1. Types /\ hw \in HwType /\ job \in JobType
  BY DEF IInv, Types
<1>2. dir = "in" /\ hw.trcpt
  BY DEF udd_ep_trans_in_next
<1>3. /\ hw.size \in Nat /\ hw.count \in Nat /\ job.nb \in Nat /\ job.size \in Nat
      /\ job.size <= MaxSize /\ MaxSize \in Nat /\ MaxTrans \in Nat
  BY <1>1, Largest, SizeAssumption DEF HwType, JobType, Bounded
<1>4. PICK nb \in Nat : nb = job.nb + hw.size
  BY <1>3
<1>5. nb <= job.size
  BY <1>2, <1>3, <1>4 DEF IInv, Quiet, Work, InWork
<1>6. PICK j \in JobType : j = [job EXCEPT !.nb = nb]
  BY <1>1 DEF JobType
<1>7. j.nb = nb /\ j.size = job.size /\ job.size \in {0} \cup Sizes
  BY <1>1, <1>6 DEF JobType, Bounded
<1>8. PICK h \in HwType : h = [hw EXCEPT !.trcpt = FALSE]
  BY <1>1 DEF HwType
<1>9. h.at = hw.at /\ h.size = hw.size /\ h.count = hw.count
  BY <1>1, <1>8 DEF HwType
<1>10. /\ CASE j.nb # j.size -> NextTransfer(h, j) /\ UNCHANGED report
            [] j.nb = j.size /\ j.short ->
                 BufferJob(h, j.nb, 0) /\ job' = [j EXCEPT !.short = FALSE] /\ UNCHANGED report
            [] OTHER -> Done(j, OK(j.nb)) /\ hw' = h
  BY <1>4, <1>6, <1>8 DEF udd_ep_trans_in_next
<1>11. CASE j.nb # j.size
  <2>1. NextTransfer(h, j) /\ report' = report
    BY <1>10, <1>11
  <2>2. j.nb < j.size /\ j.size \in Sizes
    BY <1>3, <1>5, <1>7, <1>11
  <2> QED BY <1>1, <2>1, <2>2, StartedBounded DEF Bounded
<1>12. CASE j.nb = j.size /\ j.short
  <2>1. BufferJob(h, j.nb, 0) /\ job' = [j EXCEPT !.short = FALSE] /\ report' = report
    BY <1>10, <1>12
  <2>2. Given(h, j.nb, 0)
    BY <1>7, <2>1, BufferEffect
  <2>3. job'.size = j.size /\ job'.nb = j.nb
    BY <2>1 DEF JobType
  <2> QED BY <1>3, <1>5, <1>7, <2>1, <2>2, <2>3 DEF Bounded, Given
<1>13. CASE j.nb = j.size /\ ~j.short
  <2>1. Done(j, OK(j.nb)) /\ hw' = h
    BY <1>10, <1>13
  <2>2. job'.size = j.size /\ job'.nb = j.nb /\ report'.count = j.nb
    BY <2>1 DEF Done, OK, JobType
  <2> QED BY <1>3, <1>5, <1>7, <1>9, <2>1, <2>2 DEF Bounded
<1> QED BY <1>11, <1>12, <1>13

\* A transfer of an OUT job has ended.
LEMMA OutNextBounded ==
  ASSUME IInv, Bounded, udd_ep_trans_out_next
  PROVE  Bounded'
<1>1. Types /\ hw \in HwType /\ job \in JobType
  BY DEF IInv, Types
<1>2. /\ hw.count \in Nat /\ job.nb \in Nat /\ job.size \in Nat
      /\ job.size <= MaxSize /\ MaxSize \in Nat
  BY <1>1, Largest DEF HwType, JobType, Bounded
<1>3. PICK nb \in Nat : nb = Least(job.nb + hw.count, job.size) /\ nb <= job.size
  BY <1>2 DEF Least
<1>4. PICK j \in JobType : j = [job EXCEPT !.nb = nb]
  BY <1>1 DEF JobType
<1>5. j.nb = nb /\ j.size = job.size /\ job.size \in {0} \cup Sizes
  BY <1>1, <1>4 DEF JobType, Bounded
<1>6. PICK h \in HwType : h = [hw EXCEPT !.trcpt = FALSE]
  BY <1>1 DEF HwType
<1>7. h.at = hw.at /\ h.size = hw.size /\ h.count = hw.count
  BY <1>1, <1>6 DEF HwType
<1>8. IF hw.count = hw.size /\ j.nb # j.size THEN NextTransfer(h, j) /\ UNCHANGED report
      ELSE Done(j, OK(j.nb)) /\ hw' = h
  BY <1>3, <1>4, <1>6 DEF udd_ep_trans_out_next
<1>9. CASE hw.count = hw.size /\ j.nb # j.size
  <2>1. NextTransfer(h, j) /\ report' = report
    BY <1>8, <1>9
  <2>2. j.nb < j.size /\ j.size \in Sizes
    BY <1>2, <1>3, <1>5, <1>9
  <2> QED BY <1>1, <2>1, <2>2, StartedBounded DEF Bounded
<1>10. CASE ~(hw.count = hw.size /\ j.nb # j.size)
  <2>1. Done(j, OK(j.nb)) /\ hw' = h
    BY <1>8, <1>10
  <2>2. job'.size = j.size /\ job'.nb = j.nb /\ report'.count = j.nb
    BY <2>1 DEF Done, OK, JobType
  <2> QED BY <1>2, <1>3, <1>5, <1>7, <2>1, <2>2 DEF Bounded
<1> QED BY <1>9, <1>10

\* A packet ends with the transfer at the latest: what the invariant says of the state
\* it leads to.
LEMMA PacketBounded ==
  ASSUME IInv, Bounded, Unit, IInv'
  PROVE  Bounded'
<1>1. hw \in HwType /\ hw' \in HwType /\ UNCHANGED <<job, report>>
  BY DEF IInv, Types, Unit, PacketIn, PacketOut, Stall, devVars
<1>2. Running' <=> Running
  BY <1>1 DEF Running
<1>3. ASSUME hw.ready, NEW n \in Nat, Moves(n) PROVE Bounded'
  <2>1. hw'.at = hw.at /\ hw'.size = hw.size
    BY <1>1, <1>3, MovesEffect, SizeAssumption DEF Moved
  <2>2. hw'.count <= hw'.size
    BY <1>2, <1>3 DEF IInv, Quiet, Work
  <2> QED BY <1>1, <2>1, <2>2 DEF Bounded
<1>4. CASE PacketIn
  <2>1. Least(EpSize, hw.size - hw.count) \in Nat
    BY <1>1, SizeAssumption DEF Least, Bounded, HwType
  <2> QED BY <1>3, <1>4, <2>1 DEF PacketIn
<1>5. ASSUME NEW n \in 0 .. EpSize, PacketOut(n) PROVE Bounded'
  <2>1. n \in Nat
    BY SizeAssumption
  <2> QED BY <1>1, <1>3, <1>5, <2>1 DEF PacketOut, Bounded
<1>6. CASE Stall
  <2>1. hw'.at = hw.at /\ hw'.size = hw.size /\ hw'.count = hw.count
    BY <1>1, <1>6 DEF Stall, HwType
  <2> QED BY <1>1, <2>1 DEF Bounded
<1> QED BY <1>4, <1>5, <1>6 DEF Unit

\* Aborts and halts.
LEMMA OtherBounded ==
  ASSUME IInv, Bounded,
         \/ (\E halt \in BOOLEAN : AbortStops(halt)) \/ AbortEnds
         \/ udd_ep_clear_halt \/ udd_ep_wait_stall_clear \/ StallSeen \/ UNCHANGED epVars
  PROVE  Bounded'
<1>1. Types /\ hw \in HwType /\ job \in JobType /\ report \in ReportType
  BY DEF IInv, Types
<1>2. hw'.at = hw.at /\ hw'.size = hw.size /\ hw'.count = hw.count
  BY <1>1 DEF AbortStops, AbortEnds, udd_ep_clear_halt, udd_ep_wait_stall_clear,
         StallSeen, epVars, HwType
<1>3. job'.size = job.size /\ job'.nb = job.nb
  BY <1>1 DEF AbortStops, AbortEnds, udd_ep_clear_halt, udd_ep_wait_stall_clear,
         StallSeen, devVars, epVars, Done, JobType
<1>4. \/ report' = report \/ report' = NOHALT \/ report' = ABORT(job.nb)
  BY DEF AbortStops, AbortEnds, udd_ep_clear_halt, udd_ep_wait_stall_clear,
         StallSeen, devVars, epVars, Done
<1>5. report'.count = report.count \/ report'.count = job.nb
  BY <1>1, <1>4 DEF NOHALT, ABORT, ReportType
<1> QED BY <1>1, <1>2, <1>3, <1>5, SameBounded

\* Every step keeps the bounds.
LEMMA StepBounded ==
  ASSUME HaltsMet, IInv, Bounded, [EpNext]_epVars
  PROVE  Bounded'
<1>1. CASE Device
  BY <1>1, RunBounded, InNextBounded, OutNextBounded, OtherBounded DEF Device
<1>2. CASE Unit
  BY <1>2, StepIInv, PacketBounded DEF Kept
<1>3. CASE UNCHANGED epVars
  BY <1>3, OtherBounded
<1> QED BY <1>1, <1>2, <1>3 DEF EpNext

-----------------------------------------------------------------------------
(***************************************************************************)
(* The theorems.                                                           *)
(***************************************************************************)

\* The jobs keep the promise of udd_ep_run: packets move while a transfer is going on and
\* none after a short one, and one call ends it with its outcome and the bytes that count.
THEOREM CallbackOnce == HaltsMet => (EpSpec => OneCallback)
<1> SUFFICES ASSUME HaltsMet PROVE EpSpec => OneCallback
  OBVIOUS
<1>1. EpInit => Transfer!Init
  BY DEF EpInit, Transfer!Init, Running
<1>2. IInv /\ [EpNext]_epVars => [Transfer!Next]_(Transfer!vars)
  BY StepIInv DEF Kept, TransferStep
<1> QED BY <1>1, <1>2, AlwaysIInv, PTL DEF EpSpec, OneCallback, Transfer!Spec

\* What an OUT job reports as received is in its buffer, in order, the last bytes through
\* the cache, and nothing is written behind the buffer.
THEOREM BufferAlwaysRight == HaltsMet => (EpSpec => []BufferRight)
<1> SUFFICES ASSUME HaltsMet PROVE EpSpec => []BufferRight
  OBVIOUS
<1>1. EpInit => Bytes
  BY InitBytes
<1>2. IInv /\ Bytes /\ [EpNext]_epVars => Bytes'
  BY StepBytes
<1>3. IInv /\ Bytes => BufferRight
  <2>1. SUFFICES ASSUME IInv, Bytes, dir = "out" PROVE BufferRight
    BY DEF BufferRight
  <2>2. report.count \in Nat /\ MaxSize \in Nat
    BY <2>1, Largest DEF IInv, Types, ReportType
  <2>3. ASSUME report.as = "trans", report.status = "ok", ~job.busy,
               NEW i \in 0 .. report.count - 1
        PROVE  buf[i] = i
    <3>1. report.count <= MaxSize /\ InOrder(report.count)
      BY <2>1, <2>3 DEF Bytes, Received
    <3>2. i \in Places /\ i < report.count
      BY <2>2, <3>1 DEF Places
    <3> QED BY <3>1, <3>2 DEF InOrder
  <2>4. \A i \in DOMAIN buf : i >= job.size => buf[i] = NoByte
    BY <2>1 DEF Bytes, BufferType, Behind
  <2> QED BY <2>3, <2>4 DEF BufferRight
<1> QED BY <1>1, <1>2, <1>3, AlwaysIInv, PTL DEF EpSpec

\* No job goes beyond its buffer, no transfer beyond UDD_ENDPOINT_MAX_TRANS, and no count
\* that is told beyond the largest buffer.
THEOREM JobTypes == HaltsMet => (EpSpec => []EpTypeOK)
<1> SUFFICES ASSUME HaltsMet PROVE EpSpec => []EpTypeOK
  OBVIOUS
<1>1. EpInit => Bytes /\ Bounded
  <2>1. MaxSize \in Nat /\ MaxTrans \in Nat
    BY Largest, SizeAssumption
  <2>2. ASSUME EpInit PROVE Bounded
    <3>1. /\ job.size = 0 /\ job.nb = 0 /\ hw.at = 0 /\ hw.size = 0 /\ hw.count = 0
          /\ report.count = 0
      BY <2>2 DEF EpInit
    <3> QED BY <2>1, <3>1 DEF Bounded
  <2> QED BY <2>2, InitBytes
<1>2. IInv /\ Bytes /\ Bounded /\ [EpNext]_epVars => Bytes' /\ Bounded'
  BY StepBytes, StepBounded
<1>3. IInv /\ Bytes /\ Bounded => EpTypeOK
  <2> SUFFICES ASSUME IInv, Bytes, Bounded PROVE EpTypeOK
    OBVIOUS
  <2>1. /\ Types /\ job \in JobType /\ hw \in HwType /\ report \in ReportType
        /\ MaxSize \in Nat /\ MaxTrans \in Nat
    BY Largest, SizeAssumption DEF IInv, Types
  <2>2. job.size \in {0} \cup Sizes /\ job.nb \in 0 .. MaxSize
    BY <2>1, Largest DEF Bounded, JobType
  <2>3. hw.at \in 0 .. MaxSize /\ hw.size \in 0 .. MaxTrans /\ hw.count \in 0 .. MaxTrans
    BY <2>1 DEF Bounded, HwType
  <2>4. report.count \in 0 .. MaxSize
    BY <2>1 DEF Bounded, ReportType
  <2>5. job \in [busy : BOOLEAN, call : {"trans", "nohalt"}, size : {0} \cup Sizes, nb : 0 .. MaxSize,
                 short : BOOLEAN, close : BOOLEAN, cached : BOOLEAN]
    BY <2>1, <2>2 DEF JobType
  <2>6. hw \in [ready : BOOLEAN, stall : BOOLEAN, stalled : BOOLEAN, trcpt : BOOLEAN,
                tog : {0, 1}, at : 0 .. MaxSize, size : 0 .. MaxTrans, count : 0 .. MaxTrans]
    BY <2>1, <2>3 DEF HwType
  <2>7. report \in [status : {"none", "ok", "abort"}, count : 0 .. MaxSize, as : {"trans", "nohalt"}]
    BY <2>1, <2>4 DEF ReportType
  <2>8. buf \in [0 .. MaxSize - 1 -> Int] /\ cache \in [0 .. EpSize - 1 -> Int]
    BY DEF Bytes, BufferType, Places
  <2> QED BY <2>1, <2>5, <2>6, <2>7, <2>8 DEF EpTypeOK, Types
<1> QED BY <1>1, <1>2, <1>3, AlwaysIInv, PTL DEF EpSpec
=============================================================================
