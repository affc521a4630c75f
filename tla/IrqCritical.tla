------------------------------ MODULE IrqCritical ------------------------------
(***************************************************************************)
(* The two kinds of critical section of the second device's firmware, one  *)
(* inside the other as in udd_enable, usb_init and sleepmgr_lock_mode:     *)
(* cpu_irq_save and cpu_irq_restore keep the state of the interrupts with  *)
(* the caller, cpu_irq_enter_critical and cpu_irq_leave_critical in a      *)
(* counter and a flag that everybody shares.  The main program may be      *)
(* interrupted wherever interrupts are enabled, also between looking at    *)
(* them and disabling them; the interrupts, all of one priority, do not    *)
(* interrupt each other, and open sections too.                            *)
(***************************************************************************)
EXTENDS Naturals

CONSTANT MaxDepth   \* sections one inside the other, of the main program or an interrupt

ASSUME MaxDepthAssumption == MaxDepth \in Nat

VARIABLES
  primask,  \* interrupts are disabled
  global,   \* g_interrupt_enabled
  counter,  \* cpu_irq_critical_section_counter
  prev,     \* cpu_irq_prev_interrupt_state
  running,  \* who runs: "main" or "isr"
  depth,    \* of the open sections of each
  open,     \* their kinds, and what cpu_irq_save returned
  seen      \* what each found when it looked, before it disables interrupts

vars == <<primask, global, counter, prev, running, depth, open, seen>>

Contexts == {"main", "isr"}
Kinds    == {"save", "critical"}
Sections == [kind : Kinds, on : BOOLEAN]
Nothing  == [kind |-> "none", on |-> FALSE]

TypeOK ==
  /\ primask \in BOOLEAN /\ global \in BOOLEAN /\ prev \in BOOLEAN
  /\ counter \in Nat
  /\ running \in Contexts
  /\ depth \in [Contexts -> 0 .. MaxDepth]
  /\ open \in [Contexts -> [1 .. MaxDepth -> Sections]]
  /\ seen \in [Contexts -> Sections \cup {Nothing}]

\* As the processor starts.
Init ==
  /\ primask = FALSE /\ global = TRUE /\ counter = 0 /\ prev = FALSE
  /\ running = "main"
  /\ depth = [c \in Contexts |-> 0]
  /\ open = [c \in Contexts |-> [i \in 1 .. MaxDepth |-> [kind |-> "save", on |-> FALSE]]]
  /\ seen = [c \in Contexts |-> Nothing]

-----------------------------------------------------------------------------
cpu_irq_disable == primask' = TRUE /\ global' = FALSE
cpu_irq_enable  == primask' = FALSE /\ global' = TRUE
cpu_irq_is_enabled == ~primask

Top == open[running][depth[running]]

Push(section) ==
  /\ open' = [open EXCEPT ![running] = [@ EXCEPT ![depth[running] + 1] = section]]
  /\ depth' = [depth EXCEPT ![running] = @ + 1]

Pop(kind) ==
  /\ seen[running] = Nothing /\ depth[running] > 0 /\ Top.kind = kind
  /\ depth' = [depth EXCEPT ![running] = @ - 1]
  /\ UNCHANGED <<open, seen, running>>

\* A section is opened: the state of the interrupts is read first.  An inner critical
\* section does not look, nor disable anything.
Looks(kind) ==
  /\ seen[running] = Nothing /\ depth[running] < MaxDepth
  /\ seen' = [seen EXCEPT ![running] =
                [kind |-> kind, on |-> cpu_irq_is_enabled /\ (kind = "critical" => counter = 0)]]
  /\ UNCHANGED <<primask, global, counter, prev, running, depth, open>>

cpu_irq_save ==
  /\ seen[running].kind = "save"
  /\ cpu_irq_disable
  /\ Push(seen[running])
  /\ seen' = [seen EXCEPT ![running] = Nothing]
  /\ UNCHANGED <<counter, prev, running>>

\* Mutant: both kinds of section are closed by the shared counter.
cpu_irq_restoreCounts ==
  /\ Pop("save")
  /\ counter' = counter - 1
  /\ IF counter' = 0 /\ prev THEN cpu_irq_enable ELSE UNCHANGED <<primask, global>>
  /\ UNCHANGED prev

cpu_irq_restore ==
  /\ Pop("save")
  /\ IF Top.on THEN cpu_irq_enable ELSE UNCHANGED <<primask, global>>
  /\ UNCHANGED <<counter, prev>>

\* Mutant: the state of the interrupts is read after they were disabled.
EnterPrevLate == prev' = IF counter = 0 THEN ~primask' ELSE prev

EnterPrev == prev' = IF counter = 0 THEN seen[running].on ELSE prev

cpu_irq_enter_critical ==
  /\ seen[running].kind = "critical"
  /\ IF seen[running].on THEN cpu_irq_disable ELSE UNCHANGED <<primask, global>>
  /\ EnterPrev
  /\ counter' = counter + 1
  /\ Push(seen[running])
  /\ seen' = [seen EXCEPT ![running] = Nothing]
  /\ UNCHANGED running

cpu_irq_leave_critical ==
  /\ Pop("critical")
  /\ counter' = counter - 1
  /\ IF counter' = 0 /\ prev THEN cpu_irq_enable ELSE UNCHANGED <<primask, global>>
  /\ UNCHANGED prev

Interrupt ==
  /\ running = "main" /\ ~primask /\ running' = "isr"
  /\ UNCHANGED <<primask, global, counter, prev, depth, open, seen>>

\* A handler closes what it opened.
Return ==
  /\ running = "isr" /\ depth["isr"] = 0 /\ seen["isr"] = Nothing
  /\ running' = "main"
  /\ UNCHANGED <<primask, global, counter, prev, depth, open, seen>>

Next ==
  \/ (\E kind \in Kinds : Looks(kind))
  \/ cpu_irq_save \/ cpu_irq_restore
  \/ cpu_irq_enter_critical \/ cpu_irq_leave_critical
  \/ Interrupt \/ Return

Spec == Init /\ [][Next]_vars

-----------------------------------------------------------------------------
\* Nothing interrupts a section of the main program, of either kind and at any depth:
\* what it reads and writes is its own until it closes.
Exclusive == depth["main"] > 0 => primask /\ running = "main"

\* With no section open interrupts are enabled again (interrupt_sam_nvic.h and .c).
EnabledOutside == depth[running] = 0 => ~primask

\* The deprecated flag says whether interrupts are enabled.
GlobalTells == global <=> ~primask
=============================================================================
