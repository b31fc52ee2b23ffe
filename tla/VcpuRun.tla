------------------------------- MODULE VcpuRun -------------------------------
(* KVM_RUN and KVM_IRQ_LINE on one vcpu: the loop of kvm_run_wrapper           *)
(* (main.cpp:882-981), the exit handlers, the interrupt lines, and the guest   *)
(* and VMX behaviour they depend on.  KVM_RUN holds ioctl_lock, KVM_IRQ_LINE   *)
(* holds irq_lock: the two run at the same time, on different CPUs, and share  *)
(* pending_irq, whose read-modify-writes are neither locked nor atomic.  They  *)
(* are therefore a load and a store each.                                     *)
EXTENDS Naturals, FiniteSets, FiniteSetsExt

CONSTANTS
    Irqs,              \* interrupt lines, a set of numbers below IRQ_MAX
    MaxCont,           \* rounds of the loop (1000 in the code)
    RipMod             \* addresses of guest instructions, counted modulo RipMod

ASSUME RunConstants ==
    /\ Irqs \subseteq Nat /\ 0 \in Irqs /\ IsFiniteSet(Irqs)
    /\ MaxCont \in Nat /\ RipMod \in Nat \ {0}

VARIABLES
    pending,     \* vcpu->pending_irq, as a set of lines
    level,       \* vcpu->irq_level
    vcpu,        \* registers and flags in struct vcpu
    page,        \* the kvm_run page shared with user space
    vmcs,        \* the fields of the VMCS
    run,         \* label and locals of the thread in KVM_RUN
    line,        \* label and locals of the thread in KVM_IRQ_LINE
    arch,        \* history: RIP and IF the guest must continue with, and whether
                 \* it is owed the data of an IN
    edge         \* history of the lines: raised and not injected since (owed),
                 \* raised between their choice and their injection (again), and
                 \* changed by a store of pending_irq that was not about them (torn)

vars == <<pending, level, vcpu, page, vmcs, run, line, arch, edge>>

None == [irq |-> 0, vec |-> 0]           \* no interrupt to inject

\* No thread in KVM_RUN; its locals start from these values.
OutsideRun == [pc |-> "user", exit |-> "none", cont |-> TRUE, n |-> 0, intr |-> None,
               tmp |-> {}]

NextRip(r) == (r + 1) % RipMod

HandlerRip == 0                         \* where an injected interrupt lands

\* Basic exit reasons (uapi_vmx.h).
EXIT_REASON ==
    [ EXCEPTION_NMI |-> 0, EXTERNAL_INTERRUPT |-> 1, TRIPLE_FAULT |-> 2,
      PENDING_INTERRUPT |-> 7, NMI_WINDOW |-> 8, TASK_SWITCH |-> 9, CPUID |-> 10,
      HLT |-> 12, INVD |-> 13, INVLPG |-> 14, RDPMC |-> 15, RDTSC |-> 16, VMCALL |-> 18,
      VMCLEAR |-> 19, VMLAUNCH |-> 20, VMPTRLD |-> 21, VMPTRST |-> 22, VMREAD |-> 23,
      VMRESUME |-> 24, VMWRITE |-> 25, VMOFF |-> 26, VMON |-> 27, CR_ACCESS |-> 28,
      DR_ACCESS |-> 29, IO_INSTRUCTION |-> 30, MSR_READ |-> 31, MSR_WRITE |-> 32,
      INVALID_STATE |-> 33, MWAIT_INSTRUCTION |-> 36, MONITOR_INSTRUCTION |-> 39,
      PAUSE_INSTRUCTION |-> 40, MCE_DURING_VMENTRY |-> 41, TPR_BELOW_THRESHOLD |-> 43,
      APIC_ACCESS |-> 44, EOI_INDUCED |-> 45, EPT_VIOLATION |-> 48, EPT_MISCONFIG |-> 49,
      INVEPT |-> 50, PREEMPTION_TIMER |-> 52, WBINVD |-> 54, XSETBV |-> 55,
      APIC_WRITE |-> 56, INVPCID |-> 58 ]

\* What the handlers do: "skip" the instruction and continue, continue ("again")
\* without, or more than that.  handle_cr skips for every register but CR0.
kvm_vmx_exit_handlers ==
    [ EXTERNAL_INTERRUPT |-> {"external"}, CPUID |-> {"skip"},
      IO_INSTRUCTION |-> {"io_in", "io_out"}, MSR_READ |-> {"skip"}, MSR_WRITE |-> {"skip"},
      EPT_VIOLATION |-> {"ept"}, PREEMPTION_TIMER |-> {"again"}, APIC_ACCESS |-> {"skip"},
      PENDING_INTERRUPT |-> {"window"}, CR_ACCESS |-> {"cr0", "skip"}, DR_ACCESS |-> {"skip"},
      TASK_SWITCH |-> {"again"} ]

\* The length of the array, and the lookup in it: "other" is an exit without a
\* handler.
kvm_vmx_max_exit_handlers == 1 + Max({EXIT_REASON[h] : h \in DOMAIN kvm_vmx_exit_handlers})
Dispatch(exit_reason) ==
    LET at == {h \in DOMAIN kvm_vmx_exit_handlers : EXIT_REASON[h] = exit_reason}
    IN IF exit_reason < kvm_vmx_max_exit_handlers /\ at # {}
       THEN UNION {kvm_vmx_exit_handlers[h] : h \in at} ELSE {"other"}

\* The exits as the rest of the module tells them apart; "invalid" is a failed VM
\* entry, whose reason has bit 31 and is beyond the array.
Exits == {"none", "invalid"} \cup UNION {Dispatch(EXIT_REASON[r]) : r \in DOMAIN EXIT_REASON}

Init ==
    /\ pending = {}
    /\ level = [i \in Irqs |-> 0]
    /\ vcpu = [rip |-> 0, if |-> FALSE, rax |-> "user", paging |-> FALSE,
               pending_io |-> FALSE]
    /\ page = "unknown"
    /\ vmcs = [rip |-> 0, if |-> FALSE, sti |-> FALSE, intr |-> None, window |-> FALSE,
               pg |-> FALSE, shadow |-> FALSE, unrestricted |-> TRUE, bad |-> FALSE]
    /\ run = OutsideRun
    /\ line = [pc |-> "idle", irq |-> 0, level |-> 0, tmp |-> {}]
    /\ arch = [rip |-> 0, if |-> FALSE, in |-> FALSE]
    /\ edge = [owed |-> {}, again |-> {}, torn |-> {}]

-----------------------------------------------------------------------------
(* The history of a store to pending_irq of the value tmp read before, changed *)
(* in line i: what others did to the other lines since the load is undone.     *)
Torn(tmp, i) == edge.torn \cup (((tmp \ pending) \cup (pending \ tmp)) \ {i})

\* Line i is raised; one whose injection is on its way, and which is no longer in
\* pending_irq, is owed another.
Raise(tmp, i) ==
    edge' = [owed  |-> edge.owed \cup {i},
             again |-> IF run.pc = "enter" /\ run.intr # None /\ i = run.intr.irq
                       THEN {i} ELSE edge.again,
             torn  |-> Torn(tmp, i)]

-----------------------------------------------------------------------------
(* User space, between two KVM_RUN.                                           *)

\* KVM_SET_REGS; RIP and IF are what the rest of the model looks at.
SetRegs(rip, if) ==
    /\ run.pc = "user"
    /\ vcpu' = [vcpu EXCEPT !.rip = rip, !.if = if, !.rax = "user"]
    /\ arch' = [rip |-> rip, if |-> if, in |-> arch.in /\ vcpu.pending_io]
    /\ UNCHANGED <<pending, level, page, vmcs, run, line, edge>>

\* KVM_SET_SREGS writes CR0 to the VMCS; the mode kept in vcpu->paging, the read
\* shadow and the unrestricted-guest control stay as they are.  The values may
\* describe a guest state that VM entry rejects.
SetSregs(pg, bad) ==
    /\ run.pc = "user"
    /\ vmcs' = [vmcs EXCEPT !.pg = pg, !.bad = bad]
    /\ UNCHANGED <<pending, level, vcpu, page, run, line, arch, edge>>

\* An IN completed by nobody.
EnterRunNoCompletion ==
    /\ run.pc = "user"
    /\ vcpu' = [vcpu EXCEPT !.pending_io = FALSE]
    /\ page' = "unknown"
    /\ run' = [run EXCEPT !.pc = "loop"]
    /\ UNCHANGED <<pending, level, vmcs, line, arch, edge>>

\* KVM_RUN: complete a pending IN with the data user space put in the page.
EnterRun ==
    /\ run.pc = "user"
    /\ vcpu' = IF vcpu.pending_io
               THEN [vcpu EXCEPT !.rax = "pio", !.pending_io = FALSE] ELSE vcpu
    /\ page' = "unknown"
    /\ run' = [run EXCEPT !.pc = "loop"]
    /\ UNCHANGED <<pending, level, vmcs, line, arch, edge>>

(* The loop of kvm_run_wrapper. *)

\* A loop without the limit of 1000 rounds.
LoopNeverEnds ==
    /\ run.pc = "loop"
    /\ run' = IF ~run.cont THEN OutsideRun
              ELSE [run EXCEPT !.pc = IF run.exit = "window" THEN "select" ELSE "enter",
                               !.n = (@ + 1) % MaxCont, !.intr = None]
    /\ UNCHANGED <<pending, level, vcpu, page, vmcs, line, arch, edge>>

\* An interrupt chosen whenever IF is set, the condition in the comment at
\* main.cpp:904.
LoopLooksAtIf ==
    /\ run.pc = "loop"
    /\ run' = IF run.cont /\ run.n < MaxCont
              THEN [run EXCEPT !.pc = IF vcpu.if THEN "select" ELSE "enter",
                               !.n = @ + 1, !.intr = None]
              ELSE OutsideRun
    /\ UNCHANGED <<pending, level, vcpu, page, vmcs, line, arch, edge>>

\* while (cont && maxcont++ < 1000); an interrupt is chosen only after an
\* interrupt-window exit of the same KVM_RUN.
Loop ==
    /\ run.pc = "loop"
    /\ run' = IF run.cont /\ run.n < MaxCont
              THEN [run EXCEPT !.pc = IF run.exit = "window" THEN "select" ELSE "enter",
                               !.n = @ + 1, !.intr = None]
              ELSE OutsideRun
    /\ UNCHANGED <<pending, level, vcpu, page, vmcs, line, arch, edge>>

Vector(i) == IF vcpu.paging THEN i + 48 ELSE i + 8

\* The lowest pending line is chosen; the vector depends on the paging mode.
Select ==
    /\ run.pc = "select"
    /\ run' = IF pending = {} THEN [run EXCEPT !.pc = "enter"]
              ELSE LET i == Min(pending)
                   IN [run EXCEPT !.pc = "clear_load", !.intr = [irq |-> i, vec |-> Vector(i)]]
    /\ UNCHANGED <<pending, level, vcpu, page, vmcs, line, arch, edge>>

\* pending_irq &= ~(1<<i): the load ...
ClearLoad ==
    /\ run.pc = "clear_load"
    /\ run' = [run EXCEPT !.pc = "clear_store", !.tmp = pending]
    /\ UNCHANGED <<pending, level, vcpu, page, vmcs, line, arch, edge>>

\* Every pending line cleared at once.
ClearStoreAll ==
    /\ run.pc = "clear_store"
    /\ pending' = {}
    /\ edge' = [edge EXCEPT !.torn = Torn(run.tmp, run.intr.irq)]
    /\ run' = [run EXCEPT !.pc = "enter", !.tmp = {}]
    /\ UNCHANGED <<level, vcpu, page, vmcs, line, arch>>

\* The chosen line left pending.
ClearStoreNothing ==
    /\ run.pc = "clear_store"
    /\ run' = [run EXCEPT !.pc = "enter", !.tmp = {}]
    /\ UNCHANGED <<pending, level, vcpu, page, vmcs, line, arch, edge>>

\* ... and the store.
ClearStore ==
    /\ run.pc = "clear_store"
    /\ pending' = run.tmp \ {run.intr.irq}
    /\ edge' = [edge EXCEPT !.torn = Torn(run.tmp, run.intr.irq)]
    /\ run' = [run EXCEPT !.pc = "enter", !.tmp = {}]
    /\ UNCHANGED <<level, vcpu, page, vmcs, line, arch>>

\* The interrupt window never requested.
EntryFieldsNoWindow ==
    [vmcs EXCEPT !.intr = IF run.intr # None THEN run.intr ELSE @,
                 !.rip = vcpu.rip, !.if = vcpu.if]

\* The fields VM entry uses: the interrupt chosen, the interrupt window, and the
\* registers kvm_run copies from the vcpu.
EntryFields ==
    [vmcs EXCEPT !.intr = IF run.intr # None THEN run.intr ELSE @,
                 !.window = pending # {}, !.rip = vcpu.rip, !.if = vcpu.if]

\* The checks VM entry makes on the guest state.
EntryValid(v) ==
    /\ ~v.bad
    /\ v.pg \/ v.unrestricted
    /\ v.intr # None => v.if /\ ~v.sti

\* LOAD_VMCS to VMLAUNCH.  An injected interrupt clears IF and enters its handler.
EnterGuest ==
    /\ run.pc = "enter"
    /\ EntryValid(EntryFields)
    /\ LET v == EntryFields
       IN  /\ vmcs' = IF v.intr = None THEN v ELSE [v EXCEPT !.rip = HandlerRip, !.if = FALSE]
           /\ arch' = IF v.intr = None THEN arch
                      ELSE [arch EXCEPT !.rip = HandlerRip, !.if = FALSE]
           /\ edge' = IF v.intr = None THEN edge
                      ELSE [edge EXCEPT !.owed = (@ \ {v.intr.irq}) \cup edge.again,
                                        !.again = {}]
    /\ run' = [run EXCEPT !.pc = "guest"]
    /\ UNCHANGED <<pending, level, vcpu, page, line>>

\* A VM entry that fails on the guest state leaves that state and the interrupt to
\* inject alone.  (A VMLAUNCH refused for the controls is in IoctlPath.)
EntryFails ==
    /\ run.pc = "enter"
    /\ ~EntryValid(EntryFields)
    /\ vmcs' = EntryFields
    /\ run' = [run EXCEPT !.pc = "handle", !.exit = "invalid"]
    /\ UNCHANGED <<pending, level, vcpu, page, line, arch, edge>>

-----------------------------------------------------------------------------
(* The guest (outside the repository).                                        *)

WindowOpen == vmcs.window /\ vmcs.if /\ ~vmcs.sti

\* An instruction that does not exit; sti holds interrupts off for one more.
GuestStep(ins) ==
    /\ run.pc = "guest"
    /\ ~WindowOpen
    /\ vmcs' = [vmcs EXCEPT !.rip = NextRip(@), !.sti = (ins = "sti" /\ ~vmcs.if),
                            !.if = CASE ins = "sti" -> TRUE [] ins = "cli" -> FALSE
                                     [] OTHER -> @]
    /\ arch' = [arch EXCEPT !.rip = vmcs'.rip, !.if = vmcs'.if]
    /\ UNCHANGED <<pending, level, vcpu, page, run, line, edge>>

\* A VM exit invalidates the interrupt to inject; kvm_run saves the registers.
\* An instruction exits before it is executed: its handler must finish it.
VmExit(reason) ==
    /\ run.pc = "guest"
    /\ \/ reason = "external"
       \/ reason = "window" /\ WindowOpen
       \/ reason \in {"io_in", "io_out", "cr0", "skip", "ept", "again", "other"} /\ ~WindowOpen
    /\ vmcs' = [vmcs EXCEPT !.intr = None]
    /\ vcpu' = [vcpu EXCEPT !.rip = vmcs.rip, !.if = vmcs.if, !.rax = "guest"]
    /\ arch' = [arch EXCEPT !.in = FALSE,
                            !.rip = IF reason \in {"io_in", "io_out", "cr0", "skip"}
                                    THEN NextRip(@) ELSE @]
    /\ run' = [run EXCEPT !.pc = "handle", !.exit = reason]
    /\ UNCHANGED <<pending, level, page, line, edge>>

-----------------------------------------------------------------------------
(* The exit handlers, up to RELEASE_VMCS and sti.                             *)

Handling(reasons) == run.pc = "handle" /\ run.exit \in reasons

\* The instruction not skipped.
SkipNothing(v) == v
SkipEmulatedInstruction(v) == [v EXCEPT !.rip = NextRip(@)]
Continue(c) == run' = [run EXCEPT !.pc = "loop", !.cont = c]

HandleIo ==
    /\ Handling({"io_in", "io_out"})
    /\ vcpu' = [SkipEmulatedInstruction(vcpu) EXCEPT !.pending_io = @ \/ run.exit = "io_in"]
    /\ arch' = [arch EXCEPT !.in = (run.exit = "io_in")]
    /\ page' = "io"
    /\ Continue(FALSE)
    /\ UNCHANGED <<pending, level, vmcs, line, edge>>

\* CPUID, RDMSR, WRMSR, APIC access, debug registers.
HandleSkip ==
    /\ Handling({"skip"})
    /\ vcpu' = SkipEmulatedInstruction(vcpu)
    /\ Continue(TRUE)
    /\ UNCHANGED <<pending, level, page, vmcs, line, arch, edge>>

\* The access that faulted is given up and the guest continues after it, by the
\* instruction length, a field the processor does not define for this exit: the
\* guest continues anywhere.
HandleEpt ==
    /\ Handling({"ept"})
    /\ \E rip \in 0 .. RipMod - 1 :
         /\ vcpu' = [vcpu EXCEPT !.rip = rip]
         /\ arch' = [arch EXCEPT !.rip = rip]
    /\ Continue(TRUE)
    /\ UNCHANGED <<pending, level, page, vmcs, line, edge>>

\* CR0 written without leaving unrestricted mode.
HandleCrKeepsUnrestricted ==
    /\ Handling({"cr0"})
    /\ \E on, bad \in BOOLEAN :
         /\ ~vmcs.shadow => on
         /\ vmcs' = [vmcs EXCEPT !.pg = on, !.shadow = on, !.bad = bad]
         /\ vcpu' = [SkipEmulatedInstruction(vcpu) EXCEPT !.paging = on]
    /\ Continue(TRUE)
    /\ UNCHANGED <<pending, level, page, line, arch, edge>>

\* The mode kept in vcpu->paging forgotten.
HandleCrKeepsPaging ==
    /\ Handling({"cr0"})
    /\ \E on, bad \in BOOLEAN :
         /\ ~vmcs.shadow => on
         /\ vmcs' = [vmcs EXCEPT !.pg = on, !.shadow = on, !.unrestricted = ~on, !.bad = bad]
    /\ vcpu' = SkipEmulatedInstruction(vcpu)
    /\ Continue(TRUE)
    /\ UNCHANGED <<pending, level, page, line, arch, edge>>

\* A MOV to CR0 exits when it differs from the read shadow in a bit of the mask.
\* Both are 1 << 31 in an int, so they have the upper half too: with paging off
\* only a value with PG set exits, with paging on every one.  The value is stored
\* unchecked.
HandleCr ==
    /\ Handling({"cr0"})
    /\ \E on, bad \in BOOLEAN :
         /\ ~vmcs.shadow => on
         /\ vmcs' = [vmcs EXCEPT !.pg = on, !.shadow = on, !.unrestricted = ~on, !.bad = bad]
         /\ vcpu' = [SkipEmulatedInstruction(vcpu) EXCEPT !.paging = on]
    /\ Continue(TRUE)
    /\ UNCHANGED <<pending, level, page, line, arch, edge>>

\* Interrupt window, preemption timer and task switch.
HandleNothing ==
    /\ Handling({"window", "again"})
    /\ Continue(TRUE)
    /\ UNCHANGED <<pending, level, vcpu, page, vmcs, line, arch, edge>>

\* No handler: leave the loop.
NoHandler ==
    /\ Handling({"other", "invalid"})
    /\ Continue(FALSE)
    /\ UNCHANGED <<pending, level, vcpu, page, vmcs, line, arch, edge>>

\* An external interrupt with a nonzero qualification only checks for signals.
HandleExternal ==
    /\ Handling({"external"})
    /\ \E signal \in BOOLEAN : Continue(~signal)
    /\ UNCHANGED <<pending, level, vcpu, page, vmcs, line, arch, edge>>

\* Otherwise pending_irq |= 1, the load ...
TimerLoad ==
    /\ Handling({"external"})
    /\ run' = [run EXCEPT !.pc = "timer_store", !.tmp = pending]
    /\ UNCHANGED <<pending, level, vcpu, page, vmcs, line, arch, edge>>

\* ... and the store, and then the check for signals.
TimerStore ==
    /\ run.pc = "timer_store"
    /\ pending' = run.tmp \cup {0}
    /\ Raise(run.tmp, 0)
    /\ \E signal \in BOOLEAN :
         run' = [run EXCEPT !.pc = "loop", !.cont = ~signal, !.tmp = {}]
    /\ UNCHANGED <<level, vcpu, page, vmcs, line, arch>>

-----------------------------------------------------------------------------
(* KVM_IRQ_LINE, under irq_lock.                                              *)

\* A line that keeps its level only remembers it; a rising edge loads
\* pending_irq ...
IrqLine(i, l) ==
    /\ line.pc = "idle"
    /\ \/ /\ level[i] = 0 /\ l = 1
          /\ line' = [pc |-> "store", irq |-> i, level |-> l, tmp |-> pending]
          /\ UNCHANGED level
       \/ /\ ~(level[i] = 0 /\ l = 1)
          /\ level' = [level EXCEPT ![i] = l]
          /\ UNCHANGED line
    /\ UNCHANGED <<pending, vcpu, page, vmcs, run, arch, edge>>

\* ... and stores it with the line added.
IrqStore ==
    /\ line.pc = "store"
    /\ pending' = line.tmp \cup {line.irq}
    /\ Raise(line.tmp, line.irq)
    /\ level' = [level EXCEPT ![line.irq] = line.level]
    /\ line' = [line EXCEPT !.pc = "idle", !.irq = 0, !.level = 0, !.tmp = {}]
    /\ UNCHANGED <<vcpu, page, vmcs, run, arch>>

-----------------------------------------------------------------------------
\* The steps of the thread in KVM_RUN that nothing outside it can hold up.
RunStep ==
    \/ Loop \/ Select \/ ClearLoad \/ ClearStore \/ EnterGuest \/ EntryFails
    \/ HandleIo \/ HandleSkip \/ HandleEpt \/ HandleCr \/ HandleNothing \/ NoHandler
    \/ HandleExternal \/ TimerLoad \/ TimerStore

Next ==
    \/ \E rip \in 0 .. RipMod - 1, if \in BOOLEAN : SetRegs(rip, if)
    \/ \E pg, bad \in BOOLEAN : SetSregs(pg, bad)
    \/ EnterRun
    \/ RunStep
    \/ \E ins \in {"nop", "cli", "sti"} : GuestStep(ins)
    \/ \E reason \in Exits : VmExit(reason)
    \/ \E i \in Irqs, l \in {0, 1} : IrqLine(i, l)
    \/ IrqStore

Spec == Init /\ [][Next]_vars

\* The thread in KVM_RUN is scheduled, user space calls KVM_RUN again, and the
\* guest does not run for ever: the host's timer interrupt makes it exit.
RunFairness ==
    /\ WF_vars(EnterRun)
    /\ WF_vars(RunStep)
    /\ WF_vars(\E reason \in Exits : VmExit(reason))

\* A window that opens before the last round of a KVM_RUN is not pre-empted by a
\* host interrupt every time.
WindowFairness == SF_vars(run.n < MaxCont /\ VmExit("window"))

FairSpec == Spec /\ RunFairness /\ WindowFairness

-----------------------------------------------------------------------------
\* The guest goes on exactly where it stopped, and user space sees where that
\* is: an instruction a handler emulates is neither repeated nor lost, and an
\* asynchronous exit loses nothing, whatever loops, timeouts, injections and
\* KVM_SET_REGS come between.
StateCarried ==
    /\ run.pc = "guest" => vmcs.rip = arch.rip /\ vmcs.if = arch.if
    /\ run.pc = "user" => vcpu.rip = arch.rip /\ vcpu.if = arch.if

\* The guest never runs again after an IN before the data user space supplied
\* is in RAX, even when KVM_SET_REGS wrote RAX before that KVM_RUN; and a KVM_RUN
\* that leaves data due says so: it returns with KVM_EXIT_IO.
InCompleted ==
    /\ run.pc = "guest" /\ arch.in => vcpu.rax = "pio"
    /\ run.pc = "user" /\ vcpu.pending_io => page = "io"

\* An interrupt is only injected into a guest that can take it: IF is set and
\* no sti or mov ss holds it off, as it was at the interrupt-window exit, because
\* that exit reason does not survive from one KVM_RUN to the next.
InjectOnlyWhenOpen ==
    run.pc = "enter" /\ (run.intr # None \/ vmcs.intr # None) => vcpu.if /\ ~vmcs.sti

\* The vector injected is the one of the mode the guest reads in CR0.PG, through the
\* read shadow, whenever and however it or KVM_SET_SREGS changed CR0 before: the
\* mode does not change between the choice of the vector and its injection.
VectorMatchesMode ==
    run.pc = "guest" /\ vmcs.intr # None =>
        vmcs.intr.vec = vmcs.intr.irq + (IF vmcs.shadow THEN 48 ELSE 8)

\* Paging on: "no unrestricted mode" (main.cpp:398); paging off: "unrestricted
\* mode" (main.cpp:404).  The three places that keep the mode, in the vcpu, the read
\* shadow and the control, never disagree, and a guest that reads paging as on runs
\* with paging.  (The converse is not promised: KVM_SET_SREGS turns paging on
\* without telling the three.)
ModeCoherent ==
    /\ vcpu.paging = vmcs.shadow /\ vmcs.unrestricted = ~vmcs.shadow
    /\ run.pc = "guest" /\ vmcs.shadow => vmcs.pg

\* Interrupts taken out of pending_irq and not delivered yet.
InFlight ==
    {run.intr.irq : x \in {y \in {run.pc} : run.intr # None /\
                                y \in {"clear_load", "clear_store", "enter"}}}
    \cup {vmcs.intr.irq : x \in {y \in {run.pc} : vmcs.intr # None /\ y # "guest"}}

\* "trigger on rising edge" (main.cpp:1018): a line that was raised is injected
\* later; until then it is pending or on its way.
NoLostIrq == edge.owed \subseteq pending \cup InFlight

\* With KVM_IRQ_LINE running beside KVM_RUN, an edge is lost through one thing
\* only: a store of pending_irq that undoes what the other thread did to the line
\* since the load.  Every other line stays pending or on its way until it is
\* injected, whatever the two do at the same time.
EdgeKept == edge.owed \ edge.torn \subseteq pending \cup InFlight

\* Such a store is also the only way to an injection nothing was raised for: every
\* other line that is injected was raised since its last injection.
InjectionOwed == InFlight \ edge.torn \subseteq edge.owed

\* KVM_RUN returns: the loop is bounded and every entry ends in an exit.
RunReturns == run.pc # "user" ~> run.pc = "user"

\* The guest can take an interrupt, in a round that is not the last.
GuestOpen == run.pc = "guest" /\ vmcs.if /\ ~vmcs.sti /\ run.n < MaxCont

\* A pending interrupt leads to an injection in every guest that is open to
\* interrupts again and again, even if it is so for an instant only: the
\* interrupt window kvm_run_wrapper asks for does not miss it.
InterruptDelivered ==
    []<>GuestOpen => (pending # {} ~> run.pc = "guest" /\ vmcs.intr # None)
=============================================================================
