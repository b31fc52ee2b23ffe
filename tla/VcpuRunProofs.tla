---------------------------- MODULE VcpuRunProofs ----------------------------
(* Proofs, for any interrupt lines, number of rounds and guest addresses, of  *)
(* the safety properties of VcpuRun.                                          *)
EXTENDS VcpuRun, WellFoundedInduction, TLAPS

USE ZenonT(30)

Intrs == [irq : Nat, vec : Nat]
Labels == {"user", "loop", "select", "clear_load", "clear_store", "enter", "guest",
           "handle", "timer_store"}

VcpuType == [rip : Nat, if : BOOLEAN, rax : {"user", "pio", "guest"}, paging : BOOLEAN,
             pending_io : BOOLEAN]
VmcsType == [rip : Nat, if : BOOLEAN, sti : BOOLEAN, intr : Intrs, window : BOOLEAN,
             pg : BOOLEAN, shadow : BOOLEAN, unrestricted : BOOLEAN, bad : BOOLEAN]
RunType  == [pc : Labels, exit : Exits, cont : BOOLEAN, n : Nat, intr : Intrs,
             tmp : SUBSET Irqs]
LineType == [pc : {"idle", "store"}, irq : Irqs, level : {0, 1}, tmp : SUBSET Irqs]
ArchType == [rip : Nat, if : BOOLEAN, in : BOOLEAN]
EdgeType == [owed : SUBSET Irqs, again : SUBSET Irqs, torn : SUBSET Irqs]

TypeOK ==
    /\ pending \in SUBSET Irqs /\ edge \in EdgeType
    /\ vcpu \in VcpuType /\ vmcs \in VmcsType /\ run \in RunType
    /\ line \in LineType /\ arch \in ArchType

\* Where the guest continues: in the VMCS while it runs; otherwise in the vcpu,
\* after the instruction whose exit is being handled.
Emulated == {"io_in", "io_out", "cr0", "skip"}
Continues ==
    /\ run.pc = "guest" => vmcs.rip = arch.rip /\ (vmcs.if <=> arch.if)
    /\ run.pc # "guest" => (vcpu.if <=> arch.if)
    /\ run.pc = "handle" /\ run.exit \in Emulated => arch.rip = NextRip(vcpu.rip)
    /\ run.pc # "guest" /\ ~(run.pc = "handle" /\ run.exit \in Emulated) => arch.rip = vcpu.rip

\* The data of an IN is in RAX, or is still pending; while it is, KVM_RUN has
\* returned or is about to return to user space with KVM_EXIT_IO.
InputPending ==
    /\ arch.in => vcpu.rax = "pio" \/ vcpu.pending_io
    /\ vcpu.pending_io =>
           page = "io" /\ (run.pc = "user" \/ (run.pc = "loop" /\ ~run.cont))

\* From an interrupt-window exit to the next entry the guest stays open to
\* interrupts and valid; only there is an interrupt chosen.
Choosing == {"select", "clear_load", "clear_store"}
WindowKept ==
    /\ run.pc \in {"handle", "loop", "enter"} \cup Choosing /\ run.exit = "window" =>
           vcpu.if /\ ~vmcs.sti /\ ~vmcs.bad /\ (vmcs.pg \/ vmcs.unrestricted)
    /\ run.pc = "guest" => ~vmcs.bad /\ (vmcs.pg \/ vmcs.unrestricted)
    /\ run.pc \in Choosing => run.exit = "window"
    /\ run.pc = "enter" /\ run.intr # None => run.exit = "window"
    /\ run.pc = "select" => run.intr = None
    /\ run.pc = "timer_store" => run.exit = "external"
    /\ vmcs.intr # None => run.pc = "guest"
    /\ run.pc = "user" => run.exit = "none"

OneMode == (vcpu.paging <=> vmcs.shadow) /\ (vmcs.unrestricted <=> ~vmcs.shadow)

Chosen == run.intr # None /\ run.pc \in {"clear_load", "clear_store", "enter"}
VectorOf(i, paging) == i.irq + (IF paging THEN 48 ELSE 8)
VectorKept ==
    /\ Chosen => run.intr.vec = VectorOf(run.intr, vcpu.paging)
    /\ vmcs.intr # None => vmcs.intr.vec = VectorOf(vmcs.intr, vmcs.shadow)

\* A line that no stale store has changed is owed exactly if it is pending or chosen;
\* chosen and cleared, it is pending only if it was raised again.
Taken == run.intr # None /\ run.pc = "enter"
LineKept(i) ==
    /\ i \in pending => i \in edge.owed
    /\ Chosen /\ i = run.intr.irq => i \in edge.owed
    /\ i \in edge.owed => i \in pending \/ (Chosen /\ i = run.intr.irq)
    /\ Taken /\ i = run.intr.irq => (i \in pending <=> i \in edge.again)
IrqKept ==
    /\ run.pc \in {"clear_load", "clear_store"} => run.intr # None
    /\ Chosen => run.intr.irq \in Irqs
    /\ \A i \in edge.again : Taken /\ i = run.intr.irq
    /\ \A i \in Irqs \ edge.torn : LineKept(i)

-----------------------------------------------------------------------------
\* The order of the naturals, as a relation.
Before == {p \in Nat \X Nat : p[1] < p[2]}

\* The line kvm_run_wrapper chooses, the lowest that is pending, is a pending one.
LEMMA MinIn == ASSUME NEW S \in SUBSET Nat, S # {} PROVE Min(S) \in S
<1>1. OpToRel(<, Nat) = Before
  BY Zenon DEF OpToRel, Before
<1>2. IsWellFoundedOn(Before, Nat)
  BY Zenon, <1>1, NatLessThanWellFounded
<1>3. PICK x \in S : \A y \in S : ~ (<<y, x>> \in Before)
  BY <1>2, WFMin
<1>4. \A y \in S : x <= y
  <2> TAKE y \in S
  <2>1. <<y, x>> \in Nat \X Nat /\ <<y, x>>[1] = y /\ <<y, x>>[2] = x
    OBVIOUS
  <2>2. ~ (<<y, x>> \in Before)
    BY <1>3
  <2>3. ~ (y < x)
    BY Zenon, <2>1, <2>2 DEF Before
  <2> QED
    BY SMTT(30), <2>3
<1> QED
  BY <1>4 DEF Min

\* The two values of the exit reason that are no reason of the CPU.
LEMMA ExitTypes == "none" \in Exits /\ "invalid" \in Exits
<1> DEFINE Reasons == UNION {Dispatch(EXIT_REASON[r]) : r \in DOMAIN EXIT_REASON}
<1>1. Exits = {"none", "invalid"} \cup Reasons
  BY DEF Exits
<1> HIDE DEF Reasons
<1> QED
  BY <1>1

\* The guest's addresses stay addresses when an instruction is skipped.
LEMMA NextRipType == ASSUME NEW r \in Nat PROVE NextRip(r) \in Nat
  BY SMTT(30), RunConstants DEF NextRip

\* No interrupt is an interrupt-information field too.
LEMMA NoneType == None \in Intrs
  BY DEF None, Intrs

\* The types hold at first.
LEMMA InitTyped == Init => TypeOK
<1> SUFFICES ASSUME Init PROVE TypeOK
  OBVIOUS
<1>1. vcpu \in VcpuType /\ arch \in ArchType
  BY DEF Init, VcpuType, ArchType
<1>2. vmcs \in VmcsType
  BY NoneType DEF Init, VmcsType
<1>3. run \in RunType
  BY NoneType, ExitTypes DEF Init, OutsideRun, RunType, Labels
<1>4. line \in LineType
  BY RunConstants DEF Init, LineType
<1>5. edge \in EdgeType
  BY DEF Init, EdgeType
<1> QED
  BY <1>1, <1>2, <1>3, <1>4, <1>5 DEF Init, TypeOK

\* What kvm_run_wrapper writes to the VMCS before an entry.
LEMMA EntryType ==
  ASSUME TypeOK
  PROVE  /\ EntryFields \in VmcsType
         /\ EntryFields.rip = vcpu.rip /\ EntryFields.if = vcpu.if
         /\ EntryFields.intr = IF run.intr # None THEN run.intr ELSE vmcs.intr
         /\ EntryFields.sti = vmcs.sti /\ EntryFields.bad = vmcs.bad
         /\ EntryFields.pg = vmcs.pg /\ EntryFields.shadow = vmcs.shadow
         /\ EntryFields.unrestricted = vmcs.unrestricted
<1>1. vcpu.rip \in Nat /\ vcpu.if \in BOOLEAN
  BY DEF TypeOK, VcpuType
<1>2. run.intr \in Intrs
  BY DEF TypeOK, RunType
<1>3. (pending # {}) \in BOOLEAN
  OBVIOUS
<1>4. vmcs.intr \in Intrs
  BY DEF TypeOK, VmcsType
<1>5. (IF run.intr # None THEN run.intr ELSE vmcs.intr) \in Intrs
  BY <1>2, <1>4
<1> DEFINE p == (pending # {})
           i == IF run.intr # None THEN run.intr ELSE vmcs.intr
<1>6. p \in BOOLEAN /\ i \in Intrs
  BY <1>3, <1>5
<1>7. EntryFields = [vmcs EXCEPT !.intr = i, !.window = p, !.rip = vcpu.rip, !.if = vcpu.if]
  BY DEF EntryFields
<1> HIDE DEF p, i
<1>8. vmcs \in VmcsType
  BY DEF TypeOK
<1>9. /\ EntryFields \in VmcsType
      /\ EntryFields.rip = vcpu.rip /\ EntryFields.if = vcpu.if /\ EntryFields.intr = i
      /\ EntryFields.sti = vmcs.sti /\ EntryFields.bad = vmcs.bad
      /\ EntryFields.pg = vmcs.pg /\ EntryFields.shadow = vmcs.shadow
      /\ EntryFields.unrestricted = vmcs.unrestricted
  BY <1>1, <1>6, <1>7, <1>8 DEF VmcsType
<1> QED
  BY <1>9 DEF i

\* The history of a line that is raised.
LEMMA RaiseType ==
  ASSUME TypeOK, NEW tmp \in SUBSET Irqs, NEW i \in Irqs, Raise(tmp, i)
  PROVE  edge' \in EdgeType
<1>1. edge.owed \cup {i} \in SUBSET Irqs /\ Torn(tmp, i) \in SUBSET Irqs
  BY DEF Torn, TypeOK, EdgeType
<1>2. {i} \in SUBSET Irqs /\ edge.again \in SUBSET Irqs
  BY DEF TypeOK, EdgeType
<1> QED
  BY <1>1, <1>2 DEF Raise, EdgeType

\* Every step keeps the types.
LEMMA NextTyped == TypeOK /\ [Next]_vars => TypeOK'
<1> SUFFICES ASSUME TypeOK, [Next]_vars PROVE TypeOK'
  OBVIOUS
<1>1. ASSUME NEW rip \in 0 .. RipMod - 1, NEW if \in BOOLEAN, SetRegs(rip, if) PROVE TypeOK'
  <2>1. rip \in Nat /\ (arch.in /\ vcpu.pending_io) \in BOOLEAN
    BY SMTT(30), RunConstants DEF TypeOK, ArchType, VcpuType
  <2>2. vcpu' \in VcpuType
    BY <1>1, <2>1 DEF SetRegs, TypeOK, VcpuType
  <2>3. arch' \in ArchType
    BY <1>1, <2>1 DEF SetRegs, ArchType
  <2> QED
    BY <1>1, <2>2, <2>3 DEF SetRegs, TypeOK
<1>2. ASSUME NEW pg \in BOOLEAN, NEW bad \in BOOLEAN, SetSregs(pg, bad) PROVE TypeOK'
  <2>1. vmcs' \in VmcsType
    BY <1>2 DEF SetSregs, TypeOK, VmcsType
  <2> QED
    BY <1>2, <2>1 DEF SetSregs, TypeOK
<1>3. ASSUME NEW ins \in {"nop", "cli", "sti"}, GuestStep(ins) PROVE TypeOK'
  <2>1. vmcs' \in VmcsType
    BY <1>3, NextRipType DEF GuestStep, TypeOK, VmcsType
  <2>2. vmcs'.rip \in Nat /\ vmcs'.if \in BOOLEAN
    BY <2>1 DEF VmcsType
  <2>3. arch' \in ArchType
    BY <1>3, <2>2 DEF GuestStep, TypeOK, ArchType
  <2> QED
    BY <1>3, <2>1, <2>3 DEF GuestStep, TypeOK
<1>4. ASSUME NEW reason \in Exits, VmExit(reason) PROVE TypeOK'
  <2>1. vmcs' \in VmcsType
    BY <1>4, NoneType DEF VmExit, TypeOK, VmcsType
  <2>2. vmcs.rip \in Nat /\ vmcs.if \in BOOLEAN
    BY DEF TypeOK, VmcsType
  <2>3. vcpu' \in VcpuType
    BY <1>4, <2>2 DEF VmExit, TypeOK, VcpuType
  <2>4. arch' \in ArchType
    BY <1>4, NextRipType DEF VmExit, TypeOK, ArchType
  <2>5. run' \in RunType
    BY <1>4 DEF VmExit, TypeOK, RunType, Labels
  <2> QED
    BY <1>4, <2>1, <2>3, <2>4, <2>5 DEF VmExit, TypeOK
<1>5. ASSUME NEW i \in Irqs, NEW l \in {0, 1}, IrqLine(i, l) PROVE TypeOK'
  <2>1. CASE UNCHANGED line
    BY <1>5, <2>1 DEF IrqLine, TypeOK
  <2>2. CASE line' = [pc |-> "store", irq |-> i, level |-> l, tmp |-> pending]
    <3>1. line' \in LineType
      BY <2>2 DEF TypeOK, LineType
    <3> QED
      BY <1>5, <3>1 DEF IrqLine, TypeOK
  <2> QED
    BY <1>5, <2>1, <2>2 DEF IrqLine
<1>6. CASE EnterRun
  <2>1. vcpu' \in VcpuType
    BY <1>6 DEF EnterRun, TypeOK, VcpuType
  <2>2. run' \in RunType
    BY <1>6 DEF EnterRun, TypeOK, RunType, Labels
  <2> QED
    BY <1>6, <2>1, <2>2 DEF EnterRun, TypeOK
<1>7. CASE Loop
  <2> DEFINE l == IF run.exit = "window" THEN "select" ELSE "enter"
  <2>1. l \in Labels
    BY DEF Labels
  <2>2. \/ run' = [run EXCEPT !.pc = l, !.n = run.n + 1, !.intr = None]
        \/ run' = OutsideRun
    BY <1>7 DEF Loop
  <2> HIDE DEF l
  <2>3. run \in RunType /\ run.n + 1 \in Nat
    BY SMTT(30) DEF TypeOK, RunType
  <2>4. [run EXCEPT !.pc = l, !.n = run.n + 1, !.intr = None] \in RunType
    BY <2>1, <2>3, NoneType DEF RunType
  <2>5. OutsideRun \in RunType
    BY NoneType, ExitTypes DEF OutsideRun, RunType, Labels
  <2> QED
    BY <1>7, <2>2, <2>4, <2>5 DEF Loop, TypeOK
<1>8. CASE Select
  <2>1. CASE pending = {}
    BY <1>8, <2>1 DEF Select, TypeOK, RunType, Labels
  <2>2. CASE pending # {}
    <3> DEFINE x == [irq |-> Min(pending), vec |-> Vector(Min(pending))]
    <3>1. Min(pending) \in Nat
      BY <2>2, MinIn, RunConstants DEF TypeOK
    <3>2. x \in Intrs
      BY SMTT(30), <3>1 DEF Vector, Intrs
    <3>3. run' = [run EXCEPT !.pc = "clear_load", !.intr = x]
      BY <1>8, <2>2 DEF Select
    <3> HIDE DEF x
    <3>4. run' \in RunType
      BY <3>2, <3>3 DEF TypeOK, RunType, Labels
    <3> QED
      BY <1>8, <3>4 DEF Select, TypeOK
  <2> QED
    BY <2>1, <2>2
<1>9. CASE ClearLoad
  <2>1. run' \in RunType
    BY <1>9 DEF ClearLoad, TypeOK, RunType, Labels
  <2> QED
    BY <1>9, <2>1 DEF ClearLoad, TypeOK
<1>10. CASE ClearStore
  <2>1. pending' \in SUBSET Irqs
    BY <1>10 DEF ClearStore, TypeOK, RunType, LineType
  <2>2. run' \in RunType
    BY <1>10 DEF ClearStore, TypeOK, RunType, Labels
  <2>3. edge' \in EdgeType
    <3>1. Torn(run.tmp, run.intr.irq) \in SUBSET Irqs
      BY DEF Torn, TypeOK, RunType, EdgeType
    <3> QED
      BY <1>10, <3>1 DEF ClearStore, TypeOK, EdgeType
  <2> QED
    BY <1>10, <2>1, <2>2, <2>3 DEF ClearStore, TypeOK
<1>11. CASE EnterGuest
  <2>1. vmcs' \in VmcsType
    BY <1>11, EntryType DEF EnterGuest, HandlerRip, VmcsType
  <2>2. arch' \in ArchType
    BY <1>11 DEF EnterGuest, HandlerRip, TypeOK, ArchType
  <2>3. edge' \in EdgeType
    <3> DEFINE o == (edge.owed \ {EntryFields.intr.irq}) \cup edge.again
    <3>1. o \in SUBSET Irqs
      BY DEF TypeOK, EdgeType
    <3>2. edge' = edge \/ edge' = [edge EXCEPT !.owed = o, !.again = {}]
      BY <1>11 DEF EnterGuest
    <3> HIDE DEF o
    <3> QED
      BY <3>1, <3>2 DEF TypeOK, EdgeType
  <2>4. run' \in RunType
    BY <1>11 DEF EnterGuest, TypeOK, RunType, Labels
  <2> QED
    BY <1>11, <2>1, <2>2, <2>3, <2>4 DEF EnterGuest, TypeOK
<1>12. CASE EntryFails
  <2>1. run' \in RunType
    BY <1>12, ExitTypes DEF EntryFails, TypeOK, RunType, Labels
  <2> QED
    BY <1>12, <2>1, EntryType DEF EntryFails, TypeOK
<1>13. CASE HandleIo
  <2>1. vcpu' \in VcpuType
    BY <1>13, NextRipType DEF HandleIo, Continue, SkipEmulatedInstruction, TypeOK, VcpuType
  <2>2. arch' \in ArchType
    BY <1>13 DEF HandleIo, Continue, SkipEmulatedInstruction, TypeOK, ArchType
  <2>3. run' \in RunType
    BY <1>13 DEF HandleIo, Continue, SkipEmulatedInstruction, TypeOK, RunType, Labels
  <2> QED
    BY <1>13, <2>1, <2>2, <2>3 DEF HandleIo, TypeOK
<1>14. CASE HandleSkip
  <2>1. vcpu' \in VcpuType
    BY <1>14, NextRipType DEF HandleSkip, Continue, SkipEmulatedInstruction, TypeOK, VcpuType
  <2>2. run' \in RunType
    BY <1>14 DEF HandleSkip, Continue, SkipEmulatedInstruction, TypeOK, RunType, Labels
  <2> QED
    BY <1>14, <2>1, <2>2 DEF HandleSkip, TypeOK
<1>15. CASE HandleCr
  <2>1. PICK on \in BOOLEAN, bad \in BOOLEAN :
          /\ vmcs' = [vmcs EXCEPT !.pg = on, !.shadow = on, !.unrestricted = ~on,
                                  !.bad = bad]
          /\ vcpu' = [SkipEmulatedInstruction(vcpu) EXCEPT !.paging = on]
    BY <1>15 DEF HandleCr
  <2>2. (~on) \in BOOLEAN
    OBVIOUS
  <2>3. vmcs' \in VmcsType
    BY <2>1, <2>2 DEF TypeOK, VmcsType
  <2>4. vcpu' \in VcpuType
    BY <2>1, NextRipType DEF SkipEmulatedInstruction, TypeOK, VcpuType
  <2>5. run' \in RunType
    BY <1>15 DEF HandleCr, Continue, TypeOK, RunType, Labels
  <2> QED
    BY <1>15, <2>3, <2>4, <2>5 DEF HandleCr, TypeOK
<1>16. CASE HandleNothing
  <2>1. run' \in RunType
    BY <1>16 DEF HandleNothing, Continue, TypeOK, RunType, Labels
  <2> QED
    BY <1>16, <2>1 DEF HandleNothing, TypeOK
<1>17. CASE NoHandler
  <2>1. run' \in RunType
    BY <1>17 DEF NoHandler, Continue, TypeOK, RunType, Labels
  <2> QED
    BY <1>17, <2>1 DEF NoHandler, TypeOK
<1>18. CASE HandleExternal
  <2>1. PICK signal \in BOOLEAN : run' = [run EXCEPT !.pc = "loop", !.cont = ~signal]
    BY <1>18 DEF HandleExternal, Continue
  <2>2. run' \in RunType
    BY <2>1 DEF TypeOK, RunType, Labels
  <2> QED
    BY <1>18, <2>2 DEF HandleExternal, TypeOK
<1>19. CASE TimerLoad
  <2>1. run' \in RunType
    BY ZenonT(30), <1>19 DEF TimerLoad, TypeOK, RunType, Labels
  <2> QED
    BY <1>19, <2>1 DEF TimerLoad, TypeOK
<1>20. CASE TimerStore
  <2>1. PICK signal \in BOOLEAN :
          run' = [run EXCEPT !.pc = "loop", !.cont = ~signal, !.tmp = {}]
    BY <1>20 DEF TimerStore
  <2>2. run' \in RunType
    BY <2>1 DEF TypeOK, RunType, Labels
  <2>3. pending' \in SUBSET Irqs
    BY SMTT(30), <1>20, RunConstants DEF TimerStore, TypeOK, RunType
  <2>4. run.tmp \in SUBSET Irqs /\ 0 \in Irqs /\ Raise(run.tmp, 0)
    BY <1>20, RunConstants DEF TimerStore, TypeOK, RunType
  <2>5. edge' \in EdgeType
    BY <2>4, RaiseType
  <2> QED
    BY <1>20, <2>2, <2>3, <2>5 DEF TimerStore, TypeOK
<1>21. CASE IrqStore
  <2>1. pending' \in SUBSET Irqs
    BY <1>21, RunConstants DEF IrqStore, TypeOK, RunType, LineType
  <2>2. edge' \in EdgeType
    <3>1. line.tmp \in SUBSET Irqs /\ line.irq \in Irqs /\ Raise(line.tmp, line.irq)
      BY <1>21 DEF IrqStore, TypeOK, LineType
    <3> QED
      BY <3>1, RaiseType
  <2>3. line' \in LineType
    BY <1>21, RunConstants DEF IrqStore, TypeOK, LineType
  <2> QED
    BY <1>21, <2>1, <2>2, <2>3 DEF IrqStore, TypeOK
<1>22. CASE HandleEpt
  <2>1. PICK rip \in 0 .. RipMod - 1 :
          vcpu' = [vcpu EXCEPT !.rip = rip] /\ arch' = [arch EXCEPT !.rip = rip]
    BY <1>22 DEF HandleEpt
  <2>2. rip \in Nat
    BY SMTT(30), RunConstants
  <2>3. vcpu' \in VcpuType
    BY <2>1, <2>2 DEF TypeOK, VcpuType
  <2>4. arch' \in ArchType
    BY <2>1, <2>2 DEF TypeOK, ArchType
  <2>5. run' \in RunType
    BY <1>22 DEF HandleEpt, Continue, TypeOK, RunType, Labels
  <2> QED
    BY <1>22, <2>3, <2>4, <2>5 DEF HandleEpt, TypeOK
<1>23. CASE UNCHANGED vars
  BY <1>23 DEF TypeOK, vars
<1> QED
  BY <1>1, <1>2, <1>3, <1>4, <1>5, <1>6, <1>7, <1>8, <1>9, <1>10, <1>11, <1>12,
     <1>13, <1>14, <1>15, <1>16, <1>17, <1>18, <1>19, <1>20, <1>21, <1>22, <1>23
     DEF Next, RunStep

-----------------------------------------------------------------------------

\* Every step moves the vcpu or the VMCS with the guest.
LEMMA NextContinues == TypeOK /\ Continues /\ [Next]_vars => Continues'
<1> SUFFICES ASSUME TypeOK, Continues, [Next]_vars PROVE Continues'
  OBVIOUS
<1> USE DEF TypeOK, VcpuType, VmcsType, RunType, ArchType, LineType, EdgeType,
            Continues, Emulated
<1>1. ASSUME NEW rip \in 0 .. RipMod - 1, NEW if \in BOOLEAN, SetRegs(rip, if) PROVE Continues'
  BY <1>1 DEF SetRegs
<1>2. ASSUME NEW pg \in BOOLEAN, NEW bad \in BOOLEAN, SetSregs(pg, bad) PROVE Continues'
  BY <1>2 DEF SetSregs
<1>3. ASSUME NEW ins \in {"nop", "cli", "sti"}, GuestStep(ins) PROVE Continues'
  BY <1>3 DEF GuestStep
<1>4. ASSUME NEW reason \in Exits, VmExit(reason) PROVE Continues'
  BY <1>4 DEF VmExit
<1>5. ASSUME NEW i \in Irqs, NEW l \in {0, 1}, IrqLine(i, l) PROVE Continues'
  BY <1>5 DEF IrqLine
<1>6. CASE EnterRun
  BY <1>6 DEF EnterRun
<1>7. CASE Loop
  BY <1>7 DEF Loop, OutsideRun
<1>8. CASE Select
  BY <1>8 DEF Select, Vector
<1>9. CASE ClearLoad
  BY <1>9 DEF ClearLoad
<1>10. CASE ClearStore
  BY <1>10 DEF ClearStore
<1>11. CASE EnterGuest
  BY SMTT(30), <1>11, EntryType DEF EnterGuest
<1>12. CASE EntryFails
  BY <1>12, EntryType DEF EntryFails
<1>13. CASE HandleIo
  BY <1>13 DEF HandleIo, Continue, SkipEmulatedInstruction, Handling
<1>14. CASE HandleSkip
  BY <1>14 DEF HandleSkip, Continue, SkipEmulatedInstruction, Handling
<1>15. CASE HandleCr
  BY SMTT(30), <1>15 DEF HandleCr, Continue, SkipEmulatedInstruction, Handling
<1>16. CASE HandleNothing
  BY <1>16 DEF HandleNothing, Continue, Handling
<1>17. CASE NoHandler
  BY <1>17 DEF NoHandler, Continue, Handling
<1>18. CASE HandleExternal
  BY <1>18 DEF HandleExternal, Continue, Handling
<1>19. CASE TimerLoad
  BY <1>19 DEF TimerLoad, Handling
<1>20. CASE TimerStore
  BY <1>20 DEF TimerStore
<1>21. CASE IrqStore
  BY <1>21 DEF IrqStore
<1>22. CASE HandleEpt
  BY SMTT(30), <1>22 DEF HandleEpt, Continue, Handling
<1>23. CASE UNCHANGED vars
  BY <1>23 DEF vars
<1> HIDE DEF TypeOK, Continues
<1> QED
  BY <1>1, <1>2, <1>3, <1>4, <1>5, <1>6, <1>7, <1>8, <1>9, <1>10, <1>11, <1>12,
     <1>13, <1>14, <1>15, <1>16, <1>17, <1>18, <1>19, <1>20, <1>21, <1>22, <1>23
     DEF Next, RunStep

\* No step forgets that the data of an IN is still due.
LEMMA NextInputPending == TypeOK /\ InputPending /\ [Next]_vars => InputPending'
<1> SUFFICES ASSUME TypeOK, InputPending, [Next]_vars PROVE InputPending'
  OBVIOUS
<1> USE DEF TypeOK, VcpuType, VmcsType, RunType, ArchType, LineType, EdgeType,
            InputPending
<1>1. ASSUME NEW rip \in 0 .. RipMod - 1, NEW if \in BOOLEAN, SetRegs(rip, if) PROVE InputPending'
  BY <1>1 DEF SetRegs
<1>2. ASSUME NEW pg \in BOOLEAN, NEW bad \in BOOLEAN, SetSregs(pg, bad) PROVE InputPending'
  BY <1>2 DEF SetSregs
<1>3. ASSUME NEW ins \in {"nop", "cli", "sti"}, GuestStep(ins) PROVE InputPending'
  BY <1>3 DEF GuestStep
<1>4. ASSUME NEW reason \in Exits, VmExit(reason) PROVE InputPending'
  BY <1>4 DEF VmExit
<1>5. ASSUME NEW i \in Irqs, NEW l \in {0, 1}, IrqLine(i, l) PROVE InputPending'
  BY <1>5 DEF IrqLine
<1>6. CASE EnterRun
  BY <1>6 DEF EnterRun
<1>7. CASE Loop
  BY <1>7 DEF Loop, OutsideRun
<1>8. CASE Select
  BY <1>8 DEF Select, Vector
<1>9. CASE ClearLoad
  BY <1>9 DEF ClearLoad
<1>10. CASE ClearStore
  BY <1>10 DEF ClearStore
<1>11. CASE EnterGuest
  BY <1>11, EntryType DEF EnterGuest
<1>12. CASE EntryFails
  BY <1>12, EntryType DEF EntryFails
<1>13. CASE HandleIo
  BY <1>13 DEF HandleIo, Continue, SkipEmulatedInstruction, Handling
<1>14. CASE HandleSkip
  BY <1>14 DEF HandleSkip, Continue, SkipEmulatedInstruction, Handling
<1>15. CASE HandleCr
  BY <1>15 DEF HandleCr, Continue, SkipEmulatedInstruction, Handling
<1>16. CASE HandleNothing
  BY <1>16 DEF HandleNothing, Continue, Handling
<1>17. CASE NoHandler
  BY <1>17 DEF NoHandler, Continue, Handling
<1>18. CASE HandleExternal
  BY <1>18 DEF HandleExternal, Continue, Handling
<1>19. CASE TimerLoad
  BY <1>19 DEF TimerLoad, Handling
<1>20. CASE TimerStore
  BY <1>20 DEF TimerStore
<1>21. CASE IrqStore
  BY <1>21 DEF IrqStore
<1>22. CASE HandleEpt
  BY <1>22 DEF HandleEpt, Continue, Handling
<1>23. CASE UNCHANGED vars
  BY <1>23 DEF vars
<1> HIDE DEF TypeOK, InputPending
<1> QED
  BY <1>1, <1>2, <1>3, <1>4, <1>5, <1>6, <1>7, <1>8, <1>9, <1>10, <1>11, <1>12,
     <1>13, <1>14, <1>15, <1>16, <1>17, <1>18, <1>19, <1>20, <1>21, <1>22, <1>23
     DEF Next, RunStep

\* Between an interrupt-window exit and the entry that injects, nothing closes the guest.
LEMMA NextWindowKept == TypeOK /\ WindowKept /\ [Next]_vars => WindowKept'
<1> SUFFICES ASSUME TypeOK, WindowKept, [Next]_vars PROVE WindowKept'
  OBVIOUS
<1> USE DEF TypeOK, VcpuType, VmcsType, RunType, ArchType, LineType, EdgeType,
            WindowKept, Choosing
<1>1. ASSUME NEW rip \in 0 .. RipMod - 1, NEW if \in BOOLEAN, SetRegs(rip, if) PROVE WindowKept'
  BY <1>1 DEF SetRegs
<1>2. ASSUME NEW pg \in BOOLEAN, NEW bad \in BOOLEAN, SetSregs(pg, bad) PROVE WindowKept'
  BY <1>2 DEF SetSregs
<1>3. ASSUME NEW ins \in {"nop", "cli", "sti"}, GuestStep(ins) PROVE WindowKept'
  BY <1>3 DEF GuestStep
<1>4. ASSUME NEW reason \in Exits, VmExit(reason) PROVE WindowKept'
  BY <1>4 DEF VmExit, WindowOpen
<1>5. ASSUME NEW i \in Irqs, NEW l \in {0, 1}, IrqLine(i, l) PROVE WindowKept'
  BY <1>5 DEF IrqLine
<1>6. CASE EnterRun
  BY <1>6 DEF EnterRun
<1>7. CASE Loop
  BY SMTT(30), <1>7 DEF Loop, OutsideRun
<1>8. CASE Select
  BY <1>8 DEF Select, Vector
<1>9. CASE ClearLoad
  BY <1>9 DEF ClearLoad
<1>10. CASE ClearStore
  BY <1>10 DEF ClearStore
<1>11. CASE EnterGuest
  BY <1>11, EntryType DEF EnterGuest, EntryValid
<1>12. CASE EntryFails
  BY <1>12, EntryType DEF EntryFails, EntryValid
<1>13. CASE HandleIo
  BY <1>13 DEF HandleIo, Continue, SkipEmulatedInstruction, Handling
<1>14. CASE HandleSkip
  BY <1>14 DEF HandleSkip, Continue, SkipEmulatedInstruction, Handling
<1>15. CASE HandleCr
  BY SMTT(30), <1>15 DEF HandleCr, Continue, SkipEmulatedInstruction, Handling
<1>16. CASE HandleNothing
  BY <1>16 DEF HandleNothing, Continue, Handling
<1>17. CASE NoHandler
  BY <1>17 DEF NoHandler, Continue, Handling
<1>18. CASE HandleExternal
  BY SMTT(30), <1>18 DEF HandleExternal, Continue, Handling
<1>19. CASE TimerLoad
  BY <1>19 DEF TimerLoad, Handling
<1>20. CASE TimerStore
  BY SMTT(30), <1>20 DEF TimerStore
<1>21. CASE IrqStore
  BY <1>21 DEF IrqStore
<1>22. CASE HandleEpt
  BY <1>22 DEF HandleEpt, Continue, Handling
<1>23. CASE UNCHANGED vars
  BY <1>23 DEF vars
<1> HIDE DEF TypeOK, WindowKept
<1> QED
  BY <1>1, <1>2, <1>3, <1>4, <1>5, <1>6, <1>7, <1>8, <1>9, <1>10, <1>11, <1>12,
     <1>13, <1>14, <1>15, <1>16, <1>17, <1>18, <1>19, <1>20, <1>21, <1>22, <1>23
     DEF Next, RunStep

\* The vcpu's mode, the read shadow and unrestricted mode change together, in handle_cr
\* only.
LEMMA NextOneMode == TypeOK /\ OneMode /\ [Next]_vars => OneMode'
<1> SUFFICES ASSUME TypeOK, OneMode, [Next]_vars PROVE OneMode'
  OBVIOUS
<1> USE DEF TypeOK, VcpuType, VmcsType, RunType, ArchType, LineType, EdgeType,
            OneMode
<1>1. ASSUME NEW rip \in 0 .. RipMod - 1, NEW if \in BOOLEAN, SetRegs(rip, if) PROVE OneMode'
  BY <1>1 DEF SetRegs
<1>2. ASSUME NEW pg \in BOOLEAN, NEW bad \in BOOLEAN, SetSregs(pg, bad) PROVE OneMode'
  BY <1>2 DEF SetSregs
<1>3. ASSUME NEW ins \in {"nop", "cli", "sti"}, GuestStep(ins) PROVE OneMode'
  BY <1>3 DEF GuestStep
<1>4. ASSUME NEW reason \in Exits, VmExit(reason) PROVE OneMode'
  BY <1>4 DEF VmExit
<1>5. ASSUME NEW i \in Irqs, NEW l \in {0, 1}, IrqLine(i, l) PROVE OneMode'
  BY <1>5 DEF IrqLine
<1>6. CASE EnterRun
  BY <1>6 DEF EnterRun
<1>7. CASE Loop
  BY <1>7 DEF Loop, OutsideRun
<1>8. CASE Select
  BY <1>8 DEF Select, Vector
<1>9. CASE ClearLoad
  BY <1>9 DEF ClearLoad
<1>10. CASE ClearStore
  BY <1>10 DEF ClearStore
<1>11. CASE EnterGuest
  BY <1>11, EntryType DEF EnterGuest
<1>12. CASE EntryFails
  BY <1>12, EntryType DEF EntryFails
<1>13. CASE HandleIo
  BY <1>13 DEF HandleIo, Continue, SkipEmulatedInstruction, Handling
<1>14. CASE HandleSkip
  BY <1>14 DEF HandleSkip, Continue, SkipEmulatedInstruction, Handling
<1>15. CASE HandleCr
  BY SMTT(30), <1>15 DEF HandleCr, Continue, SkipEmulatedInstruction, Handling
<1>16. CASE HandleNothing
  BY <1>16 DEF HandleNothing, Continue, Handling
<1>17. CASE NoHandler
  BY <1>17 DEF NoHandler, Continue, Handling
<1>18. CASE HandleExternal
  BY <1>18 DEF HandleExternal, Continue, Handling
<1>19. CASE TimerLoad
  BY <1>19 DEF TimerLoad, Handling
<1>20. CASE TimerStore
  BY <1>20 DEF TimerStore
<1>21. CASE IrqStore
  BY <1>21 DEF IrqStore
<1>22. CASE HandleEpt
  BY <1>22 DEF HandleEpt, Continue, Handling
<1>23. CASE UNCHANGED vars
  BY <1>23 DEF vars
<1> HIDE DEF TypeOK, OneMode
<1> QED
  BY <1>1, <1>2, <1>3, <1>4, <1>5, <1>6, <1>7, <1>8, <1>9, <1>10, <1>11, <1>12,
     <1>13, <1>14, <1>15, <1>16, <1>17, <1>18, <1>19, <1>20, <1>21, <1>22, <1>23
     DEF Next, RunStep

\* The mode does not change between the choice of a vector and its injection.
LEMMA NextVectorKept ==
         TypeOK /\ WindowKept /\ OneMode /\ VectorKept /\ [Next]_vars => VectorKept'
<1> SUFFICES ASSUME TypeOK, WindowKept, OneMode, VectorKept, [Next]_vars PROVE VectorKept'
  OBVIOUS
<1> USE DEF TypeOK, VcpuType, VmcsType, RunType, ArchType, LineType, EdgeType,
            VectorKept, OneMode, VectorOf, Chosen, WindowKept
<1>1. ASSUME NEW rip \in 0 .. RipMod - 1, NEW if \in BOOLEAN, SetRegs(rip, if) PROVE VectorKept'
  BY <1>1 DEF SetRegs
<1>2. ASSUME NEW pg \in BOOLEAN, NEW bad \in BOOLEAN, SetSregs(pg, bad) PROVE VectorKept'
  BY <1>2 DEF SetSregs
<1>3. ASSUME NEW ins \in {"nop", "cli", "sti"}, GuestStep(ins) PROVE VectorKept'
  BY <1>3 DEF GuestStep
<1>4. ASSUME NEW reason \in Exits, VmExit(reason) PROVE VectorKept'
  BY <1>4 DEF VmExit
<1>5. ASSUME NEW i \in Irqs, NEW l \in {0, 1}, IrqLine(i, l) PROVE VectorKept'
  BY <1>5 DEF IrqLine
<1>6. CASE EnterRun
  BY SMTT(30), <1>6 DEF EnterRun
<1>7. CASE Loop
  BY <1>7 DEF Loop, OutsideRun
<1>8. CASE Select
  <2> DEFINE i == Min(pending)
  <2>1. CASE pending = {}
    BY <1>8, <2>1 DEF Select
  <2>2. CASE pending # {}
    <3>1. i \in pending /\ i \in Nat
      BY <2>2, MinIn, RunConstants
    <3>2. run' = [run EXCEPT !.pc = "clear_load", !.intr = [irq |-> i, vec |-> Vector(i)]]
      BY <1>8, <2>2 DEF Select
    <3> HIDE DEF i
    <3>3. run'.intr = [irq |-> i, vec |-> Vector(i)] /\ run'.pc = "clear_load"
      BY <3>2
    <3>4. run'.intr.irq = i /\ run'.intr.vec = Vector(i) /\ run'.intr # None
      BY SMTT(30), <3>1, <3>3 DEF Vector, None
    <3> QED
      BY <1>8, <3>1, <3>3, <3>4 DEF Select, Vector
  <2> QED
    BY <2>1, <2>2
<1>9. CASE ClearLoad
  BY <1>9 DEF ClearLoad
<1>10. CASE ClearStore
  BY <1>10 DEF ClearStore
<1>11. CASE EnterGuest
  BY SMTT(30), <1>11, EntryType DEF EnterGuest
<1>12. CASE EntryFails
  BY SMTT(30), <1>12, EntryType DEF EntryFails
<1>13. CASE HandleIo
  BY <1>13 DEF HandleIo, Continue, SkipEmulatedInstruction, Handling
<1>14. CASE HandleSkip
  BY <1>14 DEF HandleSkip, Continue, SkipEmulatedInstruction, Handling
<1>15. CASE HandleCr
  BY SMTT(30), <1>15 DEF HandleCr, Continue, SkipEmulatedInstruction, Handling
<1>16. CASE HandleNothing
  BY <1>16 DEF HandleNothing, Continue, Handling
<1>17. CASE NoHandler
  BY <1>17 DEF NoHandler, Continue, Handling
<1>18. CASE HandleExternal
  BY SMTT(30), <1>18 DEF HandleExternal, Continue, Handling
<1>19. CASE TimerLoad
  BY <1>19 DEF TimerLoad, Handling
<1>20. CASE TimerStore
  BY SMTT(30), <1>20 DEF TimerStore
<1>21. CASE IrqStore
  BY <1>21 DEF IrqStore
<1>22. CASE HandleEpt
  BY <1>22 DEF HandleEpt, Continue, Handling
<1>23. CASE UNCHANGED vars
  BY <1>23 DEF vars
<1> HIDE DEF TypeOK, WindowKept, OneMode, VectorKept
<1> QED
  BY <1>1, <1>2, <1>3, <1>4, <1>5, <1>6, <1>7, <1>8, <1>9, <1>10, <1>11, <1>12,
     <1>13, <1>14, <1>15, <1>16, <1>17, <1>18, <1>19, <1>20, <1>21, <1>22, <1>23
     DEF Next, RunStep

\* A store to pending_irq undoes nothing in the lines it does not tear.
LEMMA NextIrqKept ==
         TypeOK /\ WindowKept /\ IrqKept /\ [Next]_vars => IrqKept'
<1> SUFFICES ASSUME TypeOK, WindowKept, IrqKept, [Next]_vars PROVE IrqKept'
  OBVIOUS
<1> USE DEF TypeOK, VcpuType, VmcsType, RunType, ArchType, LineType, EdgeType,
            IrqKept, LineKept, Taken, Chosen, WindowKept, Choosing
<1>1. ASSUME NEW rip \in 0 .. RipMod - 1, NEW if \in BOOLEAN, SetRegs(rip, if) PROVE IrqKept'
  BY <1>1 DEF SetRegs
<1>2. ASSUME NEW pg \in BOOLEAN, NEW bad \in BOOLEAN, SetSregs(pg, bad) PROVE IrqKept'
  BY <1>2 DEF SetSregs
<1>3. ASSUME NEW ins \in {"nop", "cli", "sti"}, GuestStep(ins) PROVE IrqKept'
  BY <1>3 DEF GuestStep
<1>4. ASSUME NEW reason \in Exits, VmExit(reason) PROVE IrqKept'
  BY <1>4 DEF VmExit
<1>5. ASSUME NEW i \in Irqs, NEW l \in {0, 1}, IrqLine(i, l) PROVE IrqKept'
  BY SMTT(30), <1>5 DEF IrqLine
<1>6. CASE EnterRun
  BY <1>6 DEF EnterRun
<1>7. CASE Loop
  BY <1>7 DEF Loop, OutsideRun
<1>8. CASE Select
  <2> DEFINE i == Min(pending)
  <2>1. CASE pending = {}
    BY <1>8, <2>1 DEF Select
  <2>2. CASE pending # {}
    <3>1. i \in pending /\ i \in Nat
      BY <2>2, MinIn, RunConstants
    <3>2. run' = [run EXCEPT !.pc = "clear_load", !.intr = [irq |-> i, vec |-> Vector(i)]]
      BY <1>8, <2>2 DEF Select
    <3> HIDE DEF i
    <3>3. run'.intr = [irq |-> i, vec |-> Vector(i)] /\ run'.pc = "clear_load"
      BY <3>2
    <3>4. run'.intr.irq = i /\ run'.intr.vec = Vector(i) /\ run'.intr # None
      BY SMTT(30), <3>1, <3>3 DEF Vector, None
    <3> QED
      BY <1>8, <3>1, <3>3, <3>4 DEF Select, Vector
  <2> QED
    BY <2>1, <2>2
<1>9. CASE ClearLoad
  BY <1>9 DEF ClearLoad
<1>10. CASE ClearStore
  <2>1. /\ run.pc = "clear_store" /\ run.intr # None /\ run'.pc = "enter" /\ run'.intr = run.intr
        /\ pending' = run.tmp \ {run.intr.irq} /\ edge'.torn = Torn(run.tmp, run.intr.irq)
        /\ edge'.owed = edge.owed /\ edge'.again = edge.again
    BY <1>10 DEF ClearStore
  <2>2. ASSUME NEW i \in Irqs \ edge'.torn PROVE LineKept(i)'
    <3>1. LineKept(i) /\ i \notin edge.again
      BY <2>1, <2>2 DEF Torn
    <3>2. i # run.intr.irq => (i \in run.tmp <=> i \in pending)
      BY <2>1, <2>2 DEF Torn
    <3> QED
      BY <2>1, <3>1, <3>2
  <2> QED
    BY <2>1, <2>2
<1>11. CASE EnterGuest
  BY SMTT(30), <1>11, EntryType DEF EnterGuest
<1>12. CASE EntryFails
  BY <1>12, EntryType DEF EntryFails, EntryValid
<1>13. CASE HandleIo
  BY <1>13 DEF HandleIo, Continue, SkipEmulatedInstruction, Handling
<1>14. CASE HandleSkip
  BY <1>14 DEF HandleSkip, Continue, SkipEmulatedInstruction, Handling
<1>15. CASE HandleCr
  BY <1>15 DEF HandleCr, Continue, SkipEmulatedInstruction, Handling
<1>16. CASE HandleNothing
  BY <1>16 DEF HandleNothing, Continue, Handling
<1>17. CASE NoHandler
  BY <1>17 DEF NoHandler, Continue, Handling
<1>18. CASE HandleExternal
  BY SMTT(30), <1>18 DEF HandleExternal, Continue, Handling
<1>19. CASE TimerLoad
  BY <1>19 DEF TimerLoad, Handling
<1>20. CASE TimerStore
  <2>1. /\ run.pc = "timer_store" /\ run'.pc = "loop" /\ run'.intr = run.intr
        /\ pending' = run.tmp \cup {0} /\ Raise(run.tmp, 0)
    BY <1>20 DEF TimerStore
  <2>2. /\ edge'.torn = Torn(run.tmp, 0) /\ edge'.owed = edge.owed \cup {0}
        /\ edge'.again = edge.again
    BY <2>1 DEF Raise
  <2>3. ASSUME NEW i \in Irqs \ edge'.torn PROVE LineKept(i)'
    <3>1. LineKept(i)
      BY <2>2, <2>3 DEF Torn
    <3>2. i # 0 => (i \in run.tmp <=> i \in pending)
      BY <2>2, <2>3 DEF Torn
    <3> QED
      BY <2>1, <2>2, <3>1, <3>2
  <2> QED
    BY <2>1, <2>2, <2>3
<1>21. CASE IrqStore
  <2> DEFINE k == line.irq
  <2>1. run' = run /\ pending' = line.tmp \cup {k} /\ Raise(line.tmp, k)
    BY <1>21 DEF IrqStore
  <2>2. /\ edge'.torn = Torn(line.tmp, k) /\ edge'.owed = edge.owed \cup {k}
        /\ edge'.again = IF Taken /\ k = run.intr.irq THEN {k} ELSE edge.again
    BY <2>1 DEF Raise
  <2> HIDE DEF k
  <2>3. ASSUME NEW i \in Irqs \ edge'.torn PROVE LineKept(i)'
    <3>1. LineKept(i)
      BY <2>2, <2>3 DEF Torn
    <3>2. i # k => (i \in line.tmp <=> i \in pending)
      BY <2>2, <2>3 DEF Torn
    <3>3. CASE i = k
      <4>1. /\ i \in pending' /\ i \in edge'.owed
            /\ Taken /\ i = run.intr.irq => i \in edge'.again
        BY <2>1, <2>2, <3>3
      <4> QED
        BY <2>1, <4>1
    <3>4. CASE i # k
      <4>1. /\ i \in pending' <=> i \in pending
            /\ i \in edge'.owed <=> i \in edge.owed
            /\ Taken /\ i = run.intr.irq => edge'.again = edge.again
        BY <2>1, <2>2, <3>2, <3>4
      <4> QED
        BY <2>1, <3>1, <4>1
    <3> QED
      BY <3>3, <3>4
  <2>4. \A j \in edge'.again : Taken' /\ j = run'.intr.irq
    <3>1. Taken' <=> Taken
      BY <2>1
    <3>2. \A j \in edge.again : Taken /\ j = run.intr.irq
      OBVIOUS
    <3> HIDE DEF TypeOK, IrqKept, LineKept, WindowKept, Taken
    <3>3. ASSUME NEW j \in edge'.again PROVE Taken /\ j = run.intr.irq
      <4>1. CASE Taken /\ k = run.intr.irq
        <5>1. edge'.again = {k}
          BY <2>2, <4>1
        <5> QED
          BY <4>1, <5>1
      <4>2. CASE ~(Taken /\ k = run.intr.irq)
        BY <2>2, <3>2, <4>2
      <4> QED
        BY <4>1, <4>2
    <3> QED
      BY <2>1, <3>1, <3>3
  <2> QED
    BY <2>1, <2>3, <2>4
<1>22. CASE HandleEpt
  BY <1>22 DEF HandleEpt, Continue, Handling
<1>23. CASE UNCHANGED vars
  BY <1>23 DEF vars
<1> HIDE DEF TypeOK, WindowKept, IrqKept
<1> QED
  BY <1>1, <1>2, <1>3, <1>4, <1>5, <1>6, <1>7, <1>8, <1>9, <1>10, <1>11, <1>12,
     <1>13, <1>14, <1>15, <1>16, <1>17, <1>18, <1>19, <1>20, <1>21, <1>22, <1>23
     DEF Next, RunStep

-----------------------------------------------------------------------------
\* What holds for any client.
IInv == TypeOK /\ Continues /\ InputPending /\ WindowKept

\* The three invariants together are inductive.
THEOREM Invariance == Spec => []IInv
<1>1. Init => IInv
  <2> SUFFICES ASSUME Init PROVE IInv
    OBVIOUS
  <2>1. Continues /\ InputPending /\ WindowKept
    BY DEF Init, OutsideRun, Continues, Emulated, InputPending, WindowKept, Choosing
  <2> QED
    BY <2>1, InitTyped DEF IInv
<1>2. IInv /\ [Next]_vars => IInv'
  BY NextTyped, NextContinues, NextInputPending, NextWindowKept DEF IInv
<1> QED
  BY <1>1, <1>2, PTL DEF Spec

\* The guest goes on exactly where it stopped, and user space sees where that is, for
\* any number of rounds, interrupt lines and instructions.
THEOREM GuestStateIsCarried == Spec => []StateCarried
<1>1. IInv => StateCarried
  BY DEF IInv, TypeOK, VcpuType, VmcsType, ArchType, Continues, StateCarried
<1> QED
  BY Invariance, <1>1, PTL

\* The guest never runs after an IN before the data user space supplied is in RAX.
THEOREM InIsCompleted == Spec => []InCompleted
<1>1. IInv => InCompleted
  BY DEF IInv, InputPending, InCompleted
<1> QED
  BY Invariance, <1>1, PTL

\* kvm_run_wrapper injects into a guest that is open to interrupts and into no other.
THEOREM InjectionIsOpen == Spec => []InjectOnlyWhenOpen
<1>1. IInv => InjectOnlyWhenOpen
  BY DEF IInv, WindowKept, InjectOnlyWhenOpen
<1> QED
  BY Invariance, <1>1, PTL

\* The modes and the vector.
LEMMA ModeInvariance == Spec => [](IInv /\ OneMode /\ VectorKept)
<1>1. Init => OneMode /\ VectorKept
  BY SMTT(30) DEF Init, OutsideRun, OneMode, VectorKept, Chosen
<1>2. IInv /\ OneMode /\ VectorKept /\ [Next]_vars => OneMode' /\ VectorKept'
  BY NextOneMode, NextVectorKept DEF IInv
<1> QED
  BY <1>1, <1>2, Invariance, PTL DEF Spec

\* The vcpu's mode, the CR0.PG the guest reads and unrestricted mode agree, and a guest
\* that reads paging as on runs with it, whatever CR0 the guest and KVM_SET_SREGS write.
THEOREM ModeIsCoherent == Spec => []ModeCoherent
<1>1. IInv /\ OneMode => ModeCoherent
  BY DEF IInv, TypeOK, VcpuType, VmcsType, WindowKept, OneMode, ModeCoherent
<1> QED
  BY <1>1, ModeInvariance, PTL

\* The vector kvm_run_wrapper injects is the one of the mode the guest reads in CR0.PG,
\* for every client.
THEOREM VectorIsOfTheMode == Spec => []VectorMatchesMode
<1>1. VectorKept => VectorMatchesMode
  BY DEF VectorKept, VectorOf, VectorMatchesMode
<1> QED
  BY <1>1, ModeInvariance, PTL

\* What is owed in the lines no stale store has changed.
LEMMA IrqInvariance == Spec => [](IInv /\ IrqKept)
<1>1. Init => IrqKept
  BY SMTT(30) DEF Init, OutsideRun, IrqKept, LineKept, Chosen, Taken
<1>2. IInv /\ IrqKept /\ [Next]_vars => IrqKept'
  BY NextIrqKept DEF IInv
<1> QED
  BY <1>1, <1>2, Invariance, PTL DEF Spec

\* What is in flight is the interrupt chosen: none stays in the VMCS outside the guest.
LEMMA InFlightIsChosen ==
  ASSUME WindowKept
  PROVE  \A i : i \in InFlight <=> Chosen /\ i = run.intr.irq
  BY DEF WindowKept, InFlight, Chosen

\* With KVM_IRQ_LINE and KVM_RUN in any interleaving, a line that was raised is pending
\* or on its way until it is injected, unless a stale store of pending_irq changed it.
THEOREM OnlyTornEdgesAreLost == Spec => []EdgeKept
<1>1. IInv /\ IrqKept => EdgeKept
  BY InFlightIsChosen DEF IInv, TypeOK, EdgeType, IrqKept, LineKept, EdgeKept
<1> QED
  BY <1>1, IrqInvariance, PTL

\* In any interleaving, what is injected was raised since its last injection, unless a
\* stale store of pending_irq brought it back.
THEOREM OnlyTornIrqsRepeat == Spec => []InjectionOwed
<1>1. ASSUME IInv, IrqKept, NEW i \in InFlight, i \notin edge.torn
      PROVE  i \in edge.owed
  <2>1. Chosen /\ i = run.intr.irq
    BY <1>1, InFlightIsChosen DEF IInv
  <2>2. i \in Irqs
    BY <1>1, <2>1 DEF IInv, IrqKept
  <2> QED
    BY <1>1, <2>1, <2>2 DEF IrqKept, LineKept
<1>2. IInv /\ IrqKept => InjectionOwed
  BY <1>1 DEF InjectionOwed
<1> QED
  BY <1>2, IrqInvariance, PTL
=============================================================================
