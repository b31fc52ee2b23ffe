----------------------------- MODULE WorldSwitch -----------------------------
(***************************************************************************)
(* The passage between host and guest in kvm_run (main.cpp:678-809): the   *)
(* host state written by init_host_values, the assembly around VMLAUNCH,   *)
(* and what VM entry and VM exit themselves load and store.                *)
(*                                                                         *)
(* A machine m has the registers of the CPU (m.cpu), the words of the      *)
(* kernel stack (m.stack), the vcpu structure (m.vcpu) and its VMCS        *)
(* (m.vmcs).  Every operator maps a machine to the machine afterwards.     *)
(* System registers have the names of their VMCS fields without GUEST_.    *)
(***************************************************************************)
EXTENDS Vmcs, FiniteSetsExt

\* enum kvm_reg: the index of a register in vcpu->regs.
VCPU_REGS ==
    [rax |-> 0, rcx |-> 1, rdx |-> 2, rbx |-> 3, RSP |-> 4, rbp |-> 5, rsi |-> 6, rdi |-> 7]
    @@ [r8 |-> 8, r9 |-> 9, r10 |-> 10, r11 |-> 11]
    @@ [r12 |-> 12, r13 |-> 13, r14 |-> 14, r15 |-> 15] @@ [RIP |-> 16]

SegmentNames == {"CS", "DS", "ES", "FS", "GS", "SS", "TR", "LDTR"}
SegmentParts == {p \o q : p \in SegmentNames,
                          q \in {"_SELECTOR", "_BASE", "_LIMIT", "_AR_BYTES"}}
Sysenter == {"SYSENTER_CS", "SYSENTER_ESP", "SYSENTER_EIP"}

\* The registers a VM exit stores in the guest-state area and a VM entry loads
\* from it, and those a VM exit loads from the host-state area, with their fields.
GuestOther == {"CR0", "CR3", "CR4", "RSP", "RIP", "RFLAGS", "GDTR_BASE", "GDTR_LIMIT",
               "IDTR_BASE", "IDTR_LIMIT"} \cup Sysenter
GuestArea == SegmentParts \cup GuestOther
GuestField == [r \in SegmentParts |-> Field["GUEST_" \o r]]
              @@ [r \in GuestOther |-> Field["GUEST_" \o r]]
HostName ==
    [CR0 |-> "HOST_CR0", CR3 |-> "HOST_CR3", CR4 |-> "HOST_CR4",
     CS_SELECTOR |-> "HOST_CS_SELECTOR", SS_SELECTOR |-> "HOST_SS_SELECTOR",
     DS_SELECTOR |-> "HOST_DS_SELECTOR", ES_SELECTOR |-> "HOST_ES_SELECTOR",
     FS_SELECTOR |-> "HOST_FS_SELECTOR", GS_SELECTOR |-> "HOST_GS_SELECTOR",
     TR_SELECTOR |-> "HOST_TR_SELECTOR", FS_BASE |-> "HOST_FS_BASE",
     GS_BASE |-> "HOST_GS_BASE", TR_BASE |-> "HOST_TR_BASE",
     GDTR_BASE |-> "HOST_GDTR_BASE", IDTR_BASE |-> "HOST_IDTR_BASE",
     SYSENTER_CS |-> "HOST_IA32_SYSENTER_CS", SYSENTER_ESP |-> "HOST_IA32_SYSENTER_ESP",
     SYSENTER_EIP |-> "HOST_IA32_SYSENTER_EIP", RSP |-> "HOST_RSP", RIP |-> "HOST_RIP"]
HostField == [r \in DOMAIN HostName |-> Field[HostName[r]]]

\* The general registers in the order the assembly loads and saves them; rcx,
\* which holds the address of the vcpu, is apart.
Loaded == <<"rax", "rbx", "rdx", "rsi", "rdi", "rbp", "r8", "r9", "r10", "r11", "r12",
            "r13", "r14", "r15">>
General == ToSet(Loaded) \cup {"rcx"}
Registers == General \cup GuestArea \cup {"CR2"}

VcpuPtr    == 41 .. 46              \* the address of the vcpu in the kernel
vmexit_handler == 43 .. 47          \* and of the code after VMLAUNCH
Garbage    == {63}                  \* what a stray address yields
Number(x)  == MapThenSumSet(LAMBDA b : 2^b, x)

-----------------------------------------------------------------------------
(* seg_base.h: the base of a segment, put together from its descriptor.  desc *)
(* gives the descriptor a selector names in the GDT or the LDT.               *)
Descriptor(base, s, type) ==
    [base0 |-> Trunc(base, 16), base1 |-> Trunc(Shr(base, 16), 8),
     base2 |-> Trunc(Shr(base, 24), 8), base3 |-> Trunc(Shr(base, 32), 32),
     s |-> s, type |-> type]

get_desc_base(d) == d.base0 \cup Shl(d.base1, 16) \cup Shl(d.base2, 24)

segment_base(selector, ldt_selector, desc) ==
    IF selector \subseteq {0, 1} \/ (2 \in selector /\ ldt_selector \subseteq {0, 1}) THEN {}
    ELSE LET d == desc[selector \ {0, 1, 2}]
         IN get_desc_base(d)
            \cup IF d.s = 0 /\ d.type \in {2, 9, 11} THEN Shl(d.base3, 32) ELSE {}

\* The host's table has the descriptor of its busy 64-bit TSS.
HostDescriptors(cpu) ==
    [s \in {cpu["TR_SELECTOR"] \ {0, 1, 2}} |-> Descriptor(cpu["TR_BASE"], 0, 11)]

-----------------------------------------------------------------------------
HostValues(cpu) ==
    << <<64, "HOST_CR0", cpu["CR0"]>>, <<64, "HOST_CR3", cpu["CR3"]>>,
       <<64, "HOST_CR4", cpu["CR4"]>>,
       <<16, "HOST_CS_SELECTOR", cpu["CS_SELECTOR"]>>,
       <<16, "HOST_SS_SELECTOR", cpu["SS_SELECTOR"]>>,
       <<16, "HOST_DS_SELECTOR", cpu["DS_SELECTOR"]>>,
       <<16, "HOST_ES_SELECTOR", cpu["ES_SELECTOR"]>>,
       <<16, "HOST_FS_SELECTOR", cpu["FS_SELECTOR"]>>,
       <<16, "HOST_GS_SELECTOR", cpu["GS_SELECTOR"]>>,
       <<16, "HOST_TR_SELECTOR", cpu["TR_SELECTOR"]>>,
       <<64, "HOST_FS_BASE", cpu["FS_BASE"]>>, <<64, "HOST_GS_BASE", cpu["GS_BASE"]>>,
       <<64, "HOST_TR_BASE",
             segment_base(cpu["TR_SELECTOR"], cpu["LDTR_SELECTOR"], HostDescriptors(cpu))>>,
       <<64, "HOST_GDTR_BASE", cpu["GDTR_BASE"]>>,
       <<64, "HOST_IDTR_BASE", cpu["IDTR_BASE"]>>,
       <<64, "HOST_IA32_SYSENTER_CS", cpu["SYSENTER_CS"]>>,
       <<64, "HOST_IA32_SYSENTER_ESP", cpu["SYSENTER_ESP"]>>,
       <<64, "HOST_IA32_SYSENTER_EIP", cpu["SYSENTER_EIP"]>>,
       <<64, "HOST_RIP", vmexit_handler>> >>

\* The fields of the host-state area can be written, have these widths and are
\* all different: facts about the table of the header.
HostSelectors == {"CS_SELECTOR", "SS_SELECTOR", "DS_SELECTOR", "ES_SELECTOR",
                  "FS_SELECTOR", "GS_SELECTOR", "TR_SELECTOR"}
ASSUME HostFields ==
    \A r \in DOMAIN HostField :
        /\ HostField[r] \in Encodings /\ ~ReadOnly(HostField[r])
        /\ Width(HostField[r]) = IF r \in HostSelectors THEN 16
                                 ELSE IF r = "SYSENTER_CS" THEN 32 ELSE 64
        /\ \A t \in DOMAIN HostField : HostField[r] = HostField[t] => r = t

init_host_values(m) == [m EXCEPT !.vmcs = WriteAll(@, HostValues(m.cpu))]

\* kvm_run up to the assembly: the registers the VMCS holds, and the host state.
LoadBackingStore(m) ==
    init_host_values(
      [m EXCEPT !.vmcs = WriteAll(@, << <<64, "GUEST_RFLAGS", m.vcpu.rflags>>,
                                        <<64, "GUEST_RSP", m.vcpu.regs[VCPU_REGS.RSP]>>,
                                        <<64, "GUEST_RIP", m.vcpu.regs[VCPU_REGS.RIP]>> >>)])

ReadBackingStore(m) ==
    [m EXCEPT !.vcpu.rflags = vmcs_readl(m.vmcs, Field.GUEST_RFLAGS),
              !.vcpu.regs[VCPU_REGS.RSP] = vmcs_readl(m.vmcs, Field.GUEST_RSP),
              !.vcpu.regs[VCPU_REGS.RIP] = vmcs_readl(m.vmcs, Field.GUEST_RIP)]

-----------------------------------------------------------------------------
(* The assembly.  The stack pointer is the number of free words below it.     *)
Push(m, x) ==
    LET n == Number(m.cpu["RSP"]) - 1
    IN [m EXCEPT !.cpu["RSP"] = Bits(n), !.stack[n] = x]

Pop(m, r) ==
    LET n == Number(m.cpu["RSP"])
    IN [m EXCEPT !.cpu[r] = m.stack[n], !.cpu["RSP"] = Bits(n + 1)]

\* mov off(%rcx), %r and mov %r, off(%rcx).
LoadReg(m, r) ==
    [m EXCEPT !.cpu[r] = IF m.cpu["rcx"] = VcpuPtr THEN m.vcpu.regs[VCPU_REGS[r]]
                         ELSE Garbage]
SaveReg(m, r) ==
    IF m.cpu["rcx"] = VcpuPtr THEN [m EXCEPT !.vcpu.regs[VCPU_REGS[r]] = m.cpu[r]] ELSE m

\* Push the host's registers, note the stack pointer in the VMCS field that rdx
\* names, and store the descriptor tables.
StoreHost(m) ==
    LET p == Push(Push(Push(Push(m, m.cpu["rdx"]), m.cpu["rbp"]), m.cpu["rcx"]),
                  m.cpu["rcx"])
    IN [p EXCEPT !.vmcs = vmcs_writel(@, Number(p.cpu["rdx"]), p.cpu["RSP"]),
                 !.vcpu.host_rsp = p.cpu["RSP"],
                 !.vcpu.host_gdtr = <<p.cpu["GDTR_BASE"], p.cpu["GDTR_LIMIT"]>>,
                 !.vcpu.host_idtr = <<p.cpu["IDTR_BASE"], p.cpu["IDTR_LIMIT"]>>,
                 !.vcpu.host_ldtr = p.cpu["LDTR_SELECTOR"]]

\* rcx loaded in its turn, before rdx.
LoadGuestRcxEarly(m) ==
    FoldLeft(LoadReg, [m EXCEPT !.cpu["CR2"] = m.vcpu.cr2],
             <<"rax", "rbx", "rcx">> \o SubSeq(Loaded, 3, Len(Loaded)))

LoadGuest(m) == FoldLeft(LoadReg, [m EXCEPT !.cpu["CR2"] = m.vcpu.cr2], Loaded \o <<"rcx">>)

\* At _vmexit_handler: park the guest's rcx in the placeholder, get the vcpu
\* back, and save the rest.
SaveGuest(m) ==
    LET parked == [m EXCEPT !.stack[Number(m.cpu["RSP"]) + 1] = m.cpu["rcx"]]
        based  == Pop(parked, "rcx")
        n      == Number(based.cpu["RSP"])
        first  == FoldLeft(SaveReg, based, <<"rax", "rbx">>)
        popped == [first EXCEPT !.vcpu.regs[VCPU_REGS.rcx] = first.stack[n],
                                !.cpu["RSP"] = Bits(n + 1)]
        saved  == FoldLeft(SaveReg, popped, SubSeq(Loaded, 3, Len(Loaded)))
    IN [saved EXCEPT !.cpu["rax"] = saved.cpu["CR2"], !.vcpu.cr2 = saved.cpu["CR2"]]

\* The descriptor-table limits left as the VM exit set them.
LoadHostNoLimits(m) ==
    LET p == Pop(Pop(m, "rbp"), "rdx")
    IN [p EXCEPT !.vcpu.fail = IF m.cpu["RFLAGS"] \cap {0, 6} # {} THEN {0} ELSE {},
                 !.cpu["LDTR_SELECTOR"] = m.vcpu.host_ldtr]

\* setb: the carry flag only.
LoadHostCarryOnly(m) ==
    LET p == Pop(Pop(m, "rbp"), "rdx")
    IN [p EXCEPT !.vcpu.fail = IF 0 \in m.cpu["RFLAGS"] THEN {0} ELSE {},
                 !.cpu["LDTR_SELECTOR"] = m.vcpu.host_ldtr,
                 !.cpu["IDTR_BASE"] = m.vcpu.host_idtr[1],
                 !.cpu["IDTR_LIMIT"] = m.vcpu.host_idtr[2],
                 !.cpu["GDTR_BASE"] = m.vcpu.host_gdtr[1],
                 !.cpu["GDTR_LIMIT"] = m.vcpu.host_gdtr[2]]

\* setbe: fail if VMLAUNCH left the carry or the zero flag set.
LoadHost(m) ==
    LET p == Pop(Pop(m, "rbp"), "rdx")
    IN [p EXCEPT !.vcpu.fail = IF m.cpu["RFLAGS"] \cap {0, 6} # {} THEN {0} ELSE {},
                 !.cpu["LDTR_SELECTOR"] = m.vcpu.host_ldtr,
                 !.cpu["IDTR_BASE"] = m.vcpu.host_idtr[1],
                 !.cpu["IDTR_LIMIT"] = m.vcpu.host_idtr[2],
                 !.cpu["GDTR_BASE"] = m.vcpu.host_gdtr[1],
                 !.cpu["GDTR_LIMIT"] = m.vcpu.host_gdtr[2]]

-----------------------------------------------------------------------------
(* The processor.  VM entry loads the guest-state area; VM exit stores it and *)
(* loads the host-state area, with wide descriptor-table limits and no LDT;   *)
(* an entry that fails on the guest state loads the host state only; and a    *)
(* VMLAUNCH that fails on the controls or the host state loads nothing, sets  *)
(* the zero flag and goes on at the next instruction, the jump to the code    *)
(* after VMRESUME.  The system-call registers are in both areas.              *)
EnterGuest(m) ==
    [m EXCEPT !.cpu = [r \in GuestArea |-> m.vmcs[GuestField[r]]] @@ m.cpu]

LoadHostArea(m) ==
    [m EXCEPT !.cpu = [r \in DOMAIN @ |->
        CASE r \in DOMAIN HostField -> m.vmcs[HostField[r]]
          [] r \in {"GDTR_LIMIT", "IDTR_LIMIT"} -> 0 .. 15
          [] r = "LDTR_SELECTOR" -> {}
          [] r = "RFLAGS" -> {1}
          [] OTHER -> m.cpu[r]]]

\* EXIT_REASON_CPUID, EXIT_REASON_TRIPLE_FAULT and EXIT_REASON_INVALID_STATE, the last
\* with the bit of a failed entry.
EXIT_REASON == [CPUID |-> Bits(10), TRIPLE_FAULT |-> Bits(2), INVALID_STATE |-> Bits(33) \cup {31}]

LeaveGuest(m, reason) ==
    LET area == AntiFunction(GuestField)
    IN LoadHostArea([m EXCEPT !.vmcs = (Field.VM_EXIT_REASON :> reason)
                                       @@ [f \in DOMAIN area |-> m.cpu[area[f]]] @@ @])

EntryFailure(m) ==
    LoadHostArea([m EXCEPT !.vmcs[Field.VM_EXIT_REASON] = EXIT_REASON.INVALID_STATE])

\* VMfailValid; without a current VMCS it would be the carry flag and no error number,
\* but kvm_run runs between LOAD_VMCS and RELEASE_VMCS.
LaunchRefused(m) ==
    [m EXCEPT !.vmcs[Field.VM_INSTRUCTION_ERROR] = Bits(7), !.cpu["RFLAGS"] = {1, 6}]
==============================================================================
