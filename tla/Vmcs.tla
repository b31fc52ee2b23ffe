-------------------------------- MODULE Vmcs --------------------------------
(***************************************************************************)
(* The contents of the VMCS as the driver reads and writes them: the field *)
(* encodings and control bits of include/asm/vmx.h, the accessors of       *)
(* helpers/vmcs.h, the segment functions of helpers/vmx_segments.h, and    *)
(* the functions of main.cpp that fill the fields in: init_host_values,    *)
(* vcpu_init, kvm_set_sregs and kvm_get_sregs.                             *)
(*                                                                         *)
(* A machine word is the set of the positions of its one bits, so that     *)
(* "or" is union and truncation to w bits keeps the positions below w.  A  *)
(* VMCS is a function from field encodings to words.                       *)
(***************************************************************************)
EXTENDS Naturals, SequencesExt

Bits(n) == {b \in 0 .. 30 : (n \div 2^b) % 2 = 1}
Shl(x, k) == {b + k : b \in x}
Shr(x, k) == {b - k : b \in {c \in x : c >= k}}
Trunc(x, w) == {b \in x : b < w}
SignExtend31 == 31 .. 63            \* the int (1 << 31) as an unsigned long
AllOnes == 0 .. 63

-----------------------------------------------------------------------------
(* Field encodings (enum vmcs_field), in the order of the header. *)
Selectors ==
    [ VIRTUAL_PROCESSOR_ID |-> \h0000, POSTED_INTR_NV      |-> \h0002,
      GUEST_ES_SELECTOR    |-> \h0800, GUEST_CS_SELECTOR   |-> \h0802,
      GUEST_SS_SELECTOR    |-> \h0804, GUEST_DS_SELECTOR   |-> \h0806,
      GUEST_FS_SELECTOR    |-> \h0808, GUEST_GS_SELECTOR   |-> \h080a,
      GUEST_LDTR_SELECTOR  |-> \h080c, GUEST_TR_SELECTOR   |-> \h080e,
      GUEST_INTR_STATUS    |-> \h0810,
      HOST_ES_SELECTOR     |-> \h0c00, HOST_CS_SELECTOR    |-> \h0c02,
      HOST_SS_SELECTOR     |-> \h0c04, HOST_DS_SELECTOR    |-> \h0c06,
      HOST_FS_SELECTOR     |-> \h0c08, HOST_GS_SELECTOR    |-> \h0c0a,
      HOST_TR_SELECTOR     |-> \h0c0c ]

\* The 64-bit fields; X_HIGH, the upper half of X, has the encoding after X.
Wide ==
    [ IO_BITMAP_A            |-> \h2000, IO_BITMAP_B            |-> \h2002,
      MSR_BITMAP             |-> \h2004, VM_EXIT_MSR_STORE_ADDR |-> \h2006,
      VM_EXIT_MSR_LOAD_ADDR  |-> \h2008, VM_ENTRY_MSR_LOAD_ADDR |-> \h200a,
      TSC_OFFSET             |-> \h2010, VIRTUAL_APIC_PAGE_ADDR |-> \h2012,
      APIC_ACCESS_ADDR       |-> \h2014, POSTED_INTR_DESC_ADDR  |-> \h2016,
      EPT_POINTER            |-> \h201a, EOI_EXIT_BITMAP0       |-> \h201c,
      EOI_EXIT_BITMAP1       |-> \h201e, EOI_EXIT_BITMAP2       |-> \h2020,
      EOI_EXIT_BITMAP3       |-> \h2022, VMREAD_BITMAP          |-> \h2026,
      VMWRITE_BITMAP         |-> \h2028, GUEST_PHYSICAL_ADDRESS |-> \h2400,
      VMCS_LINK_POINTER      |-> \h2800, GUEST_IA32_DEBUGCTL    |-> \h2802,
      GUEST_IA32_PAT         |-> \h2804, GUEST_IA32_EFER        |-> \h2806,
      GUEST_IA32_PERF_GLOBAL_CTRL |-> \h2808,
      GUEST_PDPTR0           |-> \h280a, GUEST_PDPTR1           |-> \h280c,
      GUEST_PDPTR2           |-> \h280e, GUEST_PDPTR3           |-> \h2810,
      GUEST_BNDCFGS          |-> \h2812, HOST_IA32_PAT          |-> \h2c00,
      HOST_IA32_EFER         |-> \h2c02, HOST_IA32_PERF_GLOBAL_CTRL |-> \h2c04 ]

Controls32 ==
    [ PIN_BASED_VM_EXEC_CONTROL   |-> \h4000, CPU_BASED_VM_EXEC_CONTROL |-> \h4002,
      EXCEPTION_BITMAP            |-> \h4004, PAGE_FAULT_ERROR_CODE_MASK |-> \h4006,
      PAGE_FAULT_ERROR_CODE_MATCH |-> \h4008, CR3_TARGET_COUNT          |-> \h400a,
      VM_EXIT_CONTROLS            |-> \h400c, VM_EXIT_MSR_STORE_COUNT   |-> \h400e,
      VM_EXIT_MSR_LOAD_COUNT      |-> \h4010, VM_ENTRY_CONTROLS         |-> \h4012,
      VM_ENTRY_MSR_LOAD_COUNT     |-> \h4014, VM_ENTRY_INTR_INFO_FIELD  |-> \h4016,
      VM_ENTRY_EXCEPTION_ERROR_CODE |-> \h4018, VM_ENTRY_INSTRUCTION_LEN |-> \h401a,
      TPR_THRESHOLD               |-> \h401c, SECONDARY_VM_EXEC_CONTROL |-> \h401e,
      PLE_GAP                     |-> \h4020, PLE_WINDOW                |-> \h4022,
      VM_INSTRUCTION_ERROR        |-> \h4400, VM_EXIT_REASON            |-> \h4402,
      VM_EXIT_INTR_INFO           |-> \h4404, VM_EXIT_INTR_ERROR_CODE   |-> \h4406,
      IDT_VECTORING_INFO_FIELD    |-> \h4408, IDT_VECTORING_ERROR_CODE  |-> \h440a,
      VM_EXIT_INSTRUCTION_LEN     |-> \h440c, VMX_INSTRUCTION_INFO      |-> \h440e ]

Guest32 ==
    [ GUEST_ES_LIMIT      |-> \h4800, GUEST_CS_LIMIT      |-> \h4802,
      GUEST_SS_LIMIT      |-> \h4804, GUEST_DS_LIMIT      |-> \h4806,
      GUEST_FS_LIMIT      |-> \h4808, GUEST_GS_LIMIT      |-> \h480a,
      GUEST_LDTR_LIMIT    |-> \h480c, GUEST_TR_LIMIT      |-> \h480e,
      GUEST_GDTR_LIMIT    |-> \h4810, GUEST_IDTR_LIMIT    |-> \h4812,
      GUEST_ES_AR_BYTES   |-> \h4814, GUEST_CS_AR_BYTES   |-> \h4816,
      GUEST_SS_AR_BYTES   |-> \h4818, GUEST_DS_AR_BYTES   |-> \h481a,
      GUEST_FS_AR_BYTES   |-> \h481c, GUEST_GS_AR_BYTES   |-> \h481e,
      GUEST_LDTR_AR_BYTES |-> \h4820, GUEST_TR_AR_BYTES   |-> \h4822,
      GUEST_INTERRUPTIBILITY_INFO |-> \h4824, GUEST_ACTIVITY_STATE |-> \h4826,
      GUEST_SYSENTER_CS   |-> \h482A, VMX_PREEMPTION_TIMER_VALUE   |-> \h482E,
      HOST_IA32_SYSENTER_CS |-> \h4c00 ]

Natural ==
    [ CR0_GUEST_HOST_MASK |-> \h6000, CR4_GUEST_HOST_MASK |-> \h6002,
      CR0_READ_SHADOW     |-> \h6004, CR4_READ_SHADOW     |-> \h6006,
      CR3_TARGET_VALUE0   |-> \h6008, CR3_TARGET_VALUE1   |-> \h600a,
      CR3_TARGET_VALUE2   |-> \h600c, CR3_TARGET_VALUE3   |-> \h600e,
      EXIT_QUALIFICATION  |-> \h6400, GUEST_LINEAR_ADDRESS |-> \h640a,
      GUEST_CR0           |-> \h6800, GUEST_CR3           |-> \h6802,
      GUEST_CR4           |-> \h6804, GUEST_ES_BASE       |-> \h6806,
      GUEST_CS_BASE       |-> \h6808, GUEST_SS_BASE       |-> \h680a,
      GUEST_DS_BASE       |-> \h680c, GUEST_FS_BASE       |-> \h680e,
      GUEST_GS_BASE       |-> \h6810, GUEST_LDTR_BASE     |-> \h6812,
      GUEST_TR_BASE       |-> \h6814, GUEST_GDTR_BASE     |-> \h6816,
      GUEST_IDTR_BASE     |-> \h6818, GUEST_DR7           |-> \h681a,
      GUEST_RSP           |-> \h681c, GUEST_RIP           |-> \h681e,
      GUEST_RFLAGS        |-> \h6820, GUEST_PENDING_DBG_EXCEPTIONS |-> \h6822,
      GUEST_SYSENTER_ESP  |-> \h6824, GUEST_SYSENTER_EIP  |-> \h6826,
      HOST_CR0            |-> \h6c00, HOST_CR3            |-> \h6c02,
      HOST_CR4            |-> \h6c04, HOST_FS_BASE        |-> \h6c06,
      HOST_GS_BASE        |-> \h6c08, HOST_TR_BASE        |-> \h6c0a,
      HOST_GDTR_BASE      |-> \h6c0c, HOST_IDTR_BASE      |-> \h6c0e,
      HOST_IA32_SYSENTER_ESP |-> \h6c10, HOST_IA32_SYSENTER_EIP |-> \h6c12,
      HOST_RSP            |-> \h6c14, HOST_RIP            |-> \h6c16 ]

Field == Selectors @@ Wide @@ Controls32 @@ Guest32 @@ Natural

Encodings == Range(Field)

\* The processor's reading of an encoding: the width of the field, and whether
\* VMWRITE may change it.
Width(e)    == CASE (e \div \h2000) % 4 = 0 -> 16 [] (e \div \h2000) % 4 = 2 -> 32
                 [] OTHER -> 64
ReadOnly(e) == (e \div \h400) % 4 = 1

-----------------------------------------------------------------------------
(* Accessors, on a CPU that has all the fields (on another, VMWRITE fails     *)
(* with instruction error 12).  A field keeps the low bits it has room for; a *)
(* VMWRITE to a read-only field fails with instruction error 13; and the C    *)
(* types of the accessors truncate once more.                                 *)
VmWrite(f, x) ==
    IF ReadOnly(f) THEN [field |-> Field.VM_INSTRUCTION_ERROR, word |-> Bits(13)]
    ELSE [field |-> f, word |-> Trunc(x, Width(f))]
vmcs_writel(v, f, x) == LET w == VmWrite(f, x) IN [v EXCEPT ![w.field] = w.word]
vmcs_write16(v, f, x) == vmcs_writel(v, f, Trunc(x, 16))
vmcs_write32(v, f, x) == vmcs_writel(v, f, Trunc(x, 32))
vmcs_readl(v, f)  == v[f]
vmcs_read16(v, f) == Trunc(v[f], 16)
vmcs_read32(v, f) == Trunc(v[f], 32)

\* A sequence of writes <<accessor width, field name, word>>, no field twice.
WriteAll(v, ws) ==
    LET done == {VmWrite(Field[w[2]], Trunc(w[3], w[1])) : w \in ToSet(ws)}
    IN [f \in DOMAIN v |-> IF \E d \in done : d.field = f
                           THEN (CHOOSE d \in done : d.field = f).word ELSE v[f]]

-----------------------------------------------------------------------------
(* Controls (vmx.h). *)
CPU_BASED ==
    [ VIRTUAL_INTR_PENDING |-> {2},  USE_TSC_OFFSETING  |-> {3},  HLT_EXITING     |-> {7},
      INVLPG_EXITING       |-> {9},  MWAIT_EXITING      |-> {10}, RDPMC_EXITING   |-> {11},
      RDTSC_EXITING        |-> {12}, CR3_LOAD_EXITING   |-> {15}, CR3_STORE_EXITING |-> {16},
      CR8_LOAD_EXITING     |-> {19}, CR8_STORE_EXITING  |-> {20}, TPR_SHADOW      |-> {21},
      VIRTUAL_NMI_PENDING  |-> {22}, MOV_DR_EXITING     |-> {23}, UNCOND_IO_EXITING |-> {24},
      USE_IO_BITMAPS       |-> {25}, USE_MSR_BITMAPS    |-> {28}, MONITOR_EXITING |-> {29},
      PAUSE_EXITING        |-> {30}, ACTIVATE_SECONDARY_CONTROLS |-> {31},
      ALWAYSON_WITHOUT_TRUE_MSR |-> Bits(\h0401e172) ]
SECONDARY_EXEC ==
    [ VIRTUALIZE_APIC_ACCESSES |-> {0}, ENABLE_EPT         |-> {1},  RDTSCP         |-> {3},
      VIRTUALIZE_X2APIC_MODE   |-> {4}, ENABLE_VPID        |-> {5},  WBINVD_EXITING |-> {6},
      UNRESTRICTED_GUEST       |-> {7}, APIC_REGISTER_VIRT |-> {8},
      VIRTUAL_INTR_DELIVERY    |-> {9}, PAUSE_LOOP_EXITING |-> {10},
      ENABLE_INVPCID           |-> {12}, SHADOW_VMCS       |-> {14} ]
PIN_BASED ==
    [ EXT_INTR_MASK |-> {0}, NMI_EXITING |-> {3}, VIRTUAL_NMIS |-> {5},
      VMX_PREEMPTION_TIMER |-> {6}, POSTED_INTR |-> {7},
      ALWAYSON_WITHOUT_TRUE_MSR |-> Bits(\h16) ]
VM_EXIT ==
    [ SAVE_DEBUG_CONTROLS |-> {2},  HOST_ADDR_SPACE_SIZE |-> {9},
      LOAD_IA32_PERF_GLOBAL_CTRL |-> {12}, ACK_INTR_ON_EXIT |-> {15},
      SAVE_IA32_PAT       |-> {18}, LOAD_IA32_PAT        |-> {19},
      SAVE_IA32_EFER      |-> {20}, LOAD_IA32_EFER       |-> {21},
      SAVE_VMX_PREEMPTION_TIMER |-> {22}, CLEAR_BNDCFGS  |-> {23},
      ALWAYSON_WITHOUT_TRUE_MSR |-> Bits(\h36dff) ]
VM_ENTRY ==
    [ LOAD_DEBUG_CONTROLS |-> {2},  IA32E_MODE           |-> {9},
      SMM                 |-> {10}, DEACT_DUAL_MONITOR   |-> {11},
      LOAD_IA32_PERF_GLOBAL_CTRL |-> {13}, LOAD_IA32_PAT |-> {14},
      LOAD_IA32_EFER      |-> {15}, LOAD_BNDCFGS         |-> {16},
      ALWAYSON_WITHOUT_TRUE_MSR |-> Bits(\h11ff) ]

\* vcpu_init.  pa gives the physical addresses of the pages the vcpu owns and
\* host the registers of the CPU that creates the VM.
VcpuInitWrites(pa, host) ==
    << <<32, "EXCEPTION_BITMAP", {}>>,
       <<64, "EPT_POINTER", pa.pml4 \cup Bits(24)>>,
       <<64, "VIRTUAL_APIC_PAGE_ADDR", pa.virtual_apic_page>>,
       <<64, "APIC_ACCESS_ADDR", pa.apic_access>>,
       <<32, "PIN_BASED_VM_EXEC_CONTROL",
             PIN_BASED.ALWAYSON_WITHOUT_TRUE_MSR \cup PIN_BASED.NMI_EXITING
                 \cup PIN_BASED.EXT_INTR_MASK>>,
       <<32, "CPU_BASED_VM_EXEC_CONTROL",
             (CPU_BASED.ALWAYSON_WITHOUT_TRUE_MSR
                 \ (CPU_BASED.CR3_LOAD_EXITING \cup CPU_BASED.CR3_STORE_EXITING))
             \cup CPU_BASED.TPR_SHADOW \cup CPU_BASED.ACTIVATE_SECONDARY_CONTROLS
             \cup CPU_BASED.UNCOND_IO_EXITING \cup CPU_BASED.MOV_DR_EXITING>>,
       <<32, "SECONDARY_VM_EXEC_CONTROL",
             SECONDARY_EXEC.UNRESTRICTED_GUEST \cup SECONDARY_EXEC.ENABLE_EPT
                 \cup SECONDARY_EXEC.VIRTUALIZE_APIC_ACCESSES>>,
       <<32, "VM_EXIT_CONTROLS",
             VM_EXIT.ALWAYSON_WITHOUT_TRUE_MSR \cup VM_EXIT.HOST_ADDR_SPACE_SIZE>>,
       <<32, "VM_ENTRY_CONTROLS", VM_ENTRY.ALWAYSON_WITHOUT_TRUE_MSR>>,
       <<32, "PAGE_FAULT_ERROR_CODE_MASK", {}>>, <<32, "PAGE_FAULT_ERROR_CODE_MATCH", {}>>,
       <<32, "CR3_TARGET_COUNT", {}>>, <<32, "VM_EXIT_MSR_STORE_COUNT", {}>>,
       <<32, "VM_EXIT_MSR_LOAD_COUNT", {}>>, <<32, "VM_ENTRY_MSR_LOAD_COUNT", {}>>,
       <<64, "VMCS_LINK_POINTER", AllOnes>>, <<64, "GUEST_IA32_DEBUGCTL", {}>>,
       <<64, "VM_EXIT_MSR_STORE_ADDR", AllOnes>>, <<64, "VM_EXIT_MSR_LOAD_ADDR", AllOnes>>,
       <<64, "VM_ENTRY_MSR_LOAD_ADDR", AllOnes>>,
       <<32, "VM_ENTRY_EXCEPTION_ERROR_CODE", {}>>, <<32, "VM_ENTRY_INSTRUCTION_LEN", {}>>,
       <<32, "TPR_THRESHOLD", {}>>,
       <<64, "CR0_GUEST_HOST_MASK", SignExtend31>>, <<64, "CR0_READ_SHADOW", {}>>,
       <<64, "CR4_GUEST_HOST_MASK", {13}>>, <<64, "CR4_READ_SHADOW", {}>>,
       <<64, "CR3_TARGET_VALUE0", {}>>, <<64, "CR3_TARGET_VALUE1", {}>>,
       <<64, "CR3_TARGET_VALUE2", {}>>, <<64, "CR3_TARGET_VALUE3", {}>>,
       <<64, "GUEST_PENDING_DBG_EXCEPTIONS", {}>>,
       <<32, "GUEST_INTERRUPTIBILITY_INFO", {}>>, <<32, "GUEST_ACTIVITY_STATE", {}>>,
       <<64, "VMX_PREEMPTION_TIMER_VALUE", {}>>,
       <<64, "GUEST_SYSENTER_CS", host.sysenter_cs>>,
       <<64, "GUEST_SYSENTER_ESP", host.sysenter_esp>>,
       <<64, "GUEST_SYSENTER_EIP", host.sysenter_eip>> >>

vcpu_init(v, pa, host) == WriteAll(v, VcpuInitWrites(pa, host))

-----------------------------------------------------------------------------
(* Segments (vmx_segments.h).  The attributes of a segment are words too; the *)
(* one-bit ones are {} or {0}.                                                *)
SegName == [cs |-> "CS", ds |-> "DS", es |-> "ES", fs |-> "FS", gs |-> "GS", ss |-> "SS",
            tr |-> "TR", ldt |-> "LDTR"]
Segments == DOMAIN SegName

VMX_SEGMENT_FIELD(seg) ==
    [selector |-> Field["GUEST_" \o seg \o "_SELECTOR"],
     base     |-> Field["GUEST_" \o seg \o "_BASE"],
     limit    |-> Field["GUEST_" \o seg \o "_LIMIT"],
     ar_bytes |-> Field["GUEST_" \o seg \o "_AR_BYTES"]]
kvm_vmx_segment_fields == [s \in Segments |-> VMX_SEGMENT_FIELD(SegName[s])]

NoAttributes ==
    [type |-> {}, present |-> {}, dpl |-> {}, db |-> {}, s |-> {}, l |-> {}, g |-> {},
     avl |-> {}, unusable |-> {}]

\* The privilege level shifted to the bits of the system flag.
AccessRightsWrongDpl(a) ==
    IF a.unusable # {} \/ a.present = {} THEN {16}
    ELSE Trunc(a.type, 4) \cup Shl(Trunc(a.s, 1), 4) \cup Shl(Trunc(a.dpl, 2), 4)
         \cup Shl(Trunc(a.present, 1), 7) \cup Shl(Trunc(a.avl, 1), 12)
         \cup Shl(Trunc(a.l, 1), 13) \cup Shl(Trunc(a.db, 1), 14) \cup Shl(Trunc(a.g, 1), 15)

vmx_segment_access_rights(a) ==
    IF a.unusable # {} \/ a.present = {} THEN {16}
    ELSE Trunc(a.type, 4) \cup Shl(Trunc(a.s, 1), 4) \cup Shl(Trunc(a.dpl, 2), 5)
         \cup Shl(Trunc(a.present, 1), 7) \cup Shl(Trunc(a.avl, 1), 12)
         \cup Shl(Trunc(a.l, 1), 13) \cup Shl(Trunc(a.db, 1), 14) \cup Shl(Trunc(a.g, 1), 15)

kvm_set_segment(v, var, seg) ==
    LET sf == kvm_vmx_segment_fields[seg]
    IN vmcs_write32(
         vmcs_write16(
           vmcs_write32(vmcs_writel(v, sf.base, var.base), sf.limit, var.limit),
           sf.selector, var.selector),
         sf.ar_bytes, vmx_segment_access_rights(var.attr))

\* Only base, limit and selector are filled in; the attributes of the caller's
\* structure stay as they were.
kvm_get_segment(v, var, seg) ==
    LET sf == kvm_vmx_segment_fields[seg]
    IN [var EXCEPT !.base = vmcs_readl(v, sf.base), !.limit = vmcs_read32(v, sf.limit),
                   !.selector = vmcs_read16(v, sf.selector)]

\* The segment access-rights format of the processor, with the masks of vmx.h.
SegmentAr(ar) ==
    [unusable |-> 16 \in ar, type |-> ar \cap (0 .. 3), s |-> 4 \in ar,
     dpl |-> Trunc(Shr(ar, 5), 2), present |-> 7 \in ar, l |-> 13 \in ar, db |-> 14 \in ar,
     g |-> 15 \in ar, reserved |-> ar \cap ((8 .. 11) \cup (17 .. 31))]

\* The access rights ar are those of attributes a: unusable exactly if a is marked
\* so or not present, and otherwise with every attribute in its bits.
RightsOf(a, ar) ==
    LET d == SegmentAr(ar)
    IN /\ d.unusable <=> (a.unusable # {} \/ a.present = {})
       /\ d.reserved = {}
       /\ ~d.unusable =>
              /\ d.type = a.type /\ d.dpl = a.dpl /\ d.present
              /\ d.s = (a.s # {}) /\ d.l = (a.l # {}) /\ d.db = (a.db # {})
              /\ d.g = (a.g # {}) /\ (12 \in ar) = (a.avl # {})

-----------------------------------------------------------------------------
(* KVM_SET_SREGS and KVM_GET_SREGS, the VMCS half; vcpu->cr2 is not in the    *)
(* VMCS, and cr8, apic_base and interrupt_bitmap are not used.                *)
SetSegments(v, segs) ==
    LET set(u, s) == kvm_set_segment(u, segs[s], s)
    IN set(set(set(set(set(set(set(set(v, "cs"), "ss"), "ds"), "es"), "fs"), "gs"), "tr"),
           "ldt")

SetSregsFields(v, r) ==
    LET w == SetSegments(
               WriteAll(v, << <<64, "GUEST_CR0", r.cr0 \cup {5}>>, <<64, "GUEST_CR3", r.cr3>>,
                              <<64, "GUEST_CR4", r.cr4 \cup {13}>> >>), r.seg)
    IN WriteAll(w, << <<32, "GUEST_IDTR_LIMIT", r.idt.limit>>,
                      <<64, "GUEST_IDTR_BASE", r.idt.base>>,
                      <<32, "GUEST_GDTR_LIMIT", r.gdt.limit>>,
                      <<64, "GUEST_GDTR_BASE", r.gdt.base>>,
                      <<64, "GUEST_IA32_EFER", r.efer>> >>)

\* r is the caller's structure; the limits of the descriptor tables are __u16.
GetSregsFields(v, r) ==
    [r EXCEPT !.cr0 = vmcs_readl(v, Field.GUEST_CR0),
              !.cr3 = vmcs_readl(v, Field.GUEST_CR3),
              !.cr4 = vmcs_readl(v, Field.GUEST_CR4),
              !.seg = [s \in Segments |-> kvm_get_segment(v, r.seg[s], s)],
              !.idt = [limit |-> Trunc(vmcs_read32(v, Field.GUEST_IDTR_LIMIT), 16),
                       base  |-> vmcs_readl(v, Field.GUEST_IDTR_BASE)],
              !.gdt = [limit |-> Trunc(vmcs_read32(v, Field.GUEST_GDTR_LIMIT), 16),
                       base  |-> vmcs_readl(v, Field.GUEST_GDTR_BASE)],
              !.efer = vmcs_readl(v, Field.GUEST_IA32_EFER)]

\* The fields these two commands use can be written, have the width of what is
\* written, and are all different: facts about the table of the header.
PartWidth == [selector |-> 16, base |-> 64, limit |-> 32, ar_bytes |-> 32]
SregsWidth ==
    [GUEST_CR0 |-> 64, GUEST_CR3 |-> 64, GUEST_CR4 |-> 64, GUEST_IDTR_LIMIT |-> 32,
     GUEST_IDTR_BASE |-> 64, GUEST_GDTR_LIMIT |-> 32, GUEST_GDTR_BASE |-> 64,
     GUEST_IA32_EFER |-> 64]
ASSUME SegmentFields ==
    \A s \in Segments, p \in DOMAIN PartWidth :
        LET f == kvm_vmx_segment_fields[s][p]
        IN /\ f \in Encodings /\ ~ReadOnly(f) /\ Width(f) = PartWidth[p]
           /\ \A t \in Segments, q \in DOMAIN PartWidth :
                  f = kvm_vmx_segment_fields[t][q] => s = t /\ p = q
ASSUME SregsFields ==
    \A n \in DOMAIN SregsWidth :
        /\ Field[n] \in Encodings /\ ~ReadOnly(Field[n]) /\ Width(Field[n]) = SregsWidth[n]
        /\ \A k \in DOMAIN SregsWidth : Field[n] = Field[k] => n = k
        /\ \A s \in Segments, p \in DOMAIN PartWidth :
               Field[n] # kvm_vmx_segment_fields[s][p]
=============================================================================
