------------------------------- MODULE KvmAbi -------------------------------
(***************************************************************************)
(* The binary interface of /dev/kvm, from include/linux/kvm.h and          *)
(* include/linux/kvm-x86.h: the structures the commands carry, laid out by *)
(* the rules of the x86-64 C compiler, and the commands themselves with    *)
(* the direction and the size their numbers encode.  On OS X both matter:  *)
(* the kernel copies the argument in and out by what the number says,      *)
(* before and after the driver runs, so a structure or a direction that is *)
(* wrong in the header loses data without any error.                       *)
(*                                                                         *)
(* A type is its size and alignment in bytes.  A structure is given by its *)
(* members in order, <<n, t>> for n consecutive members of type t; nothing *)
(* else of a member matters here.                                          *)
(***************************************************************************)
EXTENDS Naturals, SequencesExt

Scalar(w) == [size |-> w, align |-> w]
u8  == Scalar(1)
u16 == Scalar(2)
u32 == Scalar(4)
u64 == Scalar(8)

RoundUp(x, a) == ((x + a - 1) \div a) * a

\* Where the members ms end: each starts at the next multiple of its alignment.
EndOf(ms) ==
    LET end[i \in 0 .. Len(ms)] ==
          IF i = 0 THEN 0 ELSE RoundUp(end[i - 1], ms[i][2].align) + ms[i][1] * ms[i][2].size
    IN end[Len(ms)]

OffsetOf(ms, i) == RoundUp(EndOf(SubSeq(ms, 1, i - 1)), ms[i][2].align)

Aggregate(ts, size) ==
    LET a == Max({t.align : t \in ts}) IN [size |-> RoundUp(size, a), align |-> a]

Struct(ms) == Aggregate({m[2] : m \in ToSet(ms)}, EndOf(ms))
Union(ts)  == Aggregate(ts, Max({t.size : t \in ts}))
Array(n, t) == [size |-> n * t.size, align |-> t.align]

-----------------------------------------------------------------------------
(***************************************************************************)
(* Structures of kvm-x86.h.  The four that end in an array of client       *)
(* length begin with self, the client's own address of the structure: the  *)
(* kernel copies the header only, and the driver fetches the array itself. *)
(***************************************************************************)
kvm_memory_alias == Struct(<< <<2, u32>>, <<3, u64>> >>)
kvm_pic_state    == Struct(<< <<16, u8>> >>)
kvm_ioapic_state ==
    LET redirtbl == Union({u64, Struct(<< <<8, u8>> >>)})
    IN Struct(<< <<1, u64>>, <<4, u32>>, <<24, redirtbl>> >>)
kvm_regs         == Struct(<< <<18, u64>> >>)
kvm_lapic_state  == Struct(<< <<1024, u8>> >>)
kvm_segment      == Struct(<< <<1, u64>>, <<1, u32>>, <<1, u16>>, <<10, u8>> >>)
kvm_dtable       == Struct(<< <<1, u64>>, <<4, u16>> >>)
kvm_sregs        == Struct(<< <<8, kvm_segment>>, <<2, kvm_dtable>>, <<11, u64>> >>)
kvm_fpu ==
    Struct(<< <<128, u8>>, <<2, u16>>, <<2, u8>>, <<1, u16>>, <<2, u64>>,
              <<256, u8>>, <<2, u32>> >>)
kvm_msr_entry    == Struct(<< <<2, u32>>, <<1, u64>> >>)
kvm_msrs_members     == << <<1, u64>>, <<1, u32>>, <<1, u32>>, <<0, kvm_msr_entry>> >>
kvm_msr_list_members == << <<1, u64>>, <<1, u32>>, <<0, u32>> >>
kvm_cpuid_entry  == Struct(<< <<6, u32>> >>)
kvm_cpuid_members    == << <<1, u64>>, <<1, u32>>, <<1, u32>>, <<0, kvm_cpuid_entry>> >>
kvm_cpuid_entry2 == Struct(<< <<10, u32>> >>)
kvm_cpuid2_members   == << <<1, u64>>, <<1, u32>>, <<1, u32>>, <<0, kvm_cpuid_entry2>> >>
kvm_pit_channel_state ==
    Struct(<< <<1, u32>>, <<1, u16>>, <<10, u8>>, <<1, u64>> >>)
kvm_debug_exit_arch  == Struct(<< <<2, u32>>, <<3, u64>> >>)
kvm_guest_debug_arch == Struct(<< <<8, u64>> >>)
kvm_pit_state    == Struct(<< <<3, kvm_pit_channel_state>> >>)
kvm_pit_state2   == Struct(<< <<3, kvm_pit_channel_state>>, <<10, u32>> >>)
kvm_vcpu_events ==
    LET exception == Struct(<< <<4, u8>>, <<1, u32>> >>)
        interrupt == Struct(<< <<4, u8>> >>)
        nmi       == Struct(<< <<4, u8>> >>)
    IN Struct(<< <<1, exception>>, <<1, interrupt>>, <<1, nmi>>, <<12, u32>> >>)
kvm_debugregs    == Struct(<< <<16, u64>> >>)
kvm_xsave        == Struct(<< <<1024, u32>> >>)
kvm_xcr          == Struct(<< <<2, u32>>, <<1, u64>> >>)
kvm_xcrs         == Struct(<< <<2, u32>>, <<16, kvm_xcr>>, <<16, u64>> >>)

kvm_msrs     == Struct(kvm_msrs_members)
kvm_msr_list == Struct(kvm_msr_list_members)
kvm_cpuid    == Struct(kvm_cpuid_members)
kvm_cpuid2   == Struct(kvm_cpuid2_members)

-----------------------------------------------------------------------------
(* Structures of kvm.h. *)
kvm_user_trace_setup == Struct(<< <<2, u32>> >>)
kvm_breakpoint    == Struct(<< <<2, u32>>, <<1, u64>> >>)
kvm_debug_guest   == Struct(<< <<2, u32>>, <<4, kvm_breakpoint>>, <<1, u32>> >>)
kvm_memory_region == Struct(<< <<2, u32>>, <<2, u64>> >>)
kvm_userspace_memory_region == Struct(<< <<2, u32>>, <<3, u64>> >>)
kvm_irq_level     == Struct(<< <<1, Union({u32})>>, <<1, u32>> >>)
kvm_irqchip ==
    Struct(<< <<2, u32>>,
              <<1, Union({Array(512, u8), kvm_pic_state, kvm_ioapic_state})>> >>)
kvm_pit_config    == Struct(<< <<16, u32>> >>)

\* The page shared with the client.  Its union holds what each kind of exit
\* reports; io is the only member the driver fills in.
kvm_run_exits ==
    { Struct(<< <<1, u64>> >>),                                   \* hw
      Struct(<< <<1, u64>> >>),                                   \* fail_entry
      Struct(<< <<2, u32>> >>),                                   \* ex
      Struct(<< <<2, u8>>, <<1, u16>>, <<1, u32>>, <<1, u64>> >>),\* io
      kvm_debug_exit_arch,                                        \* debug
      Struct(<< <<1, u64>>, <<8, u8>>, <<1, u32>>, <<1, u8>> >>), \* mmio
      Struct(<< <<8, u64>>, <<2, u32>> >>),                       \* hypercall
      Struct(<< <<1, u64>>, <<2, u32>> >>),                       \* tpr_access
      Struct(<< <<1, u8>>, <<1, u16>>, <<1, u32>> >>),            \* s390_sieic
      u64,                                                        \* s390_reset_flags
      Struct(<< <<1, u64>>, <<1, u32>> >>),                       \* s390_ucontrol
      Struct(<< <<2, u32>>, <<1, u8>> >>),                        \* dcr
      Struct(<< <<2, u32>>, <<16, u64>> >>),                      \* internal
      Struct(<< <<32, u64>> >>),                                  \* osi
      Struct(<< <<11, u64>> >>),                                  \* papr_hcall
      Struct(<< <<2, u16>>, <<3, u32>>, <<1, u8>> >>),            \* s390_tsch
      Struct(<< <<1, u32>> >>),                                   \* epr
      Struct(<< <<1, u32>>, <<1, u64>> >>),                       \* system_event
      Array(256, u8) }                                            \* padding
kvm_run ==
    Struct(<< <<8, u8>>, <<1, u32>>, <<4, u8>>, <<2, u64>>,
              <<1, Union(kvm_run_exits)>>, <<2, u64>>, <<1, Array(1024, u8)>> >>)

kvm_coalesced_mmio_zone == Struct(<< <<1, u64>>, <<2, u32>> >>)
kvm_translation    == Struct(<< <<2, u64>>, <<8, u8>> >>)
kvm_interrupt      == Struct(<< <<1, u32>> >>)
kvm_dirty_log      == Struct(<< <<2, u32>>, <<1, u64>> >>)
kvm_signal_mask    == Struct(<< <<1, u32>>, <<0, u8>> >>)
kvm_tpr_access_ctl == Struct(<< <<10, u32>> >>)
kvm_vapic_addr     == Struct(<< <<1, u64>> >>)
kvm_mp_state       == Struct(<< <<1, u32>> >>)
kvm_s390_psw       == Struct(<< <<2, u64>> >>)
kvm_s390_interrupt == Struct(<< <<2, u32>>, <<1, u64>> >>)
kvm_guest_debug    == Struct(<< <<2, u32>>, <<1, kvm_guest_debug_arch>> >>)
kvm_ioeventfd      == Struct(<< <<2, u64>>, <<3, u32>>, <<36, u8>> >>)
kvm_enable_cap     == Struct(<< <<2, u32>>, <<4, u64>>, <<64, u8>> >>)
kvm_ppc_pvinfo     == Struct(<< <<5, u32>>, <<108, u8>> >>)
kvm_ppc_smmu_info ==
    LET page_size     == Struct(<< <<2, u32>> >>)
        seg_page_size == Struct(<< <<2, u32>>, <<8, page_size>> >>)
    IN Struct(<< <<1, u64>>, <<2, u32>>, <<8, seg_page_size>> >>)
kvm_irq_routing_entry ==
    LET irqchip == Struct(<< <<2, u32>> >>)
        msi     == Struct(<< <<4, u32>> >>)
        adapter == Struct(<< <<3, u64>>, <<2, u32>> >>)
    IN Struct(<< <<4, u32>>, <<1, Union({irqchip, msi, adapter, Array(8, u32)})>> >>)
kvm_irq_routing    == Struct(<< <<2, u32>>, <<0, kvm_irq_routing_entry>> >>)
kvm_x86_mce        == Struct(<< <<4, u64>>, <<8, u8>>, <<3, u64>> >>)
kvm_xen_hvm_config == Struct(<< <<2, u32>>, <<2, u64>>, <<32, u8>> >>)
kvm_irqfd          == Struct(<< <<4, u32>>, <<16, u8>> >>)
kvm_clock_data     == Struct(<< <<1, u64>>, <<10, u32>> >>)
kvm_dirty_tlb      == Struct(<< <<1, u64>>, <<1, u32>> >>)
kvm_reg_list       == Struct(<< <<1, u64>>, <<0, u64>> >>)
kvm_one_reg        == Struct(<< <<2, u64>> >>)
kvm_msi            == Struct(<< <<4, u32>>, <<16, u8>> >>)
kvm_arm_device_addr == Struct(<< <<2, u64>> >>)
kvm_create_device  == Struct(<< <<3, u32>> >>)
kvm_device_attr    == Struct(<< <<2, u32>>, <<2, u64>> >>)
kvm_s390_ucas_mapping == Struct(<< <<3, u64>> >>)
kvm_assigned_pci_dev  == Struct(<< <<5, u32>>, <<1, Union({Array(11, u32)})>> >>)
kvm_assigned_irq      == Struct(<< <<4, u32>>, <<1, Union({Array(12, u32)})>> >>)
kvm_assigned_msix_nr  == Struct(<< <<1, u32>>, <<2, u16>> >>)
kvm_assigned_msix_entry == Struct(<< <<2, u32>>, <<4, u16>> >>)

-----------------------------------------------------------------------------
(***************************************************************************)
(* Commands.  A command number is a direction, the size of the argument in *)
(* 13 bits, the group 0xAE and the number within it; the name is only      *)
(* known to the preprocessor.                                              *)
(***************************************************************************)
Command(name, dir, nr, t) == [name |-> name, code |-> <<dir, t.size % 8192, nr>>]
IO(name, nr)      == Command(name, "void",  nr, Scalar(0))
IOR(name, nr, t)  == Command(name, "out",   nr, t)
IOW(name, nr, t)  == Command(name, "in",    nr, t)
IOWR(name, nr, t) == Command(name, "inout", nr, t)

SystemIoctls ==
    { IO("KVM_GET_API_VERSION", \h00), IO("KVM_CREATE_VM", \h01),
      IOWR("KVM_GET_MSR_INDEX_LIST", \h02, kvm_msr_list), IO("KVM_S390_ENABLE_SIE", \h06),
      IO("KVM_CHECK_EXTENSION", \h03), IO("KVM_GET_VCPU_MMAP_SIZE", \h04),
      IOWR("KVM_GET_SUPPORTED_CPUID", \h05, kvm_cpuid2),
      IOW("KVM_TRACE_ENABLE", \h06, kvm_user_trace_setup), IO("KVM_TRACE_PAUSE", \h07),
      IO("KVM_TRACE_DISABLE", \h08), IOWR("KVM_GET_EMULATED_CPUID", \h09, kvm_cpuid2) }

VmIoctls ==
    { IOW("KVM_SET_MEMORY_REGION", \h40, kvm_memory_region), IO("KVM_CREATE_VCPU", \h41),
      IOW("KVM_GET_DIRTY_LOG", \h42, kvm_dirty_log),
      IOW("KVM_SET_MEMORY_ALIAS", \h43, kvm_memory_alias),
      IO("KVM_SET_NR_MMU_PAGES", \h44), IO("KVM_GET_NR_MMU_PAGES", \h45),
      IOW("KVM_SET_USER_MEMORY_REGION", \h46, kvm_userspace_memory_region),
      IO("KVM_SET_TSS_ADDR", \h47), IOW("KVM_SET_IDENTITY_MAP_ADDR", \h48, u64),
      IOWR("KVM_MMAP_VCPU", \h49, u64),
      IOW("KVM_S390_UCAS_MAP", \h50, kvm_s390_ucas_mapping),
      IOW("KVM_S390_UCAS_UNMAP", \h51, kvm_s390_ucas_mapping),
      IOW("KVM_S390_VCPU_FAULT", \h52, u64), IO("KVM_CREATE_IRQCHIP", \h60),
      IOW("KVM_IRQ_LINE", \h61, kvm_irq_level),
      IOWR("KVM_GET_IRQCHIP", \h62, kvm_irqchip),
      IOWR("KVM_SET_IRQCHIP", \h63, kvm_irqchip), IO("KVM_CREATE_PIT", \h64),
      IOWR("KVM_GET_PIT", \h65, kvm_pit_state), IOWR("KVM_SET_PIT", \h66, kvm_pit_state),
      IOWR("KVM_IRQ_LINE_STATUS", \h67, kvm_irq_level),
      IOW("KVM_REGISTER_COALESCED_MMIO", \h67, kvm_coalesced_mmio_zone),
      IOW("KVM_UNREGISTER_COALESCED_MMIO", \h68, kvm_coalesced_mmio_zone),
      IOR("KVM_ASSIGN_PCI_DEVICE", \h69, kvm_assigned_pci_dev),
      IOW("KVM_SET_GSI_ROUTING", \h6a, kvm_irq_routing),
      IOR("KVM_ASSIGN_IRQ", \h70, kvm_assigned_irq),
      IOW("KVM_ASSIGN_DEV_IRQ", \h70, kvm_assigned_irq), IO("KVM_REINJECT_CONTROL", \h71),
      IOW("KVM_DEASSIGN_PCI_DEVICE", \h72, kvm_assigned_pci_dev),
      IOW("KVM_ASSIGN_SET_MSIX_NR", \h73, kvm_assigned_msix_nr),
      IOW("KVM_ASSIGN_SET_MSIX_ENTRY", \h74, kvm_assigned_msix_entry),
      IOW("KVM_DEASSIGN_DEV_IRQ", \h75, kvm_assigned_irq),
      IOW("KVM_IRQFD", \h76, kvm_irqfd), IOW("KVM_CREATE_PIT2", \h77, kvm_pit_config),
      IO("KVM_SET_BOOT_CPU_ID", \h78), IOW("KVM_IOEVENTFD", \h79, kvm_ioeventfd),
      IOW("KVM_XEN_HVM_CONFIG", \h7a, kvm_xen_hvm_config),
      IOW("KVM_SET_CLOCK", \h7b, kvm_clock_data),
      IOR("KVM_GET_CLOCK", \h7c, kvm_clock_data),
      IOR("KVM_GET_PIT2", \h9f, kvm_pit_state2),
      IOW("KVM_SET_PIT2", \ha0, kvm_pit_state2),
      IOW("KVM_PPC_GET_PVINFO", \ha1, kvm_ppc_pvinfo), IO("KVM_SET_TSC_KHZ", \ha2),
      IO("KVM_GET_TSC_KHZ", \ha3),
      IOW("KVM_ASSIGN_SET_INTX_MASK", \ha4, kvm_assigned_pci_dev),
      IOW("KVM_SIGNAL_MSI", \ha5, kvm_msi),
      IOR("KVM_PPC_GET_SMMU_INFO", \ha6, kvm_ppc_smmu_info),
      IOWR("KVM_PPC_ALLOCATE_HTAB", \ha7, u32),
      IOW("KVM_ARM_SET_DEVICE_ADDR", \hab, kvm_arm_device_addr),
      IOWR("KVM_CREATE_DEVICE", \he0, kvm_create_device),
      IOW("KVM_SET_DEVICE_ATTR", \he1, kvm_device_attr),
      IOW("KVM_GET_DEVICE_ATTR", \he2, kvm_device_attr),
      IOW("KVM_HAS_DEVICE_ATTR", \he3, kvm_device_attr) }

VcpuIoctls ==
    { IO("KVM_RUN", \h80), IOR("KVM_GET_REGS", \h81, kvm_regs),
      IOW("KVM_SET_REGS", \h82, kvm_regs), IOR("KVM_GET_SREGS", \h83, kvm_sregs),
      IOW("KVM_SET_SREGS", \h84, kvm_sregs), IOWR("KVM_TRANSLATE", \h85, kvm_translation),
      IOW("KVM_INTERRUPT", \h86, kvm_interrupt),
      IOW("KVM_DEBUG_GUEST", \h87, kvm_debug_guest), IOWR("KVM_GET_MSRS", \h88, kvm_msrs),
      IOW("KVM_SET_MSRS", \h89, kvm_msrs), IOW("KVM_SET_CPUID", \h8a, kvm_cpuid),
      IOW("KVM_SET_SIGNAL_MASK", \h8b, kvm_signal_mask),
      IOR("KVM_GET_FPU", \h8c, kvm_fpu), IOW("KVM_SET_FPU", \h8d, kvm_fpu),
      IOR("KVM_GET_LAPIC", \h8e, kvm_lapic_state),
      IOW("KVM_SET_LAPIC", \h8f, kvm_lapic_state),
      IOW("KVM_SET_CPUID2", \h90, kvm_cpuid2), IOWR("KVM_GET_CPUID2", \h91, kvm_cpuid2),
      IOWR("KVM_TPR_ACCESS_REPORTING", \h92, kvm_tpr_access_ctl),
      IOW("KVM_SET_VAPIC_ADDR", \h93, kvm_vapic_addr),
      IOW("KVM_S390_INTERRUPT", \h94, kvm_s390_interrupt),
      IOW("KVM_S390_STORE_STATUS", \h95, u64),
      IOW("KVM_S390_SET_INITIAL_PSW", \h96, kvm_s390_psw),
      IO("KVM_S390_INITIAL_RESET", \h97), IOR("KVM_GET_MP_STATE", \h98, kvm_mp_state),
      IOW("KVM_SET_MP_STATE", \h99, kvm_mp_state), IO("KVM_NMI", \h9a),
      IOW("KVM_SET_GUEST_DEBUG", \h9b, kvm_guest_debug),
      IOW("KVM_X86_SETUP_MCE", \h9c, u64),
      IOR("KVM_X86_GET_MCE_CAP_SUPPORTED", \h9d, u64),
      IOW("KVM_X86_SET_MCE", \h9e, kvm_x86_mce),
      IOR("KVM_IA64_VCPU_GET_STACK", \h9a, u64),
      IOW("KVM_IA64_VCPU_SET_STACK", \h9b, u64),
      IOR("KVM_GET_VCPU_EVENTS", \h9f, kvm_vcpu_events),
      IOW("KVM_SET_VCPU_EVENTS", \ha0, kvm_vcpu_events),
      IOR("KVM_GET_DEBUGREGS", \ha1, kvm_debugregs),
      IOW("KVM_SET_DEBUGREGS", \ha2, kvm_debugregs),
      IOW("KVM_ENABLE_CAP", \ha3, kvm_enable_cap), IOR("KVM_GET_XSAVE", \ha4, kvm_xsave),
      IOW("KVM_SET_XSAVE", \ha5, kvm_xsave), IOR("KVM_GET_XCRS", \ha6, kvm_xcrs),
      IOW("KVM_SET_XCRS", \ha7, kvm_xcrs), IOW("KVM_DIRTY_TLB", \haa, kvm_dirty_tlb),
      IOW("KVM_GET_ONE_REG", \hab, kvm_one_reg),
      IOW("KVM_SET_ONE_REG", \hac, kvm_one_reg), IO("KVM_KVMCLOCK_CTRL", \had),
      IOWR("KVM_GET_REG_LIST", \hb0, kvm_reg_list) }

Ioctls == SystemIoctls \cup VmIoctls \cup VcpuIoctls

\* The number a name stands for, and its parts.
CodesOf(cs) == [n \in {c.name : c \in cs} |-> (CHOOSE c \in cs : c.name = n).code]
Code == CodesOf(SystemIoctls) @@ CodesOf(VmIoctls) @@ CodesOf(VcpuIoctls)
Copies(code) == [in   |-> code[1] \in {"in", "inout"},
                 out  |-> code[1] \in {"out", "inout"},
                 size |-> code[2]]
=============================================================================
