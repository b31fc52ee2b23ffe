---------------------------- MODULE MCIoctlPath ----------------------------
EXTENDS IoctlPath

\* CPUID leaf 0; leaf 1 with and without an index; leaf 4 with index 1.
MCLeaves == {<<{}, {}>>, <<Bits(1), {}>>, <<Bits(1), Bits(2)>>, <<Bits(4), Bits(1)>>}

\* The registers the assembly moves, those VM exit stores, and single ones.
MCTouched == {General \cup {"CR2"}, GuestArea \ ArBytes, {"rcx"}, {"RIP"}, {"CR2"}}

\* The commands of the driver that touch the modelled state, a few of those that do
\* not, and some the driver has not.
MCOffered ==
    (Handled \ {"KVM_SET_IDENTITY_MAP_ADDR", "KVM_SET_TSS_ADDR", "KVM_CREATE_IRQCHIP",
                "KVM_SET_SIGNAL_MASK", "KVM_GET_FPU", "KVM_SET_FPU", "KVM_CREATE_PIT",
                "KVM_SET_USER_MEMORY_REGION", "KVM_GET_VCPU_MMAP_SIZE"})
    \cup {"KVM_SET_CPUID", "KVM_IRQ_LINE_STATUS", "KVM_GET_PIT2"}

MCMsrList == {"KVM_GET_MSR_INDEX_LIST"}
=============================================================================
