------------------------------ MODULE IoctlPath ------------------------------
(***************************************************************************)
(* One command from the client's call to its return, and one KVM_RUN from  *)
(* the vcpu structure to the registers of the guest and back: the wrapper  *)
(* __ioctl of kvm-kext-fixes.h, the copies the OS X kernel makes by the    *)
(* command number, the switches of kvm_dev_ioctl with the handlers of the  *)
(* register, interrupt-controller, timer, CPUID and MSR state, the world   *)
(* switch, and handle_cpuid.  KvmDevice models what several calls do to    *)
(* one another; here they come one after the other.                        *)
(***************************************************************************)
EXTENDS KvmAbi, WorldSwitch

CONSTANTS
    Versions,       \* contents a client may put in a structure, 1 .. n
    Hosts,          \* CPUs of the host, 1 .. n
    Leaves,         \* CPUID operands <<function, index>> of the guest
    MaxSets,        \* commands a client uses that change the state of the VM
    MaxRuns,        \* KVM_RUNs a client makes
    MaxCalls,       \* these together
    Touched,        \* sets of registers the guest changes together
    MaxChanges,     \* changes the guest makes to its registers
    Offered         \* commands clients use

VARIABLES
    machine,        \* CPU, stack, struct vcpu and VMCS (see WorldSwitch)
    made,           \* KVM_CREATE_VM was called
    call,           \* the call in progress, with the registers its CPU came with
    sets, runs, changes,  \* counters of MaxSets, MaxRuns and MaxChanges
    guest,          \* history: the register file the guest must have
    want,           \* history: what the client last set, for what is not a register
    launch          \* history: the VMLAUNCHs the processor refused

count == <<sets, runs>>
vars == <<machine, made, call, count, changes, guest, want, launch>>

-----------------------------------------------------------------------------
(* Contents.  Word(k, v) is a word no other k and v have; WideWord adds bits *)
(* above 16 and above 32.                                                     *)
Word(k, v) == Bits(256 * v + k)
WideWord(k, v) == Word(k, v) \cup {17, 25, 33, 47}

Position(r) ==
    CASE r \in GuestArea -> ((GuestField[r] % 64) \div 2) + 32 * (GuestField[r] \div 8192)
      [] r \in General   -> 128 + VCPU_REGS[r]
      [] r = "CR2"       -> 150
Narrow == {r \in GuestArea : Width(GuestField[r]) < 64}
Contents(r, v) == IF r \in Narrow THEN Word(Position(r), v) ELSE WideWord(Position(r), v)

\* The registers of host CPU h when the assembly starts: rcx and rdx are its
\* operands, the stack has eight free words, the task register names the GDT.
HostCpu == [h \in Hosts |->
    ("rcx" :> VcpuPtr) @@ ("rdx" :> Bits(Field.HOST_RSP)) @@ ("RSP" :> Bits(8))
    @@ ("TR_SELECTOR" :> Shl(Bits(h), 3)) @@ [r \in Registers |-> Contents(r, h)]]

GuestWord(r) == Contents(r, 4)

KvmRegs == DOMAIN VCPU_REGS \cup {"RFLAGS"}          \* the members of struct kvm_regs
ClientRegs(v) == [r \in KvmRegs |-> Contents(r, 4 + v)]

\* The registers of a segment, and eleven sets of attributes that between them
\* differ in every bit.
SegPart == [s \in Segments |->
    [base |-> SegName[s] \o "_BASE", limit |-> SegName[s] \o "_LIMIT",
     selector |-> SegName[s] \o "_SELECTOR", ar_bytes |-> SegName[s] \o "_AR_BYTES"]]
ArBytes == {SegPart[s].ar_bytes : s \in Segments}
Present(type, dpl) == [NoAttributes EXCEPT !.type = type, !.dpl = dpl, !.present = {0}]
SomeAttributes ==
    << Present({0, 1, 3}, {}), Present({2}, {0}), Present({}, {1}), Present({}, {0, 1}),
       [Present({1}, {}) EXCEPT !.s = {0}], [Present({}, {}) EXCEPT !.avl = {0}],
       [Present({}, {}) EXCEPT !.l = {0}], [Present({}, {}) EXCEPT !.db = {0}],
       [Present({}, {}) EXCEPT !.g = {0}], [Present({3}, {0}) EXCEPT !.unusable = {0}],
       [NoAttributes EXCEPT !.type = {0, 1}, !.s = {0}] >>
ClientAttributes(s, v) ==
    SomeAttributes[1 + ((v * 5 + Position(SegPart[s].base)) % Len(SomeAttributes))]

ClientSregs(v) ==
    LET w(r) == Contents(r, 4 + v)
    IN [cr0 |-> w("CR0"), cr2 |-> w("CR2"), cr3 |-> w("CR3"), cr4 |-> w("CR4"), efer |-> 8 .. 8 + v,
        idt |-> [limit |-> w("IDTR_LIMIT"), base |-> w("IDTR_BASE")],
        gdt |-> [limit |-> w("GDTR_LIMIT"), base |-> w("GDTR_BASE")],
        seg |-> [s \in Segments |->
                   [base |-> w(SegPart[s].base), limit |-> w(SegPart[s].limit),
                    selector |-> w(SegPart[s].selector),
                    attr |-> ClientAttributes(s, v)]]]
ZeroSregs ==
    [cr0 |-> {}, cr2 |-> {}, cr3 |-> {}, cr4 |-> {}, efer |-> {},
     idt |-> [limit |-> {}, base |-> {}], gdt |-> [limit |-> {}, base |-> {}],
     seg |-> [s \in Segments |->
                [base |-> {}, limit |-> {}, selector |-> {}, attr |-> NoAttributes]]]

-----------------------------------------------------------------------------
(* CPUID (handle_cpuid, kvm_get_supported_cpuid).                             *)
Entry(f, i, k) == [function |-> f, index |-> i, eax |-> Word(k, 1), ebx |-> Word(k, 2),
                   ecx |-> Word(k, 3) \cup {0, 9, 19, 20, 26, 27},
                   edx |-> Word(k, 4) \cup {25, 26}]
ZeroEntry == [function |-> {}, index |-> {}, eax |-> {}, ebx |-> {}, ecx |-> {}, edx |-> {}]

\* The CPUID instruction of the host.
Cpuid(f, i) == Entry(f, i, 64 + 4 * Cardinality(f) + Cardinality(i))

\* Two clients' tables: one entry, and three of which two match alike.
ClientTable(v) ==
    SubSeq(<<Entry(Bits(1), {}, 1), Entry(Bits(4), Bits(1), 2), Entry(Bits(1), {}, 3)>>,
           1, 2 * v - 1)

NoSse(e) == [e EXCEPT !.edx = @ \ {25, 26}, !.ecx = @ \ {0, 9, 19, 20, 26, 27}]

\* x + 2^k.
AddBit(x, k) == LET j == Min({n \in k .. 64 : n \notin x}) IN Trunc((x \ (k .. j)) \cup {j}, 64)

\* The CPUID instruction has two bytes.
skip_emulated_instruction(k) == [k EXCEPT !.vcpu.regs[VCPU_REGS.RIP] = AddBit(@, 1)]

handle_cpuid(k) ==
    LET f == Trunc(k.vcpu.regs[VCPU_REGS.rax], 32)
        i == Trunc(k.vcpu.regs[VCPU_REGS.rcx], 32)
        match == {j \in DOMAIN k.vcpu.cpuids : /\ k.vcpu.cpuids[j].function = f
                                               /\ k.vcpu.cpuids[j].index = i}
        found == IF match # {} THEN k.vcpu.cpuids[Min(match)] ELSE Cpuid(f, i)
        e == IF f = Bits(1) THEN NoSse(found) ELSE found
        answered == [k EXCEPT !.vcpu.regs = [@ EXCEPT
                       ![VCPU_REGS.rax] = e.eax, ![VCPU_REGS.rbx] = e.ebx,
                       ![VCPU_REGS.rcx] = e.ecx, ![VCPU_REGS.rdx] = e.edx]]
    IN skip_emulated_instruction(answered)

-----------------------------------------------------------------------------
(* Structures in user space and their copies.  n and list are the count and   *)
(* the array of the structures that begin with self; the rest is the body.    *)
Body(x)  == [self |-> FALSE, n |-> 0, list |-> <<>>, body |-> x]
List(xs) == [self |-> FALSE, n |-> Len(xs), list |-> xs, body |-> 0]
Empty    == Body(0)

\* What client memory may hold when command c is called.
Arguments(c) ==
    CASE c = "KVM_SET_REGS"  -> {Body(ClientRegs(v)) : v \in Versions}
      [] c = "KVM_GET_REGS"  -> {Body([r \in KvmRegs |-> Garbage])}
      [] c = "KVM_SET_SREGS" -> {Body(ClientSregs(v)) : v \in Versions}
      [] c = "KVM_GET_SREGS" -> {Body(ClientSregs(0))}
      [] c = "KVM_SET_PIT"     -> {Body(v) : v \in Versions}
      [] c = "KVM_SET_IRQCHIP" -> {Body(1)}
      [] c \in {"KVM_GET_PIT", "KVM_GET_IRQCHIP"} -> {Body(99)}
      [] c = "KVM_SET_CPUID2" -> {List(ClientTable(v)) : v \in Versions}
      [] c = "KVM_SET_MSRS"   -> {List(<<1, 2>>)}
      [] c = "KVM_GET_SUPPORTED_CPUID" -> {List([i \in 1 .. n |-> ZeroEntry]) : n \in {14, 15}}
      [] c = "KVM_GET_MSR_INDEX_LIST"  -> {List([i \in 1 .. n |-> 0]) : n \in {4, 5}}
      [] c = "KVM_CHECK_EXTENSION"     -> {Body(3), Body(5)}
      [] OTHER -> {Empty}

\* Array elements within the size of the structure itself: the alignment of self
\* rounds the size up, past the start of an array of 32-bit words.
Within(ms) == (Struct(ms).size - OffsetOf(ms, Len(ms))) \div ms[Len(ms)][2].size
Covered(names) ==
    CASE "KVM_GET_MSR_INDEX_LIST" \in names -> Within(kvm_msr_list_members)
      [] names \cap {"KVM_SET_CPUID2", "KVM_GET_SUPPORTED_CPUID"} # {} ->
             Within(kvm_cpuid2_members)
      [] "KVM_SET_MSRS" \in names -> Within(kvm_msrs_members)
      [] OTHER -> 0

\* What command c is to the kernel and the driver, who have only its number: the
\* copies that encodes, and the names it equals in a comparison.
Request(c) ==
    LET names == {n \in DOMAIN Code : Code[n] = Code[c]}
    IN [cmd |-> c, names |-> names, void |-> Code[c][1] = "void",
        copies |-> Copies(Code[c]), covered |-> Covered(names)]
Requests == {Request(c) : c \in Offered}

\* The kernel's copy of the argument: copied in, or zero, by the command number;
\* an argument that is no address is itself in the buffer.
CopyIn(u, q) ==
    IF q.void THEN u
    ELSE IF q.copies.in THEN [u EXCEPT !.list = SubSeq(@, 1, q.covered)]
    ELSE CASE "KVM_GET_REGS" \in q.names  -> Body([r \in KvmRegs |-> {}])
           [] "KVM_GET_SREGS" \in q.names -> Body(ZeroSregs)
           [] OTHER -> Empty

CopyOut(u, b, q) ==
    IF q.copies.out
    THEN [b EXCEPT !.list = [i \in DOMAIN u.list |->
                               IF i \in DOMAIN b.list THEN b.list[i] ELSE u.list[i]]]
    ELSE u

\* __ioctl: commands that get the address of their structure, and the result.
\* A command that __ioctl does not know of.
NeedsSelfForgotten(q) ==
    q.names \cap {"KVM_SET_CPUID", "KVM_SET_CPUID2", "KVM_SET_MSRS", "KVM_GET_MSRS",
                  "KVM_GET_MSR_INDEX_LIST"} # {}

NeedsSelf(q) ==
    q.names \cap {"KVM_SET_CPUID", "KVM_SET_CPUID2", "KVM_SET_MSRS", "KVM_GET_MSRS",
                  "KVM_GET_MSR_INDEX_LIST", "KVM_GET_SUPPORTED_CPUID"} # {}
Fd == 3
ShimResult(q, errno) ==
    IF q.names \cap {"KVM_CREATE_VCPU", "KVM_CREATE_VM"} # {} THEN Fd ELSE errno

-----------------------------------------------------------------------------
(* Handlers.  x has the machine, whether there is a VM, the client's          *)
(* structure (for copyin and copyout), the kernel's copy and the result.      *)
EOPNOTSUPP == 102
E2BIG == 7

ZeroVcpu ==
    [regs |-> [i \in 0 .. 16 |-> {}], rflags |-> {}, cr2 |-> {}, fail |-> {}, host_rsp |-> {},
     host_gdtr |-> <<{}, {}>>, host_idtr |-> <<{}, {}>>, host_ldtr |-> {},
     pit_state |-> 0, irqchip |-> 0, cpuids |-> <<>>, msrs |-> <<>>]

\* The pages of a new vcpu, as physical addresses.
Pages == [pml4 |-> {12}, virtual_apic_page |-> {13}, apic_access |-> {12, 13}]
ZeroVmcs == [e \in Encodings |-> {}]

create_vm(x) ==
    [x EXCEPT !.made = TRUE, !.ret = 0, !.m.vcpu = ZeroVcpu,
              !.m.vmcs = vcpu_init(ZeroVmcs, Pages,
                                   [sysenter_cs  |-> x.m.cpu["SYSENTER_CS"],
                                    sysenter_esp |-> x.m.cpu["SYSENTER_ESP"],
                                    sysenter_eip |-> x.m.cpu["SYSENTER_EIP"]])]

\* copyin from self + offsetof(entries); without self there is nothing to read
\* and the new array stays zero.
FetchList(x, zero) ==
    [i \in 1 .. x.buf.n |-> IF x.buf.self /\ i \in DOMAIN x.user.list THEN x.user.list[i]
                            ELSE zero]
StoreList(x, xs) ==
    IF x.buf.self
    THEN [i \in DOMAIN x.user.list |-> IF i \in DOMAIN xs THEN xs[i] ELSE x.user.list[i]]
    ELSE x.user.list

SupportedLeaves ==
    LET high(n) == {30} \cup Bits(n)
        ext(n)  == {31} \cup Bits(n)
    IN << <<high(0), {}>>, <<high(1), {}>>, <<{}, {}>>, <<Bits(1), {}>>, <<Bits(2), {}>>,
          <<Bits(3), {}>>, <<Bits(4), {}>>, <<Bits(4), Bits(1)>>, <<Bits(4), Bits(2)>>,
          <<Bits(4), Bits(3)>>, <<ext(0), {}>>, <<ext(1), {}>>, <<ext(2), {}>>,
          <<ext(3), {}>>, <<ext(4), {}>> >>
Supported == [i \in DOMAIN SupportedLeaves |->
                Cpuid(SupportedLeaves[i][1], SupportedLeaves[i][2])]

kvm_get_supported_cpuid(x) ==
    IF x.buf.n < Len(Supported) THEN [x EXCEPT !.ret = E2BIG]
    ELSE [x EXCEPT !.ret = 0, !.buf.n = Len(Supported), !.user.list = StoreList(x, Supported)]

\* TSC_ADJUST, TSCDEADLINE, MISC_ENABLE, MCG_STATUS and MCG_CTL.
emulated_msrs == <<\h3b, \h6e0, \h1a0, \h17a, \h17b>>

kvm_get_msr_index_list(x) ==
    IF x.buf.n < Len(emulated_msrs) THEN [x EXCEPT !.ret = E2BIG]
    ELSE [x EXCEPT !.ret = 0, !.buf.n = Len(emulated_msrs),
                   !.user.list = StoreList(x, emulated_msrs)]

kvm_get_regs(x) ==
    [x EXCEPT !.ret = 0,
              !.buf.body = [r \in KvmRegs |-> IF r = "RFLAGS" THEN x.m.vcpu.rflags
                                              ELSE x.m.vcpu.regs[VCPU_REGS[r]]]]
kvm_set_regs(x) ==
    [x EXCEPT !.ret = 0, !.m.vcpu.rflags = x.buf.body["RFLAGS"],
              !.m.vcpu.regs = [i \in DOMAIN @ |->
                                 x.buf.body[CHOOSE r \in DOMAIN VCPU_REGS : VCPU_REGS[r] = i]]]

kvm_get_sregs(x) ==
    [x EXCEPT !.ret = 0,
              !.buf.body = [GetSregsFields(x.m.vmcs, @) EXCEPT !.cr2 = x.m.vcpu.cr2]]
kvm_set_sregs(x) ==
    [x EXCEPT !.ret = 0, !.m.vmcs = SetSregsFields(@, x.buf.body),
              !.m.vcpu.cr2 = x.buf.body.cr2]

\* The capabilities KVM_CHECK_EXTENSION grants, by number.
Capabilities == {3, 4, 7, 14, 16, 21, 30, 60}

\* The cases of the three switches.  Those of KVM_SET_USER_MEMORY_REGION,
\* KVM_IRQ_LINE and KVM_MMAP_VCPU work on state that Ept, VcpuRun and KvmDevice
\* have; KVM_RUN is the actions below.
SystemCases == {"KVM_GET_API_VERSION", "KVM_CREATE_VM", "KVM_GET_VCPU_MMAP_SIZE",
                "KVM_CHECK_EXTENSION", "KVM_GET_MSR_INDEX_LIST", "KVM_GET_SUPPORTED_CPUID"}
VmCases   == {"KVM_CREATE_VCPU", "KVM_SET_USER_MEMORY_REGION", "KVM_SET_IDENTITY_MAP_ADDR",
              "KVM_SET_TSS_ADDR", "KVM_CREATE_IRQCHIP", "KVM_GET_IRQCHIP", "KVM_SET_IRQCHIP",
              "KVM_IRQ_LINE", "KVM_CREATE_PIT", "KVM_GET_PIT", "KVM_SET_PIT", "KVM_GET_FPU",
              "KVM_SET_FPU"}
VcpuCases == {"KVM_GET_REGS", "KVM_SET_REGS", "KVM_GET_SREGS", "KVM_SET_SREGS", "KVM_RUN",
              "KVM_MMAP_VCPU", "KVM_SET_SIGNAL_MASK", "KVM_SET_MSRS", "KVM_SET_CPUID2"}

System(c, x) ==
    CASE c = "KVM_GET_API_VERSION"     -> [x EXCEPT !.ret = 12]
      [] c = "KVM_CREATE_VM"           -> create_vm(x)
      [] c = "KVM_GET_VCPU_MMAP_SIZE"  -> [x EXCEPT !.ret = 8192]
      [] c = "KVM_CHECK_EXTENSION"     ->
             [x EXCEPT !.ret = IF x.buf.body \in Capabilities THEN 1 ELSE 0]
      [] c = "KVM_GET_MSR_INDEX_LIST"  -> kvm_get_msr_index_list(x)
      [] c = "KVM_GET_SUPPORTED_CPUID" -> kvm_get_supported_cpuid(x)
      [] c = "none"                    -> x

Vm(c, x) ==
    CASE c = "KVM_GET_IRQCHIP" -> [x EXCEPT !.buf.body = x.m.vcpu.irqchip]
      [] c = "KVM_SET_IRQCHIP" -> [x EXCEPT !.ret = 0, !.m.vcpu.irqchip = x.buf.body]
      [] c = "KVM_GET_PIT"     -> [x EXCEPT !.ret = 0, !.buf.body = x.m.vcpu.pit_state]
      [] c = "KVM_SET_PIT"     -> [x EXCEPT !.ret = 0, !.m.vcpu.pit_state = x.buf.body]
      [] c = "none"            -> x
      [] OTHER                 -> [x EXCEPT !.ret = 0]

Vcpu(c, x) ==
    CASE c = "KVM_GET_REGS"   -> kvm_get_regs(x)
      [] c = "KVM_SET_REGS"   -> kvm_set_regs(x)
      [] c = "KVM_GET_SREGS"  -> kvm_get_sregs(x)
      [] c = "KVM_SET_SREGS"  -> kvm_set_sregs(x)
      [] c = "KVM_SET_MSRS"   -> [x EXCEPT !.ret = 0, !.m.vcpu.msrs = FetchList(x, 0)]
      [] c = "KVM_SET_CPUID2" -> [x EXCEPT !.ret = 0, !.m.vcpu.cpuids = FetchList(x, ZeroEntry)]
      [] c = "none"           -> x
      [] OTHER                -> [x EXCEPT !.ret = 0]

\* switch (iCmd): the case whose number is the command's, if there is one.
Case(cases, x) ==
    LET hit == cases \cap x.req.names IN IF hit = {} THEN "none" ELSE CHOOSE c \in hit : TRUE

kvm_dev_ioctl(x) ==
    LET s == System(Case(SystemCases, x), x)
        v == Vm(Case(VmCases, s), s)
    IN IF ~s.made THEN s ELSE Vcpu(Case(VcpuCases, v), v)

-----------------------------------------------------------------------------
NoRequest == [cmd |-> "none", names |-> {}, void |-> TRUE,
              copies |-> [in |-> FALSE, out |-> FALSE, size |-> 0], covered |-> 0]
NoCall == [at |-> "client", req |-> NoRequest, user |-> Empty, buf |-> Empty,
           ret |-> 0, cpu |-> 0]

\* Between calls the CPU and the stack belong to others.
Idle(k) == [k EXCEPT !.cpu = HostCpu[1], !.stack = [i \in 0 .. 8 |-> Garbage]]

Init ==
    /\ machine = Idle([cpu |-> 0, stack |-> 0, vcpu |-> ZeroVcpu, vmcs |-> ZeroVmcs])
    /\ made = FALSE /\ call = NoCall /\ sets = 0 /\ runs = 0 /\ changes = 0
    /\ guest = [r \in Registers |-> {}]
    /\ want = [pit |-> 0, irqchip |-> 0, cpuids |-> <<>>, efer |-> {},
               attr |-> [s \in Segments |-> NoAttributes]]
    /\ launch = [refused |-> FALSE, last |-> FALSE, rerun |-> FALSE]

\* The client calls __ioctl, which writes the address of the structure into it;
\* the kernel copies the argument in.
Setters == {"KVM_SET_REGS", "KVM_SET_SREGS", "KVM_SET_PIT", "KVM_SET_IRQCHIP",
            "KVM_SET_MSRS", "KVM_SET_CPUID2"}
Call(q, u) ==
    LET self == [u EXCEPT !.self = NeedsSelf(q)]
    IN /\ call.at = "client"
       /\ q.cmd = "KVM_CREATE_VM" => ~made      \* one VM for each open of the device
       /\ sets' = IF made /\ q.cmd \in Setters THEN sets + 1 ELSE sets
       /\ runs' = IF made /\ q.cmd = "KVM_RUN" THEN runs + 1 ELSE runs
       /\ sets' <= MaxSets /\ runs' <= MaxRuns /\ sets' + runs' <= MaxCalls
       /\ call' = [NoCall EXCEPT !.at = "driver", !.req = q, !.user = self,
                                 !.buf = CopyIn(self, q), !.ret = EOPNOTSUPP]
       /\ UNCHANGED <<machine, made, changes, guest, want, launch>>

\* The structure is not mapped: EFAULT, and the driver is not called.
CallFaults(q, u) ==
    /\ call.at = "client" /\ q.copies.in
    /\ call' = [NoCall EXCEPT !.at = "done", !.req = q, !.user = u, !.ret = ShimResult(q, 14)]
    /\ UNCHANGED <<machine, made, count, changes, guest, want, launch>>

\* The driver is done: the kernel copies the result out if there was no error.
Finish(ret, user, buf, cpu) ==
    call' = [call EXCEPT !.at = "done", !.ret = ShimResult(call.req, ret), !.cpu = cpu,
                         !.user = IF ret = 0 THEN CopyOut(user, buf, call.req) ELSE user,
                         !.buf = Empty]

\* The state a command sets, if it succeeds, is what the client gave it.
SetRegsGhost(u)  == [r \in KvmRegs |-> u[r]] @@ guest
SetSregsGhost(u) ==
    LET part(p) == [r \in {SegPart[s][p] : s \in Segments} |->
                      u.seg[CHOOSE s \in Segments : r = SegPart[s][p]][p]]
    IN ("CR0" :> u.cr0) @@ ("CR2" :> u.cr2) @@ ("CR3" :> u.cr3) @@ ("CR4" :> u.cr4)
       @@ ("IDTR_LIMIT" :> u.idt.limit) @@ ("IDTR_BASE" :> u.idt.base)
       @@ ("GDTR_LIMIT" :> u.gdt.limit) @@ ("GDTR_BASE" :> u.gdt.base)
       @@ part("base") @@ part("limit") @@ part("selector") @@ guest

Ghosts(x) ==
    LET is(c) == x.ret = 0 /\ c \in x.req.names
        u == call.user.body
    IN /\ guest' = CASE is("KVM_SET_REGS")  -> SetRegsGhost(u)
                     [] is("KVM_SET_SREGS") -> SetSregsGhost(u)
                     [] is("KVM_CREATE_VM") -> [r \in Sysenter |-> x.m.cpu[r]] @@ guest
                     [] OTHER -> guest
       /\ want' = [want EXCEPT
                     !.pit     = IF is("KVM_SET_PIT") THEN u ELSE @,
                     !.irqchip = IF is("KVM_SET_IRQCHIP") THEN u ELSE @,
                     !.cpuids  = IF is("KVM_SET_CPUID2") THEN call.user.list ELSE @,
                     !.efer    = IF is("KVM_SET_SREGS") THEN u.efer ELSE @,
                     !.attr    = IF is("KVM_SET_SREGS")
                                 THEN [s \in Segments |-> u.seg[s].attr] ELSE @]

Driver(h) ==
    /\ call.at = "driver" /\ ~(made /\ "KVM_RUN" \in call.req.names)
    /\ LET x == kvm_dev_ioctl([m |-> [machine EXCEPT !.cpu = HostCpu[h]], made |-> made,
                               req |-> call.req, user |-> call.user, buf |-> call.buf,
                               ret |-> call.ret])
       IN /\ machine' = Idle(x.m) /\ made' = x.made
          /\ Finish(x.ret, x.user, x.buf, 0)
          /\ Ghosts(x)
    /\ UNCHANGED <<count, changes, launch>>

\* kvm_run on CPU h up to VMLAUNCH.
Launching == call.at = "driver" /\ made /\ "KVM_RUN" \in call.req.names
AtLaunch(h) == LoadGuest(StoreHost(LoadBackingStore([machine EXCEPT !.cpu = HostCpu[h]])))

Enter(h) ==
    /\ Launching
    /\ machine' = EnterGuest(AtLaunch(h))
    /\ call' = [call EXCEPT !.at = "guest", !.cpu = h]
    /\ launch' = [launch EXCEPT !.last = FALSE]
    /\ UNCHANGED <<made, count, changes, guest, want>>

\* From the instruction after VMLAUNCH to the end of the iteration of kvm_run_wrapper:
\* the handler of the exit reason that the VMCS has, if there is one, and around again
\* if it says so and VM_INSTRUCTION_ERROR is zero.
Iterate(m, h) ==
    LET k == ReadBackingStore(LoadHost(SaveGuest(m)))
        handled == vmcs_read32(k.vmcs, Field.VM_EXIT_REASON) = EXIT_REASON.CPUID
        error == vmcs_read32(k.vmcs, Field.VM_INSTRUCTION_ERROR)
    IN /\ machine' = IF handled THEN handle_cpuid(k) ELSE k
       /\ IF handled /\ error = {} THEN call' = [call EXCEPT !.at = "driver", !.cpu = h]
          ELSE Finish(0, call.user, call.buf, h)

\* The processor refuses the guest state; the reason of this exit has no handler.
EnterFails(h) ==
    /\ Launching
    /\ Iterate(EntryFailure(AtLaunch(h)), h)
    /\ launch' = [launch EXCEPT !.last = FALSE]
    /\ UNCHANGED <<made, count, changes, guest, want>>

\* The processor refuses the controls or the host state.  This is no VM exit: the exit
\* reason is the one of the exit before, and so is the handler that runs.
EnterRefused(h) ==
    /\ Launching
    /\ Iterate(LaunchRefused(AtLaunch(h)), h)
    /\ launch' = [refused |-> TRUE, last |-> TRUE,
                  rerun |-> \/ launch.rerun
                            \/ machine.vmcs[Field.VM_EXIT_REASON] = EXIT_REASON.CPUID]
    /\ UNCHANGED <<made, count, changes, guest, want>>

\* The guest changes some registers.
GuestStep(R) ==
    /\ call.at = "guest" /\ changes < MaxChanges
    /\ changes' = changes + 1
    /\ machine' = [machine EXCEPT !.cpu = [r \in R |-> GuestWord(r)] @@ @]
    /\ guest' = [r \in R |-> GuestWord(r)] @@ guest
    /\ UNCHANGED <<made, call, count, want, launch>>

\* The guest leaves for an exit without a handler, which goes back to the client.
Leave ==
    /\ call.at = "guest"
    /\ Iterate(LeaveGuest(machine, EXIT_REASON.TRIPLE_FAULT), call.cpu)
    /\ UNCHANGED <<made, count, changes, guest, want, launch>>

\* What CPUID has to answer: the first entry of the client's table for these
\* operands, or the host's; never SSE or XSAVE.
Answer(f, i) ==
    LET t == want.cpuids
        first(j) == /\ t[j].function = f /\ t[j].index = i
                    /\ \A k \in 1 .. j - 1 : t[k].function # f \/ t[k].index # i
        e == IF \E j \in DOMAIN t : first(j) THEN t[CHOOSE j \in DOMAIN t : first(j)]
             ELSE Cpuid(f, i)
        hidden(x, S) == IF f = Bits(1) THEN x \ S ELSE x
    IN ("rax" :> e.eax) @@ ("rbx" :> e.ebx)
       @@ ("rcx" :> hidden(e.ecx, {0, 9, 19, 20, 26, 27}))
       @@ ("rdx" :> hidden(e.edx, {25, 26}))

\* The guest loads rax and rcx and executes CPUID, which exits; the handler answers.
GuestCpuid(leaf) ==
    LET f == leaf[1]
        i == leaf[2]
    IN /\ call.at = "guest" /\ changes < MaxChanges
       /\ changes' = changes + 1
       /\ Iterate(LeaveGuest([machine EXCEPT !.cpu["rax"] = f, !.cpu["rcx"] = i \cup {40}],
                             EXIT_REASON.CPUID), call.cpu)
       /\ guest' = Answer(f, i)
                   @@ ("RIP" :> AddBit(guest["RIP"], 1)) @@ guest
       /\ UNCHANGED <<made, count, want, launch>>

Done ==
    /\ call.at = "done"
    /\ call' = NoCall /\ machine' = Idle(machine)
    /\ UNCHANGED <<made, count, changes, guest, want, launch>>

Next ==
    \/ \E q \in Requests : \E u \in Arguments(q.cmd) : Call(q, u) \/ CallFaults(q, u)
    \/ \E h \in Hosts : Driver(h) \/ Enter(h) \/ EnterFails(h) \/ EnterRefused(h)
    \/ Leave \/ Done
    \/ \E R \in Touched : GuestStep(R)
    \/ \E l \in Leaves : GuestCpuid(l)

Spec == Init /\ [][Next]_vars

-----------------------------------------------------------------------------
(* The header and the switches agree: every number the driver tests belongs   *)
(* to one command, the buffer of the kernel holds the structure the handler   *)
(* casts it to, and the kvm_run structure fits the page below the port data.  *)
Handled == SystemCases \cup VmCases \cup VcpuCases
Casts ==
    [KVM_GET_MSR_INDEX_LIST |-> kvm_msr_list, KVM_GET_SUPPORTED_CPUID |-> kvm_cpuid2,
     KVM_CHECK_EXTENSION |-> u32, KVM_SET_TSS_ADDR |-> u64,
     KVM_SET_USER_MEMORY_REGION |-> kvm_userspace_memory_region,
     KVM_GET_IRQCHIP |-> kvm_irqchip, KVM_SET_IRQCHIP |-> kvm_irqchip,
     KVM_IRQ_LINE |-> kvm_irq_level, KVM_GET_PIT |-> kvm_pit_state,
     KVM_SET_PIT |-> kvm_pit_state, KVM_GET_REGS |-> kvm_regs, KVM_SET_REGS |-> kvm_regs,
     KVM_GET_SREGS |-> kvm_sregs, KVM_SET_SREGS |-> kvm_sregs, KVM_MMAP_VCPU |-> u64,
     KVM_SET_MSRS |-> kvm_msrs, KVM_SET_CPUID2 |-> kvm_cpuid2]

ASSUME OneCasePerNumber == \A c \in Handled, d \in Ioctls : d.code = Code[c] => d.name = c
ASSUME ArgumentsFit ==
    \A c \in DOMAIN Casts :
        Casts[c].size <= IF Code[c][1] = "void" THEN 8 ELSE Copies(Code[c]).size
ASSUME RunPageFits == kvm_run.size <= 4096

-----------------------------------------------------------------------------
\* The bits kvm_set_sregs adds: CR0.NE and CR4.VMXE.
Forced(r) == CASE r = "CR0" -> {5} [] r = "CR4" -> {13} [] OTHER -> {}

\* The guest always runs with the register file it left at its last exit, as
\* changed since by successful KVM_SET_REGS and KVM_SET_SREGS and by the answer
\* to CPUID, which comes from the table of the last KVM_SET_CPUID2.  The path is
\* __ioctl, the copy by the command number, kvm_set_regs and kvm_set_sregs, the
\* VMCS and the assembly of kvm_run.  An entry the processor refuses changes nothing
\* of it, unless it comes after a CPUID exit, whose handler then runs a second time.
GuestSees ==
    (call.at = "guest" /\ ~launch.rerun) =>
        \A r \in Registers \ ArBytes :
            machine.cpu[r] \ Forced(r) = guest[r] \ Forced(r)

\* The access rights the processor uses for a segment are the attributes the
\* client gave: a segment that is unusable or not present is unusable, and of any
\* other every attribute is in the bits vmx.h gives it (vmx_segment_access_rights).
AccessRights ==
    call.at = "guest" =>
        (want.attr # [t \in Segments |-> NoAttributes] =>
            \A s \in Segments : RightsOf(want.attr[s], machine.cpu[SegPart[s].ar_bytes]))

Kept == {"CR0", "CR3", "CR4", "FS_BASE", "GS_BASE", "TR_BASE", "GDTR_BASE", "GDTR_LIMIT",
         "IDTR_BASE", "IDTR_LIMIT", "RSP", "rbp", "rcx", "rdx"}
        \cup Sysenter \cup {SegPart[s].selector : s \in Segments}

\* When the assembly of kvm_run is behind it, the host has its own control
\* registers, segments, descriptor tables with their limits, task register,
\* system-call registers, stack and the registers the compiler relies on, on
\* whichever CPU the call runs, and whether the guest ran or the entry failed before
\* or after the processor loaded the host-state area.
HostKept ==
    (call.at \in {"driver", "done"} /\ call.cpu # 0) =>
        \A r \in Kept : machine.cpu[r] = HostCpu[call.cpu][r]

\* A query that succeeds tells the client what the guest has: KVM_GET_REGS and
\* KVM_GET_SREGS the registers, attributes of segments apart, and the EFER last set,
\* which the processor does not use, KVM_GET_PIT the state last set, KVM_GET_SUPPORTED_CPUID every entry of the driver's table.
ClientSees ==
    (call.at = "done" /\ call.ret = 0) =>
        LET b == call.user.body
            same(x, r) == x \ Forced(r) = guest[r] \ Forced(r)
        IN /\ ("KVM_GET_REGS" \in call.req.names /\ ~launch.rerun) =>
                \A r \in KvmRegs : b[r] = guest[r]
           /\ "KVM_GET_SREGS" \in call.req.names =>
                /\ same(b.cr0, "CR0") /\ same(b.cr2, "CR2") /\ same(b.cr3, "CR3")
                /\ same(b.cr4, "CR4") /\ b.efer = want.efer
                /\ same(b.idt.limit, "IDTR_LIMIT") /\ same(b.idt.base, "IDTR_BASE")
                /\ same(b.gdt.limit, "GDTR_LIMIT") /\ same(b.gdt.base, "GDTR_BASE")
                /\ \A s \in Segments : /\ same(b.seg[s].base, SegPart[s].base)
                                       /\ same(b.seg[s].limit, SegPart[s].limit)
                                       /\ same(b.seg[s].selector, SegPart[s].selector)
           /\ "KVM_GET_PIT" \in call.req.names => b = want.pit
           /\ "KVM_GET_SUPPORTED_CPUID" \in call.req.names =>
                call.user.n = 15 /\ SubSeq(call.user.list, 1, 15) = Supported

\* kvm_run_wrapper goes around no more once VM_INSTRUCTION_ERROR is set, in this
\* KVM_RUN and in all later ones.  It is set by a VMLAUNCH that the processor refused
\* and by nothing else: on a CPU that has the fields, no VMWRITE of the driver fails.
\* After every VMLAUNCH vcpu->fail says whether that one was refused.
RefusalTold ==
    /\ machine.vmcs[Field.VM_INSTRUCTION_ERROR] # {} <=> launch.refused
    /\ call.at # "guest" => (machine.vcpu.fail # {} <=> launch.last)

\* A successful KVM_GET_MSR_INDEX_LIST gives the client the list of MSRs.
MsrListReturned ==
    (call.at = "done" /\ "KVM_GET_MSR_INDEX_LIST" \in call.req.names /\ call.ret = 0) =>
        SubSeq(call.user.list, 1, call.user.n) = emulated_msrs
==============================================================================
