# A TLA+ model of kvm-kext

kvm-kext implements the `/dev/kvm` interface on OS X with Intel VMX. Almost all of it is
`src/main.cpp`; `src/helpers/` wraps the VMX instructions and `src/include/` holds the
interface. This directory holds TLA+ modules translated from that code, TLC configurations
that check them on small instances, and TLAPS proofs of the properties the rest depends on.

## The system

| part | state | operations | what makes it hard |
|---|---|---|---|
| VMCS ownership (`main.cpp:17-18, 447-485, 678-809`, `helpers/vmcs.h`) | current VMCS of each CPU, launch state, host-state area, `vcpu->ioctl_lock`, `vmcs_loaded`, interrupt flag | `LOAD_VMCS`, accesses, `kvm_run`, `RELEASE_VMCS` | threads migrate between CPUs; the launch is always VMLAUNCH; `cli` and `sti` are in different functions |
| list of states (`1078-1109`) | `head_of_state`, `next`, `prev` | `state_find`, insertion, removal | a broken link shows only in a later operation |
| device (`1111-1387`) | states, `open_count`, three locks, vcpus, descriptors | `kvm_dev_open`, `kvm_dev_close`, `kvm_dev_ioctl` | the state is used after `state_lock` is dropped; the count is changed outside it; the last close frees everything |
| KVM_RUN (`203-440, 882-981`) | registers, `pending_io`, `paging`, the shared page, the VMCS fields | the loop, twelve exit handlers | state carried through exits, limits and returns; injection needs an interrupt-window exit |
| interrupt lines (`1010-1025`) | `irq_level`, `pending_irq` | KVM_IRQ_LINE | runs at the same time as KVM_RUN, under another lock |
| page tables (`115-201`, `811-836`) | four levels of tables, in two halves | `ept_init`, `ept_add_page`, `ept_translate`, `ept_free`, KVM_SET_USER_MEMORY_REGION | two copies of each link; regions that fail in the middle; memory reused |
| world switch (`447-485, 678-809`, `helpers/seg_base.h`) | CPU registers, stack, vcpu, VMCS | `init_host_values`, the assembly of `kvm_run` | one register is the base of all loads and stores; a VM exit restores only part of the host; a refused VMLAUNCH restores nothing and falls through |
| registers (`487-676`, `helpers/vmx_segments.h`, `asm/vmx.h`) | registers in the vcpu and in the VMCS | `vcpu_init`, KVM_{GET,SET}_{REGS,SREGS} | four widths, packed access rights, copies of CR0.PG |
| CPUID and MSR tables (`239-304, 839-880, 983-1008, 1054-1071`) | two arrays | KVM_SET_CPUID2, KVM_SET_MSRS, two queries, `handle_cpuid` | arrays beyond the part the kernel copies |
| PIT, irqchip, capabilities (`1027-1052, 1246-1260`) | structures the driver only keeps | copies | whether the kernel copies at all depends on the command number |
| load and unload (`1412-1448`) | device switch, device node, a use of VMX | `MyKextStart`, `MyKextStop` | failure half way; unload while the device is open |
| user space (`include/kvm-kext-fixes.h`, `linux/kvm.h`, `linux/kvm-x86.h`) | the caller's structure | `__ioctl`; structure layouts and command numbers | the size and the direction in a number decide what is copied |

An ioctl starts in the wrapper in user space and the copies of the OS X kernel, goes through the
device (find the state, take its lock), then into one of the other parts. KVM_RUN uses the page
tables through the processor and the VMCS through the ownership protocol in each round of its
loop. KVM_IRQ_LINE meets KVM_RUN in `pending_irq` only.

## Modules

| module | models | checked by |
|---|---|---|
| `VmcsOwnership` | threads on CPUs, the VMX instructions, the steps of an ioctl on a VMCS | `MCVmcsOwnership`, `VmcsProofs` |
| `StateMap` | what the list of states promises: a map from processes to states | refined by `StateList` (in `Kext`), used by `KvmDevice` |
| `StateList` | the list with its pointers | through `Kext`; `KextProofs` |
| `Kext` | `MyKextStart` and `MyKextStop` around the list, call by call, with processes using the device | `Kext.cfg`, `KextProofs` |
| `KvmDevice` | open, close and ioctl, each split where it holds no lock | `MCKvmDevice` and `Device*.cfg`, `KvmDeviceProofs`, `KvmSerialProofs`, `KvmVcpuProofs` |
| `VcpuRun` | the loop of `kvm_run_wrapper`, the exit handlers, KVM_IRQ_LINE, and the guest | `Run*.cfg`, `VcpuRunProofs` |
| `EptMap` | what the page tables promise: a map from guest pages to frames | refined by `Ept` |
| `Ept` | the tables, and KVM_SET_USER_MEMORY_REGION page by page | `Ept.cfg`, `EptTreeProofs`, `EptProofs` |
| `KvmAbi` | the layout of the structures of the interface, and the command numbers made from it | used by `IoctlPath` |
| `Vmcs` | field encodings, control bits, accessors, `vcpu_init`, segments, the VMCS half of the SREGS ioctls | used by `WorldSwitch`, `VmcsProofs` |
| `WorldSwitch` | `init_host_values`, `segment_base`, the assembly of `kvm_run`, VM entry, VM exit and the entries that fail | used by `IoctlPath`, `VmcsProofs` |
| `IoctlPath` | one command from `__ioctl` to its return, and one KVM_RUN from the vcpu to the guest's registers and back | `MCIoctlPath` with `IoctlPath.cfg`, `MsrList.cfg` |

State variables are named after the fields they stand for. Actions are named after the
functions; `PROJECT.json` gives the lines. Operators just above a definition with a name that
extends it (`ReleaseNoClear` above `ReleaseClear`) are deliberately wrong versions: each
property is shown to fail under one of them.

**VmcsOwnership.** A thread is at a label (`pc`) and executes only while a CPU runs it. The
scheduler takes a thread off its CPU whenever interrupts are on and it holds no spinlock, which
is what `lck_spin_lock` guarantees in XNU, and resumes it on any CPU. VMPTRLD, VMCLEAR and VM
exits follow the Intel manual. LOAD_VMCS and RELEASE_VMCS take one step per statement.
Instructions on the VMCS between them are one step: the property says that in every state of the
section they reach the right VMCS. The case `if (error != 0) break` is not an action of its own:
VMLAUNCH fails with an error only on a VMCS that is not clear, not current or has invalid
or host state; the first two are excluded by the properties, and the third is in `IoctlPath`.

**KvmDevice.** `open_count++` and `open_count--` are a load and a store. Each allocation of the
locks of a state has a number, so that a thread that releases another lock than it took is seen.
A dereference of NULL is a panic, of which `panic` keeps the reason and after which nothing happens.
`kvm_dev_close` stores the count and tests it in two steps: an open, outside `state_lock`, may come
between. The system calls `kvm_dev_close` once for every `kvm_dev_open`, which is what `open_count`
is made for, and closes a descriptor only when no ioctl on it is in progress (`MayClose`). The constant
`Discipline` names what is assumed of the clients, or of the system around them: "serial" (a process
does not run two opens or closes at once), "created" (KVM_CREATE_VM before the last close) and
"mapped" (KVM_MMAP_VCPU before the last close). QEMU respects all three. "serial" may also be true of
every client: a kernel that holds a lock of the device around its open and close calls makes it so, and
one that calls close only for the last reference makes opens and closes differ in number. Nothing in the
repository says which kernel it counts on, so both answers are checked: with "serial" in
`device_serial`, without in `device_racing_opens`.

**VcpuRun.** The data kept of a vcpu is RIP, IF, where RAX comes from and the paging mode. The
guest executes `nop`, `cli`, `sti` or an instruction that exits. The numbers of the
exits and the array of handlers are those of the code; exits whose handlers do the same share a
name (`Dispatch`, `Exits`). `pending_irq |= ...` and `&= ...` are a load and a
store each: the two sides hold different locks, and KVM_IRQ_LINE runs beside KVM_RUN in every run.
`arch` and `edge` are history variables: what the guest must continue with, and of the lines which were
raised and not injected since and which a store of a stale `pending_irq` has changed. After an EPT
violation the guest continues anywhere: the handler skips by the instruction length, which the processor
does not define for this exit. KVM_SET_SREGS may write any CR0 and any state that VM entry rejects. MOV to CR3
does not exit with the controls `vcpu_init` sets, so that branch of `handle_cr` is not modelled.

**Ept.** A table has the half the processor walks and the half the kext walks. A guest page
number is split into four indices; higher bits are cut off, as in the code. KVM_CREATE_VM also
maps the APIC page. Memory freed by `ept_free` keeps its contents and is allocated again. The code
tests no result of an allocation; `Room` leaves out the calls that would run out of memory.

**Kext.** Each call into the system is a step. `uses` holds the loads that have taken a use of VMX and
not given it back: a load that finds no free entry in the device switch returns without giving its use
back. `MyKextStop` does not look whether the device is open: the handlers are gone, the states in the
list stay allocated and are forgotten (`lost`), and the next load starts with an empty list. An ioctl
in progress at that moment is not modelled: it executes code that is no longer there.

**KvmAbi, Vmcs, WorldSwitch, IoctlPath.** A machine word is the set of the positions of its one
bits, so widths and shifts are exact. Every register has a value of its own, different for each
host CPU, for each structure of the client and for the guest; a value that ends up in the wrong
register, or cut short, is therefore seen. The members of a structure are given by count and type
and laid out by the rules of the C ABI. The kernel copies the argument in and out by the size and
direction in the command number, and copies nothing out after an error. The switches of
`kvm_dev_ioctl` compare these numbers, not names. The assembly is translated instruction group by
instruction group, with the base register `rcx` and the stack: a load through a wrong base gives
garbage. `guest` and `want` are history variables: the registers the guest must have, and what the
client last set (attributes of segments, EFER, CPUID table, PIT and irqchip). A VM entry may fail in two ways. On the guest
state it is an exit with a reason of its own (`EnterFails`). A VMLAUNCH refused for the controls or the host
state is no exit (`EnterRefused`): the code after VMLAUNCH runs with the flags it left and with guest
registers, finds the exit reason of the exit before, and `kvm_run_wrapper` calls that reason's handler
once more before it leaves the loop. `launch` remembers it: what the guest and the client see afterwards is only stated
where the handler run twice has not changed it. VM entry, VM exit, CPUID and the copies of the kernel are outside the
repository and follow the Intel manual and `sys/ioccom.h`. The interrupt fields that `kvm_run_wrapper`
writes are in `VcpuRun`; commands of several threads at once are in `KvmDevice`; here calls come one
after the other. KVM_SET_USER_MEMORY_REGION, KVM_IRQ_LINE and KVM_MMAP_VCPU have their place in the
switches and their work in `Ept`, `VcpuRun` and `KvmDevice`. Three assumptions in `IoctlPath`, which
TLC evaluates, tie header and switches together: no two commands share a number the driver tests,
the kernel's buffer holds the structure each handler casts it to, and `struct kvm_run` fits the page
below the port data.

## Runs

| run | shows |
|---|---|
| `vmcs_ownership` | 3 threads, 2 VMs, 2 CPUs: every access is local, every launch finds a clear VMCS, host state and interrupt flag are right, an idle vcpu is on no CPU |
| `kext` | 3 processes, 4 states, 3 loads, with unloads while the device is open: the links are inverse, no state is lost by the list, the list implements `StateMap` in each load, no handler is reachable without VMX and `state_lock` |
| `device_serial` | "serial" clients, 3 threads, 2 processes, several VMs per process: registered states are live, no double free, no use after free, no free under an ioctl, exact count, exclusion, states and locks are found, no vcpu is freed under anybody |
| `run_safety` | KVM_IRQ_LINE racing KVM_RUN: continuation, port input, injection, vectors, modes; a torn update of `pending_irq` is the only way to a lost or a repeated interrupt |
| `run_live` | KVM_IRQ_LINE racing KVM_RUN: KVM_RUN always returns, a pending interrupt is followed by an injection |
| `ept` | both walks agree, regions are mapped exactly, tables are freed once, the tables implement `EptMap` |
| `ioctl_path` | 2 host CPUs, all commands: the guest runs with the registers, access rights and CPUID answers it was given, the host gets its state back, queries return what is there, a refused VMLAUNCH is told from an exit |

Five more runs show a disagreement between the code and what the repository says of it; the
findings in `PROJECT.json` quote both sides.

| run | what happens |
|---|---|
| `device_racing_opens` | two opens at once lose an update of `open_count`; a close then frees a state in use |
| `device_two_vms` | a second KVM_CREATE_VM succeeds and leaves the first vcpu allocated, with nothing that leads to it |
| `device_unmapped` | the last close after KVM_CREATE_VM and without KVM_MMAP_VCPU, as in `tests/get_version.c`, dereferences NULL |
| `run_lost_irq` | KVM_IRQ_LINE racing KVM_RUN loses a rising edge |
| `ioctl_msr_list` | the kernel's copy of the 16-byte `struct kvm_msr_list` overwrites the first MSR, which the handler has stored at offset 12 |

The race of `run_lost_irq` has a second side: a store of a stale `pending_irq` may also bring back a bit
that was cleared, and the interrupt is injected twice. `EdgeKept` and `InjectionOwed` say that these
stores are the only cause of either.

KVM_SET_SREGS that turns paging on does not tell the three places that keep the mode (`vcpu->paging`, the
read shadow, the unrestricted-guest control). `ModeCoherent` says that the three agree with one another
all the same, and `VectorMatchesMode` speaks of the CR0.PG the guest reads, through the shadow.

**Bounds.** Two CPUs and two VMs are what a migration and a foreign VMCS need; the third thread
makes two threads share a VM. `MaxOpens` bounds the count and the allocations of locks, `Vcpus`
the calls of KVM_CREATE_VM. `MaxCont` is 1000 in the code and 2 or 3 here: an exit, an injection
and the limit all fit, and the rounds carry nothing over but what the model keeps. `RipMod`
addresses tell a repeated instruction from a skipped one when it is at least 2.
`Fanout` is 2 instead of 512: four levels still branch, and regions of
two pages cross boundaries of every level and the top of the address space. `MaxCalls` = 2
lets regions overlap, or one be mapped in memory an earlier VM has used. Fifteen tables are a
whole tree of four levels with that fan-out. In `ioctl_path`
the client calls at most `MaxCalls` = 3 times, of which `MaxSets` = 2 change the state of the VM and
`MaxRuns` = 2 are KVM_RUN, with one of 2 contents (`Versions`); the guest changes one of the sets of
registers in `Touched`, or executes CPUID, once (`MaxChanges`), between two
host CPUs: a run, a set and a run on the other CPU fit, and so do a set, a run with a change and an
exit, and a query. Three loads
of the kext let one fail in between, and four states let three processes open it again after an unload left
a state behind. Symmetry is used for
threads of one process, CPUs, states and vcpus in safety runs only. A panicked kernel stays as it is
(`Halted`), so the device runs check deadlock of everything else; `kext` and
`ioctl_path` do not check it because their bounds on loads and on calls end a behaviour.

**Fairness.** `RunFairness`: the thread in KVM_RUN is scheduled, user space calls KVM_RUN again, and
a guest that runs exits some time, because pin-based external-interrupt exiting is on
(`main.cpp:501`) and the host has a timer. `WindowFairness` adds that an interrupt window that opens
again and again before the last round is not always beaten by a host interrupt. The property
itself is about guests that are open to interrupts again and again; nothing is assumed of the
others.

## Proofs

Every safety property of the passing runs but those of `ioctl_path` is also a theorem, for all values of the
constants, and of the operators behind those of `ioctl_path` there are theorems for all contents of the
registers; what is left to TLC is at the end of this section.

`VmcsProofs` proves the type invariant and six safety properties of `VmcsOwnership`
for all sets of threads, CPUs and VMs, from `VmcsConstants` alone (each thread has a VM, and
`None` is none of them). The properties are not inductive: that a thread stays on its CPU rests on
who holds the spinlock, which rests on the labels, and the clear launch state rests on the VMCS
being active nowhere. The inductive invariant `IInv` adds to the type invariant: a thread runs on
one CPU (`OneCpuEach`); labels and locks agree (`MutexHeld`, `SpinHeld`); the VMCS of a thread
inside the section is current on the CPU that runs it and active there only (`CurrentHere`,
`ActiveOnlyLoaded`); the host state is that CPU's (`HostHere`); interrupts are off only under a
thread between `cli` and `sti` (`CliOnlyRunning`); and the flag is set inside the section
(`LoadedWhileAccessed`). `InitIInv` and `NextIInv` show it inductive, one step per action;
each theorem follows from it.

The second half of `VmcsProofs` is about the operators of `Vmcs` and `WorldSwitch`, where TLC tries a
few register contents and the theorems are for all of them. `SegmentRights`: the word of
`vmx_segment_access_rights` decodes to the attributes it was made of and sets no reserved bit.
`SregsRoundTrip`: KVM_GET_SREGS after KVM_SET_SREGS returns what was set, with CR0.NE and CR4.VMXE
added and with the attributes of the caller's buffer, since `kvm_get_segment` does not read the access
rights. `SregsInTheVmcs`: KVM_SET_SREGS gives the guest the attributes of all eight segments and leaves
every field it is not about alone. `TaskRegisterBase`: `segment_base` reassembles the base that the
descriptor of the task register holds in four pieces. `HostStateComesBack`: if a VM exit finds the
host-state area as `init_host_values` wrote it, each register of the area is again what the CPU had;
that the area is written on the CPU that runs the guest is `HostStateIsLocal`. The argument is
the same throughout: the words fit the field and the call (`Fits`), the fields of one run of writes
are different, so each write stays (`WriteField`, `WriteAllWords`, `SetNextSegment`). That the
fields are different, writable and of the width of the call are the assumptions `SegmentFields`,
`SregsFields` and `HostFields`: closed facts about the table of encodings, without a variable or
a parameter, which TLC evaluates in the run `ioctl_path` and which the provers cannot compute because the names in
the table are put together from strings.

`KvmDeviceProofs` proves the types, `RegisteredLive` and `NoDoubleFree` for all processes, threads,
states and vcpus and with no assumption on the clients: opens and closes may race as they like. The
invariant adds that a thread has a state while it is inside a handler (`HasState`), that a close works
on the state registered for its process until it releases `state_lock` (`CloseHeld`), and that a state
about to be freed is in the list no more (`FreeUnregistered`). The module ends with what the steps of
`kvm_dev_open` and `kvm_dev_close` change and leave alone (`OpenFinds`, `OpenContinues`,
`CloseContinues`), which the next two modules cite.

`KvmSerialProofs` proves `CountExact`, `NoUseAfterFree`, `CloseAlone` and `IoctlExclusive` for clients
whose opens and closes do not overlap, the assumption `"serial" \in Discipline`. These four support
one another, so the invariant `SInv` is a conjunction: no other thread of the process changes the
count between a load and a store (`OneChange`); a handler works on the registered state, with the
count and the lock it loaded from it, and an ioctl has a descriptor (`AllSound`); the count is the
number of descriptors of the process, and one more while an open or a close is half way
(`CountAhead`). Hence the count reaches zero only when no ioctl can be in progress.
`device_racing_opens` shows that the assumption cannot be dropped.

`KvmVcpuProofs` builds on `SInv` and proves `HandlersFind` and `VcpuOwned` for "serial" clients, and
`NoPanic` for those that are also "mapped", however often KVM_CREATE_VM is
called. Its invariant `PInv` says that the locks exist as soon as the process has a descriptor
(`LockMade`), that no two states share a vcpu (`OwnVcpu`, or one close could free what another is
about to unmap) and no ioctl has read the vcpu of another state (`ReadVcpu`), and that the vcpu is mapped
from the moment the last close begins (`LastMapped`).
`device_unmapped` shows that "mapped" cannot be dropped.

`KextProofs` proves, for finite memory (`IsFiniteSet(States)`) and with the device in use or not, the
four properties of `kext`: `HandlersServed`, `DoublyLinked`, `AllFound`,
and that the list refines `StateMap`. `Held` says what the kext holds in each
phase. Inverse links alone do not keep a list from having a second part that the head never
reaches, in a cycle; so `ListInv` also says that some function gives every state its place: 0 for the
head, one more along `next`, all different and below the number of states (`Placed`). Then the
walk of `state_find` ends, visits every state and returns the only one of its process
(`FindsRight`). The walk is a recursive function over the number of steps; that it is well defined
(`WalkExists`) and what it returns are shown with a least counterexample, since a set of numbers
that is not empty has a least element. A load clears the head and
the nodes, so what an unload left behind does not reach the list of the next load (`LoadClears`).

`EptProofs` proves the four properties of `ept` for every `Fanout` (512 in the code), every finite
memory and any regions; `EptTreeProofs` has the lemmas it rests on, about the indices of a page, the
tree of tables and the functions that walk and extend it. The invariant `EptInv` says that the allocated tables are a tree: there are a level,
a parent and a slot for each of them, every link goes down one level to the table whose parent
and slot it is, above the leaves both halves hold the same link, and a leaf holds frames only
(`Tree`). From this follow `WalksAgree`; `FreedOnce`, because the path to a table is determined by
it; and `AddPageMaps`, the heart of the refinement of `EptMap`: `ept_add_page` changes
what the walk sees at one page. That two pages with the same four indices are the same page
(`IndexInjective`, from `Digits`) is arithmetic over division and remainder. `RegionMapped` is
inductive only for regions shorter than the address space, where no page of the region is mapped twice; it is
stated for those.

`VcpuRunProofs` proves the seven safety properties of `run_safety` for any interrupt lines, any limit of
rounds and any number of guest addresses, with nothing assumed of the client. None is inductive, because each speaks of the moments the
guest or user space can look. The invariant says what holds in between: where the guest continues
while a handler is about to skip an instruction (`Continues`); that the data of an IN is in RAX or
KVM_RUN is returning for it (`InputPending`); and that nothing between an interrupt-window exit and the
entry after it sets `sti` blocking, clears IF or makes the entry fail, and that no interrupt stays in the
VMCS outside the guest (`WindowKept`). The vector is right because the mode cannot change between the choice and the
entry (`OneMode`, `VectorKept`). For `EdgeKept` and `InjectionOwed` the invariant follows a stale copy of
`pending_irq` from its load to its store (`IrqKept`): where it differs from the word, somebody has
changed that line since.

Only model-checked: liveness (`RunReturns`, `InterruptDelivered`), which needs fairness; and the properties
of `IoctlPath` (`GuestSees`, `AccessRights`, `HostKept`, `ClientSees`, `RefusalTold`) as state
invariants. They compose the operators above with fixed tables of registers and commands: the instance
has all of them, the command numbers and the names are computed from strings and powers of two, which
the provers cannot evaluate, and the loads and saves of the registers are folds over sequences, whose values need
induction. What depends on the size of the instance there is the number of calls and the values; what
the operators do with every value is what `VmcsProofs` shows.

## Not modelled

- Allocation failure: the code tests no result of an allocation, and the next statement faults.
- Permission and alignment bits of page table entries, and the processor's caches of translations.
- Reference counts of IOKit objects, and the memory of the CPUID and MSR tables. What the code never
  frees and nothing refers to later: `state_lock`, the spin lock of a vcpu, lock groups and attributes, the descriptors of
  the memory regions. `ept_free` gives memory of `IOMallocAligned` back with `IOFree`; what that does
  to the allocator is outside the repository.
- VMX instructions that fail because the CPU lacks a field (error 12), such as the preemption timer that
  `vcpu_init` writes: the CPU of the model has all fields. An ioctl in progress during an unload.
- A `copyin` that fails inside a handler; its result is ignored.
- The FPU and the debug registers, which the code does not switch; the host's CR2, which it does not restore
  (the guest's is modelled); the value RDMSR returns; MOV to CR3, which does not exit.
- `helpers/vmx_shims.h`: page allocation and physical addresses, without state of their own. `__mmap`,
  which is one call of `__ioctl`.
- Headers of Linux that nothing includes: `linux/kvm_host.h`, `asm/kvm_host.h`, `asm/msr-index.h`,
  `asm/hyperv.h`, `asm/special_insns.h`, `asm/processor-flags.h`, `linux/kvm_para.h`, `linux/kvm_types.h`.
- The test programs and the user space library under `tests/`, which are clients of the interface.

The hazards in `PROJECT.json` that no property covers name the lines.
