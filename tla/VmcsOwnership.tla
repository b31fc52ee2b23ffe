---------------------------- MODULE VmcsOwnership ----------------------------
(* Which CPU works on which VMCS, and when.  Every ioctl that touches guest   *)
(* state brackets its VMCS accesses with LOAD_VMCS and RELEASE_VMCS           *)
(* (main.cpp:17-18): take the vcpu's spinlock, VMPTRLD, ..., VMCLEAR, release *)
(* the spinlock.  The threads of a process are serialised by the process's    *)
(* ioctl_lock (a sleeping IOLock); the scheduler may move a thread to another *)
(* CPU whenever preemption is enabled.  A VMX instruction works on the VMCS   *)
(* that is current on the CPU executing it, so a migration between LOAD and   *)
(* RELEASE would make the thread read and write somebody else's VMCS.         *)
EXTENDS Naturals

CONSTANTS
    Threads,   \* user threads inside kvm_dev_ioctl
    Cpus,      \* processors, each with its own current-VMCS pointer
    Vms,       \* vcpus, one VMCS each (one per process)
    VmOf,      \* the vcpu of the process a thread belongs to
    None       \* no thread, no VMCS, no CPU

ASSUME VmcsConstants ==
    /\ VmOf \in [Threads -> Vms]
    /\ None \notin Threads \cup Cpus \cup Vms

VARIABLES
    running,    \* running[c]: the thread CPU c executes
    intr,       \* intr[c]: interrupts are enabled on c (cli / sti)
    current,    \* current[c]: the VMCS last loaded on c with VMPTRLD
    active,     \* active[v]: the CPUs holding v's data since a VMPTRLD
    launched,   \* launched[v]: the launch state of v is "launched"
    host,       \* host[v]: the CPU whose registers are v's host-state area
    created,    \* created[v]: KVM_CREATE_VM has finished for v
    mutex,      \* mutex[v]: holder of state->ioctl_lock
    spin,       \* spin[v]: holder of vcpu->ioctl_lock
    loaded,     \* loaded[v]: vcpu->vmcs_loaded
    op,         \* op[t]: the ioctl t executes
    pc          \* pc[t]: where t is

cpuVars == <<running, intr>>
vmxVars == <<current, active, launched, host>>
kvmVars == <<created, mutex, spin, loaded>>
vars == <<cpuVars, vmxVars, kvmVars, op, pc>>

Ops == {"create", "sregs", "run"}
Labels == {"user", "alloc", "spin", "load", "flag1", "access", "host", "launch",
           "guest", "handle", "clear", "unlock", "flag0", "sti", "done"}

Init ==
    /\ running = [c \in Cpus |-> None]
    /\ intr = [c \in Cpus |-> TRUE]
    /\ current = [c \in Cpus |-> None]
    /\ active = [v \in Vms |-> {}]
    /\ launched = [v \in Vms |-> FALSE]
    /\ host = [v \in Vms |-> None]
    /\ created = [v \in Vms |-> FALSE]
    /\ mutex = [v \in Vms |-> None]
    /\ spin = [v \in Vms |-> None]
    /\ loaded = [v \in Vms |-> FALSE]
    /\ op = [t \in Threads |-> "create"]
    /\ pc = [t \in Threads |-> "user"]

-----------------------------------------------------------------------------
(* The scheduler and the VMX instructions (outside the repository).           *)

\* lck_spin_lock disables preemption, and so does running with interrupts off.
Preemptible(t, c) == intr[c] /\ \A v \in Vms : spin[v] # t

Preempt(c) ==
    /\ running[c] # None
    /\ Preemptible(running[c], c)
    /\ running' = [running EXCEPT ![c] = None]
    /\ UNCHANGED <<intr, vmxVars, kvmVars, op, pc>>

Dispatch(t, c) ==
    /\ running[c] = None
    /\ \A d \in Cpus : running[d] # t
    /\ running' = [running EXCEPT ![c] = t]
    /\ UNCHANGED <<intr, vmxVars, kvmVars, op, pc>>

\* The operands of VMPTRLD exchanged.
VmptrldSwapped(v, c) ==
    /\ current' = [current EXCEPT ![c] = c]
    /\ active' = [active EXCEPT ![v] = @ \cup {c}]
    /\ UNCHANGED <<launched, host>>

Vmptrld(v, c) ==
    /\ current' = [current EXCEPT ![c] = v]
    /\ active' = [active EXCEPT ![v] = @ \cup {c}]
    /\ UNCHANGED <<launched, host>>

Vmclear(v, c) ==
    /\ active' = [active EXCEPT ![v] = @ \ {c}]
    /\ launched' = [launched EXCEPT ![v] = FALSE]
    /\ current' = [current EXCEPT ![c] = IF @ = v THEN None ELSE @]
    /\ UNCHANGED host

-----------------------------------------------------------------------------
(* The steps of a thread t executing on CPU c.                                *)

At(t, c, l) == running[c] = t /\ pc[t] = l
Goto(t, l) == pc' = [pc EXCEPT ![t] = l]

\* kvm_dev_ioctl takes the process's ioctl_lock; an ioctl on the vcpu fails
\* with EOPNOTSUPP when there is no vcpu yet.
LockIoctl(t, c, o) ==
    /\ At(t, c, "user")
    /\ mutex[VmOf[t]] = None
    /\ created[VmOf[t]] <=> (o # "create")
    /\ mutex' = [mutex EXCEPT ![VmOf[t]] = t]
    /\ op' = [op EXCEPT ![t] = o]
    /\ Goto(t, IF o = "create" THEN "alloc" ELSE "spin")
    /\ UNCHANGED <<cpuVars, vmxVars, created, spin, loaded>>

\* KVM_CREATE_VM allocates the VMCS and clears it before the first LOAD_VMCS.
CreateVm(t, c) ==
    /\ At(t, c, "alloc")
    /\ Vmclear(VmOf[t], c)
    /\ Goto(t, "spin")
    /\ UNCHANGED <<cpuVars, kvmVars, op>>

\* LOAD_VMCS without the spinlock: the thread stays preemptible.
LoadSpinPreemptible(t, c) ==
    /\ At(t, c, "spin")
    /\ Goto(t, "load")
    /\ UNCHANGED <<cpuVars, vmxVars, kvmVars, op>>

\* LOAD_VMCS: lck_spin_lock ...
LoadSpin(t, c) ==
    /\ At(t, c, "spin")
    /\ spin[VmOf[t]] = None
    /\ spin' = [spin EXCEPT ![VmOf[t]] = t]
    /\ Goto(t, "load")
    /\ UNCHANGED <<cpuVars, vmxVars, created, mutex, loaded, op>>

\* ... vmcs_load ...
LoadVmcs(t, c) ==
    /\ At(t, c, "load")
    /\ Vmptrld(VmOf[t], c)
    /\ Goto(t, "flag1")
    /\ UNCHANGED <<cpuVars, kvmVars, op>>

\* ... vmcs_loaded = 1.
LoadFlag(t, c) ==
    /\ At(t, c, "flag1")
    /\ loaded' = [loaded EXCEPT ![VmOf[t]] = TRUE]
    /\ Goto(t, "access")
    /\ UNCHANGED <<cpuVars, vmxVars, created, mutex, spin, op>>

\* vcpu_init, kvm_get_sregs and kvm_set_sregs only read and write fields;
\* KVM_RUN writes the guest's RFLAGS, RSP and RIP and disables interrupts.
Access(t, c) ==
    /\ At(t, c, "access")
    /\ \/ /\ op[t] # "run"
          /\ Goto(t, "clear")
          /\ UNCHANGED intr
       \/ /\ op[t] = "run"
          /\ intr' = [intr EXCEPT ![c] = FALSE]
          /\ Goto(t, "host")
    /\ UNCHANGED <<running, vmxVars, kvmVars, op>>

\* Host values written by the first run of the vcpu only.
InitHostValuesOnce(t, c) ==
    /\ At(t, c, "host")
    /\ host' = [host EXCEPT ![VmOf[t]] = IF @ = None THEN c ELSE @]
    /\ Goto(t, "launch")
    /\ UNCHANGED <<cpuVars, current, active, launched, kvmVars, op>>

\* init_host_values: segments, descriptor tables and bases of this CPU.
InitHostValues(t, c) ==
    /\ At(t, c, "host")
    /\ host' = [host EXCEPT ![VmOf[t]] = c]
    /\ Goto(t, "launch")
    /\ UNCHANGED <<cpuVars, current, active, launched, kvmVars, op>>

\* The launch in kvm_run: __launched is never set, so it is always VMLAUNCH.
Launch(t, c) ==
    /\ At(t, c, "launch")
    /\ launched' = [launched EXCEPT ![VmOf[t]] = TRUE]
    /\ Goto(t, "guest")
    /\ UNCHANGED <<cpuVars, current, active, host, kvmVars, op>>

\* A VM exit loads the host state and comes back to vmexit_handler.
VmExit(t, c) ==
    /\ At(t, c, "guest")
    /\ Goto(t, "handle")
    /\ UNCHANGED <<cpuVars, vmxVars, kvmVars, op>>

\* The exit information is read and the exit handler runs.
Handle(t, c) ==
    /\ At(t, c, "handle")
    /\ Goto(t, "clear")
    /\ UNCHANGED <<cpuVars, vmxVars, kvmVars, op>>

\* RELEASE_VMCS without vmcs_clear.
ReleaseNoClear(t, c) ==
    /\ At(t, c, "clear")
    /\ Goto(t, "unlock")
    /\ UNCHANGED <<cpuVars, vmxVars, kvmVars, op>>

\* RELEASE_VMCS: vmcs_clear ...
ReleaseClear(t, c) ==
    /\ At(t, c, "clear")
    /\ Vmclear(VmOf[t], c)
    /\ Goto(t, "unlock")
    /\ UNCHANGED <<cpuVars, kvmVars, op>>

\* The ioctl_lock dropped together with the spinlock.
ReleaseBothLocks(t, c) ==
    /\ At(t, c, "unlock")
    /\ spin' = [spin EXCEPT ![VmOf[t]] = None]
    /\ mutex' = [mutex EXCEPT ![VmOf[t]] = None]
    /\ Goto(t, "flag0")
    /\ UNCHANGED <<cpuVars, vmxVars, created, loaded, op>>

\* ... lck_spin_unlock ...
ReleaseSpin(t, c) ==
    /\ At(t, c, "unlock")
    /\ spin' = [spin EXCEPT ![VmOf[t]] = None]
    /\ Goto(t, "flag0")
    /\ UNCHANGED <<cpuVars, vmxVars, created, mutex, loaded, op>>

\* ... and only then vmcs_loaded = 0.
ReleaseFlag(t, c) ==
    /\ At(t, c, "flag0")
    /\ loaded' = [loaded EXCEPT ![VmOf[t]] = FALSE]
    /\ created' = [created EXCEPT ![VmOf[t]] = TRUE]
    /\ Goto(t, IF op[t] = "run" THEN "sti" ELSE "done")
    /\ UNCHANGED <<cpuVars, vmxVars, mutex, spin, op>>

\* The sti forgotten when the loop ends.
StiOnlyWhenLooping(t, c) ==
    /\ At(t, c, "sti")
    /\ \/ intr' = [intr EXCEPT ![c] = TRUE] /\ Goto(t, "spin")
       \/ UNCHANGED intr /\ Goto(t, "done")
    /\ UNCHANGED <<running, vmxVars, kvmVars, op>>

\* sti, then another round of kvm_run_wrapper's loop or the way out of it.
Sti(t, c) ==
    /\ At(t, c, "sti")
    /\ intr' = [intr EXCEPT ![c] = TRUE]
    /\ \/ Goto(t, "spin")
       \/ Goto(t, "done")
    /\ UNCHANGED <<running, vmxVars, kvmVars, op>>

\* fail: the ioctl_lock is released and the ioctl returns.
UnlockIoctl(t, c) ==
    /\ At(t, c, "done")
    /\ mutex' = [mutex EXCEPT ![VmOf[t]] = None]
    /\ Goto(t, "user")
    /\ UNCHANGED <<cpuVars, vmxVars, created, spin, loaded, op>>

Step(t, c) ==
    \/ \E o \in Ops : LockIoctl(t, c, o)
    \/ CreateVm(t, c)
    \/ LoadSpin(t, c) \/ LoadVmcs(t, c) \/ LoadFlag(t, c)
    \/ Access(t, c) \/ InitHostValues(t, c) \/ Launch(t, c)
    \/ VmExit(t, c) \/ Handle(t, c)
    \/ ReleaseClear(t, c) \/ ReleaseSpin(t, c) \/ ReleaseFlag(t, c)
    \/ Sti(t, c) \/ UnlockIoctl(t, c)

Next ==
    \/ \E c \in Cpus : Preempt(c)
    \/ \E t \in Threads, c \in Cpus : Dispatch(t, c) \/ Step(t, c)

Spec == Init /\ [][Next]_vars

-----------------------------------------------------------------------------
TypeOK ==
    /\ running \in [Cpus -> Threads \cup {None}]
    /\ intr \in [Cpus -> BOOLEAN]
    /\ current \in [Cpus -> Vms \cup {None}]
    /\ active \in [Vms -> SUBSET Cpus]
    /\ launched \in [Vms -> BOOLEAN]
    /\ host \in [Vms -> Cpus \cup {None}]
    /\ created \in [Vms -> BOOLEAN]
    /\ mutex \in [Vms -> Threads \cup {None}]
    /\ spin \in [Vms -> Threads \cup {None}]
    /\ loaded \in [Vms -> BOOLEAN]
    /\ op \in [Threads -> Ops]
    /\ pc \in [Threads -> Labels]

\* From vmcs_load to vmcs_clear a thread keeps its CPU, its own VMCS is the
\* one current there, and that VMCS is active on no other CPU: every vmread
\* and vmwrite of the section reaches the vcpu it is meant for.  This is what
\* the comment at main.cpp:99-100 hopes the spinlock achieves.
VmcsAccessLocal ==
    \A t \in Threads :
        pc[t] \in {"flag1", "access", "host", "launch", "guest", "handle", "clear"} =>
            \E c \in Cpus : /\ running[c] = t
                            /\ current[c] = VmOf[t]
                            /\ active[VmOf[t]] = {c}

\* kvm_run always uses VMLAUNCH (main.cpp:802-803 leave __launched at 0), which
\* only a clear VMCS accepts: whatever CPU ran the vcpu last, and however many
\* rounds the loop has made, the VMCS is clear again.
LaunchFromClear ==
    \A t \in Threads : pc[t] = "launch" => ~launched[VmOf[t]]

\* While the guest runs, the host-state area of its VMCS describes the CPU it
\* runs on, so the VM exit does not load another CPU's GS base, TR or GDT.
HostStateLocal ==
    \A t \in Threads, c \in Cpus :
        running[c] = t /\ pc[t] = "guest" => host[VmOf[t]] = c

\* A vcpu no thread works on is active on no CPU and has a clear VMCS: the next
\* LOAD_VMCS may come from any CPU, and kvm_dev_close may free the page.
IdleVmcsInactive ==
    \A v \in Vms : spin[v] = None => active[v] = {} /\ ~launched[v]

\* The cli in kvm_run is undone before the thread can sleep on a lock, loop or
\* return to user space.
InterruptsRestored ==
    \A t \in Threads, c \in Cpus :
        running[c] = t /\ pc[t] \in {"user", "alloc", "spin", "done"} => intr[c]

\* RELEASE_VMCS resets vmcs_loaded after it has dropped the spinlock, yet the
\* flag is never lost under the next holder: the ioctl_lock still covers it.
LoadedWhileAccessed ==
    \A t \in Threads :
        pc[t] \in {"access", "host", "launch", "guest", "handle", "clear"} =>
            loaded[VmOf[t]]
=============================================================================
