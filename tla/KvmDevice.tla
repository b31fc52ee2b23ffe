------------------------------ MODULE KvmDevice ------------------------------
(* The character device: kvm_dev_open, kvm_dev_close and kvm_dev_ioctl, the    *)
(* locks they take, and the lifetime of a state and of its vcpu               *)
(* (main.cpp:1111-1387).  Threads of several processes run the handlers       *)
(* concurrently.  What the code does outside a lock is split into its loads   *)
(* and stores.  The list of states is the map StateMap that StateList          *)
(* implements.  A dereference of NULL or of a lock that was never allocated    *)
(* is a kernel panic, after which nothing happens any more.  The system calls *)
(* kvm_dev_close once for every kvm_dev_open, which is what open_count counts. *)
EXTENDS Integers, FiniteSets

CONSTANTS
    Threads,     \* threads calling into the device
    Procs,       \* processes
    ProcOf,      \* the process of a thread
    States,      \* addresses of struct state
    Vcpus,       \* addresses of struct vcpu; bounds the calls of KVM_CREATE_VM
    NULL,
    MaxOpens,    \* bounds |open_count| and the number of lock allocations
    Discipline   \* what the client programs are assumed to respect

\* "serial": a process never runs two opens or closes at the same time.
\* "created": it calls KVM_CREATE_VM before its last close.
\* "mapped": it also maps the vcpu (KVM_MMAP_VCPU) before its last close.
Rules == {"serial", "created", "mapped"}

\* What a handler misses when it panics: the state in kvm_dev_close, the vcpu of the
\* state or its mapping in the last close, a lock in kvm_dev_ioctl, or the hold of the
\* lock it releases.
Faults == {"no_state", "no_vcpu", "no_mapping", "no_lock", "not_held"}

ASSUME DeviceConstants ==
    /\ ProcOf \in [Threads -> Procs]
    /\ NULL \notin Threads \cup Procs \cup States \cup Vcpus
    /\ Discipline \subseteq Rules
    /\ MaxOpens \in Nat

VARIABLES
    reg,         \* reg[p]: what state_find returns for process p
    st,          \* st[s]: the struct state at address s
    vc,          \* vc[v]: the struct vcpu at address v
    stateLock,   \* holder of state_lock, or NULL
    fds,         \* open descriptors, each named after the thread that opened it
    thr,         \* thr[t]: label and local variables of thread t
    panic        \* "no", or why the kernel has panicked

vars == <<reg, st, vc, stateLock, fds, thr, panic>>

Reg == INSTANCE StateMap

\* KVM_CREATE_VM, KVM_MMAP_VCPU, KVM_IRQ_LINE, any other ioctl on the vcpu, and
\* the ioctls that need no vcpu.
Cmds == {"create", "mmap", "irq", "vcpu", "system"}

OpenLabels == {"open_load", "open_store", "open_init"}
CloseLabels == {"close_load", "close_store", "close_test", "close_free"}
IoctlLabels == {"ioctl_vcpu", "ioctl_lock", "ioctl_body", "ioctl_unlock"}

\* count is open_count; lock numbers the pair of locks ioctl_lock and irq_lock
\* allocated for the state, 0 before the first.
Zeroed == [live |-> FALSE, count |-> 0, vcpu |-> NULL, lock |-> 0]
Fresh  == [live |-> TRUE, count |-> 0, vcpu |-> NULL, lock |-> 0]

\* Local variables: the state found, the vcpu read from it, the open_count
\* loaded, the lock taken, the descriptor and the command.  dangling records
\* that the state was freed while the thread was using it.
Local(pc, state, fd, cmd) ==
    [pc |-> pc, state |-> state, vcpu |-> NULL, tmp |-> 0, lock |-> 0, fd |-> fd,
     cmd |-> cmd, dangling |-> FALSE]
Idle == Local("user", NULL, NULL, "system")

Init ==
    /\ Reg!Init
    /\ st = [s \in States |-> Zeroed]
    /\ vc = [v \in Vcpus |-> "free"]
    /\ stateLock = NULL
    /\ fds = {}
    /\ thr = [t \in Threads |-> Idle]
    /\ panic = "no"

-----------------------------------------------------------------------------
At(t, l) == panic = "no" /\ thr[t].pc = l
Goto(t, l) == thr' = [thr EXCEPT ![t].pc = l]
Return(t) == thr' = [thr EXCEPT ![t] = Idle]
Panic(why) == panic' = why /\ UNCHANGED <<reg, st, vc, fds, thr>>

Mapped(v) == v # NULL /\ vc[v] = "mapped"
Peers(t) == {u \in Threads : ProcOf[u] = ProcOf[t]}
OpensAndClosesAlone(t) ==
    \A u \in Peers(t) : thr[u].pc \notin OpenLabels \cup CloseLabels

(* kvm_dev_open *)

\* Under state_lock: find the state of the process or register a new one.
Open(t) ==
    /\ At(t, "user")
    /\ t \notin fds
    /\ "serial" \in Discipline => OpensAndClosesAlone(t)
    /\ stateLock = NULL
    /\ \/ /\ reg[ProcOf[t]] # NULL
          /\ st[reg[ProcOf[t]]].count < MaxOpens /\ st[reg[ProcOf[t]]].lock < MaxOpens
          /\ thr' = [thr EXCEPT ![t] = Local("open_load", reg[ProcOf[t]], NULL, "system")]
          /\ UNCHANGED <<reg, st>>
       \/ \E s \in States :
          /\ ~st[s].live
          /\ Reg!Register(ProcOf[t], s)
          /\ st' = [st EXCEPT ![s] = Fresh]
          /\ thr' = [thr EXCEPT ![t] = Local("open_load", s, NULL, "system")]
    /\ UNCHANGED <<vc, stateLock, fds, panic>>

\* open_count++ after the unlock: a load ...
OpenLoad(t) ==
    /\ At(t, "open_load")
    /\ thr' = [thr EXCEPT ![t].tmp = st[thr[t].state].count, ![t].pc = "open_store"]
    /\ UNCHANGED <<reg, st, vc, stateLock, fds, panic>>

\* ... and a store.
OpenStore(t) ==
    /\ At(t, "open_store")
    /\ st' = [st EXCEPT ![thr[t].state].count = thr[t].tmp + 1]
    /\ Goto(t, "open_init")
    /\ UNCHANGED <<reg, vc, stateLock, fds, panic>>

\* The locks allocated again by every open.
OpenInitAlways(t) ==
    /\ At(t, "open_init")
    /\ st' = [st EXCEPT ![thr[t].state].lock = @ + 1]
    /\ fds' = fds \cup {t}
    /\ Return(t)
    /\ UNCHANGED <<reg, vc, stateLock, panic>>

\* The count compared with 0.
OpenInitAtZero(t) ==
    /\ At(t, "open_init")
    /\ st' = [st EXCEPT ![thr[t].state].lock =
                  IF st[thr[t].state].count = 0 THEN @ + 1 ELSE @]
    /\ fds' = fds \cup {t}
    /\ Return(t)
    /\ UNCHANGED <<reg, vc, stateLock, panic>>

\* The first open, by the count it reads now, allocates the locks.
OpenInit(t) ==
    /\ At(t, "open_init")
    /\ st' = [st EXCEPT ![thr[t].state].lock =
                  IF st[thr[t].state].count = 1 THEN @ + 1 ELSE @]
    /\ fds' = fds \cup {t}
    /\ Return(t)
    /\ UNCHANGED <<reg, vc, stateLock, panic>>

(* kvm_dev_close *)

\* The system closes descriptor d once no ioctl on d is in progress.
MayClose(t, d) ==
    /\ d \in fds
    /\ ProcOf[d] = ProcOf[t]
    /\ \A u \in Threads : thr[u].fd # d
    /\ "serial" \in Discipline => OpensAndClosesAlone(t)
    /\ fds \cap Peers(t) = {d} /\ reg[ProcOf[t]] # NULL =>
         /\ "created" \in Discipline => st[reg[ProcOf[t]]].vcpu # NULL
         /\ "mapped" \in Discipline => Mapped(st[reg[ProcOf[t]]].vcpu)

\* Take state_lock and find the state.  When there is none the lock is released
\* but the function goes on and dereferences NULL.
Close(t, d) ==
    /\ At(t, "user")
    /\ MayClose(t, d)
    /\ stateLock = NULL
    /\ reg[ProcOf[t]] # NULL => st[reg[ProcOf[t]]].count > -MaxOpens
    /\ \/ /\ reg[ProcOf[t]] = NULL
          /\ Panic("no_state")
          /\ UNCHANGED stateLock
       \/ /\ reg[ProcOf[t]] # NULL
          /\ stateLock' = t
          /\ fds' = fds \ {d}
          /\ thr' = [thr EXCEPT ![t] = Local("close_load", reg[ProcOf[t]], NULL, "system")]
          /\ UNCHANGED <<reg, st, vc, panic>>

\* open_count--, a load ...
CloseLoad(t) ==
    /\ At(t, "close_load")
    /\ thr' = [thr EXCEPT ![t].tmp = st[thr[t].state].count, ![t].pc = "close_store"]
    /\ UNCHANGED <<reg, st, vc, stateLock, fds, panic>>

\* ... and a store ...
CloseStore(t) ==
    /\ At(t, "close_store")
    /\ st' = [st EXCEPT ![thr[t].state].count = thr[t].tmp - 1]
    /\ Goto(t, "close_test")
    /\ UNCHANGED <<reg, vc, stateLock, fds, panic>>

\* The count tested before it is decremented.
CloseTestsFirst(t) ==
    /\ At(t, "close_test")
    /\ stateLock' = NULL
    /\ \/ thr[t].tmp = 2 /\ Reg!Unregister(ProcOf[t]) /\ Goto(t, "close_free")
       \/ thr[t].tmp # 2 /\ Return(t) /\ UNCHANGED reg
    /\ UNCHANGED <<st, vc, fds, panic>>

\* The state freed but left in the list.
CloseTestNoUnlink(t) ==
    /\ At(t, "close_test")
    /\ stateLock' = NULL
    /\ \/ thr[t].tmp = 1 /\ Goto(t, "close_free")
       \/ thr[t].tmp # 1 /\ Return(t)
    /\ UNCHANGED <<reg, st, vc, fds, panic>>

\* ... then the test for zero, of the value just stored or of what an open, outside
\* state_lock, has stored since.  At zero the state leaves the list, and state_lock is
\* released.
CloseTest(t) ==
    /\ At(t, "close_test")
    /\ stateLock' = NULL
    /\ \E count \in {thr[t].tmp - 1, st[thr[t].state].count} :
          \/ count = 0 /\ Reg!Unregister(ProcOf[t]) /\ Goto(t, "close_free")
          \/ count # 0 /\ Return(t) /\ UNCHANGED reg
    /\ UNCHANGED <<st, vc, fds, panic>>

\* The vcpu with what it points to, the locks ioctl_lock and irq_lock, and the state are
\* freed.  The vcpu, first, and then its mapping are dereferenced without a test for NULL.
\* The spin lock of the vcpu, the lock group of the state and its attribute, and the
\* descriptors of the memory regions stay allocated for good: nothing refers to them
\* afterwards, and the model does not keep them.
CloseFree(t) ==
    LET s == thr[t].state
        v == st[s].vcpu
    IN  /\ At(t, "close_free")
        /\ \/ v = NULL /\ Panic("no_vcpu")
           \/ v # NULL /\ ~Mapped(v) /\ Panic("no_mapping")
           \/ /\ Mapped(v)
              /\ vc' = [vc EXCEPT ![v] = "free"]
              /\ st' = [st EXCEPT ![s] = Zeroed]
              /\ thr' = [u \in Threads |->
                            IF u = t THEN Idle
                            ELSE [thr[u] EXCEPT !.dangling = @ \/ thr[u].state = s]]
              /\ UNCHANGED <<reg, fds, panic>>
        /\ UNCHANGED stateLock

(* kvm_dev_ioctl *)

\* Vcpus bounds the vcpus there can be.
MayCreate ==
    Cardinality({u \in Threads : thr[u].cmd = "create"})
        < Cardinality({v \in Vcpus : vc[v] = "free"})

\* Under state_lock: find the state; with none the ioctl fails with ENOENT.
Ioctl(t, d, cmd) ==
    /\ At(t, "user")
    /\ d \in fds
    /\ ProcOf[d] = ProcOf[t]
    /\ stateLock = NULL
    /\ reg[ProcOf[t]] # NULL
    /\ cmd = "create" => MayCreate
    /\ thr' = [thr EXCEPT ![t] = Local("ioctl_vcpu", reg[ProcOf[t]], d, cmd)]
    /\ UNCHANGED <<reg, st, vc, stateLock, fds, panic>>

\* The state taken for its vcpu.
IoctlVcpuIsState(t) ==
    /\ At(t, "ioctl_vcpu")
    /\ thr' = [thr EXCEPT ![t].vcpu = thr[t].state, ![t].pc = "ioctl_lock"]
    /\ UNCHANGED <<reg, st, vc, stateLock, fds, panic>>

\* state->vcpu is read before any lock of the state is taken.
IoctlVcpu(t) ==
    /\ At(t, "ioctl_vcpu")
    /\ thr' = [thr EXCEPT ![t].vcpu = st[thr[t].state].vcpu, ![t].pc = "ioctl_lock"]
    /\ UNCHANGED <<reg, st, vc, stateLock, fds, panic>>

\* The threads inside the section of the lock t asks for.
Holders(t) ==
    {u \in Threads : /\ thr[u].pc \in {"ioctl_body", "ioctl_unlock"}
                     /\ thr[u].state = thr[t].state
                     /\ thr[u].lock = st[thr[t].state].lock
                     /\ (thr[u].cmd = "irq") <=> (thr[t].cmd = "irq")}

\* KVM_IRQ_LINE takes irq_lock, every other ioctl takes ioctl_lock.
IoctlLock(t) ==
    /\ At(t, "ioctl_lock")
    /\ \/ /\ st[thr[t].state].lock = 0
          /\ Panic("no_lock")
       \/ /\ st[thr[t].state].lock # 0
          /\ Holders(t) = {}
          /\ thr' = [thr EXCEPT ![t].lock = st[thr[t].state].lock, ![t].pc = "ioctl_body"]
          /\ UNCHANGED <<reg, st, vc, fds, panic>>
    /\ UNCHANGED stateLock

\* KVM_CREATE_VM stores a new vcpu in the state whatever was there before.
CreateVm(t) ==
    \E v \in Vcpus :
        /\ vc[v] = "free"
        /\ vc' = [vc EXCEPT ![v] = "new"]
        /\ st' = [st EXCEPT ![thr[t].state].vcpu = v]
        /\ thr' = [thr EXCEPT ![t].vcpu = v, ![t].pc = "ioctl_unlock"]

\* KVM_MMAP_VCPU creates the memory descriptor and the mapping of the vcpu.
MmapVcpu(t) ==
    /\ thr[t].vcpu # NULL
    /\ vc' = [vc EXCEPT ![thr[t].vcpu] = "mapped"]
    /\ Goto(t, "ioctl_unlock")
    /\ UNCHANGED st

\* Every other ioctl leaves the vcpu where it is; one that needs a vcpu and read
\* none fails.
IoctlBody(t) ==
    /\ At(t, "ioctl_body")
    /\ \/ thr[t].cmd = "create" /\ CreateVm(t)
       \/ thr[t].cmd = "mmap" /\ MmapVcpu(t)
       \/ /\ thr[t].cmd \in {"vcpu", "irq", "system"} \/ (thr[t].cmd = "mmap" /\ thr[t].vcpu = NULL)
          /\ Goto(t, "ioctl_unlock")
          /\ UNCHANGED <<st, vc>>
    /\ UNCHANGED <<reg, stateLock, fds, panic>>

\* fail: the lock pointer is read again.  Releasing a lock the thread does not
\* hold may or may not panic.
IoctlUnlock(t) ==
    /\ At(t, "ioctl_unlock")
    /\ \/ UNCHANGED panic
       \/ st[thr[t].state].lock # thr[t].lock /\ panic' = "not_held"
    /\ Return(t)
    /\ UNCHANGED <<reg, st, vc, stateLock, fds>>

\* After a panic nothing happens.
Halted == panic # "no" /\ UNCHANGED vars

Next ==
    \/ \E t \in Threads :
          \/ Open(t) \/ OpenLoad(t) \/ OpenStore(t) \/ OpenInit(t)
          \/ \E d \in Threads : Close(t, d)
          \/ CloseLoad(t) \/ CloseStore(t) \/ CloseTest(t) \/ CloseFree(t)
          \/ \E d \in Threads, cmd \in Cmds : Ioctl(t, d, cmd)
          \/ IoctlVcpu(t) \/ IoctlLock(t) \/ IoctlBody(t) \/ IoctlUnlock(t)
    \/ Halted

Spec == Init /\ [][Next]_vars

-----------------------------------------------------------------------------
StateRecs == [live : BOOLEAN, count : Int, vcpu : Vcpus \cup {NULL}, lock : Nat]
Locals == [pc : {"user"} \cup OpenLabels \cup CloseLabels \cup IoctlLabels,
           state : States \cup {NULL}, vcpu : Vcpus \cup {NULL}, tmp : Int, lock : Nat,
           fd : Threads \cup {NULL}, cmd : Cmds, dangling : BOOLEAN]

TypeOK ==
    /\ reg \in [Procs -> States \cup {NULL}]
    /\ st \in [States -> StateRecs]
    /\ vc \in [Vcpus -> {"free", "new", "mapped"}]
    /\ stateLock \in Threads \cup {NULL}
    /\ fds \subseteq Threads
    /\ thr \in [Threads -> Locals]
    /\ panic \in {"no"} \cup Faults

\* state_find never leads to freed memory, whatever the clients do: a state is
\* unregistered under state_lock before it is freed, and no two processes share
\* one.
RegisteredLive ==
    \A p \in Procs :
        reg[p] # NULL => st[reg[p]].live /\ \A q \in Procs : reg[q] = reg[p] => p = q

\* No state is freed twice, whatever the clients do: one thread at most is
\* between the removal from the list and IOFree, and the state is still live.
NoDoubleFree ==
    \A t, u \in Threads :
        thr[t].pc = "close_free" =>
            /\ st[thr[t].state].live
            /\ thr[u].pc = "close_free" /\ thr[u].state = thr[t].state => u = t

\* No handler touches a state after kvm_dev_close has freed it, although no
\* lock is held from state_find to the last use.
NoUseAfterFree == \A t \in Threads : ~thr[t].dangling

\* "we assume this can't run with an ioctl in progress" (main.cpp:1141): once
\* kvm_dev_close starts to free a state, no ioctl of the process is using it.
CloseAlone ==
    \A t, u \in Threads :
        thr[t].pc = "close_free" /\ thr[u].state = thr[t].state =>
            thr[u].pc \notin IoctlLabels

\* open_count, kept outside state_lock by opens and inside it by closes, is the
\* number of descriptors of the process whenever no open or close is under way.
CountExact ==
    \A p \in Procs :
        (\A t \in Threads : ProcOf[t] = p => thr[t].pc \notin OpenLabels \cup CloseLabels) =>
            IF reg[p] = NULL THEN \A d \in fds : ProcOf[d] # p
            ELSE st[reg[p]].count = Cardinality({d \in fds : ProcOf[d] = p})

\* The ioctls of a process exclude one another, KVM_IRQ_LINE aside, and so do
\* the KVM_IRQ_LINE calls: there is one pair of locks per state.
IoctlExclusive ==
    \A t, u \in Threads :
        /\ thr[t].pc = "ioctl_body" /\ thr[u].pc = "ioctl_body"
        /\ thr[t].state = thr[u].state
        /\ (thr[t].cmd = "irq") <=> (thr[u].cmd = "irq")
        => t = u

\* No handler dereferences NULL or an unallocated lock.
NoPanic == panic = "no"

\* kvm_dev_close finds the state of the process, and an ioctl the lock it takes, which is
\* the lock it releases, although the ioctl reads the pointer twice and opens allocate
\* locks outside state_lock.  What the last close frees may still be missing.
HandlersFind == panic \notin {"no_state", "no_lock", "not_held"}

\* A vcpu is never freed under anybody: what a state points to is allocated and no other
\* state's, and so is what an ioctl has read before it waited for the lock, even when
\* KVM_CREATE_VM has put another vcpu into the state since.
VcpuOwned ==
    /\ \A s \in States : st[s].vcpu # NULL =>
          vc[st[s].vcpu] # "free" /\ \A r \in States : st[r].vcpu = st[s].vcpu => r = s
    /\ \A t \in Threads : thr[t].pc \in IoctlLabels /\ thr[t].vcpu # NULL =>
          /\ vc[thr[t].vcpu] # "free"
          /\ \A r \in States : st[r].vcpu = thr[t].vcpu => r = thr[t].state

\* "only one VM and CPU are allowed per open of /dev/kvm" (README.md:49): there are no more
\* vcpus than states.
OneVmPerState ==
    Cardinality({v \in Vcpus : vc[v] # "free"}) <= Cardinality({s \in States : st[s].live})
=============================================================================
