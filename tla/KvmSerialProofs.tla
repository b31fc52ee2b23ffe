--------------------------- MODULE KvmSerialProofs ---------------------------
(* Proofs, for any threads, processes, states and vcpus, of the invariants of *)
(* KvmDevice that need the opens and closes of a process not to overlap.      *)
EXTENDS KvmDeviceProofs, FiniteSetTheorems

\* Leaves are for Zenon unless they name another prover.
USE ZenonT(30)


Descriptors(p) == {d \in fds : ProcOf[d] = p}
Changing == OpenLabels \cup CloseLabels

\* No other thread of the process of t is in an open or a close.
Alone(t) ==
    \A u \in Threads : u # t /\ ProcOf[u] = ProcOf[t] => thr[u].pc \notin Changing
OneChange == \A t \in Threads : thr[t].pc \in Changing => Alone(t)

\* What holds of every thread.  The state a handler works on stays registered until it
\* is about to be freed, and then the process has none.  An open has no descriptor yet,
\* an ioctl has one of its process.  The count a thread has loaded is the count it
\* changes, and a lock it holds is the state's.
Sound(t) ==
    /\ thr[t].pc \notin {"user", "close_free"} => thr[t].state = reg[ProcOf[t]]
    /\ thr[t].pc = "close_free" => reg[ProcOf[t]] = NULL
    /\ thr[t].pc \in OpenLabels => t \notin fds
    /\ thr[t].pc \in IoctlLabels => thr[t].fd \in Descriptors(ProcOf[t])
    /\ thr[t].pc \in {"open_store", "close_store"} => thr[t].tmp = st[thr[t].state].count
    /\ thr[t].pc = "close_test" => thr[t].tmp - 1 = st[thr[t].state].count
    /\ thr[t].pc \in {"ioctl_body", "ioctl_unlock"} => thr[t].lock = st[thr[t].state].lock
AllSound == \A t \in Threads : Sound(t)

\* The count runs ahead of the descriptors after the store of an open and before the
\* store of a close.
AheadLabels == {"open_init", "close_load", "close_store"}
Ahead(p) == \E t \in Threads : ProcOf[t] = p /\ thr[t].pc \in AheadLabels
CountAt(p) ==
    IF reg[p] = NULL THEN Descriptors(p) = {}
    ELSE st[reg[p]].count = Cardinality(Descriptors(p)) + IF Ahead(p) THEN 1 ELSE 0
CountAhead == \A p \in Procs : CountAt(p)

SInv ==
    /\ IInv
    /\ IsFiniteSet(fds)
    /\ OneChange
    /\ AllSound
    /\ CountAhead
    /\ NoUseAfterFree
    /\ IoctlExclusive

\* A process has finitely many descriptors.
LEMMA DescriptorsFinite ==
  ASSUME IsFiniteSet(fds), NEW p
  PROVE  IsFiniteSet(Descriptors(p)) /\ Cardinality(Descriptors(p)) \in Nat
<1>1. Descriptors(p) \subseteq fds
  BY DEF Descriptors
<1> QED
  BY <1>1, FS_Subset, FS_CardinalityType

\* What an open adds to the descriptors ...
LEMMA AddOne ==
  ASSUME NEW S, IsFiniteSet(S), NEW x, x \notin S
  PROVE  IsFiniteSet(S \cup {x}) /\ Cardinality(S \cup {x}) = Cardinality(S) + 1
  BY FS_AddElement

\* ... and a close takes from them.
LEMMA RemoveOne ==
  ASSUME NEW S, IsFiniteSet(S), NEW x \in S
  PROVE  /\ IsFiniteSet(S \ {x}) /\ Cardinality(S \ {x}) \in Nat
         /\ Cardinality(S) = Cardinality(S \ {x}) + 1
<1>1. IsFiniteSet(S \ {x}) /\ Cardinality(S \ {x}) = Cardinality(S) - 1
  BY FS_RemoveElement
<1>2. Cardinality(S) \in Nat /\ Cardinality(S \ {x}) \in Nat
  BY <1>1, FS_CardinalityType
<1> QED
  BY SMTT(30), <1>1, <1>2

\* The invariant of such clients holds at first.
LEMMA InitSInv == Init => SInv
<1> SUFFICES ASSUME Init PROVE SInv
  OBVIOUS
<1>1. \A t \in Threads : thr[t].pc = "user" /\ thr[t].dangling = FALSE
  BY IdleType DEF Init, Idle, Local
<1>2. IsFiniteSet(fds) /\ \A p \in Procs : Descriptors(p) = {} /\ reg[p] = NULL
  BY FS_EmptySet DEF Init, Reg!Init, Descriptors
<1>3. CountAhead
  BY <1>2 DEF CountAhead, CountAt
<1> QED
  BY <1>1, <1>2, <1>3, InitIInv
     DEF SInv, OneChange, AllSound, Sound, Changing, OpenLabels, CloseLabels, IoctlLabels,
         NoUseAfterFree, IoctlExclusive

\* The steps of an ioctl, which change neither the list nor the descriptors nor a count
\* or a lock.
IoctlFrame(t) ==
    /\ UNCHANGED <<reg, fds>>
    /\ \A s \in States : st'[s].count = st[s].count /\ st'[s].lock = st[s].lock
    /\ \A u \in Threads : u # t => thr'[u] = thr[u]
    /\ thr[t].pc \in {"user"} \cup IoctlLabels /\ thr'[t].pc \in {"user"} \cup IoctlLabels
    /\ thr'[t].dangling = FALSE

\* The steps of kvm_dev_ioctl are such steps.
LEMMA IoctlSteps ==
  ASSUME TypeOK, HasState, NoUseAfterFree, NEW t \in Threads,
         \/ \E d \in Threads, cmd \in Cmds : Ioctl(t, d, cmd)
         \/ IoctlVcpu(t) \/ IoctlLock(t) \/ IoctlBody(t) \/ IoctlUnlock(t)
  PROVE  IoctlFrame(t)
<1> USE DEF TypeOK, HasState, At, Goto, Return, Panic, IoctlLabels, IoctlFrame
<1>0. thr[t].dangling = FALSE
  BY DEF NoUseAfterFree, Locals
<1>1. ASSUME NEW d \in Threads, NEW cmd \in Cmds, Ioctl(t, d, cmd) PROVE IoctlFrame(t)
  <2>1. PICK s \in States : s = reg[ProcOf[t]]
    BY <1>1, DeviceConstants DEF Ioctl
  <2>2. LET l == Local("ioctl_vcpu", s, d, cmd)
        IN  l.pc = "ioctl_vcpu" /\ l.dangling = FALSE
    BY DEF Local
  <2> QED
    BY <1>1, <2>1, <2>2 DEF Ioctl
<1>2. CASE IoctlVcpu(t)
  BY <1>0, <1>2 DEF IoctlVcpu, Locals
<1>3. CASE IoctlLock(t)
  BY SMTT(30), <1>0, <1>3 DEF IoctlLock, Locals
<1>4. CASE IoctlBody(t)
  <2>1. CASE CreateVm(t)
    <3>1. PICK v \in Vcpus :
            /\ st' = [st EXCEPT ![thr[t].state].vcpu = v]
            /\ thr' = [thr EXCEPT ![t].vcpu = v, ![t].pc = "ioctl_unlock"]
      BY <2>1 DEF CreateVm
    <3>2. \A s \in States : st'[s].count = st[s].count /\ st'[s].lock = st[s].lock
      BY <3>1 DEF StateRecs
    <3>3. thr'[t].pc = "ioctl_unlock" /\ thr'[t].dangling = FALSE
      BY <1>0, <3>1 DEF Locals
    <3>4. \A u \in Threads : u # t => thr'[u] = thr[u]
      BY <3>1
    <3> QED
      BY <1>4, <3>2, <3>3, <3>4 DEF IoctlBody
  <2>2. CASE ~CreateVm(t)
    BY SMTT(30), <1>0, <1>4, <2>2 DEF IoctlBody, MmapVcpu, Locals
  <2> QED
    BY <2>1, <2>2
<1>5. CASE IoctlUnlock(t)
  BY <1>5, IdleType DEF IoctlUnlock, Idle, Local
<1> QED
  BY <1>1, <1>2, <1>3, <1>4, <1>5

\* A step of thread t of an open or a close that changes no state but s.
ChangeFrame(t, s) ==
    /\ Alone(t)
    /\ \A u \in Threads : u # t => thr'[u] = thr[u]
    /\ thr[t].pc \in {"user"} \cup Changing /\ thr'[t].pc \in {"user"} \cup Changing
    /\ ~thr'[t].dangling
    /\ \A p \in Procs : p # ProcOf[t] =>
          reg'[p] = reg[p] /\ reg[p] # s /\ Descriptors(p)' = Descriptors(p)
    /\ \A r \in States : r # s => st'[r] = st[r]

\* It leaves the ioctls of the process what they use.
PeerFrame(t) ==
    \A u \in Threads : u # t /\ ProcOf[u] = ProcOf[t] /\ thr[u].pc \in IoctlLabels =>
        /\ UNCHANGED reg
        /\ thr[u].fd \in fds'
        /\ st'[thr[u].state].lock = st[thr[u].state].lock

\* Whose count is ahead, before and after a step of t.
LEMMA AheadFrame ==
  ASSUME NEW t \in Threads, NEW s, ChangeFrame(t, s)
  PROVE  /\ \A p \in Procs : p # ProcOf[t] => (Ahead(p)' <=> Ahead(p))
         /\ Ahead(ProcOf[t]) <=> thr[t].pc \in AheadLabels
         /\ Ahead(ProcOf[t])' <=> thr'[t].pc \in AheadLabels
  BY DEF ChangeFrame, Ahead, AheadLabels, Alone, Changing, OpenLabels, CloseLabels

\* A step of an open or a close keeps the invariant when it does so for its own process.
LEMMA ChangeKeeps ==
  ASSUME SInv, IInv', NEW t \in Threads, NEW s, ChangeFrame(t, s), PeerFrame(t),
         IsFiniteSet(fds)', Sound(t)', CountAt(ProcOf[t])'
  PROVE  SInv'
<1> USE DEF ChangeFrame
<1>0. TypeOK /\ HasState /\ NULL \notin States /\ \A u \in Threads : ProcOf[u] \in Procs
  BY DeviceConstants DEF SInv, IInv
<1>1. OneChange'
  BY SMTT(30) DEF SInv, OneChange, Alone, Changing, OpenLabels, CloseLabels
<1>2. NoUseAfterFree'
  BY DEF SInv, NoUseAfterFree
<1>3. IoctlExclusive'
  BY SMTT(30) DEF SInv, IoctlExclusive, Changing, OpenLabels, CloseLabels
<1>4. CountAhead'
  <2> SUFFICES ASSUME NEW p \in Procs, p # ProcOf[t] PROVE CountAt(p)'
    BY DEF CountAhead
  <2>0. CountAt(p)
    BY DEF SInv, CountAhead
  <2>1. Ahead(p)' <=> Ahead(p)
    BY SMTT(30), AheadFrame
  <2>2. reg[p] # NULL => st'[reg[p]] = st[reg[p]]
    BY <1>0 DEF TypeOK
  <2> QED
    BY <2>0, <2>1, <2>2 DEF CountAt
<1>5. ASSUME NEW u \in Threads, u # t, ProcOf[u] # ProcOf[t] PROVE Sound(u)'
  <2>1. Sound(u) /\ thr'[u] = thr[u] /\ reg'[ProcOf[u]] = reg[ProcOf[u]]
    BY <1>0, <1>5 DEF SInv, AllSound
  <2>2. Descriptors(ProcOf[u])' = Descriptors(ProcOf[u])
    BY <1>0, <1>5
  <2>3. u \in fds' <=> u \in fds
    BY <2>2 DEF Descriptors
  <2>4. thr[u].pc \notin {"user", "close_free"} => st'[thr[u].state] = st[thr[u].state]
    <3>1. thr[u].pc \notin {"user", "close_free"} => thr[u].state \in States /\ thr[u].state # s
      BY <1>0, <1>5, <2>1, InHandler DEF Sound
    <3> QED
      BY <3>1
  <2> QED
    BY <2>1, <2>2, <2>3, <2>4 DEF Sound
<1>6. ASSUME NEW u \in Threads, u # t, ProcOf[u] = ProcOf[t] PROVE Sound(u)'
  <2>1. Sound(u) /\ thr'[u] = thr[u] /\ thr[u].pc \in {"user"} \cup IoctlLabels
    <3>1. thr[u].pc \in {"user"} \cup OpenLabels \cup CloseLabels \cup IoctlLabels
      BY <1>0 DEF TypeOK, Locals
    <3> QED
      BY <1>6, <3>1 DEF SInv, AllSound, Alone, Changing
  <2>2. CASE thr[u].pc = "user"
    BY <2>1, <2>2 DEF Sound, OpenLabels, IoctlLabels
  <2>3. CASE thr[u].pc \in IoctlLabels
    <3>1. UNCHANGED reg /\ thr[u].fd \in fds' /\ st'[thr[u].state].lock = st[thr[u].state].lock
      BY <1>6, <2>3 DEF PeerFrame
    <3> QED
      BY <2>1, <2>3, <3>1 DEF Sound, Descriptors, OpenLabels, IoctlLabels
  <2> QED
    BY <2>1, <2>2, <2>3
<1>7. AllSound'
  BY <1>5, <1>6 DEF AllSound
<1> QED
  BY <1>1, <1>2, <1>3, <1>4, <1>7 DEF SInv

\* A step of an ioctl keeps the invariant when it does so for its own thread.
LEMMA IoctlKeeps ==
  ASSUME SInv, IInv', NEW t \in Threads, IoctlFrame(t), Sound(t)', IoctlExclusive'
  PROVE  SInv'
<1> USE DEF IoctlFrame
<1>0. TypeOK /\ HasState /\ NULL \notin States /\ \A u \in Threads : ProcOf[u] \in Procs
  BY DeviceConstants DEF SInv, IInv
<1>1. OneChange'
  BY DEF SInv, OneChange, Alone, Changing, OpenLabels, CloseLabels, IoctlLabels
<1>2. NoUseAfterFree' /\ IsFiniteSet(fds)'
  BY DEF SInv, NoUseAfterFree
<1>3. CountAhead'
  <2> SUFFICES ASSUME NEW p \in Procs PROVE CountAt(p)'
    BY DEF CountAhead
  <2>1. CountAt(p)
    BY DEF SInv, CountAhead
  <2>2. Ahead(p)' <=> Ahead(p)
    BY DEF Ahead, AheadLabels, IoctlLabels
  <2>3. reg[p] # NULL => st'[reg[p]].count = st[reg[p]].count
    BY <1>0 DEF TypeOK
  <2>4. Descriptors(p)' = Descriptors(p)
    BY DEF Descriptors
  <2> QED
    BY <2>1, <2>2, <2>3, <2>4 DEF CountAt
<1>4. ASSUME NEW u \in Threads, u # t PROVE Sound(u)'
  <2>1. Sound(u) /\ thr'[u] = thr[u] /\ UNCHANGED <<reg, fds>>
    BY <1>4 DEF SInv, AllSound
  <2>2. thr[u].pc # "user" =>
          /\ st'[thr[u].state].count = st[thr[u].state].count
          /\ st'[thr[u].state].lock = st[thr[u].state].lock
    BY <1>0, InHandler
  <2> QED
    BY <2>1, <2>2 DEF Sound, Descriptors
<1>5. AllSound'
  BY <1>4 DEF AllSound
<1> QED
  BY <1>1, <1>2, <1>3, <1>5 DEF SInv

\* The steps of kvm_dev_ioctl keep it: a thread enters a section nobody is in.
LEMMA IoctlSInv ==
  ASSUME SInv, IInv', NEW t \in Threads,
         \/ \E d \in Threads, cmd \in Cmds : Ioctl(t, d, cmd)
         \/ IoctlVcpu(t) \/ IoctlLock(t) \/ IoctlBody(t) \/ IoctlUnlock(t)
  PROVE  SInv'
<1>0. TypeOK /\ HasState /\ Sound(t) /\ NULL \notin States /\ ProcOf[t] \in Procs
  BY DeviceConstants DEF SInv, IInv, AllSound
<1>1. IoctlFrame(t)
  BY <1>0, IoctlSteps DEF SInv
<1>2. SUFFICES Sound(t)' /\ IoctlExclusive'
  BY <1>1, IoctlKeeps
<1>3. ASSUME thr'[t].pc # "ioctl_body" PROVE IoctlExclusive'
  BY SMTT(30), <1>1, <1>3 DEF SInv, IoctlExclusive, IoctlFrame
<1>4. ASSUME NEW d \in Threads, NEW cmd \in Cmds, Ioctl(t, d, cmd)
      PROVE  Sound(t)' /\ IoctlExclusive'
  <2>1. PICK s \in States : s = reg[ProcOf[t]]
    BY <1>0, <1>4 DEF Ioctl, TypeOK
  <2>2. LET l == Local("ioctl_vcpu", s, d, cmd)
        IN  l.pc = "ioctl_vcpu" /\ l.state = s /\ l.fd = d
    BY DEF Local
  <2>3. thr'[t].pc = "ioctl_vcpu" /\ thr'[t].state = s /\ thr'[t].fd = d
    BY <1>0, <1>4, <2>1, <2>2 DEF Ioctl, TypeOK
  <2>4. d \in Descriptors(ProcOf[t])' /\ UNCHANGED reg
    BY <1>4 DEF Ioctl, Descriptors
  <2> QED
    BY <1>3, <2>1, <2>3, <2>4 DEF Sound, OpenLabels
<1>5. CASE IoctlVcpu(t) \/ IoctlLock(t) \/ IoctlBody(t)
  <2>1. /\ thr[t].pc \in {"ioctl_vcpu", "ioctl_lock", "ioctl_body"}
        /\ thr'[t].state = thr[t].state /\ thr'[t].fd = thr[t].fd
        /\ thr'[t].cmd = thr[t].cmd
        /\ thr'[t].pc \in IoctlLabels
        /\ thr'[t].pc = "ioctl_unlock" => thr[t].pc = "ioctl_body" /\ thr'[t].lock = thr[t].lock
        /\ thr'[t].pc = "ioctl_body" => Holders(t) = {} /\ thr'[t].lock = st[thr[t].state].lock
    <3> USE DEF TypeOK, Locals, At, Goto, Panic, IoctlLabels
    <3>1. CASE IoctlVcpu(t)
      BY <1>0, <3>1 DEF IoctlVcpu
    <3>2. CASE IoctlLock(t)
      BY SMTT(30), <1>0, <3>2 DEF IoctlLock
    <3>3. CASE IoctlBody(t)
      <4>1. CASE CreateVm(t)
        <5>1. PICK v \in Vcpus : thr' = [thr EXCEPT ![t].vcpu = v, ![t].pc = "ioctl_unlock"]
          BY <4>1 DEF CreateVm
        <5> QED
          BY <1>0, <3>3, <5>1 DEF IoctlBody
      <4>2. CASE ~CreateVm(t)
        BY SMTT(30), <1>0, <3>3, <4>2 DEF IoctlBody, MmapVcpu
      <4> QED
        BY <4>1, <4>2
    <3> QED
      BY <1>5, <3>1, <3>2, <3>3
  <2>2. UNCHANGED <<reg, fds>> /\ st'[thr[t].state].lock = st[thr[t].state].lock
    BY <1>0, <1>1, <2>1, InHandler DEF IoctlFrame
  <2>3. Sound(t)'
    BY <1>0, <2>1, <2>2 DEF Sound, Descriptors, OpenLabels, IoctlLabels
  <2>4. ASSUME thr'[t].pc = "ioctl_body" PROVE IoctlExclusive'
    <3> SUFFICES ASSUME NEW v \in Threads, NEW u \in Threads, u # v, u # t,
                        thr'[v].pc = "ioctl_body", thr'[u].pc = "ioctl_body",
                        thr'[v].state = thr'[u].state,
                        (thr'[v].cmd = "irq") <=> (thr'[u].cmd = "irq")
                 PROVE  FALSE
      BY DEF IoctlExclusive
    <3>1. thr'[u] = thr[u] /\ (v # t => thr'[v] = thr[v])
      BY <1>1 DEF IoctlFrame
    <3>2. CASE v # t
      BY <3>1, <3>2 DEF SInv, IoctlExclusive
    <3>3. CASE v = t
      <4>1. Sound(u)
        BY DEF SInv, AllSound
      <4>2. thr[u].lock = st[thr[t].state].lock
        BY <2>1, <3>1, <3>3, <4>1 DEF Sound
      <4> QED
        BY <2>1, <2>4, <3>1, <3>3, <4>2 DEF Holders
    <3> QED
      BY <3>2, <3>3
  <2> QED
    BY <1>3, <2>3, <2>4
<1>6. CASE IoctlUnlock(t)
  <2>1. thr'[t].pc = "user"
    BY <1>0, <1>6, IdleType DEF IoctlUnlock, Return, TypeOK
  <2> QED
    BY <1>3, <2>1 DEF Sound, OpenLabels, IoctlLabels
<1> QED
  BY <1>4, <1>5, <1>6

\* The steps of kvm_dev_open keep it: the load and the store of open_count see no other
\* change, and the locks are allocated while the process has no descriptor.
LEMMA OpenSInv ==
  ASSUME "serial" \in Discipline, SInv, IInv', NEW t \in Threads,
         Open(t) \/ OpenLoad(t) \/ OpenStore(t) \/ OpenInit(t)
  PROVE  SInv'
<1>0. /\ TypeOK /\ HasState /\ Sound(t) /\ NULL \notin States
      /\ \A u \in Threads : ProcOf[u] \in Procs
  BY DeviceConstants DEF SInv, IInv, AllSound
<1>1. /\ IsFiniteSet(fds) /\ ~thr[t].dangling /\ CountAt(ProcOf[t])
      /\ Cardinality(Descriptors(ProcOf[t])) \in Nat
  BY <1>0, DescriptorsFinite DEF SInv, NoUseAfterFree, CountAhead
<1>2. CASE Open(t)
  <2>1. PICK s \in States : OpenFound(t, s)
    BY <1>0, <1>2, OpenFinds
  <2>2. (s = reg[ProcOf[t]] /\ UNCHANGED <<reg, st>>) \/ Registers(t, s)
    BY <2>1 DEF OpenFound
  <2>3. /\ thr'[t].pc = "open_load" /\ thr'[t].state = s /\ ~thr'[t].dangling
        /\ \A u \in Threads : u # t => thr'[u] = thr[u]
    BY <2>1 DEF OpenFound
  <2>4. Alone(t) /\ t \notin fds /\ UNCHANGED fds /\ thr[t].pc = "user"
    BY <1>2 DEF Open, At, OpensAndClosesAlone, Peers, Alone, Changing
  <2>5. \A p \in Procs : p # ProcOf[t] => reg'[p] = reg[p] /\ reg[p] # s
    <3>1. \A p \in Procs : p # ProcOf[t] => reg[p] # s
      BY <1>0, <2>2 DEF SInv, IInv, RegisteredLive, Registers
    <3> QED
      BY <1>0, <2>2, <3>1 DEF TypeOK, Registers
  <2>6. ChangeFrame(t, s)
    <3>1. \A r \in States : r # s => st'[r] = st[r]
      BY <1>0, <2>2 DEF TypeOK, Registers
    <3> QED
      BY <2>3, <2>4, <2>5, <3>1 DEF ChangeFrame, Descriptors, Changing, OpenLabels
  <2>7. reg'[ProcOf[t]] = s
    BY <1>0, <2>2 DEF TypeOK, Registers
  <2>8. Sound(t)'
    BY <2>3, <2>4, <2>7 DEF Sound, IoctlLabels
  <2>9. ~Ahead(ProcOf[t])' /\ ~Ahead(ProcOf[t])
    BY <2>3, <2>4, <2>6, AheadFrame DEF AheadLabels
  <2>10. CASE s = reg[ProcOf[t]] /\ UNCHANGED <<reg, st>>
    <3>1. CountAt(ProcOf[t])'
      BY <1>1, <2>4, <2>9, <2>10 DEF CountAt, Descriptors
    <3>2. PeerFrame(t)
      BY <2>4, <2>10 DEF PeerFrame, SInv, AllSound, Sound, Descriptors
    <3> QED
      BY <1>1, <2>4, <2>6, <2>8, <3>1, <3>2, ChangeKeeps
  <2>11. CASE Registers(t, s)
    <3>0. reg[ProcOf[t]] = NULL /\ st' = [st EXCEPT ![s] = Fresh]
      BY <2>11 DEF Registers
    <3>1. st'[s].count = 0
      BY <1>0, <3>0 DEF TypeOK, Fresh
    <3>2. Descriptors(ProcOf[t])' = {} /\ Cardinality({}) = 0
      BY <1>1, <2>4, <3>0, FS_EmptySet DEF CountAt, Descriptors
    <3>3. CountAt(ProcOf[t])'
      BY SMTT(30), <1>0, <2>7, <2>9, <3>1, <3>2 DEF CountAt
    <3>4. PeerFrame(t)
      <4> SUFFICES ASSUME NEW u \in Threads, ProcOf[u] = ProcOf[t], thr[u].pc \in IoctlLabels
                   PROVE  FALSE
        BY DEF PeerFrame
      <4>1. thr[u].state \in States
        BY <1>0, InHandler DEF IoctlLabels
      <4>2. thr[u].state = reg[ProcOf[u]]
        BY DEF SInv, AllSound, Sound, IoctlLabels
      <4> QED
        BY <1>0, <3>0, <4>1, <4>2
    <3> QED
      BY <1>1, <2>4, <2>6, <2>8, <3>3, <3>4, ChangeKeeps
  <2> QED
    BY <2>2, <2>10, <2>11
<1>3. ASSUME OpenLoad(t) \/ OpenStore(t) \/ OpenInit(t) PROVE SInv'
  <2>0. thr[t].pc \in OpenLabels /\ thr[t].state \in States /\ UNCHANGED reg
    BY <1>0, <1>3, OpenContinues DEF OpenGoesOn, StateStep
  <2>1. PICK s \in States : s = thr[t].state /\ s = reg[ProcOf[t]]
    BY <1>0, <2>0 DEF Sound, OpenLabels
  <2>2. thr[t].pc \in OpenLabels /\ t \notin fds /\ UNCHANGED reg /\ Alone(t)
    BY <1>0, <2>0 DEF Sound, SInv, OneChange, Changing
  <2>3. \A p \in Procs : p # ProcOf[t] => reg[p] # s
    BY <1>0, <2>1 DEF SInv, IInv, RegisteredLive
  <2>4. CASE OpenLoad(t)
    <3>1. /\ thr'[t].pc = "open_store" /\ thr'[t].state = s /\ ~thr'[t].dangling
          /\ thr'[t].tmp = st[s].count
          /\ \A u \in Threads : u # t => thr'[u] = thr[u]
      BY <1>0, <1>1, <2>1, <2>4 DEF OpenLoad, TypeOK, Locals
    <3>2. UNCHANGED <<reg, st, fds>> /\ thr[t].pc = "open_load"
      BY <2>4 DEF OpenLoad, At
    <3>3. ChangeFrame(t, s) /\ PeerFrame(t)
      BY <2>2, <2>3, <3>1, <3>2
         DEF ChangeFrame, PeerFrame, Descriptors, Changing, OpenLabels, SInv, AllSound, Sound
    <3>4. Sound(t)'
      BY <2>1, <2>2, <3>1, <3>2 DEF Sound, IoctlLabels
    <3>5. ~Ahead(ProcOf[t])' /\ ~Ahead(ProcOf[t])
      BY <3>1, <3>2, <3>3, AheadFrame DEF AheadLabels
    <3>6. CountAt(ProcOf[t])'
      BY <1>1, <3>2, <3>5 DEF CountAt, Descriptors
    <3> QED
      BY <1>1, <3>2, <3>3, <3>4, <3>6, ChangeKeeps
  <2>5. CASE OpenStore(t)
    <3>1. /\ thr'[t].pc = "open_init" /\ thr'[t].state = s /\ ~thr'[t].dangling
          /\ \A u \in Threads : u # t => thr'[u] = thr[u]
      BY <1>0, <1>1, <2>1, <2>5 DEF OpenStore, Goto, TypeOK, Locals
    <3>2. /\ UNCHANGED <<reg, fds>> /\ thr[t].pc = "open_store"
          /\ \A r \in States : r # s => st'[r] = st[r]
          /\ st'[s].lock = st[s].lock /\ st'[s].count = st[s].count + 1
      BY <1>0, <2>1, <2>5 DEF OpenStore, At, TypeOK, StateRecs, Sound
    <3>3. ChangeFrame(t, s)
      BY <2>2, <2>3, <3>1, <3>2 DEF ChangeFrame, Descriptors, Changing, OpenLabels
    <3>4. PeerFrame(t)
      <4> SUFFICES ASSUME NEW u \in Threads, u # t, ProcOf[u] = ProcOf[t],
                          thr[u].pc \in IoctlLabels
                   PROVE  thr[u].fd \in fds /\ thr[u].state = s
        BY <3>2 DEF PeerFrame
      <4>1. Sound(u)
        BY DEF SInv, AllSound
      <4> QED
        BY <2>1, <4>1 DEF Sound, Descriptors, IoctlLabels
    <3>5. Sound(t)'
      BY <2>1, <2>2, <3>1, <3>2 DEF Sound, IoctlLabels
    <3>6. Ahead(ProcOf[t])' /\ ~Ahead(ProcOf[t])
      BY <3>1, <3>2, <3>3, AheadFrame DEF AheadLabels
    <3>7. CountAt(ProcOf[t])'
      <4>1. Descriptors(ProcOf[t])' = Descriptors(ProcOf[t]) /\ reg'[ProcOf[t]] = s
        BY <2>1, <3>2 DEF Descriptors
      <4>2. st[s].count = Cardinality(Descriptors(ProcOf[t]))
        BY SMTT(30), <1>0, <1>1, <2>1, <3>6 DEF CountAt
      <4> QED
        BY <1>0, <3>2, <3>6, <4>1, <4>2 DEF CountAt
    <3> QED
      BY <1>1, <3>2, <3>3, <3>4, <3>5, <3>7, ChangeKeeps
  <2>6. CASE OpenInit(t)
    <3>1. /\ thr'[t].pc = "user" /\ ~thr'[t].dangling
          /\ \A u \in Threads : u # t => thr'[u] = thr[u]
      BY <1>0, <2>6, IdleType DEF OpenInit, Return, TypeOK, Idle, Local
    <3>2. /\ fds' = fds \cup {t} /\ thr[t].pc = "open_init"
          /\ \A r \in States : r # s => st'[r] = st[r]
          /\ st'[s].count = st[s].count
          /\ st[s].count # 1 => st'[s].lock = st[s].lock
      <4>1. st[s].lock \in Nat /\ st[s].lock + 1 \in Nat
        BY SMTT(30), <1>0 DEF TypeOK, StateRecs
      <4>2. PICK k \in Nat :
              /\ st' = [st EXCEPT ![s].lock = k]
              /\ st[s].count # 1 => k = st[s].lock
        BY <2>1, <2>6, <4>1 DEF OpenInit
      <4>3. /\ st'[s].count = st[s].count /\ st'[s].lock = k
            /\ \A r \in States : r # s => st'[r] = st[r]
        BY <1>0, <4>2 DEF TypeOK, StateRecs
      <4>4. fds' = fds \cup {t} /\ thr[t].pc = "open_init"
        BY <2>6 DEF OpenInit, At
      <4> QED
        BY <4>2, <4>3, <4>4
    <3>3. \A p \in Procs : p # ProcOf[t] => Descriptors(p)' = Descriptors(p)
      BY <3>2 DEF Descriptors
    <3>4. ChangeFrame(t, s)
      BY <2>2, <2>3, <3>1, <3>2, <3>3 DEF ChangeFrame, Changing, OpenLabels
    <3>5. ~Ahead(ProcOf[t])' /\ Ahead(ProcOf[t])
      BY <3>1, <3>2, <3>4, AheadFrame DEF AheadLabels
    <3>6. st[s].count = Cardinality(Descriptors(ProcOf[t])) + 1
      BY <1>0, <1>1, <2>1, <3>5 DEF CountAt
    <3>7. PeerFrame(t)
      <4> SUFFICES ASSUME NEW u \in Threads, u # t, ProcOf[u] = ProcOf[t],
                          thr[u].pc \in IoctlLabels
                   PROVE  thr[u].fd \in fds' /\ st'[s].lock = st[s].lock /\ thr[u].state = s
        BY <2>2 DEF PeerFrame
      <4>1. thr[u].fd \in Descriptors(ProcOf[t]) /\ thr[u].state = s
        BY <2>1 DEF SInv, AllSound, Sound, IoctlLabels
      <4>2. Cardinality(Descriptors(ProcOf[t])) # 0
        BY <1>1, <4>1, DescriptorsFinite, FS_EmptySet
      <4> QED
        BY SMTT(30), <1>1, <3>2, <3>6, <4>1, <4>2 DEF Descriptors
    <3>8. Sound(t)'
      BY <3>1 DEF Sound, OpenLabels, IoctlLabels
    <3>9. CountAt(ProcOf[t])'
      <4>1. /\ Descriptors(ProcOf[t])' = Descriptors(ProcOf[t]) \cup {t}
            /\ t \notin Descriptors(ProcOf[t])
        BY <2>2, <3>2 DEF Descriptors
      <4>2. Cardinality(Descriptors(ProcOf[t]))' = Cardinality(Descriptors(ProcOf[t])) + 1
        BY <1>1, <4>1, DescriptorsFinite, AddOne
      <4>3. /\ st'[s].count = Cardinality(Descriptors(ProcOf[t]))'
            /\ Cardinality(Descriptors(ProcOf[t]))' \in Nat
        BY SMTT(30), <1>1, <3>2, <3>6, <4>2
      <4> QED
        BY SMTT(30), <1>0, <2>1, <2>2, <3>5, <4>3 DEF CountAt
    <3>10. IsFiniteSet(fds)'
      BY <1>1, <2>2, <3>2, AddOne
    <3> QED
      BY <3>4, <3>7, <3>8, <3>9, <3>10, ChangeKeeps
  <2> QED
    BY <1>3, <2>4, <2>5, <2>6
<1> QED
  BY <1>2, <1>3

\* A thread that frees a state in kvm_dev_close is the only one that works on it.
LEMMA FreedAlone ==
  ASSUME SInv, NEW t \in Threads, thr[t].pc = "close_free"
  PROVE  \A u \in Threads : u # t => thr[u].state # thr[t].state
<1> SUFFICES ASSUME NEW u \in Threads, u # t, thr[u].state = thr[t].state PROVE FALSE
  OBVIOUS
<1>0. TypeOK /\ HasState /\ Sound(u) /\ NULL \notin States /\ ProcOf[u] \in Procs
  BY DeviceConstants DEF SInv, IInv, AllSound
<1>1. thr[t].state \in States
  BY <1>0, Fields
<1>2. thr[u].pc # "user"
  BY <1>0, <1>1 DEF HasState
<1>3. thr[u].pc # "close_free"
  BY DEF SInv, IInv, NoDoubleFree
<1> QED
  BY <1>0, <1>2, <1>3 DEF Sound, SInv, IInv, FreeUnregistered

\* The end of kvm_dev_close: the vcpu and the state are freed, and no thread notices.
LEMMA FreeStep ==
  ASSUME SInv, NEW t \in Threads, CloseFree(t), panic' = "no"
  PROVE  /\ Mapped(st[thr[t].state].vcpu) /\ UNCHANGED <<reg, fds, panic>>
         /\ vc' = [vc EXCEPT ![st[thr[t].state].vcpu] = "free"]
         /\ st' = [st EXCEPT ![thr[t].state] = Zeroed] /\ thr'[t] = Idle
         /\ \A u \in Threads : u # t => thr'[u] = thr[u]
<1> DEFINE s == thr[t].state
<1>0. TypeOK /\ thr[t].pc = "close_free"
  BY DEF SInv, IInv, CloseFree, At
<1>1. \A u \in Threads : u # t => thr[u].state # s
  BY <1>0, FreedAlone
<1>2. /\ Mapped(st[s].vcpu) /\ UNCHANGED <<reg, fds, panic>>
      /\ vc' = [vc EXCEPT ![st[s].vcpu] = "free"] /\ st' = [st EXCEPT ![s] = Zeroed]
      /\ thr' = [u \in Threads |->
                   IF u = t THEN Idle
                   ELSE [thr[u] EXCEPT !.dangling = @ \/ thr[u].state = s]]
  BY DEF CloseFree, Panic
<1> HIDE DEF s
<1>3. ASSUME NEW u \in Threads, u # t PROVE thr'[u] = thr[u]
  <2>1. ~thr[u].dangling /\ thr[u].dangling \in BOOLEAN
    BY <1>0 DEF TypeOK, Locals, SInv, NoUseAfterFree
  <2>2. (thr[u].dangling \/ thr[u].state = s) = FALSE
    BY <1>1, <1>3, <2>1
  <2>3. thr'[u] = [thr[u] EXCEPT !.dangling = FALSE] /\ thr[u].dangling = FALSE
    BY <1>2, <1>3, <2>1, <2>2
  <2> QED
    BY <1>0, <2>3 DEF TypeOK, Locals
<1>4. thr'[t] = Idle
  BY <1>2
<1> QED
  BY <1>2, <1>3, <1>4 DEF s

\* The steps of kvm_dev_close keep it: the count reaches zero with the last descriptor,
\* and then no thread works on the state but the one that frees it.
LEMMA CloseSInv ==
  ASSUME "serial" \in Discipline, SInv, IInv', NEW t \in Threads,
         \/ \E d \in Threads : Close(t, d)
         \/ CloseLoad(t) \/ CloseStore(t) \/ CloseTest(t) \/ CloseFree(t)
  PROVE  SInv'
<1>0. /\ TypeOK /\ HasState /\ Sound(t) /\ NULL \notin States
      /\ \A u \in Threads : ProcOf[u] \in Procs
  BY DeviceConstants DEF SInv, IInv, AllSound
<1>1. /\ IsFiniteSet(fds) /\ ~thr[t].dangling /\ CountAt(ProcOf[t])
      /\ Cardinality(Descriptors(ProcOf[t])) \in Nat
  BY <1>0, DescriptorsFinite DEF SInv, NoUseAfterFree, CountAhead
<1>2. ASSUME NEW d \in Threads, Close(t, d) PROVE SInv'
  <2>1. PICK s \in States : s = reg[ProcOf[t]]
    <3>1. d \in Descriptors(ProcOf[t])
      BY <1>2 DEF Close, MayClose, Descriptors
    <3> QED
      BY <1>0, <1>1, <3>1 DEF CountAt, TypeOK
  <2>2. /\ UNCHANGED <<reg, st>> /\ fds' = fds \ {d} /\ d \in fds /\ ProcOf[d] = ProcOf[t]
        /\ thr' = [thr EXCEPT ![t] = Local("close_load", s, NULL, "system")]
        /\ thr[t].pc = "user" /\ Alone(t)
        /\ \A u \in Threads : thr[u].fd # d
    BY <1>0, <1>2, <2>1 DEF Close, MayClose, At, OpensAndClosesAlone, Peers, Alone, Changing
  <2>3. LET l == Local("close_load", s, NULL, "system")
        IN  l.pc = "close_load" /\ l.state = s /\ l.dangling = FALSE
    BY DEF Local
  <2>4. thr'[t].pc = "close_load" /\ thr'[t].state = s /\ ~thr'[t].dangling
    BY <1>0, <2>2, <2>3 DEF TypeOK
  <2>5. \A p \in Procs : p # ProcOf[t] => Descriptors(p)' = Descriptors(p) /\ reg[p] # s
    <3>1. \A p \in Procs : p # ProcOf[t] => reg[p] # s
      BY <1>0, <2>1 DEF SInv, IInv, RegisteredLive
    <3> QED
      BY <2>2, <3>1 DEF Descriptors
  <2>6. ChangeFrame(t, s)
    BY <1>0, <2>2, <2>4, <2>5 DEF ChangeFrame, TypeOK, Changing, CloseLabels
  <2>7. PeerFrame(t)
    BY <2>2 DEF PeerFrame, SInv, AllSound, Sound, Descriptors
  <2>8. Sound(t)'
    BY <2>1, <2>2, <2>4 DEF Sound, OpenLabels, IoctlLabels
  <2>9. Ahead(ProcOf[t])' /\ ~Ahead(ProcOf[t])
    BY <2>2, <2>4, <2>6, AheadFrame DEF AheadLabels
  <2>10. CountAt(ProcOf[t])'
    <3>1. /\ Descriptors(ProcOf[t])' = Descriptors(ProcOf[t]) \ {d}
          /\ d \in Descriptors(ProcOf[t])
      BY <2>2 DEF Descriptors
    <3>2. Cardinality(Descriptors(ProcOf[t])) = Cardinality(Descriptors(ProcOf[t]))' + 1
      BY <1>1, <3>1, DescriptorsFinite, RemoveOne
    <3>3. st[s].count = Cardinality(Descriptors(ProcOf[t]))
      BY SMTT(30), <1>0, <1>1, <2>1, <2>9 DEF CountAt
    <3> QED
      BY <1>0, <2>1, <2>2, <2>9, <3>2, <3>3 DEF CountAt
  <2>11. IsFiniteSet(fds)'
    BY <1>1, <2>2, RemoveOne
  <2> QED
    BY <2>6, <2>7, <2>8, <2>10, <2>11, ChangeKeeps
<1>3. CASE CloseLoad(t) \/ CloseStore(t) \/ CloseTest(t)
  <2>0. thr[t].pc \in CloseLabels \ {"close_free"} /\ thr[t].state \in States /\ UNCHANGED fds
    BY <1>0, <1>3, CloseContinues DEF CloseGoesOn, StateStep
  <2>1. PICK s \in States : s = thr[t].state /\ s = reg[ProcOf[t]]
    BY <1>0, <2>0 DEF Sound, CloseLabels
  <2>2. Alone(t) /\ UNCHANGED fds
    BY <2>0 DEF SInv, OneChange, Changing
  <2>3. \A p \in Procs : p # ProcOf[t] => reg[p] # s /\ Descriptors(p)' = Descriptors(p)
    <3>1. \A p \in Procs : p # ProcOf[t] => reg[p] # s
      BY <1>0, <2>1 DEF SInv, IInv, RegisteredLive
    <3> QED
      BY <2>2, <3>1 DEF Descriptors
  <2>4. CASE CloseLoad(t)
    <3>1. /\ thr'[t].pc = "close_store" /\ thr'[t].state = s /\ ~thr'[t].dangling
          /\ thr'[t].tmp = st[s].count
          /\ \A u \in Threads : u # t => thr'[u] = thr[u]
      BY <1>0, <1>1, <2>1, <2>4 DEF CloseLoad, TypeOK, Locals
    <3>2. UNCHANGED <<reg, st, fds>> /\ thr[t].pc = "close_load"
      BY <2>4 DEF CloseLoad, At
    <3>3. ChangeFrame(t, s) /\ PeerFrame(t)
      BY <2>2, <2>3, <3>1, <3>2
         DEF ChangeFrame, PeerFrame, Descriptors, Changing, CloseLabels, SInv, AllSound, Sound
    <3>4. Sound(t)'
      BY <2>1, <3>1, <3>2 DEF Sound, OpenLabels, IoctlLabels
    <3>5. Ahead(ProcOf[t])' /\ Ahead(ProcOf[t])
      BY <3>1, <3>2, <3>3, AheadFrame DEF AheadLabels
    <3>6. CountAt(ProcOf[t])'
      BY <1>1, <3>2, <3>5 DEF CountAt, Descriptors
    <3> QED
      BY <1>1, <3>2, <3>3, <3>4, <3>6, ChangeKeeps
  <2>5. CASE CloseStore(t)
    <3>1. /\ thr'[t].pc = "close_test" /\ thr'[t].state = s /\ ~thr'[t].dangling
          /\ thr'[t].tmp = thr[t].tmp
          /\ \A u \in Threads : u # t => thr'[u] = thr[u]
      BY <1>0, <1>1, <2>1, <2>5 DEF CloseStore, Goto, TypeOK, Locals
    <3>2. /\ UNCHANGED <<reg, fds>> /\ thr[t].pc = "close_store"
          /\ \A r \in States : r # s => st'[r] = st[r]
          /\ st'[s].lock = st[s].lock /\ st'[s].count = thr[t].tmp - 1
      BY <1>0, <2>1, <2>5 DEF CloseStore, At, TypeOK, StateRecs
    <3>3. thr[t].tmp = st[s].count
      BY <1>0, <2>1, <3>2 DEF Sound
    <3>4. ChangeFrame(t, s)
      BY <2>2, <2>3, <3>1, <3>2 DEF ChangeFrame, Changing, CloseLabels
    <3>5. PeerFrame(t)
      <4> SUFFICES ASSUME NEW u \in Threads, u # t, ProcOf[u] = ProcOf[t],
                          thr[u].pc \in IoctlLabels
                   PROVE  thr[u].fd \in fds /\ thr[u].state = s
        BY <3>2 DEF PeerFrame
      <4>1. Sound(u)
        BY DEF SInv, AllSound
      <4> QED
        BY <2>1, <4>1 DEF Sound, Descriptors, IoctlLabels
    <3>6. Sound(t)'
      BY <2>1, <3>1, <3>2 DEF Sound, OpenLabels, IoctlLabels
    <3>7. ~Ahead(ProcOf[t])' /\ Ahead(ProcOf[t])
      BY <3>1, <3>2, <3>4, AheadFrame DEF AheadLabels
    <3>8. CountAt(ProcOf[t])'
      <4>1. Descriptors(ProcOf[t])' = Descriptors(ProcOf[t]) /\ reg'[ProcOf[t]] = s
        BY <2>1, <3>2 DEF Descriptors
      <4>2. st[s].count = Cardinality(Descriptors(ProcOf[t])) + 1
        BY <1>0, <1>1, <2>1, <3>7 DEF CountAt
      <4>3. st'[s].count = Cardinality(Descriptors(ProcOf[t]))
        BY SMTT(30), <1>1, <3>2, <3>3, <4>2
      <4> QED
        BY SMTT(30), <1>0, <1>1, <3>7, <4>1, <4>3 DEF CountAt
    <3> QED
      BY <1>1, <3>2, <3>4, <3>5, <3>6, <3>8, ChangeKeeps
  <2>6. CASE CloseTest(t)
    <3>1. thr[t].pc = "close_test" /\ UNCHANGED st
      BY <2>6 DEF CloseTest, At
    <3>2. thr[t].tmp - 1 = st[s].count
      BY <1>0, <2>1, <3>1 DEF Sound
    <3>3. \/ st[s].count = 0 /\ reg' = [reg EXCEPT ![ProcOf[t]] = NULL]
                /\ thr' = [thr EXCEPT ![t].pc = "close_free"]
          \/ st[s].count # 0 /\ UNCHANGED reg /\ thr' = [thr EXCEPT ![t] = Idle]
      BY <2>1, <2>6, <3>2 DEF CloseTest, Goto, Return, Reg!Unregister
    <3>4. /\ ~thr'[t].dangling /\ thr'[t].pc \in {"user", "close_free"}
          /\ \A u \in Threads : u # t => thr'[u] = thr[u]
          /\ thr'[t].pc = "close_free" => st[s].count = 0
      <4>1. CASE st[s].count = 0
        BY SMTT(30), <1>0, <1>1, <3>3, <4>1 DEF TypeOK, Locals
      <4>2. CASE st[s].count # 0
        BY SMTT(30), <1>0, <3>3, <4>2 DEF TypeOK, Idle, Local
      <4> QED
        BY <4>1, <4>2
    <3>5. /\ \A p \in Procs : p # ProcOf[t] => reg'[p] = reg[p]
          /\ reg'[ProcOf[t]] = IF st[s].count = 0 THEN NULL ELSE s
      BY <1>0, <2>1, <3>3 DEF TypeOK
    <3>6. ChangeFrame(t, s)
      BY <2>2, <2>3, <3>1, <3>4, <3>5 DEF ChangeFrame, Changing, CloseLabels
    <3>7. ~Ahead(ProcOf[t])' /\ ~Ahead(ProcOf[t])
      BY <3>1, <3>4, <3>6, AheadFrame DEF AheadLabels
    <3>8. st[s].count = Cardinality(Descriptors(ProcOf[t]))
      BY SMTT(30), <1>0, <1>1, <2>1, <3>7 DEF CountAt
    <3>9. st[s].count = 0 => Descriptors(ProcOf[t]) = {}
      BY <1>1, <3>8, DescriptorsFinite, FS_EmptySet
    <3>10. PeerFrame(t)
      <4> SUFFICES ASSUME NEW u \in Threads, u # t, ProcOf[u] = ProcOf[t],
                          thr[u].pc \in IoctlLabels
                   PROVE  UNCHANGED reg /\ thr[u].fd \in fds
        BY <2>2, <3>1 DEF PeerFrame
      <4>1. thr[u].fd \in Descriptors(ProcOf[t])
        BY DEF SInv, AllSound, Sound
      <4> QED
        BY <3>3, <3>9, <4>1 DEF Descriptors
    <3>11. Sound(t)'
      BY <3>4, <3>5 DEF Sound, OpenLabels, IoctlLabels
    <3>12. CountAt(ProcOf[t])'
      <4>1. Descriptors(ProcOf[t])' = Descriptors(ProcOf[t])
        BY <2>2 DEF Descriptors
      <4>2. CASE st[s].count = 0
        BY <3>5, <3>9, <4>1, <4>2 DEF CountAt
      <4>3. CASE st[s].count # 0
        <5>1. reg'[ProcOf[t]] = s /\ st'[s].count = Cardinality(Descriptors(ProcOf[t]))
          BY <3>1, <3>5, <3>8, <4>3
        <5> QED
          BY SMTT(30), <1>0, <1>1, <3>7, <4>1, <5>1 DEF CountAt
      <4> QED
        BY <4>2, <4>3
    <3> QED
      BY <1>1, <2>2, <3>6, <3>10, <3>11, <3>12, ChangeKeeps
  <2> QED
    BY <1>3, <2>4, <2>5, <2>6
<1>4. CASE CloseFree(t)
  <2>1. PICK s \in States : s = thr[t].state /\ thr[t].pc = "close_free"
    BY <1>0, <1>4, Fields DEF CloseFree, At
  <2>2. reg[ProcOf[t]] = NULL /\ Alone(t) /\ \A p \in Procs : reg[p] # s
    BY <1>0, <2>1 DEF Sound, SInv, OneChange, Changing, CloseLabels, IInv, FreeUnregistered
  <2>3. \A u \in Threads : u # t => thr[u].state # s
    BY <2>1, FreedAlone
  <2>4. UNCHANGED <<reg, fds>>
    BY <1>4 DEF CloseFree, Panic
  <2>5. CASE panic' # "no"
    <3>1. UNCHANGED <<st, thr>>
      BY <1>4, <2>5 DEF CloseFree, Panic, At
    <3>2. ChangeFrame(t, s)
      BY <1>1, <2>1, <2>2, <2>4, <3>1 DEF ChangeFrame, Descriptors, Changing, CloseLabels
    <3>5. PeerFrame(t)
      BY <2>4, <3>1 DEF PeerFrame, SInv, AllSound, Sound, Descriptors
    <3>3. Sound(t)'
      BY <1>0, <2>4, <3>1 DEF Sound, Descriptors
    <3>4. CountAt(ProcOf[t])'
      BY <1>1, <2>2, <2>4 DEF CountAt, Descriptors
    <3> QED
      BY <1>1, <2>4, <3>2, <3>3, <3>4, <3>5, ChangeKeeps
  <2>6. CASE panic' = "no"
    <3>1. /\ st' = [st EXCEPT ![s] = Zeroed] /\ thr'[t] = Idle
          /\ \A u \in Threads : u # t => thr'[u] = thr[u]
      BY <1>4, <2>1, <2>6, FreeStep
    <3>3. thr'[t].pc = "user" /\ ~thr'[t].dangling
      BY SMTT(30), <3>1 DEF Idle, Local
    <3>4. \A r \in States : r # s => st'[r] = st[r]
      BY <1>0, <3>1 DEF TypeOK
    <3>5. ChangeFrame(t, s)
      BY <2>1, <2>2, <2>4, <3>1, <3>3, <3>4
         DEF ChangeFrame, Descriptors, Changing, CloseLabels
    <3>6. PeerFrame(t)
      BY <1>0, <2>2, <2>3, <2>4, <3>4, Fields
         DEF PeerFrame, SInv, AllSound, Sound, Descriptors, IoctlLabels
    <3>7. Sound(t)'
      BY <3>3 DEF Sound, OpenLabels, IoctlLabels
    <3>8. CountAt(ProcOf[t])'
      BY <1>1, <2>2, <2>4 DEF CountAt, Descriptors
    <3> QED
      BY <1>1, <2>4, <3>5, <3>6, <3>7, <3>8, ChangeKeeps
  <2> QED
    BY <2>5, <2>6
<1> QED
  BY <1>2, <1>3, <1>4

\* The invariant of clients whose opens and closes do not overlap.
LEMMA SerialInv == ASSUME "serial" \in Discipline PROVE Spec => []SInv
<1>1. ASSUME SInv, [Next]_vars PROVE SInv'
  <2>1. IInv'
    BY <1>1, NextIInv DEF SInv
  <2>2. CASE UNCHANGED vars
    <3> USE <1>1, <2>2 DEF SInv, vars
    <3>1. IsFiniteSet(fds)' /\ NoUseAfterFree' /\ IoctlExclusive'
      BY DEF NoUseAfterFree, IoctlExclusive
    <3>2. OneChange' /\ AllSound'
      BY DEF OneChange, Alone, AllSound, Sound, Descriptors
    <3>3. CountAhead'
      BY DEF CountAhead, CountAt, Ahead, Descriptors
    <3> QED
      BY <2>1, <3>1, <3>2, <3>3
  <2>3. CASE Next
    BY <1>1, <2>1, <2>2, <2>3, OpenSInv, CloseSInv, IoctlSInv DEF Next, Halted
  <2> QED
    BY <1>1, <2>2, <2>3
<1> QED
  BY <1>1, InitSInv, PTL DEF Spec

\* When the opens and closes of a process do not overlap, open_count is the number of
\* its descriptors whenever none is under way, for any number of threads and processes,
\* although kvm_dev_open counts outside state_lock.
THEOREM CountIsExact == ASSUME "serial" \in Discipline PROVE Spec => []CountExact
<1>1. SInv => CountExact
  <2> SUFFICES ASSUME SInv, NEW p \in Procs,
                      \A t \in Threads : ProcOf[t] = p => thr[t].pc \notin Changing
               PROVE  IF reg[p] = NULL THEN \A d \in fds : ProcOf[d] # p
                      ELSE st[reg[p]].count = Cardinality(Descriptors(p))
    BY DEF CountExact, Changing, Descriptors
  <2>1. CountAt(p) /\ ~Ahead(p) /\ IsFiniteSet(fds)
    BY DEF SInv, CountAhead, Ahead, AheadLabels, Changing, OpenLabels, CloseLabels
  <2>2. CASE reg[p] = NULL
    BY <2>1, <2>2 DEF CountAt, Descriptors
  <2>3. CASE reg[p] # NULL
    <3>1. Cardinality(Descriptors(p)) \in Nat
      BY <2>1, DescriptorsFinite
    <3> QED
      BY SMTT(30), <2>1, <2>3, <3>1 DEF CountAt
  <2> QED
    BY <2>2, <2>3
<1> QED
  BY <1>1, SerialInv, PTL

\* Then no handler uses a state after kvm_dev_close has freed it: the descriptor of an
\* ioctl keeps the count above zero, and no lock is needed for it.
THEOREM NoneUsedAfterFree == ASSUME "serial" \in Discipline PROVE Spec => []NoUseAfterFree
<1>1. SInv => NoUseAfterFree
  BY DEF SInv
<1> QED
  BY <1>1, SerialInv, PTL

\* Then what kvm_dev_close assumes holds: no ioctl is in progress on a state it frees.
THEOREM CloseIsAlone == ASSUME "serial" \in Discipline PROVE Spec => []CloseAlone
<1>1. SInv => CloseAlone
  <2> SUFFICES ASSUME SInv, NEW t \in Threads, NEW u \in Threads, thr[t].pc = "close_free",
                      thr[u].state = thr[t].state, thr[u].pc \in IoctlLabels
               PROVE  FALSE
    BY DEF CloseAlone
  <2>1. thr[t].state = reg[ProcOf[u]] /\ ProcOf[u] \in Procs
    BY DeviceConstants DEF SInv, AllSound, Sound, IoctlLabels
  <2> QED
    BY <2>1 DEF SInv, IInv, FreeUnregistered
<1> QED
  BY <1>1, SerialInv, PTL

\* Then the ioctls of a process exclude one another, KVM_IRQ_LINE aside: the locks of a
\* state are allocated again only while it has no descriptor, and so no ioctl.
THEOREM IoctlsExclude == ASSUME "serial" \in Discipline PROVE Spec => []IoctlExclusive
<1>1. SInv => IoctlExclusive
  BY DEF SInv
<1> QED
  BY <1>1, SerialInv, PTL
=============================================================================
