---------------------------- MODULE KvmVcpuProofs ----------------------------
(* Proofs, for any threads, processes, states and vcpus, of the invariants of *)
(* KvmDevice about what the handlers dereference: that kvm_dev_close finds    *)
(* its state and an ioctl its locks, that no vcpu is freed under a state or   *)
(* an ioctl, and that no handler panics when the clients map their vcpus.     *)
(* The opens and closes of a process do not overlap throughout.               *)
EXTENDS KvmSerialProofs

\* Leaves are for Zenon unless they name another prover.
USE ZenonT(30)

\* The locks of a state are there as soon as its process has a descriptor.
LockMade(p) == Descriptors(p) # {} => st[reg[p]].lock # 0

\* A state has a vcpu of its own.
OwnVcpu ==
    \A s \in States : st[s].vcpu # NULL =>
        vc[st[s].vcpu] # "free" /\ \A r \in States : st[r].vcpu = st[s].vcpu => r = s

\* A thread in an ioctl has read a vcpu that is allocated and no other state's.
ReadVcpu(t) ==
    thr[t].pc \in IoctlLabels /\ thr[t].vcpu # NULL =>
        /\ vc[thr[t].vcpu] # "free"
        /\ \A r \in States : st[r].vcpu = thr[t].vcpu => r = thr[t].state

\* The last close: no descriptor is left.  Clients that map the vcpu before have it
\* mapped from then on.
LastClose(t) ==
    \/ thr[t].pc = "close_free"
    \/ thr[t].pc \in CloseLabels /\ Descriptors(ProcOf[t]) = {}
LastMapped(t) ==
    "mapped" \in Discipline /\ LastClose(t) => Mapped(st[thr[t].state].vcpu)

\* The only panics are those of last closes of clients that have not mapped the vcpu.
Survives == HandlersFind /\ ("mapped" \in Discipline => NoPanic)

PInv ==
    /\ SInv
    /\ Survives
    /\ \A p \in Procs : LockMade(p)
    /\ OwnVcpu
    /\ \A t \in Threads : ReadVcpu(t)
    /\ \A t \in Threads : LastMapped(t)

\* What it says of a thread and its process.
LEMMA PFacts ==
  ASSUME SInv, NEW t \in Threads
  PROVE  /\ TypeOK /\ HasState /\ Sound(t) /\ NULL \notin States \cup Vcpus /\ ProcOf[t] \in Procs
         /\ CountAt(ProcOf[t])
         /\ thr[t].pc \in Changing => Alone(t)
         /\ thr[t].pc # "user" => thr[t].state \in States
  BY DeviceConstants, Fields DEF SInv, IInv, AllSound, CountAhead, OneChange

\* The vcpu of state s is left alone, and stays mapped.
KeepsMapped(s) ==
    /\ st'[s].vcpu = st[s].vcpu
    /\ Mapped(st[s].vcpu) => vc'[st[s].vcpu] = "mapped"

\* The last close of another thread finds what it found before.
Spares(u) == LastClose(u)' => LastClose(u) /\ KeepsMapped(thr[u].state)

\* What process p has of its locks is left alone.
KeepsLock(p) ==
    \/ reg'[p] = NULL
    \/ /\ reg'[p] = reg[p] /\ Descriptors(p)' \subseteq Descriptors(p)
       /\ st'[reg[p]].lock = st[reg[p]].lock

\* The vcpu thread u has read is neither freed nor given to another state.
KeepsVcpu(u) ==
    thr[u].pc \in IoctlLabels /\ thr[u].vcpu # NULL =>
        /\ vc'[thr[u].vcpu] # "free"
        /\ \A r \in States : st'[r].vcpu = thr[u].vcpu => st[r].vcpu = thr[u].vcpu

\* A step keeps the invariant when it does so for its own thread and spares the others.
LEMMA PKeeps ==
  ASSUME PInv, SInv', NEW t \in Threads, Survives', OwnVcpu', LastMapped(t)', ReadVcpu(t)',
         \A p \in Procs : KeepsLock(p) \/ LockMade(p)',
         \A u \in Threads : u # t => thr'[u] = thr[u] /\ KeepsVcpu(u),
         \A u \in Threads : u # t /\ thr[u].pc \in CloseLabels => Spares(u)
  PROVE  PInv'
<1>1. ASSUME NEW p \in Procs PROVE LockMade(p)'
  <2>1. CASE reg'[p] = NULL
    BY <2>1 DEF SInv, CountAhead, CountAt, LockMade
  <2>2. CASE /\ reg'[p] = reg[p] /\ Descriptors(p)' \subseteq Descriptors(p)
             /\ st'[reg[p]].lock = st[reg[p]].lock
    BY <2>2 DEF PInv, LockMade
  <2> QED
    BY <2>1, <2>2 DEF KeepsLock
<1>2. ASSUME NEW u \in Threads, u # t PROVE LastMapped(u)'
  <2> SUFFICES ASSUME LastClose(u)', "mapped" \in Discipline
               PROVE  Mapped(st[thr[u].state].vcpu)'
    BY DEF LastMapped
  <2>1. thr'[u] = thr[u] /\ Spares(u)
    BY <1>2 DEF LastClose, CloseLabels
  <2>2. Mapped(st[thr[u].state].vcpu)
    BY <2>1 DEF PInv, LastMapped, Spares
  <2> QED
    BY <2>1, <2>2 DEF Spares, KeepsMapped, Mapped
<1>3. ASSUME NEW u \in Threads, u # t PROVE ReadVcpu(u)'
  <2>1. thr'[u] = thr[u] /\ KeepsVcpu(u) /\ ReadVcpu(u)
    BY <1>3 DEF PInv
  <2> QED
    BY <2>1 DEF ReadVcpu, KeepsVcpu
<1> QED
  BY <1>1, <1>2, <1>3 DEF PInv

\* A step that does nothing to any vcpu.
Calm == UNCHANGED vc /\ \A s \in States : st'[s].vcpu = st[s].vcpu

\* Such a step keeps the vcpus apart ...
LEMMA CalmOwn == ASSUME OwnVcpu, Calm PROVE OwnVcpu'
  BY DEF OwnVcpu, Calm

\* ... and what an ioctl has read allocated ...
LEMMA CalmReads == ASSUME PInv, Calm PROVE \A u \in Threads : KeepsVcpu(u)
  BY DEF PInv, ReadVcpu, KeepsVcpu, Calm

\* ... and the vcpu of a last close mapped, when the descriptors of the process stay.
LEMMA CalmSpares ==
  ASSUME SInv, Calm, NEW u \in Threads, thr[u].pc \in CloseLabels, thr'[u] = thr[u],
         Descriptors(ProcOf[u])' = Descriptors(ProcOf[u])
  PROVE  Spares(u)
<1>1. thr[u].state \in States
  BY PFacts DEF CloseLabels
<1> QED
  BY <1>1 DEF Spares, KeepsMapped, Calm, LastClose, Mapped

\* Closes of other threads are of other processes.
LEMMA ClosesApart ==
  ASSUME NEW t \in Threads, Alone(t), NEW u \in Threads, u # t, thr[u].pc \in CloseLabels
  PROVE  ProcOf[u] # ProcOf[t]
  BY DEF Alone, Changing

\* A state a handler works on is still allocated.
LEMMA WorksOnLive ==
  ASSUME SInv, NEW u \in Threads, thr[u].pc # "user"
  PROVE  thr[u].state \in States /\ st[thr[u].state].live
<1>1. CASE thr[u].pc = "close_free"
  BY <1>1, PFacts DEF SInv, IInv, NoDoubleFree
<1>2. CASE thr[u].pc # "close_free"
  BY SMTT(30), <1>2, PFacts DEF Sound, SInv, IInv, RegisteredLive
<1> QED
  BY <1>1, <1>2

\* kvm_dev_open: a new state has no vcpu, and the open that makes the first descriptor
\* makes the locks.
LEMMA OpenPInv ==
  ASSUME PInv, SInv', NEW t \in Threads, Open(t) \/ OpenLoad(t) \/ OpenStore(t) \/ OpenInit(t),
         "serial" \in Discipline
  PROVE  PInv'
<1>a. SInv /\ Survives /\ OwnVcpu
  BY DEF PInv
<1>0. /\ SInv /\ TypeOK /\ HasState /\ Sound(t) /\ ProcOf[t] \in Procs /\ NULL \notin States
      /\ Survives /\ CountAt(ProcOf[t]) /\ OwnVcpu
  BY <1>a, PFacts
<1>b. UNCHANGED panic => Survives'
  BY <1>a DEF Survives, HandlersFind, NoPanic
<1>1. CASE Open(t)
  <2>1. PICK s \in States :
          /\ thr' = [thr EXCEPT ![t] = Local("open_load", s, NULL, "system")]
          /\ \/ s = reg[ProcOf[t]] /\ UNCHANGED <<reg, st>>
             \/ /\ ~st[s].live /\ reg[ProcOf[t]] = NULL
                /\ reg' = [reg EXCEPT ![ProcOf[t]] = s] /\ st' = [st EXCEPT ![s] = Fresh]
    BY <1>0, <1>1 DEF Open, TypeOK, Reg!Register
  <2>2. UNCHANGED <<vc, fds, panic>>
    BY <1>1 DEF Open
  <2>3. /\ thr'[t].pc = "open_load"
        /\ \A u \in Threads : u # t => thr'[u] = thr[u]
    BY <1>0, <2>1 DEF TypeOK, Local
  <2>4. LastMapped(t)' /\ ReadVcpu(t)' /\ Survives'
    BY <1>b, <2>2, <2>3 DEF LastMapped, LastClose, ReadVcpu, CloseLabels, IoctlLabels
  <2>5. \A p : Descriptors(p)' = Descriptors(p)
    BY <2>2 DEF Descriptors
  <2>6. CASE UNCHANGED <<reg, st>>
    <3>1. Calm
      BY <2>2, <2>6 DEF Calm
    <3>2. \A p \in Procs : KeepsLock(p)
      BY <2>5, <2>6 DEF KeepsLock
    <3>3. \A u \in Threads : u # t /\ thr[u].pc \in CloseLabels => Spares(u)
      BY <1>0, <2>3, <2>5, <3>1, CalmSpares
    <3> QED
      BY <1>0, <2>3, <2>4, <3>1, <3>2, <3>3, CalmOwn, CalmReads, PKeeps
  <2>7. CASE /\ ~st[s].live /\ reg[ProcOf[t]] = NULL
             /\ reg' = [reg EXCEPT ![ProcOf[t]] = s] /\ st' = [st EXCEPT ![s] = Fresh]
    <3>1. st'[s].vcpu = NULL /\ \A r \in States : r # s => st'[r] = st[r]
      BY <1>0, <2>7 DEF TypeOK, Fresh
    <3>2. OwnVcpu'
      BY <1>0, <2>2, <3>1 DEF OwnVcpu
    <3>3. ASSUME NEW p \in Procs PROVE KeepsLock(p) \/ LockMade(p)'
      <4>1. CASE p = ProcOf[t]
        BY <1>0, <2>5, <2>7, <4>1 DEF CountAt, LockMade
      <4>2. CASE p # ProcOf[t] /\ reg[p] # NULL
        <5>1. reg[p] # s /\ reg[p] \in States /\ reg'[p] = reg[p]
          BY <1>0, <2>7, <4>2 DEF TypeOK, SInv, IInv, RegisteredLive
        <5> QED
          BY <2>5, <3>1, <5>1 DEF KeepsLock
      <4>3. CASE p # ProcOf[t] /\ reg[p] = NULL
        BY <1>0, <2>7, <4>3 DEF KeepsLock, TypeOK
      <4> QED
        BY <4>1, <4>2, <4>3
    <3>4. ASSUME NEW u \in Threads, u # t, thr[u].pc \in CloseLabels PROVE Spares(u)
      <4>1. thr[u].state \in States /\ thr[u].state # s
        BY <1>0, <2>7, <3>4, WorksOnLive DEF CloseLabels
      <4>2. LastClose(u)' => LastClose(u)
        BY <2>3, <2>5, <3>4 DEF LastClose
      <4> QED
        BY <2>2, <3>1, <4>1, <4>2 DEF Spares, KeepsMapped, Mapped
    <3>5. \A u \in Threads : KeepsVcpu(u)
      BY <2>2, <3>1 DEF PInv, ReadVcpu, KeepsVcpu
    <3> QED
      BY <1>0, <2>3, <2>4, <3>2, <3>3, <3>4, <3>5, PKeeps
  <2> QED
    BY <2>1, <2>6, <2>7
<1>2. ASSUME OpenLoad(t) \/ OpenStore(t) \/ OpenInit(t) PROVE PInv'
  <2>1. PICK s \in States : s = thr[t].state /\ s = reg[ProcOf[t]]
    BY <1>0, <1>2, Fields DEF OpenLoad, OpenStore, OpenInit, At, Sound
  <2>2. Alone(t) /\ UNCHANGED <<reg, vc, panic>> /\ fds' \subseteq fds \cup {t}
    BY <1>0, <1>2, PFacts
       DEF OpenLoad, OpenStore, OpenInit, At, Changing, OpenLabels
  <2>3. /\ thr'[t].pc \in {"user"} \cup OpenLabels
        /\ \A u \in Threads : u # t => thr'[u] = thr[u]
    BY <1>0, <1>2, OpenContinues DEF OpenGoesOn, StateStep
  <2>4. Calm /\ \A r \in States : r # s => st'[r] = st[r]
    BY SMTT(30), <1>0, <1>2, <2>1, <2>2 DEF OpenLoad, OpenStore, OpenInit, TypeOK, StateRecs, Calm
  <2>5. LastMapped(t)' /\ ReadVcpu(t)' /\ Survives'
    BY <1>b, <2>2, <2>3 DEF LastMapped, LastClose, ReadVcpu, OpenLabels, CloseLabels, IoctlLabels
  <2>6. \A p \in Procs : p # ProcOf[t] => Descriptors(p)' = Descriptors(p)
    BY <1>2, <2>2 DEF OpenLoad, OpenStore, OpenInit, Descriptors
  <2>7. \A u \in Threads : u # t /\ thr[u].pc \in CloseLabels => Spares(u)
    <3> SUFFICES ASSUME NEW u \in Threads, u # t, thr[u].pc \in CloseLabels PROVE Spares(u)
      OBVIOUS
    <3>1. ProcOf[u] \in Procs /\ ProcOf[u] # ProcOf[t]
      BY <1>0, <2>2, ClosesApart, PFacts
    <3> QED
      BY <1>0, <2>3, <2>4, <2>6, <3>1, CalmSpares
  <2>8. ASSUME NEW p \in Procs, p # ProcOf[t] PROVE KeepsLock(p)
    <3>1. reg[p] \in States \cup {NULL} /\ reg[p] # s
      BY <1>0, <2>1, <2>8 DEF TypeOK, SInv, IInv, RegisteredLive
    <3> QED
      BY <2>2, <2>4, <2>6, <2>8, <3>1 DEF KeepsLock
  <2>9. KeepsLock(ProcOf[t]) \/ LockMade(ProcOf[t])'
    <3>1. CASE ~OpenInit(t)
      <4>1. UNCHANGED fds /\ st'[s].lock = st[s].lock
        BY SMTT(30), <1>0, <1>2, <2>1, <3>1 DEF OpenLoad, OpenStore, TypeOK, StateRecs
      <4> QED
        BY <2>1, <2>2, <4>1 DEF KeepsLock, Descriptors
    <3>2. CASE OpenInit(t)
      <4>1. st[s].lock \in Nat /\ st[s].lock + 1 \in Nat
        BY SMTT(30), <1>0 DEF TypeOK, StateRecs
      <4>a. PICK k \in Nat :
              /\ st' = [st EXCEPT ![s].lock = k]
              /\ k = IF st[s].count = 1 THEN st[s].lock + 1 ELSE st[s].lock
        BY <2>1, <3>2, <4>1 DEF OpenInit
      <4>2. st'[s].lock = IF st[s].count = 1 THEN st[s].lock + 1 ELSE st[s].lock
        BY <1>0, <4>a DEF TypeOK, StateRecs
      <4>3. Ahead(ProcOf[t])
        BY <3>2 DEF OpenInit, At, Ahead, AheadLabels
      <4>4. st[s].count = Cardinality(Descriptors(ProcOf[t])) + 1
        BY <1>0, <2>1, <4>3 DEF CountAt
      <4>5. CASE Descriptors(ProcOf[t]) = {}
        <5>1. st[s].count = 1
          BY SMTT(30), <4>4, <4>5, FS_EmptySet
        <5> QED
          BY SMTT(30), <2>1, <2>2, <4>1, <4>2, <5>1 DEF LockMade
      <4>6. CASE Descriptors(ProcOf[t]) # {}
        BY SMTT(30), <1>0, <2>1, <2>2, <4>1, <4>2, <4>6 DEF LockMade, PInv
      <4> QED
        BY <4>5, <4>6
    <3> QED
      BY <3>1, <3>2
  <2> QED
    BY <1>0, <2>3, <2>4, <2>5, <2>7, <2>8, <2>9, CalmOwn, CalmReads, PKeeps
<1> QED
  BY <1>1, <1>2

\* kvm_dev_close: there is a state to close, and nobody works on a vcpu the last close
\* frees; with clients that map it, the vcpu is there and mapped.
LEMMA ClosePInv ==
  ASSUME PInv, SInv', NEW t \in Threads,
         \/ \E d \in Threads : Close(t, d)
         \/ CloseLoad(t) \/ CloseStore(t) \/ CloseTest(t) \/ CloseFree(t),
         "serial" \in Discipline
  PROVE  PInv'
<1>a. SInv /\ Survives /\ OwnVcpu
  BY DEF PInv
<1>0. /\ SInv /\ TypeOK /\ HasState /\ Sound(t) /\ ProcOf[t] \in Procs /\ NULL \notin States
      /\ Survives /\ CountAt(ProcOf[t]) /\ OwnVcpu
  BY <1>a, PFacts
<1>b. UNCHANGED panic => Survives'
  BY <1>a DEF Survives, HandlersFind, NoPanic
<1>1. ASSUME NEW d \in Threads, Close(t, d) PROVE PInv'
  <2>1. d \in Descriptors(ProcOf[t]) /\ MayClose(t, d)
    BY <1>1 DEF Close, MayClose, Descriptors
  <2>2. PICK s \in States : s = reg[ProcOf[t]]
    BY <1>0, <2>1 DEF CountAt, TypeOK
  <2>3. /\ UNCHANGED <<reg, st, vc, panic>> /\ fds' = fds \ {d} /\ Alone(t)
        /\ thr' = [thr EXCEPT ![t] = Local("close_load", s, NULL, "system")]
    BY <1>0, <1>1, <2>2 DEF Close, MayClose, OpensAndClosesAlone, Peers, Alone, Changing
  <2>4. /\ thr'[t].pc = "close_load" /\ thr'[t].state = s
        /\ \A u \in Threads : u # t => thr'[u] = thr[u]
    BY <1>0, <2>3 DEF TypeOK, Local
  <2>5. Calm
    BY <2>3 DEF Calm
  <2>6. \A p \in Procs : KeepsLock(p) /\ (p # ProcOf[t] => Descriptors(p)' = Descriptors(p))
    BY <2>1, <2>3 DEF KeepsLock, Descriptors
  <2>7. LastMapped(t)'
    <3> SUFFICES ASSUME Descriptors(ProcOf[t])' = {}, "mapped" \in Discipline
                 PROVE  Mapped(st[s].vcpu)'
      BY <2>4 DEF LastMapped, LastClose
    <3>1. fds \cap Peers(t) = {d}
      BY <1>0, <2>1, <2>3 DEF Descriptors, Peers, TypeOK
    <3>2. Mapped(st[s].vcpu)
      BY <1>0, <2>1, <2>2, <3>1 DEF MayClose
    <3> QED
      BY <2>3, <3>2 DEF Mapped
  <2>8. ASSUME NEW u \in Threads, u # t, thr[u].pc \in CloseLabels PROVE Spares(u)
    <3>1. ProcOf[u] \in Procs /\ ProcOf[u] # ProcOf[t]
      BY <1>0, <2>3, <2>8, ClosesApart, PFacts
    <3> QED
      BY <1>0, <2>4, <2>5, <2>6, <2>8, <3>1, CalmSpares
  <2>9. ReadVcpu(t)'
    BY <2>4 DEF ReadVcpu, IoctlLabels
  <2> QED
    BY <1>0, <1>b, <2>3, <2>4, <2>5, <2>6, <2>7, <2>8, <2>9, CalmOwn, CalmReads, PKeeps
<1>2. CASE CloseLoad(t) \/ CloseStore(t) \/ CloseTest(t)
  <2>0. CloseGoesOn(t) /\ StateStep(t)
    BY <1>0, <1>2, CloseContinues DEF CloseGoesOn
  <2>1. PICK s \in States : s = thr[t].state /\ s = reg[ProcOf[t]]
    BY <1>0, <2>0 DEF CloseGoesOn, StateStep, CloseLabels, Sound
  <2>2. UNCHANGED <<fds, vc, panic>> /\ thr[t].pc \in CloseLabels
    BY <2>0 DEF CloseGoesOn, StateStep
  <2>3. /\ \A p : Descriptors(p)' = Descriptors(p)
        /\ \A r \in States : st'[r].vcpu = st[r].vcpu /\ st'[r].lock = st[r].lock
    BY <2>0, <2>2 DEF CloseGoesOn, StateStep, StoresTo, Descriptors
  <2>4. Calm
    BY <2>2, <2>3 DEF Calm
  <2>5. /\ \A u \in Threads : u # t => thr'[u] = thr[u]
        /\ \/ thr'[t].pc = "user" /\ UNCHANGED reg
           \/ thr'[t].pc \in {"close_store", "close_test"} /\ thr'[t].state = s /\ UNCHANGED reg
           \/ /\ thr'[t].pc = "close_free" /\ thr'[t].state = s
              /\ reg' = [reg EXCEPT ![ProcOf[t]] = NULL]
    BY <2>0, <2>1 DEF CloseGoesOn, StateStep
  <2>6. ASSUME NEW p \in Procs PROVE KeepsLock(p)
    <3>1. reg'[p] = reg[p] \/ reg'[p] = NULL
      BY <1>0, <2>5 DEF TypeOK
    <3>2. reg[p] \in States \cup {NULL}
      BY <1>0 DEF TypeOK
    <3> QED
      BY <2>3, <3>1, <3>2 DEF KeepsLock
  <2>7. LastMapped(t)'
    <3> SUFFICES ASSUME LastClose(t)', "mapped" \in Discipline
                 PROVE  Mapped(st[thr[t].state].vcpu)'
      BY DEF LastMapped
    <3>1. thr'[t].state = s
      BY <2>5 DEF LastClose, CloseLabels
    <3>2. Descriptors(ProcOf[t]) = {}
      <4>1. CASE thr'[t].pc = "close_free"
        <5>1. reg'[ProcOf[t]] = NULL
          BY <1>0, <2>5, <4>1 DEF TypeOK
        <5> QED
          BY <1>0, <2>3, <5>1 DEF SInv, CountAhead, CountAt
      <4> QED
        BY <2>3, <4>1 DEF LastClose
    <3>3. Mapped(st[s].vcpu)
      BY <2>1, <2>2, <3>2 DEF PInv, LastMapped, LastClose
    <3> QED
      BY <2>2, <2>3, <3>1, <3>3 DEF Mapped
  <2>8. \A u \in Threads : u # t /\ thr[u].pc \in CloseLabels => Spares(u)
    BY <1>0, <2>3, <2>4, <2>5, CalmSpares
  <2>9. ReadVcpu(t)'
    BY <2>5 DEF ReadVcpu, IoctlLabels
  <2> QED
    BY <1>0, <1>b, <2>2, <2>4, <2>5, <2>6, <2>7, <2>8, <2>9, CalmOwn, CalmReads, PKeeps
<1>3. CASE CloseFree(t) /\ panic' # "no"
  <2>1. PICK s \in States : s = thr[t].state /\ thr[t].pc = "close_free"
    BY <1>0, <1>3, Fields DEF CloseFree, At
  <2>2. ~Mapped(st[s].vcpu) /\ panic' \in {"no_vcpu", "no_mapping"}
    BY <1>3, <2>1 DEF CloseFree, Panic, Mapped, At
  <2>3. UNCHANGED <<reg, st, vc, fds, thr>>
    BY <1>3 DEF CloseFree, Panic, At
  <2>4. "mapped" \notin Discipline
    BY <2>1, <2>2 DEF PInv, LastMapped, LastClose
  <2>5. Survives'
    BY <2>2, <2>4 DEF Survives, HandlersFind
  <2>6. LastMapped(t)' /\ ReadVcpu(t)'
    BY <2>1, <2>3, <2>4 DEF LastMapped, ReadVcpu, IoctlLabels
  <2>7. Calm /\ \A p : Descriptors(p)' = Descriptors(p)
    BY <2>3 DEF Calm, Descriptors
  <2>8. \A p \in Procs : KeepsLock(p)
    BY <2>3, <2>7 DEF KeepsLock
  <2>9. \A u \in Threads : u # t /\ thr[u].pc \in CloseLabels => Spares(u)
    BY <1>0, <2>3, <2>7, CalmSpares
  <2> QED
    BY <1>0, <2>3, <2>5, <2>6, <2>7, <2>8, <2>9, CalmOwn, CalmReads, PKeeps
<1>4. CASE CloseFree(t) /\ panic' = "no"
  <2>1. PICK s \in States : s = thr[t].state /\ thr[t].pc = "close_free"
    BY <1>0, <1>4, Fields DEF CloseFree, At
  <2>2. PICK v \in Vcpus : v = st[s].vcpu /\ Mapped(v)
    <3>1. Mapped(st[s].vcpu)
      BY <1>0, <1>4, <2>1, FreeStep
    <3>2. st[s].vcpu \in Vcpus \cup {NULL}
      BY <1>0 DEF TypeOK, StateRecs
    <3> QED
      BY <3>1, <3>2 DEF Mapped
  <2>4. /\ UNCHANGED <<reg, fds, panic>> /\ thr'[t] = Idle
        /\ vc' = [vc EXCEPT ![v] = "free"] /\ st' = [st EXCEPT ![s] = Zeroed]
        /\ \A u \in Threads : u # t => thr'[u] = thr[u]
    BY <1>0, <1>4, <2>1, <2>2, FreeStep
  <2>5. /\ st'[s].vcpu = NULL /\ \A r \in States : r # s => st'[r] = st[r]
        /\ \A w \in Vcpus : w # v => vc'[w] = vc[w]
    BY <1>0, <2>4 DEF TypeOK, Zeroed
  <2>6. \A r \in States : r # s => st[r].vcpu # v /\ st[r].vcpu \in Vcpus \cup {NULL}
    BY <1>0, <2>2 DEF OwnVcpu, Mapped, TypeOK, StateRecs
  <2>7. OwnVcpu'
    BY SMTT(30), <1>0, <2>5, <2>6 DEF OwnVcpu
  <2>8. LastMapped(t)' /\ ReadVcpu(t)' /\ Survives'
    BY <1>b, <2>4, IdleType DEF LastMapped, LastClose, ReadVcpu, CloseLabels, IoctlLabels
  <2>9. \A p \in Procs : KeepsLock(p)
    <3>1. \A p \in Procs : reg[p] # s /\ reg[p] \in States \cup {NULL}
      BY <1>0, <2>1 DEF SInv, IInv, FreeUnregistered, TypeOK
    <3> QED
      BY <2>4, <2>5, <3>1 DEF KeepsLock, Descriptors
  <2>10. ASSUME NEW u \in Threads, u # t, thr[u].pc \in CloseLabels PROVE Spares(u)
    <3>1. thr[u].state \in States /\ thr[u].state # s
      BY <1>0, <2>1, <2>10, FreedAlone, WorksOnLive DEF CloseLabels
    <3>2. KeepsMapped(thr[u].state)
      <4>1. CASE st[thr[u].state].vcpu = NULL
        BY <2>5, <3>1, <4>1 DEF KeepsMapped, Mapped
      <4>2. CASE st[thr[u].state].vcpu # NULL
        BY <2>5, <2>6, <3>1, <4>2 DEF KeepsMapped, Mapped
      <4> QED
        BY <4>1, <4>2
    <3>3. LastClose(u)' => LastClose(u)
      BY <2>4, <2>10 DEF LastClose, Descriptors
    <3> QED
      BY <3>2, <3>3 DEF Spares
  <2>11. ASSUME NEW u \in Threads, u # t PROVE KeepsVcpu(u)
    <3> SUFFICES ASSUME thr[u].pc \in IoctlLabels, thr[u].vcpu # NULL
                 PROVE  /\ vc'[thr[u].vcpu] # "free"
                        /\ \A r \in States : st'[r].vcpu = thr[u].vcpu => st[r].vcpu = thr[u].vcpu
      BY DEF KeepsVcpu
    <3>1. thr[u].vcpu \in Vcpus /\ thr[u].state # s
      BY <1>0, <2>1, <2>11, Fields, FreedAlone
    <3>2. vc[thr[u].vcpu] # "free" /\ thr[u].vcpu # v
      BY <2>2, <3>1 DEF PInv, ReadVcpu
    <3> QED
      BY <2>5, <3>1, <3>2
  <2> QED
    BY <1>0, <2>4, <2>7, <2>8, <2>9, <2>10, <2>11, PKeeps
<1> QED
  BY <1>1, <1>2, <1>3, <1>4

\* A thread in kvm_dev_ioctl works on the state of its process, which has its locks.
LEMMA IoctlHas ==
  ASSUME PInv, NEW t \in Threads, thr[t].pc \in IoctlLabels
  PROVE  /\ thr[t].state = reg[ProcOf[t]] /\ st[thr[t].state].lock # 0
         /\ \A u \in Threads : LastClose(u) => thr[u].state # thr[t].state
<1>0. SInv /\ Sound(t) /\ ProcOf[t] \in Procs /\ LockMade(ProcOf[t]) /\ TypeOK /\ NULL \notin States
  BY PFacts DEF PInv
<1>1. thr[t].state = reg[ProcOf[t]] /\ Descriptors(ProcOf[t]) # {} /\ thr[t].state \in States
  BY <1>0, PFacts DEF Sound, IoctlLabels
<1>2. ASSUME NEW u \in Threads, LastClose(u), thr[u].state = thr[t].state PROVE FALSE
  <2>1. Sound(u) /\ ProcOf[u] \in Procs
    BY <1>0, PFacts
  <2>2. CASE thr[u].pc = "close_free"
    BY <1>0, <1>1, <1>2, <2>2 DEF SInv, IInv, FreeUnregistered
  <2>3. CASE thr[u].pc \in CloseLabels \ {"close_free"} /\ Descriptors(ProcOf[u]) = {}
    <3>1. reg[ProcOf[u]] = reg[ProcOf[t]] /\ reg[ProcOf[t]] # NULL
      BY <1>0, <1>1, <1>2, <2>1, <2>3 DEF Sound, CloseLabels
    <3>2. ProcOf[u] = ProcOf[t]
      BY <1>0, <2>1, <3>1 DEF SInv, IInv, RegisteredLive
    <3> QED
      BY <1>1, <2>3, <3>2
  <2> QED
    BY <1>2, <2>2, <2>3 DEF LastClose
<1> QED
  BY <1>0, <1>1, <1>2 DEF LockMade

\* kvm_dev_ioctl: the lock it takes is there, and is the one it gives back; a new vcpu is
\* nobody's, and no vcpu loses its mapping.
LEMMA IoctlPInv ==
  ASSUME PInv, SInv', NEW t \in Threads,
         \/ \E d \in Threads, cmd \in Cmds : Ioctl(t, d, cmd)
         \/ IoctlVcpu(t) \/ IoctlLock(t) \/ IoctlBody(t) \/ IoctlUnlock(t)
  PROVE  PInv'
<1>a. SInv /\ Survives /\ OwnVcpu
  BY DEF PInv
<1>0. /\ SInv /\ TypeOK /\ HasState /\ Sound(t) /\ ProcOf[t] \in Procs /\ NULL \notin States
      /\ Survives /\ OwnVcpu /\ NULL \notin Vcpus
  BY <1>a, PFacts
<1>1. IoctlFrame(t)
  BY <1>0, IoctlSteps DEF SInv
<1>2. \A p \in Procs : KeepsLock(p)
  <2>1. \A p \in Procs : reg[p] \in States \cup {NULL}
    BY <1>0 DEF TypeOK
  <2> QED
    BY <1>1, <2>1 DEF IoctlFrame, KeepsLock, Descriptors
<1>3. LastMapped(t)'
  BY <1>1 DEF IoctlFrame, IoctlLabels, CloseLabels, LastMapped, LastClose
<1>4. \A u \in Threads : u # t => thr'[u] = thr[u] /\ (LastClose(u)' => LastClose(u))
  BY <1>1 DEF IoctlFrame, LastClose, Descriptors
<1>5. UNCHANGED panic
  <2>1. CASE IoctlLock(t)
    <3>1. st[thr[t].state].lock # 0
      BY <2>1, IoctlHas DEF IoctlLock, At, IoctlLabels
    <3> QED
      BY <2>1, <3>1 DEF IoctlLock
  <2>2. CASE IoctlUnlock(t)
    <3>1. thr[t].lock = st[thr[t].state].lock
      BY <1>0, <2>2 DEF IoctlUnlock, At, Sound
    <3> QED
      BY <2>2, <3>1 DEF IoctlUnlock
  <2>3. CASE ~IoctlLock(t) /\ ~IoctlUnlock(t)
    BY <2>3 DEF Ioctl, IoctlVcpu, IoctlBody
  <2> QED
    BY <2>1, <2>2, <2>3
<1>b. Survives'
  BY <1>a, <1>5 DEF Survives, HandlersFind, NoPanic
<1>6. SUFFICES /\ OwnVcpu' /\ ReadVcpu(t)'
               /\ \A u \in Threads : u # t => KeepsVcpu(u)
               /\ \A u \in Threads : LastClose(u) => KeepsMapped(thr[u].state)
  BY <1>2, <1>3, <1>4, <1>b, PKeeps DEF Spares
<1>7. \A u \in Threads : LastClose(u) => thr[u].state \in States
  BY <1>0, PFacts DEF LastClose, CloseLabels
<1>8. CASE IoctlBody(t) /\ thr[t].cmd = "create"
  <2>1. PICK v \in Vcpus :
          /\ vc[v] = "free" /\ vc' = [vc EXCEPT ![v] = "new"]
          /\ st' = [st EXCEPT ![thr[t].state].vcpu = v]
          /\ thr' = [thr EXCEPT ![t].vcpu = v, ![t].pc = "ioctl_unlock"]
    BY <1>8 DEF IoctlBody, CreateVm
  <2>2. thr[t].pc \in IoctlLabels /\ thr[t].state \in States
    BY <1>0, <1>8, PFacts DEF IoctlBody, At, IoctlLabels
  <2>3. /\ st'[thr[t].state].vcpu = v
        /\ \A r \in States : r # thr[t].state => st'[r].vcpu = st[r].vcpu
        /\ \A w \in Vcpus : w # v => vc'[w] = vc[w]
        /\ vc'[v] = "new"
    BY <1>0, <2>1, <2>2 DEF TypeOK, StateRecs
  <2>4. \A r \in States : st[r].vcpu # v /\ st[r].vcpu \in Vcpus \cup {NULL}
    BY <1>0, <2>1 DEF OwnVcpu, TypeOK, StateRecs
  <2>5. OwnVcpu'
    BY SMTT(30), <1>0, <2>2, <2>3, <2>4 DEF OwnVcpu
  <2>6. ASSUME NEW u \in Threads, LastClose(u) PROVE KeepsMapped(thr[u].state)
    <3>1. thr[u].state # thr[t].state
      BY <2>2, <2>6, IoctlHas
    <3> QED
      BY <1>7, <2>3, <2>4, <2>6, <3>1 DEF KeepsMapped, Mapped
  <2>7. ReadVcpu(t)'
    <3>1. thr'[t].vcpu = v /\ thr'[t].state = thr[t].state
      BY <1>0, <2>1 DEF TypeOK, Locals
    <3> QED
      BY <2>3, <2>4, <3>1 DEF ReadVcpu
  <2>8. ASSUME NEW u \in Threads, u # t PROVE KeepsVcpu(u)
    <3>1. thr[u].vcpu \in Vcpus \cup {NULL} /\ ReadVcpu(u)
      BY <1>0, Fields DEF PInv
    <3> QED
      BY <2>1, <2>2, <2>3, <3>1 DEF KeepsVcpu, ReadVcpu
  <2> QED
    BY <2>5, <2>6, <2>7, <2>8
<1>9. CASE IoctlBody(t) /\ thr[t].cmd = "mmap" /\ MmapVcpu(t)
  <2>1. UNCHANGED st /\ vc' = [vc EXCEPT ![thr[t].vcpu] = "mapped"]
    BY <1>9 DEF MmapVcpu
  <2>2. \A w \in Vcpus : vc'[w] = vc[w] \/ vc'[w] = "mapped"
    BY <1>0, <2>1 DEF TypeOK
  <2>3. \A r \in States : st[r].vcpu \in Vcpus \cup {NULL}
    BY <1>0 DEF TypeOK, StateRecs
  <2>4. \A u \in Threads : ReadVcpu(u) /\ KeepsVcpu(u)
    <3> SUFFICES ASSUME NEW u \in Threads PROVE ReadVcpu(u) /\ KeepsVcpu(u)
      OBVIOUS
    <3>1. thr[u].vcpu \in Vcpus \cup {NULL} /\ ReadVcpu(u)
      BY <1>0, Fields DEF PInv
    <3> QED
      BY <2>1, <2>2, <3>1 DEF KeepsVcpu, ReadVcpu
  <2>5. /\ thr'[t].vcpu = thr[t].vcpu /\ thr'[t].state = thr[t].state
        /\ thr[t].pc \in IoctlLabels
    BY <1>0, <1>9 DEF IoctlBody, MmapVcpu, Goto, At, TypeOK, Locals, IoctlLabels
  <2>6. ReadVcpu(t)'
    BY <2>1, <2>4, <2>5 DEF ReadVcpu, KeepsVcpu
  <2> QED
    BY <1>0, <1>7, <2>1, <2>2, <2>3, <2>4, <2>6 DEF OwnVcpu, KeepsMapped, Mapped
<1>10. CASE ~(IoctlBody(t) /\ thr[t].cmd = "create") /\ ~(IoctlBody(t) /\ thr[t].cmd = "mmap" /\ MmapVcpu(t))
  <2>1. UNCHANGED <<st, vc>>
    BY <1>10 DEF Ioctl, IoctlVcpu, IoctlLock, IoctlUnlock, IoctlBody, Panic
  <2>2. ReadVcpu(t) /\ \A u \in Threads : KeepsVcpu(u)
    BY <2>1, CalmReads DEF PInv, Calm
  <2>3. \/ thr'[t].pc \notin IoctlLabels \/ thr'[t].vcpu = NULL
        \/ /\ thr'[t].vcpu = st[thr[t].state].vcpu /\ thr[t].state \in States
           /\ thr'[t].state = thr[t].state
        \/ /\ thr'[t].vcpu = thr[t].vcpu /\ thr'[t].state = thr[t].state
           /\ thr[t].pc \in IoctlLabels
    <3> USE <1>0 DEF TypeOK, Locals, At
    <3>1. ASSUME NEW d \in Threads, NEW cmd \in Cmds, Ioctl(t, d, cmd) PROVE thr'[t].vcpu = NULL
      BY <3>1 DEF Ioctl, Local
    <3>2. CASE IoctlVcpu(t)
      BY <3>2, PFacts DEF IoctlVcpu
    <3>3. CASE IoctlLock(t)
      BY SMTT(30), <3>3, <1>5 DEF IoctlLock, Panic, IoctlLabels
    <3>4. CASE IoctlBody(t)
      BY <1>10, <3>4 DEF IoctlBody, Goto, IoctlLabels
    <3>5. CASE IoctlUnlock(t)
      BY <3>5, IdleType DEF IoctlUnlock, Return, IoctlLabels
    <3> QED
      BY <3>1, <3>2, <3>3, <3>4, <3>5
  <2>4. ReadVcpu(t)'
    BY <1>0, <2>1, <2>2, <2>3 DEF ReadVcpu, OwnVcpu
  <2> QED
    BY <1>0, <1>7, <2>1, <2>2, <2>4 DEF OwnVcpu, KeepsMapped, Mapped
<1> QED
  BY <1>8, <1>9, <1>10

\* No process is closing anything at first.
LEMMA InitPInv == Init => PInv
<1> SUFFICES ASSUME Init PROVE PInv
  OBVIOUS
<1>1. SInv /\ Survives
  BY InitSInv DEF Init, Survives, HandlersFind, NoPanic
<1>2. \A s \in States : st[s].vcpu = NULL
  BY DEF Init, Zeroed
<1>3. \A t \in Threads : ~LastClose(t) /\ thr[t].pc \notin IoctlLabels
  BY IdleType DEF Init, LastClose, CloseLabels, IoctlLabels
<1>4. \A p \in Procs : Descriptors(p) = {}
  BY DEF Init, Descriptors
<1> QED
  BY <1>1, <1>2, <1>3, <1>4 DEF PInv, OwnVcpu, ReadVcpu, LastMapped, LockMade

\* The invariant of clients whose opens and closes do not overlap.
LEMMA VcpuInv == ASSUME "serial" \in Discipline PROVE Spec => []PInv
<1>1. ASSUME PInv, SInv', [Next]_vars PROVE PInv'
  <2>1. CASE UNCHANGED vars
    <3> USE <1>1, <2>1 DEF vars
    <3>1. Survives'
      BY DEF PInv, Survives, HandlersFind, NoPanic
    <3>2. OwnVcpu' /\ \A p \in Procs : LockMade(p)'
      BY DEF PInv, OwnVcpu, LockMade, Descriptors
    <3>3. \A t \in Threads : ReadVcpu(t)' /\ LastMapped(t)'
      BY DEF PInv, ReadVcpu, LastMapped, LastClose, Mapped, Descriptors
    <3> QED
      BY <3>1, <3>2, <3>3 DEF PInv
  <2>2. CASE Next
    BY <1>1, <2>1, <2>2, OpenPInv, ClosePInv, IoctlPInv DEF Next, Halted
  <2> QED
    BY <1>1, <2>1, <2>2
<1> QED
  BY <1>1, InitPInv, SerialInv, PTL DEF Spec

\* When the opens and closes of a process do not overlap, kvm_dev_close always finds a state
\* and every ioctl the lock it takes and releases, for any number of threads and processes,
\* whatever the process does with its vcpu.
THEOREM HandlersDoFind == ASSUME "serial" \in Discipline PROVE Spec => []HandlersFind
<1>1. PInv => HandlersFind
  BY DEF PInv, Survives
<1> QED
  BY <1>1, VcpuInv, PTL

\* Then no vcpu is freed under a state or an ioctl, and no two states share one, however often
\* KVM_CREATE_VM replaces the vcpu an ioctl has read before it waited for the lock.
THEOREM VcpuIsOwned == ASSUME "serial" \in Discipline PROVE Spec => []VcpuOwned
<1>1. PInv => VcpuOwned
  BY DEF PInv, OwnVcpu, ReadVcpu, VcpuOwned
<1> QED
  BY <1>1, VcpuInv, PTL

\* When such a process also maps its vcpu before the last close, no handler of the device
\* dereferences NULL or a lock that was never allocated: the last close finds the vcpu and
\* its mapping.  It does not matter how often KVM_CREATE_VM is called.
THEOREM NoHandlerPanics ==
  ASSUME "serial" \in Discipline, "mapped" \in Discipline
  PROVE  Spec => []NoPanic
<1>1. PInv => NoPanic
  BY DEF PInv, Survives
<1> QED
  BY <1>1, VcpuInv, PTL
=============================================================================
