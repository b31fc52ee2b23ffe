--------------------------- MODULE KvmDeviceProofs ---------------------------
(* Proofs, for any threads, processes, states and vcpus, of the invariants of *)
(* KvmDevice that hold whatever the clients do.                               *)
EXTENDS KvmDevice, TLAPS

USE ZenonT(30)

\* A thread has a state while it is inside a handler.
HasState == \A t \in Threads : thr[t].pc = "user" <=> thr[t].state = NULL

\* Until it releases state_lock, a thread in kvm_dev_close works on the state
\* that is registered for its process.
CloseHeld ==
    \A t \in Threads :
        thr[t].pc \in {"close_load", "close_store", "close_test"} =>
            stateLock = t /\ reg[ProcOf[t]] = thr[t].state

\* A state about to be freed is not in the list any more.
FreeUnregistered ==
    \A t \in Threads, p \in Procs : thr[t].pc = "close_free" => reg[p] # thr[t].state

IInv ==
    /\ TypeOK
    /\ HasState
    /\ CloseHeld
    /\ FreeUnregistered
    /\ RegisteredLive
    /\ NoDoubleFree

\* A record Local builds has its type and its fields.
LEMMA LocalType ==
  ASSUME NEW l \in {"user"} \cup OpenLabels \cup CloseLabels \cup IoctlLabels,
         NEW s \in States \cup {NULL}, NEW d \in Threads \cup {NULL}, NEW c \in Cmds
  PROVE  /\ Local(l, s, d, c) \in Locals
         /\ Local(l, s, d, c).pc = l /\ Local(l, s, d, c).state = s
         /\ Local(l, s, d, c).fd = d /\ Local(l, s, d, c).cmd = c
  BY SMTT(30) DEF Local, Locals

\* The local variables of a thread outside the handlers.
LEMMA IdleType == Idle \in Locals /\ Idle.pc = "user" /\ Idle.state = NULL
  BY SMTT(30), LocalType DEF Idle, Cmds

\* A state that is free, and one kvm_dev_open has just zeroed.
LEMMA StateType == /\ Zeroed \in StateRecs /\ Zeroed.live = FALSE
                   /\ Fresh \in StateRecs /\ Fresh.live = TRUE
  BY SMTT(30) DEF Zeroed, Fresh, StateRecs

\* The types hold at first ...
LEMMA InitTyped == Init => TypeOK /\ HasState
  BY IdleType, StateType DEF Init, Reg!Init, TypeOK, HasState

\* What a thread finds in its local variables and in its state.
LEMMA Fields ==
  ASSUME TypeOK, HasState, NEW t \in Threads
  PROVE  /\ thr[t] \in Locals /\ thr[t].tmp \in Int /\ thr[t].lock \in Nat
         /\ thr[t].vcpu \in Vcpus \cup {NULL} /\ thr[t].fd \in Threads \cup {NULL}
         /\ thr[t].state \in States \cup {NULL}
         /\ thr[t].pc # "user" =>
              /\ thr[t].state \in States
              /\ st[thr[t].state] \in StateRecs
              /\ st[thr[t].state].count \in Int /\ st[thr[t].state].lock \in Nat
              /\ st[thr[t].state].vcpu \in Vcpus \cup {NULL}
  BY DEF TypeOK, HasState, Locals, StateRecs

\* A handler works on a state.
LEMMA InHandler ==
  ASSUME TypeOK, HasState, NEW t \in Threads, thr[t].pc # "user" PROVE thr[t].state \in States
  BY Fields

\* A store to a field of a state.
LEMMA Store ==
  ASSUME st \in [States -> StateRecs], NEW s \in States
  PROVE  /\ \A n \in Int : [st EXCEPT ![s].count = n] \in [States -> StateRecs]
         /\ \A n \in Nat : [st EXCEPT ![s].lock = n] \in [States -> StateRecs]
         /\ \A v \in Vcpus : [st EXCEPT ![s].vcpu = v] \in [States -> StateRecs]
  BY DEF StateRecs

\* Marking the users of a freed state keeps the rest of their local variables.
LEMMA Dangle ==
  ASSUME NEW l \in Locals, NEW b \in BOOLEAN
  PROVE  /\ [l EXCEPT !.dangling = l.dangling \/ b] \in Locals
         /\ [l EXCEPT !.dangling = l.dangling \/ b].pc = l.pc
         /\ [l EXCEPT !.dangling = l.dangling \/ b].state = l.state
<1>1. (l.dangling \/ b) \in BOOLEAN
  OBVIOUS
<1> QED
  BY <1>1 DEF Locals

\* ... and every step of a handler keeps them.
LEMMA NextTyped == TypeOK /\ HasState /\ [Next]_vars => TypeOK' /\ HasState'
<1> SUFFICES ASSUME TypeOK, HasState, [Next]_vars PROVE TypeOK' /\ HasState'
  OBVIOUS
<1> USE IdleType, StateType
    DEF TypeOK, HasState, At, Goto, Return, Panic, OpenLabels, CloseLabels, IoctlLabels
<1>0. NULL \notin States /\ \A t \in Threads : ProcOf[t] \in Procs
  BY DeviceConstants
<1>1. ASSUME NEW t \in Threads, Open(t) PROVE TypeOK' /\ HasState'
  <2>1. PICK s \in States : thr' = [thr EXCEPT ![t] = Local("open_load", s, NULL, "system")]
    BY <1>0, <1>1 DEF Open
  <2>2. thr' \in [Threads -> Locals] /\ HasState'
    BY SMTT(30), <1>0, <2>1, LocalType DEF Cmds
  <2>3. st' \in [States -> StateRecs]
    BY <1>1 DEF Open
  <2>4. reg' \in [Procs -> States \cup {NULL}]
    BY <1>0, <1>1 DEF Open, Reg!Register
  <2> QED
    BY <1>1, <2>2, <2>3, <2>4 DEF Open
<1>2. ASSUME NEW t \in Threads, OpenLoad(t) PROVE TypeOK' /\ HasState'
  <2>1. thr' \in [Threads -> Locals] /\ HasState'
    BY SMTT(30), <1>2, Fields DEF Locals, OpenLoad
  <2> QED
    BY <1>2, <2>1 DEF OpenLoad
<1>3. ASSUME NEW t \in Threads, OpenStore(t) PROVE TypeOK' /\ HasState'
  <2>1. thr[t].tmp + 1 \in Int
    BY SMTT(30), Fields
  <2>2. thr' \in [Threads -> Locals] /\ HasState'
    BY SMTT(30), <1>3 DEF Locals, OpenStore
  <2>3. st' \in [States -> StateRecs]
    BY <1>3, <2>1, Fields, Store DEF OpenStore
  <2> QED
    BY <1>3, <2>2, <2>3 DEF OpenStore
<1>4. ASSUME NEW t \in Threads, OpenInit(t) PROVE TypeOK' /\ HasState'
  <2>1. thr' \in [Threads -> Locals] /\ HasState'
    BY <1>4 DEF OpenInit
  <2>2. st[thr[t].state].lock + 1 \in Nat /\ st[thr[t].state].lock \in Nat
    BY SMTT(30), <1>4, Fields DEF OpenInit
  <2>3. st' \in [States -> StateRecs]
    BY <1>4, <2>2, Fields, Store DEF OpenInit
  <2> QED
    BY <1>4, <2>1, <2>3 DEF OpenInit
<1>5. ASSUME NEW t \in Threads, NEW d \in Threads, Close(t, d) PROVE TypeOK' /\ HasState'
  <2>1. CASE reg[ProcOf[t]] = NULL
    BY <1>5, <2>1 DEF Close, Faults
  <2>2. CASE reg[ProcOf[t]] # NULL
    <3>1. PICK s \in States : s = reg[ProcOf[t]]
      BY <1>0, <2>2
    <3>2. thr' = [thr EXCEPT ![t] = Local("close_load", s, NULL, "system")]
      BY <1>5, <2>2, <3>1 DEF Close
    <3>3. LET l == Local("close_load", s, NULL, "system")
          IN  l \in Locals /\ l.pc = "close_load" /\ l.state = s
      BY SMTT(30), LocalType DEF Cmds
    <3>4. thr' \in [Threads -> Locals] /\ HasState'
      BY SMTT(30), <1>0, <3>2, <3>3
    <3> QED
      BY <1>5, <2>2, <3>4 DEF Close
  <2> QED
    BY <2>1, <2>2
<1>6. ASSUME NEW t \in Threads, CloseLoad(t) PROVE TypeOK' /\ HasState'
  <2>1. thr' \in [Threads -> Locals] /\ HasState'
    BY SMTT(30), <1>6, Fields DEF Locals, CloseLoad
  <2> QED
    BY <1>6, <2>1 DEF CloseLoad
<1>7. ASSUME NEW t \in Threads, CloseStore(t) PROVE TypeOK' /\ HasState'
  <2>1. thr[t].tmp - 1 \in Int
    BY SMTT(30), Fields
  <2>2. thr' \in [Threads -> Locals] /\ HasState'
    BY SMTT(30), <1>7 DEF Locals, CloseStore
  <2>3. st' \in [States -> StateRecs]
    BY <1>7, <2>1, Fields, Store DEF CloseStore
  <2> QED
    BY <1>7, <2>2, <2>3 DEF CloseStore
<1>7b. ASSUME NEW t \in Threads, CloseTest(t) PROVE TypeOK' /\ HasState'
  <2>1. thr' \in [Threads -> Locals] /\ HasState'
    <3>1. CASE thr' = [thr EXCEPT ![t].pc = "close_free"]
      BY SMTT(30), <1>7b, <3>1 DEF Locals, CloseTest
    <3>2. CASE thr' = [thr EXCEPT ![t] = Idle]
      BY <3>2
    <3> QED
      BY <1>7b, <3>1, <3>2 DEF CloseTest
  <2>2. reg' \in [Procs -> States \cup {NULL}]
    BY <1>7b DEF CloseTest, Reg!Unregister
  <2> QED
    BY <1>7b, <2>1, <2>2 DEF CloseTest
<1>8. ASSUME NEW t \in Threads, CloseFree(t) PROVE TypeOK' /\ HasState'
  <2>1. CASE panic' # "no"
    BY <1>8, <2>1 DEF CloseFree, Faults
  <2>2. CASE panic' = "no"
    <3>1. thr' = [u \in Threads |->
                    IF u = t THEN Idle
                    ELSE [thr[u] EXCEPT !.dangling = @ \/ thr[u].state = thr[t].state]]
      BY <1>8, <2>2 DEF CloseFree
    <3>2. \A u \in Threads : thr'[u] \in Locals
      BY Zenon, <3>1, Fields, Dangle
    <3>3. HasState'
      BY SMTT(30), <3>1, Fields, Dangle
    <3>4. st' \in [States -> StateRecs] /\ vc' \in [Vcpus -> {"free", "new", "mapped"}]
      BY SMTT(30), <1>8, <2>2 DEF CloseFree
    <3> QED
      BY <1>8, <2>2, <3>1, <3>2, <3>3, <3>4 DEF CloseFree
  <2> QED
    BY <2>1, <2>2
<1>9. ASSUME NEW t \in Threads, NEW d \in Threads, NEW cmd \in Cmds, Ioctl(t, d, cmd)
      PROVE TypeOK' /\ HasState'
  <2>1. thr' = [thr EXCEPT ![t] = Local("ioctl_vcpu", reg[ProcOf[t]], d, cmd)]
    BY <1>9 DEF Ioctl
  <2>2. thr' \in [Threads -> Locals] /\ HasState'
    BY SMTT(30), <1>0, <1>9, <2>1, LocalType DEF Ioctl
  <2> QED
    BY <1>9, <2>2 DEF Ioctl
<1>10. ASSUME NEW t \in Threads, IoctlVcpu(t) PROVE TypeOK' /\ HasState'
  <2>1. thr' \in [Threads -> Locals] /\ HasState'
    BY SMTT(30), <1>10, Fields DEF Locals, IoctlVcpu
  <2> QED
    BY <1>10, <2>1 DEF IoctlVcpu
<1>11. ASSUME NEW t \in Threads, IoctlLock(t) PROVE TypeOK' /\ HasState'
  <2>1. thr' \in [Threads -> Locals] /\ HasState'
    BY SMTT(30), <1>11, Fields DEF Locals, IoctlLock
  <2> QED
    BY <1>11, <2>1 DEF IoctlLock, Faults
<1>12. ASSUME NEW t \in Threads, IoctlBody(t) PROVE TypeOK' /\ HasState'
  <2>1. CASE CreateVm(t)
    <3>1. PICK v \in Vcpus :
            /\ vc' = [vc EXCEPT ![v] = "new"]
            /\ st' = [st EXCEPT ![thr[t].state].vcpu = v]
            /\ thr' = [thr EXCEPT ![t].vcpu = v, ![t].pc = "ioctl_unlock"]
      BY Zenon, <2>1 DEF CreateVm
    <3>2. thr' \in [Threads -> Locals] /\ HasState'
      BY SMTT(30), <1>12, <3>1, Fields DEF Locals, IoctlBody
    <3>3. st' \in [States -> StateRecs]
      BY <1>12, <3>1, Fields, Store DEF IoctlBody
    <3> QED
      BY <1>12, <3>1, <3>2, <3>3 DEF IoctlBody
  <2>2. CASE ~CreateVm(t)
    <3>1. thr' = [thr EXCEPT ![t].pc = "ioctl_unlock"] /\ UNCHANGED st
      BY <1>12, <2>2 DEF IoctlBody, MmapVcpu
    <3>2. thr' \in [Threads -> Locals] /\ HasState'
      BY SMTT(30), <1>12, <3>1 DEF Locals, IoctlBody
    <3> QED
      BY <1>12, <2>2, <3>1, <3>2 DEF IoctlBody, MmapVcpu
  <2> QED
    BY <2>1, <2>2
<1>13. ASSUME NEW t \in Threads, IoctlUnlock(t) PROVE TypeOK' /\ HasState'
  <2>1. panic' \in {"no"} \cup Faults
    BY Zenon, <1>13 DEF IoctlUnlock, Faults
  <2> QED
    BY <1>13, <2>1 DEF IoctlUnlock
<1>14. ASSUME UNCHANGED vars PROVE TypeOK' /\ HasState'
  BY <1>14 DEF vars
<1> QED
  BY <1>1, <1>2, <1>3, <1>4, <1>5, <1>6, <1>7, <1>8, <1>9, <1>10, <1>11, <1>12, <1>13,
     <1>14, <1>7b DEF Next, Halted

\* The invariant holds at first ...
LEMMA InitIInv == Init => IInv
<1> SUFFICES ASSUME Init PROVE IInv
  OBVIOUS
<1>1. \A t \in Threads : thr[t].pc = "user"
  BY IdleType DEF Init
<1> QED
  BY <1>1, InitTyped
     DEF Init, Reg!Init, IInv, CloseHeld, FreeUnregistered, RegisteredLive, NoDoubleFree

\* A step that is none of kvm_dev_close, and registers no state.
Aside ==
    /\ UNCHANGED <<reg, stateLock>>
    /\ \A s \in States : st'[s].live = st[s].live
    /\ \A u \in Threads :
          \/ thr'[u].pc = thr[u].pc /\ thr'[u].state = thr[u].state
          \/ thr[u].pc \notin CloseLabels /\ thr'[u].pc \notin CloseLabels

\* The steps that leave the list and the closes alone.
LEMMA AsideSteps ==
  ASSUME TypeOK, HasState, NEW t \in Threads,
         \/ OpenLoad(t) \/ OpenStore(t) \/ OpenInit(t)
         \/ \E d \in Threads, cmd \in Cmds : Ioctl(t, d, cmd)
         \/ IoctlVcpu(t) \/ IoctlLock(t) \/ IoctlBody(t) \/ IoctlUnlock(t)
         \/ UNCHANGED vars
  PROVE  Aside
<1> USE Fields DEF TypeOK, HasState, At, Goto, Return, Panic, CloseLabels, Aside
<1>1. CASE OpenLoad(t)
  BY SMTT(30), <1>1 DEF OpenLoad, Locals
<1>2. CASE OpenStore(t)
  BY SMTT(30), <1>2 DEF OpenStore, Locals, StateRecs
<1>3. CASE OpenInit(t)
  BY SMTT(30), <1>3, IdleType DEF OpenInit, StateRecs
<1>4. ASSUME NEW d \in Threads, NEW cmd \in Cmds, Ioctl(t, d, cmd) PROVE Aside
  <2>1. PICK s \in States : s = reg[ProcOf[t]]
    BY Zenon, <1>4, DeviceConstants DEF Ioctl
  <2>2. Local("ioctl_vcpu", s, d, cmd).pc = "ioctl_vcpu"
    BY DEF Local
  <2> QED
    BY <1>4, <2>1, <2>2 DEF Ioctl
<1>5. CASE IoctlVcpu(t)
  BY SMTT(30), <1>5 DEF IoctlVcpu, Locals
<1>6. CASE IoctlLock(t)
  BY SMTT(30), <1>6 DEF IoctlLock, Locals
<1>7. CASE IoctlBody(t)
  <2>1. CASE CreateVm(t)
    <3>1. PICK v \in Vcpus :
            /\ st' = [st EXCEPT ![thr[t].state].vcpu = v]
            /\ thr' = [thr EXCEPT ![t].vcpu = v, ![t].pc = "ioctl_unlock"]
      BY Zenon, <2>1 DEF CreateVm
    <3>2. \A s \in States : st'[s].live = st[s].live
      BY <1>7, <3>1 DEF IoctlBody, StateRecs
    <3>3. \A u \in Threads : thr'[u].pc = IF u = t THEN "ioctl_unlock" ELSE thr[u].pc
      BY SMTT(30), <3>1 DEF Locals
    <3>4. \A u \in Threads : u # t => thr'[u] = thr[u]
      BY <3>1
    <3> QED
      BY <1>7, <3>2, <3>3, <3>4 DEF IoctlBody
  <2>2. CASE ~CreateVm(t)
    BY SMTT(30), <1>7, <2>2 DEF IoctlBody, MmapVcpu, Locals
  <2> QED
    BY <2>1, <2>2
<1>8. CASE IoctlUnlock(t)
  BY <1>8, IdleType DEF IoctlUnlock
<1>9. CASE UNCHANGED vars
  BY <1>9 DEF vars
<1> QED
  BY <1>1, <1>2, <1>3, <1>4, <1>5, <1>6, <1>7, <1>8, <1>9

\* ... and every step keeps it: the list changes under state_lock, and only the thread
\* that took a state from the list goes on to free it.
LEMMA NextIInv == IInv /\ [Next]_vars => IInv'
<1> SUFFICES ASSUME IInv, [Next]_vars
             PROVE  CloseHeld' /\ FreeUnregistered' /\ RegisteredLive' /\ NoDoubleFree'
  BY NextTyped DEF IInv
<1>0. TypeOK /\ HasState /\ NULL \notin States /\ \A t \in Threads : ProcOf[t] \in Procs
  BY DeviceConstants DEF IInv
<1> USE DEF IInv, CloseHeld, FreeUnregistered, RegisteredLive, NoDoubleFree
<1>1. ASSUME NEW t \in Threads, Open(t)
      PROVE  CloseHeld' /\ FreeUnregistered' /\ RegisteredLive' /\ NoDoubleFree'
  <2>1. PICK s \in States :
          /\ thr' = [thr EXCEPT ![t] = Local("open_load", s, NULL, "system")]
          /\ \/ s = reg[ProcOf[t]] /\ UNCHANGED <<reg, st>>
             \/ /\ ~st[s].live /\ reg[ProcOf[t]] = NULL
                /\ reg' = [reg EXCEPT ![ProcOf[t]] = s] /\ st' = [st EXCEPT ![s] = Fresh]
    BY SMTT(30), <1>0, <1>1 DEF Open, TypeOK, Reg!Register
  <2>2. Local("open_load", s, NULL, "system").pc = "open_load"
    BY SMTT(30), LocalType DEF Cmds, OpenLabels
  <2>3. \A u \in Threads : thr'[u].pc \in CloseLabels => u # t /\ thr'[u] = thr[u]
    BY <1>0, <2>1, <2>2 DEF TypeOK, CloseLabels
  <2>4. UNCHANGED stateLock /\ stateLock = NULL /\ NULL \notin Threads
    BY <1>1, DeviceConstants DEF Open
  <2>5. CloseHeld'
    BY SMTT(30), <2>3, <2>4 DEF CloseLabels
  <2>6. CASE UNCHANGED <<reg, st>>
    BY SMTT(30), <2>3, <2>5, <2>6 DEF CloseLabels
  <2>7. CASE /\ ~st[s].live /\ reg[ProcOf[t]] = NULL
             /\ reg' = [reg EXCEPT ![ProcOf[t]] = s] /\ st' = [st EXCEPT ![s] = Fresh]
    <3>1. \A r \in States : st'[r].live <=> (st[r].live \/ r = s)
      BY SMTT(30), <1>0, <2>7, StateType DEF TypeOK
    <3>2. \A p \in Procs : reg[p] # s /\ reg'[p] = IF p = ProcOf[t] THEN s ELSE reg[p]
      <4>1. \A p \in Procs : reg[p] # s
        BY SMTT(30), <1>0, <2>7
      <4>2. \A p \in Procs : reg'[p] = IF p = ProcOf[t] THEN s ELSE reg[p]
        BY SMTT(30), <1>0, <2>7 DEF TypeOK
      <4> QED
        BY <4>1, <4>2
    <3>3. \A u \in Threads : thr'[u].pc = "close_free" =>
                thr[u].pc = "close_free" /\ thr'[u].state = thr[u].state /\ thr[u].state # s
      BY SMTT(30), <2>3, <2>7 DEF CloseLabels
    <3>4. FreeUnregistered'
      BY SMTT(30), <3>2, <3>3
    <3>5. RegisteredLive'
      BY SMTT(30), <1>0, <3>1, <3>2 DEF TypeOK
    <3>6. NoDoubleFree'
      BY SMTT(30), <1>0, <3>1, <3>3, Fields
    <3> QED
      BY <2>5, <3>4, <3>5, <3>6
  <2> QED
    BY <2>1, <2>6, <2>7
<1>2. ASSUME NEW t \in Threads, NEW d \in Threads, Close(t, d)
      PROVE  CloseHeld' /\ FreeUnregistered' /\ RegisteredLive' /\ NoDoubleFree'
  <2>1. CASE reg[ProcOf[t]] = NULL
    BY SMTT(30), <1>2, <2>1 DEF Close, Panic
  <2>2. CASE reg[ProcOf[t]] # NULL
    <3>1. PICK s \in States : s = reg[ProcOf[t]]
      BY SMTT(30), <1>0, <2>2 DEF TypeOK
    <3>2. LET l == Local("close_load", s, NULL, "system")
          IN  l.pc = "close_load" /\ l.state = s
      BY SMTT(30), LocalType DEF Cmds, CloseLabels
    <3>3. /\ stateLock = NULL /\ stateLock' = t /\ UNCHANGED <<reg, st>>
          /\ thr' = [thr EXCEPT ![t] = Local("close_load", s, NULL, "system")]
      BY <1>2, <2>2, <3>1 DEF Close
    <3>4. \A u \in Threads : thr[u].pc \notin {"close_load", "close_store", "close_test"}
      BY SMTT(30), <3>3, DeviceConstants
    <3>5. \A u \in Threads : \/ u # t /\ thr'[u] = thr[u]
                             \/ u = t /\ thr'[u].pc = "close_load" /\ thr'[u].state = s
      BY <1>0, <3>2, <3>3 DEF TypeOK
    <3> QED
      BY SMTT(30), <3>1, <3>3, <3>4, <3>5
  <2> QED
    BY <2>1, <2>2
<1>3. ASSUME NEW t \in Threads, CloseLoad(t)
      PROVE  CloseHeld' /\ FreeUnregistered' /\ RegisteredLive' /\ NoDoubleFree'
  <2>1. UNCHANGED <<reg, st, stateLock>> /\ thr[t].pc = "close_load"
    BY <1>3 DEF CloseLoad, At
  <2>2. \A u \in Threads :
          /\ thr'[u].state = thr[u].state
          /\ thr'[u].pc = IF u = t THEN "close_store" ELSE thr[u].pc
    BY SMTT(30), <1>0, <1>3 DEF TypeOK, CloseLoad, Locals
  <2> QED
    BY SMTT(30), <2>1, <2>2
<1>3b. ASSUME NEW t \in Threads, CloseStore(t)
      PROVE  CloseHeld' /\ FreeUnregistered' /\ RegisteredLive' /\ NoDoubleFree'
  <2>1. UNCHANGED <<reg, stateLock>> /\ thr[t].pc = "close_store" /\ thr[t].state \in States
    BY <1>0, <1>3b, Fields DEF CloseStore, At
  <2>2. \A u \in Threads :
          /\ thr'[u].state = thr[u].state
          /\ thr'[u].pc = IF u = t THEN "close_test" ELSE thr[u].pc
    BY SMTT(30), <1>0, <1>3b DEF TypeOK, CloseStore, Goto, Locals
  <2>3. \A r \in States : st'[r].live = st[r].live
    BY SMTT(30), <1>0, <1>3b, <2>1 DEF TypeOK, CloseStore, StateRecs
  <2>4. CloseHeld' /\ FreeUnregistered'
    BY SMTT(30), <2>1, <2>2
  <2>5. RegisteredLive'
    BY SMTT(30), <1>0, <2>1, <2>3 DEF TypeOK
  <2>6. NoDoubleFree'
    BY SMTT(30), <1>0, <2>1, <2>2, <2>3, Fields
  <2> QED
    BY <2>4, <2>5, <2>6
<1>4. ASSUME NEW t \in Threads, CloseTest(t)
      PROVE  CloseHeld' /\ FreeUnregistered' /\ RegisteredLive' /\ NoDoubleFree'
  <2>1. PICK s \in States : s = thr[t].state /\ s = reg[ProcOf[t]] /\ stateLock = t
    BY <1>0, <1>4, Fields DEF CloseTest, At
  <2>2. \A r \in States : st'[r].live = st[r].live
    BY <1>4 DEF CloseTest
  <2>3. \A u \in Threads : u # t => thr[u].pc \notin {"close_load", "close_store", "close_test"}
    BY <2>1
  <2>4. CASE reg' = reg /\ thr' = [thr EXCEPT ![t] = Idle]
    <3>1. \A u \in Threads : \/ u # t /\ thr'[u] = thr[u]
                             \/ u = t /\ thr'[u].pc = "user"
      BY SMTT(30), <1>0, <2>4, IdleType DEF TypeOK
    <3> QED
      BY SMTT(30), <1>0, <2>2, <2>3, <2>4, <3>1, Fields DEF TypeOK
  <2>5. CASE /\ reg' = [reg EXCEPT ![ProcOf[t]] = NULL]
             /\ thr' = [thr EXCEPT ![t].pc = "close_free"]
    <3>1. \A u \in Threads : \/ u # t /\ thr'[u] = thr[u]
                             \/ u = t /\ thr'[u].pc = "close_free" /\ thr'[u].state = s
      <4>1. thr'[t].pc = "close_free" /\ thr'[t].state = s
        BY <1>0, <2>1, <2>5, Fields DEF TypeOK, Locals
      <4> QED
        BY <1>0, <2>5, <4>1 DEF TypeOK
    <3>2. \A p \in Procs : reg'[p] = IF p = ProcOf[t] THEN NULL ELSE reg[p]
      BY SMTT(30), <1>0, <2>5 DEF TypeOK
    <3>3. CloseHeld'
      BY <2>3, <3>1
    <3>4. FreeUnregistered'
      BY SMTT(30), <1>0, <2>1, <3>1, <3>2, Fields
    <3>5. RegisteredLive'
      BY SMTT(30), <1>0, <2>2, <3>2 DEF TypeOK
    <3>6. NoDoubleFree'
      BY SMTT(30), <1>0, <2>1, <2>2, <3>1, Fields
    <3> QED
      BY <3>3, <3>4, <3>5, <3>6
  <2> QED
    BY <1>4, <2>4, <2>5 DEF CloseTest, Goto, Return, Reg!Unregister
<1>5. ASSUME NEW t \in Threads, CloseFree(t)
      PROVE  CloseHeld' /\ FreeUnregistered' /\ RegisteredLive' /\ NoDoubleFree'
  <2>1. CASE panic' # "no"
    BY <1>5, <2>1 DEF CloseFree, Panic, At
  <2>2. CASE panic' = "no"
    <3>1. PICK s \in States : s = thr[t].state /\ thr[t].pc = "close_free"
      BY <1>0, <1>5, Fields DEF CloseFree, At
    <3>2. /\ UNCHANGED <<reg, stateLock>>
          /\ st' = [st EXCEPT ![s] = Zeroed]
          /\ thr' = [u \in Threads |->
                       IF u = t THEN Idle
                       ELSE [thr[u] EXCEPT !.dangling = @ \/ thr[u].state = s]]
      BY SMTT(30), <1>5, <2>2, <3>1 DEF CloseFree, Panic
    <3>3. \A u \in Threads :
            \/ u # t /\ thr'[u].pc = thr[u].pc /\ thr'[u].state = thr[u].state
            \/ u = t /\ thr'[u].pc = "user"
      BY SMTT(30), <1>0, <3>2, IdleType, Fields, Dangle
    <3>4. \A r \in States : r # s => st'[r] = st[r]
      BY SMTT(30), <1>0, <3>2 DEF TypeOK
    <3>5. RegisteredLive'
      BY SMTT(30), <1>0, <3>1, <3>2, <3>4 DEF TypeOK
    <3>6. NoDoubleFree'
      BY SMTT(30), <1>0, <3>1, <3>3, <3>4, Fields
    <3> QED
      BY SMTT(30), <3>2, <3>3, <3>5, <3>6
  <2> QED
    BY <2>1, <2>2
<1>6. ASSUME Aside
      PROVE  CloseHeld' /\ FreeUnregistered' /\ RegisteredLive' /\ NoDoubleFree'
  <2>1. CloseHeld' /\ FreeUnregistered'
    BY SMTT(30), <1>6 DEF Aside, CloseLabels
  <2>2. RegisteredLive'
    BY SMTT(30), <1>0, <1>6 DEF Aside, TypeOK
  <2>3. NoDoubleFree'
    BY SMTT(30), <1>0, <1>6, Fields DEF Aside, CloseLabels
  <2> QED
    BY <2>1, <2>2, <2>3
<1>7. CASE UNCHANGED vars
  BY <1>7 DEF vars
<1> QED
  BY Zenon, <1>0, <1>1, <1>2, <1>3, <1>3b, <1>4, <1>5, <1>6, <1>7, AsideSteps DEF Next, Halted

\* Every variable of the device keeps its type, whatever the clients do.
THEOREM DeviceTypes == Spec => []TypeOK
<1>1. IInv => TypeOK
  BY DEF IInv
<1> QED
  BY <1>1, InitIInv, NextIInv, PTL DEF Spec

\* For any number of threads, processes and states, and whatever the clients do,
\* state_find never returns freed memory or the state of another process: kvm_dev_open
\* and kvm_dev_close change the list under state_lock only.
THEOREM RegisteredIsLive == Spec => []RegisteredLive
<1>1. IInv => RegisteredLive
  BY DEF IInv
<1> QED
  BY <1>1, InitIInv, NextIInv, PTL DEF Spec

\* Likewise kvm_dev_close frees no state twice: of the threads that reach IOFree for a
\* state, one has taken it from the list, and it is still allocated.
THEOREM FreedOnce == Spec => []NoDoubleFree
<1>1. IInv => NoDoubleFree
  BY DEF IInv
<1> QED
  BY <1>1, InitIInv, NextIInv, PTL DEF Spec
-----------------------------------------------------------------------------
(* What the steps of kvm_dev_open and kvm_dev_close do *)

\* kvm_dev_open registers the free state s for the process of t.
Registers(t, s) ==
    /\ ~st[s].live /\ reg[ProcOf[t]] = NULL
    /\ reg' = [reg EXCEPT ![ProcOf[t]] = s] /\ st' = [st EXCEPT ![s] = Fresh]

\* The start of kvm_dev_open, on state s.
OpenFound(t, s) ==
    /\ thr[t].pc = "user" /\ UNCHANGED <<vc, fds, panic>>
    /\ thr'[t].pc = "open_load" /\ thr'[t].state = s /\ thr'[t].cmd = "system"
    /\ thr'[t].dangling = FALSE
    /\ \A u \in Threads : u # t => thr'[u] = thr[u]
    /\ (s = reg[ProcOf[t]] /\ UNCHANGED <<reg, st>>) \/ Registers(t, s)

\* kvm_dev_open finds the state of the process or registers one.
LEMMA OpenFinds ==
  ASSUME TypeOK, NEW t \in Threads, Open(t) PROVE \E s \in States : OpenFound(t, s)
<1>0. thr \in [Threads -> Locals] /\ reg \in [Procs -> States \cup {NULL}] /\ ProcOf[t] \in Procs
  BY DeviceConstants DEF TypeOK
<1>1. PICK s \in States :
        /\ thr' = [thr EXCEPT ![t] = Local("open_load", s, NULL, "system")]
        /\ (s = reg[ProcOf[t]] /\ UNCHANGED <<reg, st>>) \/ Registers(t, s)
  BY <1>0 DEF Open, Reg!Register, Registers
<1>2. thr[t].pc = "user" /\ UNCHANGED <<vc, fds, panic>>
  BY DEF Open, At
<1> DEFINE l == Local("open_load", s, NULL, "system")
<1>3. l.pc = "open_load" /\ l.state = s /\ l.cmd = "system" /\ l.dangling = FALSE
  BY DEF Local
<1> HIDE DEF l
<1>4. thr'[t] = l /\ \A u \in Threads : u # t => thr'[u] = thr[u]
  BY <1>0, <1>1 DEF l
<1> QED
  BY <1>1, <1>2, <1>3, <1>4 DEF OpenFound

\* What a store to a field of state s leaves alone.
StoresTo(s) ==
    /\ \A r \in States : st'[r].vcpu = st[r].vcpu /\ st'[r].live = st[r].live
    /\ \A r \in States : r # s => st'[r] = st[r]

\* A step on the count or the locks of the state of t.
StateStep(t) ==
    /\ UNCHANGED <<vc, panic>> /\ thr[t].state \in States
    /\ thr'[t].cmd \in {thr[t].cmd, "system"}
    /\ \A u \in Threads : u # t => thr'[u] = thr[u]
    /\ StoresTo(thr[t].state)

\* The rest of kvm_dev_open ...
OpenGoesOn(t) ==
    /\ StateStep(t) /\ UNCHANGED reg /\ fds' \subseteq fds \cup {t} /\ fds \subseteq fds'
    /\ thr[t].pc \in OpenLabels /\ thr'[t].pc \in {"user"} \cup OpenLabels
    /\ ~OpenInit(t) => UNCHANGED fds /\ \A r \in States : st'[r].lock = st[r].lock

\* ... and of kvm_dev_close, before anything is freed.
CloseGoesOn(t) ==
    /\ StateStep(t) /\ UNCHANGED fds /\ thr[t].pc \in CloseLabels \ {"close_free"}
    /\ \A r \in States : st'[r].lock = st[r].lock
    /\ \/ UNCHANGED reg /\ thr'[t].pc = "user"
       \/ /\ UNCHANGED reg /\ thr'[t].pc \in {"close_store", "close_test"}
          /\ thr'[t].state = thr[t].state
       \/ /\ reg' = [reg EXCEPT ![ProcOf[t]] = NULL]
          /\ thr'[t].pc = "close_free" /\ thr'[t].state = thr[t].state

\* What a jump does to the local variables of the threads.
GoesTo(t, l) ==
    /\ thr'[t].pc = l /\ thr'[t].state = thr[t].state /\ thr'[t].cmd = thr[t].cmd
    /\ \A u \in Threads : u # t => thr'[u] = thr[u]

\* A load of the count, ...
LEMMA LoadGoes ==
  ASSUME TypeOK, NEW t \in Threads, NEW n, NEW l, thr' = [thr EXCEPT ![t].tmp = n, ![t].pc = l]
  PROVE  GoesTo(t, l)
<1>0. thr \in [Threads -> Locals]
  BY DEF TypeOK
<1> QED
  BY SMTT(30), <1>0 DEF Locals, GoesTo

\* ... a jump ...
LEMMA GotoGoes ==
  ASSUME TypeOK, NEW t \in Threads, NEW l, Goto(t, l)
  PROVE  GoesTo(t, l)
<1>0. thr \in [Threads -> Locals]
  BY DEF TypeOK
<1> QED
  BY SMTT(30), <1>0 DEF Goto, Locals, GoesTo

\* ... and a return.
LEMMA ReturnGoes ==
  ASSUME TypeOK, NEW t \in Threads, Return(t)
  PROVE  /\ thr'[t].pc = "user" /\ thr'[t].cmd = "system"
         /\ \A u \in Threads : u # t => thr'[u] = thr[u]
<1>0. thr \in [Threads -> Locals]
  BY DEF TypeOK
<1> QED
  BY <1>0 DEF Return, Idle, Local

\* A store to the count ...
LEMMA CountStores ==
  ASSUME TypeOK, NEW s \in States, NEW n, st' = [st EXCEPT ![s].count = n]
  PROVE  StoresTo(s) /\ \A r \in States : st'[r].lock = st[r].lock
<1>0. st \in [States -> StateRecs]
  BY DEF TypeOK
<1> QED
  BY SMTT(30), <1>0 DEF StateRecs, StoresTo

\* ... and to the lock.
LEMMA LockStores ==
  ASSUME TypeOK, NEW s \in States, NEW n, st' = [st EXCEPT ![s].lock = n]
  PROVE  StoresTo(s)
<1>0. st \in [States -> StateRecs]
  BY DEF TypeOK
<1> QED
  BY <1>0 DEF StateRecs, StoresTo

\* open_count++ and the locks.
LEMMA OpenContinues ==
  ASSUME TypeOK, HasState, NEW t \in Threads, OpenLoad(t) \/ OpenStore(t) \/ OpenInit(t)
  PROVE  OpenGoesOn(t)
<1>1. CASE OpenLoad(t)
  <2>1. /\ thr[t].pc = "open_load" /\ UNCHANGED <<reg, st, vc, fds, panic>>
    BY <1>1 DEF OpenLoad, At
  <2>2. GoesTo(t, "open_store")
    BY Zenon, <1>1, LoadGoes DEF OpenLoad
  <2>3. thr[t].state \in States
    BY <2>1, InHandler
  <2>4. StateStep(t)
    BY <2>1, <2>2, <2>3 DEF StateStep, GoesTo, StoresTo
  <2> QED
    BY <2>1, <2>2, <2>4 DEF OpenGoesOn, OpenLabels, GoesTo
<1>2. CASE OpenStore(t)
  <2>1. /\ thr[t].pc = "open_store" /\ UNCHANGED <<reg, vc, fds, panic>>
        /\ st' = [st EXCEPT ![thr[t].state].count = thr[t].tmp + 1] /\ Goto(t, "open_init")
    BY <1>2 DEF OpenStore, At
  <2>2. GoesTo(t, "open_init")
    BY <2>1, GotoGoes
  <2>3. thr[t].state \in States
    BY <2>1, InHandler
  <2>4. StoresTo(thr[t].state) /\ \A r \in States : st'[r].lock = st[r].lock
    BY <2>1, <2>3, CountStores
  <2>5. StateStep(t)
    BY <2>1, <2>2, <2>3, <2>4 DEF StateStep, GoesTo
  <2> QED
    BY <2>1, <2>2, <2>4, <2>5 DEF OpenGoesOn, OpenLabels, GoesTo
<1>3. CASE OpenInit(t)
  <2>1. /\ thr[t].pc = "open_init" /\ UNCHANGED <<reg, vc, panic>>
        /\ fds' = fds \cup {t} /\ Return(t)
        /\ \E n : st' = [st EXCEPT ![thr[t].state].lock = n]
    BY Zenon, <1>3 DEF OpenInit, At
  <2>2. /\ thr'[t].pc = "user" /\ thr'[t].cmd = "system"
        /\ \A u \in Threads : u # t => thr'[u] = thr[u]
    BY <2>1, ReturnGoes
  <2>3. thr[t].state \in States
    BY <2>1, InHandler
  <2>4. StoresTo(thr[t].state)
    BY <2>1, <2>3, LockStores
  <2>5. StateStep(t)
    BY <2>1, <2>2, <2>3, <2>4 DEF StateStep
  <2> QED
    BY <1>3, <2>1, <2>2, <2>5 DEF OpenGoesOn, OpenLabels
<1> QED
  BY <1>1, <1>2, <1>3

\* open_count-- and the list.
LEMMA CloseContinues ==
  ASSUME TypeOK, HasState, NEW t \in Threads, CloseLoad(t) \/ CloseStore(t) \/ CloseTest(t)
  PROVE  CloseGoesOn(t)
<1>1. CASE CloseLoad(t)
  <2>1. /\ thr[t].pc = "close_load" /\ UNCHANGED <<reg, st, vc, fds, panic>>
    BY <1>1 DEF CloseLoad, At
  <2>2. GoesTo(t, "close_store")
    BY Zenon, <1>1, LoadGoes DEF CloseLoad
  <2>3. thr[t].state \in States
    BY <2>1, InHandler
  <2>4. StateStep(t)
    BY <2>1, <2>2, <2>3 DEF StateStep, GoesTo, StoresTo
  <2> QED
    BY <2>1, <2>2, <2>4 DEF CloseGoesOn, GoesTo, CloseLabels
<1>2. CASE CloseStore(t)
  <2>1. /\ thr[t].pc = "close_store" /\ UNCHANGED <<reg, vc, fds, panic>>
        /\ st' = [st EXCEPT ![thr[t].state].count = thr[t].tmp - 1] /\ Goto(t, "close_test")
    BY <1>2 DEF CloseStore, At
  <2>2. GoesTo(t, "close_test")
    BY <2>1, GotoGoes
  <2>3. thr[t].state \in States
    BY <2>1, InHandler
  <2>4. StoresTo(thr[t].state) /\ \A r \in States : st'[r].lock = st[r].lock
    BY <2>1, <2>3, CountStores
  <2>5. StateStep(t)
    BY <2>1, <2>2, <2>3, <2>4 DEF StateStep, GoesTo
  <2> QED
    BY <2>1, <2>2, <2>4, <2>5 DEF CloseGoesOn, GoesTo, CloseLabels
<1>3. CASE CloseTest(t)
  <2>1. /\ thr[t].pc = "close_test" /\ UNCHANGED <<st, vc, fds, panic>>
        /\ \/ reg' = [reg EXCEPT ![ProcOf[t]] = NULL] /\ Goto(t, "close_free")
           \/ UNCHANGED reg /\ Return(t)
    BY <1>3 DEF CloseTest, At, Reg!Unregister
  <2>2. /\ thr'[t].cmd \in {thr[t].cmd, "system"}
        /\ \A u \in Threads : u # t => thr'[u] = thr[u]
        /\ \/ UNCHANGED reg /\ thr'[t].pc = "user"
           \/ /\ reg' = [reg EXCEPT ![ProcOf[t]] = NULL]
              /\ thr'[t].pc = "close_free" /\ thr'[t].state = thr[t].state
    BY SMTT(30), <2>1, GotoGoes, ReturnGoes DEF GoesTo
  <2>3. thr[t].state \in States
    BY <2>1, InHandler
  <2>4. StateStep(t)
    BY <2>1, <2>2, <2>3 DEF StateStep, StoresTo
  <2> QED
    BY <2>1, <2>2, <2>4 DEF CloseGoesOn, CloseLabels
<1> QED
  BY <1>1, <1>2, <1>3
=============================================================================
