----------------------------- MODULE VmcsProofs -----------------------------
(* Proofs about the VMCS.  First, for any threads, CPUs and vcpus, of the     *)
(* invariants of VmcsOwnership: the inductive invariant ties three things     *)
(* together, the label of a thread, the locks it holds, and the state of the  *)
(* CPU it is on.  Then, for any content of the registers, of what the         *)
(* operators of Vmcs and WorldSwitch write to a VMCS and read back.           *)
EXTENDS VmcsOwnership, WorldSwitch, TLAPS

USE ZenonT(30)

\* Labels between lck_spin_lock and lck_spin_unlock.
SpinLabels == {"load", "flag1", "access", "host", "launch", "guest", "handle",
               "clear", "unlock"}
\* Labels between vmcs_load and vmcs_clear.
LoadedLabels == {"flag1", "access", "host", "launch", "guest", "handle", "clear"}
\* Labels between cli and sti.
CliLabels == {"host", "launch", "guest", "handle", "clear", "unlock", "flag0", "sti"}

\* A CPU runs one thread and a thread runs on one CPU.
OneCpuEach ==
    \A c, d \in Cpus : running[c] # None /\ running[c] = running[d] => c = d

\* A thread inside an ioctl holds its process's ioctl_lock.
MutexHeld == \A t \in Threads : pc[t] # "user" => mutex[VmOf[t]] = t

\* The spinlock is held exactly from lck_spin_lock to lck_spin_unlock, by a
\* thread of the vcpu's own process, and its holder is on a CPU.
SpinHeld ==
    /\ \A t \in Threads : pc[t] \in SpinLabels => spin[VmOf[t]] = t
    /\ \A v \in Vms : spin[v] # None => VmOf[spin[v]] = v /\ pc[spin[v]] \in SpinLabels
    /\ \A t \in Threads : pc[t] \in SpinLabels => \E c \in Cpus : running[c] = t

\* On the CPU of a thread that has loaded its VMCS.
CurrentHere ==
    \A t \in Threads, c \in Cpus :
        running[c] = t /\ pc[t] \in LoadedLabels =>
            current[c] = VmOf[t] /\ active[VmOf[t]] = {c}

\* Only such a thread leaves its VMCS active, and only from VMLAUNCH to VMCLEAR
\* is it launched.
ActiveOnlyLoaded ==
    \A v \in Vms :
        /\ active[v] # {} => spin[v] # None /\ pc[spin[v]] \in LoadedLabels
        /\ launched[v] => spin[v] # None /\ pc[spin[v]] \in {"guest", "handle", "clear"}

HostHere ==
    \A t \in Threads, c \in Cpus :
        running[c] = t /\ pc[t] \in {"launch", "guest"} => host[VmOf[t]] = c

\* Interrupts are off only on a CPU whose thread is in KVM_RUN between cli and sti.
CliOnlyRunning ==
    \A c \in Cpus :
        ~intr[c] => running[c] # None /\ pc[running[c]] \in CliLabels
                                      /\ op[running[c]] = "run"

IInv ==
    /\ TypeOK
    /\ OneCpuEach
    /\ MutexHeld
    /\ SpinHeld
    /\ CurrentHere
    /\ ActiveOnlyLoaded
    /\ HostHere
    /\ CliOnlyRunning
    /\ LoadedWhileAccessed

\* Before the first ioctl no VMCS is active, no lock held and every thread in user space.
LEMMA InitIInv == Init => IInv
  BY SMTT(30), VmcsConstants
  DEF Init, IInv, TypeOK, OneCpuEach, MutexHeld, SpinHeld, CurrentHere,
      ActiveOnlyLoaded, HostHere, CliOnlyRunning, LoadedWhileAccessed,
      SpinLabels, LoadedLabels, CliLabels, Ops, Labels

\* Every step of LOAD_VMCS, the section, kvm_run and RELEASE_VMCS, of the scheduler and of
\* the locks keeps the invariant.
LEMMA NextIInv == IInv /\ [Next]_vars => IInv'
<1> SUFFICES ASSUME IInv, [Next]_vars PROVE IInv'
  OBVIOUS
<1> USE VmcsConstants
        DEF IInv, TypeOK, OneCpuEach, MutexHeld, SpinHeld, CurrentHere,
            ActiveOnlyLoaded, HostHere, CliOnlyRunning, LoadedWhileAccessed,
            SpinLabels, LoadedLabels, CliLabels, Ops, Labels,
            cpuVars, vmxVars, kvmVars, At, Goto
<1>1. ASSUME NEW c \in Cpus, Preempt(c) PROVE IInv'
  BY SMTT(30), <1>1 DEF Preempt, Preemptible
<1>2. ASSUME NEW t \in Threads, NEW c \in Cpus, Dispatch(t, c) PROVE IInv'
  BY SMTT(30), <1>2 DEF Dispatch
<1>3. ASSUME NEW t \in Threads, NEW c \in Cpus, NEW o \in Ops, LockIoctl(t, c, o)
      PROVE IInv'
  BY SMTT(30), <1>3 DEF LockIoctl
<1>4. ASSUME NEW t \in Threads, NEW c \in Cpus, CreateVm(t, c) PROVE IInv'
  BY SMTT(30), <1>4 DEF CreateVm, Vmclear
<1>5. ASSUME NEW t \in Threads, NEW c \in Cpus, LoadSpin(t, c) PROVE IInv'
  BY SMTT(30), <1>5 DEF LoadSpin
<1>6. ASSUME NEW t \in Threads, NEW c \in Cpus, LoadVmcs(t, c) PROVE IInv'
  BY SMTT(30), <1>6 DEF LoadVmcs, Vmptrld
<1>7. ASSUME NEW t \in Threads, NEW c \in Cpus, LoadFlag(t, c) PROVE IInv'
  BY SMTT(30), <1>7 DEF LoadFlag
<1>8. ASSUME NEW t \in Threads, NEW c \in Cpus, Access(t, c) PROVE IInv'
  <2>1. CASE op[t] # "run"
    <3>1. /\ pc' = [pc EXCEPT ![t] = "clear"]
          /\ UNCHANGED <<running, intr, current, active, launched, host, created,
                         mutex, spin, loaded, op>>
          /\ running[c] = t /\ pc[t] = "access"
      BY <1>8, <2>1 DEF Access
    <3> QED
      BY SMTT(30), <3>1, <2>1
  <2>2. CASE op[t] = "run"
    <3>1. /\ pc' = [pc EXCEPT ![t] = "host"]
          /\ intr' = [intr EXCEPT ![c] = FALSE]
          /\ UNCHANGED <<running, current, active, launched, host, created,
                         mutex, spin, loaded, op>>
          /\ running[c] = t /\ pc[t] = "access"
      BY <1>8, <2>2 DEF Access
    <3> QED
      BY SMTT(30), <3>1, <2>2
  <2> QED
    BY <2>1, <2>2
<1>9. ASSUME NEW t \in Threads, NEW c \in Cpus, InitHostValues(t, c) PROVE IInv'
  BY SMTT(30), <1>9 DEF InitHostValues
<1>10. ASSUME NEW t \in Threads, NEW c \in Cpus, Launch(t, c) PROVE IInv'
  BY SMTT(30), <1>10 DEF Launch
<1>11. ASSUME NEW t \in Threads, NEW c \in Cpus, VmExit(t, c) PROVE IInv'
  BY SMTT(30), <1>11 DEF VmExit
<1>12. ASSUME NEW t \in Threads, NEW c \in Cpus, Handle(t, c) PROVE IInv'
  BY SMTT(30), <1>12 DEF Handle
<1>13. ASSUME NEW t \in Threads, NEW c \in Cpus, ReleaseClear(t, c) PROVE IInv'
  BY SMTT(30), <1>13 DEF ReleaseClear, Vmclear
<1>14. ASSUME NEW t \in Threads, NEW c \in Cpus, ReleaseSpin(t, c) PROVE IInv'
  BY SMTT(30), <1>14 DEF ReleaseSpin
<1>15. ASSUME NEW t \in Threads, NEW c \in Cpus, ReleaseFlag(t, c) PROVE IInv'
  BY SMTT(30), <1>15 DEF ReleaseFlag
<1>16. ASSUME NEW t \in Threads, NEW c \in Cpus, Sti(t, c) PROVE IInv'
  BY SMTT(30), <1>16 DEF Sti
<1>17. ASSUME NEW t \in Threads, NEW c \in Cpus, UnlockIoctl(t, c) PROVE IInv'
  BY SMTT(30), <1>17 DEF UnlockIoctl
<1>18. ASSUME UNCHANGED vars PROVE IInv'
  BY SMTT(30), <1>18 DEF vars
<1> HIDE DEF IInv, At, Goto
<1> QED
  BY <1>1, <1>2, <1>3, <1>4, <1>5, <1>6, <1>7, <1>8, <1>9, <1>10, <1>11, <1>12,
     <1>13, <1>14, <1>15, <1>16, <1>17, <1>18 DEF Next, Step

\* The inductive invariant holds in every reachable state.
THEOREM Invariance == Spec => []IInv
  BY InitIInv, NextIInv, PTL DEF Spec

\* Every variable keeps its type, for any threads, CPUs and vcpus.
THEOREM TypeCorrect == Spec => []TypeOK
<1>1. IInv => TypeOK
  BY DEF IInv
<1> QED
  BY Invariance, <1>1, PTL

\* The spinlock does what the comment at main.cpp:99-100 hopes: between
\* vmcs_load and vmcs_clear a thread never leaves its CPU, and its own VMCS is
\* current there and active nowhere else.
THEOREM AccessIsLocal == Spec => []VmcsAccessLocal
<1>1. IInv => VmcsAccessLocal
  BY SMTT(30) DEF IInv, VmcsAccessLocal, SpinHeld, CurrentHere, SpinLabels, LoadedLabels
<1> QED
  BY Invariance, <1>1, PTL

\* Every VM entry of kvm_run, a VMLAUNCH each time, finds a clear VMCS.
THEOREM LaunchIsClear == Spec => []LaunchFromClear
<1>1. IInv => LaunchFromClear
  BY VmcsConstants
  DEF IInv, TypeOK, LaunchFromClear, SpinHeld, ActiveOnlyLoaded, SpinLabels
<1> QED
  BY Invariance, <1>1, PTL

\* A VM exit always finds the host state of the CPU it happens on.
THEOREM HostStateIsLocal == Spec => []HostStateLocal
<1>1. IInv => HostStateLocal
  BY DEF IInv, HostStateLocal, HostHere
<1> QED
  BY Invariance, <1>1, PTL

\* Between two sections a VMCS is clear and active on no CPU.
THEOREM IdleIsInactive == Spec => []IdleVmcsInactive
<1>1. IInv => IdleVmcsInactive
  BY DEF IInv, IdleVmcsInactive, ActiveOnlyLoaded
<1> QED
  BY Invariance, <1>1, PTL

\* No thread sleeps, loops or returns to user space with interrupts disabled.
THEOREM InterruptsAreRestored == Spec => []InterruptsRestored
<1>1. IInv => InterruptsRestored
  BY DEF IInv, InterruptsRestored, CliOnlyRunning, CliLabels
<1> QED
  BY Invariance, <1>1, PTL

\* RELEASE_VMCS resets vmcs_loaded after it has dropped the spinlock, and still every thread
\* that accesses its VMCS finds the flag set: ioctl_lock keeps the next one out.
THEOREM AccessIsLoaded == Spec => []LoadedWhileAccessed
<1>1. IInv => LoadedWhileAccessed
  BY DEF IInv
<1> QED
  BY Invariance, <1>1, PTL
-----------------------------------------------------------------------------

\* A flag of one bit, as a word.
OneBit == SUBSET {0}
\* The attributes of struct kvm_segment, with the width of their bit fields.
Attributes ==
    [type : SUBSET (0 .. 3), dpl : SUBSET (0 .. 1), present : OneBit, db : OneBit,
     s : OneBit, l : OneBit, g : OneBit, avl : OneBit, unusable : OneBit]

\* The bits of a word shifted left, as in the macros of vmx.h that place an attribute.
LEMMA ShlMember ==
    ASSUME NEW x \in SUBSET Nat, NEW k \in Nat, NEW b
    PROVE  b \in Shl(x, k) <=> b \in Nat /\ b >= k /\ b - k \in x
BY SMTT(30) DEF Shl

\* The bits of a word shifted right, as get_desc_base and the descriptors do.
LEMMA ShrMember ==
    ASSUME NEW x \in SUBSET Nat, NEW k \in Nat, NEW b
    PROVE  b \in Shr(x, k) <=> b \in Nat /\ b + k \in x
BY SMTT(30) DEF Shr

\* The bits a conversion to w bits keeps.
LEMMA TruncMember ==
    ASSUME NEW x, NEW w, NEW b
    PROVE  b \in Trunc(x, w) <=> b \in x /\ b < w
BY DEF Trunc

\* Where vmx.h puts the attributes of a usable segment.
BitGiven(a, b) ==
    \/ b \in a.type
    \/ b = 4 /\ a.s # {}
    \/ b \in {5, 6} /\ b - 5 \in a.dpl
    \/ b = 7
    \/ b = 12 /\ a.avl # {}
    \/ b = 13 /\ a.l # {}
    \/ b = 14 /\ a.db # {}
    \/ b = 15 /\ a.g # {}

\* Bit b of the access rights word of a usable segment.
LEMMA AccessRightsBits ==
    ASSUME NEW a \in Attributes, ~(a.unusable # {} \/ a.present = {}), NEW b
    PROVE  b \in vmx_segment_access_rights(a) <=> BitGiven(a, b)
<1>1. /\ a.type \subseteq 0 .. 3 /\ a.dpl \subseteq 0 .. 1 /\ a.present = {0}
      /\ a.s \in {{}, {0}} /\ a.avl \in {{}, {0}} /\ a.l \in {{}, {0}}
      /\ a.db \in {{}, {0}} /\ a.g \in {{}, {0}}
  BY SMTT(30) DEF Attributes, OneBit
<1>2. /\ Trunc(a.type, 4) = a.type /\ Trunc(a.dpl, 2) = a.dpl /\ Trunc(a.present, 1) = a.present
      /\ Trunc(a.s, 1) = a.s /\ Trunc(a.avl, 1) = a.avl /\ Trunc(a.l, 1) = a.l
      /\ Trunc(a.db, 1) = a.db /\ Trunc(a.g, 1) = a.g
  BY <1>1, SMTT(30) DEF Trunc
<1>3. /\ b \in Shl(a.s, 4) <=> b = 4 /\ a.s # {}
      /\ b \in Shl(a.present, 7) <=> b = 7
      /\ b \in Shl(a.avl, 12) <=> b = 12 /\ a.avl # {}
      /\ b \in Shl(a.l, 13) <=> b = 13 /\ a.l # {}
      /\ b \in Shl(a.db, 14) <=> b = 14 /\ a.db # {}
      /\ b \in Shl(a.g, 15) <=> b = 15 /\ a.g # {}
  BY <1>1, SMTT(30) DEF Shl
<1>4. b \in Shl(a.dpl, 5) <=> b \in {5, 6} /\ b - 5 \in a.dpl
  BY <1>1, SMTT(30) DEF Shl
<1>5. vmx_segment_access_rights(a) =
          a.type \cup Shl(a.s, 4) \cup Shl(a.dpl, 5) \cup Shl(a.present, 7) \cup Shl(a.avl, 12)
          \cup Shl(a.l, 13) \cup Shl(a.db, 14) \cup Shl(a.g, 15)
  BY <1>2 DEF vmx_segment_access_rights
<1> QED
  BY <1>3, <1>4, <1>5 DEF BitGiven

\* vmx_segment_access_rights encodes every attribute of struct kvm_segment where the
\* processor looks for it: decoding the word gives the attributes back, a segment that is
\* unusable or not present is marked unusable, no reserved bit is set and the word has 32 bits.
THEOREM SegmentRights ==
    \A a \in Attributes :
        /\ RightsOf(a, vmx_segment_access_rights(a))
        /\ vmx_segment_access_rights(a) \subseteq 0 .. 31
<1> SUFFICES ASSUME NEW a \in Attributes
             PROVE  /\ RightsOf(a, vmx_segment_access_rights(a))
                    /\ vmx_segment_access_rights(a) \subseteq 0 .. 31
  OBVIOUS
<1> DEFINE ar == vmx_segment_access_rights(a)
<1>1. CASE a.unusable # {} \/ a.present = {}
  <2>1. ar = {16}
    BY <1>1 DEF vmx_segment_access_rights
  <2>2. /\ 16 \in ar /\ ar \subseteq 0 .. 31
        /\ ar \cap ((8 .. 11) \cup (17 .. 31)) = {}
    BY <2>1, SMTT(30)
  <2> QED BY <1>1, <2>2 DEF RightsOf, SegmentAr
<1>2. CASE ~(a.unusable # {} \/ a.present = {})
  <2>1. \A b : b \in ar <=> BitGiven(a, b)
    BY <1>2, AccessRightsBits
  <2>2. a.type \subseteq 0 .. 3 /\ a.dpl \subseteq 0 .. 1
    BY DEF Attributes
  <2> HIDE DEF ar
  <2>3. ar \subseteq 0 .. 15
    BY <2>1, <2>2, SMTT(30) DEF BitGiven
  <2>4. /\ 16 \notin ar /\ ar \cap ((8 .. 11) \cup (17 .. 31)) = {} /\ 7 \in ar
        /\ (4 \in ar) = (a.s # {}) /\ (12 \in ar) = (a.avl # {}) /\ (13 \in ar) = (a.l # {})
        /\ (14 \in ar) = (a.db # {}) /\ (15 \in ar) = (a.g # {})
    BY <2>1, <2>2, SMTT(30) DEF BitGiven
  <2>5. ar \cap (0 .. 3) = a.type
    BY <2>1, <2>2, SMTT(30) DEF BitGiven
  <2>6. Trunc(Shr(ar, 5), 2) = a.dpl
    <3>1. ASSUME NEW b PROVE b \in Trunc(Shr(ar, 5), 2) <=> b \in Nat /\ b + 5 \in ar /\ b < 2
      BY <2>3, ShrMember, TruncMember, SMTT(30)
    <3>2. ASSUME NEW b \in Nat, b < 2 PROVE b + 5 \in ar <=> b \in a.dpl
      BY <3>2, <2>1, <2>2, SMTT(30) DEF BitGiven
    <3>3. ASSUME NEW b PROVE b \in a.dpl => b \in Nat /\ b < 2
      BY <2>2, SMTT(30)
    <3> QED BY <3>1, <3>2, <3>3
  <2>7. RightsOf(a, ar)
    BY <1>2, <2>4, <2>5, <2>6 DEF RightsOf, SegmentAr
  <2> QED BY <2>3, <2>7, SMTT(30) DEF ar
<1> QED BY <1>1, <1>2

-----------------------------------------------------------------------------
\* The words of w bits.
Words(w) == SUBSET (0 .. w - 1)
\* A VMCS: a word for each field.
Vmcses == [Encodings -> SUBSET Nat]

\* A conversion to at least its own width leaves a word alone.
LEMMA TruncKeeps ==
    ASSUME NEW w \in Nat, NEW x \in Words(w), NEW k \in Nat, k >= w
    PROVE  Trunc(x, k) = x
<1>1. ASSUME NEW b \in x PROVE b < k
  BY SMTT(30) DEF Words
<1> QED BY <1>1 DEF Trunc

\* A VMCS with one field replaced.
Put(v, f, x) == [v EXCEPT ![f] = x]

\* vmcs_writel, vmcs_write32 and vmcs_write16 of a word that has the width of a writable
\* field put that word in the field and change no other.
LEMMA WriteField ==
    ASSUME NEW v \in Vmcses, NEW f \in Encodings, ~ReadOnly(f),
           NEW w \in Nat, Width(f) = w, NEW x \in Words(w)
    PROVE  /\ Put(v, f, x) \in Vmcses
           /\ vmcs_writel(v, f, x) = Put(v, f, x)
           /\ w = 32 => vmcs_write32(v, f, x) = Put(v, f, x)
           /\ w = 16 => vmcs_write16(v, f, x) = Put(v, f, x)
<1>1. x \in SUBSET Nat
  BY SMTT(30) DEF Words
<1>2. Trunc(x, w) = x
  BY SMTT(30), TruncKeeps
<1>3. VmWrite(f, x).field = f /\ VmWrite(f, x).word = x
  BY <1>2 DEF VmWrite
<1>4. vmcs_writel(v, f, x) = Put(v, f, x)
  BY <1>3 DEF vmcs_writel, Put
<1>5. Put(v, f, x) \in Vmcses
  BY <1>1 DEF Vmcses, Put
<1> QED BY <1>2, <1>4, <1>5 DEF vmcs_write32, vmcs_write16

\* What a caller may put in a segment, and what the VMCS has of it.
SegmentContents ==
    [base : Words(64), limit : Words(32), selector : Words(16), attr : Attributes]
HasSegment(v, s, var) ==
    /\ v[kvm_vmx_segment_fields[s].base] = var.base
    /\ v[kvm_vmx_segment_fields[s].limit] = var.limit
    /\ v[kvm_vmx_segment_fields[s].selector] = var.selector
    /\ v[kvm_vmx_segment_fields[s].ar_bytes] = vmx_segment_access_rights(var.attr)
\* The fields of segment s.
SegmentField(s, f) ==
    \E p \in DOMAIN PartWidth : f = kvm_vmx_segment_fields[s][p]

\* The four VMCS fields of a segment in kvm_vmx_segment_fields: writable, different, with
\* the widths that kvm_set_segment writes.
LEMMA SegmentFacts ==
    ASSUME NEW s \in Segments
    PROVE  LET sf == kvm_vmx_segment_fields[s]
           IN /\ sf.base \in Encodings /\ ~ReadOnly(sf.base) /\ Width(sf.base) = 64
              /\ sf.limit \in Encodings /\ ~ReadOnly(sf.limit) /\ Width(sf.limit) = 32
              /\ sf.selector \in Encodings /\ ~ReadOnly(sf.selector) /\ Width(sf.selector) = 16
              /\ sf.ar_bytes \in Encodings /\ ~ReadOnly(sf.ar_bytes) /\ Width(sf.ar_bytes) = 32
              /\ sf.base # sf.limit /\ sf.base # sf.selector /\ sf.base # sf.ar_bytes
              /\ sf.limit # sf.selector /\ sf.limit # sf.ar_bytes /\ sf.selector # sf.ar_bytes
              /\ \A f : SegmentField(s, f) <=> f \in {sf.base, sf.limit, sf.selector, sf.ar_bytes}
<1> DEFINE sf == kvm_vmx_segment_fields[s]
<1>1. /\ DOMAIN PartWidth = {"selector", "base", "limit", "ar_bytes"}
      /\ PartWidth["selector"] = 16 /\ PartWidth["base"] = 64
      /\ PartWidth["limit"] = 32 /\ PartWidth["ar_bytes"] = 32
  BY DEF PartWidth
<1>2. \A p, q \in DOMAIN PartWidth :
          /\ sf[p] \in Encodings /\ ~ReadOnly(sf[p]) /\ Width(sf[p]) = PartWidth[p]
          /\ sf[p] = sf[q] => p = q
  BY SMTT(30), SegmentFields
<1> HIDE DEF sf
<1>3. \A f : SegmentField(s, f) <=> \E p \in DOMAIN PartWidth : f = sf[p]
  BY DEF SegmentField, sf
<1> QED BY SMTT(30), <1>1, <1>2, <1>3 DEF sf

\* kvm_set_segment puts a segment in its four fields and touches no other field.
LEMMA SetSegment ==
    ASSUME NEW v \in Vmcses, NEW s \in Segments, NEW var \in SegmentContents
    PROVE  LET u == kvm_set_segment(v, var, s)
           IN /\ u \in Vmcses
              /\ HasSegment(u, s, var)
              /\ \A f \in Encodings : ~SegmentField(s, f) => u[f] = v[f]
<1> DEFINE fb == kvm_vmx_segment_fields[s].base
           fl == kvm_vmx_segment_fields[s].limit
           fs == kvm_vmx_segment_fields[s].selector
           fa == kvm_vmx_segment_fields[s].ar_bytes
           ar == vmx_segment_access_rights(var.attr)
           v1 == vmcs_writel(v, fb, var.base)
           v2 == vmcs_write32(v1, fl, var.limit)
           v3 == vmcs_write16(v2, fs, var.selector)
           v4 == vmcs_write32(v3, fa, ar)
<1>1. /\ var.base \in Words(64) /\ var.limit \in Words(32) /\ var.selector \in Words(16)
      /\ var.attr \in Attributes
  BY DEF SegmentContents
<1>2. ar \in Words(32)
  <2>1. 32 - 1 = 31
    BY SMT
  <2> QED BY SMTT(30), <1>1, <2>1, SegmentRights DEF Words
<1>3. kvm_set_segment(v, var, s) = v4
  BY DEF kvm_set_segment
<1>4. /\ fb \in Encodings /\ ~ReadOnly(fb) /\ Width(fb) = 64
      /\ fl \in Encodings /\ ~ReadOnly(fl) /\ Width(fl) = 32
      /\ fs \in Encodings /\ ~ReadOnly(fs) /\ Width(fs) = 16
      /\ fa \in Encodings /\ ~ReadOnly(fa) /\ Width(fa) = 32
      /\ fb # fl /\ fb # fs /\ fb # fa /\ fl # fs /\ fl # fa /\ fs # fa
      /\ \A f : ~SegmentField(s, f) => f # fb /\ f # fl /\ f # fs /\ f # fa
  BY SegmentFacts
<1>5. HasSegment(v4, s, var) <=>
          v4[fb] = var.base /\ v4[fl] = var.limit /\ v4[fs] = var.selector /\ v4[fa] = ar
  BY DEF HasSegment
<1> HIDE DEF fb, fl, fs, fa, ar
<1>6. v1 \in Vmcses /\ v1 = Put(v, fb, var.base)
  BY <1>1, <1>4, WriteField, SMTT(30)
<1> HIDE DEF v1
<1>7. v2 \in Vmcses /\ v2 = Put(v1, fl, var.limit)
  BY <1>1, <1>4, <1>6, WriteField, SMTT(30)
<1> HIDE DEF v2
<1>8. v3 \in Vmcses /\ v3 = Put(v2, fs, var.selector)
  BY <1>1, <1>4, <1>7, WriteField, SMTT(30)
<1> HIDE DEF v3
<1>9. v4 \in Vmcses /\ v4 = Put(v3, fa, ar)
  BY <1>2, <1>4, <1>8, WriteField, SMTT(30)
<1> HIDE DEF v4
<1>10. /\ v4[fb] = var.base /\ v4[fl] = var.limit /\ v4[fs] = var.selector /\ v4[fa] = ar
       /\ \A f \in Encodings : ~SegmentField(s, f) => v4[f] = v[f]
  BY <1>4, <1>6, <1>7, <1>8, <1>9, SMTT(30) DEF Vmcses, Put
<1> QED BY <1>3, <1>5, <1>9, <1>10

\* The calls of kvm_set_segment do not disturb each other: setting one more segment keeps
\* those that were set before.
LEMMA SetNextSegment ==
    ASSUME NEW v \in Vmcses, NEW segs \in [Segments -> SegmentContents],
           NEW done \in SUBSET Segments, \A t \in done : HasSegment(v, t, segs[t]),
           NEW s \in Segments \ done
    PROVE  LET u == kvm_set_segment(v, segs[s], s)
           IN /\ u \in Vmcses
              /\ \A t \in done \cup {s} : HasSegment(u, t, segs[t])
              /\ \A f \in Encodings : (\A t \in Segments : ~SegmentField(t, f)) => u[f] = v[f]
<1> DEFINE u == kvm_set_segment(v, segs[s], s)
<1>1. /\ u \in Vmcses /\ HasSegment(u, s, segs[s])
      /\ \A f \in Encodings : ~SegmentField(s, f) => u[f] = v[f]
  BY SetSegment
<1> HIDE DEF u
<1>2. ASSUME NEW t \in done PROVE HasSegment(u, t, segs[t])
  <2>1. ASSUME NEW p \in DOMAIN PartWidth
        PROVE  u[kvm_vmx_segment_fields[t][p]] = v[kvm_vmx_segment_fields[t][p]]
    <3>1. t \in Segments /\ t # s
      OBVIOUS
    <3>2. kvm_vmx_segment_fields[t][p] \in Encodings
      BY <3>1, SegmentFields
    <3>3. ~SegmentField(s, kvm_vmx_segment_fields[t][p])
      <4> SUFFICES ASSUME NEW q \in DOMAIN PartWidth,
                          kvm_vmx_segment_fields[t][p] = kvm_vmx_segment_fields[s][q]
                   PROVE  FALSE
        BY DEF SegmentField
      <4> QED BY SMTT(30), <3>1, SegmentFields
    <3> QED BY <3>2, <3>3, <1>1
  <2>2. DOMAIN PartWidth = {"selector", "base", "limit", "ar_bytes"}
    BY DEF PartWidth
  <2>3. HasSegment(v, t, segs[t])
    OBVIOUS
  <2> QED BY <2>1, <2>2, <2>3 DEF HasSegment
<1> QED BY <1>1, <1>2 DEF u

\* The eight calls of kvm_set_segment in KVM_SET_SREGS leave all eight segments in the VMCS.
LEMMA SetAllSegments ==
    ASSUME NEW v \in Vmcses, NEW segs \in [Segments -> SegmentContents]
    PROVE  LET u == SetSegments(v, segs)
           IN /\ u \in Vmcses
              /\ \A t \in Segments : HasSegment(u, t, segs[t])
              /\ \A f \in Encodings : (\A t \in Segments : ~SegmentField(t, f)) => u[f] = v[f]
<1> DEFINE set(u, s) == kvm_set_segment(u, segs[s], s)
           Other(f) == \A t \in Segments : ~SegmentField(t, f)
           After(u, done) == /\ u \in Vmcses
                             /\ \A t \in done : HasSegment(u, t, segs[t])
                             /\ \A f \in Encodings : Other(f) => u[f] = v[f]
<1>1. Segments = {"cs", "ss", "ds", "es", "fs", "gs", "tr", "ldt"}
  BY DEF Segments, SegName
<1>2. ASSUME NEW u, NEW done \in SUBSET Segments, After(u, done), NEW s \in Segments \ done
      PROVE  After(set(u, s), done \cup {s})
  BY <1>2, SetNextSegment
<1>3. After(v, {})
  OBVIOUS
<1> DEFINE v1 == set(v, "cs")   v2 == set(v1, "ss")  v3 == set(v2, "ds")  v4 == set(v3, "es")
           v5 == set(v4, "fs")  v6 == set(v5, "gs")  v7 == set(v6, "tr")  v8 == set(v7, "ldt")
<1>4. SetSegments(v, segs) = v8
  BY DEF SetSegments
<1>4a. ASSUME NEW u, NEW done \in SUBSET Segments, After(u, done), NEW s \in Segments \ done,
             NEW next, next = done \cup {s}
      PROVE  After(set(u, s), next)
  BY <1>4a, <1>2
<1> HIDE DEF After, set
<1>5. After(v1, {"cs"})
  BY SMTT(30), <1>1, <1>3, <1>4a
<1> HIDE DEF v1
<1>6. After(v2, {"cs", "ss"})
  BY SMTT(30), <1>1, <1>5, <1>4a
<1> HIDE DEF v2
<1>7. After(v3, {"cs", "ss", "ds"})
  BY SMTT(30), <1>1, <1>6, <1>4a
<1> HIDE DEF v3
<1>8. After(v4, {"cs", "ss", "ds", "es"})
  BY SMTT(30), <1>1, <1>7, <1>4a
<1> HIDE DEF v4
<1>9. After(v5, {"cs", "ss", "ds", "es", "fs"})
  BY SMTT(30), <1>1, <1>8, <1>4a
<1> HIDE DEF v5
<1>10. After(v6, {"cs", "ss", "ds", "es", "fs", "gs"})
  BY SMTT(30), <1>1, <1>9, <1>4a
<1> HIDE DEF v6
<1>11. After(v7, {"cs", "ss", "ds", "es", "fs", "gs", "tr"})
  BY SMTT(30), <1>1, <1>10, <1>4a
<1> HIDE DEF v7
<1>12. After(v8, Segments)
  BY SMTT(30), <1>1, <1>11, <1>4a
<1> HIDE DEF v8
<1> QED BY <1>4, <1>12 DEF After

\* A run of vmcs_write calls puts each word, cut to the width of the call and of the field,
\* in the field it is for, and changes no other field.
LEMMA WriteAllFields ==
    ASSUME NEW v \in Vmcses, NEW ws,
           \A w \in ToSet(ws) : /\ Field[w[2]] \in Encodings /\ ~ReadOnly(Field[w[2]])
                                 /\ w[3] \in SUBSET Nat
    PROVE  /\ WriteAll(v, ws) \in Vmcses
           /\ \A f \in Encodings :
                  (\A w \in ToSet(ws) : f # Field[w[2]]) => WriteAll(v, ws)[f] = v[f]
           /\ \A w \in ToSet(ws) :
                  (\A x \in ToSet(ws) : Field[w[2]] = Field[x[2]] => w = x) =>
                      WriteAll(v, ws)[Field[w[2]]] = Trunc(Trunc(w[3], w[1]), Width(Field[w[2]]))
<1> DEFINE W == ToSet(ws)
           X(w) == Trunc(Trunc(w[3], w[1]), Width(Field[w[2]]))
           done == {VmWrite(Field[w[2]], Trunc(w[3], w[1])) : w \in W}
           In(f) == \E d \in done : d.field = f
           last(f) == (CHOOSE d \in done : d.field = f).word
<1>1. ASSUME NEW d \in done
      PROVE  \E w \in W : d.field = Field[w[2]] /\ d.word = X(w)
  BY SMTT(30) DEF VmWrite
<1>2. ASSUME NEW w \in W
      PROVE  VmWrite(Field[w[2]], Trunc(w[3], w[1])) \in done
             /\ VmWrite(Field[w[2]], Trunc(w[3], w[1])).field = Field[w[2]]
  BY DEF VmWrite
<1>3. ASSUME NEW w \in W PROVE X(w) \in SUBSET Nat
  BY DEF Trunc
<1>4. WriteAll(v, ws) = [f \in Encodings |-> IF In(f) THEN last(f) ELSE v[f]]
  BY DEF WriteAll, Vmcses
<1>5. ASSUME NEW f, In(f)
      PROVE  \E w \in W : f = Field[w[2]] /\ last(f) = X(w)
  <2>1. PICK d \in done : d.field = f /\ last(f) = d.word
    BY <1>5
  <2> QED BY <2>1, <1>1
<1>6. ASSUME NEW w \in W PROVE In(Field[w[2]])
  BY <1>2
<1>7. ASSUME NEW f, \A w \in W : f # Field[w[2]] PROVE ~In(f)
  BY <1>1, <1>7
<1> HIDE DEF done, In, last, X
<1>8. WriteAll(v, ws) \in Vmcses
  BY SMTT(30), <1>3, <1>4, <1>5 DEF Vmcses
<1>9. ASSUME NEW w \in W, \A x \in W : Field[w[2]] = Field[x[2]] => w = x
      PROVE  WriteAll(v, ws)[Field[w[2]]] = X(w)
  BY <1>4, <1>5, <1>6, <1>9
<1>10. ASSUME NEW f \in Encodings, \A w \in W : f # Field[w[2]]
       PROVE  WriteAll(v, ws)[f] = v[f]
  BY <1>4, <1>7, <1>10
<1> QED BY <1>8, <1>9, <1>10 DEF X

\* The calls in a list of three, as for the control registers of KVM_SET_SREGS.
LEMMA ToSetOfThree ==
    ASSUME NEW a, NEW b, NEW c PROVE ToSet(<<a, b, c>>) = {a, b, c}
BY SMTT(30) DEF ToSet

\* The calls in a list of five, as for the tables and EFER in KVM_SET_SREGS.
LEMMA ToSetOfFive ==
    ASSUME NEW a, NEW b, NEW c, NEW d, NEW e
    PROVE  ToSet(<<a, b, c, d, e>>) = {a, b, c, d, e}
BY SMTT(30) DEF ToSet

\* Writes of words that fit to different fields.
Fits(ws) ==
    \A w \in ToSet(ws) :
        /\ Field[w[2]] \in Encodings /\ ~ReadOnly(Field[w[2]])
        /\ w[1] \in Nat /\ Width(Field[w[2]]) \in Nat
        /\ w[3] \in Words(w[1]) /\ w[3] \in Words(Width(Field[w[2]]))
        /\ \A x \in ToSet(ws) : Field[w[2]] = Field[x[2]] => w = x

\* A run of vmcs_write calls whose words fit loses nothing of any of them.
LEMMA WriteAllWords ==
    ASSUME NEW v \in Vmcses, NEW ws, Fits(ws)
    PROVE  /\ WriteAll(v, ws) \in Vmcses
           /\ \A f \in Encodings :
                  (\A w \in ToSet(ws) : f # Field[w[2]]) => WriteAll(v, ws)[f] = v[f]
           /\ \A w \in ToSet(ws) : WriteAll(v, ws)[Field[w[2]]] = w[3]
<1>1. \A w \in ToSet(ws) : /\ Field[w[2]] \in Encodings /\ ~ReadOnly(Field[w[2]])
                            /\ w[3] \in SUBSET Nat
  BY SMTT(30) DEF Fits, Words
<1>2. /\ WriteAll(v, ws) \in Vmcses
      /\ \A f \in Encodings :
             (\A w \in ToSet(ws) : f # Field[w[2]]) => WriteAll(v, ws)[f] = v[f]
      /\ \A w \in ToSet(ws) :
             (\A x \in ToSet(ws) : Field[w[2]] = Field[x[2]] => w = x) =>
                 WriteAll(v, ws)[Field[w[2]]] = Trunc(Trunc(w[3], w[1]), Width(Field[w[2]]))
  BY SMTT(30), <1>1, WriteAllFields
<1>3. ASSUME NEW w \in ToSet(ws)
      PROVE  WriteAll(v, ws)[Field[w[2]]] = w[3]
  <2>1. /\ w[1] \in Nat /\ Width(Field[w[2]]) \in Nat
        /\ w[3] \in Words(w[1]) /\ w[3] \in Words(Width(Field[w[2]]))
        /\ \A x \in ToSet(ws) : Field[w[2]] = Field[x[2]] => w = x
    BY DEF Fits
  <2>2. Trunc(w[3], w[1]) = w[3] /\ Trunc(w[3], Width(Field[w[2]])) = w[3]
    BY SMTT(30), <2>1, TruncKeeps
  <2> QED BY <1>2, <2>1, <2>2
<1> QED BY <1>2, <1>3

\* The struct kvm_dtable of a caller, and struct kvm_sregs.
Table == [limit : Words(16), base : Words(64)]
Sregs ==
    [cr0 : Words(64), cr2 : Words(64), cr3 : Words(64), cr4 : Words(64), efer : Words(64),
     idt : Table, gdt : Table, seg : [Segments -> SegmentContents]]

\* The fields that KVM_SET_SREGS writes.
SregsField(f) ==
    \/ \E n \in DOMAIN SregsWidth : f = Field[n]
    \/ \E s \in Segments : SegmentField(s, f)

\* What the VMCS holds after KVM_SET_SREGS: every register that it was given, with CR0.NE and
\* CR4.VMXE set, and every field it is not about as it was.
LEMMA SetSregs ==
    ASSUME NEW v \in Vmcses, NEW r \in Sregs
    PROVE  LET u == SetSregsFields(v, r)
           IN /\ u \in Vmcses
              /\ \A s \in Segments : HasSegment(u, s, r.seg[s])
              /\ u[Field["GUEST_CR0"]] = r.cr0 \cup {5}
              /\ u[Field["GUEST_CR3"]] = r.cr3
              /\ u[Field["GUEST_CR4"]] = r.cr4 \cup {13}
              /\ u[Field["GUEST_IDTR_LIMIT"]] = r.idt.limit
              /\ u[Field["GUEST_IDTR_BASE"]] = r.idt.base
              /\ u[Field["GUEST_GDTR_LIMIT"]] = r.gdt.limit
              /\ u[Field["GUEST_GDTR_BASE"]] = r.gdt.base
              /\ u[Field["GUEST_IA32_EFER"]] = r.efer
              /\ \A f \in Encodings :
                     ~SregsField(f) => u[f] = v[f]
<1> DEFINE cr0 == r.cr0 \cup {5}
           cr4 == r.cr4 \cup {13}
           a1 == <<64, "GUEST_CR0", cr0>>
           a2 == <<64, "GUEST_CR3", r.cr3>>
           a3 == <<64, "GUEST_CR4", cr4>>
           b1 == <<32, "GUEST_IDTR_LIMIT", r.idt.limit>>
           b2 == <<64, "GUEST_IDTR_BASE", r.idt.base>>
           b3 == <<32, "GUEST_GDTR_LIMIT", r.gdt.limit>>
           b4 == <<64, "GUEST_GDTR_BASE", r.gdt.base>>
           b5 == <<64, "GUEST_IA32_EFER", r.efer>>
           crs == <<a1, a2, a3>>
           bs == <<b1, b2, b3, b4, b5>>
           v1 == WriteAll(v, crs)
           v2 == SetSegments(v1, r.seg)
           v3 == WriteAll(v2, bs)
<1>1. SetSregsFields(v, r) = v3
  BY DEF SetSregsFields
<1>2. /\ cr0 \in Words(64) /\ r.cr3 \in Words(64) /\ cr4 \in Words(64)
      /\ r.idt.limit \in Words(32) /\ r.idt.base \in Words(64)
      /\ r.gdt.limit \in Words(32) /\ r.gdt.base \in Words(64) /\ r.efer \in Words(64)
      /\ r.seg \in [Segments -> SegmentContents]
  BY SMTT(30) DEF Sregs, Table, Words
<1>3. Words(32) \in SUBSET (SUBSET Nat) /\ Words(64) \in SUBSET (SUBSET Nat)
  BY SMTT(30) DEF Words
<1>4. /\ DOMAIN SregsWidth = {"GUEST_CR0", "GUEST_CR3", "GUEST_CR4", "GUEST_IDTR_LIMIT",
                               "GUEST_IDTR_BASE", "GUEST_GDTR_LIMIT", "GUEST_GDTR_BASE",
                               "GUEST_IA32_EFER"}
      /\ SregsWidth["GUEST_CR0"] = 64 /\ SregsWidth["GUEST_CR3"] = 64
      /\ SregsWidth["GUEST_CR4"] = 64 /\ SregsWidth["GUEST_IDTR_LIMIT"] = 32
      /\ SregsWidth["GUEST_IDTR_BASE"] = 64 /\ SregsWidth["GUEST_GDTR_LIMIT"] = 32
      /\ SregsWidth["GUEST_GDTR_BASE"] = 64 /\ SregsWidth["GUEST_IA32_EFER"] = 64
  BY DEF SregsWidth
<1>5. /\ a1[2] = "GUEST_CR0" /\ a1[3] = cr0 /\ a2[2] = "GUEST_CR3" /\ a2[3] = r.cr3
      /\ a3[2] = "GUEST_CR4" /\ a3[3] = cr4
      /\ b1[2] = "GUEST_IDTR_LIMIT" /\ b1[3] = r.idt.limit
      /\ b2[2] = "GUEST_IDTR_BASE" /\ b2[3] = r.idt.base
      /\ b3[2] = "GUEST_GDTR_LIMIT" /\ b3[3] = r.gdt.limit
      /\ b4[2] = "GUEST_GDTR_BASE" /\ b4[3] = r.gdt.base
      /\ b5[2] = "GUEST_IA32_EFER" /\ b5[3] = r.efer
  OBVIOUS
<1>5a. /\ a1[1] = 64 /\ a2[1] = 64 /\ a3[1] = 64
      /\ b1[1] = 32 /\ b2[1] = 64 /\ b3[1] = 32 /\ b4[1] = 64 /\ b5[1] = 64
  OBVIOUS
<1> HIDE DEF cr0, cr4, a1, a2, a3, b1, b2, b3, b4, b5
<1>6. ToSet(crs) = {a1, a2, a3}
  BY ToSetOfThree
<1>7. ToSet(bs) = {b1, b2, b3, b4, b5}
  BY SMTT(30), ToSetOfFive
<1> HIDE DEF crs, bs
<1>8. ASSUME NEW n \in DOMAIN SregsWidth
      PROVE  /\ Field[n] \in Encodings /\ ~ReadOnly(Field[n]) /\ Width(Field[n]) = SregsWidth[n]
             /\ \A k \in DOMAIN SregsWidth : Field[n] = Field[k] => n = k
             /\ \A s \in Segments : ~SegmentField(s, Field[n])
  BY SMTT(30), SregsFields DEF SegmentField
<1>9. Fits(crs)
  <2>1. \A w \in ToSet(crs) :
            /\ w[2] \in DOMAIN SregsWidth /\ SregsWidth[w[2]] = 64 /\ w[1] = 64
            /\ w[3] \in Words(64)
            /\ \A x \in ToSet(crs) : w[2] = x[2] => w = x
    BY SMTT(30), <1>2, <1>4, <1>5, <1>6, <1>5a
  <2>2. 64 \in Nat
    OBVIOUS
  <2> QED BY SMTT(30), <1>8, <2>1, <2>2 DEF Fits
<1>10. Fits(bs)
  <2>1. \A w \in ToSet(bs) :
            /\ w[2] \in DOMAIN SregsWidth /\ w[1] \in Nat /\ SregsWidth[w[2]] = w[1]
            /\ w[3] \in Words(w[1])
            /\ \A x \in ToSet(bs) : w[2] = x[2] => w = x
    BY SMTT(30), <1>2, <1>4, <1>5, <1>7, <1>5a
  <2> QED BY SMTT(30), <1>8, <2>1 DEF Fits
<1>11. /\ v1 \in Vmcses
       /\ v1[Field["GUEST_CR0"]] = cr0 /\ v1[Field["GUEST_CR3"]] = r.cr3
       /\ v1[Field["GUEST_CR4"]] = cr4
       /\ \A f \in Encodings : ~SregsField(f) => v1[f] = v[f]
  <2>1. /\ v1 \in Vmcses
        /\ \A w \in ToSet(crs) : v1[Field[w[2]]] = w[3]
        /\ \A f \in Encodings : (\A w \in ToSet(crs) : f # Field[w[2]]) => v1[f] = v[f]
    BY <1>9, WriteAllWords, SMTT(30)
  <2> HIDE DEF v1
  <2> QED BY SMTT(30), <1>4, <1>5, <1>6, <2>1 DEF SregsField
<1> HIDE DEF v1
<1>12. /\ v2 \in Vmcses
       /\ \A s \in Segments : HasSegment(v2, s, r.seg[s])
       /\ \A n \in DOMAIN SregsWidth : v2[Field[n]] = v1[Field[n]]
       /\ \A f \in Encodings : ~SregsField(f) => v2[f] = v1[f]
  <2>1. /\ v2 \in Vmcses
        /\ \A s \in Segments : HasSegment(v2, s, r.seg[s])
        /\ \A f \in Encodings : (\A t \in Segments : ~SegmentField(t, f)) => v2[f] = v1[f]
    BY <1>2, <1>11, SetAllSegments
  <2> HIDE DEF v2
  <2> QED BY <1>8, <2>1 DEF SregsField
<1> HIDE DEF v2
<1>13. /\ v3 \in Vmcses
       /\ \A w \in ToSet(bs) : v3[Field[w[2]]] = w[3]
       /\ \A f \in Encodings : (\A w \in ToSet(bs) : f # Field[w[2]]) => v3[f] = v2[f]
  BY SMTT(30), <1>10, <1>12, WriteAllWords
<1> HIDE DEF v3
<1>14. /\ v3[Field["GUEST_IDTR_LIMIT"]] = r.idt.limit /\ v3[Field["GUEST_IDTR_BASE"]] = r.idt.base
       /\ v3[Field["GUEST_GDTR_LIMIT"]] = r.gdt.limit /\ v3[Field["GUEST_GDTR_BASE"]] = r.gdt.base
       /\ v3[Field["GUEST_IA32_EFER"]] = r.efer
  BY SMTT(30), <1>5, <1>7, <1>13
<1>15. ASSUME NEW n \in {"GUEST_CR0", "GUEST_CR3", "GUEST_CR4"} PROVE v3[Field[n]] = v1[Field[n]]
  <2>1. \A w \in ToSet(bs) : Field[n] # Field[w[2]]
    BY SMTT(30), <1>4, <1>5, <1>7, <1>8
  <2> QED BY <1>4, <1>8, <1>12, <1>13, <2>1
<1>16. \A f \in Encodings : ~SregsField(f) => v3[f] = v[f]
  BY SMTT(30), <1>4, <1>5, <1>7, <1>11, <1>12, <1>13 DEF SregsField
<1>17. ASSUME NEW s \in Segments PROVE HasSegment(v3, s, r.seg[s])
  <2>1. ASSUME NEW p \in DOMAIN PartWidth
        PROVE  v3[kvm_vmx_segment_fields[s][p]] = v2[kvm_vmx_segment_fields[s][p]]
    <3>1. kvm_vmx_segment_fields[s][p] \in Encodings
      BY SegmentFields
    <3>2. \A n \in DOMAIN SregsWidth : kvm_vmx_segment_fields[s][p] # Field[n]
      BY SregsFields
    <3> QED BY SMTT(30), <1>4, <1>5, <1>7, <1>13, <3>1, <3>2
  <2>2. DOMAIN PartWidth = {"selector", "base", "limit", "ar_bytes"}
    BY DEF PartWidth
  <2>3. HasSegment(v2, s, r.seg[s])
    BY <1>12
  <2> QED BY <2>1, <2>2, <2>3 DEF HasSegment
<1> QED BY <1>1, <1>11, <1>13, <1>14, <1>15, <1>16, <1>17 DEF cr0, cr4

\* KVM_GET_SREGS after KVM_SET_SREGS returns what was set, whatever the registers hold: the
\* tables, the control registers (with CR0.NE and CR4.VMXE, which VMX demands), EFER, and the
\* base, limit and selector of each segment. kvm_get_segment does not read the access rights,
\* so the attributes are those that the caller's buffer had before (q).
THEOREM SregsRoundTrip ==
    ASSUME NEW v \in Vmcses, NEW r \in Sregs, NEW q \in Sregs
    PROVE  LET g == GetSregsFields(SetSregsFields(v, r), q)
           IN /\ g.cr0 = r.cr0 \cup {5} /\ g.cr3 = r.cr3 /\ g.cr4 = r.cr4 \cup {13}
              /\ g.efer = r.efer /\ g.idt = r.idt /\ g.gdt = r.gdt
              /\ \A s \in Segments :
                     /\ g.seg[s].base = r.seg[s].base
                     /\ g.seg[s].limit = r.seg[s].limit
                     /\ g.seg[s].selector = r.seg[s].selector
                     /\ g.seg[s].attr = q.seg[s].attr
<1> DEFINE u == SetSregsFields(v, r)
           g == GetSregsFields(u, q)
<1>1. /\ \A s \in Segments : HasSegment(u, s, r.seg[s])
      /\ u[Field["GUEST_CR0"]] = r.cr0 \cup {5} /\ u[Field["GUEST_CR3"]] = r.cr3
      /\ u[Field["GUEST_CR4"]] = r.cr4 \cup {13}
      /\ u[Field["GUEST_IDTR_LIMIT"]] = r.idt.limit /\ u[Field["GUEST_IDTR_BASE"]] = r.idt.base
      /\ u[Field["GUEST_GDTR_LIMIT"]] = r.gdt.limit /\ u[Field["GUEST_GDTR_BASE"]] = r.gdt.base
      /\ u[Field["GUEST_IA32_EFER"]] = r.efer
  BY SetSregs
<1> HIDE DEF u
<1>2. /\ r.idt \in Table /\ r.gdt \in Table
      /\ r.seg \in [Segments -> SegmentContents] /\ q.seg \in [Segments -> SegmentContents]
  BY DEF Sregs
<1>3. ASSUME NEW t \in Table
      PROVE  Trunc(Trunc(t.limit, 32), 16) = t.limit /\ t = [limit |-> t.limit, base |-> t.base]
  <2>1. t.limit \in Words(16) /\ t.limit \in Words(32)
    BY SMTT(30) DEF Table, Words
  <2>2. Trunc(t.limit, 16) = t.limit /\ Trunc(t.limit, 32) = t.limit
    BY SMTT(30), <2>1, TruncKeeps
  <2>3. t = [limit |-> t.limit, base |-> t.base]
    BY DEF Table
  <2> QED BY <2>2, <2>3
<1>4. /\ g.cr0 = u[Field["GUEST_CR0"]] /\ g.cr3 = u[Field["GUEST_CR3"]]
      /\ g.cr4 = u[Field["GUEST_CR4"]] /\ g.efer = u[Field["GUEST_IA32_EFER"]]
      /\ g.idt = [limit |-> Trunc(Trunc(u[Field["GUEST_IDTR_LIMIT"]], 32), 16),
                  base |-> u[Field["GUEST_IDTR_BASE"]]]
      /\ g.gdt = [limit |-> Trunc(Trunc(u[Field["GUEST_GDTR_LIMIT"]], 32), 16),
                  base |-> u[Field["GUEST_GDTR_BASE"]]]
      /\ g.seg = [s \in Segments |-> kvm_get_segment(u, q.seg[s], s)]
  BY DEF GetSregsFields, vmcs_readl, vmcs_read32, Sregs
<1> HIDE DEF g
<1>5. g.idt = r.idt /\ g.gdt = r.gdt
  <2>1. g.idt = [limit |-> r.idt.limit, base |-> r.idt.base]
    BY <1>1, <1>2, <1>3, <1>4
  <2>2. g.gdt = [limit |-> r.gdt.limit, base |-> r.gdt.base]
    BY <1>1, <1>2, <1>3, <1>4
  <2> QED BY <1>2, <1>3, <2>1, <2>2
<1>6. ASSUME NEW s \in Segments
      PROVE  /\ g.seg[s].base = r.seg[s].base /\ g.seg[s].limit = r.seg[s].limit
             /\ g.seg[s].selector = r.seg[s].selector /\ g.seg[s].attr = q.seg[s].attr
  <2>1. r.seg[s] \in SegmentContents /\ q.seg[s] \in SegmentContents
    BY <1>2
  <2>2. Trunc(r.seg[s].limit, 32) = r.seg[s].limit /\ Trunc(r.seg[s].selector, 16) = r.seg[s].selector
    BY SMTT(30), <2>1, TruncKeeps DEF SegmentContents
  <2>3. g.seg[s] = kvm_get_segment(u, q.seg[s], s)
    BY <1>4
  <2>4. ASSUME NEW var \in SegmentContents
        PROVE  LET k == kvm_get_segment(u, var, s)
                   sf == kvm_vmx_segment_fields[s]
               IN /\ k.base = u[sf.base] /\ k.limit = Trunc(u[sf.limit], 32)
                  /\ k.selector = Trunc(u[sf.selector], 16) /\ k.attr = var.attr
    BY DEF kvm_get_segment, vmcs_readl, vmcs_read32, vmcs_read16, SegmentContents
  <2>5. HasSegment(u, s, r.seg[s])
    BY <1>1
  <2> QED BY <2>1, <2>2, <2>3, <2>4, <2>5 DEF HasSegment
<1> QED BY <1>1, <1>4, <1>5, <1>6 DEF g, u

\* KVM_SET_SREGS gives the guest the attributes of all eight segments, whatever they are, and
\* leaves every VMCS field that is not one of the special registers as it was.
THEOREM SregsInTheVmcs ==
    ASSUME NEW v \in Vmcses, NEW r \in Sregs
    PROVE  LET u == SetSregsFields(v, r)
           IN /\ \A s \in Segments :
                     RightsOf(r.seg[s].attr, u[kvm_vmx_segment_fields[s].ar_bytes])
              /\ \A f \in Encodings : ~SregsField(f) => u[f] = v[f]
<1> DEFINE u == SetSregsFields(v, r)
<1>1. /\ \A s \in Segments : HasSegment(u, s, r.seg[s])
      /\ \A f \in Encodings : ~SregsField(f) => u[f] = v[f]
  BY SetSregs
<1>2. \A s \in Segments : r.seg[s].attr \in Attributes
  BY DEF Sregs, SegmentContents
<1> HIDE DEF u
<1> QED BY <1>1, <1>2, SegmentRights DEF HasSegment, u

-----------------------------------------------------------------------------
\* get_desc_base and the upper half that segment_base adds reassemble the base that a TSS
\* descriptor of the GDT holds in four pieces.
LEMMA DescriptorBase ==
    ASSUME NEW base \in Words(64)
    PROVE  get_desc_base(Descriptor(base, 0, 11)) \cup Shl(Descriptor(base, 0, 11).base3, 32) = base
<1> DEFINE d == Descriptor(base, 0, 11)
<1>1. base \in SUBSET Nat /\ \A b \in base : b < 64
  BY SMTT(30) DEF Words
<1>2. /\ d.base0 = Trunc(base, 16) /\ d.base1 = Trunc(Shr(base, 16), 8)
      /\ d.base2 = Trunc(Shr(base, 24), 8) /\ d.base3 = Trunc(Shr(base, 32), 32)
  BY DEF Descriptor
<1>3. ASSUME NEW k \in Nat, NEW w \in Nat, NEW b
      PROVE  b \in Shl(Trunc(Shr(base, k), w), k) <=> b \in base /\ b >= k /\ b < k + w
  <2>1. Shr(base, k) \in SUBSET Nat
    BY <1>1, SMTT(30) DEF Shr
  <2>2. Trunc(Shr(base, k), w) \in SUBSET Nat
    BY <2>1 DEF Trunc
  <2>3. b \in Shl(Trunc(Shr(base, k), w), k) <=>
            b \in Nat /\ b >= k /\ b - k \in Trunc(Shr(base, k), w)
    BY <2>2, ShlMember
  <2>4. \A c : c \in Trunc(Shr(base, k), w) <=> c \in Nat /\ c + k \in base /\ c < w
    BY <1>1, ShrMember, TruncMember
  <2>5. b \in Nat /\ b >= k => b - k \in Nat /\ (b - k) + k = b /\ (b - k < w <=> b < k + w)
    BY SMTT(30)
  <2>6. b \in base => b \in Nat
    BY <1>1
  <2> QED BY <2>3, <2>4, <2>5, <2>6
<1> HIDE DEF d
<1>4. ASSUME NEW b
      PROVE  b \in get_desc_base(d) \cup Shl(d.base3, 32) <=> b \in base
  <2>1. /\ b \in d.base0 <=> b \in base /\ b < 16
        /\ b \in Shl(d.base1, 16) <=> b \in base /\ b >= 16 /\ b < 24
        /\ b \in Shl(d.base2, 24) <=> b \in base /\ b >= 24 /\ b < 32
        /\ b \in Shl(d.base3, 32) <=> b \in base /\ b >= 32 /\ b < 64
    BY <1>2, <1>3, TruncMember, SMTT(30)
  <2>2. b \in base => b \in Nat /\ b < 64
    BY <1>1
  <2>3. b \in base <=> \/ b \in d.base0 \/ b \in Shl(d.base1, 16) \/ b \in Shl(d.base2, 24)
                      \/ b \in Shl(d.base3, 32)
    BY <2>1, <2>2, SMTT(30)
  <2> QED BY <2>3 DEF get_desc_base
<1> QED BY <1>4 DEF d

\* segment_base finds the base of the task register: what init_host_values writes to
\* HOST_TR_BASE is the base that the CPU has, for every base and every GDT selector.
THEOREM TaskRegisterBase ==
    ASSUME NEW cpu, cpu["TR_BASE"] \in Words(64),
           ~(cpu["TR_SELECTOR"] \subseteq {0, 1}), 2 \notin cpu["TR_SELECTOR"]
    PROVE  segment_base(cpu["TR_SELECTOR"], cpu["LDTR_SELECTOR"], HostDescriptors(cpu))
               = cpu["TR_BASE"]
<1> DEFINE d == Descriptor(cpu["TR_BASE"], 0, 11)
<1>1. HostDescriptors(cpu)[cpu["TR_SELECTOR"] \ {0, 1, 2}] = d
  BY DEF HostDescriptors
<1>2. d.s = 0 /\ d.type = 11
  BY DEF Descriptor
<1> HIDE DEF d
<1>3. segment_base(cpu["TR_SELECTOR"], cpu["LDTR_SELECTOR"], HostDescriptors(cpu))
          = get_desc_base(d) \cup Shl(d.base3, 32)
  BY <1>1, <1>2 DEF segment_base
<1> QED BY <1>3, DescriptorBase DEF d

\* A CPU of the host: its registers have the width of their fields, and its task
\* register names a descriptor of the GDT.
HostRegisters(cpu) ==
    /\ \A r \in DOMAIN HostField : cpu[r] \in Words(Width(HostField[r]))
    /\ ~(cpu["TR_SELECTOR"] \subseteq {0, 1}) /\ 2 \notin cpu["TR_SELECTOR"]

\* The registers that init_host_values writes, what it writes for each, and the call.
Written == DOMAIN HostName \ {"RSP"}
HostWord(cpu, r) == IF r = "RIP" THEN vmexit_handler ELSE cpu[r]
HostWrite(cpu, r) ==
    <<IF r \in HostSelectors THEN 16 ELSE 64, HostName[r], HostWord(cpu, r)>>

\* init_host_values writes one host field for each register of the host-state area but RSP,
\* which vmx_vcpu_run itself writes.
LEMMA HostWrites ==
    ASSUME NEW cpu, HostRegisters(cpu)
    PROVE  ToSet(HostValues(cpu)) = {HostWrite(cpu, r) : r \in Written}
<1> DEFINE hv == HostValues(cpu)
           hw(r) == HostWrite(cpu, r)
<1>1. DOMAIN HostName =
          {"CR0", "CR3", "CR4", "CS_SELECTOR", "SS_SELECTOR", "DS_SELECTOR", "ES_SELECTOR",
           "FS_SELECTOR", "GS_SELECTOR", "TR_SELECTOR", "FS_BASE", "GS_BASE", "TR_BASE",
           "GDTR_BASE", "IDTR_BASE", "SYSENTER_CS", "SYSENTER_ESP", "SYSENTER_EIP", "RSP",
           "RIP"}
  BY DEF HostName
<1>2. cpu["TR_BASE"] \in Words(64)
  <2>1. "TR_BASE" \in DOMAIN HostField /\ "TR_BASE" \notin HostSelectors
    BY <1>1 DEF HostField, HostSelectors
  <2>2. Width(HostField["TR_BASE"]) = 64
    BY <2>1, HostFields
  <2> QED BY <2>1, <2>2 DEF HostRegisters
<1>3. segment_base(cpu["TR_SELECTOR"], cpu["LDTR_SELECTOR"], HostDescriptors(cpu))
          = cpu["TR_BASE"]
  BY <1>2, TaskRegisterBase DEF HostRegisters
<1>4. DOMAIN hv = 1 .. 19
  BY SMTT(30) DEF HostValues
<1>5. /\ hv[1] = hw("CR0") /\ hv[2] = hw("CR3") /\ hv[3] = hw("CR4")
      /\ hv[4] = hw("CS_SELECTOR") /\ hv[5] = hw("SS_SELECTOR") /\ hv[6] = hw("DS_SELECTOR")
      /\ hv[7] = hw("ES_SELECTOR") /\ hv[8] = hw("FS_SELECTOR") /\ hv[9] = hw("GS_SELECTOR")
      /\ hv[10] = hw("TR_SELECTOR") /\ hv[11] = hw("FS_BASE") /\ hv[12] = hw("GS_BASE")
      /\ hv[13] = hw("TR_BASE") /\ hv[14] = hw("GDTR_BASE") /\ hv[15] = hw("IDTR_BASE")
      /\ hv[16] = hw("SYSENTER_CS") /\ hv[17] = hw("SYSENTER_ESP") /\ hv[18] = hw("SYSENTER_EIP")
      /\ hv[19] = hw("RIP")
  <2>1. /\ hv[1] = hw("CR0") /\ hv[2] = hw("CR3") /\ hv[3] = hw("CR4")
        /\ hv[4] = hw("CS_SELECTOR") /\ hv[5] = hw("SS_SELECTOR")
    BY <1>3, SMTT(30) DEF HostValues, HostWrite, HostWord, HostName, HostSelectors
  <2>2. /\ hv[6] = hw("DS_SELECTOR") /\ hv[7] = hw("ES_SELECTOR") /\ hv[8] = hw("FS_SELECTOR")
        /\ hv[9] = hw("GS_SELECTOR") /\ hv[10] = hw("TR_SELECTOR")
    BY <1>3, SMTT(30) DEF HostValues, HostWrite, HostWord, HostName, HostSelectors
  <2>3. /\ hv[11] = hw("FS_BASE") /\ hv[12] = hw("GS_BASE") /\ hv[13] = hw("TR_BASE")
        /\ hv[14] = hw("GDTR_BASE")
    BY <1>3, SMTT(30) DEF HostValues, HostWrite, HostWord, HostName, HostSelectors
  <2>4. /\ hv[15] = hw("IDTR_BASE") /\ hv[16] = hw("SYSENTER_CS") /\ hv[17] = hw("SYSENTER_ESP")
        /\ hv[18] = hw("SYSENTER_EIP") /\ hv[19] = hw("RIP")
    BY <1>3, SMTT(30) DEF HostValues, HostWrite, HostWord, HostName, HostSelectors
  <2> QED BY <2>1, <2>2, <2>3, <2>4
<1>6. ToSet(hv) = {hv[i] : i \in 1 .. 19}
  BY <1>4 DEF ToSet
<1> HIDE DEF hv, hw
<1>7. ASSUME NEW i \in 1 .. 19 PROVE \E r \in Written : hv[i] = hw(r)
  <2>1. i \in {1, 2, 3, 4, 5, 6, 7, 8, 9, 10, 11, 12, 13, 14, 15, 16, 17, 18, 19}
    BY SMTT(30)
  <2> QED BY <1>1, <1>5, <2>1 DEF Written
<1>8. ASSUME NEW r \in Written PROVE \E i \in 1 .. 19 : hv[i] = hw(r)
  BY <1>1, <1>5, SMTT(30) DEF Written
<1> QED BY <1>6, <1>7, <1>8 DEF hw, hv

\* Those writes go to different fields and lose no bit of the register: SYSENTER_CS, which
\* init_host_values writes with vmcs_writel to a field of 32 bits, included.
LEMMA HostWritesFit ==
    ASSUME NEW cpu, HostRegisters(cpu)
    PROVE  /\ Fits(HostValues(cpu))
           /\ \A w \in ToSet(HostValues(cpu)) :
                  \E r \in Written : Field[w[2]] = HostField[r] /\ w[3] = HostWord(cpu, r)
           /\ \A r \in Written :
                  \E w \in ToSet(HostValues(cpu)) :
                      Field[w[2]] = HostField[r] /\ w[3] = HostWord(cpu, r)
<1> DEFINE hw(r) == HostWrite(cpu, r)
<1>1. /\ DOMAIN HostField = DOMAIN HostName /\ "RIP" \in DOMAIN HostName
      /\ "RIP" \notin HostSelectors
  BY DEF HostField, HostName, HostSelectors
<1>2. ASSUME NEW r \in Written
      PROVE  /\ hw(r)[1] = (IF r \in HostSelectors THEN 16 ELSE 64)
             /\ Field[hw(r)[2]] = HostField[r] /\ hw(r)[3] = HostWord(cpu, r)
  BY DEF HostWrite, HostField, Written
<1>3. ASSUME NEW r \in Written
      PROVE  /\ HostField[r] \in Encodings /\ ~ReadOnly(HostField[r])
             /\ Width(HostField[r]) = (IF r \in HostSelectors THEN 16
                                       ELSE IF r = "SYSENTER_CS" THEN 32 ELSE 64)
             /\ \A t \in Written : HostField[r] = HostField[t] => r = t
  BY <1>1, HostFields DEF Written
<1>4. ASSUME NEW r \in Written
      PROVE  HostWord(cpu, r) \in Words(Width(HostField[r]))
  <2>1. CASE r = "RIP"
    <3>1. Width(HostField[r]) = 64
      BY <1>1, <1>3, <2>1
    <3>2. vmexit_handler \in Words(64)
      BY SMTT(30) DEF vmexit_handler, Words
    <3> QED BY <2>1, <3>1, <3>2 DEF HostWord
  <2>2. CASE r # "RIP"
    BY <1>1, <2>2 DEF HostWord, HostRegisters, Written
  <2> QED BY <2>1, <2>2
<1>5. ASSUME NEW r \in Written
      PROVE  /\ hw(r)[1] \in Nat /\ Width(HostField[r]) \in Nat
             /\ hw(r)[3] \in Words(hw(r)[1]) /\ hw(r)[3] \in Words(Width(HostField[r]))
  <2>1. Words(32) \subseteq Words(64)
    BY SMTT(30) DEF Words
  <2> QED BY SMTT(30), <1>2, <1>3, <1>4, <2>1
<1>6. ToSet(HostValues(cpu)) = {hw(r) : r \in Written}
  BY HostWrites
<1> HIDE DEF hw
<1>7. Fits(HostValues(cpu))
  <2>1. ASSUME NEW r \in Written, NEW t \in Written, Field[hw(r)[2]] = Field[hw(t)[2]]
        PROVE  hw(r) = hw(t)
    <3>1. HostField[r] = HostField[t]
      BY <1>2, <2>1
    <3> QED BY <1>3, <3>1
  <2> SUFFICES ASSUME NEW w \in ToSet(HostValues(cpu))
               PROVE  /\ Field[w[2]] \in Encodings /\ ~ReadOnly(Field[w[2]])
                      /\ w[1] \in Nat /\ Width(Field[w[2]]) \in Nat
                      /\ w[3] \in Words(w[1]) /\ w[3] \in Words(Width(Field[w[2]]))
                      /\ \A x \in ToSet(HostValues(cpu)) : Field[w[2]] = Field[x[2]] => w = x
    BY DEF Fits
  <2>2. PICK r \in Written : w = hw(r)
    BY <1>6
  <2>3. \A x \in ToSet(HostValues(cpu)) : Field[w[2]] = Field[x[2]] => w = x
    BY <1>6, <2>1, <2>2
  <2> QED BY <1>2, <1>3, <1>5, <2>2, <2>3
<1> QED BY SMTT(30), <1>2, <1>6, <1>7

\* A VM exit brings back the host: if init_host_values ran on the CPU's registers (m) and the
\* host-state area is still what it wrote when the exit happens (k, whatever else the guest and
\* the kext did in between), then every register that the area has is again what the CPU had,
\* and execution goes on at the exit handler. (RSP is written just before the entry.)
THEOREM HostStateComesBack ==
    ASSUME NEW m, "vmcs" \in DOMAIN m, m.vmcs \in Vmcses, HostRegisters(m.cpu),
           NEW k, "cpu" \in DOMAIN k, DOMAIN HostField \subseteq DOMAIN k.cpu,
           \A r \in DOMAIN HostField :
               k.vmcs[HostField[r]] = init_host_values(m).vmcs[HostField[r]]
    PROVE  LET after == LoadHostArea(k)
           IN /\ \A r \in DOMAIN HostField \ {"RSP", "RIP"} : after.cpu[r] = m.cpu[r]
              /\ after.cpu["RIP"] = vmexit_handler
<1> DEFINE h == init_host_values(m)
<1>1. h.vmcs = WriteAll(m.vmcs, HostValues(m.cpu))
  BY DEF init_host_values
<1> HIDE DEF h
<1>2. ASSUME NEW r \in Written PROVE h.vmcs[HostField[r]] = HostWord(m.cpu, r)
  <2>1. Fits(HostValues(m.cpu))
    BY HostWritesFit
  <2>2. \A w \in ToSet(HostValues(m.cpu)) : h.vmcs[Field[w[2]]] = w[3]
    BY SMTT(30), <1>1, <2>1, WriteAllWords
  <2>3. PICK w \in ToSet(HostValues(m.cpu)) :
            Field[w[2]] = HostField[r] /\ w[3] = HostWord(m.cpu, r)
    BY HostWritesFit
  <2> QED BY <2>2, <2>3
<1>3. ASSUME NEW r \in DOMAIN HostField PROVE LoadHostArea(k).cpu[r] = k.vmcs[HostField[r]]
  <2>1. /\ r \notin {"GDTR_LIMIT", "IDTR_LIMIT"} /\ r # "LDTR_SELECTOR" /\ r # "RFLAGS"
    BY DEF HostField, HostName
  <2>2. LoadHostArea(k).cpu =
            [t \in DOMAIN k.cpu |->
                CASE t \in DOMAIN HostField -> k.vmcs[HostField[t]]
                  [] t \in {"GDTR_LIMIT", "IDTR_LIMIT"} -> 0 .. 15
                  [] t = "LDTR_SELECTOR" -> {}
                  [] t = "RFLAGS" -> {1}
                  [] OTHER -> k.cpu[t]]
    BY DEF LoadHostArea
  <2>3. r \in DOMAIN k.cpu
    OBVIOUS
  <2> QED BY <2>1, <2>2, <2>3
<1>4. DOMAIN HostField = DOMAIN HostName /\ "RIP" \in DOMAIN HostName
  BY DEF HostField, HostName
<1>5. ASSUME NEW r \in Written PROVE LoadHostArea(k).cpu[r] = HostWord(m.cpu, r)
  BY <1>2, <1>3, <1>4 DEF h, Written
<1> QED BY <1>4, <1>5 DEF Written, HostWord
=============================================================================
