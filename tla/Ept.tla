---------------------------------- MODULE Ept ----------------------------------
(* The extended page tables (main.cpp:115-201) and KVM_SET_USER_MEMORY_REGION   *)
(* (main.cpp:811-836).  A table that is not a leaf takes two pages: the entries *)
(* the processor walks, physical addresses, on the first, and the pointers the  *)
(* kext walks on the second.  A table and its physical address are one value    *)
(* here, __pa being one to one.  All of it runs under ioctl_lock: the guest is  *)
(* never running meanwhile.                                                    *)
EXTENDS Naturals, FiniteSets, Sequences

CONSTANTS
    Fanout,        \* entries per table (512)
    Tables,        \* memory for tables
    Frames,        \* page frames of user space
    Apic,          \* the frame of vcpu->apic_access
    ApicGfn,       \* where the guest finds it (0xfee00000)
    NULL,
    HostPages,     \* pages of user space, numbers
    Bases,         \* guest_phys_addr of regions, as page numbers
    MaxPages,      \* pages in a region
    MaxCalls       \* calls of KVM_SET_USER_MEMORY_REGION

ASSUME EptConstants ==
    /\ Fanout \in Nat \ {0} /\ MaxPages \in Nat /\ MaxCalls \in Nat
    /\ IsFiniteSet(Tables)
    /\ Bases \subseteq Nat /\ HostPages \subseteq Nat
    /\ ApicGfn \in Nat
    /\ NULL \notin Tables \cup Frames \cup {Apic}
    /\ Tables \cap (Frames \cup {Apic}) = {}

VARIABLES
    root,      \* vcpu->pml4
    alloc,     \* tables allocated
    phys,      \* first page of every table
    virt,      \* second page
    host,      \* the frame behind every page of user space
    call,      \* the region being mapped, or the last one, with the frames found
               \* for its pages so far: off is their number
    freed,     \* tables freed by the last ept_free, with multiplicity
    calls      \* calls so far, for the bound MaxCalls

vars == <<root, alloc, phys, virt, host, call, freed, calls>>

Idx == 0 .. Fanout - 1

\* Pages below one entry of a table of level l: the leaves are level 0.
Span(l) ==
    CASE l = 0 -> 1
      [] l = 1 -> Fanout
      [] l = 2 -> Fanout * Fanout
      [] l = 3 -> Fanout * Fanout * Fanout
      [] l = 4 -> Fanout * Fanout * Fanout * Fanout

Gfns == 0 .. Span(4) - 1

\* The leaf index taken from the bits of the level above.
IndexNoLeaf(g, l) == (g \div Span(IF l = 0 THEN 1 ELSE l)) % Fanout

\* The index of page g in a table of level l.  Address bits above the fourth level
\* are cut off.
Index(g, l) == (g \div Span(l)) % Fanout

Empty == [i \in Idx |-> NULL]
NoCall == [pc |-> "idle", base |-> 0, from |-> 0, size |-> 0, pas |-> <<>>, ret |-> "ok"]

Init ==
    /\ root = NULL /\ alloc = {} /\ freed = {}
    /\ phys = [t \in Tables |-> Empty] /\ virt = [t \in Tables |-> Empty]
    /\ host \in [HostPages -> Frames]
    /\ call = NoCall /\ calls = 0

-----------------------------------------------------------------------------
\* The walk through one half of the tables, as far as it goes.
Walk(half, r, g) ==
    LET Down(t, l) == IF t = NULL THEN NULL ELSE half[t][Index(g, l)]
    IN Down(Down(Down(r, 3), 2), 1)

\* ept_translate: down the second pages, the last table has one page only.
EptTranslate(g) ==
    LET pt == Walk(virt, root, g) IN IF pt = NULL THEN NULL ELSE phys[pt][Index(g, 0)]

\* What the processor does with EPT_POINTER: first pages only.
HardwareWalk(g) ==
    LET pt == Walk(phys, root, g) IN IF pt = NULL THEN NULL ELSE phys[pt][Index(g, 0)]

-----------------------------------------------------------------------------
\* IOCallocAligned returns zeroed memory that is not in use.  Its result is never
\* tested: the model has the calls for which there is memory left.
Malloc(used) == CHOOSE t \in Tables \ used : TRUE
Room(n) == Cardinality(Tables \ alloc) >= n

\* The memory of the tables as one value, which ept_add_page changes step by step.
Heap == [alloc |-> alloc, phys |-> phys, virt |-> virt]
SetHeap(h) == alloc' = h.alloc /\ phys' = h.phys /\ virt' = h.virt

\* A table the processor does not see.
EnsureNoPhys(h, t, i) ==
    IF h.virt[t][i] # NULL THEN h
    ELSE LET n == Malloc(h.alloc)
         IN [alloc |-> h.alloc \cup {n},
             phys |-> [h.phys EXCEPT ![n] = Empty],
             virt |-> [h.virt EXCEPT ![n] = Empty, ![t][i] = n]]

\* Allocate the table below entry i of t if there is none.
Ensure(h, t, i) ==
    IF h.virt[t][i] # NULL THEN h
    ELSE LET n == Malloc(h.alloc)
         IN [alloc |-> h.alloc \cup {n},
             phys |-> [h.phys EXCEPT ![n] = Empty, ![t][i] = n],
             virt |-> [h.virt EXCEPT ![n] = Empty, ![t][i] = n]]

\* ept_add_page.
EptAddPage(h, pml4, g, pa) ==
    LET i4 == Index(g, 3)
        i3 == Index(g, 2)
        i2 == Index(g, 1)
        h1 == Ensure(h, pml4, i4)
        pdpt == h1.virt[pml4][i4]
        h2 == Ensure(h1, pdpt, i3)
        pd == h2.virt[pdpt][i3]
        h3 == Ensure(h2, pd, i2)
        pt == h3.virt[pd][i2]
    IN [h3 EXCEPT !.phys[pt][Index(g, 0)] = pa]

\* ept_init allocates the top table.
EptInit ==
    LET pml4 == Malloc(alloc)
    IN [alloc |-> alloc \cup {pml4}, phys |-> [phys EXCEPT ![pml4] = Empty],
        virt |-> [virt EXCEPT ![pml4] = Empty]]

\* KVM_CREATE_VM: ept_init, and in vcpu_init the APIC page is mapped.
CreateVm ==
    /\ root = NULL /\ Room(4)
    /\ root' = Malloc(alloc)
    /\ SetHeap(EptAddPage(EptInit, root', ApicGfn, Apic))
    /\ call' = NoCall /\ freed' = {}
    /\ UNCHANGED <<host, calls>>

\* KVM_SET_USER_MEMORY_REGION, up to the loop: wiring the pages may fail.
SetRegion(base, from, size) ==
    /\ root # NULL /\ call.pc = "idle" /\ calls < MaxCalls
    /\ \E ret \in {"EINVAL", "ok"} :
         call' = [pc |-> IF ret = "ok" THEN "loop" ELSE "idle", base |-> base, from |-> from,
                  size |-> size, pas |-> <<>>, ret |-> ret]
    /\ calls' = calls + 1
    /\ UNCHANGED <<root, alloc, phys, virt, host, freed>>

Off == Len(call.pas)

\* ept_add_page for guest page g and the frame behind page v of user space.
AddPage(g, v) ==
    /\ Room(3)
    /\ SetHeap(EptAddPage(Heap, root, g, host[v]))
    /\ call' = [call EXCEPT !.pas = Append(@, host[v])]
    /\ UNCHANGED <<root, host, freed, calls>>

\* Every page mapped where the first belongs.
MapPageNoOffset ==
    call.pc = "loop" /\ Off < call.size /\ AddPage(call.base, call.from + Off)

\* A round of the loop.
MapPage ==
    call.pc = "loop" /\ Off < call.size /\ AddPage(call.base + Off, call.from + Off)

\* "couldn't find vpage": the pages mapped before stay mapped.
MapFails ==
    /\ call.pc = "loop" /\ Off < call.size
    /\ call' = [call EXCEPT !.pc = "idle", !.ret = "EINVAL"]
    /\ UNCHANGED <<root, alloc, phys, virt, host, freed, calls>>

RegionDone ==
    /\ call.pc = "loop" /\ Off = call.size
    /\ call' = [call EXCEPT !.pc = "idle"]
    /\ UNCHANGED <<root, alloc, phys, virt, host, freed, calls>>

\* The tables ept_free reaches: each with the entries on the way to it, so that a
\* table reached twice is freed twice.
Children(t) == {<<i, virt[t][i]>> : i \in {j \in Idx : virt[t][j] # NULL}}

\* The leaves forgotten.
EptFreeNoLeaves ==
    LET pdpts == {<<<<a[1]>>, a[2]>> : a \in Children(root)}
        pds == UNION {{<<<<a[1][1], b[1]>>, b[2]>> : b \in Children(a[2])} : a \in pdpts}
    IN pds \cup pdpts \cup {<<<<>>, root>>}

EptFree ==
    LET pdpts == {<<<<a[1]>>, a[2]>> : a \in Children(root)}
        pds == UNION {{<<<<a[1][1], b[1]>>, b[2]>> : b \in Children(a[2])} : a \in pdpts}
        pts == UNION {{<<<<a[1][1], a[1][2], b[1]>>, b[2]>> : b \in Children(a[2])} : a \in pds}
    IN pts \cup pds \cup pdpts \cup {<<<<>>, root>>}

\* The last close: ept_free.  The contents of freed memory stay.
Close ==
    /\ root # NULL /\ call.pc = "idle"
    /\ freed' = EptFree
    /\ alloc' = alloc \ {f[2] : f \in EptFree}
    /\ root' = NULL
    /\ UNCHANGED <<phys, virt, host, call, calls>>

\* User space maps other memory where it had memory before.
HostMmap(v, f) ==
    /\ call.pc = "idle"
    /\ host' = [host EXCEPT ![v] = f]
    /\ UNCHANGED <<root, alloc, phys, virt, call, freed, calls>>

Next ==
    \/ CreateVm
    \/ \E base \in Bases, from \in HostPages, size \in 0 .. MaxPages :
         /\ \A k \in 0 .. size : k < size => from + k \in HostPages
         /\ SetRegion(base, from, size)
    \/ MapPage \/ MapFails \/ RegionDone
    \/ Close
    \/ \E v \in HostPages, f \in Frames : HostMmap(v, f)

Spec == Init /\ [][Next]_vars

-----------------------------------------------------------------------------
\* The processor and the kext see the same guest memory: the two halves of the
\* tables never drift apart, whatever regions were mapped, overlapped or given
\* up half way, and whatever the memory of the tables was used for before.
WalksAgree == \A g \in Gfns : HardwareWalk(g) = EptTranslate(g)

\* A region whose call returned 0 is mapped to the last page; one given up in the
\* middle is mapped up to there, and the caller is told.
RegionMapped ==
    root # NULL /\ call.size < Span(4) =>
        /\ \A k \in 1 .. Off : HardwareWalk((call.base + k - 1) % Span(4)) = call.pas[k]
        /\ call.pc = "idle" /\ call.ret = "ok" => Off = call.size

\* ept_free returns every table, and none of them twice.
FreedOnce ==
    root = NULL => alloc = {} /\ \A a, b \in freed : a[2] = b[2] => a = b

\* Mapping a page changes that guest page and no other one, in what the processor
\* sees: the tables implement a map from guest pages to frames.
Abstract == INSTANCE EptMap WITH
    Frames <- Frames \cup {Apic}, Unmapped <- NULL, map <- [g \in Gfns |-> HardwareWalk(g)]
ImplementsMap == Abstract!Spec
=============================================================================
