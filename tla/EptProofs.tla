------------------------------- MODULE EptProofs -------------------------------
(* Proofs about the extended page tables, for tables of any size, any memory     *)
(* and any regions: the two halves of the tables agree, a region is mapped page  *)
(* by page, ept_free returns every table once, and the tables are a map from     *)
(* guest pages to frames.                                                       *)
EXTENDS EptTreeProofs

\* Leaves are for the SMT solver unless they name another prover.
USE SMTT(30)

-----------------------------------------------------------------------------
(* ept_free *)

\* The tables ept_free reaches below the top one, level by level.
Pdpts == {<<<<a[1]>>, a[2]>> : a \in Children(root)}
Pds == UNION {{<<<<a[1][1], b[1]>>, b[2]>> : b \in Children(a[2])} : a \in Pdpts}
Pts == UNION {{<<<<a[1][1], a[1][2], b[1]>>, b[2]>> : b \in Children(a[2])} : a \in Pds}

\* ept_free frees the three levels and the top table.
LEMMA FreeLayers == EptFree = Pts \cup Pds \cup Pdpts \cup {<<<<>>, root>>}
  BY DEF EptFree, Pts, Pds, Pdpts

\* The children of a table of the tree.
LEMMA ChildrenBelow ==
  ASSUME NEW lev, NEW up, NEW slot, HeapType(Heap), Tree(Heap, root, lev, up, slot),
         NEW t \in alloc
  PROVE  Children(t) = {<<slot[n], n>> : n \in {x \in alloc : x # root /\ up[x] = t}}
<1>1. Heap.alloc = alloc /\ Heap.virt = virt
  BY DEF Heap
<1>2. ASSUME NEW c \in Children(t) PROVE \E n \in alloc : n # root /\ up[n] = t /\ c = <<slot[n], n>>
  <2>1. PICK i \in Idx : virt[t][i] # NULL /\ c = <<i, virt[t][i]>>
    BY <1>2 DEF Children
  <2>2. virt[t][i] \in alloc /\ virt[t][i] # root /\ up[virt[t][i]] = t /\ slot[virt[t][i]] = i
    BY <1>1, <2>1 DEF Tree, Once
  <2> QED
    BY <2>1, <2>2
<1>3. ASSUME NEW n \in alloc, n # root, up[n] = t PROVE <<slot[n], n>> \in Children(t)
  <2>1. slot[n] \in Idx /\ virt[t][slot[n]] = n /\ n # NULL
    BY <1>1, <1>3, EptConstants DEF Tree, Hangs, HeapType
  <2> QED
    BY <2>1 DEF Children
<1> QED
  BY <1>2, <1>3

\* The levels of the tree, as ept_free reaches them: each table once, with its own path.
LEMMA LayersOfTree ==
  ASSUME NEW lev, NEW up, NEW slot, HeapType(Heap), Tree(Heap, root, lev, up, slot)
  PROVE  /\ Pdpts = {<<<<slot[t]>>, t>> : t \in {x \in alloc : lev[x] = 2}}
         /\ Pds = {<<<<slot[up[t]], slot[t]>>, t>> : t \in {x \in alloc : lev[x] = 1}}
         /\ Pts = {<<<<slot[up[up[t]]], slot[up[t]], slot[t]>>, t>> :
                     t \in {x \in alloc : lev[x] = 0}}
<1> DEFINE L(m) == {x \in alloc : lev[x] = m}
<1>1. Heap.alloc = alloc /\ Heap.virt = virt
  BY DEF Heap
<1>2. /\ root \in alloc /\ lev[root] = 3 /\ alloc \subseteq Tables
      /\ \A t \in alloc : lev[t] \in 0 .. 3
      /\ \A t \in alloc : t # root => up[t] \in alloc /\ lev[up[t]] = lev[t] + 1
  BY <1>1 DEF Tree, Hangs, HeapType
<1>3. \A t \in L(3) : t = root
  BY <1>2
<1>4. \A t \in alloc, n \in alloc : n # root /\ up[n] = t => lev[t] = lev[n] + 1
  BY <1>2
<1>5. \A t \in L(2) : t # root /\ up[t] = root
  BY <1>2, <1>3
<1>6. \A t \in L(1) : t # root /\ up[t] \in L(2)
  BY <1>2
<1>7. \A t \in L(0) : t # root /\ up[t] \in L(1)
  BY <1>2
<1>8. \A t \in alloc :
        Children(t) = {<<slot[n], n>> : n \in {x \in alloc : x # root /\ up[x] = t}}
  BY ChildrenBelow
<1>9. Pdpts = {<<<<slot[t]>>, t>> : t \in L(2)}
  <2>1. Children(root) = {<<slot[n], n>> : n \in L(2)}
    <3>1. {x \in alloc : x # root /\ up[x] = root} = L(2)
      BY <1>2, <1>5
    <3> QED
      BY <1>2, <1>8, <3>1
  <2>2. ASSUME NEW f \in Pdpts PROVE \E t \in L(2) : f = <<<<slot[t]>>, t>>
    <3>1. PICK a \in Children(root) : f = <<<<a[1]>>, a[2]>>
      BY <2>2 DEF Pdpts
    <3>2. PICK t \in L(2) : a = <<slot[t], t>>
      BY <2>1
    <3> QED
      BY <3>1, <3>2
  <2>3. ASSUME NEW t \in L(2) PROVE <<<<slot[t]>>, t>> \in Pdpts
    <3> DEFINE a == <<slot[t], t>>
    <3>1. a \in Children(root) /\ <<<<slot[t]>>, t>> = <<<<a[1]>>, a[2]>>
      BY <2>1
    <3> HIDE DEF a
    <3> QED
      BY <3>1 DEF Pdpts
  <2> HIDE DEF L
  <2> QED
    BY <2>2, <2>3
<1>10. Pds = {<<<<slot[up[t]], slot[t]>>, t>> : t \in L(1)}
  <2>1. ASSUME NEW f \in Pds PROVE \E t \in L(1) : f = <<<<slot[up[t]], slot[t]>>, t>>
    <3>1. PICK a \in Pdpts : f \in {<<<<a[1][1], b[1]>>, b[2]>> : b \in Children(a[2])}
      BY <2>1 DEF Pds
    <3>2. PICK s \in L(2) : a = <<<<slot[s]>>, s>>
      BY <1>9
    <3>3. a[1][1] = slot[s] /\ a[2] = s
      BY <3>2
    <3>4. PICK b \in Children(s) : f = <<<<slot[s], b[1]>>, b[2]>>
      BY <3>1, <3>3
    <3>5. PICK t \in alloc : t # root /\ up[t] = s /\ b = <<slot[t], t>>
      BY <1>8, <3>2, <3>4
    <3>6. t \in L(1)
      BY <1>2, <3>2, <3>5
    <3> QED
      BY <3>4, <3>5, <3>6
  <2>2. ASSUME NEW t \in L(1) PROVE <<<<slot[up[t]], slot[t]>>, t>> \in Pds
    <3> DEFINE a == <<<<slot[up[t]]>>, up[t]>>
               b == <<slot[t], t>>
    <3>1. a \in Pdpts
      BY <1>6, <1>9
    <3>2. b \in Children(a[2])
      BY <1>6, <1>8
    <3>3. <<<<slot[up[t]], slot[t]>>, t>> = <<<<a[1][1], b[1]>>, b[2]>>
      OBVIOUS
    <3> HIDE DEF a, b
    <3> QED
      BY <3>1, <3>2, <3>3 DEF Pds
  <2> HIDE DEF L
  <2> QED
    BY <2>1, <2>2
<1>11. Pts = {<<<<slot[up[up[t]]], slot[up[t]], slot[t]>>, t>> : t \in L(0)}
  <2>1. ASSUME NEW f \in Pts
        PROVE  \E t \in L(0) : f = <<<<slot[up[up[t]]], slot[up[t]], slot[t]>>, t>>
    <3>1. PICK a \in Pds : f \in {<<<<a[1][1], a[1][2], b[1]>>, b[2]>> : b \in Children(a[2])}
      BY <2>1 DEF Pts
    <3>2. PICK s \in L(1) : a = <<<<slot[up[s]], slot[s]>>, s>>
      BY <1>10
    <3>3. a[1][1] = slot[up[s]] /\ a[1][2] = slot[s] /\ a[2] = s
      BY <3>2
    <3>4. PICK b \in Children(s) : f = <<<<slot[up[s]], slot[s], b[1]>>, b[2]>>
      BY <3>1, <3>3
    <3>5. PICK t \in alloc : t # root /\ up[t] = s /\ b = <<slot[t], t>>
      BY <1>8, <3>2, <3>4
    <3>6. t \in L(0)
      BY <1>2, <3>2, <3>5
    <3> QED
      BY <3>4, <3>5, <3>6
  <2>2. ASSUME NEW t \in L(0) PROVE <<<<slot[up[up[t]]], slot[up[t]], slot[t]>>, t>> \in Pts
    <3> DEFINE a == <<<<slot[up[up[t]]], slot[up[t]]>>, up[t]>>
               b == <<slot[t], t>>
    <3>1. a \in Pds
      BY <1>7, <1>10
    <3>2. b \in Children(a[2])
      BY <1>7, <1>8
    <3>3. <<<<slot[up[up[t]]], slot[up[t]], slot[t]>>, t>> = <<<<a[1][1], a[1][2], b[1]>>, b[2]>>
      OBVIOUS
    <3> HIDE DEF a, b
    <3> QED
      BY <3>1, <3>2, <3>3 DEF Pts
  <2> HIDE DEF L
  <2> QED
    BY <2>1, <2>2
<1> QED
  BY <1>9, <1>10, <1>11

\* ept_free returns all the tables there are, and none twice.
LEMMA FreesAll ==
  ASSUME IsTree(Heap, root)
  PROVE  /\ \A t \in alloc : \E f \in EptFree : f[2] = t
         /\ \A a, b \in EptFree : a[2] = b[2] => a = b
<1>1. PICK lev, up, slot : Tree(Heap, root, lev, up, slot)
  BY DEF IsTree
<1>2. /\ root \in alloc /\ lev[root] = 3 /\ \A t \in alloc : lev[t] \in 0 .. 3
      /\ \A t \in alloc : lev[t] = 3 => t = root
  <2>1. Heap.alloc = alloc /\ alloc \subseteq Tables
    BY DEF Heap, IsTree, HeapType
  <2>2. root \in alloc /\ lev[root] = 3 /\ \A t \in alloc : lev[t] \in 0 .. 3
    BY <1>1, <2>1 DEF Tree
  <2>3. \A t \in alloc : t # root => up[t] \in alloc /\ lev[up[t]] = lev[t] + 1
    BY <1>1, <2>1 DEF Tree, Hangs
  <2> QED
    BY <2>2, <2>3
<1>3. \A f \in Pdpts : \E t \in alloc : lev[t] = 2 /\ f = <<<<slot[t]>>, t>>
  BY <1>1, LayersOfTree DEF IsTree
<1>4. \A f \in Pds : \E t \in alloc : lev[t] = 1 /\ f = <<<<slot[up[t]], slot[t]>>, t>>
  BY <1>1, LayersOfTree DEF IsTree
<1>5. \A f \in Pts : \E t \in alloc :
         lev[t] = 0 /\ f = <<<<slot[up[up[t]]], slot[up[t]], slot[t]>>, t>>
  BY <1>1, LayersOfTree DEF IsTree
<1>6. ASSUME NEW t \in alloc PROVE \E f \in EptFree : f[2] = t
  <2>1. lev[t] = 0 \/ lev[t] = 1 \/ lev[t] = 2 \/ lev[t] = 3
    BY <1>2
  <2>2. CASE lev[t] = 0
    <3>1. <<<<slot[up[up[t]]], slot[up[t]], slot[t]>>, t>> \in Pts
      BY <1>1, <2>2, LayersOfTree DEF IsTree
    <3> QED
      BY <3>1, FreeLayers
  <2>3. CASE lev[t] = 1
    <3>1. <<<<slot[up[t]], slot[t]>>, t>> \in Pds
      BY <1>1, <2>3, LayersOfTree DEF IsTree
    <3> QED
      BY <3>1, FreeLayers
  <2>4. CASE lev[t] = 2
    <3>1. <<<<slot[t]>>, t>> \in Pdpts
      BY <1>1, <2>4, LayersOfTree DEF IsTree
    <3> QED
      BY <3>1, FreeLayers
  <2>5. CASE lev[t] = 3
    <3>1. <<<<>>, root>> \in EptFree /\ <<<<>>, root>>[2] = t
      BY <1>2, <2>5, FreeLayers
    <3> QED
      BY <3>1
  <2> QED
    BY <2>1, <2>2, <2>3, <2>4, <2>5
\* The way to a table, by its level.
<1> DEFINE Way(t) == IF lev[t] = 0 THEN <<<<slot[up[up[t]]], slot[up[t]], slot[t]>>, t>>
                     ELSE IF lev[t] = 1 THEN <<<<slot[up[t]], slot[t]>>, t>>
                     ELSE IF lev[t] = 2 THEN <<<<slot[t]>>, t>>
                     ELSE <<<<>>, root>>
<1>7. ASSUME NEW f \in EptFree PROVE f = Way(f[2])
  <2>1. CASE f \in Pts
    BY <1>5, <2>1
  <2>2. CASE f \in Pds
    BY <1>4, <2>2
  <2>3. CASE f \in Pdpts
    BY <1>3, <2>3
  <2>4. CASE f = <<<<>>, root>>
    <3>1. f[2] = root
      BY <2>4
    <3> QED
      BY <1>2, <2>4, <3>1
  <2> QED
    BY <2>1, <2>2, <2>3, <2>4, FreeLayers
<1> HIDE DEF Way
<1>8. ASSUME NEW a \in EptFree, NEW b \in EptFree, a[2] = b[2] PROVE a = b
  BY Zenon, <1>7, <1>8
<1> QED
  BY <1>6, <1>8

-----------------------------------------------------------------------------
(* The invariant *)

Calls == [pc : {"idle", "loop"}, base : Nat, from : Nat, size : Nat,
          pas : Seq(Frames), ret : {"ok", "EINVAL"}]

\* The region being mapped is in user space, and so many pages of it are mapped.
CallOK ==
    /\ call \in Calls
    /\ Off <= call.size
    /\ call.pc = "loop" => \A k \in Nat : k < call.size => call.from + k \in HostPages
    /\ call.pc = "idle" /\ call.ret = "ok" => Off = call.size

FreedApart == \A a, b \in freed : a[2] = b[2] => a = b

EptInv ==
    /\ HeapType(Heap) /\ host \in [HostPages -> Frames] /\ CallOK
    /\ root = NULL => alloc = {} /\ call.pc = "idle" /\ FreedApart
    /\ root # NULL => IsTree(Heap, root)
    /\ RegionMapped

\* HardwareWalk is the walk of the heap.
LEMMA HwIs == ASSUME NEW g PROVE HardwareWalk(g) = HwSeen(Heap, root, g)
  BY DEF HardwareWalk, HwSeen, Heap, Down

\* A heap that SetHeap stores is the next heap.
LEMMA HeapIs == ASSUME NEW h, HeapType(h), SetHeap(h) PROVE Heap' = h
  BY DEF HeapType, SetHeap, Heap

\* Two pages of a region shorter than the address space are different pages.
LEMMA ModDiffer ==
  ASSUME NEW a \in Nat, NEW b \in Nat, NEW m \in Nat \ {0}, a < b, b - a < m
  PROVE  a % m # b % m
<1>1. /\ a \div m \in Nat /\ a % m \in 0 .. m - 1 /\ a = m * (a \div m) + (a % m)
      /\ b \div m \in Nat /\ b % m \in 0 .. m - 1 /\ b = m * (b \div m) + (b % m)
  BY Zenon, DivMod
<1> DEFINE p == a \div m
           q == b \div m
           x == a % m
           y == b % m
<1> HIDE DEF p, q, x, y
<1>2. ASSUME x = y PROVE FALSE
  <2>1. b - a = m * (q - p) /\ p \in Nat /\ q \in Nat
    BY <1>1, <1>2, Z3 DEF p, q, x, y
  <2>2. q - p > 0 /\ q - p \in Int
    BY <2>1, Z3
  <2> QED
    BY <2>1, <2>2, Z3
<1> QED
  BY <1>2 DEF x, y

\* The first states have no tables.
LEMMA InitEpt == Init => EptInv
<1> SUFFICES ASSUME Init PROVE EptInv
  OBVIOUS
<1>1. Empty \in [Idx -> Tables \cup {NULL}] /\ Empty \in [Idx -> Tables \cup Leaves]
  BY DEF Empty, Leaves
<1>2. HeapType(Heap)
  BY <1>1 DEF Init, HeapType, Heap
<1>3. Off = 0 /\ call.pas = <<>>
  BY DEF Init, NoCall, Off
<1>4. CallOK
  BY <1>3 DEF Init, NoCall, CallOK, Calls
<1>5. RegionMapped
  BY DEF Init, RegionMapped
<1> QED
  BY <1>2, <1>4, <1>5 DEF Init, NoCall, EptInv, FreedApart

\* ept_init: a tree of one table, in which no page is mapped.
LEMMA NewRoot ==
  ASSUME HeapType(Heap), alloc = {}, Room(4)
  PROVE  /\ IsTree(EptInit, Malloc(alloc)) /\ Spare(EptInit, 3) /\ Malloc(alloc) # NULL
         /\ \A f \in Nat : Seen(EptInit, Malloc(alloc), f) = NULL
<1> DEFINE r == Malloc(alloc)
           h == EptInit
<1>1. Heap.alloc = alloc /\ Heap.phys = phys /\ Heap.virt = virt
  BY DEF Heap
<1>2. r \in Tables \ alloc
  <2>1. ASSUME Tables \ alloc = {} PROVE FALSE
    BY <2>1, FS_EmptySet DEF Room
  <2> QED
    BY <2>1 DEF Malloc
<1> HIDE DEF r
<1>3. h = [alloc |-> alloc \cup {r}, phys |-> [phys EXCEPT ![r] = Empty], virt |-> [virt EXCEPT ![r] = Empty]]
  BY DEF EptInit, r
<1> HIDE DEF h
<1>4. Empty \in [Idx -> Tables \cup {NULL}] /\ Empty \in [Idx -> Tables \cup Leaves]
  BY DEF Empty, Leaves
<1>5. /\ h.phys \in [Tables -> [Idx -> Tables \cup Leaves]]
      /\ h.virt \in [Tables -> [Idx -> Tables \cup {NULL}]]
  BY <1>1, <1>2, <1>3, <1>4, ClearType DEF HeapType
<1>6. HeapType(h)
  BY <1>2, <1>3, <1>5 DEF HeapType
<1>7. h.alloc = {r} /\ \A i \in Idx : h.phys[r][i] = NULL /\ h.virt[r][i] = NULL
  BY <1>1, <1>2, <1>3 DEF HeapType, Empty
<1>8. 0 \in Idx /\ NULL \notin Tables
  BY EptConstants DEF Idx
<1>9. Tree(h, r, [t \in Tables |-> 3], [t \in Tables |-> r], [t \in Tables |-> 0])
  BY <1>2, <1>7, <1>8 DEF Tree, Hangs, Once, Halves, Leaves
<1>10. Spare(Heap, 3 + 1)
  BY <1>1 DEF Room, Spare
<1>11. Spare(h, 3)
  BY <1>1, <1>2, <1>3, <1>10, SpareLess
<1>12. ASSUME NEW f \in Nat PROVE Seen(h, r, f) = NULL
  <2>1. Index(f, 3) \in Idx
    BY IndexIn
  <2>2. Down(h.virt, r, Index(f, 3)) = NULL
    BY <1>7, <2>1 DEF Down
  <2> QED
    BY <2>2, WalkDown DEF Seen, Down
<1> QED
  BY <1>2, <1>6, <1>8, <1>9, <1>11, <1>12 DEF IsTree, r, h

\* KVM_CREATE_VM maps the APIC page and no other.
LEMMA CreateVmMaps ==
  ASSUME EptInv, CreateVm
  PROVE  /\ IsTree(Heap', root') /\ root' # NULL
         /\ \A f \in Nat : HardwareWalk(f)' = IF SamePage(f, ApicGfn) THEN Apic ELSE NULL
<1> DEFINE r == Malloc(alloc)
           h == EptInit
           k == EptAddPage(h, r, ApicGfn, Apic)
<1>1. HeapType(Heap) /\ alloc = {} /\ Room(4) /\ root' = r /\ SetHeap(k)
  BY DEF EptInv, CreateVm
<1>2. /\ IsTree(h, r) /\ Spare(h, 3) /\ r # NULL
      /\ \A f \in Nat : Seen(h, r, f) = NULL
  BY <1>1, NewRoot
<1>3. ApicGfn \in Nat /\ Apic \in Frames \cup {Apic}
  BY EptConstants
<1> HIDE DEF r, h
<1>4. IsTree(k, r) /\ \A f \in Nat : Seen(k, r, f) = IF SamePage(f, ApicGfn) THEN Apic ELSE NULL
  BY <1>2, <1>3, AddPageMaps
<1> HIDE DEF k
<1>5. Heap' = k
  BY <1>1, <1>4, HeapIs DEF IsTree
<1>6. ASSUME NEW f \in Nat PROVE HardwareWalk(f)' = Seen(k, r, f)
  <2>1. HardwareWalk(f)' = HwSeen(k, r, f)
    BY <1>1, <1>5 DEF HardwareWalk, HwSeen, Heap, Down
  <2> QED
    BY <1>4, <2>1, HalvesAgree
<1> QED
  BY <1>1, <1>2, <1>4, <1>5, <1>6

\* A round of KVM_SET_USER_MEMORY_REGION maps its page and leaves the others alone.
LEMMA AddPageStep ==
  ASSUME EptInv, root # NULL, NEW g \in Nat, NEW v \in HostPages, AddPage(g, v)
  PROVE  /\ IsTree(Heap', root') /\ root' = root
         /\ \A f \in Nat : HardwareWalk(f)' = IF SamePage(f, g) THEN host[v] ELSE HardwareWalk(f)
<1> DEFINE k == EptAddPage(Heap, root, g, host[v])
<1>1. IsTree(Heap, root) /\ host[v] \in Frames \cup {Apic}
  BY DEF EptInv
<1>2. Spare(Heap, 3) /\ SetHeap(k) /\ root' = root
  BY DEF AddPage, Room, Spare, Heap
<1>3. IsTree(k, root) /\ \A f \in Nat : Seen(k, root, f) = IF SamePage(f, g) THEN host[v] ELSE Seen(Heap, root, f)
  BY <1>1, <1>2, AddPageMaps
<1> HIDE DEF k
<1>4. Heap' = k
  BY <1>2, <1>3, HeapIs DEF IsTree
<1>5. ASSUME NEW f \in Nat PROVE HardwareWalk(f)' = Seen(k, root, f) /\ HardwareWalk(f) = Seen(Heap, root, f)
  <2>1. HardwareWalk(f)' = HwSeen(k, root, f)
    BY <1>2, <1>4 DEF HardwareWalk, HwSeen, Heap, Down
  <2>2. HardwareWalk(f) = HwSeen(Heap, root, f)
    BY HwIs
  <2> QED
    BY <1>1, <1>3, <2>1, <2>2, HalvesAgree
<1> QED
  BY <1>2, <1>3, <1>4, <1>5

\* A round of the loop is for a page of the region.
LEMMA RoundOf ==
  ASSUME EptInv, MapPage
  PROVE  /\ root # NULL /\ Off \in Nat /\ Off < call.size
         /\ call.base + Off \in Nat /\ call.from + Off \in HostPages
         /\ AddPage(call.base + Off, call.from + Off)
<1>1. call.pas \in Seq(Frames) /\ call.base \in Nat /\ call.size \in Nat
  BY DEF EptInv, CallOK, Calls
<1>2. Off \in Nat
  BY <1>1 DEF Off
<1>3. call.pc = "loop" /\ Off < call.size
  BY DEF MapPage
<1>4. call.from + Off \in HostPages
  BY <1>2, <1>3 DEF EptInv, CallOK
<1>5. root # NULL
  BY <1>3 DEF EptInv
<1> QED
  BY <1>1, <1>2, <1>3, <1>4, <1>5 DEF MapPage

\* Mapping the next page of a region leaves its earlier pages mapped, also across the top of
\* the address space.
LEMMA MapPageInv == ASSUME EptInv, MapPage PROVE EptInv'
<1> DEFINE g == call.base + Off
           v == call.from + Off
<1>1. /\ root # NULL /\ Off \in Nat /\ Off < call.size
      /\ g \in Nat /\ v \in HostPages /\ AddPage(g, v)
  BY RoundOf
<1>2. /\ IsTree(Heap', root') /\ root' = root
      /\ \A f \in Nat : HardwareWalk(f)' = IF SamePage(f, g) THEN host[v] ELSE HardwareWalk(f)
  BY <1>1, AddPageStep
<1>3. call \in Calls /\ host \in [HostPages -> Frames] /\ call.pc = "loop"
  BY DEF EptInv, CallOK, MapPage
<1> HIDE DEF g, v
<1>4. host' = host /\ call' = [call EXCEPT !.pas = Append(call.pas, host[v])]
  BY <1>1 DEF AddPage
<1>a. call.base \in Nat /\ call.size \in Nat /\ call.from \in Nat /\ call.pas \in Seq(Frames)
  BY <1>3 DEF Calls
<1>b. host[v] \in Frames
  BY <1>1, <1>3
<1>c. Append(call.pas, host[v]) \in Seq(Frames)
  BY <1>a, <1>b
<1>d. call' \in Calls
  BY Zenon, <1>3, <1>4, <1>c DEF Calls
<1>5. /\ call'.pas = Append(call.pas, host[v]) /\ call'.base = call.base
      /\ call'.size = call.size /\ call'.pc = "loop" /\ call'.from = call.from
  BY <1>3, <1>4 DEF Calls
<1>6. /\ Off' = Off + 1 /\ call'.pas[Off + 1] = host[v]
      /\ \A k \in 1 .. Off : call'.pas[k] = call.pas[k]
  BY <1>a, <1>b, <1>5 DEF Off
<1>7. CallOK'
  BY <1>1, <1>3, <1>a, <1>d, <1>5, <1>6 DEF CallOK, EptInv
<1>8. ASSUME call.size < Span(4), NEW k \in 1 .. Off + 1, NEW f, f = (call.base + k - 1) % Span(4)
      PROVE  HardwareWalk(f)' = call'.pas[k]
  <2> DEFINE a == call.base + k - 1
  <2>0. k \in Nat /\ 1 <= k /\ k <= Off + 1 /\ Span(4) \in Nat \ {0} /\ f = a % Span(4)
    BY <1>1, <1>8, Spans
  <2>1. a \in Nat
    BY <1>a, <2>0
  <2> HIDE DEF a
  <2>2. f \in Gfns /\ f \in Nat
    BY <2>0, <2>1, IndexMod, Spans DEF Gfns
  <2>3. CASE k = Off + 1
    <3>1. a = g
      BY <1>1, <1>a, <2>0, <2>3 DEF a, g
    <3>2. SamePage(f, g)
      BY <1>1, <2>0, <3>1, IndexMod
    <3> QED
      BY <1>2, <1>6, <2>2, <2>3, <3>2
  <2>4. CASE k # Off + 1
    <3>0. Off \in Nat /\ Off < call.size /\ k \in Nat /\ 1 <= k /\ k <= Off
      BY <1>1, <2>0, <2>4
    <3>z. Span(4) \in Nat /\ call.size < Span(4)
      BY <1>8, <2>0
    <3>1. k \in 1 .. Off /\ a < g /\ g - a < Span(4)
      BY <1>a, <3>0, <3>z DEF a, g
    <3>2. f # g % Span(4)
      BY <1>1, <2>0, <2>1, <3>1, ModDiffer
    <3>3. ~SamePage(f, g)
      BY <1>1, <2>2, <3>2, PageOf
    <3>4. HardwareWalk(f) = call.pas[k]
      BY <1>1, <1>8, <3>1 DEF EptInv, RegionMapped
    <3> QED
      BY <1>2, <1>6, <2>2, <3>1, <3>3, <3>4
  <2> QED
    BY <2>3, <2>4
<1>9. RegionMapped'
  BY Zenon, <1>5, <1>6, <1>8 DEF RegionMapped
<1> QED
  BY <1>1, <1>2, <1>3, <1>4, <1>7, <1>9 DEF EptInv, IsTree
\* KVM_CREATE_VM starts from tables that map the APIC page only.
LEMMA CreateVmInv == ASSUME EptInv, CreateVm PROVE EptInv'
<1>1. IsTree(Heap', root') /\ root' # NULL
  BY CreateVmMaps
<1>2. host' = host /\ call' = NoCall
  BY DEF CreateVm
<1>3. Off' = 0 /\ CallOK' /\ RegionMapped'
  BY <1>2 DEF NoCall, CallOK, Calls, Off, RegionMapped
<1> QED
  BY <1>1, <1>2, <1>3 DEF EptInv, IsTree

\* The loop starts with no page mapped.
LEMMA SetRegionInv ==
  ASSUME EptInv, NEW base \in Bases, NEW from \in HostPages, NEW size \in 0 .. MaxPages,
         \A k \in 0 .. size : k < size => from + k \in HostPages, SetRegion(base, from, size)
  PROVE  EptInv'
<1>1. PICK ret \in {"EINVAL", "ok"} :
        call' = [pc |-> IF ret = "ok" THEN "loop" ELSE "idle", base |-> base, from |-> from,
                 size |-> size, pas |-> <<>>, ret |-> ret]
  BY DEF SetRegion
<1>2. base \in Nat /\ from \in Nat /\ size \in Nat
  BY EptConstants
<1>3. Off' = 0 /\ call' \in Calls
  BY <1>1, <1>2 DEF Off, Calls
<1>4. call'.size = size /\ call'.from = from /\ ~(call'.pc = "idle" /\ call'.ret = "ok")
  BY <1>1
<1>5. CallOK' /\ RegionMapped'
  BY <1>2, <1>3, <1>4 DEF CallOK, RegionMapped
<1>6. root # NULL /\ Heap' = Heap /\ root' = root /\ host' = host
  BY DEF SetRegion, Heap
<1> QED
  BY <1>5, <1>6 DEF EptInv, IsTree

\* Leaving the loop, by its end or by an error, leaves the tables alone.
LEMMA LoopEndInv == ASSUME EptInv, MapFails \/ RegionDone PROVE EptInv'
<1>1. /\ root # NULL /\ Heap' = Heap /\ root' = root /\ host' = host
      /\ phys' = phys /\ call.pc = "loop"
  BY DEF MapFails, RegionDone, Heap, EptInv
<1>2. call \in Calls
  BY DEF EptInv, CallOK
<1>3. /\ call' \in Calls /\ call'.pas = call.pas /\ call'.size = call.size
      /\ call'.base = call.base /\ call'.pc = "idle" /\ Off' = Off
      /\ call'.ret = "ok" => Off' = call'.size
  BY Zenon, <1>2 DEF MapFails, RegionDone, Calls, Off
<1>4. CallOK'
  BY <1>3 DEF CallOK, EptInv
<1>5. ASSUME NEW f PROVE HardwareWalk(f)' = HardwareWalk(f)
  BY <1>1 DEF HardwareWalk, Walk
<1>6. RegionMapped'
  <2> SUFFICES ASSUME root # NULL, call.size < Span(4)
               PROVE  \A k \in 1 .. Off : \A f : f = (call.base + k - 1) % Span(4) =>
                                                    HardwareWalk(f)' = call.pas[k]
    BY <1>1, <1>3 DEF RegionMapped
  <2> QED
    BY <1>5 DEF EptInv, RegionMapped
<1> QED
  BY <1>1, <1>4, <1>6 DEF EptInv, IsTree

\* The last close frees every table, each once.
LEMMA CloseInv == ASSUME EptInv, Close PROVE EptInv'
<1>1. IsTree(Heap, root) /\ call.pc = "idle" /\ root' = NULL /\ freed' = EptFree
  BY DEF EptInv, Close
<1>2. alloc' = {} /\ FreedApart'
  BY <1>1, FreesAll DEF Close, FreedApart
<1>3. HeapType(Heap')
  BY <1>2 DEF Close, EptInv, HeapType, Heap
<1>4. call' = call /\ host' = host
  BY DEF Close
<1>5. CallOK' /\ RegionMapped'
  BY <1>1, <1>4 DEF CallOK, RegionMapped, EptInv, Off
<1> QED
  BY <1>1, <1>2, <1>3, <1>4, <1>5 DEF EptInv
\* What user space does with its own pages changes no table.
LEMMA OthersInv ==
  ASSUME EptInv, (\E v \in HostPages, f \in Frames : HostMmap(v, f)) \/ UNCHANGED vars
  PROVE  EptInv'
<1>1. /\ UNCHANGED <<root, alloc, phys, virt, call, freed>> /\ Heap' = Heap
      /\ host' \in [HostPages -> Frames]
  BY DEF EptInv, HostMmap, vars, Heap
<1>2. ASSUME NEW f PROVE HardwareWalk(f)' = HardwareWalk(f)
  BY <1>1 DEF HardwareWalk, Walk
<1>3. RegionMapped'
  <2>1. Off' = Off
    BY <1>1 DEF Off
  <2> SUFFICES ASSUME root # NULL, call.size < Span(4)
               PROVE  /\ \A k \in 1 .. Off : \A f : f = (call.base + k - 1) % Span(4) =>
                                                    HardwareWalk(f)' = call.pas[k]
                      /\ call.pc = "idle" /\ call.ret = "ok" => Off = call.size
    BY <1>1, <2>1 DEF RegionMapped
  <2> QED
    BY <1>2 DEF EptInv, RegionMapped
<1>4. CallOK'
  BY <1>1 DEF EptInv, CallOK, Off
<1>5. FreedApart => FreedApart'
  BY <1>1 DEF FreedApart
<1> QED
  BY <1>1, <1>3, <1>4, <1>5 DEF EptInv, IsTree

\* EptInv is inductive: every operation on the tables keeps it.
LEMMA NextEpt == EptInv /\ [Next]_vars => EptInv'
<1> SUFFICES ASSUME EptInv, [Next]_vars PROVE EptInv'
  OBVIOUS
<1>1. CASE CreateVm
  BY <1>1, CreateVmInv
<1>2. CASE \E base \in Bases, from \in HostPages, size \in 0 .. MaxPages :
             /\ \A k \in 0 .. size : k < size => from + k \in HostPages
             /\ SetRegion(base, from, size)
  BY <1>2, SetRegionInv
<1>3. CASE MapPage
  BY <1>3, MapPageInv
<1>4. CASE MapFails \/ RegionDone
  BY <1>4, LoopEndInv
<1>5. CASE Close
  BY <1>5, CloseInv
<1>6. CASE (\E v \in HostPages, f \in Frames : HostMmap(v, f)) \/ UNCHANGED vars
  BY <1>6, OthersInv
<1> QED
  BY <1>1, <1>2, <1>3, <1>4, <1>5, <1>6 DEF Next

\* The inductive invariant of ept_init, ept_add_page, ept_free and the loop that maps a region.
THEOREM EptInvariance == Spec => []EptInv
<1> QED
  BY InitEpt, NextEpt, PTL DEF Spec

\* ept_translate walks the second pages.
LEMMA TranslateSees == ASSUME NEW g PROVE EptTranslate(g) = Seen(Heap, root, g)
  BY Zenon DEF EptTranslate, Walk, Seen, Heap, Down

\* The processor, walking the first pages from EPT_POINTER, and ept_translate, walking the
\* second ones, agree on every guest page.
THEOREM HalvesNeverDrift == Spec => []WalksAgree
<1>1. EptInv => WalksAgree
  <2> SUFFICES ASSUME EptInv, NEW g \in Gfns PROVE HardwareWalk(g) = EptTranslate(g)
    BY DEF WalksAgree
  <2>1. HardwareWalk(g) = HwSeen(Heap, root, g) /\ EptTranslate(g) = Seen(Heap, root, g)
    BY HwIs, TranslateSees
  <2>2. g \in Nat
    BY Spans DEF Gfns
  <2>3. CASE root = NULL
    BY <2>3 DEF HardwareWalk, EptTranslate, Walk
  <2>4. CASE root # NULL
    BY <2>1, <2>2, <2>4, HalvesAgree DEF EptInv
  <2> QED
    BY <2>3, <2>4
<1> QED
  BY <1>1, EptInvariance, PTL

\* KVM_SET_USER_MEMORY_REGION maps every page of its region, up to the one it fails at, to the
\* frame behind the page of user space it stands for: whatever the tables held before, at every
\* base and for every region smaller than the address space.
THEOREM RegionsAreMapped == Spec => []RegionMapped
<1>1. EptInv => RegionMapped
  BY DEF EptInv
<1> QED
  BY <1>1, EptInvariance, PTL

\* ept_free gives back every table that ept_init and ept_add_page allocated, none of them twice.
THEOREM TablesFreedOnce == Spec => []FreedOnce
<1>1. EptInv => FreedOnce
  BY DEF EptInv, FreedOnce, FreedApart
<1> QED
  BY <1>1, EptInvariance, PTL

\* What the processor sees, as one function.
Shown == [g \in Gfns |-> HardwareWalk(g)]

\* Without tables there is nothing to see.
LEMMA NothingShown == ASSUME root = NULL PROVE Shown = [g \in Gfns |-> NULL]
  BY DEF Shown, HardwareWalk, Walk

\* A change of one page is a step of the map.
LEMMA OnePageShown ==
  ASSUME NEW g \in Nat, NEW pa \in Frames \cup {Apic},
         \A f \in Nat : HardwareWalk(f)' = IF SamePage(f, g) THEN pa ELSE HardwareWalk(f)
  PROVE  \E a \in Gfns, b \in Frames \cup {Apic} : Shown' = [Shown EXCEPT ![a] = b]
<1> DEFINE a == g % Span(4)
<1>1. a \in Gfns /\ \A f \in Gfns : f \in Nat /\ (SamePage(f, g) <=> f = a)
  BY IndexMod, PageOf, Spans DEF Gfns
<1> HIDE DEF a
<1>2. ASSUME NEW f \in Gfns
      PROVE  HardwareWalk(f)' = [Shown EXCEPT ![a] = pa][f]
  BY <1>1 DEF Shown
<1>3. Shown' = [f \in Gfns |-> [Shown EXCEPT ![a] = pa][f]]
  BY <1>2 DEF Shown
<1>4. Shown' = [Shown EXCEPT ![a] = pa]
  BY Zenon, <1>3 DEF Shown
<1> QED
  BY Zenon, <1>1, <1>4

\* Every operation shows the processor one more page, throws the map away or changes nothing.
LEMMA EptStepImplements ==
  ASSUME EptInv, EptInv', [Next]_vars
  PROVE  [Abstract!Next]_Shown
<1>1. CASE CreateVm
  <2>1. root = NULL /\ ApicGfn \in Nat
    BY <1>1, EptConstants DEF CreateVm
  <2>2. \A f \in Nat : HardwareWalk(f)' = IF SamePage(f, ApicGfn) THEN Apic ELSE HardwareWalk(f)
    BY Zenon, <1>1, <2>1, CreateVmMaps DEF HardwareWalk, Walk
  <2>3. \E a \in Gfns, b \in Frames \cup {Apic} : Shown' = [Shown EXCEPT ![a] = b]
    BY <2>1, <2>2, OnePageShown
  <2> QED
    BY Zenon, <2>3 DEF Abstract!Next, Abstract!Map, Shown
<1>2. CASE MapPage
  <2> DEFINE g == call.base + Off
             v == call.from + Off
  <2>1. root # NULL /\ g \in Nat /\ v \in HostPages /\ AddPage(g, v)
    BY <1>2, RoundOf
  <2> HIDE DEF g, v
  <2>2. host[v] \in Frames
    BY <2>1 DEF EptInv
  <2>3. \A f \in Nat : HardwareWalk(f)' = IF SamePage(f, g) THEN host[v] ELSE HardwareWalk(f)
    BY <2>1, AddPageStep
  <2>4. \E a \in Gfns, b \in Frames \cup {Apic} : Shown' = [Shown EXCEPT ![a] = b]
    BY <2>1, <2>2, <2>3, OnePageShown
  <2> QED
    BY Zenon, <2>4 DEF Abstract!Next, Abstract!Map, Shown
<1>3. CASE Close
  <2>1. Shown' = [g \in Gfns |-> NULL]
    BY <1>3 DEF Close, Shown, HardwareWalk, Walk
  <2> QED
    BY <2>1 DEF Abstract!Next, Abstract!Discard, Shown
<1>4. CASE UNCHANGED <<root, phys>>
  BY <1>4 DEF Shown, HardwareWalk, Walk
<1> QED
  BY <1>1, <1>2, <1>3, <1>4 DEF Next, SetRegion, MapFails, RegionDone, HostMmap, vars

\* The page tables implement a map from guest pages to frames: mapping a page changes that page
\* and no other one, in what the processor sees.
THEOREM TablesAreMap == Spec => ImplementsMap
<1>1. Init => Abstract!Init
  BY NothingShown DEF Init, Abstract!Init, Shown
<1>2. EptInv /\ EptInv' /\ [Next]_vars => [Abstract!Next]_Shown
  BY EptStepImplements
<1> QED
  BY <1>1, <1>2, EptInvariance, PTL DEF Spec, ImplementsMap, Abstract!Spec, Shown
=============================================================================
