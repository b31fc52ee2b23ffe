----------------------------- MODULE EptTreeProofs -----------------------------
(* Lemmas about the extended page tables as a data structure, for tables of any  *)
(* size and any memory: the four indices of a page determine it, the tables are  *)
(* a tree, ept_add_page keeps them one and maps one page, and the two halves     *)
(* lead to the same tables.                                                     *)
EXTENDS Ept, FiniteSetTheorems, TLAPS

\* Leaves are for the SMT solver unless they name another prover.
USE SMTT(30)

-----------------------------------------------------------------------------
(* The index arithmetic on guest addresses *)

\* Division with remainder.
LEMMA DivMod ==
  ASSUME NEW a \in Nat, NEW m \in Nat \ {0}
  PROVE  a \div m \in Nat /\ a % m \in 0 .. m - 1 /\ a = m * (a \div m) + (a % m)
  BY Z3

\* Quotient and remainder are unique.
LEMMA DivUnique ==
  ASSUME NEW a \in Nat, NEW m \in Nat \ {0}, NEW q \in Nat, NEW r \in 0 .. m - 1,
         a = m * q + r
  PROVE  a \div m = q /\ a % m = r
  BY Z3

\* Shifting twice is shifting once by the sum.
LEMMA DivDiv ==
  ASSUME NEW a \in Nat, NEW b \in Nat \ {0}, NEW c \in Nat \ {0}
  PROVE  (a \div b) \div c = a \div (b * c)
<1> DEFINE q == a \div b
           r == a % b
           u == q \div c
           v == q % c
<1>1. q \in Nat /\ r \in 0 .. b - 1 /\ a = b * q + r
  BY Zenon, DivMod
<1>2. u \in Nat /\ v \in 0 .. c - 1 /\ q = c * u + v
  BY Zenon, <1>1, DivMod
<1> HIDE DEF q, r, u, v
<1> DEFINE m == b * c
           w == b * v + r
<1>3. m \in Nat \ {0}
  BY Z3
<1>4. a = m * u + w
  BY <1>1, <1>2, Z3
<1>5. w \in 0 .. m - 1
  BY <1>1, <1>2, Z3
<1> HIDE DEF m, w
<1>6. a \div m = u
  BY <1>2, <1>3, <1>4, <1>5, DivUnique
<1> QED
  BY <1>6 DEF q, u, m

\* The spans are positive.
LEMMA Spans ==
  /\ Fanout \in Nat \ {0} /\ Span(0) = 1 /\ Span(1) = Fanout
  /\ Span(2) = Fanout * Fanout /\ Span(3) = Span(2) * Fanout /\ Span(4) = Span(3) * Fanout
  /\ Span(2) \in Nat \ {0} /\ Span(3) \in Nat \ {0} /\ Span(4) \in Nat \ {0}
<1>1. Fanout \in Nat \ {0}
  BY EptConstants
<1>2. /\ Span(0) = 1 /\ Span(1) = Fanout /\ Span(2) = Fanout * Fanout
      /\ Span(3) = Span(2) * Fanout /\ Span(4) = Span(3) * Fanout
  BY DEF Span
<1>3. Span(2) \in Nat \ {0}
  BY <1>1, <1>2, Z3
<1>4. Span(3) \in Nat \ {0}
  BY <1>1, <1>2, <1>3, Z3
<1>5. Span(4) \in Nat \ {0}
  BY <1>1, <1>2, <1>4, Z3
<1> QED
  BY <1>1, <1>2, <1>3, <1>4, <1>5

\* i, j, k and n are the digits of g; a, b, c and d are what is left above each.
Spelled(g, a, b, c, d, i, j, k, n) ==
    g = Fanout * a + i /\ a = Fanout * b + j /\ b = Fanout * c + k /\ c = Fanout * d + n

\* The indices of g are its digits.
Written(g, a, b, c, d) ==
    /\ Spelled(g, a, b, c, d, Index(g, 0), Index(g, 1), Index(g, 2), Index(g, 3))
    /\ d = g \div Span(4)
    /\ Index(g, 0) \in Idx /\ Index(g, 1) \in Idx /\ Index(g, 2) \in Idx /\ Index(g, 3) \in Idx

\* The four indices of a page are the digits of its number.
LEMMA Digits == ASSUME NEW g \in Nat PROVE \E a, b, c, d \in Nat : Written(g, a, b, c, d)
<1> DEFINE a == g \div Fanout
           b == a \div Fanout
           c == b \div Fanout
           d == c \div Fanout
<1>1. a \in Nat /\ b \in Nat /\ c \in Nat /\ d \in Nat
  BY Zenon, Spans, DivMod
<1>2. /\ g = Fanout * a + (g % Fanout) /\ a = Fanout * b + (a % Fanout)
      /\ b = Fanout * c + (b % Fanout) /\ c = Fanout * d + (c % Fanout)
      /\ g % Fanout \in Idx /\ a % Fanout \in Idx /\ b % Fanout \in Idx /\ c % Fanout \in Idx
  BY ZenonT(30), Spans, DivMod DEF Idx
<1>3. b = g \div Span(2)
  BY Spans, DivDiv
<1>4. c = b \div Fanout /\ d = c \div Fanout
  OBVIOUS
<1> HIDE DEF b, c, d
<1>5. c = g \div Span(3)
  BY Spans, <1>3, <1>4, DivDiv
<1>6. d = g \div Span(4)
  BY Spans, <1>4, <1>5, DivDiv
<1>7. Index(g, 0) = g % Fanout
  <2>1. g \div 1 = g
    BY Z3
  <2> QED
    BY <2>1, Spans DEF Index
<1>8. Index(g, 1) = a % Fanout /\ Index(g, 2) = b % Fanout /\ Index(g, 3) = c % Fanout
  BY <1>3, <1>5, Spans DEF Index
<1> HIDE DEF a
<1> QED
  BY <1>1, <1>2, <1>6, <1>7, <1>8 DEF Written, Spelled

\* An index is an entry of a table.
LEMMA IndexIn == ASSUME NEW g \in Nat, NEW l \in 0 .. 3 PROVE Index(g, l) \in Idx
<1>1. l = 0 \/ l = 1 \/ l = 2 \/ l = 3
  OBVIOUS
<1> QED
  BY Zenon, <1>1, Digits DEF Written

\* Two numbers with the same digit and the same rest above it are the same.
LEMMA DigitUnique ==
  ASSUME NEW m \in Nat \ {0}, NEW p \in Nat, NEW q \in Nat, NEW r \in 0 .. m - 1,
         NEW s \in 0 .. m - 1, m * p + r = m * q + s
  PROVE  p = q /\ r = s
<1>1. p = q
  BY Z3
<1> DEFINE x == m * p
<1>2. x \in Nat
  BY Z3
<1>3. x + r = x + s /\ r \in Nat /\ s \in Nat
  BY <1>1
<1> HIDE DEF x
<1> QED
  BY <1>1, <1>2, <1>3

\* The indices of two levels of a guest address are read off one number.
LEMMA IndexUnique ==
  ASSUME NEW p \in Nat, NEW q \in Nat, NEW i \in Idx, NEW j \in Idx,
         Fanout * p + i = Fanout * q + j
  PROVE  p = q /\ i = j
<1>1. Fanout \in Nat \ {0}
  BY Spans
<1> QED
  BY <1>1, DigitUnique DEF Idx

\* Two page numbers with the same four indices.
SamePage(g, h) == \A l \in 0 .. 3 : Index(g, l) = Index(h, l)

\* Address bits above the fourth level do not count.
LEMMA IndexMod == ASSUME NEW g \in Nat PROVE g % Span(4) \in Gfns /\ SamePage(g % Span(4), g)
<1> DEFINE w == g % Span(4)
           e == g \div Span(4)
<1>1. w \in 0 .. Span(4) - 1 /\ e \in Nat /\ g = Span(4) * e + w
  <2>1. Span(4) \in Nat \ {0}
    BY Spans
  <2> QED
    BY Zenon, <2>1, DivMod
<1> HIDE DEF w, e
<1>0. w \in Gfns /\ w \in Nat
  BY <1>1, Spans DEF Gfns
<1>2. PICK a, b, c, d \in Nat : Written(w, a, b, c, d)
  BY Zenon, <1>0, Digits
<1> DEFINE a1 == Span(3) * e + a
           b1 == Span(2) * e + b
           c1 == Fanout * e + c
           d1 == e + d
<1>3. a1 \in Nat /\ b1 \in Nat /\ c1 \in Nat /\ d1 \in Nat
  BY <1>1, <1>2, Spans, Z3
<1>4. Index(w, 0) \in Nat /\ Index(w, 1) \in Nat /\ Index(w, 2) \in Nat /\ Index(w, 3) \in Nat
  BY <1>2, Spans DEF Idx, Written
<1>5. g = Fanout * a1 + Index(w, 0)
  BY <1>1, <1>2, <1>4, <1>0, Spans, Z3 DEF Written, Spelled
<1>6. a1 = Fanout * b1 + Index(w, 1)
  BY <1>1, <1>2, <1>4, <1>0, Spans, Z3 DEF Written, Spelled
<1>7. b1 = Fanout * c1 + Index(w, 2)
  BY <1>1, <1>2, <1>4, <1>0, Spans, Z3 DEF Written, Spelled
<1>8. c1 = Fanout * d1 + Index(w, 3)
  BY <1>1, <1>2, <1>4, <1>0, Spans, Z3 DEF Written, Spelled
<1> HIDE DEF a1, b1, c1, d1
<1>9. /\ Index(g, 0) = Index(w, 0) /\ Index(g, 1) = Index(w, 1)
      /\ Index(g, 2) = Index(w, 2) /\ Index(g, 3) = Index(w, 3)
  <2>0. PICK p, q, r, s \in Nat : Written(g, p, q, r, s)
    BY Zenon, Digits
  <2>1. p = a1 /\ Index(g, 0) = Index(w, 0)
    <3>1. Fanout * p + Index(g, 0) = Fanout * a1 + Index(w, 0)
      BY <2>0, <1>5, Zenon DEF Written, Spelled
    <3>2. Index(g, 0) \in Idx /\ Index(w, 0) \in Idx
      BY <2>0, <1>2 DEF Written
    <3> QED
      BY <1>3, <3>1, <3>2, IndexUnique
  <2>2. q = b1 /\ Index(g, 1) = Index(w, 1)
    <3>1. Fanout * q + Index(g, 1) = Fanout * b1 + Index(w, 1)
      BY <2>0, <2>1, <1>6, Zenon DEF Written, Spelled
    <3>2. Index(g, 1) \in Idx /\ Index(w, 1) \in Idx
      BY <2>0, <1>2 DEF Written
    <3> QED
      BY <1>3, <3>1, <3>2, IndexUnique
  <2>3. r = c1 /\ Index(g, 2) = Index(w, 2)
    <3>1. Fanout * r + Index(g, 2) = Fanout * c1 + Index(w, 2)
      BY <2>0, <2>2, <1>7, Zenon DEF Written, Spelled
    <3>2. Index(g, 2) \in Idx /\ Index(w, 2) \in Idx
      BY <2>0, <1>2 DEF Written
    <3> QED
      BY <1>3, <3>1, <3>2, IndexUnique
  <2>4. s = d1 /\ Index(g, 3) = Index(w, 3)
    <3>1. Fanout * s + Index(g, 3) = Fanout * d1 + Index(w, 3)
      BY <2>0, <2>3, <1>8, Zenon DEF Written, Spelled
    <3>2. Index(g, 3) \in Idx /\ Index(w, 3) \in Idx
      BY <2>0, <1>2 DEF Written
    <3> QED
      BY <1>3, <3>1, <3>2, IndexUnique
  <2> QED
    BY <2>1, <2>2, <2>3, <2>4
<1>10. \A l \in 0 .. 3 : l = 0 \/ l = 1 \/ l = 2 \/ l = 3
  OBVIOUS
<1> QED
  BY <1>0, <1>9, <1>10 DEF SamePage, w

\* Below the fourth level the indices tell all pages apart.
LEMMA IndexInjective == ASSUME NEW g \in Gfns, NEW h \in Gfns, SamePage(g, h) PROVE g = h
<1>1. g \in Nat /\ h \in Nat /\ g < Span(4) /\ h < Span(4)
  BY Spans DEF Gfns
<1>2. g \div Span(4) = 0 /\ h \div Span(4) = 0
  BY <1>1, Spans, DivUnique, Z3
<1>3. PICK a, b, c, d \in Nat : Written(g, a, b, c, d)
  BY Zenon, <1>1, Digits
<1>4. PICK x, y, z, d2 \in Nat : Written(h, x, y, z, d2)
  BY Zenon, <1>1, Digits
<1> USE DEF Written, Spelled
<1>5. /\ Index(g, 0) = Index(h, 0) /\ Index(g, 1) = Index(h, 1)
      /\ Index(g, 2) = Index(h, 2) /\ Index(g, 3) = Index(h, 3)
  BY DEF SamePage
<1>6. c = z
  BY <1>2, <1>3, <1>4, <1>5
<1>7. b = y
  BY <1>3, <1>4, <1>5, <1>6
<1>8. a = x
  BY <1>3, <1>4, <1>5, <1>7
<1> QED
  BY <1>3, <1>4, <1>5, <1>8

\* A page is found at the number ept_add_page was called with, cut to four levels, and at
\* no other one.
LEMMA PageOf ==
  ASSUME NEW g \in Nat, NEW h \in Gfns PROVE SamePage(h, g) <=> h = g % Span(4)
<1>1. ASSUME SamePage(h, g) PROVE h = g % Span(4)
  <2>1. g % Span(4) \in Gfns /\ SamePage(h, g % Span(4))
    BY <1>1, IndexMod DEF SamePage
  <2> QED
    BY <2>1, IndexInjective
<1> QED
  BY <1>1, IndexMod
-----------------------------------------------------------------------------
(* The tables are a tree.  lev is the level of a table, up the table above it and *)
(* slot the entry there that leads to it.                                        *)

Leaves == Frames \cup {Apic, NULL}

HeapType(h) ==
    /\ h = [alloc |-> h.alloc, phys |-> h.phys, virt |-> h.virt]
    /\ h.alloc \in SUBSET Tables
    /\ h.phys \in [Tables -> [Idx -> Tables \cup Leaves]]
    /\ h.virt \in [Tables -> [Idx -> Tables \cup {NULL}]]

\* Every table but r hangs below an entry of a table one level up ...
Hangs(h, r, lev, up, slot) ==
    \A t \in h.alloc : t # r =>
       up[t] \in h.alloc /\ lev[up[t]] = lev[t] + 1 /\ h.virt[up[t]][slot[t]] = t

\* ... below no other entry ...
Once(h, r, up, slot) ==
    \A t \in h.alloc, i \in Idx : h.virt[t][i] # NULL =>
       /\ h.virt[t][i] \in h.alloc /\ h.virt[t][i] # r
       /\ up[h.virt[t][i]] = t /\ slot[h.virt[t][i]] = i

\* ... and the two halves agree above the leaves.
Halves(h, lev) ==
    \A t \in h.alloc, i \in Idx :
       IF lev[t] = 0 THEN h.virt[t][i] = NULL /\ h.phys[t][i] \in Leaves
       ELSE h.phys[t][i] = h.virt[t][i]

Tree(h, r, lev, up, slot) ==
    /\ lev \in [Tables -> 0 .. 3] /\ up \in [Tables -> Tables] /\ slot \in [Tables -> Idx]
    /\ r \in h.alloc /\ lev[r] = 3
    /\ Hangs(h, r, lev, up, slot) /\ Once(h, r, up, slot) /\ Halves(h, lev)

\* The tables below r are a tree.
IsTree(h, r) == HeapType(h) /\ \E lev, up, slot : Tree(h, r, lev, up, slot)

\* Table t of the tree is at level m.
AtLevel(h, r, t, m) ==
    HeapType(h) /\ t \in h.alloc /\ \E lev, up, slot : Tree(h, r, lev, up, slot) /\ lev[t] = m

\* The table below an entry is one level down, and knows where it hangs.
LEMMA LevelDown ==
  ASSUME NEW h, NEW r, NEW lev, NEW up, NEW slot, Tree(h, r, lev, up, slot),
         NEW t \in h.alloc, NEW i \in Idx, NEW x, x = h.virt[t][i], x # NULL
  PROVE  x \in h.alloc /\ lev[t] = lev[x] + 1 /\ up[x] = t /\ slot[x] = i
<1>1. x \in h.alloc /\ x # r /\ up[x] = t /\ slot[x] = i
  BY DEF Tree, Once
<1> QED
  BY <1>1 DEF Tree, Hangs

\* What the kext sees: ept_translate on heap h.
Down(half, t, i) == IF t = NULL THEN NULL ELSE half[t][i]
Seen(h, r, g) == Down(h.phys, Walk(h.virt, r, g), Index(g, 0))

\* The walk takes one entry of three tables in turn.
LEMMA WalkDown ==
  ASSUME NEW half, NEW r, NEW g
  PROVE  Walk(half, r, g) =
           Down(half, Down(half, Down(half, r, Index(g, 3)), Index(g, 2)), Index(g, 1))
  BY DEF Walk, Down

\* Storing an entry keeps the type of a half.
LEMMA StoreType ==
  ASSUME NEW V, NEW f \in [Tables -> [Idx -> V]], NEW t \in Tables, NEW i \in Idx, NEW x \in V
  PROVE  [f EXCEPT ![t][i] = x] \in [Tables -> [Idx -> V]]
<1>1. [f[t] EXCEPT ![i] = x] \in [Idx -> V]
  OBVIOUS
<1> QED
  BY <1>1

\* Clearing a table, as ept_init and ept_add_page do with a new one, keeps it too.
LEMMA ClearType ==
  ASSUME NEW V, NEW f \in [Tables -> [Idx -> V]], NEW n \in Tables, Empty \in [Idx -> V]
  PROVE  [f EXCEPT ![n] = Empty] \in [Tables -> [Idx -> V]]
  OBVIOUS

\* k is h with the new table n, all of it zero, below entry i of t.
Extended(h, k, t, i, n) ==
    /\ k.alloc = h.alloc \cup {n}
    /\ \A s \in Tables, j \in Idx :
         /\ k.virt[s][j] = IF s = t /\ j = i THEN n ELSE IF s = n THEN NULL ELSE h.virt[s][j]
         /\ k.phys[s][j] = IF s = t /\ j = i THEN n ELSE IF s = n THEN NULL ELSE h.phys[s][j]

\* Where there is no table Ensure puts a new one.
LEMMA EnsureExtends ==
  ASSUME NEW h, HeapType(h), NEW t \in h.alloc, NEW i \in Idx, h.virt[t][i] = NULL,
         Tables \ h.alloc # {}
  PROVE  /\ HeapType(Ensure(h, t, i))
         /\ \E n \in Tables \ h.alloc : Extended(h, Ensure(h, t, i), t, i, n)
<1> DEFINE n == Malloc(h.alloc)
           k == Ensure(h, t, i)
<1>1. n \in Tables \ h.alloc
  BY DEF Malloc
<1>2. t \in Tables /\ t # n
  BY <1>1 DEF HeapType
<1> HIDE DEF n
<1>3. /\ k.alloc = h.alloc \cup {n}
      /\ k.phys = [h.phys EXCEPT ![n] = Empty, ![t][i] = n]
      /\ k.virt = [h.virt EXCEPT ![n] = Empty, ![t][i] = n]
  BY DEF Ensure, n
<1>0. k = [alloc |-> k.alloc, phys |-> k.phys, virt |-> k.virt]
  BY DEF Ensure
<1>4. Empty \in [Idx -> Tables \cup {NULL}] /\ Empty \in [Idx -> Tables \cup Leaves]
  BY DEF Empty, Leaves
<1> HIDE DEF k
<1>5. k.virt \in [Tables -> [Idx -> Tables \cup {NULL}]]
  <2> DEFINE f == [h.virt EXCEPT ![n] = Empty]
  <2>1. f \in [Tables -> [Idx -> Tables \cup {NULL}]]
    BY <1>1, <1>4, ClearType DEF HeapType
  <2>2. k.virt = [f EXCEPT ![t][i] = n]
    BY <1>3
  <2> HIDE DEF f
  <2> QED
    BY <1>1, <1>2, <2>1, <2>2, StoreType
<1>6. k.phys \in [Tables -> [Idx -> Tables \cup Leaves]]
  <2> DEFINE f == [h.phys EXCEPT ![n] = Empty]
  <2>1. f \in [Tables -> [Idx -> Tables \cup Leaves]]
    BY <1>1, <1>4, ClearType DEF HeapType
  <2>2. k.phys = [f EXCEPT ![t][i] = n]
    BY <1>3
  <2> HIDE DEF f
  <2> QED
    BY <1>1, <1>2, <2>1, <2>2, StoreType
<1>7. HeapType(k)
  BY Zenon, <1>0, <1>1, <1>3, <1>5, <1>6 DEF HeapType
<1>8. \A s \in Tables, j \in Idx :
        k.virt[s][j] = IF s = t /\ j = i THEN n ELSE IF s = n THEN NULL ELSE h.virt[s][j]
  BY <1>1, <1>2, <1>3 DEF HeapType, Empty
<1>9. \A s \in Tables, j \in Idx :
        k.phys[s][j] = IF s = t /\ j = i THEN n ELSE IF s = n THEN NULL ELSE h.phys[s][j]
  BY <1>1, <1>2, <1>3 DEF HeapType, Empty
<1>10. Extended(h, k, t, i, n)
  BY <1>3, <1>8, <1>9 DEF Extended
<1> QED
  BY <1>1, <1>7, <1>10 DEF k

\* k has every table of h where it was, and translates as h does.
Grown(h, k, r) ==
    /\ h.alloc \subseteq k.alloc
    /\ \A t \in h.alloc, i \in Idx : h.virt[t][i] # NULL => k.virt[t][i] = h.virt[t][i]
    /\ \A g \in Nat : Seen(k, r, g) = Seen(h, r, g)

\* A new table below an entry of a tree makes a tree.
LEMMA NewTableTree ==
  ASSUME NEW h, NEW k, NEW r, NEW lev, NEW up, NEW slot, HeapType(h), HeapType(k),
         Tree(h, r, lev, up, slot), NEW t \in h.alloc, NEW i \in Idx, NEW m \in Nat,
         lev[t] = m + 1, h.virt[t][i] = NULL, NEW n \in Tables \ h.alloc,
         Extended(h, k, t, i, n)
  PROVE  AtLevel(k, r, n, m)
<1> DEFINE l == [lev EXCEPT ![n] = m]
           u == [up EXCEPT ![n] = t]
           o == [slot EXCEPT ![n] = i]
<1>1. /\ t \in Tables /\ t # n /\ n # NULL /\ h.alloc \subseteq Tables /\ r # n
      /\ r \in h.alloc /\ NULL \notin Tables
  BY EptConstants DEF HeapType, Tree
<1>2. m \in 0 .. 3 /\ lev[t] \in 0 .. 3 /\ lev[t] # 0
  BY <1>1 DEF Tree
<1>3. l \in [Tables -> 0 .. 3] /\ u \in [Tables -> Tables] /\ o \in [Tables -> Idx]
  BY <1>1, <1>2 DEF Tree
<1>4. /\ l[n] = m /\ u[n] = t /\ o[n] = i
      /\ \A s \in Tables : s # n => l[s] = lev[s] /\ u[s] = up[s] /\ o[s] = slot[s]
  BY DEF Tree
<1> HIDE DEF l, u, o
<1>13. k.alloc = h.alloc \cup {n}
  BY DEF Extended
<1>14. \A s \in Tables, j \in Idx :
        k.virt[s][j] = IF s = t /\ j = i THEN n ELSE IF s = n THEN NULL ELSE h.virt[s][j]
  BY DEF Extended
<1>15. \A s \in Tables, j \in Idx :
        k.phys[s][j] = IF s = t /\ j = i THEN n ELSE IF s = n THEN NULL ELSE h.phys[s][j]
  BY DEF Extended
<1>5. r \in k.alloc /\ l[r] = 3
  BY <1>1, <1>4, <1>13 DEF Tree
<1>6. ASSUME NEW s \in k.alloc, s # r
      PROVE  u[s] \in k.alloc /\ l[u[s]] = l[s] + 1 /\ k.virt[u[s]][o[s]] = s
  <2>1. CASE s = n
    BY <2>1, <1>1, <1>2, <1>4, <1>13, <1>14
  <2>2. CASE s # n
    <3>1. /\ s \in h.alloc /\ up[s] \in h.alloc /\ slot[s] \in Idx /\ lev[up[s]] = lev[s] + 1
          /\ h.virt[up[s]][slot[s]] = s
      BY <1>1, <1>6, <1>13, <2>2 DEF Tree, Hangs
    <3>2. up[s] # n /\ up[s] \in Tables /\ s \in Tables /\ s # NULL
      BY <1>1, <3>1
    <3>3. u[s] = up[s] /\ o[s] = slot[s] /\ l[s] = lev[s] /\ l[up[s]] = lev[up[s]]
      BY <1>4, <2>2, <3>2
    <3>4. k.virt[up[s]][slot[s]] = s
      <4>1. ~(up[s] = t /\ slot[s] = i)
        BY <1>1, <3>1, <3>2
      <4> QED
        BY <1>14, <3>1, <3>2, <4>1
    <3> QED
      BY <1>13, <3>1, <3>3, <3>4
  <2> QED
    BY <2>1, <2>2
<1>7. ASSUME NEW s \in k.alloc, NEW j \in Idx, k.virt[s][j] # NULL
      PROVE  /\ k.virt[s][j] \in k.alloc /\ k.virt[s][j] # r
             /\ u[k.virt[s][j]] = s /\ o[k.virt[s][j]] = j
  <2>1. CASE s = t /\ j = i
    BY <2>1, <1>1, <1>4, <1>13, <1>14
  <2>2. CASE ~(s = t /\ j = i)
    <3>1. s # n /\ s \in h.alloc /\ k.virt[s][j] = h.virt[s][j]
      BY <1>1, <1>7, <1>13, <1>14, <2>2
    <3>2. /\ h.virt[s][j] \in h.alloc /\ h.virt[s][j] # r
          /\ up[h.virt[s][j]] = s /\ slot[h.virt[s][j]] = j
      BY <1>7, <3>1 DEF Tree, Once
    <3>3. h.virt[s][j] \in Tables /\ h.virt[s][j] # n
      BY <1>1, <3>2
    <3> QED
      BY <1>4, <1>13, <3>1, <3>2, <3>3
  <2> QED
    BY <2>1, <2>2
<1>8. ASSUME NEW s \in k.alloc, NEW j \in Idx
      PROVE  IF l[s] = 0 THEN k.virt[s][j] = NULL /\ k.phys[s][j] \in Leaves
             ELSE k.phys[s][j] = k.virt[s][j]
  <2>1. CASE s = t
    <3>1. l[t] # 0 /\ h.phys[t][j] = h.virt[t][j]
      BY <1>1, <1>2, <1>4 DEF Tree, Halves
    <3> QED
      BY <2>1, <3>1, <1>1, <1>14, <1>15
  <2>2. CASE s = n
    BY <2>2, <1>1, <1>14, <1>15 DEF Leaves
  <2>3. CASE s # t /\ s # n
    <3>1. s \in h.alloc /\ s \in Tables /\ l[s] = lev[s]
      BY <1>1, <1>4, <1>13, <2>3
    <3>2. k.virt[s][j] = h.virt[s][j] /\ k.phys[s][j] = h.phys[s][j]
      BY <1>14, <1>15, <2>3, <3>1
    <3> QED
      BY <3>1, <3>2 DEF Tree, Halves
  <2> QED
    BY <2>1, <2>2, <2>3
<1>9. Hangs(k, r, l, u, o)
  BY <1>6 DEF Hangs
<1>10. Once(k, r, u, o)
  BY <1>7 DEF Once
<1>11. Halves(k, l)
  BY <1>8 DEF Halves
<1>12. Tree(k, r, l, u, o)
  BY <1>3, <1>5, <1>9, <1>10, <1>11 DEF Tree
<1> QED
  BY <1>4, <1>12, <1>13 DEF AtLevel

\* A new table leads nowhere yet: what was not mapped still is not.
LEMMA NewTableSeen ==
  ASSUME NEW h, NEW k, NEW r, NEW lev, NEW up, NEW slot, HeapType(h), HeapType(k),
         Tree(h, r, lev, up, slot), NEW t \in h.alloc, NEW i \in Idx, lev[t] # 0,
         h.virt[t][i] = NULL, NEW n \in Tables \ h.alloc, Extended(h, k, t, i, n)
  PROVE  Grown(h, k, r)
<1>1. h.alloc \subseteq Tables /\ NULL \notin Tables
  BY EptConstants DEF HeapType
<1>2. t # n /\ t \in Tables /\ r \in h.alloc /\ lev[r] = 3 /\ n # NULL /\ n \in Tables
  BY <1>1 DEF Tree
<1>3. ASSUME NEW s \in h.alloc, NEW j \in Idx
      PROVE  k.virt[s][j] = h.virt[s][j] \/ (h.virt[s][j] = NULL /\ k.virt[s][j] = n)
  BY <1>1 DEF Extended
<1>4. ASSUME NEW s \in h.alloc, NEW j \in Idx
      PROVE  h.virt[s][j] = NULL \/ (h.virt[s][j] \in h.alloc /\ lev[s] = lev[h.virt[s][j]] + 1)
  BY <1>4, LevelDown
<1>5. ASSUME NEW j \in Idx PROVE k.virt[n][j] = NULL /\ k.phys[n][j] = NULL
  BY <1>2 DEF Extended
\* Where the walks of h and k have got to at level m.
<1> DEFINE Apart(a, b, m) == \/ a = b /\ a \in h.alloc /\ lev[a] = m
                             \/ a = NULL /\ b = NULL
                             \/ a = NULL /\ b = n
<1>6. ASSUME NEW a, NEW b, NEW m \in Nat, Apart(a, b, m + 1), NEW j \in Idx
      PROVE  Apart(Down(h.virt, a, j), Down(k.virt, b, j), m)
  <2>1. CASE a = b /\ a \in h.alloc /\ lev[a] = m + 1
    <3>1. a # NULL /\ lev[a] \in Nat
      BY <1>1, <2>1
    <3>2. \A c \in h.alloc : lev[c] \in Nat
      BY <1>1 DEF Tree
    <3> DEFINE c == h.virt[a][j]
    <3>3. c = NULL \/ (c \in h.alloc /\ lev[a] = lev[c] + 1)
      BY <1>4, <2>1
    <3>4. Down(h.virt, a, j) = c /\ Down(k.virt, b, j) = k.virt[a][j]
      BY <2>1, <3>1 DEF Down
    <3>5. k.virt[a][j] = c \/ (c = NULL /\ k.virt[a][j] = n)
      BY <1>3, <2>1
    <3> HIDE DEF c
    <3>6. c = NULL \/ (c \in h.alloc /\ lev[c] = m)
      BY <2>1, <3>2, <3>3
    <3> QED
      BY <3>4, <3>5, <3>6
  <2>2. CASE a = NULL /\ b = NULL
    BY <2>2 DEF Down
  <2>3. CASE a = NULL /\ b = n
    BY <1>2, <1>5, <2>3 DEF Down
  <2> QED
    BY <1>6, <2>1, <2>2, <2>3
<1>7. ASSUME NEW g \in Nat PROVE Seen(k, r, g) = Seen(h, r, g)
  <2> DEFINE i0 == Index(g, 0)
             i1 == Index(g, 1)
             i2 == Index(g, 2)
             i3 == Index(g, 3)
  <2>1. i0 \in Idx /\ i1 \in Idx /\ i2 \in Idx /\ i3 \in Idx
    BY IndexIn
  <2> HIDE DEF i0, i1, i2, i3, Apart
  <2> DEFINE a3 == Down(h.virt, r, i3)
             b3 == Down(k.virt, r, i3)
             a2 == Down(h.virt, a3, i2)
             b2 == Down(k.virt, b3, i2)
             a1 == Down(h.virt, a2, i1)
             b1 == Down(k.virt, b2, i1)
  <2>2. Apart(r, r, 2 + 1)
    BY <1>2 DEF Apart
  <2>3. Apart(a3, b3, 1 + 1)
    BY <1>6, <2>1, <2>2
  <2> HIDE DEF a3, b3
  <2>4. Apart(a2, b2, 0 + 1)
    BY <1>6, <2>1, <2>3
  <2> HIDE DEF a2, b2
  <2>5. Apart(a1, b1, 0)
    BY <1>6, <2>1, <2>4
  <2>6. Walk(h.virt, r, g) = a1 /\ Walk(k.virt, r, g) = b1
    BY WalkDown DEF i1, i2, i3, a2, b2, a3, b3
  <2> HIDE DEF a1, b1
  <2>7. CASE a1 = b1 /\ a1 \in h.alloc /\ lev[a1] = 0
    <3>1. a1 # NULL /\ a1 # n /\ a1 \in Tables /\ a1 # t
      BY <1>1, <2>7
    <3>2. k.phys[a1][i0] = h.phys[a1][i0]
      BY <2>1, <3>1 DEF Extended
    <3> QED
      BY <2>6, <2>7, <3>1, <3>2 DEF Seen, Down, i0
  <2>8. CASE a1 = NULL /\ b1 = NULL
    BY <2>6, <2>8 DEF Seen, Down
  <2>9. CASE a1 = NULL /\ b1 = n
    <3>1. k.phys[n][i0] = NULL
      BY <1>5, <2>1
    <3> QED
      BY <2>6, <2>9, <1>2, <3>1 DEF Seen, Down, i0
  <2> QED
    BY <2>5, <2>7, <2>8, <2>9 DEF Apart
<1> QED
  <2>1. h.alloc \subseteq k.alloc
    BY DEF Extended
  <2>2. \A s \in h.alloc, j \in Idx : h.virt[s][j] # NULL => k.virt[s][j] = h.virt[s][j]
    BY <1>3
  <2> QED
    BY <2>1, <2>2, <1>7 DEF Grown

\* Two allocations of ept_add_page in a row are a growth as well.
LEMMA GrownTwice ==
  ASSUME NEW h, NEW k, NEW m, NEW r, Grown(h, k, r), Grown(k, m, r)
  PROVE  Grown(h, m, r)
<1>1. h.alloc \subseteq m.alloc
  BY DEF Grown
<1>2. \A t \in h.alloc, i \in Idx : h.virt[t][i] # NULL => m.virt[t][i] = h.virt[t][i]
  BY DEF Grown
<1>3. \A g \in Nat : Seen(m, r, g) = Seen(h, r, g)
  BY DEF Grown
<1> QED
  BY <1>1, <1>2, <1>3 DEF Grown

\* Memory for n more tables.
Spare(h, n) == Cardinality(Tables \ h.alloc) >= n

\* One allocation leaves one table less.
LEMMA SpareLess ==
  ASSUME NEW h, NEW k, HeapType(h), NEW n \in Tables \ h.alloc, k.alloc = h.alloc \cup {n},
         NEW m \in Nat, Spare(h, m + 1)
  PROVE  Spare(k, m)
<1> DEFINE S == Tables \ h.alloc
<1>1. IsFiniteSet(S)
  BY Zenon, EptConstants, FS_Difference
<1>2. Tables \ k.alloc = S \ {n} /\ n \in S
  OBVIOUS
<1>3. Cardinality(S) >= m + 1
  BY DEF Spare
<1> HIDE DEF S
<1>4. Cardinality(S) \in Nat
  BY <1>1, FS_CardinalityType
<1>5. Cardinality(S \ {n}) = Cardinality(S) - 1
  BY Zenon, <1>1, <1>2, FS_RemoveElement
<1>6. Cardinality(S \ {n}) >= m
  BY <1>3, <1>4, <1>5
<1> QED
  BY Zenon, <1>2, <1>6 DEF Spare

\* Ensure on a tree: there is a table below the entry now, one level down, and nothing else
\* has changed.
LEMMA EnsureGrows ==
  ASSUME NEW h, NEW r, NEW t, NEW i \in Idx, NEW m \in Nat, AtLevel(h, r, t, m + 1),
         NEW n \in Nat, Spare(h, n + 1), NEW k, k = Ensure(h, t, i)
  PROVE  Grown(h, k, r) /\ Spare(k, n) /\ AtLevel(k, r, k.virt[t][i], m)
<1>0. PICK lev, up, slot : Tree(h, r, lev, up, slot) /\ lev[t] = m + 1
  BY DEF AtLevel
<1>1. HeapType(h) /\ t \in h.alloc /\ h.alloc \subseteq Tables /\ t \in Tables
  BY DEF AtLevel, HeapType
<1>2. CASE h.virt[t][i] # NULL
  <2>1. k = h
    BY <1>2 DEF Ensure
  <2>2. Grown(h, k, r)
    BY <2>1 DEF Grown
  <2>3. IsFiniteSet(Tables \ h.alloc) /\ Cardinality(Tables \ h.alloc) \in Nat
    BY Zenon, EptConstants, FS_Difference, FS_CardinalityType
  <2>4. Spare(k, n)
    BY <2>1, <2>3 DEF Spare
  <2> DEFINE x == h.virt[t][i]
  <2>5. x \in h.alloc /\ lev[t] = lev[x] + 1
    BY <1>0, <1>1, <1>2, LevelDown
  <2> HIDE DEF x
  <2>6. lev[x] \in Nat
    BY <1>0, <1>1, <2>5 DEF Tree
  <2>7. AtLevel(h, r, x, m)
    BY <1>0, <1>1, <2>5, <2>6 DEF AtLevel
  <2> QED
    BY <2>1, <2>2, <2>4, <2>7 DEF x
<1>3. CASE h.virt[t][i] = NULL
  <2>1. Tables \ h.alloc # {}
    <3>1. ASSUME Tables \ h.alloc = {} PROVE FALSE
      BY <3>1, FS_EmptySet DEF Spare
    <3> QED
      BY <3>1
  <2>2. HeapType(k) /\ \E x \in Tables \ h.alloc : Extended(h, k, t, i, x)
    BY <1>1, <1>3, <2>1, EnsureExtends
  <2>3. PICK x \in Tables \ h.alloc : Extended(h, k, t, i, x)
    BY <2>2
  <2>4. Grown(h, k, r)
    BY <1>0, <1>1, <1>3, <2>2, <2>3, NewTableSeen
  <2>5. Spare(k, n)
    <3>1. k.alloc = h.alloc \cup {x}
      BY <2>3 DEF Extended
    <3> QED
      BY <1>1, <3>1, SpareLess
  <2>6. k.virt[t][i] = x
    BY <1>1, <2>3 DEF Extended
  <2>7. AtLevel(k, r, x, m)
    BY <1>0, <1>1, <1>3, <2>2, <2>3, NewTableTree
  <2> QED
    BY <2>4, <2>5, <2>6, <2>7
<1> QED
  BY <1>2, <1>3

\* The path of a page in the tree: its table is a leaf, and the indices of the page lead
\* to it.
LEMMA WalkPath ==
  ASSUME NEW h, NEW r, NEW lev, NEW up, NEW slot, HeapType(h), Tree(h, r, lev, up, slot),
         NEW g \in Nat, NEW pt, Walk(h.virt, r, g) = pt, pt # NULL
  PROVE  /\ pt \in h.alloc /\ Index(g, 1) = slot[pt] /\ Index(g, 2) = slot[up[pt]]
         /\ Index(g, 3) = slot[up[up[pt]]]
<1> DEFINE i1 == Index(g, 1)
           i2 == Index(g, 2)
           i3 == Index(g, 3)
<1>1. i1 \in Idx /\ i2 \in Idx /\ i3 \in Idx
  BY IndexIn
<1> DEFINE a == Down(h.virt, r, i3)
           b == Down(h.virt, a, i2)
<1>2. pt = Down(h.virt, b, i1)
  BY WalkDown
<1> HIDE DEF i1, i2, i3, a, b
<1>3. NULL \notin Tables /\ h.alloc \subseteq Tables /\ r \in h.alloc
  BY EptConstants DEF HeapType, Tree
<1>4. b # NULL /\ pt = h.virt[b][i1]
  BY <1>2 DEF Down
<1>5. a # NULL /\ b = h.virt[a][i2]
  BY <1>4 DEF b, Down
<1>6. a = h.virt[r][i3]
  BY <1>3 DEF a, Down
<1>7. a \in h.alloc /\ slot[a] = i3
  BY <1>1, <1>3, <1>5, <1>6, LevelDown
<1>8. b \in h.alloc /\ slot[b] = i2 /\ up[b] = a
  BY <1>1, <1>4, <1>5, <1>7, LevelDown
<1>9. pt \in h.alloc /\ slot[pt] = i1 /\ up[pt] = b
  BY <1>1, <1>4, <1>8, LevelDown
<1> QED
  BY <1>7, <1>8, <1>9 DEF i1, i2, i3

\* Two pages that reach one leaf have the same path to it.
LEMMA OnePath ==
  ASSUME NEW h, NEW r, IsTree(h, r), NEW f \in Nat, NEW g \in Nat, NEW pt, pt # NULL,
         Walk(h.virt, r, f) = pt, Walk(h.virt, r, g) = pt
  PROVE  /\ pt \in h.alloc /\ Index(f, 1) = Index(g, 1) /\ Index(f, 2) = Index(g, 2)
         /\ Index(f, 3) = Index(g, 3)
<1>1. PICK lev, up, slot : HeapType(h) /\ Tree(h, r, lev, up, slot)
  BY DEF IsTree
<1>2. /\ pt \in h.alloc /\ Index(f, 1) = slot[pt] /\ Index(f, 2) = slot[up[pt]]
      /\ Index(f, 3) = slot[up[up[pt]]]
  BY <1>1, WalkPath
<1>3. /\ Index(g, 1) = slot[pt] /\ Index(g, 2) = slot[up[pt]]
      /\ Index(g, 3) = slot[up[up[pt]]]
  BY <1>1, WalkPath
<1> QED
  BY <1>2, <1>3

Stored(h, k, pt, i, pa) ==
    k = [alloc |-> h.alloc, phys |-> [h.phys EXCEPT ![pt][i] = pa], virt |-> h.virt]

\* The store into the leaf leaves a tree.
LEMMA LeafStore ==
  ASSUME NEW h, NEW r, NEW pt, AtLevel(h, r, pt, 0), NEW i \in Idx,
         NEW pa \in Frames \cup {Apic}, NEW k, Stored(h, k, pt, i, pa)
  PROVE  /\ IsTree(k, r)
         /\ \A s \in Tables, j \in Idx :
              k.phys[s][j] = IF s = pt /\ j = i THEN pa ELSE h.phys[s][j]
<1>0. PICK lev, up, slot : Tree(h, r, lev, up, slot) /\ lev[pt] = 0
  BY DEF AtLevel
<1>1. /\ k.alloc = h.alloc /\ k.virt = h.virt /\ k.phys = [h.phys EXCEPT ![pt][i] = pa]
      /\ k = [alloc |-> k.alloc, phys |-> k.phys, virt |-> k.virt]
  BY DEF Stored
<1>2. /\ HeapType(h) /\ pt \in Tables /\ pa \in Tables \cup Leaves /\ pa \in Leaves
      /\ h.alloc \subseteq Tables
  BY DEF AtLevel, HeapType, Leaves
<1>3. k.phys \in [Tables -> [Idx -> Tables \cup Leaves]]
  BY <1>1, <1>2, StoreType DEF HeapType
<1>4. \A s \in Tables, j \in Idx : k.phys[s][j] = IF s = pt /\ j = i THEN pa ELSE h.phys[s][j]
  BY <1>1, <1>2 DEF HeapType
<1>5. HeapType(k)
  BY <1>1, <1>2, <1>3 DEF HeapType
<1>6. Halves(k, lev)
  <2>1. Halves(h, lev)
    BY <1>0 DEF Tree
  <2>2. ASSUME NEW t \in h.alloc, NEW j \in Idx
        PROVE  IF lev[t] = 0 THEN h.virt[t][j] = NULL /\ k.phys[t][j] \in Leaves
               ELSE k.phys[t][j] = h.virt[t][j]
    BY <1>0, <1>2, <1>4, <2>1 DEF Halves
  <2> QED
    BY <1>1, <2>2 DEF Halves
<1>7. Hangs(k, r, lev, up, slot)
  BY <1>0, <1>1 DEF Tree, Hangs
<1>8. Once(k, r, up, slot)
  BY <1>0, <1>1 DEF Tree, Once
<1>9. Tree(k, r, lev, up, slot)
  BY <1>0, <1>1, <1>6, <1>7, <1>8 DEF Tree
<1> QED
  BY <1>4, <1>5, <1>9 DEF IsTree

\* ept_add_page on a tree: afterwards the page is mapped to pa, and every other page to
\* what it was mapped to before.
LEMMA AddPageMaps ==
  ASSUME NEW h, NEW r, IsTree(h, r), Spare(h, 3), NEW g \in Nat, NEW pa \in Frames \cup {Apic}
  PROVE  /\ IsTree(EptAddPage(h, r, g, pa), r)
         /\ \A f \in Nat : Seen(EptAddPage(h, r, g, pa), r, f) =
                             IF SamePage(f, g) THEN pa ELSE Seen(h, r, f)
<1> DEFINE i4 == Index(g, 3)
           i3 == Index(g, 2)
           i2 == Index(g, 1)
           i1 == Index(g, 0)
<1>1. i4 \in Idx /\ i3 \in Idx /\ i2 \in Idx /\ i1 \in Idx
  BY IndexIn
<1> HIDE DEF i1, i2, i3, i4
<1>2. AtLevel(h, r, r, 2 + 1) /\ Spare(h, 2 + 1)
  BY DEF AtLevel, Tree, IsTree
<1> DEFINE h1 == Ensure(h, r, i4)
           pdpt == h1.virt[r][i4]
<1>3. Grown(h, h1, r) /\ Spare(h1, 1 + 1) /\ AtLevel(h1, r, pdpt, 1 + 1)
  <2> HIDE DEF h1
  <2>1. h1 = Ensure(h, r, i4)
    BY DEF h1
  <2> QED
    BY <1>1, <1>2, <2>1, EnsureGrows
<1> HIDE DEF h1, pdpt
<1> DEFINE h2 == Ensure(h1, pdpt, i3)
           pd == h2.virt[pdpt][i3]
<1>4. Grown(h1, h2, r) /\ Spare(h2, 0 + 1) /\ AtLevel(h2, r, pd, 0 + 1)
  <2> HIDE DEF h2
  <2>1. h2 = Ensure(h1, pdpt, i3)
    BY DEF h2
  <2> QED
    BY <1>1, <1>3, <2>1, EnsureGrows
<1> HIDE DEF h2, pd
<1> DEFINE h3 == Ensure(h2, pd, i2)
           pt == h3.virt[pd][i2]
<1>5. Grown(h2, h3, r) /\ AtLevel(h3, r, pt, 0)
  <2> HIDE DEF h3
  <2>1. h3 = Ensure(h2, pd, i2)
    BY DEF h3
  <2> QED
    BY Zenon, <1>1, <1>4, <2>1, EnsureGrows
<1> DEFINE k == EptAddPage(h, r, g, pa)
<1>6. Stored(h3, k, pt, i1, pa)
  <2>1. k = [h3 EXCEPT !.phys[pt][i1] = pa]
    BY DEF EptAddPage, i1, i2, i3, i4, h1, pdpt, h2, pd
  <2> HIDE DEF h3, pt, k
  <2>2. h3 = [alloc |-> h3.alloc, phys |-> h3.phys, virt |-> h3.virt]
    BY <1>5 DEF AtLevel, HeapType
  <2> QED
    BY <2>1, <2>2 DEF Stored
<1> HIDE DEF h3, pt, k
<1>7. /\ IsTree(k, r)
      /\ \A s \in Tables, j \in Idx :
           k.phys[s][j] = IF s = pt /\ j = i1 THEN pa ELSE h3.phys[s][j]
  BY <1>1, <1>5, <1>6, LeafStore
<1>8. k.virt = h3.virt
  BY <1>6 DEF Stored
<1>9. r # NULL /\ pdpt # NULL /\ pd # NULL /\ pt # NULL /\ pt \in Tables /\ IsTree(h3, r)
  <2>1. \A q, t, m : AtLevel(q, r, t, m) => t \in Tables /\ IsTree(q, r)
    BY DEF AtLevel, HeapType, IsTree
  <2> QED
    BY <1>2, <1>3, <1>4, <1>5, <2>1, EptConstants
<1>10. Walk(h3.virt, r, g) = pt
  <2>1. r \in h1.alloc /\ pdpt \in h1.alloc /\ pdpt \in h2.alloc
    BY <1>2, <1>3, <1>4 DEF Grown, AtLevel
  <2>2. h1.virt[r][i4] = pdpt /\ h2.virt[pdpt][i3] = pd /\ h3.virt[pd][i2] = pt
    BY DEF pdpt, pd, pt
  <2>3. Grown(h1, h3, r)
    BY <1>4, <1>5, GrownTwice
  <2>4. h3.virt[r][i4] = pdpt
    BY <1>1, <1>9, <2>1, <2>2, <2>3 DEF Grown
  <2>5. h3.virt[pdpt][i3] = pd
    BY <1>1, <1>5, <1>9, <2>1, <2>2 DEF Grown
  <2>6. Walk(h3.virt, r, g) = Down(h3.virt, Down(h3.virt, Down(h3.virt, r, i4), i3), i2)
    BY WalkDown DEF i2, i3, i4
  <2>7. Down(h3.virt, r, i4) = pdpt /\ Down(h3.virt, pdpt, i3) = pd /\ Down(h3.virt, pd, i2) = pt
    BY <1>9, <2>2, <2>4, <2>5 DEF Down
  <2> QED
    BY <2>6, <2>7
<1>11. \A f \in Nat : Seen(h3, r, f) = Seen(h, r, f)
  BY <1>3, <1>4, <1>5 DEF Grown
<1>12. ASSUME NEW f \in Nat PROVE Seen(k, r, f) = IF SamePage(f, g) THEN pa ELSE Seen(h3, r, f)
  <2> DEFINE x == Walk(h3.virt, r, f)
             j == Index(f, 0)
  <2>1. j \in Idx
    BY IndexIn
  <2>2. Seen(k, r, f) = Down(k.phys, x, j) /\ Seen(h3, r, f) = Down(h3.phys, x, j)
    BY <1>8 DEF Seen
  <2>3. CASE SamePage(f, g)
    <3>1. x = pt /\ j = i1
      BY <1>10, <2>3, WalkDown DEF SamePage, i1
    <3> HIDE DEF x, j
    <3>2. k.phys[pt][i1] = pa
      BY <1>1, <1>7, <1>9
    <3> QED
      BY <1>9, <2>2, <2>3, <3>1, <3>2 DEF Down
  <2>4. CASE ~SamePage(f, g)
    <3>1. ASSUME x = pt, j = i1 PROVE FALSE
      <4>1. Index(f, 1) = Index(g, 1) /\ Index(f, 2) = Index(g, 2) /\ Index(f, 3) = Index(g, 3)
        BY <1>9, <1>10, <3>1, OnePath
      <4>2. \A l \in 0 .. 3 : l = 0 \/ l = 1 \/ l = 2 \/ l = 3
        OBVIOUS
      <4> QED
        BY <2>4, <3>1, <4>1, <4>2 DEF SamePage, i1
    <3>2. x # NULL => x \in Tables
      <4>1. h3.alloc \subseteq Tables
        BY <1>9 DEF IsTree, HeapType
      <4> QED
        BY <1>9, <4>1, OnePath
    <3> HIDE DEF x, j
    <3>3. x # NULL => k.phys[x][j] = h3.phys[x][j]
      BY <1>7, <2>1, <3>1, <3>2
    <3> QED
      BY <2>2, <2>4, <3>3 DEF Down
  <2> QED
    BY <2>3, <2>4
<1> QED
  BY <1>7, <1>11, <1>12 DEF k

-----------------------------------------------------------------------------
(* What the processor sees, and what ept_free reaches *)

\* HardwareWalk on heap h.
HwSeen(h, r, g) == Down(h.phys, Walk(h.phys, r, g), Index(g, 0))

\* The two halves of a tree lead to the same leaf.
LEMMA HalvesAgree ==
  ASSUME NEW h, NEW r, IsTree(h, r), NEW g \in Nat PROVE HwSeen(h, r, g) = Seen(h, r, g)
<1>1. PICK lev, up, slot : Tree(h, r, lev, up, slot)
  BY DEF IsTree
<1> DEFINE i1 == Index(g, 1)
           i2 == Index(g, 2)
           i3 == Index(g, 3)
<1>2. i1 \in Idx /\ i2 \in Idx /\ i3 \in Idx
  BY IndexIn
<1>3. /\ Walk(h.virt, r, g) = Down(h.virt, Down(h.virt, Down(h.virt, r, i3), i2), i1)
      /\ Walk(h.phys, r, g) = Down(h.phys, Down(h.phys, Down(h.phys, r, i3), i2), i1)
  BY WalkDown
<1> HIDE DEF i1, i2, i3
<1>4. NULL \notin Tables /\ h.alloc \subseteq Tables /\ r \in h.alloc /\ lev[r] = 2 + 1
  BY <1>1, EptConstants DEF HeapType, Tree, IsTree
\* Where the walks have got to at level m.
<1> DEFINE At(a, m) == a = NULL \/ (a \in h.alloc /\ lev[a] = m)
<1>5. ASSUME NEW a, NEW m \in Nat, At(a, m + 1), NEW i \in Idx
      PROVE  Down(h.phys, a, i) = Down(h.virt, a, i) /\ At(Down(h.virt, a, i), m)
  <2>1. CASE a = NULL
    BY <2>1 DEF Down
  <2>2. CASE a \in h.alloc /\ lev[a] = m + 1
    <3>1. a # NULL /\ lev[a] # 0
      BY <1>4, <2>2
    <3>2. h.phys[a][i] = h.virt[a][i]
      BY <1>1, <2>2, <3>1 DEF Tree, Halves
    <3>3. h.virt[a][i] # NULL => h.virt[a][i] \in h.alloc /\ lev[h.virt[a][i]] + 1 = m + 1
      BY <1>1, <2>2, LevelDown
    <3>4. h.virt[a][i] \in h.alloc => lev[h.virt[a][i]] \in Nat
      BY <1>1, <1>4 DEF Tree
    <3>5. At(h.virt[a][i], m)
      BY <3>3, <3>4
    <3> QED
      BY <3>1, <3>2, <3>5 DEF Down
  <2> QED
    BY <1>5, <2>1, <2>2
<1> HIDE DEF At
<1> DEFINE a == Down(h.virt, r, i3)
           b == Down(h.virt, a, i2)
<1>6. At(r, 2 + 1)
  BY <1>4 DEF At
<1>7. Down(h.phys, r, i3) = a /\ At(a, 1 + 1)
  BY <1>2, <1>5, <1>6
<1> HIDE DEF a
<1>8. Down(h.phys, a, i2) = b /\ At(b, 0 + 1)
  BY <1>2, <1>5, <1>7
<1> HIDE DEF b
<1>9. Down(h.phys, b, i1) = Down(h.virt, b, i1)
  BY <1>2, <1>5, <1>8
<1>10. Walk(h.phys, r, g) = Walk(h.virt, r, g)
  BY <1>3, <1>7, <1>8, <1>9 DEF a, b
<1> QED
  BY <1>10 DEF HwSeen, Seen
=============================================================================
