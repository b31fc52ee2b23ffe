------------------------------ MODULE KextProofs ------------------------------
(* Proofs about the list of states, for any processes and any finite memory:   *)
(* the links stay whole, the walk of state_find ends and reaches every state;  *)
(* and about loading and unloading, for any number of loads.                   *)
EXTENDS Kext, FiniteSetTheorems, WellFoundedInduction, TLAPS

USE ZenonT(30)

-----------------------------------------------------------------------------
(* Arguments over the length of a walk take a least counterexample. *)

Before == {x \in Nat \X Nat : x[1] < x[2]}

\* A set of natural numbers that is not empty has a least element.
LEMMA Least == ASSUME NEW S \in SUBSET Nat, S # {} PROVE \E m \in S : \A y \in S : m <= y
<1>1. OpToRel(<, Nat) = Before
  BY Zenon DEF OpToRel, Before
<1>2. IsWellFoundedOn(Before, Nat)
  BY Zenon, <1>1, NatLessThanWellFounded
<1>3. PICK x \in S : \A y \in S : ~ (<<y, x>> \in Before)
  BY <1>2, WFMin
<1>4. \A y \in S : x <= y
  <2> TAKE y \in S
  <2>1. <<y, x>> \in Nat \X Nat /\ <<y, x>>[1] = y /\ <<y, x>>[2] = x
    OBVIOUS
  <2>2. ~ (<<y, x>> \in Before)
    BY <1>3
  <2>3. ~ (y < x)
    BY Zenon, <2>1, <2>2 DEF Before
  <2> QED
    BY SMTT(30), <2>3
<1> QED
  BY <1>4

-----------------------------------------------------------------------------
(* The walk of state_find *)

Links == States \cup {NULL}
Size == Cardinality(States)

\* What n steps find from each link, when f[n - 1] is what one step less finds.
Step(p, f, n) ==
    [s \in Links |-> IF s = NULL \/ n = 0 THEN NULL
                     ELSE IF node[s].process = p THEN s
                     ELSE f[n - 1][node[s].next]]

\* The function that state_find evaluates at the head.
Find(p) == CHOOSE f : f = [n \in 0 .. Size |-> Step(p, f, n)]

\* The memory is finite, and the length of a walk is a number.
LEMMA SizeNat == Size \in Nat
  BY ListConstants, FS_CardinalityType DEF Size

\* A walk of any bounded length is defined.
LEMMA WalkExists ==
  ASSUME NEW p, NEW k \in Nat PROVE \E f : f = [n \in 0 .. k |-> Step(p, f, n)]
<1> DEFINE Bad == {j \in Nat : ~ \E f : f = [n \in 0 .. j |-> Step(p, f, n)]}
<1> SUFFICES ASSUME Bad # {} PROVE FALSE
  OBVIOUS
<1>1. PICK m \in Bad : \A y \in Bad : m <= y
  BY Least
<1>2. CASE m = 0
  <2> DEFINE f == [n \in 0 .. 0 |-> [s \in Links |-> NULL]]
  <2>1. f = [n \in 0 .. 0 |-> Step(p, f, n)]
    BY SMTT(30) DEF Step
  <2> QED
    BY <1>1, <1>2, <2>1
<1>3. CASE m # 0
  <2>1. m - 1 \in Nat /\ m - 1 \notin Bad
    BY SMTT(30), <1>1, <1>3
  <2>2. PICK f : f = [n \in 0 .. m - 1 |-> Step(p, f, n)]
    BY <2>1
  <2> DEFINE g == [n \in 0 .. m |-> Step(p, f, n)]
  <2>3. \A n \in 0 .. m - 1 : g[n] = f[n]
    BY SMTT(30), <2>2, <2>1, <1>3
  <2>4. ASSUME NEW n \in 0 .. m PROVE Step(p, g, n) = Step(p, f, n)
    <3>1. CASE n = 0
      BY <3>1 DEF Step
    <3>2. CASE n # 0
      <4>1. n - 1 \in 0 .. m - 1
        BY SMTT(30), <1>1, <3>2
      <4>2. g[n - 1] = f[n - 1]
        BY <4>1, <2>3
      <4> HIDE DEF g
      <4> QED
        BY <4>2 DEF Step
    <3> QED
      BY <3>1, <3>2
  <2>5. [n \in 0 .. m |-> Step(p, g, n)] = g
    BY <2>4
  <2> QED
    BY <1>1, <2>5, <2>1
<1> QED
  BY <1>2, <1>3

\* state_find returns what a walk as long as the memory finds from the head.
LEMMA FindWalks == ASSUME NEW p PROVE StateFind(p) = Find(p)[Size][head]
  BY DEF StateFind, Find, Step, Links, Size

\* One round of the loop of state_find.
LEMMA FindStep ==
  ASSUME NEW p, NEW n \in 0 .. Size, NEW s \in Links
  PROVE  Find(p)[n][s] = IF s = NULL \/ n = 0 THEN NULL
                         ELSE IF node[s].process = p THEN s
                         ELSE Find(p)[n - 1][node[s].next]
<1>1. PICK g : g = [m \in 0 .. Size |-> Step(p, g, m)]
  BY SizeNat, WalkExists
<1>2. Find(p) = [m \in 0 .. Size |-> Step(p, Find(p), m)]
  BY Zenon, <1>1 DEF Find
<1>3. Find(p)[n] = Step(p, Find(p), n)
  BY <1>2
<1> QED
  BY <1>3 DEF Step

-----------------------------------------------------------------------------
(* The invariant of the list *)

\* r gives every state its place in the list: the head has place 0, places are different,
\* there are no more than there are states, and next leads one place on.  So the list has
\* no cycle.
Placed(r) ==
    /\ r \in [States -> Nat]
    /\ head # NULL => r[head] = 0
    /\ \A s \in Live : r[s] < Cardinality(Live)
    /\ \A s, t \in Live : r[s] = r[t] => s = t
    /\ \A s \in Live : node[s].next # NULL => r[node[s].next] = r[s] + 1

OnePerProcess == \A s, t \in Live : node[s].process = node[t].process => s = t

ListInv == TypeOK /\ DoublyLinked /\ OnePerProcess /\ \E r : Placed(r)

\* What state_find returns: the state of the process if it has one.
Finds(p) ==
    /\ \A s \in Live : node[s].process = p => StateFind(p) = s
    /\ (\A s \in Live : node[s].process # p) => StateFind(p) = NULL

\* No list is longer than the memory.
LEMMA LiveSize == IsFiniteSet(Live) /\ Cardinality(Live) \in Nat /\ Cardinality(Live) <= Size
<1>1. Live \subseteq States
  BY DEF Live
<1> QED
  BY <1>1, ListConstants, FS_Subset, FS_CardinalityType DEF Size

\* state_find finds the state of a process wherever it is in the list.
LEMMA FindsLive ==
  ASSUME ListInv, NEW s \in Live PROVE StateFind(node[s].process) = s
<1> DEFINE p == node[s].process
           F == Find(p)
<1>1. PICK r : Placed(r)
  BY DEF ListInv
<1>2. /\ \A x \in Live : /\ x \in States /\ x # NULL /\ r[x] \in Nat /\ x \in Links
                         /\ r[x] < Cardinality(Live)
      /\ s \in States /\ s # NULL
  BY SMTT(30), <1>1, ListConstants DEF Live, Placed, Links
<1> DEFINE Back == {y \in Live : /\ r[y] <= r[s]
                                 /\ \A n \in 0 .. Size : n > r[s] - r[y] => F[n][y] = s}
<1>3. s \in Back
  <2>1. ASSUME NEW n \in 0 .. Size, n > r[s] - r[s] PROVE F[n][s] = s
    <3>1. n # 0
      BY SMTT(30), <2>1, <1>2
    <3> QED
      BY <3>1, <1>2, FindStep
  <2> QED
    BY SMTT(30), <2>1, <1>2
<1>4. PICK m \in {r[y] : y \in Back} : \A k \in {r[y] : y \in Back} : m <= k
  <2>1. {r[y] : y \in Back} \in SUBSET Nat /\ {r[y] : y \in Back} # {}
    BY <1>2, <1>3
  <2> HIDE DEF Back
  <2> QED
    BY <2>1, Least
<1>5. PICK y \in Back : m = r[y]
  BY <1>4
<1>6. ASSUME node[y].prev # NULL PROVE FALSE
  <2> DEFINE z == node[y].prev
  <2>1. z \in Live /\ node[z].next = y /\ y # NULL
    BY <1>2, <1>5, <1>6 DEF ListInv, DoublyLinked
  <2>2. r[y] = r[z] + 1 /\ r[z] \in Nat /\ r[y] \in Nat /\ r[s] \in Nat
    BY <1>1, <1>2, <1>5, <2>1 DEF Placed
  <2>3. z # s /\ node[z].process # p
    BY SMTT(30), <1>5, <2>1, <2>2 DEF ListInv, OnePerProcess
  <2>4. ASSUME NEW n \in 0 .. Size, n > r[s] - r[z] PROVE F[n][z] = s
    <3>1. n - 1 \in 0 .. Size /\ n - 1 > r[s] - r[y] /\ n # 0
      BY SMTT(30), <1>5, <2>2, <2>4, SizeNat
    <3>2. F[n - 1][y] = s
      BY <1>5, <3>1
    <3>3. F[n][z] = F[n - 1][node[z].next]
      BY SMTT(30), <1>2, <2>1, <2>3, <3>1, FindStep
    <3> QED
      BY <2>1, <3>2, <3>3
  <2>5. z \in Back
    BY SMTT(30), <1>5, <2>1, <2>2, <2>4
  <2> HIDE DEF Back
  <2>6. m <= r[z]
    BY <1>4, <2>5
  <2> QED
    BY SMTT(30), <1>5, <2>2, <2>6
<1>7. head = y
  BY <1>5, <1>6 DEF ListInv, DoublyLinked
<1>8. Size \in 0 .. Size /\ Size > r[s] - r[y]
  BY SMTT(30), <1>2, <1>5, LiveSize, SizeNat
<1> QED
  BY <1>5, <1>7, <1>8, FindWalks

\* A process that has no state gets NULL.
LEMMA FindsNone ==
  ASSUME ListInv, NEW p, \A s \in Live : node[s].process # p PROVE StateFind(p) = NULL
<1> DEFINE F == Find(p)
           Ends == Live \cup {NULL}
           Bad == {n \in 0 .. Size : \E y \in Ends : F[n][y] # NULL}
<1>1. Ends \subseteq Links /\ head \in Ends
  BY DEF Live, Links, ListInv, DoublyLinked, TypeOK
<1>2. ASSUME Bad # {} PROVE FALSE
  <2>1. Bad \in SUBSET Nat
    BY SMTT(30), SizeNat
  <2>2. PICK m \in Bad : \A k \in Bad : m <= k
    BY <1>2, <2>1, Least
  <2>3. PICK y \in Ends : F[m][y] # NULL
    BY <2>2
  <2>4. y # NULL /\ m # 0 /\ F[m][y] = F[m - 1][node[y].next]
    BY SMTT(30), <1>1, <2>2, <2>3, FindStep
  <2>5. node[y].next \in Ends
    BY <2>3, <2>4 DEF ListInv, DoublyLinked
  <2>6. m - 1 \in 0 .. Size /\ m - 1 < m
    BY SMTT(30), <2>2, <2>4, SizeNat
  <2>7. m - 1 \in Bad
    BY <2>3, <2>4, <2>5, <2>6
  <2> QED
    BY SMTT(30), <2>1, <2>2, <2>6, <2>7
<1>3. Size \in 0 .. Size
  BY SMTT(30), SizeNat
<1> QED
  BY <1>1, <1>2, <1>3, FindWalks

\* state_find returns the state of the process if it has one, and NULL otherwise.
LEMMA FindsRight == ASSUME ListInv, NEW p PROVE Finds(p)
  BY FindsLive, FindsNone DEF Finds

-----------------------------------------------------------------------------
(* The steps of the list *)

\* Putting a new state at the front of the list, as kvm_dev_open does, keeps next and
\* prev inverse to each other and leaves no link to freed memory.
LEMMA InsertKeepsLinks ==
  ASSUME TypeOK, DoublyLinked, NEW p \in Procs, NEW s \in States \ Live, Insert(p, s)
  PROVE  DoublyLinked'
<1>1. NULL \notin States /\ p # NULL
  BY ListConstants
<1>2. \A x \in States : node[x].next \in States \cup {NULL} /\ node[x].prev \in States \cup {NULL}
  BY DEF TypeOK
<1>3. /\ head' = s /\ node'[s].process = p /\ node'[s].next = head /\ node'[s].prev = NULL
      /\ \A x \in States : x # s =>
            /\ node'[x].process = node[x].process /\ node'[x].next = node[x].next
            /\ node'[x].prev = IF x = head THEN s ELSE node[x].prev
  BY SMTT(30), <1>1 DEF Insert, TypeOK
<1>4. \A x \in States : x \in Live' <=> x \in Live \/ x = s
  BY <1>1, <1>3 DEF Live
<1> QED
  BY SMTT(30), <1>1, <1>2, <1>3, <1>4 DEF DoublyLinked, Live, TypeOK

\* Taking any state out, as kvm_dev_close does without a walk, keeps them too.
LEMMA UnlinkKeepsLinks ==
  ASSUME TypeOK, DoublyLinked, NEW s \in Live, Unlink(s)
  PROVE  DoublyLinked'
<1>1. NULL \notin States /\ s \in States
  BY ListConstants DEF Live
<1>2. \A x \in States : /\ node[x].next \in States \cup {NULL}
                        /\ node[x].prev \in States \cup {NULL}
  BY SMTT(30) DEF TypeOK
<1>3. head' = IF node[s].prev = NULL THEN node[s].next ELSE head
  BY ZenonT(30) DEF Unlink
<1>4. /\ node'[s].process = NULL
      /\ \A x \in States : x # s =>
            /\ node'[x].process = node[x].process
            /\ node'[x].next = IF x = node[s].prev THEN node[s].next ELSE node[x].next
            /\ node'[x].prev = IF x = node[s].next THEN node[s].prev ELSE node[x].prev
  BY <1>1 DEF Unlink, TypeOK, Zeroed
<1>5. \A x \in States : x \in Live' <=> x \in Live /\ x # s
  BY <1>1, <1>4 DEF Live
<1>6. ASSUME head' # NULL PROVE head' \in Live' /\ node'[head'].prev = NULL
  BY SMTT(30), <1>1, <1>2, <1>3, <1>4, <1>5, <1>6 DEF DoublyLinked, Live
<1>7. ASSUME NEW x \in Live'
      PROVE  /\ node'[x].next # NULL =>
                   node'[x].next \in Live' /\ node'[node'[x].next].prev = x
             /\ node'[x].prev # NULL =>
                   node'[x].prev \in Live' /\ node'[node'[x].prev].next = x
             /\ node'[x].prev = NULL => head' = x
  <2>1. x \in Live /\ x \in States /\ x # s
    BY <1>5, <1>7 DEF Live
  <2>2. node'[x].next # NULL => node'[x].next \in Live' /\ node'[node'[x].next].prev = x
    BY SMTT(30), <1>1, <1>2, <1>4, <1>5, <2>1 DEF DoublyLinked, Live
  <2>3. node'[x].prev # NULL => node'[x].prev \in Live' /\ node'[node'[x].prev].next = x
    BY SMTT(30), <1>1, <1>2, <1>4, <1>5, <2>1 DEF DoublyLinked, Live
  <2>4. node'[x].prev = NULL => head' = x
    BY SMTT(30), <1>1, <1>2, <1>3, <1>4, <2>1 DEF DoublyLinked, Live
  <2> QED
    BY <2>2, <2>3, <2>4
<1> QED
  BY <1>6, <1>7 DEF DoublyLinked


\* What the insertion in kvm_dev_open changes.
LEMMA InsertFields ==
  ASSUME TypeOK, NEW p \in Procs, NEW s \in States \ Live, Insert(p, s)
  PROVE  /\ head' = s /\ node'[s].process = p /\ node'[s].next = head
         /\ \A x \in States : x # s =>
                node'[x].process = node[x].process /\ node'[x].next = node[x].next
         /\ Live' = Live \cup {s}
<1>1. NULL \notin States /\ p # NULL
  BY ListConstants
<1>2. /\ head' = s /\ node'[s].process = p /\ node'[s].next = head
      /\ \A x \in States : x # s =>
             node'[x].process = node[x].process /\ node'[x].next = node[x].next
  BY <1>1 DEF Insert, TypeOK
<1> QED
  BY <1>1, <1>2 DEF Live

\* What the removal in kvm_dev_close changes.
LEMMA UnlinkFields ==
  ASSUME TypeOK, NEW s \in Live, Unlink(s)
  PROVE  /\ \A x \in States : x # s =>
                /\ node'[x].process = node[x].process
                /\ node'[x].next = IF x = node[s].prev THEN node[s].next ELSE node[x].next
         /\ Live' = Live \ {s}
<1>1. s \in States
  BY SMTT(30) DEF Live
<1>2. /\ node'[s].process = NULL
      /\ \A x \in States : x # s =>
             /\ node'[x].process = node[x].process
             /\ node'[x].next = IF x = node[s].prev THEN node[s].next ELSE node[x].next
  BY <1>1 DEF Unlink, TypeOK, Zeroed
<1> QED
  BY SMTT(30), <1>1, <1>2 DEF Live

\* kvm_dev_open: the new state comes first and the others one place later.
LEMMA InsertKeeps ==
  ASSUME ListInv, NEW p \in Procs, NEW s \in States \ Live, Insert(p, s),
         \A t \in Live : node[t].process # p
  PROVE  ListInv'
<1> USE DEF ListInv
<1>1. TypeOK'
  BY SMTT(30) DEF Insert, TypeOK
<1>2. DoublyLinked'
  BY InsertKeepsLinks
<1>3. OnePerProcess'
  <2>1. \A t \in Live : t \in States /\ t # s
    BY DEF Live
  <2> QED
    BY SMTT(30), <2>1, InsertFields DEF OnePerProcess
<1>4. PICK r : Placed(r)
  OBVIOUS
<1> DEFINE q == [x \in States |-> IF x = s THEN 0 ELSE r[x] + 1]
<1>5. \A x \in States : r[x] \in Nat
  BY <1>4 DEF Placed
<1>6. q \in [States -> Nat] /\ q[s] = 0 /\ \A x \in States : x # s => q[x] = r[x] + 1
  BY SMTT(30), <1>5
<1>7. Live' = Live \cup {s} /\ Cardinality(Live') = Cardinality(Live) + 1
  BY SMTT(30), InsertFields, LiveSize, FS_AddElement
<1>8. \A x \in Live : x \in States /\ x # s /\ x # NULL /\ r[x] < Cardinality(Live)
  BY <1>4, ListConstants DEF Live, Placed
<1> HIDE DEF q
<1>9. \A x \in Live' : q[x] < Cardinality(Live')
  BY SMTT(30), <1>5, <1>6, <1>7, <1>8, LiveSize
<1>10. \A x, y \in Live' : q[x] = q[y] => x = y
  BY SMTT(30), <1>4, <1>5, <1>6, <1>7, <1>8 DEF Placed
<1>11. ASSUME NEW x \in Live', node'[x].next # NULL PROVE q[node'[x].next] = q[x] + 1
  <2>1. CASE x = s
    <3>1. node'[x].next = head /\ head \in Live
      BY <1>11, <2>1, InsertFields DEF DoublyLinked
    <3>2. r[head] = 0
      BY <1>4, <1>8, <3>1 DEF Placed
    <3> QED
      BY <2>1, <1>6, <1>8, <3>1, <3>2
  <2>2. CASE x # s
    <3>1. x \in Live /\ node'[x].next = node[x].next
      BY <1>7, <1>8, <2>2, InsertFields
    <3>2. node[x].next \in Live /\ r[node[x].next] = r[x] + 1
      BY <1>4, <1>11, <3>1 DEF DoublyLinked, Placed
    <3> QED
      BY <1>5, <1>6, <1>8, <3>1, <3>2
  <2> QED
    BY <2>1, <2>2
<1>12. Placed(q)'
  BY <1>6, <1>9, <1>10, <1>11, InsertFields DEF Placed
<1> QED
  BY <1>1, <1>2, <1>3, <1>12

\* kvm_dev_close: the states behind the one that is freed move up one place.
LEMMA UnlinkKeeps == ASSUME ListInv, NEW s \in Live, Unlink(s) PROVE ListInv'
<1> USE DEF ListInv
<1>1. TypeOK'
  BY DEF Unlink, TypeOK, Zeroed, Live
<1>2. DoublyLinked'
  BY UnlinkKeepsLinks
<1>3. OnePerProcess'
  <2>1. \A t \in Live : t \in States
    BY DEF Live
  <2> QED
    BY <2>1, UnlinkFields DEF OnePerProcess
<1>4. PICK r : Placed(r)
  OBVIOUS
<1> DEFINE q == [x \in States |-> IF r[x] > r[s] THEN r[x] - 1 ELSE r[x]]
<1>5. (\A x \in States : r[x] \in Nat) /\ s \in States
  BY <1>4 DEF Placed, Live
<1>6. q \in [States -> Nat] /\ \A x \in States : q[x] = IF r[x] > r[s] THEN r[x] - 1 ELSE r[x]
  BY SMTT(30), <1>5
<1>7. Live' = Live \ {s} /\ Cardinality(Live') = Cardinality(Live) - 1
  BY UnlinkFields, LiveSize, FS_RemoveElement
<1>8. \A x \in Live : x \in States /\ x # NULL /\ r[x] < Cardinality(Live)
  BY <1>4, ListConstants DEF Live, Placed
<1>9. \A x \in Live' : x \in Live /\ x # s /\ r[x] # r[s]
  BY <1>4, <1>7 DEF Placed
<1> HIDE DEF q
<1>10. ASSUME NEW x \in Live' PROVE q[x] < Cardinality(Live')
  <2>1. /\ r[x] \in Nat /\ r[s] \in Nat /\ Cardinality(Live) \in Nat
        /\ r[x] < Cardinality(Live) /\ r[s] < Cardinality(Live) /\ r[x] # r[s]
    BY <1>5, <1>8, <1>9, LiveSize
  <2> QED
    BY SMTT(30), <1>6, <1>7, <1>8, <1>9, <2>1
<1>11. ASSUME NEW x \in Live', NEW y \in Live', q[x] = q[y] PROVE x = y
  <2>1. r[x] \in Nat /\ r[y] \in Nat /\ r[s] \in Nat /\ r[x] # r[s] /\ r[y] # r[s]
    BY <1>5, <1>8, <1>9
  <2>2. r[x] = r[y]
    BY SMTT(30), <1>6, <1>8, <1>9, <1>11, <2>1
  <2> QED
    BY <1>4, <1>9, <2>2 DEF Placed
<1>12. ASSUME NEW x \in Live', node'[x].next # NULL PROVE q[node'[x].next] = q[x] + 1
  <2>1. x \in Live /\ x \in States /\ x # s
    BY <1>8, <1>9
  <2>2. CASE x = node[s].prev
    <3>1. node'[x].next = node[s].next /\ node[x].next = s
      BY <2>1, <2>2, <1>8, UnlinkFields DEF DoublyLinked
    <3>2. node[s].next \in Live /\ r[node[s].next] = r[s] + 1 /\ r[s] = r[x] + 1
      BY <1>4, <1>5, <1>8, <1>12, <2>1, <3>1 DEF DoublyLinked, Placed
    <3> QED
      BY SMTT(30), <1>5, <1>6, <1>8, <2>1, <3>1, <3>2
  <2>3. CASE x # node[s].prev
    <3>1. node'[x].next = node[x].next
      BY <2>1, <2>3, UnlinkFields
    <3>2. /\ node[x].next \in Live /\ r[node[x].next] = r[x] + 1
          /\ node[x].next # s
      BY <1>4, <1>12, <2>1, <2>3, <3>1 DEF DoublyLinked, Placed
    <3>3. r[node[x].next] # r[s] /\ r[x] # r[s]
      BY <1>4, <1>9, <3>2 DEF Placed
    <3> QED
      BY SMTT(30), <1>5, <1>6, <1>8, <2>1, <3>1, <3>2, <3>3
  <2> QED
    BY <2>2, <2>3
<1>13. ASSUME head' # NULL PROVE q[head'] = 0
  <2>1. CASE node[s].prev = NULL
    <3>1. head = s /\ head' = node[s].next
      BY <2>1 DEF DoublyLinked, Unlink
    <3>2. r[s] = 0 /\ r[head'] = 1 /\ head' \in States
      BY SMTT(30), <1>4, <1>8, <1>13, <3>1 DEF Placed, DoublyLinked
    <3> QED
      BY SMTT(30), <1>6, <3>2
  <2>2. CASE node[s].prev # NULL
    <3>1. head' = head
      BY <2>2 DEF Unlink
    <3>2. head \in States /\ r[head] = 0 /\ r[s] \in Nat
      BY <1>4, <1>5, <1>13, <3>1 DEF Placed, TypeOK
    <3> QED
      BY SMTT(30), <1>6, <3>1, <3>2
  <2> QED
    BY <2>1, <2>2
<1>14. Placed(q)'
  BY <1>6, <1>10, <1>11, <1>12, <1>13 DEF Placed
<1> QED
  BY SMTT(30), <1>1, <1>2, <1>3, <1>14

\* The first kvm_dev_open of a process keeps the invariant of the list.
LEMMA OpenKeeps == ASSUME ListInv, NEW p \in Procs, Open(p) PROVE ListInv'
<1>1. PICK s \in States \ Live : Insert(p, s)
  BY DEF Open
<1>2. \A t \in Live : node[t].process # p
  BY FindsRight, ListConstants DEF Open, Finds, Live
<1> QED
  BY <1>1, <1>2, InsertKeeps

\* The last kvm_dev_close of a process keeps it: the state that state_find returns is in
\* the list.
LEMMA CloseKeeps == ASSUME ListInv, NEW p \in Procs, Close(p) PROVE ListInv'
<1>1. StateFind(p) \in Live
  BY FindsRight DEF Close, Finds
<1> QED
  BY <1>1, UnlinkKeeps DEF Close

-----------------------------------------------------------------------------
(* Loading and unloading. *)

\* What the kext holds between two of the calls of MyKextStart and MyKextStop, whether or
\* not processes have the device open.
Held ==
    /\ starts \in Nat
    /\ phase \in {"unloaded", "start_lock", "start_lock_failed", "start_cdev", "start_node",
                  "loaded", "stop_cdev", "stop_vmx"}
    /\ phase \notin {"unloaded", "start_lock_failed"} => starts \in uses
    /\ cdev <=> (phase \in {"start_node", "loaded", "stop_cdev"})
    /\ devnode <=> (phase = "loaded")
    /\ phase \notin {"unloaded", "start_lock", "start_lock_failed"} => stateLock

\* The kext holds what its phase says.
LEMMA HeldInv == KextSpec => []Held
<1>1. KextInit => Held
  BY SMTT(30) DEF KextInit, Held
<1>2. ASSUME Held, [KextNext]_allVars PROVE Held'
  <2> USE <1>2 DEF Held
  <2>1. CASE StartVmxon
    BY SMTT(30), <2>1 DEF StartVmxon
  <2>2. CASE StartLock
    BY <2>2 DEF StartLock
  <2>3. CASE StartCdev
    BY SMTT(30), <2>3 DEF StartCdev
  <2>4. CASE StartNode
    BY <2>4 DEF StartNode
  <2>5. CASE StopNode
    BY <2>5 DEF StopNode
  <2>6. CASE StopCdev
    BY <2>6 DEF StopCdev
  <2>7. CASE StopVmxoff
    BY <2>7 DEF StopVmxoff
  <2>8. ASSUME NEW p \in Procs, DevOpen(p) \/ DevClose(p) PROVE Held'
    BY SMTT(30), <2>8 DEF DevOpen, DevClose, kextVars
  <2>9. CASE UNCHANGED allVars
    BY <2>9 DEF allVars, kextVars
  <2> QED
    BY <2>1, <2>2, <2>3, <2>4, <2>5, <2>6, <2>7, <2>8, <2>9 DEF KextNext
<1> QED
  BY <1>1, <1>2, PTL DEF KextSpec

\* Whenever a handler can be called, the present load has VMX on for it and state_lock
\* exists, and there are handlers behind the device node, after any number of loads, of
\* unloads and of loads that failed, and with the device in use at any moment.
THEOREM HandlersAreServed == KextSpec => []HandlersServed
<1>1. Held => HandlersServed
  BY DEF Held, HandlersServed
<1> QED
  BY <1>1, HeldInv, PTL

-----------------------------------------------------------------------------
(* The list of states across loads and unloads. *)

\* The list of a kext that was never loaded is empty.
LEMMA InitList == Init => ListInv
<1> SUFFICES ASSUME Init PROVE ListInv
  OBVIOUS
<1>1. Live = {}
  BY DEF Init, Live, Zeroed
<1>2. TypeOK
  BY DEF Init, TypeOK, Zeroed
<1>3. DoublyLinked /\ OnePerProcess
  BY <1>1 DEF Init, DoublyLinked, OnePerProcess
<1>4. Placed([s \in States |-> 0])
  BY <1>1 DEF Placed, Init
<1> QED
  BY <1>2, <1>3, <1>4 DEF ListInv

\* The same of the state after a step.
LEMMA InitListNext == Init' => ListInv'
<1>1. Init => ListInv
  BY InitList
<1> QED
  BY <1>1, PTL

\* A step that leaves the links alone leaves the list as it is.
LEMMA SameList == ASSUME ListInv, UNCHANGED <<head, node>> PROVE ListInv'
<1>1. Live' = Live
  BY DEF Live
<1>2. PICK r : Placed(r)
  BY DEF ListInv
<1>3. Placed(r)'
  BY <1>1, <1>2 DEF Placed
<1>4. TypeOK' /\ DoublyLinked' /\ OnePerProcess'
  BY <1>1 DEF ListInv, TypeOK, DoublyLinked, OnePerProcess
<1> QED
  BY <1>3, <1>4 DEF ListInv

\* The list of a kext that was just loaded is empty, whatever the load before left.
LEMMA LoadClears == ASSUME StartVmxon PROVE Init'
  BY DEF StartVmxon, Init

\* The list is whole in every load.
LEMMA KextInvariance == KextSpec => []ListInv
<1>1. KextInit => ListInv
  BY InitList DEF KextInit
<1>2. ASSUME ListInv, [KextNext]_allVars PROVE ListInv'
  <2>1. CASE StartVmxon
    BY <2>1, LoadClears, InitListNext
  <2>2. CASE StartLock \/ StartCdev \/ StartNode \/ StopNode \/ StopCdev \/ StopVmxoff
    <3>1. UNCHANGED <<head, node>>
      BY <2>2 DEF StartLock, StartCdev, StartNode, StopNode, StopCdev, StopVmxoff
    <3> QED
      BY <1>2, <3>1, SameList
  <2>3. ASSUME NEW p \in Procs, DevOpen(p) \/ DevClose(p) PROVE ListInv'
    BY <1>2, <2>3, OpenKeeps, CloseKeeps DEF DevOpen, DevClose
  <2>4. CASE UNCHANGED allVars
    BY <1>2, <2>4, SameList DEF allVars
  <2> QED
    BY <1>2, <2>1, <2>2, <2>3, <2>4 DEF KextNext
<1> QED
  BY <1>1, <1>2, PTL DEF KextSpec

\* next and prev of the states are inverse to each other, the head alone has no
\* predecessor and no link leads to freed memory or to a state of an earlier load, for any
\* processes, any memory and any number of loads and unloads, the device in use or not.
THEOREM ListStaysLinked == KextSpec => []DoublyLinked
<1>1. ListInv => DoublyLinked
  BY DEF ListInv
<1> QED
  BY <1>1, KextInvariance, PTL

\* state_find finds every state of the present load through its process, however many
\* there are and in whatever order the processes came and went.
THEOREM EveryStateFound == KextSpec => []AllFound
<1>1. ListInv => AllFound
  BY FindsLive DEF AllFound
<1> QED
  BY <1>1, KextInvariance, PTL

-----------------------------------------------------------------------------
(* The list implements the map. *)

\* What state_find returns for every process.
FindsAll == TypeOK /\ (\A p \in Procs : Finds(p)) /\ OnePerProcess

\* An open or a close of a process changes what state_find returns for that process only,
\* and the state that kvm_dev_open takes belongs to no process: a step of the kext is a
\* step of the map or leaves it alone, but for a load, which forgets every entry.
LEMMA StepImplements ==
  ASSUME FindsAll, FindsAll', [KextNext]_allVars
  PROVE  [Map!Next \/ (phase = "unloaded" /\ Map!Forget)]_([p \in Procs |-> StateFind(p)])
<1> DEFINE reg == [p \in Procs |-> StateFind(p)]
<1>1. \A s \in Live : s \in States /\ node[s].process \in Procs /\ s # NULL
  BY ListConstants DEF FindsAll, TypeOK, Live
<1>2. ASSUME UNCHANGED <<head, node>> PROVE UNCHANGED reg
  BY SMTT(30), <1>2 DEF StateFind
<1>3. ASSUME NEW p \in Procs, DevOpen(p) PROVE \E s \in States : Map!Register(p, s)
  <2>1. PICK s \in States \ Live : Insert(p, s) /\ StateFind(p) = NULL
    BY <1>3 DEF DevOpen, Open
  <2>2. /\ node'[s].process = p /\ Live' = Live \cup {s}
        /\ \A x \in Live : x # s /\ node'[x].process = node[x].process
    BY <1>1, <2>1, InsertFields DEF FindsAll
  <2>3. StateFind(p)' = s
    BY <2>2 DEF FindsAll, Finds
  <2>4. ASSUME NEW q \in Procs, q # p PROVE StateFind(q)' = StateFind(q)
    BY <2>2, <2>4 DEF FindsAll, Finds
  <2>5. \A q \in Procs : StateFind(q) # s
    BY SMTT(30), <1>1, <2>1, ListConstants DEF FindsAll, Finds
  <2> QED
    BY <2>1, <2>3, <2>4, <2>5 DEF Map!Register, Map!Unregistered
<1>4. ASSUME NEW p \in Procs, DevClose(p) PROVE Map!Unregister(p)
  <2> DEFINE s == StateFind(p)
  <2>1. s \in Live /\ node[s].process = p /\ Unlink(s) /\ s # NULL
    BY <1>4 DEF DevClose, Close, FindsAll, Finds
  <2>2. Live' = Live \ {s} /\ \A x \in Live : x # s => node'[x].process = node[x].process
    BY <1>1, <2>1, UnlinkFields DEF FindsAll
  <2>3. StateFind(p)' = NULL
    BY <2>1, <2>2 DEF FindsAll, Finds, OnePerProcess
  <2>4. ASSUME NEW q \in Procs, q # p PROVE StateFind(q)' = StateFind(q)
    BY <2>1, <2>2, <2>4 DEF FindsAll, Finds
  <2> QED
    BY <2>1, <2>3, <2>4 DEF Map!Unregister
<1>5. ASSUME StartVmxon PROVE phase = "unloaded" /\ Map!Forget
  <2>1. Live' = {}
    BY <1>5 DEF StartVmxon, Live, Zeroed
  <2>2. \A p \in Procs : StateFind(p)' = NULL
    BY <2>1 DEF FindsAll, Finds
  <2> QED
    BY <1>5, <2>2 DEF StartVmxon, Map!Forget
<1>6. ASSUME ~StartVmxon, ~ \E p \in Procs : DevOpen(p) \/ DevClose(p)
      PROVE  UNCHANGED <<head, node>>
  BY <1>6 DEF KextNext, StartLock, StartCdev, StartNode, StopNode, StopCdev, StopVmxoff, allVars
<1> QED
  BY <1>2, <1>3, <1>4, <1>5, <1>6 DEF Map!Next

\* The list of states is a map from processes to states: no state belongs to two processes,
\* the handlers change one entry at a time, and only a load forgets entries.
THEOREM ListIsMap == KextSpec => ImplementsMap
<1>1. ListInv => FindsAll
  BY FindsRight DEF ListInv, FindsAll
<1>2. KextInit => Map!Init
  <2> SUFFICES ASSUME KextInit PROVE Map!Init
    OBVIOUS
  <2>1. FindsAll /\ Live = {}
    BY <1>1, InitList DEF KextInit, Init, Live, Zeroed
  <2>2. \A p \in Procs : StateFind(p) = NULL
    BY <2>1 DEF FindsAll, Finds
  <2> QED
    BY <2>2 DEF Map!Init
<1>3. ASSUME FindsAll, FindsAll', [KextNext]_allVars
      PROVE  [Map!Next \/ (phase = "unloaded" /\ Map!Forget)]_([p \in Procs |-> StateFind(p)])
  BY <1>3, StepImplements
<1> QED
  BY <1>1, <1>2, <1>3, KextInvariance, PTL DEF KextSpec, ImplementsMap
=============================================================================
