------------------------------ MODULE StateList ------------------------------
(* The doubly linked list of states (main.cpp:1078-1109) and the two places   *)
(* that change it: the insertion in kvm_dev_open and the removal in           *)
(* kvm_dev_close.  Both run under state_lock, so each is one step.            *)
EXTENDS Naturals, FiniteSets

CONSTANTS Procs, States, NULL

ASSUME ListConstants == NULL \notin Procs \cup States /\ IsFiniteSet(States)

VARIABLES
    head,      \* head_of_state
    node       \* node[s]: process, next and prev of the state at address s

\* Memory that holds no state; IOCalloc returns it zeroed.
Zeroed == [process |-> NULL, next |-> NULL, prev |-> NULL]
Live == {s \in States : node[s].process # NULL}

Init ==
    /\ head = NULL
    /\ node = [s \in States |-> Zeroed]

\* state_find: follow next from the head to the first state of the process.  find[n]
\* is what n steps find from each link; the list is no longer than there are states.
StateFind(p) ==
    LET find[n \in 0 .. Cardinality(States)] ==
            [s \in States \cup {NULL} |->
                IF s = NULL \/ n = 0 THEN NULL
                ELSE IF node[s].process = p THEN s
                ELSE find[n - 1][node[s].next]]
    IN  find[Cardinality(States)][head]

\* The old head keeps prev = NULL.
InsertNoPrev(p, s) ==
    /\ node' = [node EXCEPT ![s] = [process |-> p, next |-> head, prev |-> NULL]]
    /\ head' = s

\* kvm_dev_open puts the new state at the front.
Insert(p, s) ==
    /\ node' = [x \in States |->
                   IF x = s THEN [process |-> p, next |-> head, prev |-> NULL]
                   ELSE IF x = head THEN [node[x] EXCEPT !.prev = s]
                   ELSE node[x]]
    /\ head' = s

\* kvm_dev_open without looking for a state of the process first.
OpenAlwaysNew(p) ==
    \E s \in States \ Live : Insert(p, s)

\* kvm_dev_open up to the unlock; a second open of the process finds its state.
Open(p) ==
    /\ StateFind(p) = NULL
    /\ \E s \in States \ Live : Insert(p, s)

\* The successor keeps pointing back at the state that is freed.
UnlinkNoPrev(s) ==
    /\ head' = IF node[s].prev = NULL THEN node[s].next ELSE head
    /\ node' = [x \in States |->
                   IF x = s THEN Zeroed
                   ELSE IF x = node[s].prev THEN [node[x] EXCEPT !.next = node[s].next]
                   ELSE node[x]]

\* kvm_dev_close takes a state out of the list and frees it.
Unlink(s) ==
    /\ head' = IF node[s].prev = NULL THEN node[s].next ELSE head
    /\ node' = [x \in States |->
                   IF x = s THEN Zeroed
                   ELSE [node[x] EXCEPT
                            !.next = IF x = node[s].prev THEN node[s].next ELSE @,
                            !.prev = IF x = node[s].next THEN node[s].prev ELSE @]]

\* The last kvm_dev_close of the process.
Close(p) ==
    /\ StateFind(p) # NULL
    /\ Unlink(StateFind(p))

-----------------------------------------------------------------------------
TypeOK ==
    /\ head \in States \cup {NULL}
    /\ node \in [States -> [process : Procs \cup {NULL},
                            next : States \cup {NULL}, prev : States \cup {NULL}]]

\* next and prev are inverse to each other, only the head has no predecessor,
\* and no link leads to freed memory, after any sequence of opens and closes of
\* any processes: this is what lets kvm_dev_close unlink in constant time.
DoublyLinked ==
    /\ head # NULL => head \in Live /\ node[head].prev = NULL
    /\ \A s \in Live :
        /\ node[s].next # NULL => node[s].next \in Live /\ node[node[s].next].prev = s
        /\ node[s].prev # NULL => node[s].prev \in Live /\ node[node[s].prev].next = s
        /\ node[s].prev = NULL => head = s

\* state_find walks the whole list: a state that was allocated since the kext was
\* loaded is found through its process, so none is lost behind a broken link, and there is "max 1 per
\* process" (main.cpp:1079).
AllFound == \A s \in Live : StateFind(node[s].process) = s
=============================================================================
