------------------------------- MODULE StateMap -------------------------------
(* What the list of states promises to the handlers of the device: a map from *)
(* processes to states, changed one entry at a time under state_lock, that    *)
(* never gives one state to two processes.                                    *)
CONSTANTS Procs, States, NULL

VARIABLE reg     \* reg[p]: the state of process p, or NULL

Init == reg = [p \in Procs |-> NULL]

\* The states that are not registered.
Unregistered == {s \in States : \A p \in Procs : reg[p] # s}

Register(p, s) ==
    /\ reg[p] = NULL
    /\ s \in Unregistered
    /\ reg' = [reg EXCEPT ![p] = s]

Unregister(p) ==
    /\ reg[p] # NULL
    /\ reg' = [reg EXCEPT ![p] = NULL]

\* Nobody is registered any more.
Forget == reg' = [p \in Procs |-> NULL]

Next == \E p \in Procs : Unregister(p) \/ \E s \in States : Register(p, s)
=============================================================================
