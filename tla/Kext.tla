-------------------------------- MODULE Kext --------------------------------
(***************************************************************************)
(* Loading and unloading (MyKextStart and MyKextStop, main.cpp:1388-1459)  *)
(* around the list of states: the uses of VMX the kext takes from the      *)
(* system, state_lock, the entry in the device switch and the device node, *)
(* with processes that open and close the device meanwhile.  Each call     *)
(* into the system is a step of its own.  MyKextStop does not look whether *)
(* the device is open, so an unload may leave states behind.               *)
(***************************************************************************)
EXTENDS StateList

CONSTANT MaxStarts     \* bounds the loads

ASSUME KextConstants == MaxStarts \in Nat

VARIABLES
    phase,         \* the next call of MyKextStart or MyKextStop
    starts,        \* loads so far; the number of the present load
    uses,          \* loads that have taken a use of VMX and not given it back
    lost,          \* states left behind by an unload: no list holds them, nobody frees them
    stateLock,     \* state_lock was allocated
    cdev, devnode  \* the device switch has kvm_functions; /dev/kvm exists

kextVars == <<phase, starts, uses, lost, stateLock, cdev, devnode>>
allVars == <<head, node, kextVars>>

KextInit ==
    /\ Init
    /\ phase = "unloaded" /\ starts = 0 /\ uses = {} /\ lost = {}
    /\ stateLock = FALSE /\ cdev = FALSE /\ devnode = FALSE

-----------------------------------------------------------------------------
(* MyKextStart *)

\* The globals of a kext that was just loaded are zero: its list is empty, whatever
\* the load before left behind.  host_vmxon fails on a CPU without VMX, or when
\* another program has it for itself.
StartVmxon ==
    /\ phase = "unloaded" /\ starts < MaxStarts
    /\ starts' = starts + 1
    /\ lost' = lost \cup Live
    /\ head' = NULL /\ node' = [s \in States |-> Zeroed] /\ stateLock' = FALSE
    /\ \/ phase' = "start_lock" /\ uses' = uses \cup {starts'}
       \/ phase' = "start_lock_failed" /\ UNCHANGED uses
    /\ UNCHANGED <<cdev, devnode>>

\* state_lock is allocated before the result of host_vmxon is looked at.
StartLock ==
    /\ phase \in {"start_lock", "start_lock_failed"}
    /\ stateLock' = TRUE
    /\ phase' = IF phase = "start_lock" THEN "start_cdev" ELSE "unloaded"
    /\ UNCHANGED <<head, node, starts, uses, lost, cdev, devnode>>

\* From here on the handlers can be called.  With no free entry MyKextStart fails
\* and keeps its use of VMX: MyKextStop is not called for a kext that did not start.
StartCdev ==
    /\ phase = "start_cdev"
    /\ \/ phase' = "start_node" /\ cdev' = TRUE
       \/ phase' = "unloaded" /\ UNCHANGED cdev
    /\ UNCHANGED <<head, node, starts, uses, lost, stateLock, devnode>>

StartNode ==
    /\ phase = "start_node"
    /\ devnode' = TRUE /\ phase' = "loaded"
    /\ UNCHANGED <<head, node, starts, uses, lost, stateLock, cdev>>

(* MyKextStop *)

StopNode ==
    /\ phase = "loaded"
    /\ devnode' = FALSE /\ phase' = "stop_cdev"
    /\ UNCHANGED <<head, node, starts, uses, lost, stateLock, cdev>>

\* The device switch keeps the handlers.
StopCdevForgotten ==
    /\ phase = "stop_cdev"
    /\ phase' = "stop_vmx"
    /\ UNCHANGED <<head, node, starts, uses, lost, stateLock, cdev, devnode>>

StopCdev ==
    /\ phase = "stop_cdev"
    /\ cdev' = FALSE /\ phase' = "stop_vmx"
    /\ UNCHANGED <<head, node, starts, uses, lost, stateLock, devnode>>

\* The use of VMX is given back; state_lock and the states that are left are not freed.
StopVmxoff ==
    /\ phase = "stop_vmx"
    /\ uses' = uses \ {starts} /\ phase' = "unloaded"
    /\ UNCHANGED <<head, node, starts, lost, stateLock, cdev, devnode>>

-----------------------------------------------------------------------------
(* Processes reach the handlers through the device switch.  A descriptor that *)
(* is open when the kext goes leads nowhere: the entry of the switch is gone. *)

DevOpen(p)  == cdev /\ Open(p) /\ Live' \cap lost = {} /\ UNCHANGED kextVars
DevClose(p) == cdev /\ Close(p) /\ UNCHANGED kextVars

KextNext ==
    \/ StartVmxon \/ StartLock \/ StartCdev \/ StartNode
    \/ StopNode \/ StopCdev \/ StopVmxoff
    \/ \E p \in Procs : DevOpen(p) \/ DevClose(p)

KextSpec == KextInit /\ [][KextNext]_allVars

-----------------------------------------------------------------------------
\* Whenever a handler can be called, this load has VMX on for it, whatever earlier
\* loads left, and state_lock exists; and whenever the device node exists there are
\* handlers behind it: MyKextStart takes everything before it adds the device, and
\* MyKextStop takes the device away before it gives anything back.
HandlersServed ==
    /\ cdev => starts \in uses /\ stateLock
    /\ devnode => cdev

\* The list implements the map in every load: state_find gives each process its own
\* state, an open or a close of one process leaves the others' entries alone, and
\* entries are forgotten only by a load, which starts with none.
Map == INSTANCE StateMap WITH reg <- [p \in Procs |-> StateFind(p)]
ImplementsMap ==
    /\ Map!Init
    /\ [][Map!Next \/ (phase = "unloaded" /\ Map!Forget)]_([p \in Procs |-> StateFind(p)])
=============================================================================
