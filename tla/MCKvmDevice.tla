---------------------------- MODULE MCKvmDevice ----------------------------
(* Two processes, one of them with two threads.                               *)
EXTENDS KvmDevice, TLC

CONSTANTS t1, t2, t3, p1, p2

MCProcOf == t1 :> p1 @@ t2 :> p1 @@ t3 :> p2
MCOneProc == t1 :> p1 @@ t2 :> p1

MCSymmetry == Permutations({t1, t2}) \cup Permutations(States) \cup Permutations(Vcpus)
=============================================================================
