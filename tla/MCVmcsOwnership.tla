--------------------------- MODULE MCVmcsOwnership ---------------------------
(* Two processes on two CPUs: the first has two threads inside ioctls, the     *)
(* second one.                                                                *)
EXTENDS VmcsOwnership, TLC

CONSTANTS t1, t2, t3, v1, v2

MCVmOf == t1 :> v1 @@ t2 :> v1 @@ t3 :> v2

MCSymmetry == Permutations({t1, t2}) \cup Permutations(Cpus)
=============================================================================
