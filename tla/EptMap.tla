-------------------------------- MODULE EptMap --------------------------------
(* What the extended page tables promise: guest page frames are mapped one at a *)
(* time, each to one host frame, and nothing else changes until the tables are  *)
(* thrown away as a whole.                                                      *)
CONSTANTS Gfns, Frames, Unmapped

VARIABLE map

Init == map = [g \in Gfns |-> Unmapped]

Map(g, f) == map' = [map EXCEPT ![g] = f]

Discard == map' = [g \in Gfns |-> Unmapped]

Next == Discard \/ \E g \in Gfns, f \in Frames : Map(g, f)

Spec == Init /\ [][Next]_map
=============================================================================
