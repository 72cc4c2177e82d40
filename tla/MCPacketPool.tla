------------------------------ MODULE MCPacketPool ------------------------------
(* Small instances of PacketPool: sessions and workers are model values, the      *)
(* packets are numbers because the pool starts in the order of their creation.    *)
EXTENDS PacketPool, TLC

\* Sessions, and workers, are interchangeable.
Symmetry == Permutations(Sessions) \cup Permutations(Workers)
================================================================================
