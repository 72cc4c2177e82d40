------------------------------- MODULE MCSectors -------------------------------
(* Small instances of Sectors: players and workers are model values.            *)
EXTENDS Sectors, TLC

\* Players are interchangeable, unless only some may disconnect.
Symmetry == Permutations(Players) \cup Permutations(Workers)
================================================================================
