---------------------------- MODULE MCPlayerParty ------------------------------
(* Small instances of PlayerParty: players are model values.                    *)
EXTENDS PlayerParty, TLC

\* Players are interchangeable: they get their roles from what their clients ask.
Symmetry == Permutations(Players)
================================================================================
