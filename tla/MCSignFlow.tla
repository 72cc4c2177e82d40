------------------------------ MODULE MCSignFlow ------------------------------
(* Small instances of SignFlow: sessions and workers are model values, IDs and    *)
(* characters strings.                                                            *)
EXTENDS SignFlow, TLC

\* Sessions, and workers, are interchangeable.
Symmetry == Permutations(Sessions) \cup Permutations(Workers)
================================================================================
