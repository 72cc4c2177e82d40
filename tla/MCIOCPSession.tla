---------------------------- MODULE MCIOCPSession ----------------------------
(* Small instances of IOCPSession: the workers are model values.                *)
EXTENDS IOCPSession, TLC

\* Workers are interchangeable.
Symmetry == Permutations(Threads)
================================================================================
