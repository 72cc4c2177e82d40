------------------------------ MODULE SendStream ------------------------------
(***************************************************************************)
(* What a session promises to the code that calls Send on it: the packets  *)
(* are accepted one after the other, and their bytes enter the connection  *)
(* in that order, each packet whole, nothing skipped, repeated or mixed.   *)
(* Nothing is said here of threads, locks, queues or completions.          *)
(***************************************************************************)
EXTENDS Naturals, Sequences

CONSTANT PacketBytes    \* bytes of a packet on the wire

VARIABLES
  accepted,             \* how many packets were accepted: their ids are 1..accepted
  wire                  \* the chunks [id, from, to] handed to the connection so far

streamVars == <<accepted, wire>>

Chunk == [id : Nat, from : Nat, to : Nat]

\* The packet and the offset that follow the bytes already on the wire.
NextByte ==
  IF wire = <<>> THEN [id |-> 1, from |-> 0]
  ELSE LET last == wire[Len(wire)]
       IN  IF last.to = PacketBytes THEN [id |-> last.id + 1, from |-> 0]
                                    ELSE [id |-> last.id, from |-> last.to]

StreamInit == accepted = 0 /\ wire = <<>>

Accept == accepted' = accepted + 1 /\ UNCHANGED wire

Emit ==
  /\ NextByte.id <= accepted
  /\ \E to \in (NextByte.from + 1) .. PacketBytes :
       wire' = Append(wire, [id |-> NextByte.id, from |-> NextByte.from, to |-> to])
  /\ UNCHANGED accepted

StreamNext == Accept \/ Emit

StreamSpec == StreamInit /\ [][StreamNext]_streamVars
================================================================================
