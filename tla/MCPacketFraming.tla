--------------------------- MODULE MCPacketFraming ---------------------------
(* Small instances of PacketFraming: bodies of several sizes, one of them full. *)
EXTENDS PacketFraming

MCBody == <<3, 1, 4, 2>>

MCBegin ==
  LET begin[p \in 1 .. N + 1] == IF p = 1 THEN 0 ELSE begin[p - 1] + HeaderBytes + MCBody[p - 1]
  IN  begin
================================================================================
