----------------------------- MODULE PacketFraming -----------------------------
(***************************************************************************)
(* How one RecvPacket turns the bytes of a connection into packets: the    *)
(* size and the body phase of CompleteRecv (IOCPNetworkManager.cpp) and    *)
(* the buffers that RecvPacket::GetReady and Clear (Packet.cpp) set up.    *)
(*                                                                         *)
(* The client sends packet 1, 2, ... N one after the other, each as its    *)
(* size in HeaderBytes bytes and then its body.  A byte is its position in *)
(* the connection; packet p begins at Begin[p].  A WSARecv completes with  *)
(* any number of bytes from one to as many as were asked for.              *)
(***************************************************************************)
EXTENDS Integers, Sequences

CONSTANTS
  HeaderBytes,    \* sizeof(packetSize_t)
  Capacity,       \* capacityOfRecvBuffer
  N,              \* bound: the number of packets of the client
  Body,           \* Body[p]: the size that precedes packet p, that of its body
  Begin           \* Begin[p]: where packet p begins; Begin[N + 1]: the end

\* Clients send packets that fit into the buffer: CompleteRecv does not look.
ASSUME FramingAssumption ==
  /\ HeaderBytes \in Nat \ {0}
  /\ Capacity \in Nat
  /\ N \in Nat
  /\ Body \in [1 .. N -> 1 .. Capacity]
  /\ Begin \in [1 .. N + 1 -> Nat]
  /\ \A p \in 1 .. N : Begin[p + 1] = Begin[p] + HeaderBytes + Body[p]

VARIABLES
  stage,          \* "idle", "asked" (WSARecv pending), "received", "handler", "closed"
  at,             \* position of the next byte of the connection
  sizeflag,       \* m_sizeflag: the size is being received
  recvbytes,      \* m_recvbytes
  target,         \* m_target_recvbytes
  sizebuf,        \* the bytes in m_target_recvbytes
  buf,            \* the bytes in the buffer of m_pStream
  wsabuf,         \* m_wsabuf: which buffer, from which offset, how many bytes
  cb,             \* cbTransferred
  delivered       \* history: the contents of the packets given to the session

vars == <<stage, at, sizeflag, recvbytes, target, sizebuf, buf, wsabuf, cb, delivered>>

NoByte == -1

Init ==
  /\ stage = "idle" /\ at = Begin[1] /\ cb = 0
  /\ sizeflag = TRUE /\ recvbytes = 0 /\ target = 0
  /\ sizebuf = [j \in 0 .. HeaderBytes - 1 |-> NoByte]
  /\ buf = [j \in 0 .. Capacity - 1 |-> NoByte]
  /\ wsabuf = [into |-> "size", off |-> 0, len |-> 0]
  /\ delivered = <<>>

-------------------------------------------------------------------------------
\* Mutant: asks for the whole body again instead of its rest.
GetReady_Whole(flag, done, size) ==
  wsabuf' = IF flag THEN [into |-> "size", off |-> done, len |-> HeaderBytes - done]
                    ELSE [into |-> "body", off |-> done, len |-> size]

\* Points m_wsabuf at the bytes that are missing from the size or from the body.
GetReady(flag, done, size) ==
  wsabuf' = IF flag THEN [into |-> "size", off |-> done, len |-> HeaderBytes - done]
                    ELSE [into |-> "body", off |-> done, len |-> size - done]

RecvAsync(flag, done, size) ==
  \/ GetReady(flag, done, size) /\ stage' = "asked"
  \/ UNCHANGED wsabuf /\ stage' = "closed"

\* The n bytes of the connection from position at on, stored into b from off on.
Stored(b, off, n) ==
  [j \in DOMAIN b |-> IF j \in off .. off + n - 1 THEN at + (j - off) ELSE b[j]]

\* The values of m_target_recvbytes when its bytes are those of b: the size of the
\* packet they announce, or anything while they are not all there.
ValuesOf(b) ==
  {v \in 0 .. Capacity :
     \A p \in 1 .. N : (\A j \in DOMAIN b : b[j] = Begin[p] + j) => v = Body[p]}

\* The first receive of the connection.
Recv ==
  /\ stage = "idle"
  /\ RecvAsync(sizeflag, recvbytes, target)
  /\ UNCHANGED <<at, sizeflag, recvbytes, target, sizebuf, buf, cb, delivered>>

\* The pending WSARecv completes with n bytes of what the client sent.
Received(n) ==
  /\ stage = "asked"
  /\ n <= wsabuf.len /\ at + n <= Begin[N + 1]
  /\ \/ /\ wsabuf.into = "size"
        /\ sizebuf' = Stored(sizebuf, wsabuf.off, n)
        /\ target' \in ValuesOf(sizebuf')
        /\ UNCHANGED buf
     \/ /\ wsabuf.into = "body"
        /\ buf' = Stored(buf, wsabuf.off, n)
        /\ UNCHANGED <<sizebuf, target>>
  /\ at' = at + n
  /\ cb' = n
  /\ stage' = "received"
  /\ UNCHANGED <<sizeflag, recvbytes, wsabuf, delivered>>

\* It fails, or completes with no bytes because the client closed.
Ends ==
  /\ stage = "asked"
  /\ stage' = "closed"
  /\ UNCHANGED <<at, sizeflag, recvbytes, target, sizebuf, buf, wsabuf, cb, delivered>>

\* Mutant: m_recvbytes is not set back between the size and the body.
CompleteSize_Keeps ==
  /\ stage = "received" /\ sizeflag
  /\ recvbytes' = recvbytes + cb
  /\ sizeflag' = (recvbytes' # HeaderBytes)
  /\ RecvAsync(sizeflag', recvbytes', target)
  /\ UNCHANGED <<at, target, sizebuf, buf, cb, delivered>>

\* CompleteRecv in the size phase: the size may be complete, the packet is not.
CompleteSize ==
  /\ stage = "received" /\ sizeflag
  /\ LET done == recvbytes + cb
     IN  /\ sizeflag' = (done # HeaderBytes)
         /\ recvbytes' = IF done = HeaderBytes THEN 0 ELSE done
  /\ RecvAsync(sizeflag', recvbytes', target)
  /\ UNCHANGED <<at, target, sizebuf, buf, cb, delivered>>

\* CompleteRecv in the body phase, with bytes missing.
CompletePart ==
  /\ stage = "received" /\ ~sizeflag /\ recvbytes + cb # target
  /\ recvbytes' = recvbytes + cb
  /\ RecvAsync(sizeflag, recvbytes', target)
  /\ UNCHANGED <<at, sizeflag, target, sizebuf, buf, cb, delivered>>

\* Mutant: any bytes of the body are the body.
CompleteBody_Partial ==
  /\ stage = "received" /\ ~sizeflag
  /\ recvbytes' = recvbytes + cb
  /\ delivered' = Append(delivered, [j \in 0 .. recvbytes' - 1 |-> buf[j]])
  /\ stage' = "handler"
  /\ UNCHANGED <<at, sizeflag, target, sizebuf, buf, wsabuf, cb>>

\* CompleteRecv in the body phase with all bytes: SetLenth, and the session reads them.
CompleteBody ==
  /\ stage = "received" /\ ~sizeflag /\ recvbytes + cb = target
  /\ recvbytes' = recvbytes + cb
  /\ delivered' = Append(delivered, [j \in 0 .. recvbytes' - 1 |-> buf[j]])
  /\ stage' = "handler"
  /\ UNCHANGED <<at, sizeflag, target, sizebuf, buf, wsabuf, cb>>

\* Mutant: the packet stays in the body phase.
Clear_NoFlag == recvbytes' = 0 /\ target' = 0 /\ UNCHANGED sizeflag

\* Back to the size phase.  (The head of m_pStream, also set back, is not modelled.)
Clear == sizeflag' = TRUE /\ recvbytes' = 0 /\ target' = 0

\* OnCompleteRecv after the handler: m_pRecvPacket->Clear() and RecvAsync.
ClearAndRecv ==
  /\ stage = "handler"
  /\ Clear
  /\ RecvAsync(sizeflag', recvbytes', target')
  /\ UNCHANGED <<at, sizebuf, buf, cb, delivered>>

Next ==
  \/ Recv \/ Ends \/ CompleteSize \/ CompletePart \/ CompleteBody \/ ClearAndRecv
  \/ \E n \in 1 .. wsabuf.len : Received(n)

Spec == Init /\ [][Next]_vars

\* The bytes the client sent arrive, and a worker handles each completion.
FairSpec ==
  /\ Spec
  /\ WF_vars(Recv \/ CompleteSize \/ CompletePart \/ CompleteBody \/ ClearAndRecv)
  /\ WF_vars(\E n \in 1 .. wsabuf.len : Received(n))

-------------------------------------------------------------------------------
(* Properties *)

TypeOK ==
  /\ stage \in {"idle", "asked", "received", "handler", "closed"}
  /\ at \in Nat /\ recvbytes \in Nat /\ cb \in Nat
  /\ target \in 0 .. Capacity
  /\ sizeflag \in BOOLEAN
  /\ sizebuf \in [0 .. HeaderBytes - 1 -> Int]
  /\ buf \in [0 .. Capacity - 1 -> Int]
  /\ wsabuf \in [into : {"size", "body"}, off : Nat, len : Nat]

BodyOf(p) == [j \in 0 .. Body[p] - 1 |-> Begin[p] + HeaderBytes + j]

\* However the connection cuts the bytes, the session gets the bodies of the
\* client's packets, each whole, in order and once.
DeliversBodies ==
  Len(delivered) <= N /\ \A p \in 1 .. Len(delivered) : delivered[p] = BodyOf(p)

\* A receive asks for exactly the rest of the size or of the body of the next packet.
\* It can neither take bytes of the packet after it nor write past m_target_recvbytes
\* or the buffer of the stream.
AsksForRest ==
  stage = "asked" =>
    LET p == Len(delivered) + 1
    IN  p <= N =>
          IF wsabuf.into = "size"
          THEN at + wsabuf.len = Begin[p] + HeaderBytes /\ wsabuf.off + wsabuf.len = HeaderBytes
          ELSE at + wsabuf.len = Begin[p + 1] /\ wsabuf.off + wsabuf.len = Body[p]

\* Every packet the client sent reaches the session unless the connection ends.
EveryPacketArrives == <>(Len(delivered) = N \/ stage = "closed")
================================================================================
