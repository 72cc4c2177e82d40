------------------------------ MODULE PacketPool ------------------------------
(***************************************************************************)
(* The pools of PacketManager.cpp, which all sessions share: how packets   *)
(* travel between the pool, the send queues and the kernel when workers    *)
(* serve several sessions.  The pools are std::queues without a lock; the  *)
(* m_cs that Send and OnCompleteSend hold is one per session.              *)
(*                                                                         *)
(* IOCPSession looks at one session in detail, with every partial send;    *)
(* here a send succeeds as a whole or fails.  The connections are external.*)
(***************************************************************************)
EXTENDS Naturals, FiniteSets, Sequences, SequencesExt

CONSTANTS
  Sessions, Workers,
  SendPackets,    \* m_sendpacket_container
  RecvPackets,    \* numberOfRecvPacket
  NoSession,      \* a null overlapped->pointer
  NoPacket, NoWorker

VARIABLES
  pool,      \* m_sendpacket_pool
  pointer,   \* m_overlappedEx.pointer of each SendPacket
  sendQ,     \* m_sendPacketQueue of each session
  cs,        \* the owner of each session's m_cs
  conn,      \* each connection: "none", "open", "lost"
  live,      \* m_session_set
  recvPool,  \* how many RecvPackets m_recvpacket_pool holds
  listens,   \* sessions with a pending WSARecv
  inflight,  \* pending WSASends: [pkt, of], of the session whose socket it is
  port,      \* their completions: [pkt, of, ok]
  pc,        \* where each worker is
  pkt, at    \* the packet and the session each worker has in hand

vars == <<pool, pointer, sendQ, cs, conn, live, recvPool, listens, inflight, port,
          pc, pkt, at>>
poolVars == <<pool, pointer>>
handVars == <<pc, pkt, at>>
kernelVars == <<inflight, port>>
linkVars == <<conn, live, recvPool, listens>>

Init ==
  /\ pool = SetToSeq(SendPackets)
  /\ pointer = [k \in SendPackets |-> NoSession]
  /\ sendQ = [s \in Sessions |-> <<>>]
  /\ cs = [s \in Sessions |-> NoWorker]
  /\ conn = [s \in Sessions |-> "none"]
  /\ live = {} /\ listens = {}
  /\ recvPool = RecvPackets
  /\ inflight = {} /\ port = {}
  /\ pc = [t \in Workers |-> "wait"]
  /\ pkt = [t \in Workers |-> NoPacket]
  /\ at = [t \in Workers |-> NoSession]

-------------------------------------------------------------------------------

Goto(t, step) == pc' = [pc EXCEPT ![t] = step]
Return(t) ==
  /\ Goto(t, "wait")
  /\ pkt' = [pkt EXCEPT ![t] = NoPacket]
  /\ at' = [at EXCEPT ![t] = NoSession]
Leave(s) == cs' = [cs EXCEPT ![s] = NoWorker]

\* WSASend of packet k on the socket of s, which may fail once the connection is
\* lost; the pointer is set before the call.
SendAsync(k, s, ok) ==
  /\ ok \/ conn[s] = "lost"
  /\ pointer' = [pointer EXCEPT ![k] = s]
  /\ inflight' = IF ok THEN inflight \cup {[pkt |-> k, of |-> s]} ELSE inflight

Taking == {t \in Workers : pc[t] \in {"front", "pop"}}

\* Bound: nobody takes from a pool that others are about to empty.
PoolSuffices == Cardinality(Taking) < Len(pool)

-------------------------------------------------------------------------------
(* Connections and the kernel *)

\* A client connects: OnAccepted creates the session, whose constructor takes
\* a RecvPacket, and posts the first WSARecv.
OnAccepted(s) ==
  /\ conn[s] = "none" /\ recvPool > 0
  /\ conn' = [conn EXCEPT ![s] = "open"]
  /\ live' = live \cup {s}
  /\ recvPool' = recvPool - 1
  /\ listens' = listens \cup {s}
  /\ UNCHANGED <<poolVars, sendQ, cs, kernelVars, handVars>>

ConnectionLost(s) ==
  /\ conn[s] = "open"
  /\ conn' = [conn EXCEPT ![s] = "lost"]
  /\ UNCHANGED <<poolVars, sendQ, cs, live, recvPool, listens, kernelVars, handVars>>

SendCompletes ==
  /\ \E i \in inflight, ok \in BOOLEAN :
       /\ ok \/ conn[i.of] = "lost"
       /\ inflight' = inflight \ {i}
       /\ port' = port \cup {[pkt |-> i.pkt, of |-> i.of, ok |-> ok]}
  /\ UNCHANGED <<poolVars, sendQ, cs, linkVars, handVars>>

-------------------------------------------------------------------------------
(* Send, called by any worker for any session *)

SendEnter(t, s) ==
  /\ pc[t] = "wait" /\ s \in live /\ cs[s] = NoWorker /\ PoolSuffices
  /\ cs' = [cs EXCEPT ![s] = t]
  /\ at' = [at EXCEPT ![t] = s]
  /\ Goto(t, "front")
  /\ UNCHANGED <<poolVars, sendQ, linkVars, kernelVars, pkt>>

\* m_sendpacket_pool.front()
PoolFront(t) ==
  /\ pc[t] = "front"
  /\ pkt' = [pkt EXCEPT ![t] = Head(pool)]
  /\ Goto(t, "pop")
  /\ UNCHANGED <<poolVars, sendQ, cs, linkVars, kernelVars, at>>

\* m_sendpacket_pool.pop() and Clear
PoolPop(t) ==
  /\ pc[t] = "pop"
  /\ pool' = Tail(pool)
  /\ pointer' = [pointer EXCEPT ![pkt[t]] = NoSession]
  /\ Goto(t, "push")
  /\ UNCHANGED <<sendQ, cs, linkVars, kernelVars, pkt, at>>

\* Packing, push, and SendAsync when the packet is alone in the queue.
Push(t) ==
  LET s == at[t] IN
  /\ pc[t] = "push"
  /\ sendQ' = [sendQ EXCEPT ![s] = Append(@, pkt[t])]
  /\ \/ sendQ[s] = <<>> /\ \E ok \in BOOLEAN : SendAsync(pkt[t], s, ok)
     \/ sendQ[s] # <<>> /\ UNCHANGED <<inflight, pointer>>
  /\ Leave(s)
  /\ Return(t)
  /\ UNCHANGED <<pool, linkVars, port>>

-------------------------------------------------------------------------------
(* WorkerThread: the completions *)

\* A worker dequeues a completion of a WSASend; the session is the one the
\* packet points to now.
Dequeue(t, c) ==
  /\ pc[t] = "wait"
  /\ port' = port \ {c}
  /\ pkt' = [pkt EXCEPT ![t] = c.pkt]
  /\ at' = [at EXCEPT ![t] = pointer[c.pkt]]
  /\ Goto(t, IF c.ok THEN "sended" ELSE "drop")
  /\ UNCHANGED <<poolVars, sendQ, cs, linkVars, inflight>>

\* OnCompleteSend takes m_cs and retrieves the front packet.
RetrieveFront(t) ==
  LET s == at[t] IN
  /\ pc[t] = "sended"
  /\ cs[s] = NoWorker
  /\ cs' = [cs EXCEPT ![s] = t]
  /\ sendQ' = [sendQ EXCEPT ![s] = Tail(@)]
  /\ pool' = Append(pool, Head(sendQ[s]))
  /\ pointer' = [pointer EXCEPT ![Head(sendQ[s])] = NoSession]
  /\ Goto(t, "next")
  /\ UNCHANGED <<linkVars, kernelVars, pkt, at>>

\* The next packet of the queue; if its WSASend fails, the worker throws.
SendNext(t) ==
  LET s == at[t] IN
  /\ pc[t] = "next"
  /\ Leave(s)
  /\ \/ sendQ[s] = <<>> /\ Return(t) /\ UNCHANGED <<inflight, pointer>>
     \/ sendQ[s] # <<>> /\ SendAsync(Head(sendQ[s]), s, TRUE) /\ Return(t)
     \/ /\ sendQ[s] # <<>> /\ SendAsync(Head(sendQ[s]), s, FALSE)
        /\ Goto(t, "drop")
        /\ UNCHANGED <<pkt, at>>
  /\ UNCHANGED <<pool, sendQ, linkVars, port>>

\* The WSARecv of a lost connection fails.
RecvFailed(t, s) ==
  /\ pc[t] = "wait" /\ s \in listens /\ conn[s] = "lost"
  /\ listens' = listens \ {s}
  /\ at' = [at EXCEPT ![t] = s]
  /\ Goto(t, "drop")
  /\ UNCHANGED <<poolVars, sendQ, cs, conn, live, recvPool, kernelVars, pkt>>

\* OnDisconnected removes the session from the set.
OnDisconnected(t) ==
  /\ pc[t] = "drop"
  /\ live' = live \ {at[t]}
  /\ Goto(t, "clear")
  /\ UNCHANGED <<poolVars, sendQ, cs, conn, recvPool, listens, kernelVars, pkt, at>>

\* overlapped->pointer = nullptr, at the end of the catch block.
ClearPointer(t) ==
  /\ pc[t] = "clear"
  /\ pointer' = IF pkt[t] = NoPacket THEN pointer
                ELSE [pointer EXCEPT ![pkt[t]] = NoSession]
  /\ Return(t)
  /\ UNCHANGED <<pool, sendQ, cs, linkVars, kernelVars>>

Work(t) ==
  \/ PoolFront(t) \/ PoolPop(t) \/ Push(t) \/ SendNext(t) \/ OnDisconnected(t) \/ ClearPointer(t)
  \/ RetrieveFront(t) \/ \E c \in port : Dequeue(t, c)
  \/ \E s \in Sessions : SendEnter(t, s) \/ RecvFailed(t, s)

\* The packet of a completion has lost its session, or the queue of the session is
\* empty: the worker dereferences nullptr or pops an empty queue.
EndsServer(t) ==
  \/ pc[t] \in {"sended", "drop"} /\ at[t] = NoSession
  \/ pc[t] = "sended" /\ sendQ[at[t]] = <<>>

Next ==
  /\ \A t \in Workers : ~EndsServer(t)
  /\ \/ \E s \in Sessions : OnAccepted(s) \/ ConnectionLost(s)
     \/ SendCompletes
     \/ \E t \in Workers : Work(t)

Spec == Init /\ [][Next]_vars

-------------------------------------------------------------------------------
(* Properties *)

\* The places in the pool, the queues and the hands of a Send where packet k is.
PoolPlaces(k) == {<<"pool", i>> : i \in {j \in DOMAIN pool : pool[j] = k}}
QueuePlaces(k, s) == {<<"queue", s, i>> : i \in {j \in DOMAIN sendQ[s] : sendQ[s][j] = k}}
HandPlaces(k) == {<<"hand", t>> : t \in {u \in Workers : pc[u] = "push" /\ pkt[u] = k}}
Uses(k) == PoolPlaces(k) \cup HandPlaces(k) \cup UNION {QueuePlaces(k, s) : s \in Sessions}

\* No packet is used by two sends, or by a send while it is in the pool, and none
\* gets lost between the two (GetSendPacketFromPool and RetrieveSendPacket of
\* PacketManager, the queues of the sessions): the pools are shared by all threads.
OneUser == \A k \in SendPackets : Cardinality(Uses(k)) = 1

\* The catch block of WorkerThread clears the pointer of a packet that still
\* belongs to the session it disconnected, or to none; packets that two sends
\* got from the pool are left to OneUser.
ClearsOwnPointer ==
  \A t \in Workers :
    pc[t] = "clear" /\ pkt[t] # NoPacket /\ Cardinality(Uses(pkt[t])) = 1
      => pointer[pkt[t]] \in {at[t], NoSession}

Over ==
  /\ live = {} /\ listens = {} /\ inflight = {} /\ port = {}
  /\ \A s \in Sessions : conn[s] = "lost"
  /\ \A t \in Workers : pc[t] = "wait"

\* When every connection has come to its end and nothing is going on, the
\* RecvPackets of the sessions are back in their pool (OnDisconnected).
RecvPacketsReturned == Over => recvPool = RecvPackets

\* The same of the SendPackets, those in the queues of the sessions included.
SendPacketsReturned == Over => \A k \in SendPackets : k \in ToSet(pool)
================================================================================
