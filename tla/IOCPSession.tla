------------------------------ MODULE IOCPSession ------------------------------
(***************************************************************************)
(* One client session and the IOCP worker threads that serve it:           *)
(* IOCPSession.cpp, the dispatch of IOCPNetworkManager.cpp and the         *)
(* membership kept by IOCPSessionManager.cpp.                              *)
(*                                                                         *)
(* Every worker loops on GetQueuedCompletionStatus.  A completion of the   *)
(* session's WSARecv runs the state's handler and posts the next WSARecv;  *)
(* a completion of a WSASend pops the send queue and posts the next packet.*)
(* Any worker, also one that serves another client, may call Send.  Send   *)
(* and OnCompleteSend hold the session's critical section m_cs, which is   *)
(* recursive; nothing else does.                                           *)
(*                                                                         *)
(* The operating system is external: posted operations complete with some  *)
(* bytes, or fail once the connection is lost.  A whole packet of the      *)
(* client counts as one completion here, or several "part" ones before it. *)
(***************************************************************************)
EXTENDS Naturals, Sequences, FiniteSets

CONSTANTS
  Threads,        \* the worker threads of the completion port
  PoolSize,       \* numberOfSendPacket
  PacketBytes,    \* bytes of a packed packet on the wire
  MaxSend,        \* bound: Send is called only while m_newSendID <= MaxSend
  MaxRecv,        \* bound: the client numbers its packets 1..MaxRecv
  Duplicates,     \* whether the client may repeat its latest packet
  NoThread,       \* m_cs has no owner
  NoCompletion    \* a worker holds no completion

ASSUME SessionAssumption ==
  /\ PoolSize \in Nat
  /\ PacketBytes \in Nat \ {0}
  /\ MaxSend \in Nat
  /\ MaxRecv \in Nat
  /\ Duplicates \in BOOLEAN
  /\ NoThread \notin Threads

VARIABLES
  sock,           \* the connection: "none", "open", "fin" (peer closed), "reset"
  inSet,          \* the session is in IOCPSessionManager::m_session_set
  started,        \* the first WSARecv of OnAccepted was posted
  owner, depth,   \* m_cs: the owning thread and how often it entered
  sendQ,          \* m_sendPacketQueue
  newSendID,      \* m_newSendID
  newRecvID,      \* m_newRecvID
  pool,           \* m_sendpacket_pool, of which this session is the only user
  packetID,       \* the id that Packing wrote last into each SendPacket
  frontID,        \* the id at the start of the SendPacket's m_pStream, 0: empty
  sendbytes,      \* m_sendbytes of each SendPacket
  inflight,       \* SendPackets with a WSASend pending, in call order
  recvs,          \* number of WSARecv pending on m_pRecvPacket
  port,           \* completions nobody dequeued yet
  pc, ret,        \* where each worker is; where its call of Send returns to
  cur,            \* the completion each worker handles
  clientID,       \* id of the next packet of the client
  handled,        \* history: ids handed to OnRecvCompleted
  wire            \* history: the chunks of packets given to the connection

ioVars     == <<inflight, recvs, port, wire>>
lockVars   == <<owner, depth>>
packetVars == <<pool, packetID, frontID, sendbytes>>
queueVars  == <<sendQ, newSendID>>
recvVars   == <<newRecvID, clientID, handled>>
linkVars   == <<sock, inSet, started>>
vars == <<linkVars, lockVars, queueVars, packetVars, ioVars, recvVars, pc, ret, cur>>

SendPackets == 1 .. PoolSize

Accepted == [kind : {"accept"}]
RecvDone == [kind : {"recv"}, what : {"part", "whole", "end"}, id : Nat]
SendDone == [kind : {"send"}, pkt : SendPackets, cb : Nat]
Completion == Accepted \cup RecvDone \cup SendDone

Steps == {"wait", "accept", "recved", "handler", "repost", "drop",
          "enter", "pack", "post", "exit",
          "sended", "lock", "pop", "next", "onsend", "unlock"}

\* Send is called by another session's handler, by OnRecvCompleted, by OnSendCompleted.
Callers == {"wait", "handler", "onsend"}

TypeOK ==
  /\ sock \in {"none", "open", "fin", "reset"}
  /\ inSet \in BOOLEAN
  /\ started \in BOOLEAN
  /\ owner \in Threads \cup {NoThread}
  /\ depth \in Nat
  /\ sendQ \in Seq(SendPackets)
  /\ newSendID \in Nat \ {0}
  /\ newRecvID \in Nat \ {0}
  /\ pool \in Seq(SendPackets)
  /\ packetID \in [SendPackets -> Nat]
  /\ frontID \in [SendPackets -> Nat]
  /\ sendbytes \in [SendPackets -> Nat]
  /\ inflight \in Seq(SendPackets)
  /\ recvs \in Nat
  /\ port \subseteq Completion
  /\ pc \in [Threads -> Steps]
  /\ ret \in [Threads -> Callers]
  /\ cur \in [Threads -> Completion \cup {NoCompletion}]
  /\ clientID \in Nat \ {0}
  /\ handled \in Seq(Nat)
  /\ wire \in Seq([id : Nat, from : Nat, to : Nat])

Init ==
  /\ sock = "none" /\ inSet = FALSE /\ started = FALSE
  /\ owner = NoThread /\ depth = 0
  /\ sendQ = <<>> /\ newSendID = 1 /\ newRecvID = 1
  /\ pool = [k \in SendPackets |-> k]
  /\ packetID = [k \in SendPackets |-> 0]
  /\ frontID = [k \in SendPackets |-> 0]
  /\ sendbytes = [k \in SendPackets |-> 0]
  /\ inflight = <<>> /\ recvs = 0 /\ port = {}
  /\ pc = [t \in Threads |-> "wait"]
  /\ ret = [t \in Threads |-> "wait"]
  /\ cur = [t \in Threads |-> NoCompletion]
  /\ clientID = 1 /\ handled = <<>> /\ wire = <<>>

-------------------------------------------------------------------------------
(* Helpers *)

Goto(t, step) == pc' = [pc EXCEPT ![t] = step]
From(t, step) == pc[t] = step

\* Mutant: the guard object enters nothing.
EnterCS_Unguarded(t) == owner' = t /\ depth' = depth + 1

\* Mutant: a lock that its owner cannot enter again.
EnterCS_NotRecursive(t) == owner = NoThread /\ owner' = t /\ depth' = depth + 1

EnterCS(t) ==
  /\ owner \in {NoThread, t}
  /\ owner' = t
  /\ depth' = depth + 1

\* Mutant: released by hand and again by the destructor.
LeaveCS_Twice == owner' = NoThread /\ depth' = depth - 2

LeaveCS ==
  /\ owner' = IF depth = 1 THEN NoThread ELSE owner
  /\ depth' = depth - 1

\* A WSASend or WSARecv returns an error other than WSA_IO_PENDING.
CallFails == sock = "reset"

RecvAsync == recvs' = recvs + 1 /\ UNCHANGED <<inflight, port, wire>>

SendAsync(k) == inflight' = Append(inflight, k) /\ UNCHANGED <<recvs, port, wire>>

\* Mutant: post whatever is in front whenever there is a packet.
OnlyPacket_Any == Len(sendQ) >= 1

\* "No send is in progress": the packet just pushed is the only one.
OnlyPacket == Len(sendQ) = 1

\* Mutant: off by one.
MorePackets_NotLast == Len(sendQ) > 1

MorePackets == sendQ # <<>>

\* Mutant: the newest packet.
NextPacket_Back == sendQ[Len(sendQ)]

NextPacket == Head(sendQ)

\* Mutant: front() without pop().
TakeFromPool_NoPop(k) == pool # <<>> /\ k = Head(pool) /\ UNCHANGED pool

\* GetSendPacketFromPool: front() and pop().  Clear() resets the counters of the
\* packet and leaves what is in its m_pStream.
TakeFromPool(k) == pool # <<>> /\ k = Head(pool) /\ pool' = Tail(pool)

\* Mutant: a partial send counts as a complete one.
SentAll_Partial(n) == n > 0

SentAll(n) == n = PacketBytes

\* Mutant: off by one, the latest packet counts as new.
AlreadyHandled_OffByOne(id) == id + 1 < newRecvID

AlreadyHandled(id) == id < newRecvID

-------------------------------------------------------------------------------
(* The accepting thread and the connection *)

\* DoFrame accepts the client and posts the accept packet to the port.
DoFrame ==
  /\ sock = "none"
  /\ sock' = "open"
  /\ port' = port \cup {[kind |-> "accept"]}
  /\ UNCHANGED <<inSet, started, lockVars, queueVars, packetVars, inflight, recvs, wire,
                 recvVars, pc, ret, cur>>

PeerCloses ==
  /\ sock = "open"
  /\ sock' = "fin"
  /\ UNCHANGED <<inSet, started, lockVars, queueVars, packetVars, ioVars, recvVars, pc, ret, cur>>

ConnectionLost ==
  /\ sock \in {"open", "fin"}
  /\ sock' = "reset"
  /\ UNCHANGED <<inSet, started, lockVars, queueVars, packetVars, ioVars, recvVars, pc, ret, cur>>

\* The connection takes some of the bytes of the oldest pending WSASend.  GetReady
\* points m_wsabuf at m_sendbytes from the start of m_pStream.
SendCompletes ==
  /\ inflight # <<>> /\ sock \in {"open", "fin"}
  /\ LET k == Head(inflight)
     IN  \E n \in 1 .. (PacketBytes - sendbytes[k]) :
           /\ wire' = Append(wire, [id |-> frontID[k], from |-> sendbytes[k],
                                    to |-> sendbytes[k] + n])
           /\ port' = port \cup {[kind |-> "send", pkt |-> k, cb |-> n]}
  /\ inflight' = Tail(inflight)
  /\ UNCHANGED <<linkVars, lockVars, queueVars, packetVars, recvs, recvVars, pc, ret, cur>>

SendAborts ==
  /\ inflight # <<>> /\ sock = "reset"
  /\ port' = port \cup {[kind |-> "send", pkt |-> Head(inflight), cb |-> 0]}
  /\ inflight' = Tail(inflight)
  /\ UNCHANGED <<linkVars, lockVars, queueVars, packetVars, recvs, wire, recvVars, pc, ret, cur>>

RecvCompletes(what, id) ==
  /\ recvs > 0
  /\ recvs' = recvs - 1
  /\ port' = port \cup {[kind |-> "recv", what |-> what, id |-> id]}
  /\ UNCHANGED <<linkVars, lockVars, queueVars, packetVars, inflight, wire, newRecvID, handled,
                 pc, ret, cur>>

RecvPart ==
  /\ sock = "open" /\ clientID <= MaxRecv
  /\ RecvCompletes("part", 0)
  /\ UNCHANGED clientID

RecvWhole ==
  /\ sock = "open" /\ clientID <= MaxRecv
  /\ RecvCompletes("whole", clientID)
  /\ clientID' = clientID + 1

\* The client sends its latest packet once more.
RecvDuplicate ==
  /\ Duplicates
  /\ sock = "open" /\ clientID > 1
  /\ RecvCompletes("whole", clientID - 1)
  /\ UNCHANGED clientID

\* Zero bytes after an orderly close, an error after a reset.
RecvEnd ==
  /\ sock \in {"fin", "reset"}
  /\ RecvCompletes("end", 0)
  /\ UNCHANGED clientID

-------------------------------------------------------------------------------
(* WorkerThread: dequeue and dispatch *)

\* cbTransferred = 0 or a failed operation throws and ends in OnDisconnected.
Dispatch(e) ==
  CASE e.kind = "accept"                -> "accept"
    [] e.kind = "recv" /\ e.what # "end" -> "recved"
    [] e.kind = "send" /\ e.cb # 0       -> "sended"
    [] OTHER                             -> "drop"

Take(t, e) ==
  /\ From(t, "wait")
  /\ port' = port \ {e}
  /\ cur' = [cur EXCEPT ![t] = e]
  /\ Goto(t, Dispatch(e))
  /\ UNCHANGED <<linkVars, lockVars, queueVars, packetVars, inflight, recvs, wire, recvVars, ret>>

\* GetQueuedCompletionStatus hands completions out in order, and workers overtake
\* one another between that call and their first step: any order is allowed here.
Dequeue(t) == \E e \in port : Take(t, e)

\* CreateSession, SetEndPoint, LinkIOCPThread and the first Recv.  A failed Recv
\* leaves the session in the set with nothing pending.
OnAccepted(t) ==
  /\ From(t, "accept")
  /\ inSet' = TRUE
  /\ \/ RecvAsync /\ started' = TRUE
     \/ CallFails /\ UNCHANGED <<started, ioVars>>
  /\ cur' = [cur EXCEPT ![t] = NoCompletion]
  /\ Goto(t, "wait")
  /\ UNCHANGED <<sock, lockVars, queueVars, packetVars, recvVars, ret>>

\* OnBeforeDisconnected, then DestroySession.  (The sector is not part of this module.)
OnDisconnected(t) ==
  /\ From(t, "drop")
  /\ inSet' = FALSE
  /\ cur' = [cur EXCEPT ![t] = NoCompletion]
  /\ Goto(t, "wait")
  /\ UNCHANGED <<sock, started, lockVars, queueVars, packetVars, ioVars, recvVars, ret>>

-------------------------------------------------------------------------------
(* Receiving *)

\* Mutant: the rest of a packet is not asked for.
CompleteRecvPart_NoRepost(t) ==
  /\ From(t, "recved") /\ cur[t].what = "part"
  /\ Goto(t, "wait") /\ cur' = [cur EXCEPT ![t] = NoCompletion]
  /\ UNCHANGED <<linkVars, lockVars, queueVars, packetVars, ioVars, recvVars, ret>>

\* CompleteRecv: the packet is not complete, receive the rest of it.
CompleteRecvPart(t) ==
  /\ From(t, "recved") /\ cur[t].what = "part"
  /\ \/ RecvAsync /\ Goto(t, "wait") /\ cur' = [cur EXCEPT ![t] = NoCompletion]
     \/ CallFails /\ Goto(t, "drop") /\ UNCHANGED <<ioVars, cur>>
  /\ UNCHANGED <<linkVars, lockVars, queueVars, packetVars, recvVars, ret>>

\* OnCompleteRecv finds an id below m_newRecvID and returns; m_newRecvID grows all the same.
DiscardPacket(t) ==
  /\ From(t, "recved") /\ cur[t].what = "whole" /\ AlreadyHandled(cur[t].id)
  /\ newRecvID' = newRecvID + 1
  /\ cur' = [cur EXCEPT ![t] = NoCompletion]
  /\ Goto(t, "wait")
  /\ UNCHANGED <<linkVars, lockVars, queueVars, packetVars, ioVars, clientID, handled, ret>>

\* OnCompleteRecv passes the packet to m_current_state->OnRecvCompleted.
DeliverPacket(t) ==
  /\ From(t, "recved") /\ cur[t].what = "whole" /\ ~AlreadyHandled(cur[t].id)
  /\ newRecvID' = newRecvID + 1
  /\ handled' = Append(handled, cur[t].id)
  /\ Goto(t, "handler")
  /\ UNCHANGED <<linkVars, lockVars, queueVars, packetVars, ioVars, clientID, ret, cur>>

\* Mutant: the handler posts a receive of its own.
HandlerReturns_Posts(t) ==
  /\ From(t, "handler")
  /\ RecvAsync
  /\ Goto(t, "repost")
  /\ UNCHANGED <<linkVars, lockVars, queueVars, packetVars, recvVars, ret, cur>>

HandlerReturns(t) ==
  /\ From(t, "handler")
  /\ Goto(t, "repost")
  /\ UNCHANGED <<linkVars, lockVars, queueVars, packetVars, ioVars, recvVars, ret, cur>>

\* Mutant: the result of RecvAsync is not looked at.
RepostRecv_Unchecked(t) ==
  /\ From(t, "repost")
  /\ RecvAsync \/ (CallFails /\ UNCHANGED ioVars)
  /\ Goto(t, "wait") /\ cur' = [cur EXCEPT ![t] = NoCompletion]
  /\ UNCHANGED <<linkVars, lockVars, queueVars, packetVars, recvVars, ret>>

\* m_pRecvPacket->Clear() and RecvAsync for the next packet.
RepostRecv(t) ==
  /\ From(t, "repost")
  /\ \/ RecvAsync /\ Goto(t, "wait") /\ cur' = [cur EXCEPT ![t] = NoCompletion]
     \/ CallFails /\ Goto(t, "drop") /\ UNCHANGED <<ioVars, cur>>
  /\ UNCHANGED <<linkVars, lockVars, queueVars, packetVars, recvVars, ret>>

-------------------------------------------------------------------------------
(* Send, called by any worker that has a reference to the session *)

\* Bound: the pool is never exhausted.  (front() of an empty queue is undefined.)
PoolSuffices == Len(sendQ) + Cardinality({u \in Threads : pc[u] \in {"enter", "pack"}}) < PoolSize

CallSend(t) ==
  /\ pc[t] \in Callers
  /\ inSet \/ pc[t] # "wait"
  /\ newSendID <= MaxSend /\ PoolSuffices
  /\ ret' = [ret EXCEPT ![t] = pc[t]]
  /\ Goto(t, "enter")
  /\ UNCHANGED <<linkVars, lockVars, queueVars, packetVars, ioVars, recvVars, cur>>

SendEnter(t) ==
  /\ From(t, "enter")
  /\ EnterCS(t)
  /\ Goto(t, "pack")
  /\ UNCHANGED <<linkVars, queueVars, packetVars, ioVars, recvVars, ret, cur>>

\* The id Packing leaves at the start of m_pStream: Write appends, and nothing ever
\* sets the head of that stream back.
Packing(k, id) ==
  /\ packetID' = [packetID EXCEPT ![k] = id]
  /\ frontID' = IF frontID[k] = 0 THEN [frontID EXCEPT ![k] = id] ELSE frontID

\* GetSendPacketFromPool (which clears the packet), Packing, ++m_newSendID, push.
SendPack(t) ==
  /\ From(t, "pack")
  /\ \E k \in SendPackets :
       /\ TakeFromPool(k)
       /\ Packing(k, newSendID)
       /\ sendbytes' = [sendbytes EXCEPT ![k] = 0]
       /\ sendQ' = Append(sendQ, k)
  /\ newSendID' = newSendID + 1
  /\ Goto(t, "post")
  /\ UNCHANGED <<linkVars, lockVars, ioVars, recvVars, ret, cur>>

\* Nothing else in the queue: post the packet at once.  A failed WSASend makes Send
\* return false, and no caller looks at what Send returns.
SendPost(t) ==
  /\ From(t, "post")
  /\ \/ OnlyPacket /\ SendAsync(NextPacket)
     \/ (OnlyPacket => CallFails) /\ UNCHANGED ioVars
  /\ Goto(t, "exit")
  /\ UNCHANGED <<linkVars, lockVars, queueVars, packetVars, recvVars, ret, cur>>

SendExit(t) ==
  /\ From(t, "exit")
  /\ LeaveCS
  /\ Goto(t, ret[t])
  /\ UNCHANGED <<linkVars, queueVars, packetVars, ioVars, recvVars, ret, cur>>

-------------------------------------------------------------------------------
(* Completed sends *)

\* CompleteSend runs before m_cs is taken: count the bytes, post the rest if any.
CompleteSend(t) ==
  /\ From(t, "sended")
  /\ LET k == cur[t].pkt
         n == sendbytes[k] + cur[t].cb
     IN  /\ sendbytes' = [sendbytes EXCEPT ![k] = n]
         /\ \/ /\ SentAll(n)
               /\ Goto(t, "lock") /\ UNCHANGED <<ioVars, cur>>
            \/ /\ ~SentAll(n)
               /\ SendAsync(k)
               /\ Goto(t, "wait") /\ cur' = [cur EXCEPT ![t] = NoCompletion]
            \/ /\ ~SentAll(n) /\ CallFails
               /\ Goto(t, "drop") /\ UNCHANGED <<ioVars, cur>>
  /\ UNCHANGED <<linkVars, lockVars, queueVars, pool, packetID, frontID, recvVars, ret>>

OnSendLock(t) ==
  /\ From(t, "lock")
  /\ EnterCS(t)
  /\ Goto(t, "pop")
  /\ UNCHANGED <<linkVars, queueVars, packetVars, ioVars, recvVars, ret, cur>>

\* front(), pop() and RetrieveSendPacket, which clears the packet.
OnSendPop(t) ==
  /\ From(t, "pop")
  /\ sendQ # <<>>
  /\ sendQ' = Tail(sendQ)
  /\ pool' = Append(pool, Head(sendQ))
  /\ sendbytes' = [sendbytes EXCEPT ![Head(sendQ)] = 0]
  /\ Goto(t, "next")
  /\ UNCHANGED <<linkVars, lockVars, newSendID, packetID, frontID, ioVars, recvVars, ret, cur>>

\* Post the packet that is now in front.  If that fails the guard leaves m_cs, the
\* worker disconnects the session and OnSendCompleted is not called.
OnSendNext(t) ==
  /\ From(t, "next")
  /\ \/ /\ ~MorePackets
        /\ Goto(t, "onsend") /\ UNCHANGED <<ioVars, lockVars>>
     \/ /\ MorePackets
        /\ SendAsync(NextPacket)
        /\ Goto(t, "onsend") /\ UNCHANGED lockVars
     \/ /\ MorePackets /\ CallFails
        /\ LeaveCS
        /\ Goto(t, "drop") /\ UNCHANGED ioVars
  /\ UNCHANGED <<linkVars, queueVars, packetVars, recvVars, ret, cur>>

\* m_current_state->OnSendCompleted() returns, still inside m_cs.
OnSendReturns(t) ==
  /\ From(t, "onsend")
  /\ Goto(t, "unlock")
  /\ UNCHANGED <<linkVars, lockVars, queueVars, packetVars, ioVars, recvVars, ret, cur>>

OnSendUnlock(t) ==
  /\ From(t, "unlock")
  /\ LeaveCS
  /\ cur' = [cur EXCEPT ![t] = NoCompletion]
  /\ Goto(t, "wait")
  /\ UNCHANGED <<linkVars, queueVars, packetVars, ioVars, recvVars, ret>>

-------------------------------------------------------------------------------
Kernel == SendCompletes \/ SendAborts \/ RecvPart \/ RecvWhole \/ RecvDuplicate \/ RecvEnd

Receiving(t) ==
  \/ CompleteRecvPart(t) \/ DiscardPacket(t) \/ DeliverPacket(t)
  \/ HandlerReturns(t) \/ RepostRecv(t)

SendsDone == {e \in port : e.kind = "send"}

Sending(t) == SendEnter(t) \/ SendPack(t) \/ SendPost(t) \/ SendExit(t)

SendCompleted(t) ==
  \/ CompleteSend(t) \/ OnSendLock(t) \/ OnSendPop(t) \/ OnSendNext(t)
  \/ OnSendReturns(t) \/ OnSendUnlock(t)

\* What a worker does once it was given something to do.
Work(t) ==
  \/ Dequeue(t) \/ OnAccepted(t) \/ OnDisconnected(t)
  \/ Receiving(t) \/ Sending(t) \/ SendCompleted(t)

Next ==
  \/ DoFrame \/ PeerCloses \/ ConnectionLost
  \/ Kernel
  \/ \E t \in Threads : CallSend(t) \/ Work(t)

Spec == Init /\ [][Next]_vars

(* The scheduler runs every worker that can run, and the operating system        *)
(* completes what was posted.  The port is a queue: the completion of a send is  *)
(* not overtaken for ever by those of further parts of a packet (strong          *)
(* fairness).  That a client sends or closes or that a handler calls Send is     *)
(* nobody's obligation.                                                          *)
Fairness ==
  /\ \A t \in Threads : WF_vars(Work(t))
  /\ SF_vars(\E t \in Threads : \E e \in SendsDone : Take(t, e))
  /\ WF_vars(SendCompletes \/ SendAborts)
  /\ WF_vars(RecvEnd)

FairSpec == Spec /\ Fairness

-------------------------------------------------------------------------------
(* Properties *)

RecvsDone == {e \in port : e.kind = "recv"}

\* The worker dequeued a completed send and has not popped the queue yet.
HoldsSend(t) == pc[t] \in {"sended", "lock", "pop"}

\* The worker dequeued a completed receive and has not posted the next one yet.
HoldsRecv(t) ==
  \/ pc[t] \in {"recved", "handler", "repost"}
  \/ pc[t] \in {"enter", "pack", "post", "exit"} /\ ret[t] = "handler"

\* A session never has two WSASend at work: at most one is pending, completed but
\* not dequeued, or in the hands of a worker that has not popped the queue.  Send,
\* OnCompleteSend and the unlocked CompleteSend rely on it: a second one would mix
\* the bytes of two packets and pop a packet that is still being sent.
OneSend ==
  /\ Len(inflight) <= 1
  /\ \A e \in SendsDone : inflight = <<>> /\ SendsDone = {e}
  /\ \A t \in Threads : HoldsSend(t) =>
       inflight = <<>> /\ SendsDone = {} /\ \A u \in Threads : HoldsSend(u) => u = t

\* What is being sent is the front of m_sendPacketQueue, the packet that
\* OnCompleteSend is going to pop, whichever worker completes it.
SendsFront ==
  /\ inflight # <<>> => sendQ # <<>> /\ Head(inflight) = Head(sendQ)
  /\ \A e \in SendsDone : sendQ # <<>> /\ e.pkt = Head(sendQ)
  /\ \A t \in Threads : HoldsSend(t) => sendQ # <<>> /\ cur[t].pkt = Head(sendQ)

\* A SendPacket in the pool is not in the queue, so it is not being sent either
\* (SendsFront): RetrieveSendPacket never gives away a packet that is in use.
PoolDisjoint ==
  \A i \in 1 .. Len(sendQ), j \in 1 .. Len(pool) : sendQ[i] # pool[j]

\* While the connection can send, a queue that is not empty is being served: its
\* front is being sent, or a worker inside m_cs is about to post it.  This is what
\* the test for size() == 1 in Send is for; without it packets stay for ever.
QueueServed ==
  sendQ # <<>> /\ sock \in {"open", "fin"} =>
    \/ inflight # <<>>
    \/ SendsDone # {}
    \/ \E t \in Threads : HoldsSend(t) \/ pc[t] = "next"
    \/ \E t \in Threads : pc[t] = "post" /\ Len(sendQ) = 1

\* The receiving side uses no lock (m_newRecvID, the RecvPacket, the state's
\* handler): at most one receive is pending, completed or being handled.
OneRecv ==
  /\ recvs <= 1
  /\ \A e \in RecvsDone : recvs = 0 /\ RecvsDone = {e}
  /\ \A t \in Threads : HoldsRecv(t) =>
       recvs = 0 /\ RecvsDone = {} /\ \A u \in Threads : HoldsRecv(u) => u = t

\* A session in the set goes on listening while its connection is open: a receive
\* is pending, completed or being handled.
Listening ==
  inSet /\ started /\ sock = "open" =>
    recvs > 0 \/ RecvsDone # {} \/ \E t \in Threads : HoldsRecv(t)

\* OnRecvCompleted gets the packets of the client in the order of their ids, each
\* once: a packet that was handled already is discarded.
HandledInOrder == \A i \in 1 .. Len(handled) : handled[i] = i

Stream == INSTANCE SendStream WITH accepted <- newSendID - 1

\* The packets of one session enter the connection in the order Send packed them,
\* whole and each byte once, however many workers call Send and complete sends, as
\* long as no SendPacket is used twice (OwnBytes).
ImplementsStream == Stream!StreamSpec

\* What is sent of a SendPacket is what Packing wrote into it for this call of Send
\* (expected of the Clear() that GetSendPacketFromPool calls).
OwnBytes == \A i \in 1 .. Len(inflight) : frontID[inflight[i]] = packetID[inflight[i]]

\* OnCompleteSend pops a packet only when its last byte was given to the connection.
PopsWhenSent ==
  [][sendQ # <<>> /\ Len(sendQ') < Len(sendQ) =>
       \E i \in 1 .. Len(wire) : wire[i].id = frontID[Head(sendQ)] /\ wire[i].to = PacketBytes
    ]_vars

SentWhole(id) == \E i \in 1 .. Len(wire) : wire[i].id = id /\ wire[i].to = PacketBytes

\* What Send accepted is sent in the end unless the connection is lost, although
\* Send posts a packet only when the queue was empty.
QueueDrains == \A id \in 1 .. MaxSend + 1 : newSendID > id ~> SentWhole(id) \/ sock = "reset"

\* A session that once listened leaves the set after its connection ends: the
\* receive that is always there (Listening) is what notices the end.
Reaped == started /\ sock \in {"fin", "reset"} ~> ~inSet

\* No worker stays in a handler for ever: m_cs is released on every path, also when
\* a WSASend fails, and entering it again from OnSendCompleted does not block.
WorkersReturn == \A t \in Threads : pc[t] # "wait" ~> pc[t] = "wait"

\* A session in the set whose connection is lost leaves the set (expected of
\* OnAccepted when its first Recv fails).
LostIsReaped == inSet /\ sock = "reset" ~> ~inSet
================================================================================
