--------------------------- MODULE IOCPSessionProofs ---------------------------
(***************************************************************************)
(* Proofs about IOCPSession for any number of workers, packets and calls.  *)
(*                                                                         *)
(* The invariants are proved one upon the other: the ownership of m_cs     *)
(* (Locking), the types, then the single send, the queue and the receive.  *)
(***************************************************************************)
EXTENDS IOCPSession, SequenceTheorems, TLAPS

-------------------------------------------------------------------------------
(* m_cs is owned by the worker that is between entering and leaving it *)

InSend(t) == pc[t] \in {"pack", "post", "exit"}

InOnSend(t) ==
  \/ pc[t] \in {"pop", "next", "onsend", "unlock"}
  \/ pc[t] \in {"enter", "pack", "post", "exit"} /\ ret[t] = "onsend"

Locking ==
  /\ pc \in [Threads -> Steps]
  /\ ret \in [Threads -> Callers]
  /\ owner \in Threads \cup {NoThread}
  /\ \A t \in Threads : owner = t <=> InSend(t) \/ InOnSend(t)
  /\ owner = NoThread => depth = 0
  /\ \A t \in Threads : owner = t => depth = IF InSend(t) /\ InOnSend(t) THEN 2 ELSE 1

\* The steps of a worker that neither enter nor leave m_cs and do not call Send.
Plain(t) ==
  /\ UNCHANGED <<lockVars, ret>>
  /\ \E s \in Steps :
       /\ pc' = [pc EXCEPT ![t] = s]
       /\ \/ /\ pc[t] \notin {"enter", "pack", "post", "exit", "pop", "next", "onsend", "unlock"}
             /\ s \notin {"enter", "pack", "post", "exit", "pop", "next", "onsend", "unlock"}
          \/ pc[t] \in {"pack", "post"} /\ s \in {"post", "exit"}
          \/ pc[t] \in {"pop", "next", "onsend"} /\ s \in {"next", "onsend", "unlock"}

LEMMA DispatchPlain ==
  ASSUME NEW e PROVE Dispatch(e) \in {"accept", "recved", "sended", "drop"}
BY DEF Dispatch

\* Every step of a worker is plain or one of those that enter, leave or call.
LEMMA WorkSteps ==
  ASSUME NEW t \in Threads, pc \in [Threads -> Steps], CallSend(t) \/ Work(t)
  PROVE  \/ CallSend(t) \/ SendEnter(t) \/ SendExit(t) \/ OnSendLock(t) \/ OnSendUnlock(t)
         \/ (OnSendNext(t) /\ MorePackets /\ LeaveCS /\ Goto(t, "drop"))
         \/ Plain(t)
<1> USE DEF Plain, Goto, From, Steps
<1>1. CASE Dequeue(t)
  BY <1>1, DispatchPlain DEF Dequeue, Take
<1>2. CASE OnAccepted(t) BY <1>2 DEF OnAccepted
<1>3. CASE OnDisconnected(t) BY <1>3 DEF OnDisconnected
<1>4. CASE Receiving(t)
  BY <1>4 DEF Receiving, CompleteRecvPart, DiscardPacket, DeliverPacket, HandlerReturns, RepostRecv
<1>5. CASE SendPack(t) \/ SendPost(t) BY <1>5 DEF SendPack, SendPost
<1>6. CASE CompleteSend(t) BY <1>6 DEF CompleteSend
<1>7. CASE OnSendPop(t) \/ OnSendReturns(t) BY <1>7 DEF OnSendPop, OnSendReturns
<1>8. CASE OnSendNext(t) BY <1>8 DEF OnSendNext
<1> QED BY <1>1, <1>2, <1>3, <1>4, <1>5, <1>6, <1>7, <1>8 DEF Work, Sending, SendCompleted

LEMMA LockingInit == Init => Locking
BY SessionAssumption DEF Init, Locking, InSend, InOnSend, Steps, Callers, SessionAssumption

LEMMA LockingStep == Locking /\ [Next]_vars => Locking'
<1> SUFFICES ASSUME Locking, [Next]_vars PROVE Locking' OBVIOUS
<1> USE SessionAssumption DEF SessionAssumption
<1> USE DEF Locking, InSend, InOnSend, Goto, From, Steps, Callers
<1>1. CASE UNCHANGED <<pc, ret, owner, depth>> BY <1>1
<1>2. ASSUME NEW t \in Threads, CallSend(t) \/ Work(t) PROVE Locking'
  <2>1. CASE CallSend(t) BY <2>1 DEF CallSend, lockVars
  <2>2. CASE SendEnter(t) BY <2>2 DEF SendEnter, EnterCS
  <2>3. CASE SendExit(t) BY <2>3 DEF SendExit, LeaveCS
  <2>4. CASE OnSendLock(t) BY <2>4 DEF OnSendLock, EnterCS
  <2>5. CASE OnSendUnlock(t) BY <2>5 DEF OnSendUnlock, LeaveCS
  <2>6. CASE OnSendNext(t) /\ MorePackets /\ LeaveCS /\ Goto(t, "drop")
    BY <2>6 DEF OnSendNext, LeaveCS
  <2>7. CASE Plain(t) BY <2>7 DEF Plain, lockVars
  <2> QED BY <1>2, <2>1, <2>2, <2>3, <2>4, <2>5, <2>6, <2>7, WorkSteps
<1>3. CASE DoFrame \/ PeerCloses \/ ConnectionLost \/ Kernel
  BY <1>3, <1>1 DEF DoFrame, PeerCloses, ConnectionLost, Kernel, SendCompletes, SendAborts,
     RecvPart, RecvWhole, RecvDuplicate, RecvEnd, RecvCompletes, lockVars
<1> QED BY <1>1, <1>2, <1>3 DEF Next, vars, lockVars

\* m_cs is always owned by exactly the worker that is between the AutoLocker of Send
\* or OnCompleteSend and its destructor, entered once or, by Send inside
\* OnSendCompleted, twice; nobody owns it otherwise (no path forgets to leave it).
THEOREM LockingCorrect == Spec => []Locking
<1>1. Locking /\ [Next]_vars => Locking' BY LockingStep
<1> QED BY LockingInit, <1>1, PTL DEF Spec

-------------------------------------------------------------------------------
(* Types *)

\* What a worker holds fits the step it is at.
CurOK ==
  \A t \in Threads :
    /\ pc[t] = "recved" => cur[t] \in RecvDone
    /\ pc[t] \in {"sended", "lock", "pop"} => cur[t] \in SendDone

Typed == TypeOK /\ CurOK

LEMMA TypedInit == Init => Typed
<1> SUFFICES ASSUME Init PROVE Typed OBVIOUS
<1>1. /\ sendQ \in Seq(SendPackets) /\ inflight \in Seq(SendPackets)
      /\ handled \in Seq(Nat) /\ wire \in Seq([id : Nat, from : Nat, to : Nat])
  BY DEF Init
<1>2. inSet \in BOOLEAN /\ started \in BOOLEAN BY Zenon DEF Init
<1>3. /\ pc \in [Threads -> Steps] /\ ret \in [Threads -> Callers]
      /\ cur \in [Threads -> Completion \cup {NoCompletion}] /\ CurOK
  BY DEF Init, Steps, Callers, CurOK
<1>4. /\ packetID \in [SendPackets -> Nat] /\ sendbytes \in [SendPackets -> Nat]
      /\ frontID \in [SendPackets -> Nat] /\ pool \in Seq(SendPackets) /\ port \subseteq Completion
      /\ sock \in {"none", "open", "fin", "reset"} /\ owner \in Threads \cup {NoThread}
      /\ depth \in Nat /\ newSendID \in Nat \ {0} /\ newRecvID \in Nat \ {0}
      /\ recvs \in Nat /\ clientID \in Nat \ {0}
  BY DEF Init
<1> QED BY <1>1, <1>2, <1>3, <1>4 DEF TypeOK, Typed

LEMMA KernelTyped ==
  ASSUME Typed, DoFrame \/ PeerCloses \/ ConnectionLost \/ Kernel
  PROVE  Typed'
<1> USE DEF Typed, TypeOK, CurOK, linkVars, lockVars, queueVars, packetVars, ioVars, recvVars
<1>1. CASE DoFrame BY <1>1 DEF DoFrame, Completion, Accepted
<1>2. CASE PeerCloses BY <1>2 DEF PeerCloses
<1>3. CASE ConnectionLost BY <1>3 DEF ConnectionLost
<1>4. CASE SendCompletes
  <2> DEFINE k == Head(inflight)
  <2>1. k \in SendPackets /\ Tail(inflight) \in Seq(SendPackets) BY <1>4 DEF SendCompletes
  <2>2. PICK n \in 1 .. (PacketBytes - sendbytes[k]) :
          /\ wire' = Append(wire, [id |-> frontID[k], from |-> sendbytes[k],
                                   to |-> sendbytes[k] + n])
          /\ port' = port \cup {[kind |-> "send", pkt |-> k, cb |-> n]}
    BY <1>4 DEF SendCompletes
  <2>3. n \in Nat /\ sendbytes[k] \in Nat /\ frontID[k] \in Nat BY <2>1
  <2>4. wire' \in Seq([id : Nat, from : Nat, to : Nat])
    BY <2>2, <2>3, AppendProperties, SMTT(30)
  <2>5. port' \subseteq Completion BY <2>1, <2>2, <2>3, SMTT(30) DEF Completion, SendDone
  <2> QED BY <1>4, <2>1, <2>4, <2>5 DEF SendCompletes
<1>5. CASE SendAborts
  <2>1. Head(inflight) \in SendPackets /\ Tail(inflight) \in Seq(SendPackets)
    BY <1>5 DEF SendAborts
  <2>2. port' \subseteq Completion BY <1>5, <2>1, SMTT(30) DEF SendAborts, Completion, SendDone
  <2> QED BY <1>5, <2>1, <2>2 DEF SendAborts
<1>6. CASE RecvPart BY <1>6 DEF RecvPart, RecvCompletes, Completion, RecvDone
<1>7. CASE RecvWhole BY <1>7 DEF RecvWhole, RecvCompletes, Completion, RecvDone
<1>8. CASE RecvDuplicate BY <1>8 DEF RecvDuplicate, RecvCompletes, Completion, RecvDone
<1>9. CASE RecvEnd BY <1>9 DEF RecvEnd, RecvCompletes, Completion, RecvDone
<1> QED BY <1>1, <1>2, <1>3, <1>4, <1>5, <1>6, <1>7, <1>8, <1>9 DEF Kernel

\* The control variables are typed by Locking; what is left are the data of each step.
LEMMA DispatchTyped ==
  ASSUME NEW e \in Completion
  PROVE  /\ Dispatch(e) = "recved" => e \in RecvDone
         /\ Dispatch(e) = "sended" => e \in SendDone
         /\ Dispatch(e) \notin {"lock", "pop"}
BY DEF Dispatch, Completion, Accepted, RecvDone, SendDone

Data ==
  /\ sendQ \in Seq(SendPackets)
  /\ inflight \in Seq(SendPackets)
  /\ handled \in Seq(Nat)
  /\ newSendID \in Nat \ {0}
  /\ newRecvID \in Nat \ {0}
  /\ pool \in Seq(SendPackets)
  /\ packetID \in [SendPackets -> Nat]
  /\ frontID \in [SendPackets -> Nat]
  /\ sendbytes \in [SendPackets -> Nat]
  /\ recvs \in Nat

Links ==
  /\ inSet \in BOOLEAN
  /\ started \in BOOLEAN
  /\ sock \in {"none", "open", "fin", "reset"}
  /\ clientID \in Nat \ {0}
  /\ wire \in Seq([id : Nat, from : Nat, to : Nat])
  /\ port \subseteq Completion
  /\ cur \in [Threads -> Completion \cup {NoCompletion}]
  /\ CurOK

LEMMA TypedSplit == Typed <=> Data /\ Links /\ depth \in Nat /\ owner \in Threads \cup {NoThread}
                              /\ pc \in [Threads -> Steps] /\ ret \in [Threads -> Callers]
BY DEF Typed, TypeOK, Data, Links

\* What Send and OnCompleteSend hand to SendAsync is a packet of the queue.
LEMMA PostedTyped ==
  ASSUME sendQ \in Seq(SendPackets), inflight \in Seq(SendPackets)
  PROVE  /\ Len(sendQ) = 1 => sendQ # <<>>
         /\ sendQ # <<>> => Append(inflight, NextPacket) \in Seq(SendPackets)
<1>1. Len(sendQ) = 1 => sendQ # <<>> OBVIOUS
<1>2. ASSUME sendQ # <<>> PROVE Append(inflight, Head(sendQ)) \in Seq(SendPackets)
  BY <1>2
<1> QED BY <1>1, <1>2 DEF NextPacket

LEMMA WorkData ==
  ASSUME Data, Links, pc \in [Threads -> Steps], NEW t \in Threads, CallSend(t) \/ Work(t)
  PROVE  Data'
<1> USE DEF Data, From, Goto, linkVars, lockVars, queueVars, packetVars, ioVars, recvVars
<1>1. CASE CallSend(t) BY <1>1 DEF CallSend
<1>2. CASE Dequeue(t) BY <1>2 DEF Dequeue, Take
<1>3. CASE OnAccepted(t) BY <1>3 DEF OnAccepted, RecvAsync
<1>4. CASE OnDisconnected(t) BY <1>4 DEF OnDisconnected
<1>5. CASE CompleteRecvPart(t) BY <1>5 DEF CompleteRecvPart, RecvAsync
<1>6. CASE DiscardPacket(t) BY <1>6 DEF DiscardPacket
<1>7. CASE DeliverPacket(t)
  <2>1. cur[t].id \in Nat BY <1>7 DEF DeliverPacket, Links, CurOK, RecvDone
  <2> QED BY <1>7, <2>1 DEF DeliverPacket
<1>8. CASE HandlerReturns(t) BY <1>8 DEF HandlerReturns
<1>9. CASE RepostRecv(t) BY <1>9 DEF RepostRecv, RecvAsync
<1>10. CASE SendEnter(t) \/ SendExit(t) BY <1>10 DEF SendEnter, SendExit
<1>11. CASE SendPack(t)
  <2>1. PICK k \in SendPackets : /\ TakeFromPool(k) /\ Packing(k, newSendID)
                                 /\ sendbytes' = [sendbytes EXCEPT ![k] = 0]
                                 /\ sendQ' = Append(sendQ, k)
    BY <1>11 DEF SendPack
  <2>2. pool' \in Seq(SendPackets) /\ sendQ' \in Seq(SendPackets)
    BY <2>1 DEF TakeFromPool
  <2>3. /\ packetID' \in [SendPackets -> Nat] /\ frontID' \in [SendPackets -> Nat]
        /\ sendbytes' \in [SendPackets -> Nat]
    BY <2>1 DEF Packing
  <2> QED BY <1>11, <2>2, <2>3, SMTT(30) DEF SendPack
<1>12. CASE SendPost(t)
  <2>1. inflight' \in Seq(SendPackets)
    BY <1>12, PostedTyped DEF SendPost, SendAsync, OnlyPacket
  <2> QED BY <1>12, <2>1 DEF SendPost, SendAsync
<1>13. CASE CompleteSend(t)
  <2>1. cur[t].pkt \in SendPackets /\ cur[t].cb \in Nat
    BY <1>13 DEF CompleteSend, Links, CurOK, SendDone
  <2>2. inflight' = inflight \/ inflight' = Append(inflight, cur[t].pkt)
    BY <1>13 DEF CompleteSend, SendAsync
  <2>5. inflight' \in Seq(SendPackets)
    <3>1. inflight \in Seq(SendPackets) OBVIOUS
    <3> HIDE DEF Data
    <3>2. Append(inflight, cur[t].pkt) \in Seq(SendPackets) BY <2>1, <3>1
    <3> QED BY <2>2, <3>1, <3>2
  <2>3. sendbytes' \in [SendPackets -> Nat] BY <1>13, <2>1, SMTT(30) DEF CompleteSend
  <2>4. UNCHANGED <<recvs, sendQ, handled, newSendID, newRecvID, pool, packetID, frontID>>
    BY <1>13 DEF CompleteSend, SendAsync
  <2> QED BY <2>3, <2>4, <2>5
<1>14. CASE OnSendPop(t)
  <2>1. sendQ # <<>> /\ Head(sendQ) \in SendPackets BY <1>14 DEF OnSendPop
  <2>2. sendQ' \in Seq(SendPackets) /\ pool' \in Seq(SendPackets)
    BY <1>14, <2>1 DEF OnSendPop
  <2>3. sendbytes' \in [SendPackets -> Nat] BY <1>14, <2>1 DEF OnSendPop
  <2> QED BY <1>14, <2>2, <2>3 DEF OnSendPop
<1>15. CASE OnSendNext(t)
  <2>1. inflight' \in Seq(SendPackets)
    BY <1>15, PostedTyped DEF OnSendNext, SendAsync, MorePackets
  <2>2. UNCHANGED <<recvs, sendQ, handled, newSendID, newRecvID, packetVars>>
    BY <1>15 DEF OnSendNext, SendAsync
  <2> QED BY <2>1, <2>2
<1>16. CASE OnSendLock(t) \/ OnSendReturns(t) \/ OnSendUnlock(t)
  BY <1>16 DEF OnSendLock, OnSendReturns, OnSendUnlock
<1> QED BY <1>1, <1>2, <1>3, <1>4, <1>5, <1>6, <1>7, <1>8, <1>9, <1>10, <1>11, <1>12, <1>13,
           <1>14, <1>15, <1>16 DEF Work, Receiving, Sending, SendCompleted

LEMMA WorkLinks ==
  ASSUME Links, pc \in [Threads -> Steps], ret \in [Threads -> Callers],
         NEW t \in Threads, CallSend(t) \/ Work(t)
  PROVE  Links'
<1> DEFINE KeepsCur == /\ UNCHANGED <<linkVars, clientID, wire, port, cur>>
                       /\ \E s \in Steps : /\ pc' = [pc EXCEPT ![t] = s]
                                           /\ s = "recved" => pc[t] = "recved"
                                           /\ s \in {"sended", "lock", "pop"} =>
                                                pc[t] \in {"sended", "lock", "pop"}
           DropsCur == /\ UNCHANGED <<sock, clientID, wire, port>>
                       /\ inSet' \in BOOLEAN /\ started' \in BOOLEAN
                       /\ cur' = [cur EXCEPT ![t] = NoCompletion]
                       /\ pc' = [pc EXCEPT ![t] = "wait"]
<1>1. CASE Dequeue(t)
  <2>1. PICK e \in port : Take(t, e) BY <1>1 DEF Dequeue
  <2>2. e \in Completion BY DEF Links
  <2>3. cur' \in [Threads -> Completion \cup {NoCompletion}] /\ port' \subseteq Completion
    BY <2>1, <2>2 DEF Take, Links
  <2>4. ASSUME NEW u \in Threads
        PROVE  /\ pc'[u] = "recved" => cur'[u] \in RecvDone
               /\ pc'[u] \in {"sended", "lock", "pop"} => cur'[u] \in SendDone
    BY <2>1, <2>2, DispatchTyped DEF Take, Goto, Links, CurOK
  <2> QED BY <2>1, <2>3, <2>4 DEF Take, Links, CurOK, linkVars, recvVars
<1>2. CASE KeepsCur
  <2>1. CurOK' BY <1>2 DEF Links, CurOK
  <2> QED BY <1>2, <2>1 DEF Links, linkVars
<1>3. CASE DropsCur
  <2>1. CurOK' BY <1>3 DEF Links, CurOK
  <2> QED BY <1>3, <2>1 DEF Links
<1> USE DEF From, Goto, Steps, linkVars, ioVars, recvVars, Callers
<1>4. CASE CallSend(t) BY <1>2, <1>4 DEF CallSend
<1>5. CASE OnAccepted(t) \/ OnDisconnected(t)
  <2>1. inSet' \in BOOLEAN /\ started' \in BOOLEAN
    BY <1>5, Zenon DEF OnAccepted, OnDisconnected, RecvAsync, Links
  <2> QED BY <1>3, <1>5, <2>1 DEF OnAccepted, OnDisconnected, RecvAsync
<1>6. CASE CompleteRecvPart(t) \/ RepostRecv(t)
  BY <1>2, <1>3, <1>6 DEF CompleteRecvPart, RepostRecv, RecvAsync, Links
<1>7. CASE DiscardPacket(t) BY <1>3, <1>7 DEF DiscardPacket, Links
<1>8. CASE DeliverPacket(t) \/ HandlerReturns(t) BY <1>2, <1>8 DEF DeliverPacket, HandlerReturns
<1>9. CASE SendEnter(t) \/ SendPack(t) BY <1>2, <1>9 DEF SendEnter, SendPack
<1>10. CASE SendPost(t) BY <1>2, <1>10 DEF SendPost, SendAsync
<1>11. CASE SendExit(t) BY <1>2, <1>11 DEF SendExit
<1>12. CASE CompleteSend(t) BY <1>2, <1>3, <1>12 DEF CompleteSend, SendAsync, Links
<1>13. CASE OnSendLock(t) \/ OnSendPop(t) \/ OnSendReturns(t)
  BY <1>2, <1>13 DEF OnSendLock, OnSendPop, OnSendReturns
<1>14. CASE OnSendNext(t) BY <1>2, <1>14 DEF OnSendNext, SendAsync
<1>15. CASE OnSendUnlock(t) BY <1>3, <1>15 DEF OnSendUnlock, Links
<1> QED BY <1>1, <1>4, <1>5, <1>6, <1>7, <1>8, <1>9, <1>10, <1>11, <1>12, <1>13,
           <1>14, <1>15 DEF Work, Receiving, Sending, SendCompleted

LEMMA TypedStep == Typed /\ Locking /\ [Next]_vars /\ Locking' => Typed'
<1> SUFFICES ASSUME Typed, Locking, [Next]_vars, Locking' PROVE Typed' OBVIOUS
<1>1. CASE UNCHANGED vars
  BY <1>1 DEF Typed, TypeOK, CurOK, vars, linkVars, lockVars, queueVars, packetVars, ioVars, recvVars
<1>2. CASE DoFrame \/ PeerCloses \/ ConnectionLost \/ Kernel BY <1>2, KernelTyped
<1>3. ASSUME NEW t \in Threads, CallSend(t) \/ Work(t) PROVE Typed'
  <2>1. Data /\ Links /\ pc \in [Threads -> Steps] /\ ret \in [Threads -> Callers]
    BY TypedSplit
  <2>2. Data' /\ Links' BY <1>3, <2>1, WorkData, WorkLinks
  <2>3. /\ depth' \in Nat /\ owner' \in Threads \cup {NoThread}
        /\ pc' \in [Threads -> Steps] /\ ret' \in [Threads -> Callers]
    BY DEF Locking
  <2> QED BY <2>2, <2>3 DEF Typed, TypeOK, Data, Links
<1> QED BY <1>1, <1>2, <1>3 DEF Next

\* Every variable keeps its type, and a worker that handles a completed receive or
\* send holds a completion of that kind.
THEOREM TypeCorrect == Spec => []TypeOK
<1>1. Locking /\ Typed /\ [Next]_vars => (Locking /\ Typed)' BY LockingStep, TypedStep
<1>2. Init => Locking /\ Typed BY LockingInit, TypedInit
<1>3. Typed => TypeOK BY DEF Typed
<1> QED BY <1>1, <1>2, <1>3, PTL DEF Spec

-------------------------------------------------------------------------------
(* One send at a time *)

\* Nothing of the session is being sent.
Silent == inflight = <<>> /\ SendsDone = {} /\ \A u \in Threads : ~HoldsSend(u)

SendState ==
  /\ OneSend
  /\ SendsFront
  /\ \A t \in Threads : pc[t] = "post" => sendQ # <<>> /\ (Len(sendQ) = 1 => Silent)
  /\ \A t \in Threads : pc[t] = "next" => Silent

\* The facts of the types that the steps below use.
SendTypes ==
  /\ sendQ \in Seq(SendPackets)
  /\ inflight \in Seq(SendPackets)
  /\ pc \in [Threads -> Steps]
  /\ ret \in [Threads -> Callers]
  /\ cur \in [Threads -> Completion \cup {NoCompletion}]

LEMMA SendTypesHold == Typed => SendTypes
BY DEF Typed, TypeOK, SendTypes

LEMMA SendStateInit == Init => SendState
BY DEF Init, SendState, OneSend, SendsFront, SendsDone, HoldsSend, Silent

LEMMA MutualExclusion ==
  ASSUME Locking, NEW t \in Threads, NEW u \in Threads, InSend(t) \/ InOnSend(t),
         InSend(u) \/ InOnSend(u)
  PROVE  t = u
BY DEF Locking

\* A step that leaves the queue and the sends alone and changes no worker's part in them.
LEMMA SendStateFrame ==
  ASSUME SendState, SendsDone' = SendsDone, UNCHANGED <<sendQ, inflight>>,
         \A t \in Threads : /\ HoldsSend(t)' <=> HoldsSend(t)
                            /\ HoldsSend(t) => cur'[t] = cur[t]
                            /\ (pc[t] = "post")' => pc[t] = "post"
                            /\ (pc[t] = "next")' => pc[t] = "next"
  PROVE  SendState'
BY DEF SendState, OneSend, SendsFront, Silent

LEMMA SendStateKernel ==
  ASSUME SendTypes, SendState, DoFrame \/ PeerCloses \/ ConnectionLost \/ Kernel
  PROVE  SendState'
<1>1. CASE DoFrame \/ PeerCloses \/ ConnectionLost
           \/ RecvPart \/ RecvWhole \/ RecvDuplicate \/ RecvEnd
  <2>1. SendsDone' = SendsDone
    BY <1>1 DEF DoFrame, PeerCloses, ConnectionLost, RecvPart, RecvWhole, RecvDuplicate, RecvEnd,
       RecvCompletes, SendsDone, ioVars
  <2>2. UNCHANGED <<sendQ, inflight, pc, cur>>
    BY <1>1 DEF DoFrame, PeerCloses, ConnectionLost, RecvPart, RecvWhole, RecvDuplicate, RecvEnd,
       RecvCompletes, ioVars, queueVars
  <2> QED BY <2>1, <2>2, SendStateFrame DEF HoldsSend
<1>2. CASE SendCompletes \/ SendAborts
  <2>1. PICK e : e.kind = "send" /\ e.pkt = Head(inflight) /\ port' = port \cup {e}
    BY <1>2 DEF SendCompletes, SendAborts
  <2>2. inflight # <<>> /\ inflight' = Tail(inflight) /\ UNCHANGED <<sendQ, pc, cur>>
    BY <1>2 DEF SendCompletes, SendAborts, queueVars
  <2>3. inflight' = <<>> BY <2>2 DEF SendTypes, SendState, OneSend
  <2>4. SendsDone = {} /\ \A t \in Threads : ~HoldsSend(t) BY <2>2 DEF SendState, OneSend
  <2>5. SendsDone' = {e} BY <2>1, <2>4 DEF SendsDone
  <2>6. sendQ # <<>> /\ e.pkt = Head(sendQ) BY <2>1, <2>2 DEF SendState, SendsFront
  <2>7. \A t \in Threads : pc[t] # "next" /\ (pc[t] = "post" => Len(sendQ) # 1)
    BY <2>2 DEF SendState, Silent
  <2>8. \A t \in Threads : ~HoldsSend(t)' BY <2>2, <2>4 DEF HoldsSend
  <2>9. OneSend' BY <2>3, <2>5, <2>8 DEF OneSend
  <2>10. SendsFront' BY <2>2, <2>3, <2>5, <2>6, <2>8 DEF SendsFront
  <2> QED BY <2>2, <2>7, <2>9, <2>10 DEF SendState
<1> QED BY <1>1, <1>2 DEF Kernel

\* A step of worker t outside the handling of sends.
Aside(t) ==
  /\ UNCHANGED <<sendQ, inflight>>
  /\ SendsDone' = SendsDone
  /\ cur' = cur \/ (~HoldsSend(t) /\ cur' = [cur EXCEPT ![t] = NoCompletion])
  /\ \E s \in Steps \ {"post", "next"} :
       /\ pc' = [pc EXCEPT ![t] = s]
       /\ s \in {"sended", "lock", "pop"} <=> HoldsSend(t)

LEMMA SendStateAside ==
  ASSUME SendTypes, SendState, NEW t \in Threads, Aside(t)
  PROVE  SendState'
<1>1. \A u \in Threads : /\ HoldsSend(u)' <=> HoldsSend(u)
                         /\ HoldsSend(u) => cur'[u] = cur[u]
                         /\ (pc[u] = "post")' => pc[u] = "post"
                         /\ (pc[u] = "next")' => pc[u] = "next"
  BY DEF Aside, SendTypes, HoldsSend
<1> QED BY <1>1, SendStateFrame DEF Aside

LEMMA AsideSteps ==
  ASSUME SendTypes, NEW t \in Threads,
         \/ CallSend(t) \/ SendEnter(t) \/ SendExit(t) \/ OnAccepted(t) \/ OnDisconnected(t)
         \/ Receiving(t) \/ OnSendLock(t) \/ OnSendReturns(t) \/ OnSendUnlock(t)
  PROVE  Aside(t)
<1> USE DEF Aside, From, Goto, Steps, Callers, HoldsSend, SendsDone, ioVars, queueVars
<1>1. CASE CallSend(t) \/ SendEnter(t) BY <1>1 DEF CallSend, SendEnter
<1>2. CASE SendExit(t) BY <1>2 DEF SendExit, SendTypes
<1>3. CASE OnAccepted(t) \/ OnDisconnected(t) BY <1>3 DEF OnAccepted, OnDisconnected, RecvAsync
<1>4. CASE CompleteRecvPart(t) BY <1>4 DEF CompleteRecvPart, RecvAsync
<1>5. CASE DiscardPacket(t) \/ DeliverPacket(t) BY <1>5 DEF DiscardPacket, DeliverPacket
<1>6. CASE HandlerReturns(t)
  <2>1. pc[t] = "handler" /\ pc' = [pc EXCEPT ![t] = "repost"] BY <1>6 DEF HandlerReturns
  <2>2. UNCHANGED <<sendQ, inflight, port, cur>> BY <1>6 DEF HandlerReturns
  <2>3. "repost" \in Steps \ {"post", "next"} /\ ~HoldsSend(t) BY <2>1
  <2>4. SendsDone' = SendsDone BY <2>2
  <2> HIDE DEF SendsDone, Steps, HoldsSend
  <2> QED BY <2>1, <2>2, <2>3, <2>4
<1>7. CASE RepostRecv(t) BY <1>7 DEF RepostRecv, RecvAsync
<1>8. CASE OnSendLock(t) BY <1>8 DEF OnSendLock
<1>9. CASE OnSendReturns(t) \/ OnSendUnlock(t) BY <1>9 DEF OnSendReturns, OnSendUnlock
<1> QED BY <1>1, <1>2, <1>3, <1>4, <1>5, <1>6, <1>7, <1>8, <1>9 DEF Receiving

\* The worker that dequeues the completion of a send takes it over from the port.
LEMMA SendStateDequeue ==
  ASSUME SendTypes, SendState, NEW t \in Threads, Dequeue(t)
  PROVE  SendState'
<1>1. PICK e \in port : Take(t, e) BY DEF Dequeue
<1>2. /\ pc[t] = "wait" /\ port' = port \ {e} /\ UNCHANGED <<sendQ, inflight>>
      /\ cur' = [cur EXCEPT ![t] = e] /\ pc' = [pc EXCEPT ![t] = Dispatch(e)]
  BY <1>1 DEF Take, From, Goto, queueVars
<1>3. /\ Dispatch(e) \in {"accept", "recved", "sended", "drop"}
      /\ Dispatch(e) = "sended" => e.kind = "send"
  BY DEF Dispatch
<1>4. \A u \in Threads : u # t => /\ HoldsSend(u)' <=> HoldsSend(u)
                                  /\ cur'[u] = cur[u] /\ pc'[u] = pc[u]
  BY <1>2 DEF SendTypes, HoldsSend
<1>5. /\ ~HoldsSend(t) /\ (HoldsSend(t)' => e.kind = "send" /\ cur'[t] = e)
      /\ pc'[t] \notin {"post", "next"}
  BY <1>2, <1>3 DEF SendTypes, HoldsSend
<1>6. CASE e.kind = "send"
  <2>1. e \in SendsDone BY <1>6 DEF SendsDone
  <2>2. /\ inflight = <<>> /\ SendsDone = {e} /\ sendQ # <<>> /\ e.pkt = Head(sendQ)
        /\ \A u \in Threads : ~HoldsSend(u)
    BY <2>1 DEF SendState, OneSend, SendsFront
  <2>3. \A u \in Threads : pc[u] # "next" /\ (pc[u] = "post" => Len(sendQ) # 1)
    BY <2>2 DEF SendState, Silent
  <2>4. SendsDone' = {} BY <1>2, <2>2 DEF SendsDone
  <2>5. OneSend' BY <1>2, <1>4, <2>2, <2>4 DEF OneSend, SendTypes
  <2>6. SendsFront' BY <1>2, <1>4, <1>5, <2>2, <2>4 DEF SendsFront
  <2> QED BY <1>2, <1>4, <1>5, <2>2, <2>3, <2>5, <2>6 DEF SendState
<1>7. CASE e.kind # "send"
  <2>1. SendsDone' = SendsDone BY <1>2, <1>7 DEF SendsDone
  <2>2. \A u \in Threads : HoldsSend(u)' <=> HoldsSend(u) BY <1>4, <1>5, <1>7
  <2> QED BY <1>2, <1>4, <1>5, <2>1, <2>2, SendStateFrame
<1> QED BY <1>6, <1>7

\* What a worker inside m_cs may assume of the others.
LEMMA Alone ==
  ASSUME Locking, NEW t \in Threads, InSend(t) \/ InOnSend(t)
  PROVE  \A u \in Threads \ {t} : pc[u] \notin {"pop", "post", "next"}
BY MutualExclusion DEF InSend, InOnSend

LEMMA SendStatePack ==
  ASSUME Locking, SendTypes, SendState, NEW t \in Threads, SendPack(t)
  PROVE  SendState'
<1>1. pc[t] = "pack" /\ pc' = [pc EXCEPT ![t] = "post"] /\ UNCHANGED <<inflight, cur, port>>
  BY DEF SendPack, From, Goto, ioVars
<1>2. PICK k \in SendPackets : sendQ' = Append(sendQ, k) BY DEF SendPack
<1>3. /\ pc'[t] = "post" /\ ~HoldsSend(t) /\ ~HoldsSend(t)'
      /\ \A u \in Threads \ {t} : pc'[u] \notin {"post", "next"}
      /\ \A u \in Threads : HoldsSend(u)' <=> HoldsSend(u)
  <2>1. \A u \in Threads \ {t} : pc[u] \notin {"pop", "post", "next"}
    BY <1>1, Alone DEF InSend
  <2> QED BY <1>1, <2>1 DEF SendTypes, HoldsSend
<1>4. SendsDone' = SendsDone BY <1>1 DEF SendsDone
<1>5. /\ sendQ' # <<>> /\ (sendQ # <<>> => Head(sendQ') = Head(sendQ))
      /\ (Len(sendQ') = 1 => sendQ = <<>>)
  BY <1>2 DEF SendTypes
<1>6. sendQ = <<>> => Silent BY DEF SendState, SendsFront, SendsDone, Silent
<1>7. Silent => Silent' BY <1>1, <1>3, <1>4 DEF Silent
<1>8. OneSend' BY <1>1, <1>3, <1>4 DEF OneSend, SendState
<1>9. SendsFront' BY <1>1, <1>3, <1>4, <1>5 DEF SendsFront, SendState
<1> QED BY <1>3, <1>5, <1>6, <1>7, <1>8, <1>9 DEF SendState

\* Posting the front of the queue when nothing is being sent.
LEMMA SendStateSilent ==
  ASSUME SendTypes, Silent', sendQ' = sendQ, \A u \in Threads : pc'[u] # "post"
  PROVE  SendState'
BY DEF SendState, OneSend, SendsFront, Silent, HoldsSend, SendTypes

LEMMA SendStatePosts ==
  ASSUME SendTypes, sendQ # <<>>, sendQ' = sendQ, inflight' = Append(<<>>, Head(sendQ)),
         SendsDone' = {}, \A u \in Threads : ~HoldsSend(u)',
         \A u \in Threads : pc'[u] # "next" /\ (pc'[u] = "post" => Len(sendQ) # 1)
  PROVE  SendState'
<1>1. inflight' = <<Head(sendQ)>> OBVIOUS
<1>2. OneSend' BY <1>1 DEF OneSend
<1>3. SendsFront' BY <1>1 DEF SendsFront
<1> QED BY <1>2, <1>3 DEF SendState

LEMMA SendStatePost ==
  ASSUME Locking, SendTypes, SendState, NEW t \in Threads, SendPost(t)
  PROVE  SendState'
<1>1. pc[t] = "post" /\ pc' = [pc EXCEPT ![t] = "exit"] /\ UNCHANGED <<sendQ, cur, port>>
  BY DEF SendPost, From, Goto, queueVars, SendAsync, ioVars
<1>2. /\ \A u \in Threads : pc'[u] \notin {"post", "next"}
      /\ \A u \in Threads : HoldsSend(u)' <=> HoldsSend(u)
  <2>1. \A u \in Threads \ {t} : pc[u] \notin {"pop", "post", "next"}
    BY <1>1, Alone DEF InSend
  <2> QED BY <1>1, <2>1 DEF SendTypes, HoldsSend
<1>3. SendsDone' = SendsDone BY <1>1 DEF SendsDone
<1>4. CASE OnlyPacket /\ SendAsync(NextPacket)
  <2>1. Silent /\ sendQ # <<>> BY <1>1, <1>4 DEF SendState, OnlyPacket
  <2>2. inflight' = Append(<<>>, Head(sendQ)) BY <1>4, <2>1 DEF SendAsync, NextPacket, Silent
  <2> QED BY <1>1, <1>2, <1>3, <2>1, <2>2, SendStatePosts DEF Silent
<1>5. CASE UNCHANGED ioVars
  BY <1>1, <1>2, <1>3, <1>5, SendStateFrame DEF ioVars
<1> QED BY <1>4, <1>5 DEF SendPost

LEMMA SendStateComplete ==
  ASSUME SendTypes, SendState, NEW t \in Threads, CompleteSend(t)
  PROVE  SendState'
<1>1. pc[t] = "sended" /\ UNCHANGED <<sendQ, port>>
  BY DEF CompleteSend, From, queueVars, SendAsync, ioVars
<1>2. HoldsSend(t) BY <1>1 DEF HoldsSend
<1>3. /\ inflight = <<>> /\ SendsDone = {} /\ sendQ # <<>> /\ cur[t].pkt = Head(sendQ)
      /\ \A u \in Threads : HoldsSend(u) => u = t
  BY <1>2 DEF SendState, OneSend, SendsFront
<1>4. \A u \in Threads : pc[u] # "next" /\ (pc[u] = "post" => Len(sendQ) # 1)
  BY <1>2 DEF SendState, Silent
<1>5. SendsDone' = {} BY <1>1, <1>3 DEF SendsDone
<1>6. CASE Goto(t, "lock") /\ UNCHANGED <<ioVars, cur>>
  <2>1. \A u \in Threads : /\ HoldsSend(u)' <=> HoldsSend(u)
                           /\ (pc[u] = "post")' => pc[u] = "post"
                           /\ (pc[u] = "next")' => pc[u] = "next"
    BY <1>1, <1>6 DEF Goto, HoldsSend, SendTypes
  <2> QED BY <1>1, <1>3, <1>5, <1>6, <2>1, SendStateFrame DEF ioVars
<1>7. CASE SendAsync(cur[t].pkt) /\ Goto(t, "wait")
  <2>1. inflight' = Append(<<>>, Head(sendQ)) BY <1>3, <1>7 DEF SendAsync
  <2>2. \A u \in Threads : /\ ~HoldsSend(u)' /\ pc'[u] # "next"
                           /\ pc'[u] = "post" => Len(sendQ) # 1
    BY <1>3, <1>4, <1>7 DEF Goto, HoldsSend, SendTypes
  <2> QED BY <1>1, <1>3, <1>5, <2>1, <2>2, SendStatePosts
<1>8. CASE Goto(t, "drop") /\ UNCHANGED <<ioVars, cur>>
  <2>1. /\ \A u \in Threads : ~HoldsSend(u)' /\ pc'[u] # "next"
        /\ \A u \in Threads : pc'[u] = "post" => Len(sendQ) # 1
    BY <1>3, <1>4, <1>8 DEF Goto, HoldsSend, SendTypes
  <2>2. inflight' = <<>> BY <1>3, <1>8 DEF ioVars
  <2>3. OneSend' BY <1>5, <2>1, <2>2 DEF OneSend
  <2>4. SendsFront' BY <1>5, <2>1, <2>2 DEF SendsFront
  <2> QED BY <1>1, <1>3, <2>1, <2>3, <2>4 DEF SendState
<1> QED BY <1>6, <1>7, <1>8 DEF CompleteSend

LEMMA SendStatePop ==
  ASSUME Locking, SendTypes, SendState, NEW t \in Threads, OnSendPop(t)
  PROVE  SendState'
<1>1. /\ pc[t] = "pop" /\ pc' = [pc EXCEPT ![t] = "next"]
      /\ UNCHANGED <<inflight, cur, port>>
  BY DEF OnSendPop, From, Goto, ioVars
<1>2. HoldsSend(t) BY <1>1 DEF HoldsSend
<1>3. inflight = <<>> /\ SendsDone = {} /\ \A u \in Threads : HoldsSend(u) => u = t
  BY <1>2 DEF SendState, OneSend
<1>4. /\ \A u \in Threads : ~HoldsSend(u)'
      /\ \A u \in Threads : pc'[u] # "post"
  <2>1. \A u \in Threads \ {t} : pc[u] \notin {"pop", "post", "next"}
    BY <1>1, Alone DEF InOnSend
  <2> QED BY <1>1, <1>3, <2>1 DEF SendTypes, HoldsSend
<1>5. SendsDone' = {} BY <1>1, <1>3 DEF SendsDone
<1>6. Silent' BY <1>1, <1>3, <1>4, <1>5 DEF Silent
<1>7. OneSend' BY <1>6 DEF OneSend, Silent
<1>8. SendsFront' BY <1>6 DEF SendsFront, Silent
<1> QED BY <1>4, <1>6, <1>7, <1>8 DEF SendState

LEMMA SendStateNext ==
  ASSUME Locking, SendTypes, SendState, NEW t \in Threads, OnSendNext(t)
  PROVE  SendState'
<1>1. /\ pc[t] = "next" /\ UNCHANGED <<sendQ, cur, port>>
      /\ \E s \in {"onsend", "drop"} : pc' = [pc EXCEPT ![t] = s]
  BY DEF OnSendNext, From, Goto, queueVars, SendAsync, ioVars
<1>2. Silent BY <1>1 DEF SendState
<1>3. /\ \A u \in Threads : pc'[u] \notin {"post", "next"}
      /\ \A u \in Threads : ~HoldsSend(u)'
  <2>1. \A u \in Threads \ {t} : pc[u] \notin {"pop", "post", "next"}
    BY <1>1, Alone DEF InOnSend
  <2> QED BY <1>1, <1>2, <2>1 DEF SendTypes, HoldsSend, Silent
<1>4. SendsDone' = {} BY <1>1, <1>2 DEF SendsDone, Silent
<1>5. CASE MorePackets /\ SendAsync(NextPacket)
  <2>1. sendQ # <<>> /\ inflight' = Append(<<>>, Head(sendQ))
    BY <1>2, <1>5 DEF MorePackets, SendAsync, NextPacket, Silent
  <2> QED BY <1>1, <1>3, <1>4, <2>1, SendStatePosts
<1>6. CASE UNCHANGED ioVars
  <2>1. inflight' = <<>> BY <1>2, <1>6 DEF Silent, ioVars
  <2>2. OneSend' BY <1>3, <1>4, <2>1 DEF OneSend
  <2>3. SendsFront' BY <1>3, <1>4, <2>1 DEF SendsFront
  <2> QED BY <1>3, <2>2, <2>3 DEF SendState
<1> QED BY <1>5, <1>6 DEF OnSendNext

LEMMA SendStateStep == Locking /\ Typed /\ SendState /\ [Next]_vars => SendState'
<1> SUFFICES ASSUME Locking, Typed, SendState, [Next]_vars PROVE SendState' OBVIOUS
<1>1. SendTypes BY SendTypesHold
<1>2. CASE UNCHANGED vars
  <2>1. SendsDone' = SendsDone BY <1>2 DEF vars, ioVars, SendsDone
  <2> QED BY <1>2, <2>1, SendStateFrame DEF vars, ioVars, queueVars, HoldsSend
<1>3. CASE DoFrame \/ PeerCloses \/ ConnectionLost \/ Kernel BY <1>1, <1>3, SendStateKernel
<1>4. ASSUME NEW t \in Threads, CallSend(t) \/ Work(t) PROVE SendState'
  BY <1>1, <1>4, AsideSteps, SendStateAside, SendStateDequeue, SendStatePack, SendStatePost,
     SendStateComplete, SendStatePop, SendStateNext DEF Work, Sending, SendCompleted
<1> QED BY <1>2, <1>3, <1>4 DEF Next

\* A session never has two sends at work, and what is at work is the front of its
\* queue, for any number of workers, packets and calls of Send.
THEOREM OneSendAtATime == Spec => [](OneSend /\ SendsFront)
<1> DEFINE Inv == Locking /\ Typed /\ SendState
<1>1. Init => Inv BY LockingInit, TypedInit, SendStateInit
<1>2. Inv /\ [Next]_vars => Inv' BY LockingStep, TypedStep, SendStateStep
<1>3. Inv => OneSend /\ SendsFront BY DEF SendState
<1> QED BY <1>1, <1>2, <1>3, PTL DEF Spec

\* Whichever worker completes a send, what it pops is the packet that was sent.
THEOREM FrontIsSent == Spec => []SendsFront
BY OneSendAtATime, PTL

-------------------------------------------------------------------------------
(* The pool and the queue share no packet *)

PoolState ==
  /\ pool \in Seq(SendPackets) /\ sendQ \in Seq(SendPackets)
  /\ \A i, j \in 1 .. Len(sendQ) : sendQ[i] = sendQ[j] => i = j
  /\ \A i, j \in 1 .. Len(pool) : pool[i] = pool[j] => i = j
  /\ PoolDisjoint

\* Moving the front of one of two sequences that share nothing to the end of the other.
LEMMA MoveFront ==
  ASSUME NEW S, NEW a \in Seq(S), NEW b \in Seq(S), a # <<>>,
         \A i, j \in 1 .. Len(a) : a[i] = a[j] => i = j,
         \A i, j \in 1 .. Len(b) : b[i] = b[j] => i = j,
         \A i \in 1 .. Len(a), j \in 1 .. Len(b) : a[i] # b[j],
         NEW c, NEW d, c = Tail(a), d = Append(b, Head(a))
  PROVE  /\ c \in Seq(S) /\ d \in Seq(S)
         /\ \A i, j \in 1 .. Len(c) : c[i] = c[j] => i = j
         /\ \A i, j \in 1 .. Len(d) : d[i] = d[j] => i = j
         /\ \A i \in 1 .. Len(c), j \in 1 .. Len(d) : c[i] # d[j]
<1>1. Head(a) = a[1] /\ Head(a) \in S /\ Len(a) \in Nat /\ 1 \in 1 .. Len(a) OBVIOUS
<1>2. /\ c \in Seq(S) /\ Len(c) = Len(a) - 1
      /\ \A i \in 1 .. Len(c) : c[i] = a[i + 1] /\ i + 1 \in 1 .. Len(a) /\ i + 1 # 1
  OBVIOUS
<1>3. /\ d \in Seq(S) /\ Len(d) = Len(b) + 1 /\ Len(b) \in Nat
      /\ \A i \in 1 .. Len(d) : \/ i \in 1 .. Len(b) /\ d[i] = b[i]
                                \/ i = Len(b) + 1 /\ d[i] = a[1]
  <2>1. Len(d) = Len(b) + 1 /\ Len(b) \in Nat /\ d \in Seq(S) BY <1>1
  <2>2. ASSUME NEW i \in 1 .. Len(d)
        PROVE  \/ i \in 1 .. Len(b) /\ d[i] = b[i]
               \/ i = Len(b) + 1 /\ d[i] = a[1]
    BY <1>1, <2>1
  <2> QED BY <2>1, <2>2
<1>4. \A i, j \in 1 .. Len(c) : c[i] = c[j] => i = j BY <1>2
<1>5. \A i, j \in 1 .. Len(d) : d[i] = d[j] => i = j BY <1>1, <1>3
<1>6. \A i \in 1 .. Len(c), j \in 1 .. Len(d) : c[i] # d[j] BY <1>1, <1>2, <1>3
<1> QED BY <1>2, <1>3, <1>4, <1>5, <1>6

LEMMA PoolInit == Init => PoolState
<1> SUFFICES ASSUME Init PROVE PoolState OBVIOUS
<1>1. sendQ = <<>> /\ pool = [k \in SendPackets |-> k] BY DEF Init
<1>2. pool \in Seq(SendPackets) /\ Len(pool) = PoolSize
  BY <1>1, SessionAssumption DEF SendPackets, SessionAssumption
<1> QED BY <1>1, <1>2, SessionAssumption DEF PoolState, PoolDisjoint, SendPackets, SessionAssumption

LEMMA PoolStep == PoolState /\ [Next]_vars => PoolState'
<1> SUFFICES ASSUME PoolState, [Next]_vars PROVE PoolState' OBVIOUS
<1>1. CASE UNCHANGED <<pool, sendQ>> BY <1>1 DEF PoolState, PoolDisjoint
<1>2. ASSUME NEW t \in Threads, SendPack(t) PROVE PoolState'
  <2>1. /\ pool # <<>> /\ pool' = Tail(pool) /\ sendQ' = Append(sendQ, Head(pool))
    BY <1>2 DEF SendPack, TakeFromPool
  <2> QED BY <2>1, MoveFront DEF PoolState, PoolDisjoint
<1>3. ASSUME NEW t \in Threads, OnSendPop(t) PROVE PoolState'
  <2>1. /\ sendQ # <<>> /\ sendQ' = Tail(sendQ) /\ pool' = Append(pool, Head(sendQ))
    BY <1>3 DEF OnSendPop
  <2> QED BY <2>1, MoveFront DEF PoolState, PoolDisjoint
<1>4. CASE DoFrame \/ PeerCloses \/ ConnectionLost \/ Kernel
  BY <1>1, <1>4 DEF DoFrame, PeerCloses, ConnectionLost, Kernel, SendCompletes, SendAborts,
     RecvPart, RecvWhole, RecvDuplicate, RecvEnd, RecvCompletes, queueVars, packetVars
<1>5. ASSUME NEW t \in Threads, CallSend(t) \/ Work(t), ~SendPack(t), ~OnSendPop(t)
      PROVE PoolState'
  <2> USE DEF queueVars, packetVars
  <2>1. CASE CallSend(t) BY <1>1, <2>1 DEF CallSend
  <2>2. CASE Dequeue(t) BY <1>1, <2>2 DEF Dequeue, Take
  <2>3. CASE OnAccepted(t) \/ OnDisconnected(t) BY <1>1, <2>3 DEF OnAccepted, OnDisconnected
  <2>4. CASE Receiving(t)
    BY <1>1, <2>4 DEF Receiving, CompleteRecvPart, DiscardPacket, DeliverPacket, HandlerReturns,
       RepostRecv
  <2>5. CASE SendEnter(t) \/ SendPost(t) \/ SendExit(t)
    BY <1>1, <2>5 DEF SendEnter, SendPost, SendExit
  <2>6. CASE CompleteSend(t) \/ OnSendLock(t) BY <1>1, <2>6 DEF CompleteSend, OnSendLock
  <2>7. CASE OnSendNext(t) \/ OnSendReturns(t) \/ OnSendUnlock(t)
    BY <1>1, <2>7 DEF OnSendNext, OnSendReturns, OnSendUnlock
  <2> QED BY <1>5, <2>1, <2>2, <2>3, <2>4, <2>5, <2>6, <2>7 DEF Work, Sending, SendCompleted
<1> QED BY <1>1, <1>2, <1>3, <1>4, <1>5 DEF Next, vars, queueVars, packetVars

\* RetrieveSendPacket never puts a packet into the pool that is still queued, and
\* GetSendPacketFromPool never gives one away.
THEOREM PoolCorrect == Spec => []PoolDisjoint
<1>1. PoolState => PoolDisjoint BY DEF PoolState
<1> QED BY <1>1, PoolInit, PoolStep, PTL DEF Spec

-------------------------------------------------------------------------------
(* One receive at a time *)

AcceptsDone == {e \in port : e.kind = "accept"}

\* Nothing of the session is being received.
NoRecv == recvs = 0 /\ RecvsDone = {} /\ \A u \in Threads : ~HoldsRecv(u)

NoAccept == AcceptsDone = {} /\ \A u \in Threads : pc[u] # "accept"

\* The one receive is preceded by the one accept, and that by the connection.
RecvState ==
  /\ OneRecv
  /\ \A e \in AcceptsDone : AcceptsDone = {e} /\ NoRecv /\ \A u \in Threads : pc[u] # "accept"
  /\ \A t \in Threads : pc[t] = "accept" =>
       NoRecv /\ AcceptsDone = {} /\ \A u \in Threads : pc[u] = "accept" => u = t
  /\ sock = "none" => NoRecv /\ NoAccept

RecvTypes ==
  /\ recvs \in Nat
  /\ pc \in [Threads -> Steps]
  /\ ret \in [Threads -> Callers]

LEMMA RecvTypesHold == Typed => RecvTypes
BY DEF Typed, TypeOK, RecvTypes

LEMMA RecvStateInit == Init => RecvState
BY DEF Init, RecvState, OneRecv, RecvsDone, AcceptsDone, HoldsRecv, NoRecv, NoAccept

\* A step that adds nothing to what is being accepted or received.
LEMMA RecvStateFrame ==
  ASSUME RecvState, RecvTypes, recvs' = recvs, RecvsDone' = RecvsDone, AcceptsDone' = AcceptsDone,
         sock' = "none" => sock = "none",
         \A u \in Threads : HoldsRecv(u)' => HoldsRecv(u),
         \A u \in Threads : pc'[u] = "accept" => pc[u] = "accept"
  PROVE  RecvState'
BY DEF RecvState, RecvTypes, OneRecv, NoRecv, NoAccept

\* A step after which exactly one receive is pending.
LEMMA RecvStatePending ==
  ASSUME recvs' = 1, RecvsDone' = {}, NoAccept', \A u \in Threads : ~HoldsRecv(u)', sock' # "none"
  PROVE  RecvState'
BY DEF RecvState, OneRecv, NoRecv, NoAccept

LEMMA RecvStateKernel ==
  ASSUME RecvState, RecvTypes, DoFrame \/ PeerCloses \/ ConnectionLost \/ Kernel
  PROVE  RecvState'
<1>1. UNCHANGED <<pc, ret>>
  BY DEF DoFrame, PeerCloses, ConnectionLost, Kernel, SendCompletes, SendAborts, RecvPart,
     RecvWhole, RecvDuplicate, RecvEnd, RecvCompletes
<1>2. \A u \in Threads : HoldsRecv(u)' <=> HoldsRecv(u) BY <1>1 DEF HoldsRecv
<1>3. CASE DoFrame
  <2>1. NoRecv /\ NoAccept BY <1>3 DEF DoFrame, RecvState
  <2>2. /\ recvs' = recvs /\ sock' = "open" /\ RecvsDone' = RecvsDone
        /\ AcceptsDone' = AcceptsDone \cup {[kind |-> "accept"]}
    BY <1>3 DEF DoFrame, RecvsDone, AcceptsDone
  <2>3. NoRecv' BY <1>2, <2>1, <2>2 DEF NoRecv
  <2>4. OneRecv' BY <2>3 DEF OneRecv, NoRecv
  <2> QED BY <1>1, <2>1, <2>2, <2>3, <2>4 DEF RecvState, NoAccept
<1>4. CASE PeerCloses \/ ConnectionLost \/ SendCompletes \/ SendAborts
  <2>1. recvs' = recvs /\ (sock' = "none" => sock = "none")
    BY <1>4 DEF PeerCloses, ConnectionLost, SendCompletes, SendAborts, ioVars, linkVars
  <2>2. port' = port \/ \E e : e.kind = "send" /\ port' = port \cup {e}
    BY <1>4 DEF PeerCloses, ConnectionLost, SendCompletes, SendAborts, ioVars
  <2>3. RecvsDone' = RecvsDone /\ AcceptsDone' = AcceptsDone
    BY <2>2 DEF RecvsDone, AcceptsDone
  <2> QED BY <1>1, <1>2, <2>1, <2>3, RecvStateFrame
<1>5. CASE RecvPart \/ RecvWhole \/ RecvDuplicate \/ RecvEnd
  <2>1. PICK e : e.kind = "recv" /\ port' = port \cup {e}
    BY <1>5 DEF RecvPart, RecvWhole, RecvDuplicate, RecvEnd, RecvCompletes
  <2>2. recvs > 0 /\ recvs' = recvs - 1 /\ sock' = sock
    BY <1>5 DEF RecvPart, RecvWhole, RecvDuplicate, RecvEnd, RecvCompletes, linkVars
  <2>3. recvs = 1 BY <2>2 DEF RecvState, RecvTypes, OneRecv
  <2>4. RecvsDone = {} /\ \A u \in Threads : ~HoldsRecv(u) BY <2>3 DEF RecvState, OneRecv
  <2>5. NoAccept /\ sock # "none" BY <2>3 DEF RecvState, NoRecv, NoAccept
  <2>6. RecvsDone' = {e} /\ AcceptsDone' = {}
    BY <2>1, <2>4, <2>5 DEF RecvsDone, AcceptsDone, NoAccept
  <2>7. OneRecv' BY <1>2, <2>2, <2>3, <2>4, <2>6 DEF OneRecv
  <2> QED BY <1>1, <2>2, <2>5, <2>6, <2>7 DEF RecvState, NoAccept
<1> QED BY <1>3, <1>4, <1>5 DEF Kernel

\* The worker that dequeues an accept or a receive takes it over from the port.
LEMMA RecvStateDequeue ==
  ASSUME RecvState, RecvTypes, NEW t \in Threads, Dequeue(t)
  PROVE  RecvState'
<1>1. PICK e \in port : Take(t, e) BY DEF Dequeue
<1>2. /\ pc[t] = "wait" /\ port' = port \ {e} /\ UNCHANGED <<recvs, ret, sock>>
      /\ pc' = [pc EXCEPT ![t] = Dispatch(e)]
  BY <1>1 DEF Take, From, Goto, linkVars
<1>3. /\ Dispatch(e) \in {"accept", "recved", "sended", "drop"}
      /\ Dispatch(e) = "recved" => e.kind = "recv"
      /\ Dispatch(e) = "accept" => e.kind = "accept"
  BY DEF Dispatch
<1>4. \A u \in Threads : u # t => (HoldsRecv(u)' <=> HoldsRecv(u)) /\ pc'[u] = pc[u]
  BY <1>2 DEF RecvTypes, HoldsRecv
<1>5. /\ ~HoldsRecv(t) /\ (HoldsRecv(t)' => e.kind = "recv")
      /\ pc[t] # "accept" /\ (pc'[t] = "accept" => e.kind = "accept")
  BY <1>2, <1>3 DEF RecvTypes, HoldsRecv
<1>6. CASE e.kind = "recv"
  <2>1. e \in RecvsDone BY <1>6 DEF RecvsDone
  <2>2. recvs = 0 /\ RecvsDone = {e} /\ \A u \in Threads : ~HoldsRecv(u)
    BY <2>1 DEF RecvState, OneRecv
  <2>3. NoAccept /\ sock # "none" BY <2>1 DEF RecvState, NoRecv, NoAccept
  <2>4. RecvsDone' = {} /\ AcceptsDone' = {}
    BY <1>2, <2>2, <2>3 DEF RecvsDone, AcceptsDone, NoAccept
  <2>5. OneRecv' BY <1>2, <1>4, <2>2, <2>4 DEF OneRecv
  <2>6. \A u \in Threads : pc'[u] # "accept" BY <1>4, <1>5, <1>6, <2>3 DEF NoAccept
  <2> QED BY <1>2, <2>3, <2>4, <2>5, <2>6 DEF RecvState
<1>7. CASE e.kind = "accept"
  <2>1. e \in AcceptsDone BY <1>7 DEF AcceptsDone
  <2>2. AcceptsDone = {e} /\ NoRecv /\ sock # "none" /\ \A u \in Threads : pc[u] # "accept"
    BY <2>1 DEF RecvState, NoAccept
  <2>3. RecvsDone' = {} /\ AcceptsDone' = {}
    BY <1>2, <2>2 DEF RecvsDone, AcceptsDone, NoRecv
  <2>4. NoRecv' BY <1>2, <1>4, <1>5, <1>7, <2>2, <2>3 DEF NoRecv
  <2>5. OneRecv' BY <2>4 DEF OneRecv, NoRecv
  <2> QED BY <1>2, <1>4, <2>2, <2>3, <2>4, <2>5 DEF RecvState
<1>8. CASE e.kind \notin {"recv", "accept"}
  <2>1. RecvsDone' = RecvsDone /\ AcceptsDone' = AcceptsDone
    BY <1>2, <1>8 DEF RecvsDone, AcceptsDone
  <2> QED BY <1>2, <1>4, <1>5, <1>8, <2>1, RecvStateFrame
<1> QED BY <1>6, <1>7, <1>8

\* The worker that accepted the client, or that received from it, posts a receive.
LEMMA RecvStatePosts ==
  ASSUME RecvState, RecvTypes, NEW t \in Threads, pc[t] = "accept" \/ HoldsRecv(t),
         recvs' = recvs + 1, UNCHANGED <<port, ret, sock>>, pc' = [pc EXCEPT ![t] = "wait"]
  PROVE  RecvState'
<1>1. recvs = 0 /\ RecvsDone = {} /\ AcceptsDone = {} /\ sock # "none"
  BY DEF RecvState, OneRecv, NoRecv, NoAccept
<1>2. \A u \in Threads : HoldsRecv(u) \/ pc[u] = "accept" => u = t
  BY DEF RecvState, OneRecv, NoRecv, NoAccept
<1>3. \A u \in Threads : ~HoldsRecv(u)' /\ pc'[u] # "accept"
  BY <1>2 DEF RecvTypes, HoldsRecv
<1>4. RecvsDone' = {} /\ AcceptsDone' = {} BY <1>1 DEF RecvsDone, AcceptsDone
<1> QED BY <1>1, <1>3, <1>4, RecvStatePending DEF NoAccept

\* Every other step of a worker leaves the receive where it is or lets it end.
Unreceiving(t) ==
  /\ UNCHANGED <<recvs, port, sock>>
  /\ \E s \in Steps \ {"accept"} :
       /\ pc' = [pc EXCEPT ![t] = s]
       /\ ret' = ret \/ (s = "enter" /\ ret' = [ret EXCEPT ![t] = pc[t]])
       /\ \/ HoldsRecv(t)
          \/ s \notin {"recved", "handler", "repost", "enter", "pack", "post", "exit"}
          \/ s \in {"pack", "post", "exit"} /\ pc[t] \in {"enter", "pack", "post", "exit"}
          \/ s = "enter" /\ ret' = [ret EXCEPT ![t] = pc[t]]

LEMMA RecvStateUnreceiving ==
  ASSUME RecvState, RecvTypes, NEW t \in Threads, Unreceiving(t)
  PROVE  RecvState'
<1>1. RecvsDone' = RecvsDone /\ AcceptsDone' = AcceptsDone
  BY DEF Unreceiving, RecvsDone, AcceptsDone
<1>2. PICK s \in Steps \ {"accept"} :
        /\ pc' = [pc EXCEPT ![t] = s]
        /\ ret' = ret \/ (s = "enter" /\ ret' = [ret EXCEPT ![t] = pc[t]])
        /\ \/ HoldsRecv(t)
           \/ s \notin {"recved", "handler", "repost", "enter", "pack", "post", "exit"}
           \/ s \in {"pack", "post", "exit"} /\ pc[t] \in {"enter", "pack", "post", "exit"}
           \/ s = "enter" /\ ret' = [ret EXCEPT ![t] = pc[t]]
  BY DEF Unreceiving
<1>3. \A u \in Threads : HoldsRecv(u)' => HoldsRecv(u)
  BY <1>2 DEF RecvTypes, HoldsRecv
<1>4. \A u \in Threads : pc'[u] = "accept" => pc[u] = "accept"
  BY <1>2 DEF RecvTypes
<1> QED BY <1>1, <1>3, <1>4, RecvStateFrame DEF Unreceiving

LEMMA UnreceivingSteps ==
  ASSUME RecvTypes, NEW t \in Threads, CallSend(t) \/ Work(t), ~Dequeue(t),
         ~(OnAccepted(t) \/ CompleteRecvPart(t) \/ RepostRecv(t))
  PROVE  Unreceiving(t)
<1> USE DEF Unreceiving, From, Goto, Steps, HoldsRecv, linkVars, ioVars
<1>1. CASE CallSend(t) BY <1>1 DEF CallSend
<1>2. CASE OnDisconnected(t)
  <2>1. pc' = [pc EXCEPT ![t] = "wait"] /\ UNCHANGED <<recvs, port, sock, ret>>
    BY <1>2 DEF OnDisconnected
  <2>2. "wait" \in Steps \ {"accept"} OBVIOUS
  <2> HIDE DEF Steps, HoldsRecv
  <2> QED BY <2>1, <2>2
<1>3. CASE DiscardPacket(t) BY <1>3 DEF DiscardPacket
<1>4. CASE DeliverPacket(t) BY <1>4 DEF DeliverPacket
<1>5. CASE HandlerReturns(t) BY <1>5 DEF HandlerReturns
<1>6. CASE SendEnter(t) BY <1>6 DEF SendEnter
<1>7. CASE SendPack(t) BY <1>7 DEF SendPack
<1>8. CASE SendPost(t) BY <1>8 DEF SendPost, SendAsync
<1>9. CASE SendExit(t)
  <2>1. pc[t] = "exit" /\ pc' = [pc EXCEPT ![t] = ret[t]] /\ ret[t] \in Callers
    BY <1>9 DEF SendExit, RecvTypes
  <2>2. UNCHANGED <<recvs, port, sock, ret>> BY <1>9 DEF SendExit
  <2> QED BY <2>1, <2>2 DEF Callers
<1>10. CASE CompleteSend(t) BY <1>10 DEF CompleteSend, SendAsync
<1>11. CASE OnSendLock(t) \/ OnSendPop(t) BY <1>11 DEF OnSendLock, OnSendPop
<1>12. CASE OnSendNext(t) BY <1>12 DEF OnSendNext, SendAsync
<1>13. CASE OnSendReturns(t) \/ OnSendUnlock(t) BY <1>13 DEF OnSendReturns, OnSendUnlock
<1> QED BY <1>1, <1>2, <1>3, <1>4, <1>5, <1>6, <1>7, <1>8, <1>9, <1>10, <1>11, <1>12, <1>13
        DEF Work, Receiving, Sending, SendCompleted

LEMMA RecvStateStep == Typed /\ RecvState /\ [Next]_vars => RecvState'
<1> SUFFICES ASSUME Typed, RecvState, [Next]_vars PROVE RecvState' OBVIOUS
<1>1. RecvTypes BY RecvTypesHold
<1>2. CASE UNCHANGED vars
  <2>1. RecvsDone' = RecvsDone /\ AcceptsDone' = AcceptsDone
    BY <1>2 DEF vars, ioVars, RecvsDone, AcceptsDone
  <2>2. UNCHANGED <<recvs, sock, pc, ret>> BY <1>2 DEF vars, ioVars, linkVars
  <2> QED BY <1>1, <2>1, <2>2, RecvStateFrame DEF HoldsRecv
<1>3. CASE DoFrame \/ PeerCloses \/ ConnectionLost \/ Kernel BY <1>1, <1>3, RecvStateKernel
<1>4. ASSUME NEW t \in Threads, Dequeue(t) PROVE RecvState' BY <1>1, <1>4, RecvStateDequeue
<1>5. ASSUME NEW t \in Threads, OnAccepted(t) \/ CompleteRecvPart(t) \/ RepostRecv(t)
      PROVE RecvState'
  <2>1. pc[t] = "accept" \/ HoldsRecv(t)
    BY <1>5 DEF OnAccepted, CompleteRecvPart, RepostRecv, From, HoldsRecv
  <2>2. CASE RecvAsync /\ UNCHANGED <<ret, sock>> /\ Goto(t, "wait")
    BY <1>1, <2>1, <2>2, RecvStatePosts DEF RecvAsync, Goto
  <2>3. CASE UNCHANGED <<ret, sock, ioVars>> /\ (Goto(t, "drop") \/ Goto(t, "wait"))
    <3>1. Unreceiving(t) BY <2>3 DEF Unreceiving, Goto, Steps, ioVars
    <3> QED BY <1>1, <3>1, RecvStateUnreceiving
  <2> QED BY <1>5, <2>2, <2>3 DEF OnAccepted, CompleteRecvPart, RepostRecv, linkVars
<1>6. ASSUME NEW t \in Threads, CallSend(t) \/ Work(t), ~Dequeue(t),
             ~(OnAccepted(t) \/ CompleteRecvPart(t) \/ RepostRecv(t))
      PROVE RecvState'
  BY <1>1, <1>6, UnreceivingSteps, RecvStateUnreceiving
<1> QED BY <1>2, <1>3, <1>4, <1>5, <1>6 DEF Next

\* The receiving side, which no lock protects, is run by one worker at a time.
THEOREM OneRecvAtATime == Spec => []OneRecv
<1> DEFINE Inv == Locking /\ Typed /\ RecvState
<1>1. Init => Inv BY LockingInit, TypedInit, RecvStateInit
<1>2. Inv /\ [Next]_vars => Inv' BY LockingStep, TypedStep, RecvStateStep
<1>3. Inv => OneRecv BY DEF RecvState
<1> QED BY <1>1, <1>2, <1>3, PTL DEF Spec

-------------------------------------------------------------------------------
(* The queue is served *)

ServedState ==
  /\ QueueServed
  /\ \A e \in SendsDone : e.cb = 0 => sock = "reset"

LEMMA ServedInit == Init => ServedState
BY DEF Init, ServedState, QueueServed, SendsDone

\* A step that takes nothing away from what serves the queue.
LEMMA ServedFrame ==
  ASSUME ServedState, sendQ' = sendQ, SendsDone' = SendsDone,
         inflight # <<>> => inflight' # <<>>,
         sock' \in {"open", "fin"} => sock \in {"open", "fin"},
         sock = "reset" => sock' = "reset",
         \A u \in Threads : HoldsSend(u) => HoldsSend(u)',
         \A u \in Threads : pc[u] \in {"post", "next"} => pc'[u] = pc[u]
  PROVE  ServedState'
<1>1. QueueServed' BY DEF ServedState, QueueServed
<1> QED BY <1>1 DEF ServedState

LEMMA ServedKernel ==
  ASSUME ServedState, SendTypes, DoFrame \/ PeerCloses \/ ConnectionLost \/ Kernel,
         sock = "none" => sendQ = <<>>
  PROVE  ServedState'
<1>1. UNCHANGED <<pc, ret, sendQ>>
  BY DEF DoFrame, PeerCloses, ConnectionLost, Kernel, SendCompletes, SendAborts, RecvPart,
     RecvWhole, RecvDuplicate, RecvEnd, RecvCompletes, queueVars
<1>2. CASE DoFrame
  <2>1. SendsDone' = SendsDone BY <1>2 DEF DoFrame, SendsDone
  <2>2. sendQ' = <<>> /\ sock = "none" BY <1>1, <1>2 DEF DoFrame
  <2> QED BY <2>1, <2>2 DEF ServedState, QueueServed
<1>3. CASE PeerCloses \/ ConnectionLost
  <2>1. SendsDone' = SendsDone /\ inflight' = inflight
    BY <1>3 DEF PeerCloses, ConnectionLost, SendsDone, ioVars
  <2> QED BY <1>1, <1>3, <2>1, ServedFrame DEF PeerCloses, ConnectionLost, HoldsSend
<1>4. CASE SendCompletes
  <2>3. PICK n \in 1 .. (PacketBytes - sendbytes[Head(inflight)]) :
          port' = port \cup {[kind |-> "send", pkt |-> Head(inflight), cb |-> n]}
    BY <1>4 DEF SendCompletes
  <2> DEFINE e == [kind |-> "send", pkt |-> Head(inflight), cb |-> n]
  <2>1. e.kind = "send" /\ e.cb # 0 /\ port' = port \cup {e} BY <2>3
  <2> HIDE DEF e
  <2>2. SendsDone' = SendsDone \cup {e} /\ sock' = sock
    BY <1>4, <2>1 DEF SendCompletes, SendsDone, linkVars
  <2> QED BY <1>1, <2>1, <2>2 DEF ServedState, QueueServed
<1>5. CASE SendAborts
  <2>1. PICK e : e.kind = "send" /\ port' = port \cup {e} BY <1>5 DEF SendAborts
  <2>2. SendsDone' = SendsDone \cup {e} /\ sock' = "reset"
    BY <1>5, <2>1 DEF SendAborts, SendsDone, linkVars
  <2> QED BY <2>2 DEF ServedState, QueueServed
<1>6. CASE RecvPart \/ RecvWhole \/ RecvDuplicate \/ RecvEnd
  <2>1. SendsDone' = SendsDone /\ inflight' = inflight /\ sock' = sock
    BY <1>6 DEF RecvPart, RecvWhole, RecvDuplicate, RecvEnd, RecvCompletes, SendsDone, linkVars
  <2> QED BY <1>1, <2>1, ServedFrame DEF HoldsSend
<1> QED BY <1>2, <1>3, <1>4, <1>5, <1>6 DEF Kernel

LEMMA ServedAside ==
  ASSUME ServedState, SendTypes, NEW t \in Threads, Aside(t), sock' = sock,
         pc[t] \notin {"post", "next"}
  PROVE  ServedState'
<1>1. \A u \in Threads : HoldsSend(u) => HoldsSend(u)' BY DEF Aside, SendTypes, HoldsSend
<1>2. \A u \in Threads : pc[u] \in {"post", "next"} => pc'[u] = pc[u] BY DEF Aside, SendTypes
<1> QED BY <1>1, <1>2, ServedFrame DEF Aside

LEMMA ServedDequeue ==
  ASSUME ServedState, SendTypes, NEW t \in Threads, Dequeue(t)
  PROVE  ServedState'
<1>1. PICK e \in port : Take(t, e) BY DEF Dequeue
<1>2. /\ pc[t] = "wait" /\ port' = port \ {e} /\ UNCHANGED <<sendQ, inflight, sock>>
      /\ pc' = [pc EXCEPT ![t] = Dispatch(e)]
  BY <1>1 DEF Take, From, Goto, queueVars, linkVars
<1>3. \A u \in Threads : u # t => (HoldsSend(u) => HoldsSend(u)') /\ pc'[u] = pc[u]
  BY <1>2 DEF SendTypes, HoldsSend
<1>4. pc[t] \notin {"post", "next"} /\ ~HoldsSend(t) BY <1>2 DEF HoldsSend
<1>5. SendsDone' = SendsDone \ {e} BY <1>2 DEF SendsDone
<1>6. CASE e.kind = "send" /\ e.cb # 0
  <2>1. HoldsSend(t)' BY <1>2, <1>6 DEF Dispatch, HoldsSend, SendTypes
  <2> QED BY <1>2, <1>5, <2>1 DEF ServedState, QueueServed
<1>7. CASE e.kind = "send" /\ e.cb = 0
  <2>1. sock' = "reset" BY <1>2, <1>7 DEF ServedState, SendsDone
  <2> QED BY <1>5, <2>1 DEF ServedState, QueueServed
<1>8. CASE e.kind # "send"
  <2>1. SendsDone' = SendsDone BY <1>2, <1>8 DEF SendsDone
  <2> QED BY <1>2, <1>3, <1>4, <2>1, ServedFrame
<1> QED BY <1>6, <1>7, <1>8

\* Whoever is inside m_cs: if the queue was served, it was not by this worker's test.
LEMMA ServedPack ==
  ASSUME Locking, ServedState, SendTypes, NEW t \in Threads, SendPack(t)
  PROVE  ServedState'
<1>1. /\ pc[t] = "pack" /\ pc' = [pc EXCEPT ![t] = "post"]
      /\ UNCHANGED <<inflight, port, sock>>
  BY DEF SendPack, From, Goto, ioVars, linkVars
<1>2. PICK k \in SendPackets : sendQ' = Append(sendQ, k) BY DEF SendPack
<1>3. \A u \in Threads \ {t} : pc[u] \notin {"pop", "post", "next"}
  BY <1>1, Alone DEF InSend
<1>4. SendsDone' = SendsDone BY <1>1 DEF SendsDone
<1>5. pc'[t] = "post" /\ \A u \in Threads : HoldsSend(u) => HoldsSend(u)'
  BY <1>1 DEF SendTypes, HoldsSend
<1>6. CASE sendQ = <<>>
  <2>1. Len(sendQ') = 1 BY <1>2, <1>6
  <2>2. QueueServed' BY <1>5, <2>1 DEF QueueServed
  <2> QED BY <1>1, <1>4, <2>2 DEF ServedState
<1>7. CASE sendQ # <<>>
  <2>1. \A u \in Threads : pc[u] \notin {"post", "next"} BY <1>1, <1>3
  <2>2. sock \in {"open", "fin"} =>
          inflight # <<>> \/ SendsDone # {} \/ \E u \in Threads : HoldsSend(u)
    BY <1>7, <2>1 DEF ServedState, QueueServed
  <2>3. QueueServed' BY <1>1, <1>4, <1>5, <2>2 DEF QueueServed
  <2> QED BY <1>1, <1>4, <2>3 DEF ServedState
<1> QED BY <1>6, <1>7

LEMMA ServedPost ==
  ASSUME ServedState, SendTypes, NEW t \in Threads, SendPost(t)
  PROVE  ServedState'
<1>1. /\ pc[t] = "post" /\ pc' = [pc EXCEPT ![t] = "exit"] /\ UNCHANGED <<sendQ, port, sock>>
  BY DEF SendPost, From, Goto, queueVars, linkVars, SendAsync, ioVars
<1>2. SendsDone' = SendsDone BY <1>1 DEF SendsDone
<1>3. \A u \in Threads : /\ HoldsSend(u) => HoldsSend(u)'
                         /\ u # t => pc'[u] = pc[u]
  BY <1>1 DEF SendTypes, HoldsSend
<1>4. CASE OnlyPacket /\ SendAsync(NextPacket)
  <2>1. inflight' # <<>> BY <1>4 DEF SendAsync, SendTypes
  <2> QED BY <1>1, <1>2, <2>1 DEF ServedState, QueueServed
<1>5. CASE (OnlyPacket => CallFails) /\ UNCHANGED ioVars
  <2>1. CASE sock = "reset" BY <1>1, <1>2, <2>1 DEF ServedState, QueueServed
  <2>2. CASE Len(sendQ) # 1
    <3>1. inflight' = inflight BY <1>5 DEF ioVars
    <3>2. QueueServed' BY <1>1, <1>2, <1>3, <2>2, <3>1 DEF ServedState, QueueServed
    <3> QED BY <1>1, <1>2, <3>2 DEF ServedState
  <2> QED BY <1>5, <2>1, <2>2 DEF OnlyPacket, CallFails
<1> QED BY <1>4, <1>5 DEF SendPost

LEMMA ServedComplete ==
  ASSUME ServedState, SendTypes, NEW t \in Threads, CompleteSend(t)
  PROVE  ServedState'
<1>1. pc[t] = "sended" /\ UNCHANGED <<sendQ, port, sock>>
  BY DEF CompleteSend, From, queueVars, linkVars, SendAsync, ioVars
<1>2. SendsDone' = SendsDone BY <1>1 DEF SendsDone
<1>3. CASE Goto(t, "lock") /\ UNCHANGED <<ioVars, cur>>
  <2>1. \A u \in Threads : /\ HoldsSend(u) => HoldsSend(u)'
                           /\ pc[u] \in {"post", "next"} => pc'[u] = pc[u]
    BY <1>1, <1>3 DEF Goto, HoldsSend, SendTypes
  <2> QED BY <1>1, <1>2, <1>3, <2>1, ServedFrame DEF ioVars
<1>4. CASE SendAsync(cur[t].pkt)
  <2>1. inflight' # <<>> BY <1>4 DEF SendAsync, SendTypes
  <2> QED BY <1>1, <1>2, <2>1 DEF ServedState, QueueServed
<1>5. CASE CallFails BY <1>1, <1>2, <1>5 DEF CallFails, ServedState, QueueServed
<1> QED BY <1>3, <1>4, <1>5 DEF CompleteSend

LEMMA ServedPopNext ==
  ASSUME ServedState, SendTypes, NEW t \in Threads, OnSendPop(t) \/ OnSendNext(t)
  PROVE  ServedState'
<1>1. port' = port /\ sock' = sock
  BY DEF OnSendPop, OnSendNext, ioVars, linkVars, SendAsync
<1>2. SendsDone' = SendsDone BY <1>1 DEF SendsDone
<1>3. CASE OnSendPop(t)
  <2>1. pc'[t] = "next" BY <1>3 DEF OnSendPop, Goto, SendTypes
  <2> QED BY <1>1, <1>2, <2>1 DEF ServedState, QueueServed
<1>4. CASE OnSendNext(t)
  <2>1. sendQ' = sendQ BY <1>4 DEF OnSendNext, queueVars
  <2>2. CASE ~MorePackets BY <1>1, <1>2, <2>1, <2>2 DEF MorePackets, ServedState, QueueServed
  <2>3. CASE SendAsync(NextPacket)
    <3>1. inflight' # <<>> BY <2>3 DEF SendAsync, SendTypes
    <3> QED BY <1>1, <1>2, <2>1, <3>1 DEF ServedState, QueueServed
  <2>4. CASE CallFails BY <1>1, <1>2, <2>4 DEF CallFails, ServedState, QueueServed
  <2> QED BY <1>4, <2>2, <2>3, <2>4 DEF OnSendNext
<1> QED BY <1>3, <1>4

\* Before the client is accepted no worker has anything to do with the session.
Unborn ==
  sock = "none" => /\ ~inSet /\ port = {} /\ sendQ = <<>> /\ inflight = <<>> /\ recvs = 0
                   /\ \A t \in Threads : pc[t] = "wait"

LEMMA UnbornStep == Unborn /\ [Next]_vars => Unborn'
<1> SUFFICES ASSUME Unborn, [Next]_vars, sock' = "none" PROVE Unborn' BY DEF Unborn
<1>1. CASE UNCHANGED vars
  BY <1>1 DEF vars, linkVars, ioVars, queueVars, Unborn
<1>2. CASE DoFrame \/ PeerCloses \/ ConnectionLost BY <1>2 DEF DoFrame, PeerCloses, ConnectionLost
<1>3. CASE Kernel
  <2>1. sock = "none" BY <1>3 DEF Kernel, SendCompletes, SendAborts, RecvPart, RecvWhole,
                            RecvDuplicate, RecvEnd, RecvCompletes, linkVars
  <2>2. inflight = <<>> /\ recvs = 0 BY <2>1 DEF Unborn
  <2> QED BY <1>3, <2>2 DEF Kernel, SendCompletes, SendAborts, RecvPart, RecvWhole,
             RecvDuplicate, RecvEnd, RecvCompletes
<1>4. ASSUME NEW t \in Threads, CallSend(t) \/ Work(t) PROVE FALSE
  <2>1. sock = "none"
    BY <1>4 DEF CallSend, Work, Receiving, Sending, SendCompleted, Dequeue, Take, OnAccepted,
       OnDisconnected, CompleteRecvPart, DiscardPacket, DeliverPacket, HandlerReturns, RepostRecv,
       SendEnter, SendPack, SendPost, SendExit, CompleteSend, OnSendLock, OnSendPop, OnSendNext,
       OnSendReturns, OnSendUnlock, linkVars
  <2>2. pc[t] = "wait" /\ ~inSet /\ port = {} BY <2>1 DEF Unborn
  <2> QED BY <1>4, <2>2 DEF CallSend, Work, Receiving, Sending, SendCompleted, Dequeue, From,
       OnAccepted, OnDisconnected, CompleteRecvPart, DiscardPacket, DeliverPacket, HandlerReturns,
       RepostRecv, SendEnter, SendPack, SendPost, SendExit, CompleteSend, OnSendLock, OnSendPop,
       OnSendNext, OnSendReturns, OnSendUnlock
<1> QED BY <1>1, <1>2, <1>3, <1>4 DEF Next

LEMMA ServedStep ==
  Locking /\ Typed /\ Unborn /\ ServedState /\ [Next]_vars => ServedState'
<1> SUFFICES ASSUME Locking, Typed, Unborn, ServedState, [Next]_vars PROVE ServedState' OBVIOUS
<1>1. SendTypes BY SendTypesHold
<1>2. CASE UNCHANGED vars
  <2>1. SendsDone' = SendsDone BY <1>2 DEF vars, ioVars, SendsDone
  <2> QED BY <1>2, <2>1, ServedFrame DEF vars, ioVars, queueVars, linkVars, HoldsSend
<1>3. CASE DoFrame \/ PeerCloses \/ ConnectionLost \/ Kernel
  BY <1>1, <1>3, ServedKernel DEF Unborn
<1>4. ASSUME NEW t \in Threads,
             \/ CallSend(t) \/ SendEnter(t) \/ SendExit(t) \/ OnAccepted(t) \/ OnDisconnected(t)
             \/ Receiving(t) \/ OnSendLock(t) \/ OnSendReturns(t) \/ OnSendUnlock(t)
      PROVE ServedState'
  <2>1. Aside(t) BY <1>1, <1>4, AsideSteps
  <2>2. sock' = sock /\ pc[t] \notin {"post", "next"}
    BY <1>4 DEF CallSend, SendEnter, SendExit, OnAccepted, OnDisconnected, Receiving,
       CompleteRecvPart, DiscardPacket, DeliverPacket, HandlerReturns, RepostRecv, OnSendLock,
       OnSendReturns, OnSendUnlock, From, Callers, linkVars
  <2> QED BY <1>1, <2>1, <2>2, ServedAside
<1>5. ASSUME NEW t \in Threads, CallSend(t) \/ Work(t) PROVE ServedState'
  BY <1>1, <1>4, <1>5, ServedDequeue, ServedPack, ServedPost, ServedComplete, ServedPopNext
     DEF Work, Sending, SendCompleted
<1> QED BY <1>2, <1>3, <1>5 DEF Next

\* No packet is left in the queue of a connected session with nobody to send it:
\* the test for size() == 1 in Send and the next send in OnCompleteSend never miss
\* each other.
THEOREM QueueServedCorrect == Spec => []QueueServed
<1> DEFINE Inv == Locking /\ Typed /\ Unborn /\ ServedState
<1>1. Init => Inv
  <2>1. Init => Unborn BY DEF Init, Unborn
  <2> QED BY <2>1, LockingInit, TypedInit, ServedInit
<1>2. Inv /\ [Next]_vars => Inv' BY LockingStep, TypedStep, UnbornStep, ServedStep
<1>3. Inv => QueueServed BY DEF ServedState
<1> QED BY <1>1, <1>2, <1>3, PTL DEF Spec
================================================================================
