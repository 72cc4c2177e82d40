------------------------ MODULE IOCPSessionOrderProofs ------------------------
(***************************************************************************)
(* What IOCPSession promises of order: the packets of the client are       *)
(* handled in the order of their ids, those of Send enter the connection   *)
(* in the order of their acceptance.  Both rest on the single receive and  *)
(* the single send of IOCPSessionProofs.                                   *)
(***************************************************************************)
EXTENDS IOCPSessionProofs

-------------------------------------------------------------------------------
(* The packets of the client *)

\* The handler got every packet the client sent.
UpToDate == newRecvID = Len(handled) + 1 /\ clientID = newRecvID

\* A completed receive of a whole packet brings the latest one of the client, new
\* or, if the client repeats packets, once more.
Brings(e) ==
  IF e.what = "whole"
  THEN /\ e.id = clientID - 1
       /\ newRecvID = Len(handled) + 1
       /\ newRecvID = e.id \/ (Duplicates /\ newRecvID = e.id + 1)
  ELSE UpToDate

RecvOrder ==
  /\ HandledInOrder
  /\ recvs > 0 => UpToDate
  /\ \A e \in RecvsDone : Brings(e)
  /\ \A t \in Threads : HoldsRecv(t) => IF pc[t] = "recved" THEN Brings(cur[t]) ELSE UpToDate
  /\ AcceptsDone # {} => UpToDate
  /\ \A t \in Threads : pc[t] = "accept" => UpToDate
  /\ sock = "none" => UpToDate

LEMMA RecvOrderInit == Init => RecvOrder
BY DEF Init, RecvOrder, HandledInOrder, UpToDate, RecvsDone, AcceptsDone, HoldsRecv

\* A step that counts nothing and brings nothing new to the receiving side.
LEMMA RecvOrderFrame ==
  ASSUME RecvOrder, UNCHANGED recvVars, recvs' > 0 => UpToDate,
         RecvsDone' \subseteq RecvsDone, AcceptsDone' # {} => UpToDate,
         sock' = "none" => sock = "none",
         \A u \in Threads : HoldsRecv(u)' =>
           /\ HoldsRecv(u) /\ (pc'[u] = "recved" <=> pc[u] = "recved")
           /\ pc[u] = "recved" => cur'[u] = cur[u],
         \A u \in Threads : pc'[u] = "accept" => pc[u] = "accept" \/ UpToDate
  PROVE  RecvOrder'
<1>1. HandledInOrder' /\ (UpToDate => UpToDate') /\ \A e : Brings(e)' <=> Brings(e)
  BY DEF RecvOrder, HandledInOrder, recvVars, UpToDate, Brings
<1>2. \A e \in RecvsDone' : Brings(e)'
  BY <1>1 DEF RecvOrder
<1>3. \A u \in Threads : HoldsRecv(u)' =>
        IF pc'[u] = "recved" THEN Brings(cur[u])' ELSE UpToDate'
  <2> SUFFICES ASSUME NEW u \in Threads, HoldsRecv(u)'
               PROVE  IF pc'[u] = "recved" THEN Brings(cur[u])' ELSE UpToDate'
    OBVIOUS
  <2>1. CASE pc'[u] = "recved"
    <3>1. Brings(cur[u]) /\ cur'[u] = cur[u] BY <2>1 DEF RecvOrder
    <3>2. Brings(cur[u])' BY <3>1 DEF Brings, UpToDate, recvVars
    <3> QED BY <2>1, <3>2
  <2>2. CASE pc'[u] # "recved" BY <1>1, <2>2 DEF RecvOrder
  <2> QED BY <2>1, <2>2
<1>4. /\ recvs' > 0 => UpToDate'
      /\ AcceptsDone' # {} => UpToDate'
      /\ \A u \in Threads : pc'[u] = "accept" => UpToDate'
      /\ sock' = "none" => UpToDate'
  BY <1>1 DEF RecvOrder
<1> QED BY <1>1, <1>2, <1>3, <1>4 DEF RecvOrder

\* One receive leaves nothing else of the receiving side at work.
LEMMA ReceivesAlone ==
  ASSUME RecvTypes, RecvState
  PROVE  /\ recvs > 0 => recvs = 1 /\ RecvsDone = {} /\ \A u \in Threads : ~HoldsRecv(u)
         /\ \A t \in Threads : HoldsRecv(t) =>
              recvs = 0 /\ RecvsDone = {} /\ \A u \in Threads : HoldsRecv(u) => u = t
         /\ recvs > 0 \/ RecvsDone # {} \/ (\E t \in Threads : HoldsRecv(t)) =>
              sock # "none" /\ NoAccept
BY DEF RecvState, RecvTypes, OneRecv, NoRecv, NoAccept

\* The completion of a receive.
LEMMA RecvCompletesAdds ==
  ASSUME NEW what, NEW id, RecvCompletes(what, id)
  PROVE  \E e : e.kind = "recv" /\ e.what = what /\ e.id = id /\ port' = port \cup {e}
<1> DEFINE e == [kind |-> "recv", what |-> what, id |-> id]
<1>1. port' = port \cup {e} BY DEF RecvCompletes
<1>2. e.kind = "recv" /\ e.what = what /\ e.id = id OBVIOUS
<1> HIDE DEF e
<1> QED BY <1>1, <1>2

LEMMA RecvOrderKernel ==
  ASSUME Typed, RecvState, RecvOrder, DoFrame \/ PeerCloses \/ ConnectionLost \/ Kernel
  PROVE  RecvOrder'
<1>1. UNCHANGED <<pc, ret, cur>>
  BY DEF DoFrame, PeerCloses, ConnectionLost, Kernel, SendCompletes, SendAborts, RecvPart,
     RecvWhole, RecvDuplicate, RecvEnd, RecvCompletes
<1>2. \A u \in Threads : HoldsRecv(u)' <=> HoldsRecv(u) BY <1>1 DEF HoldsRecv
<1>3. CASE DoFrame
  <2>1. /\ UpToDate /\ RecvsDone' = RecvsDone /\ sock' = "open"
        /\ UNCHANGED recvVars
    BY <1>3 DEF DoFrame, RecvOrder, RecvsDone
  <2> QED BY <1>1, <1>2, <2>1, RecvOrderFrame
<1>4. CASE PeerCloses \/ ConnectionLost \/ SendCompletes \/ SendAborts
  <2>1. recvs' = recvs /\ (sock' = "none" => sock = "none") /\ UNCHANGED recvVars
    BY <1>4 DEF PeerCloses, ConnectionLost, SendCompletes, SendAborts, ioVars, linkVars
  <2>2. port' = port \/ \E e : e.kind = "send" /\ port' = port \cup {e}
    BY <1>4 DEF PeerCloses, ConnectionLost, SendCompletes, SendAborts, ioVars
  <2>3. RecvsDone' = RecvsDone /\ AcceptsDone' = AcceptsDone
    BY <2>2 DEF RecvsDone, AcceptsDone
  <2>4. (recvs > 0 => UpToDate) /\ (AcceptsDone # {} => UpToDate) BY DEF RecvOrder
  <2> QED BY <1>1, <1>2, <2>1, <2>3, <2>4, RecvOrderFrame
<1>5. CASE RecvPart \/ RecvWhole \/ RecvDuplicate \/ RecvEnd
  <2>1. /\ recvs > 0 /\ recvs' = recvs - 1 /\ UNCHANGED <<newRecvID, handled>> /\ sock' = sock
    BY <1>5 DEF RecvPart, RecvWhole, RecvDuplicate, RecvEnd, RecvCompletes, linkVars
  <2>2. /\ recvs' = 0 /\ RecvsDone = {} /\ \A u \in Threads : ~HoldsRecv(u)
        /\ sock # "none" /\ NoAccept
    BY <2>1, ReceivesAlone, RecvTypesHold
  <2>3. UpToDate BY <2>1 DEF RecvOrder
  <2>4. clientID \in Nat \ {0} /\ newRecvID \in Nat BY DEF Typed, TypeOK
  <2>5. PICK e : /\ e.kind = "recv" /\ port' = port \cup {e}
                 /\ IF e.what = "whole"
                    THEN /\ e.id = clientID' - 1
                         /\ newRecvID = e.id \/ (Duplicates /\ newRecvID = e.id + 1)
                    ELSE clientID' = clientID
    <3>1. CASE RecvPart \/ RecvEnd
      BY <3>1, RecvCompletesAdds DEF RecvPart, RecvEnd
    <3>2. CASE RecvWhole
      BY <2>3, <2>4, <3>2, RecvCompletesAdds DEF RecvWhole, UpToDate
    <3>3. CASE RecvDuplicate
      BY <2>3, <2>4, <3>3, RecvCompletesAdds DEF RecvDuplicate, UpToDate
    <3> QED BY <1>5, <3>1, <3>2, <3>3
  <2>8. Brings(e)' BY <2>1, <2>3, <2>5 DEF Brings, UpToDate
  <2>6. RecvsDone' = {e} /\ AcceptsDone' = {}
    BY <2>2, <2>5 DEF RecvsDone, AcceptsDone, NoAccept
  <2>7. HandledInOrder' BY <2>1 DEF RecvOrder, HandledInOrder
  <2> QED BY <1>1, <1>2, <2>1, <2>2, <2>6, <2>7, <2>8 DEF RecvOrder, NoAccept
<1> QED BY <1>3, <1>4, <1>5 DEF Kernel

\* What a worker dequeues is what it holds.
LEMMA RecvOrderDequeue ==
  ASSUME Typed, RecvState, RecvOrder, NEW t \in Threads, Dequeue(t)
  PROVE  RecvOrder'
<1>1. PICK e \in port : Take(t, e) BY DEF Dequeue
<1>2. /\ pc[t] = "wait" /\ port' = port \ {e} /\ UNCHANGED <<recvs, ret, sock, recvVars>>
      /\ pc' = [pc EXCEPT ![t] = Dispatch(e)] /\ cur' = [cur EXCEPT ![t] = e]
  BY <1>1 DEF Take, From, Goto, linkVars
<1>3. /\ Dispatch(e) \in {"accept", "recved", "sended", "drop"}
      /\ Dispatch(e) = "recved" => e.kind = "recv"
      /\ Dispatch(e) = "accept" => e.kind = "accept"
  BY DEF Dispatch
<1>4. pc \in [Threads -> Steps] /\ cur \in [Threads -> Completion \cup {NoCompletion}]
  BY DEF Typed, TypeOK
<1>5. /\ \A u \in Threads : u # t => (HoldsRecv(u)' <=> HoldsRecv(u)) /\ pc'[u] = pc[u]
                                     /\ cur'[u] = cur[u]
      /\ pc'[t] = Dispatch(e) /\ cur'[t] = e /\ (HoldsRecv(t)' => Dispatch(e) = "recved")
  BY <1>2, <1>3, <1>4 DEF HoldsRecv
<1>6. RecvsDone' \subseteq RecvsDone /\ AcceptsDone' \subseteq AcceptsDone
  BY <1>2 DEF RecvsDone, AcceptsDone
<1>7. e.kind = "recv" => e \in RecvsDone /\ Brings(e) BY DEF RecvsDone, RecvOrder
<1>8. e.kind = "accept" => UpToDate BY DEF AcceptsDone, RecvOrder
<1>9. (UpToDate => UpToDate') /\ (\A x : Brings(x)' <=> Brings(x)) /\ HandledInOrder'
  BY <1>2 DEF UpToDate, Brings, recvVars, RecvOrder, HandledInOrder
<1>10. \A u \in Threads : HoldsRecv(u)' =>
         IF pc'[u] = "recved" THEN Brings(cur[u])' ELSE UpToDate'
  <2> SUFFICES ASSUME NEW u \in Threads, HoldsRecv(u)'
               PROVE  IF pc'[u] = "recved" THEN Brings(cur[u])' ELSE UpToDate'
    OBVIOUS
  <2>1. CASE u = t
    <3>1. Brings(e) /\ cur'[u] = e /\ pc'[u] = "recved" BY <1>3, <1>5, <1>7, <2>1
    <3>2. Brings(cur[u])' BY <1>2, <3>1 DEF Brings, UpToDate, recvVars
    <3> QED BY <3>1, <3>2
  <2>2. CASE u # t /\ pc[u] = "recved"
    <3>1. Brings(cur[u]) /\ cur'[u] = cur[u] BY <1>5, <2>2 DEF RecvOrder
    <3>2. Brings(cur[u])' BY <1>2, <3>1 DEF Brings, UpToDate, recvVars
    <3> QED BY <1>5, <2>2, <3>2
  <2>3. CASE u # t /\ pc[u] # "recved" BY <1>5, <1>9, <2>3 DEF RecvOrder
  <2> QED BY <2>1, <2>2, <2>3
<1>11. /\ recvs' > 0 => UpToDate'
       /\ AcceptsDone' # {} => UpToDate'
       /\ sock' = "none" => UpToDate'
  BY <1>2, <1>6, <1>9 DEF RecvOrder
<1>12. \A u \in Threads : pc'[u] = "accept" => UpToDate'
  BY <1>3, <1>5, <1>8, <1>9 DEF RecvOrder
<1>13. \A x \in RecvsDone' : Brings(x)' BY <1>6, <1>9 DEF RecvOrder
<1> QED BY <1>9, <1>10, <1>11, <1>12, <1>13 DEF RecvOrder

\* A step of a worker that has nothing to do with receiving.
OffReceive(t) ==
  /\ Unreceiving(t) /\ UNCHANGED recvVars
  /\ cur' = cur \/ cur' = [cur EXCEPT ![t] = NoCompletion]
  /\ pc[t] # "recved" /\ pc'[t] # "recved"

LEMMA RecvOrderOff ==
  ASSUME Typed, RecvOrder, NEW t \in Threads, OffReceive(t)
  PROVE  RecvOrder'
<1>1. PICK s \in Steps \ {"accept"} :
        /\ pc' = [pc EXCEPT ![t] = s]
        /\ ret' = ret \/ (s = "enter" /\ ret' = [ret EXCEPT ![t] = pc[t]])
        /\ \/ HoldsRecv(t)
           \/ s \notin {"recved", "handler", "repost", "enter", "pack", "post", "exit"}
           \/ s \in {"pack", "post", "exit"} /\ pc[t] \in {"enter", "pack", "post", "exit"}
           \/ s = "enter" /\ ret' = [ret EXCEPT ![t] = pc[t]]
  BY DEF OffReceive, Unreceiving
<1>2. /\ pc \in [Threads -> Steps] /\ ret \in [Threads -> Callers]
      /\ cur \in [Threads -> Completion \cup {NoCompletion}]
  BY DEF Typed, TypeOK
<1>3. \A u \in Threads : HoldsRecv(u)' => HoldsRecv(u)
  BY <1>1, <1>2 DEF HoldsRecv
<1>4. \A u \in Threads : /\ pc'[u] = "recved" <=> pc[u] = "recved"
                         /\ pc[u] = "recved" => cur'[u] = cur[u]
                         /\ pc'[u] = "accept" => pc[u] = "accept"
  BY <1>1, <1>2 DEF OffReceive
<1>5. RecvsDone' = RecvsDone /\ AcceptsDone' = AcceptsDone /\ UNCHANGED <<recvs, sock>>
  BY DEF OffReceive, Unreceiving, RecvsDone, AcceptsDone
<1>6. (recvs > 0 => UpToDate) /\ (AcceptsDone # {} => UpToDate) BY DEF RecvOrder
<1> QED BY <1>3, <1>4, <1>5, <1>6, RecvOrderFrame DEF OffReceive

LEMMA OffReceiveSteps ==
  ASSUME Typed, NEW t \in Threads, Work(t) \/ CallSend(t), ~Dequeue(t),
         ~(OnAccepted(t) \/ CompleteRecvPart(t) \/ RepostRecv(t)),
         ~(DiscardPacket(t) \/ DeliverPacket(t))
  PROVE  OffReceive(t)
<1>1. Unreceiving(t) BY UnreceivingSteps, RecvTypesHold
<1>2. pc \in [Threads -> Steps] /\ ret \in [Threads -> Callers] BY DEF Typed, TypeOK
<1> USE DEF OffReceive, From, Goto, Callers, recvVars
<1>3. CASE CallSend(t) BY <1>1, <1>2, <1>3 DEF CallSend
<1>4. CASE OnDisconnected(t) \/ HandlerReturns(t)
  BY <1>1, <1>2, <1>4 DEF OnDisconnected, HandlerReturns
<1>5. CASE SendEnter(t) \/ SendPack(t) \/ SendPost(t) \/ SendExit(t)
  BY <1>1, <1>2, <1>5 DEF SendEnter, SendPack, SendPost, SendExit
<1>6. CASE CompleteSend(t) \/ OnSendLock(t) \/ OnSendPop(t)
  BY <1>1, <1>2, <1>6 DEF CompleteSend, OnSendLock, OnSendPop
<1>7. CASE OnSendNext(t) \/ OnSendReturns(t) \/ OnSendUnlock(t)
  BY <1>1, <1>2, <1>7 DEF OnSendNext, OnSendReturns, OnSendUnlock
<1> QED BY <1>3, <1>4, <1>5, <1>6, <1>7 DEF Work, Receiving, Sending, SendCompleted

\* Counting a packet: nothing else is being received meanwhile.
LEMMA RecvOrderCount ==
  ASSUME Typed, RecvState, RecvOrder, NEW t \in Threads, DiscardPacket(t) \/ DeliverPacket(t)
  PROVE  RecvOrder'
<1>1. pc[t] = "recved" /\ cur[t].what = "whole" /\ UNCHANGED <<port, recvs, sock, ret, clientID>>
      /\ newRecvID' = newRecvID + 1
  BY DEF DiscardPacket, DeliverPacket, From, ioVars, linkVars
<1>2. HoldsRecv(t) BY <1>1 DEF HoldsRecv
<1>3. /\ recvs = 0 /\ RecvsDone = {} /\ sock # "none" /\ NoAccept
      /\ \A u \in Threads : HoldsRecv(u) => u = t
  BY <1>2, ReceivesAlone, RecvTypesHold
<1>4. Brings(cur[t]) BY <1>1, <1>2 DEF RecvOrder
<1>5. RecvsDone' = {} /\ AcceptsDone' = {}
  BY <1>1, <1>3 DEF RecvsDone, AcceptsDone, NoAccept
<1>6. /\ pc \in [Threads -> Steps] /\ newRecvID \in Nat /\ clientID \in Nat
      /\ handled \in Seq(Nat)
  BY DEF Typed, TypeOK
<1>7. cur[t].id \in Nat BY <1>1 DEF Typed, CurOK, RecvDone
<1>8. CASE DiscardPacket(t)
  <2>1. pc' = [pc EXCEPT ![t] = "wait"] /\ handled' = handled
    BY <1>8 DEF DiscardPacket, Goto
  <2>2. \A u \in Threads : ~HoldsRecv(u)' /\ pc'[u] # "accept"
    BY <1>1, <1>3, <1>6, <2>1 DEF HoldsRecv, NoAccept
  <2>3. HandledInOrder' BY <2>1 DEF RecvOrder, HandledInOrder
  <2> QED BY <1>1, <1>3, <1>5, <2>2, <2>3 DEF RecvOrder
<1>9. CASE DeliverPacket(t)
  <2>1. /\ pc' = [pc EXCEPT ![t] = "handler"] /\ handled' = Append(handled, cur[t].id)
        /\ ~(cur[t].id < newRecvID)
    BY <1>9 DEF DeliverPacket, Goto, AlreadyHandled
  <2>2. cur[t].id = newRecvID /\ newRecvID = Len(handled) + 1 /\ clientID = newRecvID + 1
    BY <1>1, <1>4, <1>6, <1>7, <2>1 DEF Brings
  <2>3. HandledInOrder'
    BY <1>6, <1>7, <2>1, <2>2 DEF RecvOrder, HandledInOrder
  <2>4. UpToDate' BY <1>1, <1>6, <1>7, <2>1, <2>2 DEF UpToDate
  <2>5. \A u \in Threads : /\ HoldsRecv(u)' => pc'[u] # "recved"
                           /\ pc'[u] # "accept"
    BY <1>1, <1>3, <1>6, <2>1 DEF HoldsRecv, NoAccept
  <2> QED BY <1>1, <1>3, <1>5, <2>3, <2>4, <2>5 DEF RecvOrder
<1> QED BY <1>8, <1>9

\* A worker that posts a receive has delivered what it received.
LEMMA RecvOrderPosts ==
  ASSUME Typed, RecvOrder, NEW t \in Threads,
         OnAccepted(t) \/ CompleteRecvPart(t) \/ RepostRecv(t)
  PROVE  RecvOrder'
<1>1. UNCHANGED <<port, ret, sock, recvVars>>
  BY DEF OnAccepted, CompleteRecvPart, RepostRecv, RecvAsync, ioVars, linkVars
<1>2. pc \in [Threads -> Steps] BY DEF Typed, TypeOK
<1>3. /\ pc' = [pc EXCEPT ![t] = "wait"] \/ pc' = [pc EXCEPT ![t] = "drop"]
      /\ cur' = cur \/ cur' = [cur EXCEPT ![t] = NoCompletion]
  BY DEF OnAccepted, CompleteRecvPart, RepostRecv, Goto
<1>4. UpToDate
  <2>1. CASE OnAccepted(t) BY <2>1 DEF OnAccepted, From, RecvOrder
  <2>2. CASE CompleteRecvPart(t)
    <3>1. pc[t] = "recved" /\ cur[t].what = "part" BY <2>2 DEF CompleteRecvPart, From
    <3>2. Brings(cur[t]) BY <3>1 DEF RecvOrder, HoldsRecv
    <3> QED BY <3>1, <3>2 DEF Brings
  <2>3. CASE RepostRecv(t) BY <2>3 DEF RepostRecv, From, RecvOrder, HoldsRecv
  <2> QED BY <2>1, <2>2, <2>3
<1>5. \A u \in Threads : /\ HoldsRecv(u)' => HoldsRecv(u) /\ u # t
                         /\ u # t => pc'[u] = pc[u]
                         /\ pc'[t] \in {"wait", "drop"}
  BY <1>1, <1>2, <1>3 DEF HoldsRecv
<1>6. RecvsDone' = RecvsDone BY <1>1 DEF RecvsDone
<1>7. \A u \in Threads : u # t => cur'[u] = cur[u]
  BY <1>3 DEF Typed, TypeOK
<1> QED BY <1>1, <1>4, <1>5, <1>6, <1>7, RecvOrderFrame

LEMMA RecvOrderStep == Typed /\ RecvState /\ RecvOrder /\ [Next]_vars => RecvOrder'
<1> SUFFICES ASSUME Typed, RecvState, RecvOrder, [Next]_vars PROVE RecvOrder' OBVIOUS
<1>1. CASE UNCHANGED vars
  <2>1. /\ RecvsDone' = RecvsDone /\ AcceptsDone' = AcceptsDone
        /\ UNCHANGED <<recvs, sock, pc, ret, cur, recvVars>>
    BY <1>1 DEF vars, ioVars, linkVars, RecvsDone, AcceptsDone
  <2>2. (recvs > 0 => UpToDate) /\ (AcceptsDone # {} => UpToDate) BY DEF RecvOrder
  <2> QED BY <2>1, <2>2, RecvOrderFrame DEF HoldsRecv
<1>2. CASE DoFrame \/ PeerCloses \/ ConnectionLost \/ Kernel BY <1>2, RecvOrderKernel
<1>3. ASSUME NEW t \in Threads, CallSend(t) \/ Work(t) PROVE RecvOrder'
  BY <1>3, RecvOrderDequeue, RecvOrderPosts, RecvOrderCount, OffReceiveSteps, RecvOrderOff
<1> QED BY <1>1, <1>2, <1>3 DEF Next

RecvInv == Locking /\ Typed /\ RecvState /\ RecvOrder

LEMMA RecvInvHolds == Spec => []RecvInv
<1>1. Init => RecvInv
  BY LockingInit, TypedInit, RecvStateInit, RecvOrderInit DEF RecvInv
<1>2. RecvInv /\ [Next]_vars => RecvInv'
  BY LockingStep, TypedStep, RecvStateStep, RecvOrderStep DEF RecvInv
<1> QED BY <1>1, <1>2, PTL DEF Spec

\* OnRecvCompleted gets the packets of the client in the order of their ids, each
\* once, also from a client that repeats its latest packet: the unlocked
\* m_newRecvID is read and counted by one worker at a time.
THEOREM HandledInOrderCorrect == Spec => []HandledInOrder
<1>1. RecvInv => HandledInOrder BY DEF RecvInv, RecvOrder
<1> QED BY <1>1, RecvInvHolds, PTL

-------------------------------------------------------------------------------
(* A session that nobody listens to *)

Receives == recvs > 0 \/ RecvsDone # {} \/ \E t \in Threads : HoldsRecv(t)

\* While the connection is open no receive ends without data.
ListenState ==
  /\ Listening
  /\ sock = "open" => \A e \in RecvsDone : e.what # "end"

LEMMA ListenInit == Init => ListenState
BY DEF Init, ListenState, Listening, RecvsDone

\* A step that gives up neither a receive nor what a worker received.
LEMMA ListenFrame ==
  ASSUME ListenState, Receives => Receives', RecvsDone' \subseteq RecvsDone,
         sock' = "open" => sock = "open", inSet' => inSet, started' => started
  PROVE  ListenState'
<1>1. Listening' BY DEF ListenState, Listening, Receives
<1> QED BY <1>1 DEF ListenState

LEMMA ListenKernel ==
  ASSUME Typed, RecvState, ListenState, DoFrame \/ PeerCloses \/ ConnectionLost \/ Kernel,
         sock = "none" => ~inSet
  PROVE  ListenState'
<1>1. UNCHANGED <<pc, ret, inSet, started>>
  BY DEF DoFrame, PeerCloses, ConnectionLost, Kernel, SendCompletes, SendAborts, RecvPart,
     RecvWhole, RecvDuplicate, RecvEnd, RecvCompletes, linkVars
<1>2. \A u \in Threads : HoldsRecv(u)' <=> HoldsRecv(u) BY <1>1 DEF HoldsRecv
<1>3. CASE DoFrame
  <2>1. ~inSet' /\ RecvsDone = {} /\ RecvsDone' = RecvsDone
    BY <1>1, <1>3 DEF DoFrame, RecvState, NoRecv, RecvsDone
  <2> QED BY <2>1 DEF ListenState, Listening
<1>4. CASE PeerCloses \/ ConnectionLost \/ SendCompletes \/ SendAborts
  <2>1. recvs' = recvs /\ (sock' = "open" => sock = "open")
    BY <1>4 DEF PeerCloses, ConnectionLost, SendCompletes, SendAborts, ioVars, linkVars
  <2>2. port' = port \/ \E e : e.kind = "send" /\ port' = port \cup {e}
    BY <1>4 DEF PeerCloses, ConnectionLost, SendCompletes, SendAborts, ioVars
  <2>3. RecvsDone' = RecvsDone BY <2>2 DEF RecvsDone
  <2> QED BY <1>1, <1>2, <2>1, <2>3, ListenFrame DEF Receives
<1>5. CASE RecvPart \/ RecvWhole \/ RecvDuplicate \/ RecvEnd
  <2>1. PICK e : /\ e.kind = "recv" /\ port' = port \cup {e}
                 /\ e.what = "end" => sock \in {"fin", "reset"}
    BY <1>5, RecvCompletesAdds DEF RecvPart, RecvWhole, RecvDuplicate, RecvEnd
  <2>2. RecvsDone' = RecvsDone \cup {e} /\ sock' = sock
    BY <1>5, <2>1 DEF RecvsDone, RecvPart, RecvWhole, RecvDuplicate, RecvEnd, RecvCompletes,
       linkVars
  <2>3. Listening' BY <2>2 DEF Listening
  <2> QED BY <2>1, <2>2, <2>3 DEF ListenState
<1> QED BY <1>3, <1>4, <1>5 DEF Kernel

LEMMA ListenDequeue ==
  ASSUME Typed, ListenState, NEW t \in Threads, Dequeue(t)
  PROVE  ListenState'
<1>1. PICK e \in port : Take(t, e) BY DEF Dequeue
<1>2. /\ pc[t] = "wait" /\ port' = port \ {e} /\ UNCHANGED <<recvs, ret, linkVars>>
      /\ pc' = [pc EXCEPT ![t] = Dispatch(e)]
  BY <1>1 DEF Take, From, Goto
<1>3. pc \in [Threads -> Steps] BY DEF Typed, TypeOK
<1>4. RecvsDone' = RecvsDone \ {e} BY <1>2 DEF RecvsDone
<1>5. \A u \in Threads : HoldsRecv(u) => HoldsRecv(u)' BY <1>2, <1>3 DEF HoldsRecv
<1>6. CASE sock # "open" BY <1>2, <1>6 DEF ListenState, Listening, linkVars
<1>7. CASE sock = "open" /\ e.kind = "recv"
  <2>1. e.what # "end" BY <1>7 DEF ListenState, RecvsDone
  <2>2. HoldsRecv(t)' BY <1>2, <1>3, <1>7, <2>1 DEF Dispatch, HoldsRecv
  <2> QED BY <1>2, <1>4, <2>2, ListenFrame DEF Receives, linkVars
<1>8. CASE e.kind # "recv"
  <2>1. RecvsDone' = RecvsDone BY <1>2, <1>8 DEF RecvsDone
  <2> QED BY <1>2, <1>5, <2>1, ListenFrame DEF Receives, linkVars
<1> QED BY <1>6, <1>7, <1>8

\* Posting a receive fails only when the connection is lost.
LEMMA ListenPosts ==
  ASSUME Typed, ListenState, NEW t \in Threads,
         OnAccepted(t) \/ CompleteRecvPart(t) \/ RepostRecv(t)
  PROVE  ListenState'
<1>1. port' = port /\ sock' = sock
  BY DEF OnAccepted, CompleteRecvPart, RepostRecv, RecvAsync, ioVars, linkVars
<1>2. RecvsDone' = RecvsDone BY <1>1 DEF RecvsDone
<1>3. recvs' = recvs + 1 \/ sock = "reset"
  BY DEF OnAccepted, CompleteRecvPart, RepostRecv, RecvAsync, CallFails
<1>4. recvs \in Nat BY DEF Typed, TypeOK
<1>5. Listening' BY <1>1, <1>3, <1>4 DEF Listening
<1> QED BY <1>1, <1>2, <1>5 DEF ListenState

\* Every other step of a worker passes on what it received, unless it discards it.
LEMMA ListenOther ==
  ASSUME Typed, ListenState, NEW t \in Threads, CallSend(t) \/ Work(t), ~Dequeue(t),
         ~(OnAccepted(t) \/ CompleteRecvPart(t) \/ RepostRecv(t)), ~DiscardPacket(t)
  PROVE  ListenState'
<1>1. UNCHANGED <<recvs, port, sock>> BY UnreceivingSteps, RecvTypesHold DEF Unreceiving
<1>2. RecvsDone' = RecvsDone BY <1>1 DEF RecvsDone
<1>3. pc \in [Threads -> Steps] /\ ret \in [Threads -> Callers] BY DEF Typed, TypeOK
<1>4. (\A u \in Threads : HoldsRecv(u) => HoldsRecv(u)') /\ (inSet' => inSet) /\ started' = started
  <2> USE DEF HoldsRecv, From, Goto, linkVars
  <2>1. CASE CallSend(t) BY <1>3, <2>1 DEF CallSend, Callers
  <2>2. CASE OnDisconnected(t) BY <1>3, <2>2 DEF OnDisconnected
  <2>3. CASE DeliverPacket(t) \/ HandlerReturns(t) BY <1>3, <2>3 DEF DeliverPacket, HandlerReturns
  <2>4. CASE SendEnter(t) \/ SendPack(t) \/ SendPost(t) \/ SendExit(t)
    BY <1>3, <2>4 DEF SendEnter, SendPack, SendPost, SendExit
  <2>5. CASE CompleteSend(t) \/ OnSendLock(t) \/ OnSendPop(t)
    BY <1>3, <2>5 DEF CompleteSend, OnSendLock, OnSendPop
  <2>6. CASE OnSendNext(t) \/ OnSendReturns(t) \/ OnSendUnlock(t)
    BY <1>3, <2>6 DEF OnSendNext, OnSendReturns, OnSendUnlock
  <2> QED BY <2>1, <2>2, <2>3, <2>4, <2>5, <2>6 DEF Work, Receiving, Sending, SendCompleted
<1> QED BY <1>1, <1>2, <1>4, ListenFrame DEF Receives

\* A client that never repeats a packet gives OnCompleteRecv nothing to discard.
LEMMA NothingDiscarded ==
  ASSUME Typed, RecvOrder, ~Duplicates, NEW t \in Threads
  PROVE  ~DiscardPacket(t)
<1> SUFFICES ASSUME DiscardPacket(t) PROVE FALSE OBVIOUS
<1>1. pc[t] = "recved" /\ cur[t].what = "whole" /\ cur[t].id < newRecvID
  BY DEF DiscardPacket, From, AlreadyHandled
<1>2. Brings(cur[t]) BY <1>1 DEF RecvOrder, HoldsRecv
<1>3. newRecvID = cur[t].id /\ newRecvID \in Nat BY <1>1, <1>2 DEF Brings, Typed, TypeOK
<1> QED BY <1>1, <1>3

LEMMA ListenStep ==
  ASSUME ~Duplicates, RecvInv, Unborn, ListenState, [Next]_vars
  PROVE  ListenState'
<1> USE DEF RecvInv
<1>1. CASE UNCHANGED vars
  <2>1. /\ RecvsDone' = RecvsDone /\ UNCHANGED <<recvs, linkVars, pc, ret>>
    BY <1>1 DEF vars, ioVars, RecvsDone
  <2>2. \A u \in Threads : HoldsRecv(u)' <=> HoldsRecv(u) BY <2>1 DEF HoldsRecv
  <2> QED BY <2>1, <2>2, ListenFrame DEF Receives, linkVars
<1>2. CASE DoFrame \/ PeerCloses \/ ConnectionLost \/ Kernel BY <1>2, ListenKernel DEF Unborn
<1>3. ASSUME NEW t \in Threads, CallSend(t) \/ Work(t) PROVE ListenState'
  BY <1>3, ListenDequeue, ListenPosts, ListenOther, NothingDiscarded
<1> QED BY <1>1, <1>2, <1>3 DEF Next

\* A session in the set goes on listening while its connection is open, if the
\* client repeats no packet (with one that does OnCompleteRecv stops, see the
\* repeated id in OnCompleteRecv): between a completed receive and the next one no
\* handler, Send included, loses the session.
THEOREM ListeningCorrect ==
  ASSUME ~Duplicates
  PROVE  Spec => []Listening
<1> DEFINE Inv == RecvInv /\ Unborn /\ ListenState
<1>1. Init => Inv
  <2>1. Init => Unborn BY DEF Init, Unborn
  <2> QED BY <2>1, LockingInit, TypedInit, RecvStateInit, RecvOrderInit, ListenInit DEF RecvInv
<1>2. Inv /\ [Next]_vars => Inv'
  BY LockingStep, TypedStep, RecvStateStep, RecvOrderStep, UnbornStep, ListenStep DEF RecvInv
<1>3. Inv => Listening BY DEF ListenState
<1> QED BY <1>1, <1>2, <1>3, PTL DEF Spec

-------------------------------------------------------------------------------
(* What the connection was given last *)

LastSent(k, n) ==
  /\ wire # <<>>
  /\ wire[Len(wire)].id = frontID[k]
  /\ wire[Len(wire)].to = n

\* The bytes a completion reports are the last ones on the connection; once the
\* packet is complete they were its last bytes.
WireState ==
  /\ \A e \in SendsDone : e.cb # 0 => LastSent(e.pkt, sendbytes[e.pkt] + e.cb)
  /\ \A t \in Threads : pc[t] = "sended" => LastSent(cur[t].pkt, sendbytes[cur[t].pkt] + cur[t].cb)
  /\ \A t \in Threads : pc[t] \in {"lock", "pop"} => LastSent(cur[t].pkt, PacketBytes)

\* A step that may post a packet, but neither sends nor counts bytes nor changes the queue.
Quiet ==
  /\ UNCHANGED <<queueVars, packetVars, wire>>
  /\ sock' # "reset" => sock # "reset"
  /\ SendsDone' = SendsDone
  /\ \A u \in Threads : /\ pc'[u] = "sended" <=> pc[u] = "sended"
                        /\ pc'[u] \in {"lock", "pop"} <=> pc[u] \in {"lock", "pop"}
                        /\ HoldsSend(u) => cur'[u] = cur[u]

LEMMA QuietKernel ==
  ASSUME DoFrame \/ PeerCloses \/ ConnectionLost \/ Kernel, ~SendCompletes, ~SendAborts
  PROVE  Quiet /\ inflight' = inflight
<1>1. SendsDone' = SendsDone
  BY DEF DoFrame, PeerCloses, ConnectionLost, Kernel, RecvPart, RecvWhole, RecvDuplicate, RecvEnd,
     RecvCompletes, SendsDone, ioVars
<1>2. /\ UNCHANGED <<queueVars, packetVars, wire, pc, cur, inflight>>
      /\ sock' # "reset" => sock # "reset"
  BY DEF DoFrame, PeerCloses, ConnectionLost, Kernel, RecvPart, RecvWhole, RecvDuplicate, RecvEnd,
     RecvCompletes, ioVars, linkVars
<1> QED BY <1>1, <1>2 DEF Quiet

LEMMA QuietWork ==
  ASSUME SendTypes, NEW t \in Threads, CallSend(t) \/ Work(t),
         ~(Dequeue(t) \/ SendPack(t) \/ CompleteSend(t) \/ OnSendPop(t))
  PROVE  Quiet
<1>1. SendsDone' = SendsDone
  <2>1. port' = port
    BY DEF CallSend, Work, OnAccepted, OnDisconnected, Receiving, CompleteRecvPart, DiscardPacket,
       DeliverPacket, HandlerReturns, RepostRecv, Sending, SendEnter, SendPost, SendExit,
       SendCompleted, OnSendLock, OnSendNext, OnSendReturns, OnSendUnlock, RecvAsync, SendAsync,
       ioVars
  <2> QED BY <2>1 DEF SendsDone
<1>2. UNCHANGED <<queueVars, packetVars, wire, sock>>
  BY DEF CallSend, Work, OnAccepted, OnDisconnected, Receiving, CompleteRecvPart, DiscardPacket,
     DeliverPacket, HandlerReturns, RepostRecv, Sending, SendEnter, SendPost, SendExit,
     SendCompleted, OnSendLock, OnSendNext, OnSendReturns, OnSendUnlock, RecvAsync, SendAsync,
     ioVars, linkVars
<1>3. /\ cur' = cur \/ (~HoldsSend(t) /\ cur' = [cur EXCEPT ![t] = NoCompletion])
      /\ \E s \in Steps : /\ pc' = [pc EXCEPT ![t] = s]
                          /\ s = "sended" <=> pc[t] = "sended"
                          /\ s \in {"lock", "pop"} <=> pc[t] \in {"lock", "pop"}
  <2> USE DEF From, Goto, Steps, Callers, HoldsSend, SendTypes
  <2>1. CASE CallSend(t) \/ OnAccepted(t) \/ OnDisconnected(t)
    BY <2>1 DEF CallSend, OnAccepted, OnDisconnected
  <2>2. CASE CompleteRecvPart(t) \/ DiscardPacket(t) \/ DeliverPacket(t)
    BY <2>2 DEF CompleteRecvPart, DiscardPacket, DeliverPacket
  <2>3. CASE HandlerReturns(t) \/ RepostRecv(t) BY <2>3 DEF HandlerReturns, RepostRecv
  <2>4. CASE SendEnter(t) \/ SendPost(t) BY <2>4 DEF SendEnter, SendPost
  <2>5. CASE SendExit(t) BY <2>5 DEF SendExit
  <2>6. CASE OnSendLock(t) \/ OnSendNext(t) BY <2>6 DEF OnSendLock, OnSendNext
  <2>7. CASE OnSendReturns(t) \/ OnSendUnlock(t) BY <2>7 DEF OnSendReturns, OnSendUnlock
  <2> QED BY <2>1, <2>2, <2>3, <2>4, <2>5, <2>6, <2>7 DEF Work, Receiving, Sending, SendCompleted
<1> QED BY <1>1, <1>2, <1>3 DEF Quiet, SendTypes, HoldsSend

LEMMA WireStateQuiet ==
  ASSUME WireState, Quiet
  PROVE  WireState'
<1>1. \A k, n : LastSent(k, n)' <=> LastSent(k, n) BY DEF LastSent, Quiet, packetVars
<1>2. sendbytes' = sendbytes BY DEF Quiet, packetVars
<1>3. \A e \in SendsDone' : e.cb # 0 => LastSent(e.pkt, sendbytes[e.pkt] + e.cb)'
  BY <1>1, <1>2 DEF WireState, Quiet
<1>4. ASSUME NEW u \in Threads
      PROVE  /\ pc'[u] = "sended" => LastSent(cur[u].pkt, sendbytes[cur[u].pkt] + cur[u].cb)'
             /\ pc'[u] \in {"lock", "pop"} => LastSent(cur[u].pkt, PacketBytes)'
  BY <1>2 DEF WireState, Quiet, HoldsSend, LastSent, packetVars
<1> QED BY <1>3, <1>4 DEF WireState

LEMMA LastOfAppend ==
  ASSUME NEW S, NEW s \in Seq(S), NEW c \in S
  PROVE  Append(s, c) # <<>> /\ Append(s, c)[Len(Append(s, c))] = c
OBVIOUS

\* The connection takes bytes of the only send at work, or refuses them.
LEMMA WireStateKernel ==
  ASSUME Typed, SendState, WireState, SendCompletes \/ SendAborts
  PROVE  WireState'
<1>1. inflight # <<>> /\ pc' = pc /\ cur' = cur BY DEF SendCompletes, SendAborts
<1>2. SendsDone = {} /\ \A u \in Threads : ~HoldsSend(u) BY <1>1 DEF SendState, OneSend
<1>3. \A u \in Threads : pc'[u] \notin {"sended", "lock", "pop"} BY <1>1, <1>2 DEF HoldsSend
<1>4. PICK e : /\ e.kind = "send" /\ port' = port \cup {e}
               /\ e.cb # 0 => LastSent(e.pkt, sendbytes[e.pkt] + e.cb)'
  <2>1. CASE SendAborts
    <3>1. PICK f : f = [kind |-> "send", pkt |-> Head(inflight), cb |-> 0] OBVIOUS
    <3>2. f.kind = "send" /\ f.cb = 0 /\ port' = port \cup {f} BY <2>1, <3>1 DEF SendAborts
    <3> QED BY <3>2
  <2>2. CASE SendCompletes
    <3> DEFINE k == Head(inflight)
    <3>1. PICK n \in 1 .. (PacketBytes - sendbytes[k]) :
            /\ wire' = Append(wire, [id |-> frontID[k], from |-> sendbytes[k],
                                     to |-> sendbytes[k] + n])
            /\ port' = port \cup {[kind |-> "send", pkt |-> k, cb |-> n]}
      BY <2>2 DEF SendCompletes
    <3>2. UNCHANGED <<frontID, sendbytes>> BY <2>2 DEF SendCompletes, packetVars
    <3>3. /\ wire \in Seq([id : Nat, from : Nat, to : Nat])
          /\ frontID[k] \in Nat /\ sendbytes[k] \in Nat /\ n \in Nat
      BY <1>1 DEF Typed, TypeOK
    <3>4. /\ wire' # <<>> /\ wire'[Len(wire')].id = frontID[k]
          /\ wire'[Len(wire')].to = sendbytes[k] + n
      <4>1. PICK c : c = [id |-> frontID[k], from |-> sendbytes[k], to |-> sendbytes[k] + n]
        OBVIOUS
      <4>2. c \in [id : Nat, from : Nat, to : Nat] /\ c.id = frontID[k] /\ c.to = sendbytes[k] + n
        BY <3>3, <4>1
      <4>3. wire' = Append(wire, c) BY <3>1, <4>1
      <4> QED BY <3>3, <4>2, <4>3, LastOfAppend, SMTT(30)
    <3>5. PICK f : f = [kind |-> "send", pkt |-> k, cb |-> n] OBVIOUS
    <3>6. f.kind = "send" /\ f.pkt = k /\ f.cb = n /\ port' = port \cup {f} BY <3>1, <3>5
    <3>7. LastSent(f.pkt, sendbytes[f.pkt] + f.cb)' BY <3>2, <3>4, <3>6 DEF LastSent
    <3> QED BY <3>6, <3>7
  <2> QED BY <2>1, <2>2
<1>5. SendsDone' = {e} BY <1>2, <1>4 DEF SendsDone
<1> QED BY <1>3, <1>4, <1>5 DEF WireState

LEMMA WireStateDequeue ==
  ASSUME SendTypes, WireState, NEW t \in Threads, Dequeue(t)
  PROVE  WireState'
<1>1. PICK e \in port : Take(t, e) BY DEF Dequeue
<1>2. /\ pc[t] = "wait" /\ port' = port \ {e} /\ UNCHANGED <<sendbytes, frontID, wire>>
      /\ cur' = [cur EXCEPT ![t] = e] /\ pc' = [pc EXCEPT ![t] = Dispatch(e)]
  BY <1>1 DEF Take, From, Goto, packetVars
<1>3. /\ Dispatch(e) \in {"accept", "recved", "sended", "drop"}
      /\ Dispatch(e) = "sended" => e.kind = "send" /\ e.cb # 0
  BY DEF Dispatch
<1>4. \A k, n : LastSent(k, n)' <=> LastSent(k, n) BY <1>2 DEF LastSent
<1>5. \A x \in SendsDone' : x.cb # 0 => LastSent(x.pkt, sendbytes[x.pkt] + x.cb)'
  BY <1>2, <1>4 DEF WireState, SendsDone
<1>6. ASSUME NEW u \in Threads
      PROVE  /\ pc'[u] = "sended" => LastSent(cur[u].pkt, sendbytes[cur[u].pkt] + cur[u].cb)'
             /\ pc'[u] \in {"lock", "pop"} => LastSent(cur[u].pkt, PacketBytes)'
  <2>1. CASE u = t
    <3>1. cur'[u] = e /\ pc'[u] = Dispatch(e) BY <1>2, <2>1 DEF SendTypes
    <3>2. Dispatch(e) = "sended" => LastSent(e.pkt, sendbytes[e.pkt] + e.cb)
      BY <1>3 DEF WireState, SendsDone
    <3> QED BY <1>2, <1>3, <3>1, <3>2 DEF LastSent
  <2>2. CASE u # t
    <3>1. cur'[u] = cur[u] /\ pc'[u] = pc[u] BY <1>2, <2>2 DEF SendTypes
    <3> QED BY <1>2, <3>1 DEF LastSent, WireState
  <2> QED BY <2>1, <2>2
<1> QED BY <1>5, <1>6 DEF WireState

\* What Send takes from the pool is not the front of the queue, which is being sent.
LEMMA TakenIsNew ==
  ASSUME PoolState, NEW t \in Threads, SendPack(t)
  PROVE  \E k \in SendPackets :
           /\ pool # <<>> /\ k = Head(pool) /\ pool' = Tail(pool)
           /\ Packing(k, newSendID)
           /\ sendbytes' = [sendbytes EXCEPT ![k] = 0]
           /\ sendQ' = Append(sendQ, k)
           /\ \A i \in 1 .. Len(sendQ) : sendQ[i] # k
           /\ sendQ # <<>> => Head(sendQ) # k
<1>1. PICK k \in SendPackets : /\ TakeFromPool(k) /\ Packing(k, newSendID)
                               /\ sendbytes' = [sendbytes EXCEPT ![k] = 0]
                               /\ sendQ' = Append(sendQ, k)
  BY DEF SendPack
<1>2. pool # <<>> /\ k = pool[1] /\ 1 \in 1 .. Len(pool) BY <1>1 DEF TakeFromPool, PoolState
<1>3. \A i \in 1 .. Len(sendQ) : sendQ[i] # k BY <1>2 DEF PoolState, PoolDisjoint
<1>4. sendQ # <<>> => Head(sendQ) = sendQ[1] /\ 1 \in 1 .. Len(sendQ) BY DEF PoolState
<1> QED BY <1>1, <1>3, <1>4 DEF TakeFromPool

LEMMA WireStatePack ==
  ASSUME Typed, SendState, PoolState, WireState, NEW t \in Threads, SendPack(t)
  PROVE  WireState'
<1>1. PICK k \in SendPackets : /\ Packing(k, newSendID)
                               /\ sendbytes' = [sendbytes EXCEPT ![k] = 0]
                               /\ sendQ # <<>> => Head(sendQ) # k
  BY TakenIsNew
<1>2. /\ pc[t] = "pack" /\ pc' = [pc EXCEPT ![t] = "post"] /\ UNCHANGED <<wire, cur, port>>
  BY DEF SendPack, From, Goto, ioVars
<1>3. SendsDone' = SendsDone BY <1>2 DEF SendsDone
<1>4. /\ frontID \in [SendPackets -> Nat] /\ sendbytes \in [SendPackets -> Nat]
      /\ pc \in [Threads -> Steps] /\ port \subseteq Completion /\ CurOK
  BY DEF Typed, TypeOK
<1>5. \A p \in SendPackets : p # k => frontID'[p] = frontID[p] /\ sendbytes'[p] = sendbytes[p]
  BY <1>1, <1>4 DEF Packing
<1>6. ASSUME NEW e \in SendsDone
      PROVE  e.cb # 0 => LastSent(e.pkt, sendbytes[e.pkt] + e.cb)'
  <2>1. e.pkt # k /\ e.pkt \in SendPackets
    BY <1>1, <1>4 DEF SendState, SendsFront, SendsDone, Completion, Accepted, RecvDone, SendDone
  <2> QED BY <1>2, <1>5, <2>1 DEF WireState, LastSent
<1>7. ASSUME NEW u \in Threads, HoldsSend(u)'
      PROVE  /\ pc'[u] = "sended" => LastSent(cur[u].pkt, sendbytes[cur[u].pkt] + cur[u].cb)'
             /\ pc'[u] \in {"lock", "pop"} => LastSent(cur[u].pkt, PacketBytes)'
  <2>1. pc'[u] = pc[u] /\ HoldsSend(u) BY <1>2, <1>4, <1>7 DEF HoldsSend
  <2>2. cur[u].pkt # k /\ cur[u].pkt \in SendPackets
    BY <1>1, <1>4, <2>1 DEF SendState, SendsFront, CurOK, HoldsSend, SendDone
  <2> QED BY <1>2, <1>5, <2>1, <2>2 DEF WireState, LastSent
<1> QED BY <1>3, <1>6, <1>7 DEF WireState, HoldsSend

\* The worker that completes the only send counts it and, if that is all, keeps it.
LEMMA WireStateComplete ==
  ASSUME Typed, SendState, WireState, NEW t \in Threads, CompleteSend(t)
  PROVE  WireState'
<1>1. /\ pc[t] = "sended" /\ UNCHANGED <<port, frontID, wire>>
      /\ \/ /\ sendbytes[cur[t].pkt] + cur[t].cb = PacketBytes
            /\ pc' = [pc EXCEPT ![t] = "lock"] /\ cur' = cur
         \/ pc' = [pc EXCEPT ![t] = "wait"]
         \/ pc' = [pc EXCEPT ![t] = "drop"]
  BY DEF CompleteSend, From, Goto, SentAll, SendAsync, ioVars
<1>2. SendsDone = {} /\ \A u \in Threads : HoldsSend(u) => u = t
  BY <1>1 DEF SendState, OneSend, HoldsSend
<1>3. SendsDone' = {} BY <1>1, <1>2 DEF SendsDone
<1>4. pc \in [Threads -> Steps] BY DEF Typed, TypeOK
<1>5. LastSent(cur[t].pkt, sendbytes[cur[t].pkt] + cur[t].cb) BY <1>1 DEF WireState
<1>6. ASSUME NEW u \in Threads, HoldsSend(u)'
      PROVE  pc'[u] = "lock" /\ LastSent(cur[u].pkt, PacketBytes)'
  BY <1>1, <1>2, <1>4, <1>5, <1>6 DEF HoldsSend, LastSent
<1> QED BY <1>3, <1>6 DEF WireState, HoldsSend

LEMMA WireStatePop ==
  ASSUME Typed, SendState, NEW t \in Threads, OnSendPop(t)
  PROVE  WireState'
<1>1. pc[t] = "pop" /\ port' = port /\ pc' = [pc EXCEPT ![t] = "next"]
  BY DEF OnSendPop, From, Goto, ioVars
<1>2. SendsDone = {} /\ \A u \in Threads : HoldsSend(u) => u = t
  BY <1>1 DEF SendState, OneSend, HoldsSend
<1>3. SendsDone' = {} BY <1>1, <1>2 DEF SendsDone
<1>4. \A u \in Threads : ~HoldsSend(u)' BY <1>1, <1>2 DEF HoldsSend, Typed, TypeOK
<1> QED BY <1>3, <1>4 DEF WireState, HoldsSend

LEMMA WireStateStep ==
  Typed /\ SendState /\ PoolState /\ WireState /\ [Next]_vars => WireState'
<1> SUFFICES ASSUME Typed, SendState, PoolState, WireState, [Next]_vars PROVE WireState' OBVIOUS
<1>1. CASE UNCHANGED vars
  <2>1. SendsDone' = SendsDone BY <1>1 DEF vars, ioVars, SendsDone
  <2> QED BY <1>1, <2>1, WireStateQuiet DEF Quiet, vars, ioVars, linkVars
<1>2. CASE DoFrame \/ PeerCloses \/ ConnectionLost \/ Kernel
  BY <1>2, QuietKernel, WireStateQuiet, WireStateKernel
<1>3. ASSUME NEW t \in Threads, CallSend(t) \/ Work(t) PROVE WireState'
  BY <1>3, SendTypesHold, QuietWork, WireStateQuiet, WireStateDequeue, WireStatePack,
     WireStateComplete, WireStatePop
<1> QED BY <1>1, <1>2, <1>3 DEF Next

SendInv == Locking /\ Typed /\ SendState /\ PoolState /\ WireState

LEMMA SendInvHolds == Spec => []SendInv
<1>1. Init => WireState BY DEF Init, WireState, SendsDone
<1>2. Init => SendInv
  BY <1>1, LockingInit, TypedInit, SendStateInit, PoolInit DEF SendInv
<1>3. SendInv /\ [Next]_vars => SendInv'
  BY LockingStep, TypedStep, SendStateStep, PoolStep, WireStateStep DEF SendInv
<1> QED BY <1>2, <1>3, PTL DEF Spec

\* Only OnCompleteSend makes the queue shorter.
LEMMA OnlyPopShortens ==
  ASSUME Typed, PoolState, [Next]_vars, Len(sendQ') < Len(sendQ)
  PROVE  \E t \in Threads : OnSendPop(t)
<1> SUFFICES ASSUME \A t \in Threads : ~OnSendPop(t) PROVE FALSE OBVIOUS
<1>1. sendQ' # sendQ OBVIOUS
<1>2. \A t \in Threads : ~SendPack(t)
  <2> SUFFICES ASSUME NEW t \in Threads, SendPack(t) PROVE FALSE OBVIOUS
  <2>1. PICK k \in SendPackets : sendQ' = Append(sendQ, k) BY DEF SendPack
  <2>2. Len(sendQ') = Len(sendQ) + 1 /\ Len(sendQ) \in Nat BY <2>1 DEF PoolState
  <2> QED BY <2>2
<1>3. \A t \in Threads : ~CompleteSend(t) BY <1>1 DEF CompleteSend, queueVars
<1>4. \A t \in Threads : ~Dequeue(t) BY <1>1 DEF Dequeue, Take, queueVars
<1>5. ~SendCompletes /\ ~SendAborts BY <1>1 DEF SendCompletes, SendAborts, queueVars
<1>6. ~Quiet BY <1>1 DEF Quiet, queueVars
<1> QED BY <1>1, <1>2, <1>3, <1>4, <1>5, <1>6, SendTypesHold, QuietWork, QuietKernel
        DEF Next, vars, queueVars

\* OnCompleteSend pops a packet only when its last byte was given to the connection,
\* for any number of workers and for packets of any size, sent in any pieces: what a
\* worker counted outside m_cs is still true when it pops inside.
THEOREM PopsWhenSentCorrect == Spec => PopsWhenSent
<1>1. ASSUME SendInv, [Next]_vars, sendQ # <<>>, Len(sendQ') < Len(sendQ)
      PROVE  \E i \in 1 .. Len(wire) : wire[i].id = frontID[Head(sendQ)] /\ wire[i].to = PacketBytes
  <2>1. PICK t \in Threads : OnSendPop(t) BY <1>1, OnlyPopShortens DEF SendInv
  <2>2. pc[t] = "pop" BY <2>1 DEF OnSendPop, From
  <2>3. LastSent(cur[t].pkt, PacketBytes) BY <1>1, <2>2 DEF SendInv, WireState
  <2>4. cur[t].pkt = Head(sendQ) BY <1>1, <2>2 DEF SendInv, SendState, SendsFront, HoldsSend
  <2>5. wire \in Seq([id : Nat, from : Nat, to : Nat]) BY <1>1 DEF SendInv, Typed, TypeOK
  <2>6. Len(wire) \in 1 .. Len(wire) BY <2>3, <2>5 DEF LastSent
  <2> QED BY <2>3, <2>4, <2>6 DEF LastSent
<1>2. SendInv /\ [Next]_vars =>
        [sendQ # <<>> /\ Len(sendQ') < Len(sendQ) =>
           \E i \in 1 .. Len(wire) : wire[i].id = frontID[Head(sendQ)] /\ wire[i].to = PacketBytes]_vars
  BY <1>1
<1> QED BY <1>2, SendInvHolds, PTL DEF Spec, PopsWhenSent

-------------------------------------------------------------------------------
(* The stream of packets *)

\* The id of the packet in front, or of the next packet if there is none.
FirstID == newSendID - Len(sendQ)

Numbered ==
  /\ Len(sendQ) < newSendID
  /\ \A i \in 1 .. Len(sendQ) : packetID[sendQ[i]] = FirstID + i - 1
  /\ \A i \in 2 .. Len(sendQ) : sendbytes[sendQ[i]] = 0

\* The connection has the bytes of every packet before the front, and of the front
\* those that its counter counts, a completed send that was not counted yet included.
StreamState ==
  sock # "reset" =>
    /\ inflight # <<>> =>
         /\ sendbytes[Head(sendQ)] < PacketBytes
         /\ Stream!NextByte = [id |-> FirstID, from |-> sendbytes[Head(sendQ)]]
    /\ \A e \in SendsDone : e.cb # 0
    /\ SendsDone # {} \/ (\E t \in Threads : HoldsSend(t)) =>
         wire[Len(wire)].id = FirstID /\ wire[Len(wire)].to <= PacketBytes
    /\ Silent => /\ Stream!NextByte = [id |-> FirstID, from |-> 0]
                 /\ sendQ # <<>> => sendbytes[Head(sendQ)] = 0

NumberedInv == Typed /\ PoolState /\ Numbered

\* The elements of a queue after push and after pop.
LEMMA QueueElements ==
  ASSUME NEW S, NEW q \in Seq(S), NEW k \in S
  PROVE  /\ Len(q) \in Nat
         /\ Len(Append(q, k)) = Len(q) + 1
         /\ \A i \in 1 .. Len(q) + 1 : Append(q, k)[i] = IF i <= Len(q) THEN q[i] ELSE k
         /\ q # <<>> => /\ Head(q) = q[1] /\ Len(q) >= 1 /\ Len(Tail(q)) = Len(q) - 1
                        /\ \A i \in 1 .. Len(q) - 1 : Tail(q)[i] = q[i + 1]
OBVIOUS

LEMMA NumberedStep ==
  ASSUME SendState, NumberedInv, [Next]_vars
  PROVE  Numbered'
<1>1. CASE UNCHANGED <<sendQ, newSendID, packetID, sendbytes>> BY <1>1 DEF NumberedInv, Numbered, FirstID
<1>2. /\ sendQ \in Seq(SendPackets) /\ newSendID \in Nat /\ Len(sendQ) \in Nat
      /\ packetID \in [SendPackets -> Nat] /\ sendbytes \in [SendPackets -> Nat]
      /\ \A i \in 1 .. Len(sendQ) : sendQ[i] \in SendPackets
  BY DEF NumberedInv, Typed, TypeOK
<1> USE DEF NumberedInv
<1>3. ASSUME NEW t \in Threads, SendPack(t) PROVE Numbered'
  <2>1. PICK k \in SendPackets :
          /\ Packing(k, newSendID) /\ sendbytes' = [sendbytes EXCEPT ![k] = 0]
          /\ sendQ' = Append(sendQ, k) /\ \A i \in 1 .. Len(sendQ) : sendQ[i] # k
    BY <1>3, TakenIsNew
  <2>2. newSendID' = newSendID + 1 BY <1>3 DEF SendPack
  <2>3. /\ Len(sendQ') = Len(sendQ) + 1
        /\ \A i \in 1 .. Len(sendQ') : sendQ'[i] = IF i <= Len(sendQ) THEN sendQ[i] ELSE k
    BY <1>2, <2>1, QueueElements
  <2>4. packetID' = [packetID EXCEPT ![k] = newSendID] BY <2>1 DEF Packing
  <2>5. FirstID' = FirstID BY <1>2, <2>2, <2>3 DEF FirstID
  <2>6. ASSUME NEW i \in 1 .. Len(sendQ')
        PROVE  /\ packetID'[sendQ'[i]] = FirstID + i - 1
               /\ i >= 2 => sendbytes'[sendQ'[i]] = 0
    <3>1. CASE i <= Len(sendQ)
      <4>1. /\ sendQ'[i] = sendQ[i] /\ sendQ[i] # k /\ sendQ[i] \in SendPackets
            /\ i \in 1 .. Len(sendQ)
        BY <1>2, <2>1, <2>3, <3>1
      <4> QED BY <1>2, <2>1, <2>4, <4>1 DEF Numbered
    <3>2. CASE i = Len(sendQ) + 1
      BY <1>2, <2>1, <2>3, <2>4, <3>2 DEF FirstID
    <3> QED BY <1>2, <2>3, <3>1, <3>2
  <2>7. Len(sendQ') < newSendID' BY <1>2, <2>2, <2>3 DEF Numbered
  <2>8. \A i \in 2 .. Len(sendQ') : i \in 1 .. Len(sendQ') /\ i >= 2 BY <1>2, <2>3
  <2> QED BY <2>5, <2>6, <2>7, <2>8 DEF Numbered
<1>4. ASSUME NEW t \in Threads, CompleteSend(t) PROVE Numbered'
  <2>1. UNCHANGED <<sendQ, newSendID, packetID>> BY <1>4 DEF CompleteSend, queueVars
  <2>2. sendQ # <<>> /\ cur[t].pkt = Head(sendQ)
    BY <1>4 DEF CompleteSend, From, SendState, SendsFront, HoldsSend
  <2>3. \A p \in SendPackets : p # Head(sendQ) => sendbytes'[p] = sendbytes[p]
    BY <1>2, <1>4, <2>2 DEF CompleteSend
  <2>4. \A i \in 2 .. Len(sendQ) : sendQ[i] # Head(sendQ) /\ sendQ[i] \in SendPackets
    <3>1. Head(sendQ) = sendQ[1] BY <1>2, <2>2
    <3>2. \A i \in 2 .. Len(sendQ) : i \in 1 .. Len(sendQ) /\ 1 \in 1 .. Len(sendQ) /\ i # 1
      BY <1>2
    <3> QED BY <1>2, <3>1, <3>2 DEF PoolState
  <2> QED BY <2>1, <2>3, <2>4 DEF Numbered, FirstID
<1>5. ASSUME NEW t \in Threads, OnSendPop(t) PROVE Numbered'
  <2>1. /\ sendQ # <<>> /\ sendQ' = Tail(sendQ) /\ UNCHANGED <<newSendID, packetID>>
        /\ sendbytes' = [sendbytes EXCEPT ![Head(sendQ)] = 0]
    BY <1>5 DEF OnSendPop
  <2>2. /\ Len(sendQ) >= 1 /\ Len(sendQ') = Len(sendQ) - 1
        /\ \A i \in 1 .. Len(sendQ') : sendQ'[i] = sendQ[i + 1]
    BY <1>2, <2>1
  <2>3. FirstID' = FirstID + 1 BY <1>2, <2>1, <2>2 DEF FirstID
  <2>4. ASSUME NEW i \in 1 .. Len(sendQ')
        PROVE  packetID'[sendQ'[i]] = FirstID + i /\ sendbytes'[sendQ'[i]] = 0
    <3>1. i + 1 \in 1 .. Len(sendQ) /\ i + 1 \in 2 .. Len(sendQ) BY <1>2, <2>2
    <3>2. sendQ[i + 1] \in SendPackets /\ sendbytes[sendQ[i + 1]] = 0
      BY <1>2, <3>1 DEF Numbered
    <3>3. packetID[sendQ[i + 1]] = FirstID + (i + 1) - 1 BY <3>1 DEF Numbered
    <3>4. FirstID \in Int /\ FirstID + (i + 1) - 1 = FirstID + i
      BY <1>2 DEF FirstID
    <3>5. sendQ'[i] = sendQ[i + 1] BY <2>2
    <3> QED BY <1>2, <2>1, <3>2, <3>3, <3>4, <3>5
  <2>5. Len(sendQ') < newSendID' BY <1>2, <2>1, <2>2 DEF Numbered
  <2>6. \A i \in 1 .. Len(sendQ') : FirstID + i = FirstID' + i - 1
    BY <1>2, <2>3, <2>2 DEF FirstID
  <2>7. \A i \in 2 .. Len(sendQ') : i \in 1 .. Len(sendQ') BY <1>2, <2>2
  <2> QED BY <2>4, <2>5, <2>6, <2>7 DEF Numbered
<1>6. CASE DoFrame \/ PeerCloses \/ ConnectionLost \/ Kernel
  BY <1>1, <1>6, QuietKernel DEF Quiet, queueVars, packetVars, SendCompletes, SendAborts
<1>7. ASSUME NEW t \in Threads, Dequeue(t) PROVE Numbered'
  BY <1>1, <1>7 DEF Dequeue, Take, queueVars, packetVars
<1>8. ASSUME NEW t \in Threads, CallSend(t) \/ Work(t),
             ~(Dequeue(t) \/ SendPack(t) \/ CompleteSend(t) \/ OnSendPop(t))
      PROVE  Numbered'
  BY <1>1, <1>8, QuietWork, SendTypesHold DEF Quiet, queueVars, packetVars
<1>9. CASE UNCHANGED vars BY <1>1, <1>9 DEF vars, queueVars, packetVars
<1> QED BY <1>3, <1>4, <1>5, <1>6, <1>7, <1>8, <1>9 DEF Next

LEMMA StreamQuiet ==
  ASSUME StreamState, Quiet, inflight' = inflight
  PROVE  StreamState'
<1> SUFFICES ASSUME sock' # "reset" PROVE StreamState' BY DEF StreamState
<1>1. sock # "reset" BY DEF Quiet
<1>2. /\ UNCHANGED <<sendQ, newSendID, sendbytes, wire>> /\ SendsDone' = SendsDone
      /\ \A u \in Threads : HoldsSend(u)' <=> HoldsSend(u)
  BY DEF Quiet, queueVars, packetVars, HoldsSend
<1>3. FirstID' = FirstID /\ Stream!NextByte' = Stream!NextByte
  BY <1>2 DEF FirstID, Stream!NextByte
<1>4. Silent' <=> Silent BY <1>2 DEF Silent
<1> QED BY <1>1, <1>2, <1>3, <1>4 DEF StreamState

\* Send and OnCompleteSend post the front when nothing is being sent.
LEMMA StreamPosted ==
  ASSUME StreamState, Quiet, Silent, sendQ # <<>>, inflight' = Append(<<>>, Head(sendQ))
  PROVE  StreamState'
<1> SUFFICES ASSUME sock' # "reset" PROVE StreamState' BY DEF StreamState
<1>1. sock # "reset" BY DEF Quiet
<1>2. /\ UNCHANGED <<sendQ, newSendID, sendbytes, wire>> /\ SendsDone' = {}
      /\ \A u \in Threads : ~HoldsSend(u)'
  BY DEF Quiet, queueVars, packetVars, HoldsSend, Silent
<1>3. FirstID' = FirstID /\ Stream!NextByte' = Stream!NextByte
  BY <1>2 DEF FirstID, Stream!NextByte
<1>4. ~Silent' /\ inflight' # <<>> BY DEF Silent
<1>5. sendbytes[Head(sendQ)] = 0 /\ Stream!NextByte = [id |-> FirstID, from |-> 0]
  BY <1>1 DEF StreamState
<1> QED BY <1>2, <1>3, <1>4, <1>5, SessionAssumption DEF StreamState, SessionAssumption

LEMMA StreamPosts ==
  ASSUME SendTypes, SendState, StreamState, NEW t \in Threads, SendPost(t) \/ OnSendNext(t)
  PROVE  StreamState'
<1>1. Quiet BY QuietWork DEF SendPost, OnSendNext, From, Work, Sending, SendCompleted, Dequeue, Take,
               SendPack, CompleteSend, OnSendPop
<1>2. CASE UNCHANGED ioVars BY <1>1, <1>2, StreamQuiet DEF ioVars
<1>3. CASE SendPost(t) /\ OnlyPacket /\ SendAsync(NextPacket)
  <2>1. Silent /\ sendQ # <<>> BY <1>3 DEF SendPost, From, SendState, OnlyPacket
  <2>2. inflight' = Append(<<>>, Head(sendQ)) BY <1>3, <2>1 DEF SendAsync, NextPacket, Silent
  <2> QED BY <1>1, <2>1, <2>2, StreamPosted
<1>4. CASE OnSendNext(t) /\ MorePackets /\ SendAsync(NextPacket)
  <2>1. Silent /\ sendQ # <<>> BY <1>4 DEF OnSendNext, From, SendState, MorePackets
  <2>2. inflight' = Append(<<>>, Head(sendQ)) BY <1>4, <2>1 DEF SendAsync, NextPacket, Silent
  <2> QED BY <1>1, <2>1, <2>2, StreamPosted
<1> QED BY <1>2, <1>3, <1>4 DEF SendPost, OnSendNext

\* The chunk that the connection takes begins at the next byte of the stream.
LEMMA EmitsNext ==
  ASSUME Typed, SendState, Numbered, StreamState, OwnBytes, SendCompletes
  PROVE  \E n \in Nat \ {0} : \E c \in [id : Nat, from : Nat, to : Nat] :
           /\ c = [id |-> FirstID, from |-> sendbytes[Head(sendQ)],
                   to |-> sendbytes[Head(sendQ)] + n]
           /\ c.to <= PacketBytes
           /\ wire' = Append(wire, c)
           /\ SendsDone' = {[kind |-> "send", pkt |-> Head(sendQ), cb |-> n]}
           /\ sendQ # <<>> /\ sock # "reset"
<1> DEFINE k == Head(inflight)
<1>1. /\ inflight # <<>> /\ sock # "reset" /\ UNCHANGED <<pc, cur>>
      /\ \E n \in 1 .. (PacketBytes - sendbytes[k]) :
           /\ wire' = Append(wire, [id |-> frontID[k], from |-> sendbytes[k],
                                    to |-> sendbytes[k] + n])
           /\ port' = port \cup {[kind |-> "send", pkt |-> k, cb |-> n]}
  BY DEF SendCompletes
<1>2. k = Head(sendQ) /\ sendQ # <<>> /\ SendsDone = {} BY <1>1 DEF SendState, SendsFront, OneSend
<1>3. /\ sendQ \in Seq(SendPackets) /\ inflight \in Seq(SendPackets) /\ newSendID \in Nat
      /\ sendbytes[k] \in Nat /\ packetID[k] \in Nat
  BY <1>1 DEF Typed, TypeOK
<1>4. frontID[k] = FirstID
  <2>1. 1 \in 1 .. Len(inflight) /\ inflight[1] = k BY <1>1, <1>3
  <2>2. 1 \in 1 .. Len(sendQ) /\ sendQ[1] = k BY <1>2, <1>3
  <2>3. frontID[k] = packetID[k] BY <2>1 DEF OwnBytes
  <2>4. packetID[k] = FirstID + 1 - 1 BY <2>2 DEF Numbered
  <2> QED BY <1>3, <2>3, <2>4 DEF FirstID
<1>5. PICK n \in 1 .. (PacketBytes - sendbytes[k]) :
        /\ wire' = Append(wire, [id |-> FirstID, from |-> sendbytes[k], to |-> sendbytes[k] + n])
        /\ port' = port \cup {[kind |-> "send", pkt |-> k, cb |-> n]}
  BY <1>1, <1>4
<1>6. FirstID \in Nat /\ n \in Nat \ {0} /\ sendbytes[k] + n <= PacketBytes
  <2>1. FirstID \in Nat BY <1>3 DEF FirstID, Numbered
  <2>2. n \in Nat \ {0} /\ sendbytes[k] + n <= PacketBytes
    BY <1>3, <1>5, SessionAssumption DEF SessionAssumption
  <2> QED BY <2>1, <2>2
<1>7. SendsDone' = {[kind |-> "send", pkt |-> k, cb |-> n]} BY <1>2, <1>5 DEF SendsDone
<1>8. PICK c : c = [id |-> FirstID, from |-> sendbytes[k], to |-> sendbytes[k] + n] OBVIOUS
<1>9. c \in [id : Nat, from : Nat, to : Nat] /\ c.to <= PacketBytes /\ wire' = Append(wire, c)
  BY <1>3, <1>5, <1>6, <1>8
<1> QED BY <1>1, <1>2, <1>6, <1>7, <1>8, <1>9

LEMMA StreamKernel ==
  ASSUME Typed, SendState, Numbered, StreamState, OwnBytes, SendCompletes \/ SendAborts
  PROVE  StreamState'
<1>1. CASE SendAborts BY <1>1 DEF SendAborts, StreamState, linkVars
<1>2. CASE SendCompletes
  <2>1. PICK n \in Nat \ {0} : \E c \in [id : Nat, from : Nat, to : Nat] :
           /\ c = [id |-> FirstID, from |-> sendbytes[Head(sendQ)],
                   to |-> sendbytes[Head(sendQ)] + n]
           /\ c.to <= PacketBytes
           /\ wire' = Append(wire, c)
           /\ SendsDone' = {[kind |-> "send", pkt |-> Head(sendQ), cb |-> n]}
    BY <1>2, EmitsNext
  <2>2. PICK c \in [id : Nat, from : Nat, to : Nat] :
           c.id = FirstID /\ c.to <= PacketBytes /\ wire' = Append(wire, c)
    BY <2>1
  <2>3. wire'[Len(wire')] = c
    BY <2>2, LastOfAppend DEF Typed, TypeOK
  <2>4. inflight' = <<>> /\ UNCHANGED <<newSendID, sendQ>>
    <3>1. inflight # <<>> /\ inflight' = Tail(inflight) /\ UNCHANGED <<newSendID, sendQ>>
      BY <1>2 DEF SendCompletes, queueVars
    <3>2. Len(inflight) <= 1 /\ inflight \in Seq(SendPackets)
      BY DEF SendState, OneSend, Typed, TypeOK
    <3> QED BY <3>1, <3>2
  <2>5. FirstID' = FirstID BY <2>4 DEF FirstID
  <2>6. \A e \in SendsDone' : e.cb # 0 BY <2>1
  <2>7. ~Silent' BY <2>1 DEF Silent
  <2> QED BY <2>2, <2>3, <2>4, <2>5, <2>6, <2>7 DEF StreamState
<1> QED BY <1>1, <1>2

LEMMA StreamDequeue ==
  ASSUME SendTypes, SendState, StreamState, NEW t \in Threads, Dequeue(t)
  PROVE  StreamState'
<1>1. PICK e \in port : Take(t, e) BY DEF Dequeue
<1>2. /\ pc[t] = "wait" /\ port' = port \ {e}
      /\ UNCHANGED <<sock, queueVars, packetVars, inflight, wire>>
      /\ cur' = [cur EXCEPT ![t] = e] /\ pc' = [pc EXCEPT ![t] = Dispatch(e)]
  BY <1>1 DEF Take, From, Goto, linkVars
<1>3. CASE e.kind # "send"
  <2>1. SendsDone' = SendsDone BY <1>2, <1>3 DEF SendsDone
  <2>2. Dispatch(e) \notin {"sended", "lock", "pop"} BY <1>3 DEF Dispatch
  <2>3. Quiet BY <1>2, <2>1, <2>2 DEF Quiet, SendTypes, HoldsSend
  <2> QED BY <1>2, <2>3, StreamQuiet
<1>4. CASE e.kind = "send"
  <2> SUFFICES ASSUME sock' # "reset" PROVE StreamState' BY DEF StreamState
  <2>1. e \in SendsDone /\ SendsDone' \subseteq SendsDone BY <1>2, <1>4 DEF SendsDone
  <2>2. sock # "reset" /\ e.cb # 0 BY <1>2, <2>1 DEF StreamState
  <2>3. HoldsSend(t)' BY <1>2, <1>4, <2>2 DEF Dispatch, HoldsSend, SendTypes
  <2>4. inflight' = <<>> BY <1>2, <2>1 DEF SendState, OneSend
  <2>5. FirstID' = FirstID BY <1>2 DEF FirstID, queueVars
  <2>6. wire[Len(wire)].id = FirstID /\ wire[Len(wire)].to <= PacketBytes
    BY <2>1, <2>2 DEF StreamState
  <2>7. ~Silent' BY <2>3 DEF Silent
  <2> QED BY <1>2, <2>1, <2>2, <2>4, <2>5, <2>6, <2>7 DEF StreamState
<1> QED BY <1>3, <1>4

LEMMA StreamPack ==
  ASSUME Typed, SendState, PoolState, Numbered, StreamState, NEW t \in Threads, SendPack(t)
  PROVE  StreamState'
<1> SUFFICES ASSUME sock' # "reset" PROVE StreamState' BY DEF StreamState
<1>1. PICK k \in SendPackets : /\ sendbytes' = [sendbytes EXCEPT ![k] = 0]
                               /\ sendQ' = Append(sendQ, k)
                               /\ sendQ # <<>> => Head(sendQ) # k
  BY TakenIsNew
<1>2. /\ pc[t] = "pack" /\ pc' = [pc EXCEPT ![t] = "post"] /\ newSendID' = newSendID + 1
      /\ UNCHANGED <<sock, wire, cur, port, inflight>>
  BY DEF SendPack, From, Goto, ioVars, linkVars
<1>3. /\ sendQ \in Seq(SendPackets) /\ newSendID \in Nat /\ sendbytes \in [SendPackets -> Nat]
      /\ pc \in [Threads -> Steps]
  BY DEF Typed, TypeOK
<1>4. SendsDone' = SendsDone BY <1>2 DEF SendsDone
<1>5. \A u \in Threads : HoldsSend(u)' <=> HoldsSend(u) BY <1>2, <1>3 DEF HoldsSend
<1>6. Len(sendQ') = Len(sendQ) + 1 /\ Len(sendQ) \in Nat BY <1>1, <1>3, QueueElements
<1>7. FirstID' = FirstID BY <1>2, <1>3, <1>6 DEF FirstID
<1>8. Stream!NextByte' = Stream!NextByte BY <1>2 DEF Stream!NextByte
<1>9. Silent' <=> Silent BY <1>2, <1>4, <1>5 DEF Silent
<1>10. CASE sendQ = <<>>
  <2>1. Silent BY <1>10 DEF SendState, SendsFront, SendsDone, Silent
  <2>2. Head(sendQ') = k /\ sendbytes'[k] = 0 BY <1>1, <1>3, <1>10
  <2> QED BY <1>2, <1>4, <1>5, <1>7, <1>8, <1>9, <2>1, <2>2 DEF StreamState, Silent
<1>11. CASE sendQ # <<>>
  <2>1. Head(sendQ') = Head(sendQ) /\ Head(sendQ) \in SendPackets BY <1>1, <1>3, <1>11
  <2>2. sendbytes'[Head(sendQ)] = sendbytes[Head(sendQ)] BY <1>1, <1>3, <1>11, <2>1
  <2> QED BY <1>2, <1>4, <1>5, <1>7, <1>8, <1>9, <1>11, <2>1, <2>2 DEF StreamState
<1> QED BY <1>10, <1>11

\* What is left of a packet is posted again, from the byte after the last one sent.
LEMMA StreamComplete ==
  ASSUME Typed, SendState, WireState, StreamState, NEW t \in Threads, CompleteSend(t)
  PROVE  StreamState'
<1> SUFFICES ASSUME sock' # "reset" PROVE StreamState' BY DEF StreamState
<1> DEFINE k == cur[t].pkt
           n == sendbytes[k] + cur[t].cb
<1>1. /\ pc[t] = "sended" /\ UNCHANGED <<sock, wire, port, newSendID, sendQ>>
      /\ sendbytes' = [sendbytes EXCEPT ![k] = n]
  BY DEF CompleteSend, From, SendAsync, ioVars, linkVars, queueVars
<1>2. /\ inflight = <<>> /\ SendsDone = {} /\ sendQ # <<>> /\ k = Head(sendQ)
      /\ \A u \in Threads : HoldsSend(u) => u = t
  BY <1>1 DEF SendState, OneSend, SendsFront, HoldsSend
<1>3. wire # <<>> /\ wire[Len(wire)].to = n BY <1>1 DEF WireState, LastSent
<1>4. wire[Len(wire)].id = FirstID /\ n <= PacketBytes
  BY <1>1, <1>3 DEF StreamState, HoldsSend
<1>5. /\ k \in SendPackets /\ cur[t].cb \in Nat /\ sendbytes \in [SendPackets -> Nat]
      /\ pc \in [Threads -> Steps]
  BY <1>1 DEF Typed, TypeOK, CurOK, SendDone
<1>6. SendsDone' = {} /\ FirstID' = FirstID BY <1>1, <1>2 DEF SendsDone, FirstID
<1>7. CASE pc' = [pc EXCEPT ![t] = "lock"] /\ inflight' = inflight
  <2>1. HoldsSend(t)' BY <1>5, <1>7 DEF HoldsSend
  <2> QED BY <1>1, <1>2, <1>3, <1>4, <1>6, <1>7, <2>1 DEF StreamState, Silent
<1>8. CASE ~SentAll(n) /\ SendAsync(k) /\ pc' = [pc EXCEPT ![t] = "wait"]
  <2>1. n < PacketBytes BY <1>4, <1>5, <1>8, SessionAssumption DEF SentAll, SessionAssumption
  <2>2. Stream!NextByte' = [id |-> FirstID, from |-> n]
    BY <1>1, <1>3, <1>4, <2>1, SessionAssumption DEF Stream!NextByte, SessionAssumption
  <2>3. inflight' # <<>> BY <1>2, <1>8 DEF SendAsync
  <2>4. \A u \in Threads : ~HoldsSend(u)' BY <1>2, <1>5, <1>8 DEF HoldsSend
  <2>5. sendbytes'[Head(sendQ')] = n BY <1>1, <1>2, <1>5
  <2> QED BY <1>6, <2>1, <2>2, <2>3, <2>4, <2>5 DEF StreamState, Silent
<1>9. ~CallFails BY <1>1 DEF CallFails
<1> QED BY <1>7, <1>8, <1>9 DEF CompleteSend, Goto, ioVars

LEMMA StreamPop ==
  ASSUME Typed, SendState, Numbered, WireState, StreamState, NEW t \in Threads, OnSendPop(t)
  PROVE  StreamState'
<1> SUFFICES ASSUME sock' # "reset" PROVE StreamState' BY DEF StreamState
<1>1. /\ pc[t] = "pop" /\ pc' = [pc EXCEPT ![t] = "next"] /\ sendQ # <<>> /\ sendQ' = Tail(sendQ)
      /\ UNCHANGED <<sock, wire, port, inflight, newSendID>>
      /\ sendbytes' = [sendbytes EXCEPT ![Head(sendQ)] = 0]
  BY DEF OnSendPop, From, Goto, ioVars, linkVars
<1>2. /\ inflight = <<>> /\ SendsDone = {} /\ \A u \in Threads : HoldsSend(u) => u = t
  BY <1>1 DEF SendState, OneSend, HoldsSend
<1>3. wire # <<>> /\ wire[Len(wire)].to = PacketBytes BY <1>1 DEF WireState, LastSent
<1>4. wire[Len(wire)].id = FirstID BY <1>1 DEF StreamState, HoldsSend
<1>5. /\ sendQ \in Seq(SendPackets) /\ newSendID \in Nat /\ sendbytes \in [SendPackets -> Nat]
      /\ pc \in [Threads -> Steps]
  BY DEF Typed, TypeOK
<1>6. SendsDone' = {} /\ inflight' = <<>> /\ \A u \in Threads : ~HoldsSend(u)'
  BY <1>1, <1>2, <1>5 DEF SendsDone, HoldsSend
<1>7. FirstID' = FirstID + 1 BY <1>1, <1>5 DEF FirstID
<1>8. Stream!NextByte' = [id |-> FirstID', from |-> 0]
  BY <1>1, <1>3, <1>4, <1>7 DEF Stream!NextByte
<1>9. sendQ' # <<>> => sendbytes'[Head(sendQ')] = 0
  <2> SUFFICES ASSUME sendQ' # <<>> PROVE sendbytes'[Head(sendQ')] = 0 OBVIOUS
  <2>1. Head(sendQ') = sendQ[2] /\ 2 \in 2 .. Len(sendQ) /\ sendQ[2] \in SendPackets
    BY <1>1, <1>5
  <2>2. sendbytes[sendQ[2]] = 0 BY <2>1 DEF Numbered
  <2> QED BY <1>1, <1>5, <2>1, <2>2
<1> QED BY <1>6, <1>8, <1>9 DEF StreamState

LEMMA StreamStep ==
  ASSUME SendInv, Numbered, StreamState, OwnBytes, [Next]_vars
  PROVE  StreamState'
<1> USE DEF SendInv
<1>1. CASE UNCHANGED vars
  <2>1. SendsDone' = SendsDone BY <1>1 DEF vars, ioVars, SendsDone
  <2> QED BY <1>1, <2>1, StreamQuiet DEF Quiet, vars, ioVars, linkVars
<1>2. CASE DoFrame \/ PeerCloses \/ ConnectionLost \/ Kernel
  BY <1>2, QuietKernel, StreamQuiet, StreamKernel
<1>3. ASSUME NEW t \in Threads, CallSend(t) \/ Work(t) PROVE StreamState'
  <2>1. SendTypes BY SendTypesHold
  <2>2. CASE Dequeue(t) BY <2>1, <2>2, StreamDequeue
  <2>3. CASE SendPack(t) BY <2>3, StreamPack
  <2>4. CASE CompleteSend(t) BY <2>4, StreamComplete
  <2>5. CASE OnSendPop(t) BY <2>5, StreamPop
  <2>6. CASE SendPost(t) \/ OnSendNext(t) BY <2>1, <2>6, StreamPosts
  <2>7. CASE ~(Dequeue(t) \/ SendPack(t) \/ CompleteSend(t) \/ OnSendPop(t))
             /\ ~(SendPost(t) \/ OnSendNext(t))
    <3>1. Quiet BY <1>3, <2>1, <2>7, QuietWork
    <3>2. inflight' = inflight
      BY <1>3, <2>1, <2>7, AsideSteps DEF Aside, Work, Sending, SendCompleted
    <3> QED BY <3>1, <3>2, StreamQuiet
  <2> QED BY <2>2, <2>3, <2>4, <2>5, <2>6, <2>7
<1> QED BY <1>1, <1>2, <1>3 DEF Next

\* A step either accepts a packet, gives the next bytes to the connection, or is
\* none of the stream's business.
LEMMA StreamSteps ==
  ASSUME SendInv, Numbered, StreamState, OwnBytes, [Next]_vars
  PROVE  [Stream!StreamNext]_<<newSendID - 1, wire>>
<1> USE DEF SendInv
<1>1. CASE SendCompletes
  <2>1. PICK n \in Nat \ {0} : \E c \in [id : Nat, from : Nat, to : Nat] :
           /\ c = [id |-> FirstID, from |-> sendbytes[Head(sendQ)],
                   to |-> sendbytes[Head(sendQ)] + n]
           /\ c.to <= PacketBytes /\ wire' = Append(wire, c)
           /\ sendQ # <<>> /\ sock # "reset"
    BY <1>1, EmitsNext
  <2>2. newSendID' = newSendID /\ inflight # <<>> BY <1>1 DEF SendCompletes, queueVars
  <2>3. Stream!NextByte = [id |-> FirstID, from |-> sendbytes[Head(sendQ)]]
    BY <2>1, <2>2 DEF StreamState
  <2>4. /\ newSendID \in Nat /\ Len(sendQ) >= 1 /\ Len(sendQ) \in Nat
        /\ sendbytes[Head(sendQ)] \in Nat
    BY <2>1, SMTT(30) DEF Typed, TypeOK
  <2>5. Stream!NextByte.id = FirstID /\ Stream!NextByte.from = sendbytes[Head(sendQ)] BY <2>3
  <2>6. Stream!NextByte.id <= newSendID - 1 BY <2>4, <2>5 DEF FirstID
  <2>7. \E to \in (Stream!NextByte.from + 1) .. PacketBytes :
          wire' = Append(wire, [id |-> Stream!NextByte.id, from |-> Stream!NextByte.from, to |-> to])
    <3> DEFINE to == sendbytes[Head(sendQ)] + n
    <3>1. to \in (Stream!NextByte.from + 1) .. PacketBytes
      BY <2>1, <2>4, <2>5, SessionAssumption DEF SessionAssumption
    <3>2. wire' = Append(wire, [id |-> Stream!NextByte.id, from |-> Stream!NextByte.from, to |-> to])
      BY <2>1, <2>5
    <3> QED BY <3>1, <3>2
  <2> QED BY <2>2, <2>6, <2>7 DEF Stream!StreamNext, Stream!Emit
<1>2. ASSUME NEW t \in Threads, SendPack(t) PROVE Stream!Accept
  BY <1>2 DEF SendPack, ioVars, Stream!Accept, Typed, TypeOK
<1>3. CASE UNCHANGED <<newSendID, wire>> BY <1>3
<1>4. ASSUME NEW t \in Threads, Dequeue(t) \/ CompleteSend(t) \/ OnSendPop(t)
      PROVE  UNCHANGED <<newSendID, wire>>
  BY <1>4 DEF Dequeue, Take, CompleteSend, OnSendPop, SendAsync, ioVars, queueVars
<1>5. Quiet => UNCHANGED <<newSendID, wire>> BY DEF Quiet, queueVars
<1>6. CASE SendAborts BY <1>3, <1>6 DEF SendAborts, queueVars
<1>7. CASE UNCHANGED vars BY <1>3, <1>7 DEF vars, queueVars, ioVars
<1> QED BY <1>1, <1>2, <1>3, <1>4, <1>5, <1>6, <1>7, SendTypesHold, QuietKernel, QuietWork
        DEF Next, Stream!StreamNext

StreamInv == SendInv /\ Numbered /\ StreamState

\* As long as no SendPacket is sent with the bytes of another packing (OwnBytes), a
\* session implements the ordered stream of SendStream: for any number of workers
\* that call Send and complete sends, any size of the pool and of packets, sent in
\* any pieces, and losses of the connection at any moment.
THEOREM StreamImplemented == Spec /\ []OwnBytes => ImplementsStream
<1>1. Init => StreamInv /\ Stream!StreamInit
  <2>1. Init => Numbered BY DEF Init, Numbered, FirstID
  <2>2. Init => StreamState BY DEF Init, StreamState, SendsDone, HoldsSend, FirstID, Stream!NextByte
  <2>3. Init => Stream!StreamInit BY DEF Init, Stream!StreamInit
  <2>4. Init => WireState BY DEF Init, WireState, SendsDone
  <2> QED BY <2>1, <2>2, <2>3, <2>4, LockingInit, TypedInit, SendStateInit, PoolInit
          DEF SendInv, StreamInv
<1>2. StreamInv /\ OwnBytes /\ [Next]_vars => StreamInv'
  BY LockingStep, TypedStep, SendStateStep, PoolStep, WireStateStep, NumberedStep, StreamStep
     DEF SendInv, StreamInv, NumberedInv
<1>3. StreamInv /\ OwnBytes /\ [Next]_vars => [Stream!StreamNext]_<<newSendID - 1, wire>>
  BY StreamSteps DEF StreamInv
<1> QED BY <1>1, <1>2, <1>3, PTL DEF Spec, ImplementsStream, Stream!StreamSpec, Stream!streamVars

-------------------------------------------------------------------------------
(* The first use of every packet of the pool *)

\* Packets that were never used are in front of the pool; as long as there was one
\* for every call of Send, the queue holds packets of one packing each.
FreshState ==
  /\ Len(pool) + Len(sendQ) = PoolSize
  /\ \A i \in 1 .. Len(pool) : i + newSendID <= PoolSize + 1 => frontID[pool[i]] = 0
  /\ newSendID <= PoolSize + 1 =>
       \A i \in 1 .. Len(sendQ) : frontID[sendQ[i]] = packetID[sendQ[i]]

LEMMA FreshInit == Init => FreshState
<1> SUFFICES ASSUME Init PROVE FreshState OBVIOUS
<1>1. pool = [k \in SendPackets |-> k] /\ sendQ = <<>> /\ frontID = [k \in SendPackets |-> 0]
  BY DEF Init
<1>2. Len(pool) = PoolSize /\ \A i \in 1 .. Len(pool) : frontID[pool[i]] = 0
  BY <1>1, SessionAssumption DEF SendPackets, SessionAssumption
<1> QED BY <1>1, <1>2, SessionAssumption DEF FreshState, SessionAssumption

LEMMA FreshPack ==
  ASSUME NumberedInv, FreshState, NEW t \in Threads, SendPack(t)
  PROVE  FreshState'
<1>1. PICK k \in SendPackets :
        /\ pool # <<>> /\ k = Head(pool) /\ pool' = Tail(pool)
        /\ Packing(k, newSendID) /\ sendQ' = Append(sendQ, k)
        /\ \A i \in 1 .. Len(sendQ) : sendQ[i] # k
  BY TakenIsNew DEF NumberedInv
<1>2. newSendID' = newSendID + 1 BY DEF SendPack
<1>3. /\ sendQ \in Seq(SendPackets) /\ pool \in Seq(SendPackets) /\ newSendID \in Nat \ {0}
      /\ packetID \in [SendPackets -> Nat] /\ frontID \in [SendPackets -> Nat]
      /\ \A i \in 1 .. Len(sendQ) : sendQ[i] \in SendPackets
      /\ \A i \in 1 .. Len(pool) : pool[i] \in SendPackets
  BY SMTT(30) DEF NumberedInv, Typed, TypeOK
<1>4. /\ Len(sendQ) \in Nat /\ Len(sendQ') = Len(sendQ) + 1
      /\ \A i \in 1 .. Len(sendQ') : sendQ'[i] = IF i <= Len(sendQ) THEN sendQ[i] ELSE k
  BY <1>1, <1>3, QueueElements
<1>5. /\ k = pool[1] /\ Len(pool) >= 1 /\ Len(pool') = Len(pool) - 1 /\ Len(pool) \in Nat
      /\ \A i \in 1 .. Len(pool') : pool'[i] = pool[i + 1]
  BY <1>1, <1>3, QueueElements
<1>6. /\ packetID' = [packetID EXCEPT ![k] = newSendID]
      /\ frontID' = IF frontID[k] = 0 THEN [frontID EXCEPT ![k] = newSendID] ELSE frontID
  BY <1>1 DEF Packing
<1>7. ASSUME NEW i \in 1 .. Len(pool'), i + newSendID' <= PoolSize + 1
      PROVE  frontID'[pool'[i]] = 0
  <2>1. i + 1 \in 1 .. Len(pool) /\ 1 \in 1 .. Len(pool) /\ (i + 1) + newSendID <= PoolSize + 1
        /\ i + 1 # 1
    BY <1>2, <1>3, <1>5, <1>7, SMTT(30)
  <2>2. frontID[pool[i + 1]] = 0 BY <2>1 DEF FreshState
  <2>3. pool[i + 1] # k /\ pool[i + 1] \in SendPackets
    BY <1>3, <1>5, <2>1 DEF NumberedInv, PoolState
  <2> QED BY <1>3, <1>5, <1>6, <2>2, <2>3
<1>8. ASSUME newSendID' <= PoolSize + 1, NEW i \in 1 .. Len(sendQ')
      PROVE  frontID'[sendQ'[i]] = packetID'[sendQ'[i]]
  <2>1. CASE i <= Len(sendQ)
    <3>1. sendQ'[i] = sendQ[i] /\ sendQ[i] # k /\ sendQ[i] \in SendPackets /\ i \in 1 .. Len(sendQ)
      BY <1>1, <1>3, <1>4, <2>1
    <3>2. frontID[sendQ[i]] = packetID[sendQ[i]]
      BY <1>2, <1>3, <1>8, <3>1, SessionAssumption DEF FreshState, SessionAssumption
    <3> QED BY <1>3, <1>6, <3>1, <3>2
  <2>2. CASE i = Len(sendQ) + 1
    <3>1. 1 \in 1 .. Len(pool) /\ 1 + newSendID <= PoolSize + 1
      BY <1>2, <1>3, <1>5, <1>8, SessionAssumption DEF SessionAssumption
    <3>2. frontID[k] = 0 BY <1>5, <3>1 DEF FreshState
    <3>3. frontID'[k] = newSendID /\ packetID'[k] = newSendID BY <1>3, <1>6, <3>2
    <3>4. ~(i <= Len(sendQ)) BY <1>4, <2>2
    <3>5. sendQ'[i] = k BY <1>4, <3>4
    <3> QED BY <3>3, <3>5
  <2> QED BY <1>4, <2>1, <2>2
<1>9. Len(pool') + Len(sendQ') = PoolSize BY <1>4, <1>5 DEF FreshState
<1> QED BY <1>7, <1>8, <1>9 DEF FreshState

\* What is popped goes behind the packets that were never used.
LEMMA FreshPop ==
  ASSUME NumberedInv, FreshState, NEW t \in Threads, OnSendPop(t)
  PROVE  FreshState'
<1>1. /\ sendQ # <<>> /\ sendQ' = Tail(sendQ) /\ pool' = Append(pool, Head(sendQ))
      /\ UNCHANGED <<newSendID, packetID, frontID>>
  BY DEF OnSendPop
<1>2. /\ sendQ \in Seq(SendPackets) /\ pool \in Seq(SendPackets) /\ newSendID \in Nat
      /\ Head(sendQ) \in SendPackets
  BY <1>1 DEF NumberedInv, Typed, TypeOK
<1>3. /\ Len(sendQ) \in Nat /\ Len(sendQ) >= 1 /\ Len(sendQ') = Len(sendQ) - 1
      /\ \A i \in 1 .. Len(sendQ') : sendQ'[i] = sendQ[i + 1]
  BY <1>1, <1>2, QueueElements
<1>4. /\ Len(pool) \in Nat /\ Len(pool') = Len(pool) + 1
      /\ \A i \in 1 .. Len(pool') : pool'[i] = IF i <= Len(pool) THEN pool[i] ELSE Head(sendQ)
  BY <1>1, <1>2, QueueElements
<1>5. Len(pool) + newSendID >= PoolSize + 1
  BY <1>2, <1>3, <1>4, SessionAssumption DEF FreshState, NumberedInv, Numbered, SessionAssumption
<1>6. \A i \in 1 .. Len(pool') : i + newSendID <= PoolSize + 1 => frontID[pool'[i]] = 0
  <2> SUFFICES ASSUME NEW i \in 1 .. Len(pool'), i + newSendID <= PoolSize + 1
               PROVE  frontID[pool'[i]] = 0
    OBVIOUS
  <2>1. i \in 1 .. Len(pool) /\ pool'[i] = pool[i]
    BY <1>2, <1>4, <1>5, SessionAssumption DEF SessionAssumption
  <2> QED BY <2>1 DEF FreshState
<1>7. \A i \in 1 .. Len(sendQ') : i + 1 \in 1 .. Len(sendQ) BY <1>3
<1> QED BY <1>1, <1>3, <1>4, <1>6, <1>7 DEF FreshState

LEMMA FreshStep ==
  ASSUME NumberedInv, FreshState, [Next]_vars
  PROVE  FreshState'
<1>1. CASE UNCHANGED <<sendQ, pool, newSendID, packetID, frontID>> BY <1>1 DEF FreshState
<1>2. ASSUME NEW t \in Threads, Dequeue(t) \/ CompleteSend(t)
      PROVE  UNCHANGED <<sendQ, pool, newSendID, packetID, frontID>>
  BY <1>2 DEF Dequeue, Take, CompleteSend, queueVars, packetVars
<1>3. Quiet => UNCHANGED <<sendQ, pool, newSendID, packetID, frontID>>
  BY DEF Quiet, queueVars, packetVars
<1>4. CASE SendCompletes \/ SendAborts
  BY <1>1, <1>4 DEF SendCompletes, SendAborts, queueVars, packetVars
<1>5. CASE UNCHANGED vars BY <1>1, <1>5 DEF vars, queueVars, packetVars
<1> QED BY <1>1, <1>2, <1>3, <1>4, <1>5, FreshPack, FreshPop, SendTypesHold, QuietKernel, QuietWork
        DEF Next, NumberedInv

LEMMA OwnBytesWhenFresh ==
  ASSUME Typed, SendState, FreshState, newSendID <= PoolSize + 1
  PROVE  OwnBytes
<1> SUFFICES ASSUME NEW i \in 1 .. Len(inflight)
             PROVE  frontID[inflight[i]] = packetID[inflight[i]]
  BY DEF OwnBytes
<1>1. inflight \in Seq(SendPackets) /\ sendQ \in Seq(SendPackets) BY DEF Typed, TypeOK
<1>2. i = 1 /\ inflight # <<>> BY <1>1 DEF SendState, OneSend
<1>3. inflight[i] = sendQ[1] /\ 1 \in 1 .. Len(sendQ)
  BY <1>1, <1>2 DEF SendState, SendsFront
<1> QED BY <1>3 DEF FreshState

\* Every SendPacket of a pool of PoolSize packets sends its own bytes the first time
\* it is used, whatever order the workers give them back in: the shared m_pStream
\* shows only from call PoolSize + 1 of Send on.
THEOREM FirstUseIsOwn == Spec /\ [](newSendID <= PoolSize + 1) => []OwnBytes
<1> DEFINE Inv == SendInv /\ Numbered /\ FreshState
<1>1. Init => Inv
  <2>1. Init => Numbered BY DEF Init, Numbered, FirstID
  <2>2. Init => WireState BY DEF Init, WireState, SendsDone
  <2> QED BY <2>1, <2>2, FreshInit, LockingInit, TypedInit, SendStateInit, PoolInit DEF SendInv
<1>2. Inv /\ [Next]_vars => Inv'
  BY LockingStep, TypedStep, SendStateStep, PoolStep, WireStateStep, NumberedStep, FreshStep
     DEF SendInv, NumberedInv
<1>3. Inv /\ newSendID <= PoolSize + 1 => OwnBytes BY OwnBytesWhenFresh DEF SendInv
<1> QED BY <1>1, <1>2, <1>3, PTL DEF Spec

\* Up to PoolSize calls of Send, a session implements the ordered stream.
COROLLARY StreamOfFirstUses == Spec /\ [](newSendID <= PoolSize + 1) => ImplementsStream
BY FirstUseIsOwn, StreamImplemented, PTL

================================================================================
