---------------------------- MODULE PlayerPartyProofs ----------------------------
(***************************************************************************)
(* Theorems about PlayerParty, for any players, seats, workers and parties *)
(* and whatever leaving a section one does not own does.                   *)
(***************************************************************************)
EXTENDS PlayerParty, TLAPS

\* What the models of nullptr and of a section nobody owns have to be.
Apart == NoPlayer \notin Players /\ "free" \notin Players /\ "jammed" \notin Players

\* A listed party is as NewParty made it.
AsCreated ==
  \A id \in listed :
    /\ id \in DOMAIN party /\ party[id].owner \in Players
    /\ party[id].count = 1
    /\ party[id].seats = [i \in 1 .. MaxSeats |-> IF i = 1 THEN party[id].owner ELSE NoPlayer]

Typed ==
  /\ party \in Seq(Infos)
  /\ listed \subseteq DOMAIN party
  /\ holder \in Players \cup {"free", "jammed"}
  /\ step \in [Players -> {"idle", "lock", "in", "again"}]
  /\ gone \subseteq Players /\ down \in BOOLEAN
  /\ request \in [Players -> Asked]

LEMMA NewTyped ==
  ASSUME NEW p \in Players, NEW n \in Capacities
  PROVE  NewParty(p, n) \in Infos
  BY DEF NewParty, Infos

LEMMA ExitTyped ==
  ASSUME NEW info \in Infos, NEW p \in Players
  PROVE  Exit(info, p) \in Infos /\ Exit(info, p).count = info.count - 1
  <1> DEFINE seats == [i \in 1 .. MaxSeats |-> IF info.seats[i] = p THEN NoPlayer ELSE info.seats[i]]
  <1>1. seats \in [1 .. MaxSeats -> Players \cup {NoPlayer}]
    BY DEF Infos
  <1>2. info.count - 1 \in Int BY DEF Infos
  <1>3. Exit(info, p) = [info EXCEPT !.count = info.count - 1, !.seats = seats]
    BY DEF Exit
  <1> HIDE DEF seats
  <1> QED BY <1>1, <1>2, <1>3 DEF Infos

\* The entry of a party exists and is an Infos.
LEMMA PartyThere ==
  ASSUME Typed, NEW id \in listed
  PROVE  id \in DOMAIN party /\ party[id] \in Infos
  BY DEF Typed

\* The parties only grow, so whoever asks asks for a party that was there.
LEMMA AskedGrows ==
  ASSUME DOMAIN party \subseteq DOMAIN party'
  PROVE  Asked \subseteq Asked' /\ Requests \subseteq Asked'
  BY DEF Asked, Requests

LEMMA Leaves ==
  ASSUME Typed, NEW p \in Players, Leave(p)
  PROVE  /\ holder' \in Players \cup {"free", "jammed"}
         /\ Apart /\ holder' \in Players => holder' = holder /\ holder # p
  BY DEF Typed, Leave, Apart

LEMMA ReturnsTyped ==
  ASSUME Typed, NEW p \in Players, Returns(p), DOMAIN party \subseteq DOMAIN party'
  PROVE  /\ step' \in [Players -> {"idle", "lock", "in", "again"}]
         /\ request' \in [Players -> Asked']
  <1>1. None \in Asked' BY DEF None, Asked
  <1> QED BY <1>1, AskedGrows DEF Typed, Returns

LEMMA TypesInit == Init => Typed
  <1> SUFFICES ASSUME Init PROVE Typed OBVIOUS
  <1>1. None \in Asked BY DEF None, Asked
  <1>2. request \in [Players -> Asked] BY <1>1 DEF Init
  <1>3. party \in Seq(Infos) /\ listed \subseteq DOMAIN party BY DEF Init
  <1> QED BY <1>2, <1>3 DEF Init, Typed

LEMMA TypesNext == Typed /\ [Next]_vars => Typed'
  <1> SUFFICES ASSUME Typed, [Next]_vars PROVE Typed' OBVIOUS
  <1>0. party' = party => Asked \subseteq Asked' /\ Requests \subseteq Asked'
    BY AskedGrows
  <1>1. CASE UNCHANGED vars
    BY <1>0, <1>1 DEF vars, Typed
  <1>2. ASSUME NEW p \in Players, OnRecvCompleted(p) PROVE Typed'
    BY <1>0, <1>2 DEF OnRecvCompleted, Typed, partyVars
  <1>3. ASSUME NEW p \in Players, RequestReply(p) PROVE Typed'
    BY <1>0, <1>3 DEF RequestReply, Typed, partyVars
  <1>4. ASSUME NEW p \in Players, Lock(p) PROVE Typed'
    BY <1>0, <1>4 DEF Lock, Typed, partyVars
  <1>5. ASSUME NEW p \in Players, CreateParty(p) PROVE Typed'
    <2>1. request[p] \in Asked /\ request[p].op = "create"
      BY <1>5 DEF CreateParty, Inside, Typed
    <2>2. request[p].cap \in Capacities
      BY <2>1 DEF Asked
    <2>3. NewParty(p, request[p].cap) \in Infos
      BY <2>2, NewTyped
    <2>4. /\ party' \in Seq(Infos) /\ Len(party') = Len(party) + 1
          /\ DOMAIN party \subseteq DOMAIN party' /\ Len(party') \in DOMAIN party'
      BY <1>5, <2>3 DEF CreateParty, Typed
    <2> QED BY <1>5, <2>4, Leaves, AskedGrows DEF CreateParty, Typed
  <1>6. ASSUME NEW p \in Players, CreateReturns(p) PROVE Typed'
    BY <1>6, Leaves, ReturnsTyped DEF CreateReturns, Typed, partyVars
  <1>7. ASSUME NEW p \in Players, OnlyReads(p) PROVE Typed'
    BY <1>7, Leaves, ReturnsTyped DEF OnlyReads, Typed, partyVars
  <1>8. ASSUME NEW p \in Players, ExitPlayer(p) PROVE Typed'
    <2>1. CASE request[p].id \in listed
      <3> DEFINE id == request[p].id
                 info == Exit(party[id], p)
      <3>1. id \in DOMAIN party /\ info \in Infos
        BY <2>1, PartyThere, ExitTyped
      <3>3. party' = [party EXCEPT ![id] = info]
        BY <1>8, <2>1 DEF ExitPlayer
      <3> HIDE DEF info
      <3>2. party' \in Seq(Infos) /\ DOMAIN party' = DOMAIN party
        BY <3>1, <3>3 DEF Typed
      <3> QED BY <1>8, <2>1, <3>2, Leaves, ReturnsTyped DEF ExitPlayer, Typed
    <2>2. CASE request[p].id \notin listed
      BY <1>8, <2>2, Leaves, ReturnsTyped DEF ExitPlayer, Typed, partyVars
    <2> QED BY <2>1, <2>2
  <1>9. ASSUME NEW p \in Players, Disconnect(p) PROVE Typed'
    BY <1>0, <1>9 DEF Disconnect, Typed, partyVars
  <1> QED BY <1>1, <1>2, <1>3, <1>4, <1>5, <1>6, <1>7, <1>8, <1>9 DEF Next, Handler

\* For any players, seats and workers every variable keeps its type.
THEOREM PartyTypes == Spec => []TypeOK
  <1>1. Typed => TypeOK BY DEF Typed, TypeOK
  <1> QED BY <1>1, TypesInit, TypesNext, PTL DEF Spec

\* The m_cs of the manager is never left behind by a handler that returned,
\* whatever the second unlock of CreateParty does to it.
THEOREM OwnerInsideCorrect == ASSUME Apart PROVE Spec => []OwnerInside
  <1>1. Init => OwnerInside BY DEF Init, OwnerInside, Apart
  <1>2. Typed /\ OwnerInside /\ [Next]_vars => OwnerInside'
    <2> SUFFICES ASSUME Typed, OwnerInside, [Next]_vars PROVE OwnerInside' OBVIOUS
    <2>1. CASE UNCHANGED vars BY <2>1 DEF vars, OwnerInside
    <2>2. ASSUME NEW p \in Players, OnRecvCompleted(p) \/ RequestReply(p) \/ Disconnect(p)
          PROVE OwnerInside'
      BY <2>2 DEF OnRecvCompleted, RequestReply, Disconnect, OwnerInside, Typed
    <2>3. ASSUME NEW p \in Players, Lock(p) PROVE OwnerInside'
      BY <2>3 DEF Lock, OwnerInside, Typed
    <2>4. ASSUME NEW p \in Players,
                 CreateParty(p) \/ CreateReturns(p) \/ OnlyReads(p) \/ ExitPlayer(p)
          PROVE OwnerInside'
      <3>1. Leave(p) /\ \E x : step' = [step EXCEPT ![p] = x]
        BY <2>4 DEF CreateParty, CreateReturns, OnlyReads, ExitPlayer, Returns
      <3> QED BY <3>1, Leaves DEF OwnerInside, Typed
    <2> QED BY <2>1, <2>2, <2>3, <2>4 DEF Next, Handler
  <1> QED BY <1>1, <1>2, TypesInit, TypesNext, PTL DEF Spec

LEMMA CreatedAlone ==
  ASSUME Typed, AsCreated, NEW p \in Players, CreateParty(p)
  PROVE  AsCreated'
  <1> DEFINE new == NewParty(p, request[p].cap)
  <1>1. /\ party' = Append(party, new) /\ party \in Seq(Infos)
        /\ listed' = listed \cup {Len(party) + 1}
    BY DEF CreateParty, Typed
  <1>2. /\ new.owner = p /\ new.count = 1
        /\ new.seats = [i \in 1 .. MaxSeats |-> IF i = 1 THEN p ELSE NoPlayer]
    BY DEF NewParty
  <1>3. party'[Len(party) + 1] = new /\ Len(party) + 1 \in DOMAIN party'
    BY <1>1
  <1>4. ASSUME NEW id \in listed PROVE id \in DOMAIN party' /\ party'[id] = party[id]
    BY <1>1, <1>4 DEF Typed
  <1> HIDE DEF new
  <1>5. new.owner \in Players BY <1>2
  <1> SUFFICES ASSUME NEW id \in listed'
               PROVE  /\ id \in DOMAIN party' /\ party'[id].owner \in Players
                      /\ party'[id].count = 1
                      /\ party'[id].seats = [i \in 1 .. MaxSeats |->
                                               IF i = 1 THEN party'[id].owner ELSE NoPlayer]
    BY DEF AsCreated
  <1>6. CASE id \in listed
    BY <1>4, <1>6 DEF AsCreated
  <1>7. CASE id = Len(party) + 1
    BY <1>2, <1>3, <1>5, <1>7
  <1> QED BY <1>1, <1>6, <1>7

LEMMA ExitAlone ==
  ASSUME Typed, AsCreated, NEW p \in Players, ExitPlayer(p)
  PROVE  AsCreated'
  <1> DEFINE id == request[p].id
  <1>1. CASE id \notin listed
    BY <1>1 DEF ExitPlayer, AsCreated, partyVars
  <1>2. CASE id \in listed
    <2>1. id \in DOMAIN party /\ party[id] \in Infos /\ party[id].count = 1
      BY <1>2, PartyThere DEF AsCreated
    <2>2. party' = [party EXCEPT ![id] = Exit(@, p)]
      BY <1>2 DEF ExitPlayer
    <2>3. party'[id].count = 0
      BY <2>1, <2>2, ExitTyped
    <2>4. listed' = listed \ {id}
      BY <1>2, <2>3 DEF ExitPlayer, IsEmpty
    <2> QED BY <2>2, <2>4 DEF AsCreated
  <1> QED BY <1>1, <1>2

\* The code for parties of several members is out of reach: a party in
\* m_party_map has one member, its owner, as long as the server runs.
THEOREM OwnerAloneCorrect ==
  ASSUME Apart, MaxSeats \in Nat \ {0}
  PROVE  Spec => []OwnerAlone
  <1>1. Init => AsCreated BY DEF Init, AsCreated
  <1>2. Typed /\ AsCreated /\ [Next]_vars => AsCreated'
    <2> SUFFICES ASSUME Typed, AsCreated, [Next]_vars PROVE AsCreated' OBVIOUS
    <2>1. CASE UNCHANGED partyVars BY <2>1 DEF partyVars, AsCreated
    <2>2. CASE ~UNCHANGED partyVars
      <3>1. \E p \in Players : CreateParty(p) \/ ExitPlayer(p)
        BY <2>2 DEF Next, Handler, Disconnect, OnRecvCompleted, RequestReply, Lock,
                    CreateReturns, OnlyReads, vars, partyVars
      <3> QED BY <3>1, CreatedAlone, ExitAlone
    <2> QED BY <2>1, <2>2
  <1>3. AsCreated => OwnerAlone
    <2> SUFFICES ASSUME AsCreated, NEW id \in listed
                 PROVE  Seated(party[id]) = {party[id].owner}
      BY DEF AsCreated, OwnerAlone
    <2> DEFINE seats == party[id].seats
    <2>0. seats = [i \in 1 .. MaxSeats |-> IF i = 1 THEN party[id].owner ELSE NoPlayer]
      BY DEF AsCreated
    <2>1. seats[1] = party[id].owner /\ 1 \in 1 .. MaxSeats
      BY <2>0
    <2>2. \A i \in 1 .. MaxSeats : i # 1 => seats[i] = NoPlayer
      BY <2>0
    <2>3. party[id].owner \in Players BY DEF AsCreated
    <2> HIDE DEF seats
    <2>4. \A p \in Players : p \in Seated(party[id]) <=> \E i \in 1 .. MaxSeats : seats[i] = p
      BY DEF Seated, seats
    <2>5. ASSUME NEW p \in Seated(party[id]) PROVE p = party[id].owner
      <3>1. p \in Players BY DEF Seated
      <3>2. PICK i \in 1 .. MaxSeats : seats[i] = p BY <3>1, <2>4
      <3> QED BY <3>1, <3>2, <2>1, <2>2 DEF Apart
    <2> QED BY <2>1, <2>3, <2>4, <2>5
  <1> QED BY <1>1, <1>2, <1>3, TypesInit, TypesNext, PTL DEF Spec
================================================================================
