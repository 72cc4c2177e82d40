------------------------------ MODULE PlayerParty ------------------------------
(***************************************************************************)
(* PlayerPartyInfo, PlayerPartyManager and the party requests VillageState *)
(* dispatches to them.  A session has one receive posted, so it is in one  *)
(* handler at a time; the handlers of different sessions run on different  *)
(* workers and change the parties under the m_cs of the manager.           *)
(*                                                                         *)
(* An owner's reply ends the server, so no party gets a second member:     *)
(* what AcceptPlayer does to the party behind the null pointers is out of  *)
(* reach, and so are the messages to other members.  KickPlayer,           *)
(* TransferPartyOwner and DestroyParty have no caller.                     *)
(***************************************************************************)
EXTENDS Integers, FiniteSets, Sequences

CONSTANTS
  Players,     \* one session and one client each
  NoPlayer,    \* nullptr
  MaxSeats,    \* MAX_CONSTRAINT
  Capacities,  \* the maxima clients ask for
  MaxParty,    \* bound: parties created
  MaxWorkers   \* workers that run handlers at the same time

VARIABLES
  party,    \* the PlayerPartyInfos created, in the order of their ids
  listed,   \* the ids in m_party_map
  holder,   \* owner of the m_cs of the manager, or "free" or "jammed"
  request,  \* what each session's handler was asked
  step,     \* where it is
  gone,     \* the players whose session is destroyed
  down      \* a handler has dereferenced nullptr: the server has ended

vars == <<party, listed, holder, request, step, gone, down>>
partyVars == <<party, listed>>

None == [op |-> "none"]
Busy == {p \in Players : step[p] # "idle"}
Seated(info) == {p \in Players : \E i \in 1 .. MaxSeats : info.seats[i] = p}

(***************************************************************************)
(* PlayerPartyInfo.                                                        *)
(***************************************************************************)
\* Create and Initialize.
NewParty(creator, capacity) ==
  [cap |-> capacity, count |-> 1, owner |-> creator,
   seats |-> [i \in 1 .. MaxSeats |-> IF i = 1 THEN creator ELSE NoPlayer]]

IsEmpty(info) == info.count <= 0

\* RemovePlayer, and one member less whether or not p was one.  The search for
\* the next owner compares the seats with the old one: it never changes.
Exit(info, p) ==
  [info EXCEPT !.count = @ - 1,
               !.seats = [i \in 1 .. MaxSeats |-> IF @[i] = p THEN NoPlayer ELSE @[i]]]

(***************************************************************************)
(* The requests.  Clients are external: they send any request at any time, *)
(* for any party that was ever listed.                                     *)
(***************************************************************************)
Requests ==
  [op : {"create"}, cap : Capacities]
    \cup [op : {"participate", "exit"}, id : DOMAIN party] \cup [op : {"list"}]

Creating == {p \in Players : request[p].op = "create" /\ step[p] # "again"}

OnRecvCompleted(p) ==
  /\ step[p] = "idle" /\ p \notin gone /\ Cardinality(Busy) < MaxWorkers
  /\ \E r \in Requests :
       /\ r.op = "create" => Len(party) + Cardinality(Creating) < MaxParty
       /\ request' = [request EXCEPT ![p] = r]
  /\ step' = [step EXCEPT ![p] = "lock"]
  /\ UNCHANGED <<partyVars, holder, gone, down>>

\* An accept calls GetID of a null PartyInfo, and both replies read the
\* volunteer into a null PlayerInfoPtr.
RequestReply(p) ==
  /\ step[p] = "idle" /\ p \notin gone /\ Cardinality(Busy) < MaxWorkers
  /\ down' = TRUE
  /\ UNCHANGED <<partyVars, holder, request, step, gone>>

\* OnDisconnected destroys the session; no party hears of it.
Disconnect(p) ==
  /\ step[p] = "idle" /\ p \notin gone
  /\ gone' = gone \cup {p}
  /\ UNCHANGED <<partyVars, holder, request, step, down>>

(***************************************************************************)
(* PlayerPartyManager.                                                     *)
(***************************************************************************)
\* AutoLocker.
Lock(p) ==
  /\ step[p] = "lock" /\ holder = "free"
  /\ holder' = p
  /\ step' = [step EXCEPT ![p] = "in"]
  /\ UNCHANGED <<partyVars, request, gone, down>>

\* UnLock.  Leaving a section one does not own has no effect, frees it for the
\* next, or stops everyone who wants to enter it.
Leave(p) == holder' \in IF holder = p THEN {"free"} ELSE {holder, "free", "jammed"}

Inside(p, op) == step[p] = "in" /\ request[p].op = op

Returns(p) ==
  /\ step' = [step EXCEPT ![p] = "idle"]
  /\ request' = [request EXCEPT ![p] = None]

CreateParty(p) ==
  /\ Inside(p, "create")
  /\ party' = Append(party, NewParty(p, request[p].cap))
  /\ listed' = listed \cup {Len(party')}
  /\ Leave(p)
  /\ step' = [step EXCEPT ![p] = "again"]
  /\ UNCHANGED <<request, gone, down>>

\* m_cs.UnLock() does not tell the AutoLocker, which leaves a second time.
CreateReturns(p) ==
  /\ step[p] = "again"
  /\ Leave(p)
  /\ Returns(p)
  /\ UNCHANGED <<partyVars, gone, down>>

\* RequestParticipate writes to the owner, if the party has room and the owner a
\* session; SendALLPartyList copies the list.  Neither changes anything.
OnlyReads(p) ==
  /\ Inside(p, "participate") \/ Inside(p, "list")
  /\ Leave(p)
  /\ Returns(p)
  /\ UNCHANGED <<partyVars, gone, down>>

\* Of a party that is not in the map the handler gets no session to answer to.
ExitPlayer(p) ==
  LET id == request[p].id IN
  /\ Inside(p, "exit")
  /\ \/ /\ id \in listed
        /\ party' = [party EXCEPT ![id] = Exit(@, p)]
        /\ listed' = IF IsEmpty(party'[id]) THEN listed \ {id} ELSE listed
        /\ UNCHANGED down
     \/ /\ id \notin listed
        /\ down' = TRUE
        /\ UNCHANGED partyVars
  /\ Leave(p)
  /\ Returns(p)
  /\ UNCHANGED gone

Init ==
  /\ party = <<>> /\ listed = {} /\ holder = "free"
  /\ request = [p \in Players |-> None] /\ step = [p \in Players |-> "idle"]
  /\ gone = {} /\ down = FALSE

Handler(p) ==
  \/ OnRecvCompleted(p) \/ RequestReply(p) \/ Lock(p)
  \/ CreateParty(p) \/ CreateReturns(p) \/ OnlyReads(p) \/ ExitPlayer(p)

Next == ~down /\ \E p \in Players : Handler(p) \/ Disconnect(p)

Spec == Init /\ [][Next]_vars

(***************************************************************************)
(* Properties.                                                             *)
(***************************************************************************)
Infos == [cap : Capacities, count : Int, owner : Players,
          seats : [1 .. MaxSeats -> Players \cup {NoPlayer}]]
Asked ==
  [op : {"create"}, cap : Capacities]
    \cup [op : {"participate", "exit"}, id : DOMAIN party] \cup [op : {"list", "none"}]

\* Every variable keeps its type: nobody asks for a party that was never there.
TypeOK ==
  /\ party \in Seq(Infos)
  /\ listed \subseteq DOMAIN party
  /\ holder \in Players \cup {"free", "jammed"}
  /\ request \in [Players -> Asked]
  /\ step \in [Players -> {"idle", "lock", "in", "again"}]
  /\ gone \subseteq Players /\ down \in BOOLEAN

\* A party is erased from m_party_map only when nobody is left in it
\* (PlayerPartyManager.h:350-354).
ErasedEmpty == \A id \in DOMAIN party : Seated(party[id]) # {} => id \in listed

\* As nobody can be accepted, a party in m_party_map is its owner's alone: the
\* code for several members (NewParticipant, TransferOwner) is not reached.
OwnerAlone ==
  \A id \in listed :
    /\ party[id].count = 1
    /\ Seated(party[id]) = {party[id].owner}

\* The m_cs of the manager is never left behind by a handler that returned without
\* the unlock: its owner is between the two (the unlocks by hand beside AutoLocker).
OwnerInside == holder \in Players => step[holder] = "in"

\* At most one worker is between the lock and the unlock of the manager.
OneInside == \A p, q \in Players : step[p] = "in" /\ step[q] = "in" => p = q

\* A party in m_party_map has a client who can leave it.
OwnerConnected == \A id \in listed : party[id].owner \notin gone
================================================================================
