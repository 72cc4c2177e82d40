-------------------------------- MODULE Sectors --------------------------------
(***************************************************************************)
(* Who sees whom in a village: Sector.cpp, SectorManager.cpp, the village  *)
(* part of VillageManager.cpp and FirstVillage.cpp, and the clean-up in    *)
(* IOCPSession::OnBeforeDisconnected.                                      *)
(*                                                                         *)
(* A village is a grid of sectors, each with a map of its players.  A      *)
(* client is told of the players of the nine sectors around its own.       *)
(* Workers handle the requests of different players at the same time; the  *)
(* maps have no lock.  A message to a player is a call of its session's    *)
(* Send, which waits for the session's m_cs; the first entry runs inside   *)
(* the m_cs of the entering session, because OnSendCompleted does.  Send   *)
(* keeps the order of the messages (SendStream), so view changes when Send *)
(* is called.                                                              *)
(*                                                                         *)
(* A session is disconnected once when its receive ends and once more when *)
(* its send fails, in either order; each ends that side only.  Where the   *)
(* code follows a null pointer the server is down.                         *)
(*                                                                         *)
(* A position is only compared with the borders of the player's sector, so *)
(* a move is the direction GetRelativeDirInSector finds for it.            *)
(***************************************************************************)
EXTENDS Integers, FiniteSets

CONSTANTS
  Players, Workers,
  Width, Height,  \* m_grid_pos: 8 and 3 in FirstVillage
  EntryX, EntryY, \* m_enter_pos: 0 and 1 in FirstVillage
  Batch,          \* players in one message: 10 in the code
  Again,          \* bound: the players that ask to enter once more
  Drops,          \* the players that may disconnect
  NoSector,       \* nullptr
  NoWorker        \* m_cs has no owner

ASSUME SectorAssumption ==
  /\ Width \in Nat \ {0} /\ Height \in Nat \ {0}
  /\ EntryX \in 0 .. Width - 1 /\ EntryY \in 0 .. Height - 1
  /\ Batch \in Nat \ {0}
  /\ Drops \subseteq Players /\ Again \subseteq Players
  /\ NoWorker \notin Workers
  /\ Players # {} /\ IsFiniteSet(Players)

Grid == (0 .. Width - 1) \X (0 .. Height - 1)
Entry == <<EntryX, EntryY>>
Directions == (-1 .. 1) \X (-1 .. 1)
Middle == <<0, 0>>

ASSUME NoSectorAssumption == NoSector \notin Grid

Step(g, d) == <<g[1] + d[1], g[2] + d[2]>>

\* m_nearSector_vec without its null entries, the sector itself included.
Near(g) == {n \in Grid : n[1] - g[1] \in -1 .. 1 /\ n[2] - g[2] \in -1 .. 1}

\* The near sectors of g on the side, or on the two sides, that d points to.
Side(g, d) ==
  {n \in Near(g) : \/ d[1] # 0 /\ n[1] = g[1] + d[1]
                   \/ d[2] # 0 /\ n[2] = g[2] + d[2]}

\* Mutant: a diagonal step forgets one of the two sides.
Gained_OneSide(g, d) == IF d[1] # 0 THEN Side(g, <<d[1], 0>>) ELSE Side(g, d)

\* Mutant: everybody around is told again.
Gained_All(g, d) == Near(g)

Gained(g, d) == Side(g, d)

Lost(g, d) == Side(g, <<-d[1], -d[2]>>)

VARIABLES
  map,      \* m_player_map of each sector
  sector,   \* the sector each PlayerInfo points to
  entries,  \* how often each player entered the village
  ends,     \* which of its receive and its send ended the session of a player
  view,     \* the players each client was told of and not told to forget
  cs,       \* who is inside the first entry of a session, and so in its m_cs
  work,     \* what each worker does
  down      \* the server followed a null pointer

placeVars == <<map, sector>>
sessionVars == <<entries, ends, down>>
vars == <<map, sector, entries, ends, view, cs, work, down>>

\* "hello", "gained": telling EnterInView; "lost", "bye": LeaveInView;
\* "moved": PlayerMove.
Steps == {"idle", "others", "init", "sendall", "hello", "lost", "forget",
          "gained", "meet", "bye", "moved"}

Works == [step : Steps, who : Players, at : Grid, dir : Directions,
          rest : SUBSET Grid, out : SUBSET Players]

Sides == {"recv", "send"}

\* Every variable keeps its type; nobody is moved out of the grid.
TypeOK ==
  /\ map \in [Grid -> SUBSET Players]
  /\ sector \in [Players -> Grid \cup {NoSector}]
  /\ entries \in [Players -> 0 .. 2]
  /\ \A p \in Players \ Again : entries[p] < 2
  /\ ends \in [Players -> SUBSET Sides]
  /\ \A p \in Players \ Drops : ends[p] = {}
  /\ view \in [Players -> SUBSET Players]
  /\ cs \in [Players -> Workers \cup {NoWorker}]
  /\ work \in [Workers -> Works]
  /\ down \in BOOLEAN

AnyPlayer == CHOOSE p \in Players : TRUE
Free == [step |-> "idle", who |-> AnyPlayer, at |-> Entry, dir |-> Middle,
         rest |-> {}, out |-> {}]

Init ==
  /\ map = [g \in Grid |-> {}]
  /\ sector = [p \in Players |-> NoSector]
  /\ entries = [p \in Players |-> 0]
  /\ ends = [p \in Players |-> {}]
  /\ view = [p \in Players |-> {}]
  /\ cs = [p \in Players |-> NoWorker]
  /\ work = [t \in Workers |-> Free]
  /\ down = FALSE

-------------------------------------------------------------------------------
(* Helpers *)

In(t, step) == work[t].step = step
Idle(t) == In(t, "idle")
Who(t) == work[t].who
Continue(t, w) == work' = [work EXCEPT ![t] = w]

\* t can enter and leave the m_cs of p, as Send does.
CanSend(t, p) == cs[p] \in {NoWorker, t}

\* Mutant: the next receive is posted before the packet was handled.
Handling_Never(p) == FALSE

\* A worker is in the handler of a packet of p.
Handling(p) ==
  \E t \in Workers : work[t].step \notin {"idle", "bye"} /\ Who(t) = p /\ cs[p] # t

Gone == {p \in Players : ends[p] # {}}

\* Nothing needs to hold the session of p any more: its pointers are in the
\* receive, the send at work (or a packet in the pool) and on the stack of a
\* worker.
MayBeFreed(p) ==
  "recv" \in ends[p] /\ \A t \in Workers : Idle(t) \/ Who(t) # p

PlayersIn(sectors) == UNION {map[g] : g \in sectors}
NearPlayers(g) == PlayersIn(Near(g))

Erase(g, p) == [map EXCEPT ![g] = @ \ {p}]
Insert(g, p) == [map EXCEPT ![g] = @ \cup {p}]

\* The messages of Batch players each begin with the first players again, so
\* only Batch of them are ever told, in the order of the unordered_map.
Listed(players) ==
  {some \in SUBSET players :
     Cardinality(some) = IF Cardinality(players) < Batch
                         THEN Cardinality(players) ELSE Batch}

\* A message with some players is sent to p unless there is nobody to list.
SendsList(t, players) == players = {} \/ CanSend(t, Who(t))
\* Nothing reaches the client of an ended session.
Hears(p, players) == IF p \in Gone THEN {} ELSE players
Meets(p, players) == view' = [view EXCEPT ![p] = @ \cup Hears(p, players)]
Forgets(p, players) == view' = [view EXCEPT ![p] = @ \ Hears(p, players)]

-------------------------------------------------------------------------------
(* The first entry, and the client's own request to enter *)

\* GetNearPlayerInfos at the beginning of FirstEnterProcess.
FirstEnter(t, p) ==
  /\ entries' = [entries EXCEPT ![p] = @ + 1]
  /\ Continue(t, [Free EXCEPT !.step = "others", !.who = p, !.out = NearPlayers(Entry)])
  /\ UNCHANGED <<placeVars, ends, view, down>>

\* OnSendCompleted changes the state to VillageState, also after the end of the
\* receive.
StateChanged(t, p) ==
  /\ Idle(t) /\ entries[p] = 0 /\ "send" \notin ends[p]
  /\ cs[p] = NoWorker
  /\ cs' = [cs EXCEPT ![p] = t]
  /\ FirstEnter(t, p)

\* A receive of p completes with a packet for VillageState, also after the end
\* of the send; nothing makes a client wait for FirstInit.
MaySend(p) == entries[p] > 0 /\ "recv" \notin ends[p] /\ ~Handling(p)

VillageEnter(t, p) ==
  /\ Idle(t) /\ MaySend(p) /\ entries[p] = 1 /\ p \in Again /\ CanSend(t, p)
  /\ FirstEnter(t, p)
  /\ UNCHANGED cs

FirstInitOthers(t) ==
  /\ In(t, "others") /\ SendsList(t, work[t].out)
  /\ \E some \in Listed(work[t].out) : Meets(Who(t), some)
  /\ Continue(t, [work[t] EXCEPT !.step = "init", !.out = {}])
  /\ UNCHANGED <<placeVars, sessionVars, cs>>

\* Mutant: the player is inserted before the others are told.
FirstEnterSection_InsertsFirst(t) ==
  /\ In(t, "init") /\ CanSend(t, Who(t))
  /\ sector' = [sector EXCEPT ![Who(t)] = Entry]
  /\ map' = Insert(Entry, Who(t))
  /\ Continue(t, [work[t] EXCEPT !.step = "sendall"])
  /\ UNCHANGED <<view, sessionVars, cs>>

\* SetSector and the message FirstInit.
FirstEnterSection(t) ==
  /\ In(t, "init") /\ CanSend(t, Who(t))
  /\ sector' = [sector EXCEPT ![Who(t)] = Entry]
  /\ Continue(t, [work[t] EXCEPT !.step = "sendall"])
  /\ UNCHANGED <<map, view, sessionVars, cs>>

\* SendAll first collects the players around.
SendAll(t) ==
  /\ In(t, "sendall")
  /\ Continue(t, [work[t] EXCEPT !.step = "hello", !.out = NearPlayers(Entry)])
  /\ UNCHANGED <<placeVars, sessionVars, view, cs>>

\* The end of FirstEnterSection; the first entry then leaves the m_cs.
FirstInsert(t) ==
  /\ In(t, "hello") /\ work[t].out = {}
  /\ map' = Insert(Entry, Who(t))
  /\ cs' = [cs EXCEPT ![Who(t)] = IF @ = t THEN NoWorker ELSE @]
  /\ Continue(t, Free)
  /\ UNCHANGED <<sector, sessionVars, view>>

-------------------------------------------------------------------------------
(* Moves *)

\* Mutant: a move beyond the border of the village is not ignored.
NoNewSector_Never(g, d) == FALSE

NoNewSector(g, d) == Step(g, d) \notin Grid

\* A packet PlayerMove of p arrives; its position lies in direction d.
MoveProcess(t, p, d) ==
  /\ Idle(t) /\ MaySend(p) /\ sector[p] # NoSector
  /\ UNCHANGED <<view, sessionVars, cs>>
  /\ LET g == sector[p] IN
     \/ /\ d = Middle
        /\ Continue(t, [Free EXCEPT !.step = "moved", !.who = p,
                                    !.out = NearPlayers(g) \ {p}])
        /\ UNCHANGED placeVars
     \/ /\ NoNewSector(g, d)
        /\ UNCHANGED <<placeVars, work>>
     \/ /\ d # Middle /\ ~NoNewSector(g, d)
        /\ sector' = [sector EXCEPT ![p] = NoSector]
        /\ map' = Erase(g, p)
        /\ Continue(t, [Free EXCEPT !.step = "lost", !.who = p, !.at = g,
                                    !.dir = d, !.rest = Lost(g, d)])

\* MoveProcess uses the sector it is given.
MoveWithoutSector(t, p) ==
  /\ Idle(t) /\ MaySend(p) /\ sector[p] = NoSector
  /\ down' = TRUE
  /\ UNCHANGED <<placeVars, entries, ends, view, cs, work>>

\* SendAllInSector of the next of the sectors that come into or out of view.
SendAllInSector(t) ==
  /\ work[t].step \in {"lost", "gained"}
  /\ work[t].out = {}
  /\ \E g \in work[t].rest :
       Continue(t, [work[t] EXCEPT !.rest = @ \ {g}, !.out = map[g]])
  /\ UNCHANGED <<placeVars, sessionVars, view, cs>>

\* After the last of them their players are collected for the mover.
CollectPlayers(t) ==
  /\ work[t].out = {} /\ work[t].rest = {}
  /\ \/ /\ In(t, "lost")
        /\ Continue(t, [work[t] EXCEPT !.step = "forget",
                          !.out = PlayersIn(Lost(work[t].at, work[t].dir))])
     \/ /\ In(t, "gained")
        /\ Continue(t, [work[t] EXCEPT !.step = "meet",
                          !.out = PlayersIn(Gained(work[t].at, work[t].dir))])
  /\ UNCHANGED <<placeVars, sessionVars, view, cs>>

\* The end of LeaveSection and the beginning of EnterSection.
ChangeSection(t) ==
  LET new == Step(work[t].at, work[t].dir) IN
  /\ In(t, "forget") /\ SendsList(t, work[t].out)
  /\ \E some \in Listed(work[t].out) : Forgets(Who(t), some)
  /\ sector' = [sector EXCEPT ![Who(t)] = new]
  /\ Continue(t, [work[t] EXCEPT !.step = "gained", !.at = new, !.out = {},
                                 !.rest = Gained(new, work[t].dir)])
  /\ UNCHANGED <<map, sessionVars, cs>>

\* The end of EnterSection.
EnterInsert(t) ==
  /\ In(t, "meet") /\ SendsList(t, work[t].out)
  /\ \E some \in Listed(work[t].out) : Meets(Who(t), some)
  /\ map' = Insert(work[t].at, Who(t))
  /\ Continue(t, Free)
  /\ UNCHANGED <<sector, sessionVars, cs>>

-------------------------------------------------------------------------------
(* Disconnection, and the messages to one player after the other *)

\* OnDisconnected, OnBeforeDisconnected and DisapearSection: the receive of p
\* ended, which is pending or just handled, or its send failed, which may be
\* while a worker handles its packet.
Disconnect(t, p, side) ==
  /\ Idle(t) /\ p \in Drops /\ side \notin ends[p]
  /\ side = "recv" => ~Handling(p)
  /\ ends' = [ends EXCEPT ![p] = @ \cup {side}]
  /\ LET g == sector[p] IN
     \/ g = NoSector /\ UNCHANGED <<placeVars, work>>
     \/ /\ g # NoSector
        /\ sector' = [sector EXCEPT ![p] = NoSector]
        /\ map' = Erase(g, p)
        /\ Continue(t, [Free EXCEPT !.step = "bye", !.who = p,
                          !.out = UNION {Erase(g, p)[n] : n \in Near(g)}])
  /\ UNCHANGED <<entries, view, cs, down>>

Tell(t) ==
  \E q \in work[t].out :
    /\ CanSend(t, q)
    /\ \/ /\ work[t].step \in {"hello", "gained"}
          /\ Meets(q, {Who(t)})
       \/ /\ work[t].step \in {"lost", "bye"}
          /\ Forgets(q, {Who(t)})
       \/ /\ In(t, "moved")
          /\ UNCHANGED view
    /\ Continue(t, [work[t] EXCEPT !.out = @ \ {q}])
    /\ UNCHANGED <<placeVars, sessionVars, cs>>

\* GetSession of a player still in a map or in a collected list: its session
\* may be there no more, which the release build does not ask.
TellNobody(t) ==
  /\ \E q \in work[t].out : MayBeFreed(q)
  /\ down' = TRUE
  /\ UNCHANGED <<placeVars, entries, ends, view, cs, work>>

AllTold(t) ==
  /\ work[t].step \in {"moved", "bye"} /\ work[t].out = {}
  /\ Continue(t, Free)
  /\ UNCHANGED <<placeVars, sessionVars, view, cs>>

-------------------------------------------------------------------------------

\* A worker goes on with the request it handles.
Work(t) ==
  /\ ~down
  /\ \/ FirstInitOthers(t) \/ FirstEnterSection(t) \/ SendAll(t) \/ FirstInsert(t)
     \/ SendAllInSector(t) \/ CollectPlayers(t) \/ ChangeSection(t) \/ EnterInsert(t)
     \/ Tell(t) \/ TellNobody(t) \/ AllTold(t)

\* A worker dequeues a completion of the session of p.
Request(t, p) ==
  /\ ~down
  /\ \/ StateChanged(t, p) \/ VillageEnter(t, p) \/ MoveWithoutSector(t, p)
     \/ \E side \in Sides : Disconnect(t, p, side)
     \/ \E d \in Directions : MoveProcess(t, p, d)

Next == \E t \in Workers : Work(t) \/ \E p \in Players : Request(t, p)

Spec == Init /\ [][Next]_vars

FairSpec == Spec /\ \A t \in Workers : WF_vars(Work(t))

-------------------------------------------------------------------------------
(* Properties *)

Quiet == ~down /\ \A t \in Workers : Idle(t)

\* The clients that are connected and in the village.
Present == {p \in Players \ Gone : entries[p] > 0}

\* When requests are handled one after the other and nobody enters twice, a
\* client knows between requests exactly the players of the sectors around its
\* own: nobody is missing, nobody is left behind, and a disconnected player is
\* seen only if it entered, or moved on, after it disappeared
\* (FirstEnterSection, EnterSection, LeaveSection, DisapearSection).  Two
\* workers break it: see the README.
ViewExact ==
  Quiet => \A p \in Present :
             /\ sector[p] # NoSector
             /\ view[p] \ {p} = {q \in Players \ {p} : sector[q] \in Near(sector[p])}

\* When requests are handled one after the other, EnterInView goes to clients
\* that do not know the player and LeaveInView to clients that do: a border
\* crossing repeats nothing to those who keep seeing it (the direction tables of
\* EnterSection and LeaveSection).
NoRepeat ==
  \A t \in Workers : \A q \in work[t].out \ Gone :
    /\ work[t].step \in {"hello", "gained"} => Who(t) \notin view[q]
    /\ work[t].step \in {"lost", "bye"} => Who(t) \in view[q]

\* VillageMoveProcess passes GetSector() on unchecked: a packet of a client finds
\* its player without a sector only if the client did not wait for the end of
\* its first entry, or its session was disconnected.
SectorKnown ==
  \A p \in Players \ Gone : MaySend(p) /\ cs[p] = NoWorker => sector[p] # NoSector

\* No client sends before the end of its first entry.
ClientsWait == \A p \in Players : Handling(p) => cs[p] = NoWorker

\* A client's m_cs, which its first entry holds while it sends to the others,
\* never makes workers wait for each other if the clients wait for the end of
\* their first entry: every request ends, unless the server goes down
\* (FirstEnterSection inserts the player after its messages to the others).
RequestsEnd == []ClientsWait => \A t \in Workers : ~Idle(t) ~> Idle(t) \/ down

\* The next three do not hold: see the README.

\* A player is in the map of no sector but the one it points to (the inserts
\* and erasures of Sector.cpp and the SetSector calls before them).
OneSector ==
  \A p \in Players, g \in Grid : p \in map[g] => sector[p] = g

\* When two players are in the village and nothing is going on, each knows of
\* the other if it is near (FirstEnterSection tells the near players).
Introduced ==
  Quiet => \A p, q \in Present :
    sector[p] # NoSector /\ sector[q] \in Near(sector[p]) => q \in view[p] \cup {p}

\* A session whose receive and send have ended is in no sector (DisapearSection).
NoGhost ==
  Quiet => \A p \in Players : ends[p] = Sides => \A g \in Grid : p \notin map[g]
================================================================================
