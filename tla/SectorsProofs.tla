----------------------------- MODULE SectorsProofs -----------------------------
(***************************************************************************)
(* Proofs about Sectors for any number of players and workers and any grid:*)
(* types, the sector of a client that may send, and the tables of what a   *)
(* step over a border brings into and out of view.                         *)
(***************************************************************************)
EXTENDS Sectors, FiniteSetTheorems, TLAPS

-------------------------------------------------------------------------------
(* Types *)

\* The sector a player is on its way to is one of the grid.
Moving(t) ==
  work[t].step \in {"lost", "forget"} => Step(work[t].at, work[t].dir) \in Grid

Types == TypeOK /\ \A t \in Workers : Moving(t)

EndsTyped ==
  ends \in [Players -> SUBSET Sides] /\ \A p \in Players \ Drops : ends[p] = {}

EntriesTyped ==
  entries \in [Players -> 0 .. 2] /\ \A p \in Players \ Again : entries[p] < 2

LEMMA FreeTyped == Free \in Works /\ Free.step = "idle" /\ Entry \in Grid /\ AnyPlayer \in Players
<1>1. AnyPlayer \in Players BY SectorAssumption DEF SectorAssumption, AnyPlayer
<1>2. Entry \in Grid BY SectorAssumption DEF SectorAssumption, Entry, Grid
<1>3. Middle \in Directions BY DEF Middle, Directions
<1> QED BY <1>1, <1>2, <1>3 DEF Free, Works, Steps

LEMMA SidesTyped ==
  ASSUME NEW g, NEW d
  PROVE  Near(g) \subseteq Grid /\ Side(g, d) \subseteq Grid
         /\ Gained(g, d) \subseteq Grid /\ Lost(g, d) \subseteq Grid
BY DEF Near, Side, Gained, Lost

LEMMA PlayersTyped ==
  ASSUME TypeOK, NEW G \in SUBSET Grid PROVE PlayersIn(G) \subseteq Players
BY DEF TypeOK, PlayersIn

LEMMA NearTyped ==
  ASSUME TypeOK, NEW g PROVE NearPlayers(g) \subseteq Players
BY SidesTyped, PlayersTyped DEF NearPlayers

\* What a worker does with its own variable.
LEMMA ContinueFacts ==
  ASSUME Types, NEW t \in Workers, NEW w, Continue(t, w)
  PROVE  /\ work'[t] = w /\ \A u \in Workers : u # t => work'[u] = work[u]
         /\ w \in Works => work' \in [Workers -> Works]
         /\ Moving(t)' => \A u \in Workers : Moving(u)'
BY DEF Continue, Types, TypeOK, Moving

LEMMA MovingOne ==
  ASSUME Types, NEW t \in Workers, NEW w \in Works, Continue(t, w),
         w.step \in {"lost", "forget"} => Step(w.at, w.dir) \in Grid
  PROVE  work' \in [Workers -> Works] /\ \A u \in Workers : Moving(u)'
BY ContinueFacts DEF Moving

LEMMA WorkTyped ==
  ASSUME Types, NEW t \in Workers
  PROVE  /\ work[t] \in Works /\ Who(t) \in Players /\ work[t].at \in Grid /\ work[t].dir \in Directions
         /\ work[t].rest \subseteq Grid /\ work[t].out \subseteq Players /\ work[t].step \in Steps
         /\ work[t].step \in {"lost", "forget"} => Step(work[t].at, work[t].dir) \in Grid
BY DEF Types, TypeOK, Works, Who, Moving

LEMMA PartsTyped ==
  ASSUME Types
  PROVE  /\ map \in [Grid -> SUBSET Players] /\ sector \in [Players -> Grid \cup {NoSector}]
         /\ EntriesTyped /\ EndsTyped
         /\ view \in [Players -> SUBSET Players] /\ down \in BOOLEAN
         /\ cs \in [Players -> Workers \cup {NoWorker}] /\ work \in [Workers -> Works]
         /\ \A t \in Workers : Moving(t)
BY DEF Types, TypeOK, EntriesTyped, EndsTyped

LEMMA TypesParts ==
  ASSUME map' \in [Grid -> SUBSET Players], sector' \in [Players -> Grid \cup {NoSector}],
         EntriesTyped', EndsTyped',
         view' \in [Players -> SUBSET Players], down' \in BOOLEAN,
         cs' \in [Players -> Workers \cup {NoWorker}], work' \in [Workers -> Works],
         \A t \in Workers : Moving(t)'
  PROVE  Types'
BY DEF Types, TypeOK, EntriesTyped, EndsTyped

LEMMA KeptParts ==
  ASSUME Types, UNCHANGED sessionVars,
         map' \in [Grid -> SUBSET Players], sector' \in [Players -> Grid \cup {NoSector}],
         view' \in [Players -> SUBSET Players],
         cs' \in [Players -> Workers \cup {NoWorker}], work' \in [Workers -> Works],
         \A t \in Workers : Moving(t)'
  PROVE  Types'
<1>1. EntriesTyped' /\ EndsTyped' /\ down' \in BOOLEAN
  BY PartsTyped DEF sessionVars, EntriesTyped, EndsTyped
<1> QED BY <1>1, TypesParts

\* A worker that found a null pointer: nothing else changes.
LEMMA DownTypes ==
  ASSUME Types, down' = TRUE, UNCHANGED <<placeVars, entries, ends, view, cs, work>> PROVE Types'
<1>1. UNCHANGED <<map, sector, entries, ends, view, cs, work>> BY DEF placeVars
<1>2. EntriesTyped' /\ EndsTyped' /\ \A t \in Workers : Moving(t)'
  BY <1>1, PartsTyped DEF EntriesTyped, EndsTyped, Moving
<1> QED BY <1>1, <1>2, PartsTyped, TypesParts

LEMMA ClientTyped ==
  ASSUME Types, NEW p \in Players, NEW some \in SUBSET Players, Meets(p, some) \/ Forgets(p, some)
  PROVE  view' \in [Players -> SUBSET Players]
BY PartsTyped DEF Meets, Forgets, Hears

LEMMA MapTyped ==
  ASSUME Types, NEW p \in Players, NEW g \in Grid
  PROVE  /\ Insert(g, p) \in [Grid -> SUBSET Players] /\ Erase(g, p) \in [Grid -> SUBSET Players]
BY PartsTyped DEF Insert, Erase

LEMMA TypesInit == Init => Types
<1>1. ASSUME Init PROVE TypeOK
  <2>1. entries \in [Players -> 0 .. 2] /\ \A p \in Players : entries[p] < 2
    BY <1>1 DEF Init
  <2>2. ends \in [Players -> SUBSET Sides] /\ \A p \in Players : ends[p] = {}
    BY <1>1 DEF Init
  <2>3. work \in [Workers -> Works] BY <1>1, FreeTyped DEF Init
  <2>4. down \in BOOLEAN BY <1>1 DEF Init
  <2>5. /\ map \in [Grid -> SUBSET Players] /\ sector \in [Players -> Grid \cup {NoSector}]
        /\ view \in [Players -> SUBSET Players] /\ cs \in [Players -> Workers \cup {NoWorker}]
    BY <1>1 DEF Init
  <2> QED BY <2>1, <2>2, <2>3, <2>4, <2>5 DEF TypeOK
<1>2. Init => \A t \in Workers : Moving(t) BY FreeTyped DEF Init, Moving
<1> QED BY <1>1, <1>2 DEF Types

LEMMA FirstEnterTypes ==
  ASSUME Types, NEW t \in Workers, NEW p \in Players, StateChanged(t, p) \/ VillageEnter(t, p)
  PROVE  Types'
<1>1. /\ FirstEnter(t, p) /\ entries[p] \in 0 .. 1 /\ (entries[p] = 0 \/ p \in Again)
      /\ cs' = cs \/ cs' = [cs EXCEPT ![p] = t]
  BY DEF StateChanged, VillageEnter
<1>2. EntriesTyped'
  <2>1. entries' = [entries EXCEPT ![p] = entries[p] + 1] BY <1>1 DEF FirstEnter
  <2>2. entries[p] + 1 \in 0 .. 2 /\ (entries[p] + 1 < 2 \/ p \in Again) BY <1>1
  <2> QED BY <2>1, <2>2, PartsTyped DEF EntriesTyped
<1>4. cs' \in [Players -> Workers \cup {NoWorker}] BY <1>1, PartsTyped
<1> DEFINE w == [Free EXCEPT !.step = "others", !.who = p, !.out = NearPlayers(Entry)]
<1>5. Continue(t, w) /\ map' = map /\ sector' = sector /\ ends' = ends /\ view' = view /\ down' = down
  BY <1>1 DEF FirstEnter, placeVars
<1>6. w \in Works /\ w.step = "others" BY FreeTyped, NearTyped DEF Works, Steps, Types
<1> HIDE DEF w
<1>7. work' \in [Workers -> Works] /\ \A u \in Workers : Moving(u)' BY <1>5, <1>6, MovingOne
<1>8. EndsTyped' BY <1>5, PartsTyped DEF EndsTyped
<1> QED BY <1>2, <1>4, <1>5, <1>7, <1>8, PartsTyped, TypesParts

LEMMA MoveTypes ==
  ASSUME Types, NEW t \in Workers, NEW p \in Players, NEW d \in Directions, MoveProcess(t, p, d)
  PROVE  Types'
<1>1. PICK g \in Grid : g = sector[p] BY PartsTyped DEF MoveProcess
<1>2. view' = view /\ UNCHANGED sessionVars /\ cs' = cs
  BY DEF MoveProcess
<1>4. CASE /\ Continue(t, [Free EXCEPT !.step = "moved", !.who = p, !.out = NearPlayers(g) \ {p}])
           /\ UNCHANGED placeVars
  <2> DEFINE w == [Free EXCEPT !.step = "moved", !.who = p, !.out = NearPlayers(g) \ {p}]
  <2>1. w \in Works /\ w.step = "moved" BY FreeTyped, NearTyped DEF Works, Steps, Types
  <2>2. Continue(t, w) /\ map' = map /\ sector' = sector BY <1>4 DEF placeVars
  <2> HIDE DEF w
  <2>3. work' \in [Workers -> Works] /\ \A u \in Workers : Moving(u)' BY <2>1, <2>2, MovingOne
  <2> QED BY <1>2, <2>2, <2>3, PartsTyped, KeptParts
<1>5. CASE UNCHANGED <<placeVars, work>>
  <2>1. \A u \in Workers : Moving(u)' BY <1>5, PartsTyped DEF Moving
  <2> QED BY <1>2, <1>5, <2>1, PartsTyped, KeptParts DEF placeVars
<1>6. CASE /\ ~NoNewSector(g, d)
           /\ sector' = [sector EXCEPT ![p] = NoSector]
           /\ map' = Erase(g, p)
           /\ Continue(t, [Free EXCEPT !.step = "lost", !.who = p, !.at = g,
                                       !.dir = d, !.rest = Lost(g, d)])
  <2> DEFINE w == [Free EXCEPT !.step = "lost", !.who = p, !.at = g, !.dir = d, !.rest = Lost(g, d)]
  <2>1. w \in Works /\ w.at = g /\ w.dir = d BY FreeTyped, SidesTyped DEF Works, Steps
  <2>2. Continue(t, w) /\ Step(w.at, w.dir) \in Grid BY <1>6, <2>1 DEF NoNewSector
  <2> HIDE DEF w
  <2>3. work' \in [Workers -> Works] /\ \A u \in Workers : Moving(u)' BY <2>1, <2>2, MovingOne
  <2>4. map' \in [Grid -> SUBSET Players] /\ sector' \in [Players -> Grid \cup {NoSector}]
    BY <1>6, MapTyped, PartsTyped
  <2> QED BY <1>2, <2>3, <2>4, PartsTyped, KeptParts
<1> QED BY <1>1, <1>4, <1>5, <1>6 DEF MoveProcess

LEMMA DisconnectTypes ==
  ASSUME Types, NEW t \in Workers, NEW p \in Players, NEW side \in Sides, Disconnect(t, p, side) PROVE Types'
<1>1. EntriesTyped' /\ EndsTyped' /\ view' = view /\ down' = down /\ cs' = cs
  <2>1. /\ p \in Drops /\ ends' = [ends EXCEPT ![p] = ends[p] \cup {side}]
        /\ entries' = entries /\ view' = view /\ down' = down /\ cs' = cs
    BY DEF Disconnect
  <2>2. EndsTyped' BY <2>1, PartsTyped DEF EndsTyped
  <2>3. EntriesTyped' BY <2>1, PartsTyped DEF EntriesTyped
  <2> QED BY <2>1, <2>2, <2>3
<1>2. CASE UNCHANGED <<placeVars, work>>
  <2>1. \A u \in Workers : Moving(u)' BY <1>2, PartsTyped DEF Moving
  <2> QED BY <1>1, <1>2, <2>1, PartsTyped, TypesParts DEF placeVars
<1>3. ASSUME NEW g \in Grid, g = sector[p],
             /\ sector' = [sector EXCEPT ![p] = NoSector] /\ map' = Erase(g, p)
             /\ Continue(t, [Free EXCEPT !.step = "bye", !.who = p,
                               !.out = UNION {Erase(g, p)[n] : n \in Near(g)}])
      PROVE  Types'
  <2> DEFINE w == [Free EXCEPT !.step = "bye", !.who = p,
                               !.out = UNION {Erase(g, p)[n] : n \in Near(g)}]
  <2>1. UNION {Erase(g, p)[n] : n \in Near(g)} \subseteq Players
    <3>1. PICK f \in [Grid -> SUBSET Players] : f = Erase(g, p) BY MapTyped
    <3>2. \A n \in Near(g) : f[n] \subseteq Players BY SidesTyped
    <3> QED BY <3>1, <3>2
  <2>2. w \in Works /\ w.step = "bye" BY <2>1, FreeTyped DEF Works, Steps
  <2>3. Continue(t, w) BY <1>3
  <2> HIDE DEF w
  <2>4. work' \in [Workers -> Works] /\ \A u \in Workers : Moving(u)' BY <2>2, <2>3, MovingOne
  <2>5. map' \in [Grid -> SUBSET Players] /\ sector' \in [Players -> Grid \cup {NoSector}]
    BY <1>3, MapTyped, PartsTyped
  <2> QED BY <1>1, <2>4, <2>5, PartsTyped, TypesParts
<1>4. sector[p] \in Grid \/ sector[p] = NoSector BY PartsTyped
<1> QED BY <1>2, <1>3, <1>4 DEF Disconnect

LEMMA EntryTypes ==
  ASSUME Types, NEW t \in Workers, FirstInitOthers(t) \/ FirstEnterSection(t) \/ SendAll(t)
  PROVE  Types'
<1>1. map' = map /\ UNCHANGED sessionVars /\ cs' = cs
  BY DEF FirstInitOthers, FirstEnterSection, SendAll, placeVars
<1>2. sector' \in [Players -> Grid \cup {NoSector}]
  BY PartsTyped, FreeTyped DEF FirstInitOthers, FirstEnterSection, SendAll, placeVars
<1>3. view' \in [Players -> SUBSET Players]
  <2>1. CASE FirstInitOthers(t)
    <3>1. PICK some \in SUBSET Players : Meets(Who(t), some)
      BY <2>1, WorkTyped DEF FirstInitOthers, Listed
    <3> QED BY <3>1, WorkTyped, ClientTyped
  <2>2. CASE FirstEnterSection(t)
    BY <2>2, WorkTyped, FreeTyped, MapTyped, PartsTyped DEF FirstEnterSection
  <2>3. CASE SendAll(t) BY <2>3, PartsTyped DEF SendAll
  <2> QED BY <2>1, <2>2, <2>3
<1>4. PICK w \in Works : Continue(t, w) /\ w.step \notin {"lost", "forget"}
  <2>1. CASE FirstInitOthers(t)
    <3>1. [work[t] EXCEPT !.step = "init", !.out = {}] \in Works BY WorkTyped DEF Works, Steps
    <3> QED BY <2>1, <3>1 DEF FirstInitOthers, Works
  <2>2. CASE FirstEnterSection(t)
    <3>1. [work[t] EXCEPT !.step = "sendall"] \in Works BY WorkTyped DEF Works, Steps
    <3> QED BY <2>2, <3>1 DEF FirstEnterSection, Works
  <2>3. CASE SendAll(t)
    <3>1. [work[t] EXCEPT !.step = "hello", !.out = NearPlayers(Entry)] \in Works
      BY WorkTyped, NearTyped DEF Works, Steps, Types
    <3> QED BY <2>3, <3>1 DEF SendAll, Works
  <2> QED BY <2>1, <2>2, <2>3
<1>5. work' \in [Workers -> Works] /\ \A u \in Workers : Moving(u)' BY <1>4, MovingOne
<1> QED BY <1>1, <1>2, <1>3, <1>5, PartsTyped, KeptParts

\* FirstInsert, EnterInsert and AllTold.
LEMMA EndTypes ==
  ASSUME Types, NEW t \in Workers, FirstInsert(t) \/ EnterInsert(t) \/ AllTold(t)
  PROVE  Types'
<1>1. sector' = sector /\ UNCHANGED sessionVars /\ Continue(t, Free)
  BY DEF FirstInsert, EnterInsert, AllTold, placeVars
<1>2. map' \in [Grid -> SUBSET Players]
  <2>1. \A g \in Grid : Insert(g, Who(t)) \in [Grid -> SUBSET Players] BY WorkTyped, MapTyped
  <2> QED BY <2>1, WorkTyped, FreeTyped, PartsTyped DEF FirstInsert, EnterInsert, AllTold, placeVars
<1>3. view' \in [Players -> SUBSET Players]
  <2>1. CASE EnterInsert(t)
    <3>1. PICK some \in SUBSET Players : Meets(Who(t), some)
      BY <2>1, WorkTyped DEF EnterInsert, Listed
    <3> QED BY <3>1, WorkTyped, ClientTyped
  <2>2. CASE FirstInsert(t) \/ AllTold(t)
    BY <2>2, PartsTyped DEF FirstInsert, AllTold
  <2> QED BY <2>1, <2>2
<1>4. cs' \in [Players -> Workers \cup {NoWorker}]
  BY PartsTyped DEF FirstInsert, EnterInsert, AllTold
<1>5. work' \in [Workers -> Works] /\ \A u \in Workers : Moving(u)' BY <1>1, FreeTyped, MovingOne
<1> QED BY <1>1, <1>2, <1>3, <1>4, <1>5, PartsTyped, KeptParts

LEMMA CrossTypes ==
  ASSUME Types, NEW t \in Workers, SendAllInSector(t) \/ CollectPlayers(t)
  PROVE  Types'
<1>1. /\ map' = map /\ sector' = sector /\ UNCHANGED sessionVars
      /\ view' = view /\ cs' = cs
  BY DEF SendAllInSector, CollectPlayers, placeVars
<1>2. PICK w \in Works : /\ Continue(t, w) /\ w.at = work[t].at /\ w.dir = work[t].dir
                         /\ w.step \in {"lost", "forget"} => work[t].step = "lost"
  <2>1. CASE SendAllInSector(t)
    <3>1. PICK g \in Grid : Continue(t, [work[t] EXCEPT !.rest = @ \ {g}, !.out = map[g]])
      BY <2>1, WorkTyped DEF SendAllInSector
    <3>2. map[g] \subseteq Players BY PartsTyped
    <3>3. [work[t] EXCEPT !.rest = @ \ {g}, !.out = map[g]] \in Works BY <3>2, WorkTyped DEF Works
    <3> QED BY <2>1, <3>1, <3>3 DEF SendAllInSector, Works
  <2>2. CASE CollectPlayers(t)
    <3>1. /\ PlayersIn(Lost(work[t].at, work[t].dir)) \subseteq Players
          /\ PlayersIn(Gained(work[t].at, work[t].dir)) \subseteq Players
      BY SidesTyped, PlayersTyped DEF Types
    <3>2. /\ [work[t] EXCEPT !.step = "forget",
                !.out = PlayersIn(Lost(work[t].at, work[t].dir))] \in Works
          /\ [work[t] EXCEPT !.step = "meet",
                !.out = PlayersIn(Gained(work[t].at, work[t].dir))] \in Works
      BY <3>1, WorkTyped DEF Works, Steps
    <3>3. PICK x \in {"forget", "meet"}, o \in SUBSET Players :
            /\ Continue(t, [work[t] EXCEPT !.step = x, !.out = o])
            /\ x = "forget" => work[t].step = "lost"
      BY <2>2, <3>1 DEF CollectPlayers, In
    <3>4. [work[t] EXCEPT !.step = x, !.out = o] \in Works BY <3>3, WorkTyped DEF Works, Steps
    <3> QED BY <3>3, <3>4, WorkTyped DEF Works
  <2> QED BY <2>1, <2>2
<1>3. work' \in [Workers -> Works] /\ \A u \in Workers : Moving(u)'
  BY <1>2, WorkTyped, MovingOne
<1> QED BY <1>1, <1>3, PartsTyped, KeptParts

LEMMA ChangeSectionTypes ==
  ASSUME Types, NEW t \in Workers, ChangeSection(t) PROVE Types'
<1>1. PICK new \in Grid : new = Step(work[t].at, work[t].dir)
  BY WorkTyped DEF ChangeSection, In
<1>2. /\ map' = map /\ UNCHANGED sessionVars /\ cs' = cs
      /\ sector' = [sector EXCEPT ![Who(t)] = new]
      /\ Continue(t, [work[t] EXCEPT !.step = "gained", !.at = new, !.out = {},
                                     !.rest = Gained(new, work[t].dir)])
  BY <1>1 DEF ChangeSection
<1>3. PICK some \in SUBSET Players : Forgets(Who(t), some)
  BY WorkTyped DEF ChangeSection, Listed
<1>4. view' \in [Players -> SUBSET Players]
  BY <1>3, WorkTyped, ClientTyped
<1> DEFINE w == [work[t] EXCEPT !.step = "gained", !.at = new, !.out = {},
                                !.rest = Gained(new, work[t].dir)]
<1>5. w \in Works /\ w.step = "gained" BY WorkTyped, SidesTyped DEF Works, Steps
<1> HIDE DEF w
<1>6. Continue(t, w) BY <1>2 DEF w
<1>7. work' \in [Workers -> Works] /\ \A u \in Workers : Moving(u)' BY <1>5, <1>6, MovingOne
<1>8. sector' \in [Players -> Grid \cup {NoSector}] BY <1>2, PartsTyped
<1> QED BY <1>2, <1>4, <1>7, <1>8, PartsTyped, KeptParts

LEMMA TellTypes ==
  ASSUME Types, NEW t \in Workers, Tell(t) PROVE Types'
<1>1. PICK q \in work[t].out :
        /\ \/ Meets(q, {Who(t)}) \/ Forgets(q, {Who(t)})
           \/ view' = view
        /\ Continue(t, [work[t] EXCEPT !.out = @ \ {q}])
        /\ map' = map /\ sector' = sector /\ UNCHANGED sessionVars /\ cs' = cs
  BY DEF Tell, placeVars
<1>2. q \in Players /\ {Who(t)} \in SUBSET Players BY WorkTyped
<1>3. view' \in [Players -> SUBSET Players]
  BY <1>1, <1>2, ClientTyped, PartsTyped, WorkTyped
<1> DEFINE w == [work[t] EXCEPT !.out = @ \ {q}]
<1>4. w \in Works /\ w.step = work[t].step /\ w.at = work[t].at /\ w.dir = work[t].dir
  BY WorkTyped DEF Works
<1> HIDE DEF w
<1>5. Continue(t, w) BY <1>1 DEF w
<1>6. work' \in [Workers -> Works] /\ \A u \in Workers : Moving(u)'
  BY <1>4, <1>5, WorkTyped, MovingOne
<1> QED BY <1>1, <1>3, <1>6, PartsTyped, KeptParts

LEMMA TypesStep == Types /\ [Next]_vars => Types'
<1> SUFFICES ASSUME Types, [Next]_vars PROVE Types' OBVIOUS
<1>1. ASSUME NEW t \in Workers, Work(t) PROVE Types'
  <2>1. TellNobody(t) => Types' BY DownTypes DEF TellNobody
  <2> QED BY <1>1, <2>1, EntryTypes, EndTypes, CrossTypes, ChangeSectionTypes, TellTypes DEF Work
<1>2. ASSUME NEW t \in Workers, NEW p \in Players, Request(t, p) PROVE Types'
  <2>1. MoveWithoutSector(t, p) => Types' BY DownTypes DEF MoveWithoutSector
  <2> QED BY <1>2, <2>1, FirstEnterTypes, MoveTypes, DisconnectTypes DEF Request
<1>3. CASE UNCHANGED vars BY <1>3 DEF vars, placeVars, Types, TypeOK, Moving
<1> QED BY <1>1, <1>2, <1>3 DEF Next

\* Sectors' variables keep their types, however the workers interleave: no
\* player is ever moved out of the grid of the village.
THEOREM SectorTypes == Spec => []TypeOK
<1>1. Types => TypeOK BY DEF Types
<1> QED BY <1>1, TypesInit, TypesStep, PTL DEF Spec

-------------------------------------------------------------------------------
(* What the workers do in each step *)

\* t takes step x of the request it handles, at the same place.
Goes(t, x) ==
  /\ work'[t].step = x /\ work'[t].who = work[t].who
  /\ work'[t].at = work[t].at /\ work'[t].dir = work[t].dir
  /\ \A u \in Workers : u # t => work'[u] = work[u]

LEMMA GoesFacts ==
  ASSUME Types, NEW t \in Workers
  PROVE  /\ \A x : Continue(t, [work[t] EXCEPT !.step = x]) => Goes(t, x)
         /\ \A x, o : Continue(t, [work[t] EXCEPT !.step = x, !.out = o]) => Goes(t, x)
         /\ \A r, o : Continue(t, [work[t] EXCEPT !.rest = r, !.out = o]) => Goes(t, work[t].step)
         /\ \A o : Continue(t, [work[t] EXCEPT !.out = o]) => Goes(t, work[t].step)
         /\ Continue(t, Free) =>
              work'[t].step = "idle" /\ \A u \in Workers : u # t => work'[u] = work[u]
<1>1. PICK w \in Works : w = work[t] BY WorkTyped
<1>2. \A v : Continue(t, v) => work'[t] = v /\ \A u \in Workers : u # t => work'[u] = work[u]
  BY ContinueFacts
<1>3. ASSUME NEW v, Continue(t, v), v.who = w.who, v.at = w.at, v.dir = w.dir
      PROVE  Goes(t, v.step)
  BY <1>1, <1>2, <1>3 DEF Goes
<1>4. ASSUME NEW x, NEW o, NEW r
      PROVE  /\ Continue(t, [w EXCEPT !.step = x]) => Goes(t, x)
             /\ Continue(t, [w EXCEPT !.step = x, !.out = o]) => Goes(t, x)
             /\ Continue(t, [w EXCEPT !.rest = r, !.out = o]) => Goes(t, w.step)
             /\ Continue(t, [w EXCEPT !.out = o]) => Goes(t, w.step)
  <2>1. PICK a, b, c, e : /\ a = [w EXCEPT !.step = x] /\ b = [w EXCEPT !.step = x, !.out = o]
                          /\ c = [w EXCEPT !.rest = r, !.out = o] /\ e = [w EXCEPT !.out = o]
    OBVIOUS
  <2>2. /\ a.step = x /\ b.step = x /\ c.step = w.step /\ e.step = w.step
        /\ a.who = w.who /\ a.at = w.at /\ a.dir = w.dir
        /\ b.who = w.who /\ b.at = w.at /\ b.dir = w.dir
        /\ c.who = w.who /\ c.at = w.at /\ c.dir = w.dir
        /\ e.who = w.who /\ e.at = w.at /\ e.dir = w.dir
    BY <2>1 DEF Works
  <2>3. /\ Continue(t, a) => Goes(t, x)
        /\ Continue(t, b) => Goes(t, x)
        /\ Continue(t, c) => Goes(t, w.step)
        /\ Continue(t, e) => Goes(t, w.step)
    BY <1>3, <2>2
  <2> QED BY <2>1, <2>3
<1>5. Free.step = "idle" BY FreeTyped
<1> QED BY <1>1, <1>2, <1>4, <1>5

\* What a worker does next in each step of a request.
LEMMA Proceeds ==
  ASSUME Types, NEW t \in Workers, Work(t)
  PROVE  \/ FirstInitOthers(t) /\ work[t].step = "others" /\ Goes(t, "init")
         \/ FirstEnterSection(t) /\ work[t].step = "init" /\ Goes(t, "sendall")
         \/ SendAll(t) /\ work[t].step = "sendall" /\ Goes(t, "hello")
         \/ SendAllInSector(t) /\ work[t].step \in {"lost", "gained"} /\ Goes(t, work[t].step)
         \/ CollectPlayers(t) /\ \/ work[t].step = "lost" /\ Goes(t, "forget")
                                 \/ work[t].step = "gained" /\ Goes(t, "meet")
         \/ ChangeSection(t) /\ work[t].step = "forget"
         \/ Tell(t) /\ work[t].step \in {"hello", "gained", "lost", "bye", "moved"}
                    /\ Goes(t, work[t].step)
         \/ /\ \/ FirstInsert(t) /\ work[t].step = "hello"
               \/ EnterInsert(t) /\ work[t].step = "meet"
               \/ AllTold(t) /\ work[t].step \in {"moved", "bye"}
            /\ work'[t].step = "idle" /\ \A u \in Workers : u # t => work'[u] = work[u]
         \/ TellNobody(t) /\ work' = work
<1>1. FirstInitOthers(t) => work[t].step = "others" /\ Goes(t, "init")
  BY GoesFacts DEF FirstInitOthers, In
<1>2. FirstEnterSection(t) => work[t].step = "init" /\ Goes(t, "sendall")
  BY GoesFacts DEF FirstEnterSection, In
<1>3. SendAll(t) => work[t].step = "sendall" /\ Goes(t, "hello") BY GoesFacts DEF SendAll, In
<1>4. ASSUME SendAllInSector(t)
      PROVE  work[t].step \in {"lost", "gained"} /\ Goes(t, work[t].step)
  <2>1. PICK g \in work[t].rest : Continue(t, [work[t] EXCEPT !.rest = @ \ {g}, !.out = map[g]])
    BY <1>4 DEF SendAllInSector
  <2>2. PICK r, o : Continue(t, [work[t] EXCEPT !.rest = r, !.out = o])
    <3>1. [work[t] EXCEPT !.rest = @ \ {g}, !.out = map[g]]
            = [work[t] EXCEPT !.rest = work[t].rest \ {g}, !.out = map[g]]
      BY WorkTyped DEF Works
    <3> QED BY <2>1, <3>1
  <2> QED BY <1>4, <2>2, GoesFacts DEF SendAllInSector
<1>5. CollectPlayers(t) => \/ work[t].step = "lost" /\ Goes(t, "forget")
                           \/ work[t].step = "gained" /\ Goes(t, "meet")
  BY GoesFacts DEF CollectPlayers, In
<1>6. ChangeSection(t) => work[t].step = "forget" BY DEF ChangeSection, In
<1>7. ASSUME Tell(t)
      PROVE  work[t].step \in {"hello", "gained", "lost", "bye", "moved"} /\ Goes(t, work[t].step)
  <2>1. PICK q \in work[t].out : Continue(t, [work[t] EXCEPT !.out = @ \ {q}]) BY <1>7 DEF Tell
  <2>2. PICK o : Continue(t, [work[t] EXCEPT !.out = o])
    <3>1. [work[t] EXCEPT !.out = @ \ {q}] = [work[t] EXCEPT !.out = work[t].out \ {q}]
      BY WorkTyped DEF Works
    <3> QED BY <2>1, <3>1
  <2> QED BY <1>7, <2>2, GoesFacts DEF Tell, In
<1>8. FirstInsert(t) \/ EnterInsert(t) \/ AllTold(t) =>
        work'[t].step = "idle" /\ \A u \in Workers : u # t => work'[u] = work[u]
  BY GoesFacts DEF FirstInsert, EnterInsert, AllTold
<1>9. /\ FirstInsert(t) => work[t].step = "hello"
      /\ EnterInsert(t) => work[t].step = "meet"
      /\ AllTold(t) => work[t].step \in {"moved", "bye"}
  BY DEF FirstInsert, EnterInsert, AllTold, In
<1>10. TellNobody(t) => work' = work BY DEF TellNobody
<1> QED BY <1>1, <1>2, <1>3, <1>4, <1>5, <1>6, <1>7, <1>8, <1>9, <1>10 DEF Work

\* The crossing of a border: the only step that takes the player elsewhere.
LEMMA Crosses ==
  ASSUME Types, NEW t \in Workers, ChangeSection(t)
  PROVE  \E g \in Grid :
           /\ g = Step(work[t].at, work[t].dir) /\ sector' = [sector EXCEPT ![work[t].who] = g]
           /\ work'[t].step = "gained" /\ work'[t].at = g /\ work'[t].out = {}
           /\ work'[t].dir = work[t].dir /\ work'[t].who = work[t].who
           /\ work'[t].rest = Gained(g, work[t].dir)
           /\ \A u \in Workers : u # t => work'[u] = work[u]
<1>1. PICK g \in Grid : g = Step(work[t].at, work[t].dir) BY WorkTyped DEF ChangeSection, In
<1>2. PICK w \in Works : w = work[t] BY WorkTyped
<1>3. PICK v : v = [w EXCEPT !.step = "gained", !.at = g, !.out = {}, !.rest = Gained(g, w.dir)]
  OBVIOUS
<1>4. v.step = "gained" /\ v.at = g /\ v.out = {} /\ v.dir = w.dir /\ v.who = w.who
      /\ v.rest = Gained(g, w.dir)
  BY <1>3 DEF Works
<1>5. Continue(t, v) /\ sector' = [sector EXCEPT ![work[t].who] = g]
  BY <1>1, <1>2, <1>3 DEF ChangeSection, Who
<1>6. work'[t] = v /\ \A u \in Workers : u # t => work'[u] = work[u] BY <1>5, ContinueFacts
<1> QED BY <1>1, <1>2, <1>4, <1>5, <1>6

\* t, idle until now, begins with step x of a request of p.
Begins(t, p, x) ==
  /\ work[t].step = "idle" /\ work'[t].step = x /\ work'[t].who = p
  /\ \A u \in Workers : u # t => work'[u] = work[u]

Removed(p) ==
  \E g \in Grid :
    /\ g = sector[p] /\ sector' = [sector EXCEPT ![p] = NoSector] /\ map' = Erase(g, p)

LEMMA Enters ==
  ASSUME Types, NEW t \in Workers, NEW p \in Players, StateChanged(t, p) \/ VillageEnter(t, p)
  PROVE  /\ Begins(t, p, "others") /\ sector' = sector /\ ends' = ends
         /\ entries' = [entries EXCEPT ![p] = entries[p] + 1]
<1>1. PICK w : w = [Free EXCEPT !.step = "others", !.who = p, !.out = NearPlayers(Entry)] OBVIOUS
<1>2. w.step = "others" /\ w.who = p BY <1>1 DEF Free
<1>3. Continue(t, w) /\ work[t].step = "idle"
  BY <1>1 DEF StateChanged, VillageEnter, FirstEnter, Idle, In
<1>4. work'[t] = w /\ \A u \in Workers : u # t => work'[u] = work[u] BY <1>3, ContinueFacts
<1>5. /\ sector' = sector /\ ends' = ends
      /\ entries' = [entries EXCEPT ![p] = entries[p] + 1]
  BY DEF StateChanged, VillageEnter, FirstEnter, placeVars
<1> QED BY <1>2, <1>3, <1>4, <1>5 DEF Begins

LEMMA MoveBegins ==
  ASSUME Types, NEW t \in Workers, NEW p \in Players, NEW d \in Directions, MoveProcess(t, p, d)
  PROVE  /\ sector[p] # NoSector /\ entries' = entries /\ ends' = ends /\ work[t].step = "idle"
         /\ \/ /\ Begins(t, p, "moved") /\ map' = map /\ sector' = sector
            \/ work' = work /\ map' = map /\ sector' = sector
            \/ /\ Begins(t, p, "lost") /\ Removed(p) /\ Step(sector[p], d) \in Grid /\ d # Middle
               /\ work'[t].at = sector[p] /\ work'[t].dir = d
               /\ work'[t].rest = Lost(sector[p], d) /\ work'[t].out = {}
<1>1. sector[p] # NoSector /\ entries' = entries /\ ends' = ends /\ work[t].step = "idle"
  BY DEF MoveProcess, sessionVars, Idle, In
<1>2. PICK g \in Grid : g = sector[p] BY <1>1, PartsTyped
<1>3. PICK v, w : /\ v = [Free EXCEPT !.step = "moved", !.who = p, !.out = NearPlayers(g) \ {p}]
                  /\ w = [Free EXCEPT !.step = "lost", !.who = p, !.at = g,
                                      !.dir = d, !.rest = Lost(g, d)]
  OBVIOUS
<1>4. /\ v.step = "moved" /\ v.who = p
      /\ w.step = "lost" /\ w.who = p /\ w.at = g /\ w.dir = d /\ w.rest = Lost(g, d) /\ w.out = {}
  BY <1>3 DEF Free
<1>5. \/ Continue(t, v) /\ UNCHANGED placeVars
      \/ UNCHANGED <<placeVars, work>>
      \/ /\ Continue(t, w) /\ ~NoNewSector(g, d) /\ d # Middle
         /\ sector' = [sector EXCEPT ![p] = NoSector] /\ map' = Erase(g, p)
  BY <1>2, <1>3 DEF MoveProcess
<1>6. CASE Continue(t, v) /\ UNCHANGED placeVars
  <2>1. work'[t] = v /\ \A u \in Workers : u # t => work'[u] = work[u] BY <1>6, ContinueFacts
  <2> QED BY <1>1, <1>4, <1>6, <2>1 DEF Begins, placeVars
<1>7. CASE UNCHANGED <<placeVars, work>> BY <1>1, <1>7 DEF placeVars
<1>8. CASE /\ Continue(t, w) /\ ~NoNewSector(g, d) /\ d # Middle
           /\ sector' = [sector EXCEPT ![p] = NoSector] /\ map' = Erase(g, p)
  <2>1. work'[t] = w /\ \A u \in Workers : u # t => work'[u] = work[u] BY <1>8, ContinueFacts
  <2>2. Removed(p) BY <1>2, <1>8 DEF Removed
  <2>3. Begins(t, p, "lost") BY <1>1, <1>4, <2>1 DEF Begins
  <2> QED BY <1>1, <1>2, <1>4, <1>8, <2>1, <2>2, <2>3 DEF NoNewSector
<1> QED BY <1>5, <1>6, <1>7, <1>8

LEMMA DisconnectBegins ==
  ASSUME Types, NEW t \in Workers, NEW p \in Players, NEW side \in Sides, Disconnect(t, p, side)
  PROVE  /\ p \in Gone' /\ entries' = entries /\ work[t].step = "idle"
         /\ \A q \in Players : q # p => ends'[q] = ends[q] /\ sector'[q] = sector[q]
         /\ \A u \in Workers : u # t => work'[u] = work[u]
<1>1. /\ ends' = [ends EXCEPT ![p] = ends[p] \cup {side}]
      /\ entries' = entries /\ work[t].step = "idle"
      /\ \/ UNCHANGED <<placeVars, work>>
         \/ /\ sector' = [sector EXCEPT ![p] = NoSector]
            /\ \E w : Continue(t, w)
  BY DEF Disconnect, Idle, In
<1>2. \A q \in Players : q # p => ends'[q] = ends[q] /\ sector'[q] = sector[q]
  BY <1>1, PartsTyped DEF EndsTyped, placeVars
<1>3. p \in Gone' BY <1>1, PartsTyped DEF EndsTyped, Gone
<1>4. \A u \in Workers : u # t => work'[u] = work[u] BY <1>1, ContinueFacts
<1> QED BY <1>1, <1>2, <1>3, <1>4

-------------------------------------------------------------------------------
(* Sectors that are known *)

Placing == {"others", "init", "lost", "forget"}

\* Who is in the village has a sector, unless a worker is about to set it: in
\* the first entry, or between the old sector and the new one.
Located ==
  \A p \in Players : entries[p] > 0 /\ ends[p] = {} /\ sector[p] = NoSector =>
    \E t \in Workers : work[t].who = p /\ work[t].step \in Placing

LEMMA LocatedKept ==
  ASSUME Located, NEW t \in Workers, entries' = entries, ends' = ends,
         \A u \in Workers : u # t => work'[u] = work[u],
         \A p \in Players : \/ sector'[p] = sector[p] \/ sector'[p] # NoSector
                            \/ work'[t].who = p /\ work'[t].step \in Placing,
         work[t].step \in Placing =>
           \/ work'[t].step \in Placing /\ work'[t].who = work[t].who
           \/ sector'[work[t].who] # NoSector
  PROVE  Located'
<1> SUFFICES ASSUME NEW p \in Players, entries[p] > 0, ends[p] = {}, sector'[p] = NoSector
             PROVE  \E u \in Workers : work'[u].who = p /\ work'[u].step \in Placing
  BY DEF Located
<1>1. CASE sector[p] = NoSector
  <2>1. PICK u \in Workers : work[u].who = p /\ work[u].step \in Placing BY <1>1 DEF Located
  <2>2. CASE u = t BY <2>1, <2>2
  <2>3. CASE u # t BY <2>1, <2>3
  <2> QED BY <2>2, <2>3
<1>2. CASE sector[p] # NoSector BY <1>2
<1> QED BY <1>1, <1>2

LEMMA LocatedStep == Types /\ Located /\ [Next]_vars => Located'
<1> SUFFICES ASSUME Types, Located, [Next]_vars PROVE Located' OBVIOUS
<1>1. ASSUME NEW t \in Workers, Work(t) PROVE Located'
  <2>1. entries' = entries /\ ends' = ends
    BY <1>1 DEF Work, FirstInitOthers, FirstEnterSection, SendAll, FirstInsert, SendAllInSector,
       CollectPlayers, ChangeSection, EnterInsert, Tell, TellNobody, AllTold, sessionVars
  <2>2. work[t].who \in Players BY WorkTyped DEF Who
  <2>3. Entry \in Grid /\ \A g \in Grid : g # NoSector BY FreeTyped, NoSectorAssumption
  <2>4. CASE ChangeSection(t)
    <3>1. PICK g \in Grid : /\ sector' = [sector EXCEPT ![work[t].who] = g]
                            /\ \A u \in Workers : u # t => work'[u] = work[u]
      BY <2>4, Crosses
    <3>2. sector'[work[t].who] # NoSector /\ \A p \in Players : sector'[p] = sector[p] \/ sector'[p] # NoSector
      BY <2>2, <2>3, <3>1, PartsTyped
    <3> QED BY <2>1, <3>1, <3>2, LocatedKept
  <2>5. CASE FirstEnterSection(t)
    <3>1. sector' = [sector EXCEPT ![work[t].who] = Entry]
      BY <2>5 DEF FirstEnterSection, Who
    <3>2. sector'[work[t].who] # NoSector /\ \A p \in Players : sector'[p] = sector[p] \/ sector'[p] # NoSector
      BY <2>2, <2>3, <3>1, PartsTyped
    <3>3. \A u \in Workers : u # t => work'[u] = work[u]
      BY <2>5, GoesFacts DEF FirstEnterSection, Goes
    <3> QED BY <2>1, <3>2, <3>3, LocatedKept
  <2>6. CASE ~ChangeSection(t) /\ ~FirstEnterSection(t)
    <3>1. sector' = sector
      BY <1>1, <2>6 DEF Work, FirstInitOthers, SendAll, FirstInsert, SendAllInSector,
         CollectPlayers, EnterInsert, Tell, TellNobody, AllTold, placeVars
    <3>2. /\ \A u \in Workers : u # t => work'[u] = work[u]
          /\ work[t].step \in Placing => work'[t].step \in Placing /\ work'[t].who = work[t].who
      BY <1>1, <2>6, Proceeds DEF Goes, Placing
    <3> QED BY <2>1, <3>1, <3>2, LocatedKept
  <2> QED BY <2>4, <2>5, <2>6
<1>2. ASSUME NEW t \in Workers, NEW p \in Players, StateChanged(t, p) \/ VillageEnter(t, p)
      PROVE  Located'
  <2>1. /\ Begins(t, p, "others") /\ sector' = sector /\ ends' = ends
        /\ entries' = [entries EXCEPT ![p] = entries[p] + 1]
    BY <1>2, Enters
  <2> SUFFICES ASSUME NEW q \in Players, entries'[q] > 0, ends[q] = {}, sector[q] = NoSector
               PROVE  \E u \in Workers : work'[u].who = q /\ work'[u].step \in Placing
    BY <2>1 DEF Located
  <2>2. CASE q = p BY <2>1, <2>2 DEF Begins, Placing
  <2>3. CASE q # p
    <3>1. entries[q] > 0 BY <2>1, <2>3, PartsTyped
    <3>2. PICK u \in Workers : work[u].who = q /\ work[u].step \in Placing BY <3>1 DEF Located
    <3>3. u # t BY <2>1, <3>2 DEF Begins, Placing
    <3> QED BY <2>1, <3>2, <3>3 DEF Begins
  <2> QED BY <2>2, <2>3
<1>3. ASSUME NEW t \in Workers, NEW p \in Players, NEW d \in Directions, MoveProcess(t, p, d)
      PROVE  Located'
  <2>1. entries' = entries /\ ends' = ends /\ work[t].step = "idle" BY <1>3, MoveBegins
  <2>2. CASE sector' = sector /\ \A u \in Workers : u # t => work'[u] = work[u]
    BY <2>1, <2>2, LocatedKept DEF Placing
  <2>3. CASE Begins(t, p, "lost") /\ Removed(p)
    <3>1. \A q \in Players : q # p => sector'[q] = sector[q] BY <2>3, PartsTyped DEF Removed
    <3> QED BY <2>1, <2>3, <3>1, LocatedKept DEF Placing, Begins
  <2> QED BY <1>3, <2>2, <2>3, MoveBegins DEF Begins
<1>4. ASSUME NEW t \in Workers, NEW p \in Players, NEW side \in Sides, Disconnect(t, p, side)
      PROVE  Located'
  <2>1. /\ p \in Gone' /\ entries' = entries /\ work[t].step = "idle"
        /\ \A q \in Players : q # p => ends'[q] = ends[q] /\ sector'[q] = sector[q]
        /\ \A u \in Workers : u # t => work'[u] = work[u]
    BY <1>4, DisconnectBegins
  <2> SUFFICES ASSUME NEW q \in Players, entries[q] > 0, ends'[q] = {}, sector'[q] = NoSector
               PROVE  \E u \in Workers : work'[u].who = q /\ work'[u].step \in Placing
    BY <2>1 DEF Located
  <2>2. q # p BY <2>1 DEF Gone
  <2>3. ends[q] = {} /\ sector[q] = NoSector BY <2>1, <2>2
  <2>4. PICK u \in Workers : work[u].who = q /\ work[u].step \in Placing BY <2>3 DEF Located
  <2> QED BY <2>1, <2>4 DEF Placing
<1>5. CASE UNCHANGED <<placeVars, entries, ends, work>> BY <1>5 DEF placeVars, Located
<1>6. UNCHANGED vars => UNCHANGED <<placeVars, entries, ends, work>> BY DEF vars, placeVars
<1>7. \A t \in Workers, p \in Players :
        MoveWithoutSector(t, p) => UNCHANGED <<placeVars, entries, ends, work>>
  BY DEF MoveWithoutSector
<1> QED BY <1>1, <1>2, <1>3, <1>4, <1>5, <1>6, <1>7 DEF Next, Request

LEMMA LocatedMeansKnown == Types /\ Located => SectorKnown
<1> SUFFICES ASSUME Types, Located, NEW p \in Players \ Gone, MaySend(p), cs[p] = NoWorker,
                    sector[p] = NoSector
             PROVE  FALSE
  BY DEF SectorKnown
<1>1. entries[p] > 0 /\ ends[p] = {} BY DEF MaySend, Gone
<1>2. PICK t \in Workers : work[t].who = p /\ work[t].step \in Placing BY <1>1 DEF Located
<1>3. cs[p] = t BY <1>2 DEF MaySend, Handling, Who, Placing
<1> QED BY <1>3, SectorAssumption DEF SectorAssumption

\* VillageMoveProcess never gets a null sector for a client that waited for the
\* end of its first entry and whose session nothing has disconnected, however
\* the handlers of all players and the disconnections of the others interleave,
\* and however often players enter the village.
THEOREM SectorKnownCorrect == Spec => []SectorKnown
<1>1. Init => Located BY DEF Init, Located
<1> QED BY <1>1, TypesInit, TypesStep, LocatedStep, LocatedMeansKnown, PTL DEF Spec

-------------------------------------------------------------------------------
(* The grid *)

\* The tables of EnterSection and LeaveSection of Sector.cpp, for a grid of any
\* size and a step in any direction, along its edges and across its corners: the
\* lost sectors are exactly those in view before the step and not after it, and
\* the gained ones exactly those in view after the step and not before it.
THEOREM ViewAcrossBorder ==
  ASSUME NEW g \in Grid, NEW d \in Directions, NEW h \in Grid, h = Step(g, d)
  PROVE  Lost(g, d) = Near(g) \ Near(h) /\ Gained(h, d) = Near(h) \ Near(g)
<1>1. PICK a \in Int, b \in Int : g = <<a, b>> BY SectorAssumption DEF Grid, SectorAssumption
<1>2. PICK c \in -1 .. 1, e \in -1 .. 1 : d = <<c, e>> BY DEF Directions
<1>3. h = <<a + c, b + e>> BY <1>1, <1>2 DEF Step
<1>4. ASSUME NEW n \in Grid
      PROVE  /\ n \in Lost(g, d) <=> n \in Near(g) \ Near(h)
             /\ n \in Gained(h, d) <=> n \in Near(h) \ Near(g)
  <2>1. PICK i \in Int, j \in Int : n = <<a + i, b + j>>
    <3>1. PICK x \in Int, y \in Int : n = <<x, y>> BY SectorAssumption DEF Grid, SectorAssumption
    <3>2. x - a \in Int /\ y - b \in Int /\ x = a + (x - a) /\ y = b + (y - b) BY <1>1, <3>1
    <3> QED BY <3>1, <3>2
  <2>2. n \in Near(g) <=> i \in -1 .. 1 /\ j \in -1 .. 1 BY <1>1, <2>1 DEF Near
  <2>3. n \in Near(h) <=> i - c \in -1 .. 1 /\ j - e \in -1 .. 1 BY <1>1, <1>2, <1>3, <2>1 DEF Near
  <2>4. n \in Lost(g, d) <=> /\ n \in Near(g)
                             /\ (c # 0 /\ i + c = 0) \/ (e # 0 /\ j + e = 0)
    BY <1>1, <1>2, <2>1 DEF Lost, Side
  <2>5. n \in Gained(h, d) <=> /\ n \in Near(h)
                               /\ (c # 0 /\ i - c = c) \/ (e # 0 /\ j - e = e)
    BY <1>1, <1>2, <1>3, <2>1 DEF Gained, Side
  <2>6. /\ i \in -1 .. 1 => (c # 0 /\ i + c = 0 <=> i - c \notin -1 .. 1)
        /\ i - c \in -1 .. 1 => (c # 0 /\ i - c = c <=> i \notin -1 .. 1)
    BY <1>2, <2>1
  <2>7. /\ j \in -1 .. 1 => (e # 0 /\ j + e = 0 <=> j - e \notin -1 .. 1)
        /\ j - e \in -1 .. 1 => (e # 0 /\ j - e = e <=> j \notin -1 .. 1)
    BY <1>2, <2>1
  <2> QED BY <2>2, <2>3, <2>4, <2>5, <2>6, <2>7
<1>5. Near(g) \subseteq Grid /\ Near(h) \subseteq Grid /\ Lost(g, d) \subseteq Grid /\ Gained(h, d) \subseteq Grid
  BY SidesTyped
<1> QED BY <1>4, <1>5
================================================================================
