# A TLA+ model of the IOCP game server (ServerPP)

The repository holds a Windows game server in C++ (`src/ServerPP/ServerPP`) that
serves its clients with I/O completion ports, and some test programs. This
directory holds TLA+ modules that model the server, the TLC configurations that
check them and proofs for TLAPS. Paths below are relative to
`src/ServerPP/ServerPP`.

Run, inside this directory:

    tlasany IOCPSession.tla
    tlc -workers 2 -config session_stream.cfg MCIOCPSession.tla
    tlapm IOCPSessionProofs.tla

## 1. The system

One thread loops on `DoFrame` and accepts clients. A pool of worker threads loops
on `GetQueuedCompletionStatus` (`IOCPNetworkManager::WorkerThread`). Everything
else happens in the workers: any worker handles any completion of any session.

    accept thread --accept packet--> completion port --> workers
    worker: completed receive -> OnCompleteRecv -> state handler -> managers -> Send (any session)
    worker: completed send    -> OnCompleteSend -> next packet, state's OnSendCompleted
    worker: failed operation  -> OnDisconnected -> sector, session set

| Part | State | Operations | What is hard | What makes it correct |
|---|---|---|---|---|
| IOCP session (`IOCPSession.cpp`) | `m_sendPacketQueue`, `m_newSendID`, `m_newRecvID`, `m_pRecvPacket`, `m_current_state`, `m_cs` | `Send`, `Recv`, `OnCompleteSend`, `OnCompleteRecv`, `OnBeforeDisconnected`, `ChangeState` | `Send` from many workers against completions; the receiving side has no lock; failure of any asynchronous call | one send and one receive at work; packets leave in order, whole and once; nothing accepted is forgotten; an open session listens, an ended one is removed |
| IOCP workers (`IOCPBase/IOCPNetworkManager.cpp`) | the port, the pending operations | `DoFrame`, dispatch, `RecvAsync`, `SendAsync`, `CompleteRecv`, `CompleteSend`, `OnAccepted`, `OnDisconnected` | completions of partial transfers, errors at every call, exceptions as control flow | every completion ends in a new operation, a handler or a disconnect |
| Session set (`IOCPSessionManager`) | `m_session_set` | `CreateSession`, `DestroySession` | an unlocked `std::unordered_set`, destroyed twice | a session is in the set while it can be used |
| Packets, streams (`NetBase/Packet.cpp`, `MemoryStream.cpp`) | size flag, byte counts, buffers | `GetReady`, `Clear`, `Packing`, `UnPackging`, `Read`, `Write` | partial receives and sends; reuse of packets | framing recovers the client's packets; a reused packet sends its own bytes |
| `PacketManager` | four `std::queue` pools | get and retrieve | no lock, no test for empty | a packet has one user |
| `CriticalSection` | owner, depth | `Lock`, `UnLock`, `AutoLocker` | recursion, unlocking by hand | balanced on every path |
| `ThreadSafeQueue`, `SQLManagerEx` | queue, two mutexes, condition variable | `Wait`, `Push`, `Pop`, `Finalize` | a wake-up between test and wait | not modelled: nothing starts the thread or pushes an item |
| Sign-in (`SignState`, `SignManager`) | `m_current_result`, the accounts table | sign up, in, out, delete | a result assigned after its answer was sent; check and insert in two queries | the state follows the answer; ids are unique |
| Character selection | chosen character | change, select, load | as above | only own characters are entered |
| Village and sectors (`VillageManager`, `SectorManager`, `Sector`) | `m_player_map`, near sectors, positions | first enter, move, leave, disappear, send to all | unlocked maps, locks of several sessions taken in handlers, batches of ten | who is near is seen, who leaves disappears |
| Parties (`PlayerPartyInfo`, `PlayerPartyManager`) | members, count, owner, map of parties | create, request, accept, reject, exit (kick, transfer and destroy have no caller) | stale requests, unlocking by hand, messages sent after the unlock | count = members, members know each other, one party per player |
| Game objects | next id, map | create, destroy | unlocked counter | ids are unique |
| Engine | order of the managers | initialise, loop, finalise | sequential | not modelled |
| Database, sockets, serialisation, cipher | wrappers | | pure I/O or data conversion | not modelled; sockets appear as the connection of `IOCPSession` |
| Test programs, vendored code | | | | not modelled |

`PROJECT.json` lists the same parts with their files (`components`) and what can
go wrong in each, line by line (`hazards`).

## 2. Modules

| Module | What it models |
|---|---|
| `SendStream` | abstract: what `Send` promises, an ordered stream of whole packets |
| `IOCPSession` | one session, the workers, the completion port, the connection |
| `MCIOCPSession` | its small instances (symmetry of the workers) |
| `IOCPSessionProofs` | its theorems about the lock, the pool and what is at work |
| `IOCPSessionOrderProofs` | its theorems about order, and that it implements `SendStream` |
| `PacketFraming` | one `RecvPacket`: size and body phases over a byte stream |
| `MCPacketFraming` | its small instances (sizes of the packets) |
| `PacketFramingProofs` | its theorems |
| `PacketPool` | the pools of `PacketManager` shared by several sessions and workers |
| `SignFlow` | sign-in, character selection and the change to the village, with the table of accounts |
| `Sectors` | who sees whom in a village: entering, moving, disconnecting |
| `PlayerParty` | the parties, their manager's lock and the handlers that change them |
| `SignFlowProofs`, `SectorsProofs`, `PlayerPartyProofs` | the theorems about these modules |
| `MCPacketPool`, `MCSignFlow`, `MCSectors`, `MCPlayerParty` | small instances |

The modules meet at interfaces that one of them shows and the others use:
`IOCPSession` implements `SendStream` (messages leave in the order of the calls of
`Send`, whole and once), so `Sectors` lets a message arrive when
`Send` is called; `IOCPSession` has one receive per session at work (`OneRecv`), so
the other modules have a session in one handler at a time; `PacketFraming` gives the
session whole packets, which are single completions elsewhere.

### IOCPSession

State, and what it stands for:

- `sock` is the connection as the two ends see it: not accepted, open, closed by
  the client (`fin`: receives return 0 bytes, sends still complete), lost
  (`reset`: every operation fails, calls fail).
- `sendQ`, `newSendID`, `newRecvID`, `owner` and `depth` are the members of the
  session; `pool` is the FIFO pool of SendPackets, `sendbytes` and `packetID`
  what a packet holds. `frontID` is the id at the start of a packet's stream:
  `Packing` appends and nothing sets the head of that stream back.
- `inflight` and `recvs` are the operations Winsock has, `port` the completions
  nobody dequeued. `inflight` is a sequence and `recvs` a number so that two
  pending operations *can* be represented; that there is never more than one is
  proved, not built in.
- `pc`, `ret` and `cur` are the local state of each worker: the step it is at,
  where the current call of `Send` returns to, and the completion it handles.
- `wire` and `handled` are history variables for the properties.

Every place at which another worker can observe or disturb the state is a step of
its own: entering `m_cs`, taking a packet and pushing it, the test for
`size() == 1` and the post, leaving; in `OnCompleteSend` the same for pop, post,
`OnSendCompleted` and leave; `CompleteSend` before the lock. `Send` is called
from a worker that serves another session (`ret = "wait"`), from
`OnRecvCompleted` (`"handler"`) and from `OnSendCompleted` (`"onsend"`, inside
`m_cs`). What the state's handlers do beyond calling `Send` belongs to later
modules. Posting an operation fails only on a lost connection, and may succeed
there too (the failure then comes with the completion). The order in which
completions are dequeued is left open: workers overtake one another between
`GetQueuedCompletionStatus` and their first step.

### PacketFraming

The bytes of a connection are numbered; packet `p` begins at `Begin[p]` with its
size in `HeaderBytes` bytes, followed by `Body[p]` bytes. `Received(n)` completes
the pending receive with any `n` bytes from one to the length asked for, stores
them where `m_wsabuf` points, and the value of `m_target_recvbytes` is the size
of the packet only if exactly the bytes of that packet's size are in it
(`ValuesOf`); any other value otherwise. So a size that is assembled from wrong
bytes is not silently right. `CompleteSize`, `CompletePart` and `CompleteBody` are
the branches of `CompleteRecv`; `ClearAndRecv` is the end of `OnCompleteRecv`.
The client's sizes are assumed to lie between 1 and the capacity: the code checks
neither (see the hazards).

### PacketPool

`pool`, `pointer`, `sendQ`, `live`, `recvPool` are `m_sendpacket_pool`,
`m_overlappedEx.pointer` of each packet, the queue of each session, the set of
sessions and the number of RecvPackets left. `GetSendPacketFromPool` is two steps,
`PoolFront` and `PoolPop`, because workers in the `m_cs` of different sessions are in
the same `std::queue`, which has no lock. A completion only names its packet: the worker
finds the session through `pointer`, as `WorkerThread` does, and `SendAsync` sets it
whether or not `WSASend` fails. `OnDisconnected` and `ClearPointer` are the two halves of
the catch block. `EndsServer` says where a wrong pointer or an empty queue is followed.
A send succeeds as a whole or fails; partial sends are the subject of `IOCPSession`.

### SignFlow

`state`, `result`, `isSigned` and `chosen` are `m_current_state`,
`m_current_result` of the sign and the selection state, `m_isSigned` and the chosen
character; `signinfo` is the table. The handlers of `SignManager` and
`CharacterSelectManager` are split at each query and at `Send`; `AssignResult` is the
assignment to `m_current_result` after the manager returned. The answer may be
sent, completed and looked at by `OnSendCompleted` before that. `OnSendCompleted` and
`OnChangedToThis` run inside `m_cs`; the worker reads `m_current_state` (`in`) when
it dequeues a receive, outside of it. `Throws` is an exception of a query or of an
unknown protocol, with which `WorkerThread` ends the session; `ListThrows` the same of
`LoadInfos` inside `OnSendCompleted`, where the client still waits on its connection.
`DeleteInfo` is empty in the source, so a deleted account keeps its row. `SignOut` of
the selection state is a TODO: `SelectSignOut` handles it and answers nothing.

### Sectors

`map` and `sector` are `m_player_map` of each sector and `GetSector` of each player;
`view` is whom each client was told of. `work` is the request of each worker:
which message goes to which players next. The players to tell are collected first
and told one after the other (`Tell`), and each `Send` waits for `m_cs` of its
receiver (`CanSend`); `cs` is held by the first entry, which `OnSendCompleted` runs.
`Side`, `Gained` and `Lost` stand for the direction tables of `EnterSection` and
`LeaveSection`, `Listed` for the batches whose `start_index` never moves. A position
is abstracted to the direction of the border it lies beyond: `GetRelativeDirInSector`
compares with the four borders and nothing else, so a jump over several sectors moves
one sector, as in the code.

A session is disconnected once when its receive ends and once when its send fails
(`ends`), by different workers and in either order. The failed send may run
`DisapearSection` while another worker handles a packet of the same player, for example
between `SetSector` and the insert of a crossing; a receive that completed before is
still handled after it (`MaySend`). Where the code then follows a null pointer the server
is `down`: `MoveProcess` without a sector (`MoveWithoutSector`), and `GetSession()` of a
player whose session nothing holds any more (`MayBeFreed`, `TellNobody`). The session
may also still be held by a completion somebody dequeued, so the model lets either happen.

Races inside `std::unordered_map` are undefined; the model keeps the maps whole and shows
what the order of whole operations can do. Left out: positions inside a sector, the
dummy players of debug builds, and streams not returned at `Sector.cpp:322` and `:483`.

### PlayerParty

`party` is the list of all `PlayerPartyInfo`s, `listed` the keys of `m_party_map`,
`holder` the owner of the manager's `m_cs`, `step` where the handler of each session is.
Clients may send any request for any party that was ever listed: the server checks no
membership. `CreateReturns` is the second unlock of `CreateParty` by `AutoLocker`; what
leaving a section one does not own does is open: nothing, freeing it, or jamming it.
`Exit` keeps `m_owner`, because its search compares the seats with the player just
removed.

Nothing ever sets the `PartyInfo` of a session, and the `PlayerInfo` of a reply is
read into a null pointer (`VillageState.cpp:97`, `PlayerPartyManager.h:236`), and a
rejected volunteer has no session to answer to (`RejectPlayer` has it by value). So each
reply of an owner ends the server (`RequestReply`), nobody ever becomes the second
member of a party, and the model has no more of `AcceptPlayer` than that: whatever the
code behind those pointers would do to a party is not something this program does.
An exit from a party that is not in the map ends the server as well.

## 3. What is checked

| Run | Instance | What it shows |
|---|---|---|
| `session_stream` | 2 workers, as many SendPackets as packets (3), packets of 2 bytes, 3 client packets, the latest may be repeated | `IOCPSession` implements `SendStream` (`ImplementsStream`); `PopsWhenSent`, `OneSend`, `SendsFront`, `QueueServed`, `OneRecv`, `HandledInOrder`, `TypeOK` |
| `session_live` | 2 fair workers, fair kernel, 3 packets, a client packet | `QueueDrains`, `WorkersReturn`, `Reaped`, `Listening`, `PoolDisjoint` |
| `framing` | 4 packets of 3, 1, 4 and 2 bytes, 4 bytes of size, buffer of 4 | `TypeOK`, `DeliversBodies`, `AsksForRest`, `EveryPacketArrives` |
| `sign_flow` | 2 fair workers, 2 sessions of 2 requests, one ID, queries that may throw | `Answered`, `HandledInState`, `TypeOK` |
| `sector_view` | 1 worker, 2 players that enter once, a grid of 4 by 3, both may be disconnected on both sides | `ViewExact`, `NoRepeat`, `TypeOK` |
| `sector_lock` | 2 fair workers, a grid of 2 by 1, one player that enters again, one that is disconnected | `RequestsEnd`, `SectorKnown` |
| `session_duplicate` | violation of `Listening` | see 5 |
| `session_accept_lost` | violation of `LostIsReaped` | see 5 |
| `session_reuse` | violation of `OwnBytes` | see 5 |
| `pool_race` | violation of `OneUser`: 2 workers, 2 sessions, 3 SendPackets | see 5 |
| `sign_race` | violation of `UniqueIDs`: 2 workers, 2 sessions of a request | see 5 |
| `party_erased` | violation of `ErasedEmpty`: 3 players, 2 workers, 2 parties | see 5 |

**Bounds of the sessions.** `MaxSend` and `MaxRecv` bound the calls of `Send` and the
client's packets; `PoolSuffices` keeps the pool from being empty (taking from an
empty `std::queue` is undefined). Two workers are enough for each pair of concurrent
steps: `m_cs` admits one at a time, one completion of a send and one of a receive
exist at most, and the third party, an outside caller, is whichever worker is idle. The
invariants are proved for any number of workers, packets and sends (section 4). Three
packets give queues of length 3, so that the front, the next and the newest packet
differ. Packets of 2 bytes give partial sends. In `PacketFraming` the sizes include 1,
less and more than the size of the header, and a full buffer; every cut of the stream
is explored. The sessions use as many SendPackets as packets because a reused one sends
wrong bytes (section 5).

**Bounds of the rest.** In `sign_flow` two sessions share an ID, one signs up and the
other signs in and selects; two workers overlap every pair of handlers and completions, of
one session and of both. `sector_view` has one worker: the property is about requests
handled one after the other, for which it says that the direction tables and the order of
the messages are right; section 5 says what overlapping, a second entry and long lists
break. Its grid of 4 by 3 has corners, edges and an inner pair, and sectors out of sight of
each other in one direction; `Batch = 1` with two players makes every list exactly one
batch, the largest the code sends whole. In `sector_lock`, waiting in a circle needs
overlapping entries, not space; what `RequestsEnd` needs of the clients (`ClientsWait`) is
its premise and not a bound of the run, in which they may send at any time.
`SectorKnown` excuses only a client that did not wait or whose own session was
disconnected; TLC checks it with entries, moves and disconnections of both sides
interleaved, and section 4 proves it.

**Deadlock** is not checked: the bounds, the end of a connection and a crash let the
systems stop. That no worker stops in the middle is `WorkersReturn`, `RequestsEnd` and
`Answered`.

**Fairness.** Weak fairness for each worker's steps (the operating system runs every
thread that can run) except entering a call of `Send`, which is the handler's choice;
weak fairness for the completion of a posted send and of a receive on an ended
connection (Winsock completes what was posted). Strong fairness, in `IOCPSession`, for
dequeuing the completion of a send: the port is a queue, so a completed send is not
overtaken for ever, whereas the model allows any order. No fairness for the client or
for losing the connection. In `PacketFraming`, workers are fair and the client's bytes
arrive. Entering `m_cs` is only weakly fair: that a worker gets in although others
compete for it holds because the calls are bounded (`MaxSend`, `Again`). `SignFlow`
adds that a posted answer is transmitted; in `Sectors` only the workers' steps within a
request are fair. `PacketPool` and `PlayerParty` state no liveness.

**Mutants.** Each property of the passing runs is shown to depend on the code by a
variant of one definition (named `<definition>_<what is wrong>`, for example `OnlyPacket_Any`:
`Send` posts whenever the queue is not empty) under which TLC finds it violated.

## 4. What is proved

`IOCPSessionProofs`, from `SessionAssumption` alone (a pool and bounds of any
size, `PacketBytes > 0`, `NoThread` not a worker), for any set of workers:

1. `Locking`: a worker owns `m_cs` exactly between entering and leaving, with
   depth 2 exactly if `Send` runs inside `OnSendCompleted`. Inductive by itself:
   every step is one that enters, leaves or calls, or is `Plain`.
2. `Typed`: the types, and that a worker which handles a completed receive or send
   holds such a completion. Uses `Locking` for the depth of `m_cs`.
3. `SendState`: `OneSend` and `SendsFront` are not inductive alone; the
   strengthening says that while a worker is about to post (`next`, or `post` with
   one packet in the queue) nothing is being sent, that is, pending, completed or
   in a worker's hands. Mutual exclusion by `Locking` gives that nobody else is
   about to post.
4. `PoolDisjoint`: queue and pool are disjoint and neither holds a packet twice.
5. `OneRecv`: strengthened by the worker that accepts: before the first receive
   nothing is pending.
6. `QueueServed`: from `SendState` and mutual exclusion: a queue becomes non-empty
   only by a worker that goes on to `post`, and what serves it goes away only at a
   worker that goes on to `next`. The strengthening says that a send completes
   without bytes only on a lost connection, and that nothing is queued before the
   connection is accepted.

`PacketFramingProofs`, from `FramingAssumption`: the invariant `Phases` says that
the bytes of the size (or body) received so far are at their place and that the
next byte of the stream is the one behind them; the target is only known once the
size is complete. From it follow the types, `DeliversBodies` and `AsksForRest`.

`IOCPSessionOrderProofs` extends `IOCPSessionProofs` and rests on its invariants.

1. `HandledInOrder`: `RecvOrder` says that nothing the client sent is still to be handled
   while a receive is pending, and that a completed whole packet is the client's latest.
   It needs the one receive at work; it holds also of clients that repeat a packet.
2. `Listening`, for clients that repeat none (`~Duplicates`; with repetitions it is
   false, section 5): a session in the set with an open connection has a receive pending,
   completed or in a worker's hands.
3. `PopsWhenSent`: `WireState` says that the bytes a completion reports are the last on the
   connection, so that what a worker counted outside `m_cs` is true until it pops inside.
4. `ImplementsStream`, from `Spec /\ []OwnBytes`: initial states map to initial states and
   every step to a step of `SendStream` or to a stutter. `Numbered` says that the queue
   holds consecutive ids, `StreamState` that the connection has got the packets
   before the front whole, and of the front the bytes its counter and an uncounted
   completion say. `OwnBytes` (no packet is sent with the bytes of an
   earlier packing) is what section 5 refutes for reused packets; `FirstUseIsOwn`
   discharges it for the first `PoolSize` calls of `Send`, so the refinement holds without
   assumption until the pool has gone round once (`StreamOfFirstUses`).

`SignFlowProofs`, from `SignAssumption`, for any number of workers, also when handlers
throw. `FlowInv` gives each session a stage: one request, at the port or with one worker,
one answer at work, and state, stored result and what is still to be told fit together.
From it `TypeOK` and `HandledInState`.

`SectorsProofs`, from `SectorAssumption`, for any grid, players, workers and second entries:

1. `TypeOK`, with the part that nobody is on its way out of the grid (`Moving`).
2. `SectorKnown`. The strengthening is `Located`: a player that entered and was not
   disconnected has a sector, or one worker is in a step of its entry or crossing at whose
   end it has one. A client that waited has no packet handled in the meantime, since
   its receive is posted at the end of the handler, and its first entry holds its `m_cs`.
3. `ViewAcrossBorder`: for a grid of any size, every sector, direction and neighbour, also
   along edges and across corners, the sectors `LeaveSection` treats are exactly those in
   view before the step and not after, and those of `EnterSection` exactly those in view after
   it and not before. It is what `ViewExact` and `NoRepeat` rest on, which are checked by
   TLC on one grid.

`PlayerPartyProofs`, for any number of players, seats, parties and workers and whatever
leaving a section one does not own does (`Apart`: the states of the lock and `NoPlayer`
are no players):

1. `TypeOK`, and `OwnerInside`: after the handler that took `m_cs` has returned it is not its
   owner, although `CreateParty` unlocks by hand beside `AutoLocker`.
2. `OwnerAlone`: a listed party has its owner alone (`AsCreated`: it is as `Create` made
   it). So the code for other members is dead as long as the replies end the server, which
   is why the hazards of that code have no property.

Only model-checked: the liveness properties (`QueueDrains`, `WorkersReturn`, `Reaped`,
`EveryPacketArrives`, `Answered`, `RequestsEnd`), which are beyond the prover, and
`ViewExact` and `NoRepeat`. Every other property of the passing runs is stated by a theorem.
Only proved: `OwnerInside` and `OwnerAlone`, which TLC found to hold on the instance of
`party_erased` (122,871 states).

## 5. Where code and comments disagree

- **A repeated packet silences the session** (`session_duplicate`). The comment at
  `IOCPSession.cpp:93` says that a duplicate packet is discarded; line 94 returns
  before `Clear` and `RecvAsync`, so nothing is received any more, not even the
  end of the connection.
- **A connection lost before the first receive is never removed**
  (`session_accept_lost`). `IOCPNetworkManager.cpp:344` notices that `Recv` failed
  and does nothing; the TODO at line 346 says what is missing.
- **A reused SendPacket sends old bytes** (`session_reuse`). `SendPacket::Clear`
  (`NetBase/Packet.cpp:163`) resets the counters but not the stream, to which
  `Packing` appends, while `GetReady` sends from its start. The comment on `Clear`
  (`NetBase/Packet.h:153`) says it initialises the packet when it is taken from
  the pool. With 1024 packets this needs the 1025th send of the server.
- **Two sessions share a SendPacket** (`pool_race`). `GetSendPacketFromPool`
  (`NetBase/PacketManager.cpp:109`) calls `front()` and `pop()` without a lock; the note at
  `src/ServerPP/Progress.txt:35` asks for one.
- **An ID gets two rows** (`sign_race`). Two sign-ups of an ID both find it free
  (`SignManager.cpp:172`); the comment at `SignInfo.h:9` forbids it.
- **A party is erased with its owner in it** (`party_erased`). `Exit` lowers the count for a
  stranger too (`PlayerPartyInfo.h:108`); the comment at `PlayerPartyManager.h:351-352` says
  that the party goes when nobody is left.

The following are refuted by TLC as well, on the instance of the run named with the
constants given and the property in place of the run's; no run of the project repeats
them.

| Run | Constants | Refuted | What the code does |
|---|---|---|---|
| `pool_race` | | `ClearsOwnPointer` | a worker whose send failed clears the pointer of a packet that another session has taken (`IOCPNetworkManager.cpp:230`) |
| | | `RecvPacketsReturned`, `SendPacketsReturned` | the packets of an ended session stay out of the pools (`IOCPNetworkManager.cpp:354`) |
| `sign_flow` | 1 session | `ListComes` | the answer completes before `m_current_result` is assigned; the client waits for its list for ever (`SignState.cpp:23`). With one worker only a failing query of the list does it |
| | 1 session, 1 worker | `SignedIn` | signing out leads to character selection (`SignState.cpp:75`) |
| `sector_view` | 2 workers | `ViewExact`, `NoRepeat`, `Introduced`, `NoGhost` | two that enter at once do not hear of each other; a disconnected player is listed, announced or inserted (`Sector.cpp:207`, `:211`, `:551`) |
| | 3 players, a grid of 2 by 1, entry at 0, 0 | `ViewExact` | the second batch repeats the first (`SectorManager.cpp:66`) |
| | `Again = {p1, p2}`, `Drops = {}` | `OneSector`, `ViewExact` | entering again leaves the player in the old sector's map (`VillageManager.cpp:74`) |
| `sector_lock` | 3 workers, `Again = {}`, `Drops = {}` | `RequestsEnd` without `ClientsWait` | two clients each send a move during their first entry, which puts them into the map early: the entries, each in its `m_cs`, then wait for each other's (`Sector.cpp:190`, `:207`) |
| `party_erased` | | `OneInside` | the second unlock of `CreateParty` frees the lock of another worker, if leaving a section one does not own does that (`PlayerPartyManager.h:83`) |
| | | `OwnerConnected` | a party whose owner's connection ended stays in the map (`IOCPSession.cpp:138`) |

## 6. Not modelled

- **Unused code**: `ThreadSafeQueue` and `SQLManagerEx` (nothing starts `DBThread` or
  calls `Request`); `KickPlayer`, `TransferPartyOwner`, `DestroyParty` (no caller);
  `VillageExitProcess`, `VillageActionProcess`, `DeleteInfo`, `DungeonState` (empty);
  `m_netobject_map` (never filled).
- **What has no defined outcome**: popping an empty `std::queue`, races inside
  `std::unordered_map` and `std::unordered_set` (also the erasure of a session two workers
  found), the unlocked counter of object ids, several queries at once on the one
  `MYSQL` connection, a size of 0 or larger than the buffer, a party of more than
  four seats, the switch on a protocol `GetProtocol` left uninitialised. Each is a hazard
  in `PROJECT.json`; the models assume it does not happen.
- **The pool of streams** has the same unlocked `front()` and `pop()` as that of the
  packets; the accept packets are used by one thread and one worker at a time.
- **I/O and conversion**: sockets, SQL, `StreamReadWrite`, cipher, string and byte
  helpers; positions inside a sector. Start-up and shut-down (`Engine`) are sequential.
- **The rest of the repository**: about 22,000 of its 31,000 lines are vendored (MySQL
  headers, the KISA ciphers) or test programs; the server itself has some 8,700, most of
  which are serialisation and declarations. The map therefore covers a small share of the
  repository and most of the code of the server that changes shared state.

## 7. Plan

What is left:

1. In `Sectors`, what several workers keep of `ViewExact`: that a client is told of nobody
   who was never near.
2. In `SignFlow`, the safety part of `ListComes` with one worker and no exceptions.
3. In `PlayerParty`, accepts and their messages, once the pointers they need are set: the
   model then gets the members, and the hazards that wait behind the null pointers
   their properties.
