# A TLA+ model of the broadcast game server

This directory models `src/src/broadcastserver`: a Windows server that connects
the cars of an arcade racing game. Clients join over UDP (RakNet) or TCP,
introduce themselves as players or as observers (the big screen), load a map,
race, are ranked and are thrown out. Nearly everything runs on one main thread
that a repeating timer and the transports call; the HTTP listener has threads of
its own, and a daemon process restarts a server that is gone.

Modules are checked with TLC on small instances (`MC*.tla`, `*.cfg`), and the
modules named `*Proofs` prove properties with TLAPS for every value of the
constants. `PROJECT.json` lists runs, mutants, theorems, hazards and the source
lines behind each definition.

## 1. Inventory

| Component | State | Operations | Interacts with |
|---|---|---|---|
| **Game** (`game.cpp`) | `m_GameState`, `m_GameRunTime`, `m_GameShowTime`, `m_GameSyncTime`, `m_RestartTimer` | `OnClientMessage` (9 commands), `OnClientDisconnect`, `Update(t)`; inside them `StartGame`, `BalanceGame`, `EndGame`, `ClearData`, `SyncGameTime` | scans the client pool in every handler, disconnects clients, drives the drop items, asks the road checker |
| **Client** (`client.cpp`) | flags per slot: `m_RevciveUID`, `m_SetUserInfo`, `m_IsObClient`, `m_MapLoaded`, `m_Complete`, coins, road tag | `OnConnected`, `OnMessage`, `OnDisconnected`, `IsValid` | called by the transports; calls `Game::OnClientDisconnect` and frees itself |
| **ObjectPool** (`objectpool.h`) | object array, free list, uids with a 16-bit magic, count | `Initialize`, `Allocate`, `Free`, `Get` | holds the clients (main thread) and the HTTP tasks (several threads) |
| **UDP sessions** (`server.cpp`) | `m_UdpClientMap`, `m_Heart` per slot | `OnUdpAccept`, `OnUdpClientMessage`, `OnKeepAlive`, `OnUdpClientDisconnected`, the loop of `ServerUpdate` | RakNet, the pool, `Client` |
| **Lap recognition** (`game.cpp:152-187`, `RaceRoadChecker.cpp`) | `m_RoadCheckerTag`, `m_LastCheckIndex`, `m_Complete` | `OnPlayerMove`, `StartGame` | finishes the match through `BalanceGame` |
| **Drop items** (`DropItemManager.cpp`, `OnPlayerGetDropItem`) | alive items, ids, counts and timers per kind, coins | `Init`, `Update`, `CreateDropItem`, `GetDropItem` | started and driven by `Game`, positions from `GameConfig` |
| **GameConfig** (`game_config.cpp`, `config.lua`) | fixed-size tables of positions, poses, checkpoints, item kinds | `Add...` from Lua at start-up, `Copy...` afterwards | read by everything above |
| **HTTP state server** (`serverstate.cpp`) | files below the working directory; a pool of ten tasks | `OnGet` (`/getconfig`, `/getfile`, `/getstate`), `OnPut` (`/putfile`), `OnPost` | two worker threads and the listener share the task pool and the files; reads `m_GameState` and `gConfig` |
| **Process supervision** (`server.cpp:321-484`, `game.cpp:281-291`) | the Windows process list, a snapshot of it | find, kill, launch a daemon, relaunch, quit | a server kills all others, a daemon restarts a server that is gone |
| **TCP sessions** (`OnTcpAccept`) | a slot of the client pool and the socket that delivers into it | accept, end of the socket | the same slots as UDP; no heartbeat, no map |
| Headers of `src/src/common` | - | - | a library whose implementation is not in the repository |

What is hard in this code, and what correctness means:

* *Re-entrancy.* Disconnecting a client enters `OnDisconnected`, which may end the
  game, which disconnects all others and enters `OnDisconnected` again. A slot
  must be freed once, the match must be closed for all or for none.
* *Threads.* `ObjectPool` looks an object up before it takes its lock, and the HTTP
  handlers write files that others read. An object must have one owner, a request
  one answer, and a file that nobody is writing must be whole.
* *Processes.* Servers and daemons act on snapshots of a process list that are old by
  the time they are used, and any of them may crash between two steps. There must never be
  two servers, and one has to come back.
* *Recycled slots.* A flag is reset by whichever handler happens to reset it
  (`OnConnected`, `OnRequestLoadMap`, `StartGame`), never all at once. A new client must
  not inherit a role, a result, coins or a place in the load barrier.
* *Order of messages.* Any client may send any command at any time. The phases of a match
  must follow one another whatever arrives.
* *Time.* The timer reports uneven steps. No end, no synchronisation and no
  time-out may be stepped over.
* *Stale references.* `m_UdpClientMap` keeps pointers to clients that are gone,
  `m_AliveDropItem` keeps items of the last match, and uids are compared with
  a magic that wraps.
* *Fixed bounds.* Rows of 50 positions, a tag of 64 bits set by an `int` shift,
  local arrays of ten players.

The hazards are listed with their lines in `PROJECT.json`; those without a
property say why.

## 2. Modules

| Module | Models | State of the model and of the code |
|---|---|---|
| `Match` | abstract | phases, members, players: what the server promises its clients |
| `Game` | `game.cpp`, `client.cpp` | each flag of `Client` is a set of slots; `open` is `connection != NULL`; each command, each connection event and `Update` is an action; `pending`, `roster`, `finished`, `rankedAt` are history; `named` is the slots that have had a client |
| `GameProofs` | | theorems about `Game` and that it implements `Match` |
| `Allocator` | abstract | which objects are out, and the handle of each |
| `ObjectPool` | `objectpool.h`, one thread | `free`, `link`, `allocated`, `count`, `magic` are the fields |
| `ObjectPoolProofs` | | theorems about `ObjectPool` |
| `ClientPool` | `client.cpp:49-58`, `game.cpp:56-69`, `252-276` on `ObjectPool` | extends `ObjectPool`; `stack` is the call stack of a disconnection, frame by frame; `left` is what `Game` makes of it in one step |
| `ClientPoolProofs` | | theorems about `ClientPool`, on those about `ObjectPool` |
| `PoolThreads` | `objectpool.h`, several threads | the same fields, one action per access, `lock` and the local variables of each thread |
| `HttpState` | `serverstate.cpp` on `PoolThreads` | extends `PoolThreads`; `file` is one file as a sequence of buffers, `offset` and `data` are the locals of each worker, `answers` counts `EndWrite` |
| `HttpStateProofs` | | theorems about `PoolThreads` and `HttpState` |
| `Supervisor` | `server.cpp:305-521`, `game.cpp:281-291` | `pc`, `role` and snapshot of each process; a process id is reused once its process is gone |
| `SupervisorProofs` | | theorems about `Supervisor` |
| `LapChecker` | lap part of `OnPlayerMove`, point look-up of `RaceRoadChecker.cpp` | `tag` is the set of 1-bits of `m_RoadCheckerTag`; `Mask` is `1 << i` with the widths of the processor |
| `LapCheckerProofs` | | theorems about `LapChecker` |
| `UdpSessions` | `server.cpp:47-158` | `map` is `m_UdpClientMap`, `free` the free list in its order, `heart` is `m_Heart`, `tcp` the slots with `m_ConnectionType` TCP, `sockets` the slots that a socket delivers to |
| `UdpSessionsProofs` | | theorems about `UdpSessions` |
| `DropItems` | `DropItemManager.cpp`, `game.cpp:211-249` | `alive` is `m_AliveDropItem`, oldest first |
| `DropItemsProofs` | | theorems about `DropItems` |
| `GameConfig` | `game_config.cpp` | `cell` is the position array as one block of memory; `DropItems` extends it and takes its positions from there |

The MC modules only give values to the constants, bound counters, and define the
two shipped scenarios (the shipped track, the shipped script).

### What the models assume

* `connection->Disconnect()` calls `OnDisconnected` before it returns, and on UDP also
  drops the RakNet peer; the connection classes are in a library, and the code
  of `EndGame` is written for this. Whether a connection that is being closed already
  calls it once more is left open (`ClientPool!Closing`). A handler runs to its end
  before the next one.
* A stale map entry or a lost socket names a slot that has no client any more, and neither
  `OnUdpClientMessage` nor `Client::OnMessage` tests for that. Whether the connection class lets such a
  message through is decided in the library, so `Game` lets every slot that has had a client and has introduced
  itself send (`Sends`, `FirstMessage`). The one exception is a map that is too big (`game.cpp:356`):
  the handler disconnects through `connection`, which is `NULL` for a freed slot.
* The `UdpConnection` of a freed slot, or of one that a TCP client took over, still has the address of its last
  UDP client, and disconnecting it drops that peer (`PeersOf`). A peer is taken to keep its address as
  long as its RakNet guid.
* `Game` and `UdpSessions` take the cascade of disconnections as one step. That is
  not assumed but checked and proved in `ClientPool`: the nested calls find the state
  already `Wait` (`game.cpp:261`) and close the same clients (`CascadeAsOne`). The order in
  which the slots come back to the free list is any order in `UdpSessions`.
* A client has one `TcpConnection`, so a slot is reached by one socket at most.
* The listener of the HTTP server is not the main thread, so it locks the task pool. The worker
  that ran the handler gives the task back. What was written to a file is visible to readers
  at once; a buffer of the C library that delays it would only matter to readers that overlap
  the writer, of which nothing is promised.
* `TerminateProcess` takes effect at once, a process that is gone cannot be opened, and
  one that is there can. The daemon's `CreateProcess` and its `exit(0)` are two steps (`Relaunch`, `Exits`),
  since the new server may kill it in between. Failures of `CreateProcess` and of `Init` and crashes are faults that may
  happen at any time.
* At most ten players: `set[10]` and `players[10]` (`game.cpp:325`, `431`) have no defined
  behaviour beyond, and a model has no successor state for it.
* `new[]` leaves fields uninitialised, so `m_MapLoaded`, `m_Complete` and the road
  tag start with any value.
* `m_CommitScore`, the map data and the birth index are written and never
  decide anything; they are left out. The bodies of the broadcasts are left out too, except
  who is listed in `SM_GAME_START` (`roster`) and what is reported at the
  balance (`complete`).
* In `Game` a completed lap may come at any time; which positions make one is `LapChecker`.
  In `UdpSessions` the game may disconnect any clients at any time; which it
  does is `Game`.
* The bits of `1 << i` for `i >= 32` are those the x86 build computes (the
  count is taken modulo 32); C++ leaves them undefined.

## 3. Runs

| Run | Bounds | Shows |
|---|---|---|
| `game_match` | 3 interchangeable slots, one-tick phases | Whoever was sent the map is waited for until it answers or goes (`StillAwaited`, `StartNeedsAnswers`), and the answer that completes the set starts the match (`NobodyKeptWaiting`); results reported for those who were listed at the start are from this match (`HonestResult`); a recycled slot starts as a stranger (`NoInheritedIdentity`); a match does not outlive its last player (`NoOrphanMatch`); and `Game` implements `Match`, which closes a match for all or for none |
| `game_time` | 2 slots, steps of 1 and 2 in a race of 2, a show of 1, a balance of 3, `--checkconnection` with a limit of 1 | The announced time lags by at most one period; a ranking stays as long as announced; matches and rankings end; a server everyone has left terminates, whatever the match was in |
| `game_balance_time` (violation) | 2 slots, race of 5 | A race won early holds `SyncScore` for the rest of the race time as well |
| `client_pool` | 3 clients, a magic of 3 values, 4 frees of each | One disconnection frame by frame, with all that it sets off: every client is freed once, the calls nest three deep, the result is the one step of `Game`, the free list, the count and the uids stay sound, and the whole refines `Allocator` |
| `http_tasks` | a listener and 2 workers, 3 tasks, a magic of 2 values, contents of 1 and 2 buffers | Every interleaving of the accesses to the pool and the file: one owner per task, none lost, requests answered once, GETs that no PUT overlaps get the whole file, and the pool of several threads refines `Allocator` |
| `lap_short` | 4 points, 4-bit `int`, 6-bit tag | The tag is about this lap; the verdict is right, the sign bit included; the direction check uses no point of an earlier lap |
| `lap_shipped` (violation) | the shipped track, 32 and 64 bits | A lap of 12 of the 41 points is valid |
| `udp_peers` | 2 peers and TCP sockets on 2 slots, steps of 1 and 2, a heartbeat time of 1 | No slot is freed twice; a client with a clean entry or socket is reached by nobody else and gets its full heartbeat time; silent peers lose their slots |
| `udp_heart` (violation) | 2 peers, 2 slots | A stale entry ages the new client of a reused slot |
| `drop_items` | 2 players, 2 kinds, rows of 2, 2 matches, 6 items | Ids, positions, the refresh limit and coins, over any tables and over what the last match left |
| `config_shipped` (violation) | the shipped numbers | Ten coins lie on obstacle positions |
| `supervisor` | 4 process ids | Two servers never get past the process check; once the world leaves the processes alone a server serves again |

Why the bounds are enough. Three slots in `game_match` allow one client to leave while
another is waited for and a third watches; slots are symmetric because the code treats them so
(the order of the pool decides nothing but birth poses). Phases of one
tick make every message meet every phase. `game_time` has steps that step over the end of
the race, of the show and of the ranking. In `client_pool` three clients let the loop of `EndGame`
find others before and after the one that started it, and four frees take the magic past its wrap. In `http_tasks` one thread
holds the lock while another waits and a third is between its look-up and its lock, two PUTs of
different lengths overlap each other and a GET, and the magic wraps at every second free. In
`udp_peers` a peer that returns finds its old entry, its slot may belong to the other peer or to a
socket by then, and the pool is full with two clients. Two matches are what a left-over item needs to
meet its double. Four process ids hold two servers that check each other, a daemon, and a third
server that the daemon or a user starts meanwhile.

Bounds that are not in the code: `MaxFrees` (client pool), `MaxRounds`, `MaxAlive`, `MaxCoins`,
`MaxGiven` (drop items); they cut counters that only history, ids or the length of a script need. `silence` in
`UdpSessions` stops counting above `HeartTime`. All other counters are bounded by
the code itself.

`CHECK_DEADLOCK FALSE` is used where the model really stops: the process has terminated
(`game_time`), the script is over (`config_shipped`), or a bound above is reached (`drop_items`).

### Fairness

`Game` and `UdpSessions` assume `WF_vars(Timer)` only: `Server::Init` arms
`m_UpdateTimer` with interval 0 and repetition (`server.cpp:520`) and the event loop
never stops calling it. `Supervisor` assumes weak fairness of each process's own steps: Windows schedules
every process. Nothing is assumed of clients, users, crashes or the network.
Liveness is therefore stated only where the code provides for it:

* `Load` and `Balance` wait for clients without a time-out, and no property says that they end.
* `ServerComesBack` is about histories in which the faults stop, some process is left and there are
  not two daemons that look for the server time and again (one that is about to exit does not count): without a window two daemons take each other for the server and
  wait for ever, and with one, two daemons that looked at the same moment may launch servers that kill
  each other. Nothing in the code breaks that up.

## 4. Findings

1. `game.cpp:296` - the balance lasts for the rest of the race time plus the announced
   balance time when a race is won early (`game_balance_time`).
2. `game.cpp:164` - the `int` shift makes points 32..40 of the shipped track aliases of
   0..8, so a lap of 12 points is valid where the comment asks for half (`lap_shipped`).
3. `server.cpp:139` - stale map entries make the heartbeat of a reused slot run at a
   multiple of its speed (`udp_heart`).
4. `game_config.cpp:17` - 126 coins in a row of 50 run into the obstacles' row
   (`config_shipped`).

## 5. Proofs

The proofs assume only what the modules state of their constants
(`GameAssumption`, `PoolAssumption`, `LapAssumption`, `ThreadsAssumption`, `HttpAssumption`, `DropAssumption`, ...): any number
of slots, threads or processes, any times, any steps of the timer up to `MaxStep`, `CheckConnection` on or
off. The theorems of `HttpStateProofs` also state `Main = {}`: the HTTP threads are not the main
thread. With a main thread among them, which never locks, they are false.

`GameProofs` proves every safety property that the runs `game_match` and
`game_time` check. Type correctness carries the fact that makes the rest work:
`pending`, `roster` and `finished` stay within `open`, because every way out of a match goes through
`Close`. Lemmas about `Disconnected` and `Update` state once what they do to the slots
(the whole cascade of `EndGame`, or one slot, or none), and the theorems use those.

* `NobodyKeptWaiting` follows from the step alone once types are known: whoever is valid has
  `m_MapLoaded` set, so `AllLoaded` holds in the handler.
* `StillAwaited` is inductive together with `TypeOK`: `OnRequestLoadMap` makes
  `pending` and the reset of `m_MapLoaded` range over the same clients, and no message can make
  a valid client invalid. `StartNeedsAnswers` follows: whoever is pending is
  valid and not loaded, so `AllLoaded` is false.
* `HonestResult` is inductive together with `TypeOK`: outside a match it says nothing,
  `StartGame` empties both sides for the players it lists, and `OnPlayerMove` adds to both.
  A client that takes a recycled slot is not in `roster`, so what the slot held does not count.
* `TimeSynced` and `ScoreShownLongEnough` need a stronger invariant, `ClockInv`: in `Play` the
  race time is not up, so in `Balance` and at the time of the ranking the clock exceeds
  `m_GameTotleTime` by at most one step.
* `GameImplementsMatch`: each action is mapped to a step of `Match` or to a stutter; only
  two steps take other members along, the disconnection of the last player and the end of the
  ranking, and both go through `EndGame`.

`ObjectPoolProofs` proves all invariants of the pool for every size up to 65535 and
every width of the magic. The heart is `FreeListSound`: there is a duplicate-free
enumeration of the free objects along which the links run. It is inductive together with
`TypeOK`: `Allocate` drops its first element, `Free` puts one in front, and
the lemmas about cardinalities say that the length follows. From it follow
`AllocateSound` (an empty list means that all are out) and `CountExact`. `MagicCounts` is
inductive on its own with a witness for the number of wraps. `PoolImplementsAllocator` maps each step of the pool to a step of
`Allocator`.

`ClientPoolProofs` first shows that every step of the server is a step of the pool or leaves it alone, so that
each theorem of `ObjectPoolProofs` holds of the server. `SlotsReturned` is the invariant
`allocated = connected`, which no frame disturbs, since a free and the `connection = NULL` after it are
about the same client and a second free is refused. `CascadeAsOne` needs the shape of the stack
(`Nested`): a loop runs only in `Wait`, so no call above it starts another one, and below it there is at
most the call that started it. In these six shapes the clients that the calls under way are still going to close
(`Doomed`) are known, and each frame leaves the rest (`Spared`) alone. `NestingBounded` follows from the shapes.

`UdpSessionsProofs` proves `FreeOnce` and `SoleRouted` from one invariant, `SessionInv`: each free slot is in
the list once, the TCP slots are open, and a client that came alone is reached alone. It rests on lemmas
about adding to and taking from the list (`FreeMore`, `FreeLess`) and about what any set of
disconnections keeps (`DisconnectKeeps`), since the heartbeat and the game close several clients in one step.
The action property `SoleHeartHonest` needs `HeartInv` as well: the heart of a client that its own peer alone
names has not run longer than that peer has been silent. It is kept because the loop of `ServerUpdate` comes by
such a slot once (`SoleBeatsOnce`, from `SoleRouted`), in whatever order it goes through the map; without
`SoleRouted` it is false, which is what `udp_heart` shows.

`HttpStateProofs` proves everything that `http_tasks` checks, for any number of threads. The invariant of the pool
(`PoolInv`) has a set `F` of objects that is the free list. The list runs through `F`, each object once (`Runs`), and no
smaller set is closed under the links, so `F` has nothing that the list does not lead to (`Least`); `F` is apart from
what threads own and from the object on its way on or off the list (`Apart`), and with these two it makes up the pool (`Accounted`).
`Locals` says for each point in `Allocate` and `Free` what the local variables of the thread inside the lock are worth, and
`Valid` that the uids a thread holds are still those of its objects.

* `OneOwner` needs `Apart`. The look-up outside the lock is harmless because only an object's owner changes its magic.
* `NoneLost` needs `Least` and `Accounted`. What the list leads to (`Listed`) is defined by the sets closed under `link`
  instead of by walking along it, so that no recursion stands in the way.
* `ImplementsAllocator` needs `Valid`: a step that marks an object or frees it is the step of `Allocator`, all others are
  stutters. `HttpState` is a caller of the pool (`HttpStepsPool`), so it inherits all three.
* `AnsweredOnce`: while a task is with a worker nobody else touches its request, so its answers are those of one handler.
* `WholeFile` is inductive with what a worker in the middle of a file knows: a PUT that no other PUT overlaps has
  written the first `offset` buffers and nothing else (`WrittenSoFar`), when it is done the file is whole
  (`WrittenOut`), and a GET that no PUT overlaps has read the same way (`ReadSoFar`).

`SupervisorProofs` proves `OneServer`: of two servers that have their snapshots, the one that took its snapshot later
has the other in it and has not come to it yet (`LaterHunts`). A server past the check hunts nobody any more, so there are not
two of them.

`DropItemsProofs` proves every property that `drop_items` checks, and that as long as no row of the table is over-filled
the positions of a type are those given for it, which is where the shipped script falls out (`TableInvariant`). The
invariant `DropInv` puts together the types, what holds while and after the script is loaded (`Loading`), that the
counts and refresh indices agree (`Tally`), and what is true of the items on the track (`Track`).

* `IdsDistinct` is inductive once every id of this match is known to be below `gID` (`Numbered`): what `Update` creates is
  numbered from `gID` on, one by one through all kinds. A removal leaves the others as they were (`Removed`).
* `NeverOverfull` counts by the refresh index: the items of a kind have different `nth` (`NthDistinct`), all below
  the number that were made (`Numbered`), which never exceeds the larger of the two limits (`Tally`).
* `ItemsWhereGiven` is inductive with the table's invariant: the script fills rows only before the first match.
* `LeftoversLast` is an action property and needs two facts of the step: `GetDropItem` finds the last item of an id (`FoundLast`),
  and all of this match come after the left-overs (`Ordered`). That the sequence without an item is the same for
  two indices does not mean that they are the same index, but only that equal items lie between them (`RemovedEqual`).
* `UpdateCreates` says what `NewItems`, the loop of `Update` over the kinds, returns. The loop is a
  recursive function; that it satisfies its equation is proved (`LoopExists`), and what each round adds
  to it follows by induction over the number of kinds.

`LapCheckerProofs` proves for every track length and every pair of widths that the tag is the union of
the bits of this lap's points (`TagInvariant`), from which a lap that
touched more than half is never refused (`NoLapWronglyRefused`: a wrap
can only hide a missing point), and that on tracks of at most `IntBits`
points the converse holds too (`ShortTrackHonest`), which is where the
shipped track falls out. `DirectionInvariant` rests on the lemma `LastOnThisLap`, inductive by itself:
`StartGame`, which leaves `m_LastCheckIndex` stale, and the end point, which sets it to 0, also empty the
tag. With `TypeOK` it gives that both ends of the segment are on the track. It says nothing of a moving
client that has touched no point yet: `CheckDir` is then asked for point 0, finds no point before it and
compares the heading with a vector whose other end was never set (`Vector3() {}`, `Vector3.h:47`); the
outcome is only what the next `SM_PLSYER_RUN_DIR_ERROR` tells the clients; no state of the server depends on it.

Induction is used through `NatSetInduction` (a set of naturals with 0 and with the successor of every
member is `Nat`), which `NatSetLeast` gives from the library's well-foundedness of `<`. The library's own
induction theorems take an operator as a parameter and cannot be instantiated by the provers installed.

What is only model-checked is liveness: `MatchEnds`, `RankingEnds`, `AbandonedServerQuits`, `QuietServerEmpties` and
`ServerComesBack`. Weak fairness speaks of `ENABLED`, which the provers do not treat. Every invariant and every
action property that a passing run checks, and every refinement, is also a theorem. The properties
of the four runs that expect a violation are false of the code, so there is nothing to prove.

## 6. Not modelled

* `src/` has 131,696 lines of implementation, of which about 2,000 are this server: the rest are headers of
  RakNet, OpenSSL, curl, libevent, SQLite, Lua, LuaBridge, protobuf and jsoncpp, third-party code that
  the repository carries to build against. They declare interfaces and do not contain the programs behind them. So the lines modelled are
  nearly all of the server's control and a small share of the tree, and no faithful model can make it a large one.
* Wire encoding, buffering, framing and the transports, `MessageQueue.h`, `ThreadPool2.h`, `SocketPool.h`: declarations of a library whose
  implementation is not in the repository. What of it the server relies on is external in `HttpState`, `ClientPool` and `UdpSessions`.
* The geometry of the track: positions are abstracted to the point they are near.
* The copy of the executable for the daemon, the killing and the launch of the PC client, the parsing of
  options and of configuration files: plain I/O, done once.
* Redis, SQLite, Lua, JSON, property and zlog wrappers: libraries or plain I/O, several of them unused by the server.
* Undefined behaviour: more than ten players (`game.cpp:325`), a division by zero without JSON files
  (`game_config.cpp:120`), a null `FILE` (`serverstate.cpp:52`), a map that is too big from a slot without a client
  (`game.cpp:356`).

## 7. Plan

Done: `Match`, `Game` and its proofs; `ObjectPool`, `Allocator` and their proofs; `LapChecker`, `DropItems`,
`GameConfig`; `UdpSessions` with TCP; `ClientPool`, which composes the sessions and the
disconnections of the game on the pool; `PoolThreads` under `HttpState`; `Supervisor`; proofs of each.

Left:

1. The safety part of each liveness property, which TLAPS can prove where the property itself stays with TLC: what
   a tick of `Update` changes in `Play` and `SyncScore`, and what a pass of `ServerUpdate` does to a silent peer's slot.
2. Type correctness of `PoolThreads` and `UdpSessions` as theorems in their own right; their proofs carry the types they need.
