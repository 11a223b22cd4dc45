# Verification of FlylinkDC's DHT, hub searches and connections to other users

This directory holds TLA+ models of the parts of this program (a StrongDC++ /
FlylinkDC client with an RPC interface over WebSockets) whose correctness
depends on the order of things: threads, timers, datagrams that get lost, and
restarts. TLC checks them on small instances; TLAPS proves theorems about them
for every value of the constants.

Run a check with `tlc -config <cfg> <MC module>` and a proof with
`tlapm <module>Proofs.tla`; `PROJECT.json` lists the runs, the lines each
definition models, the faults each property catches, and the theorems.

Contents: 1 the system, 2 the modules, 3 what the runs show, 4 fairness,
5 proofs, 6 where the code disagrees with its comments and what else was seen,
7 what is not modelled, 8 what is left.

## 1. The system

### Parts

| part | where | state | operations |
|---|---|---|---|
| packet accounting of the DHT | `src/dht/Utils.cpp` | requests sent (`sentPackets`), requests received this minute (`receivedPackets`) | `trackOutgoingPacket`, `checkFlood`, `cleanFlood` |
| DHT searches | `src/dht/SearchManager.cpp` | running searches by token, results that wait for an offline user | `findNode`, `findFile`, `findStore`, `search`, `processSearches`, `processSearchRequest`, `processSearchResult`, `processSearchResults` |
| DHT index | `src/dht/IndexManager.cpp` | sources of files others published (`tthList`), files to publish, slots for publishing | `addSource`, `checkExpiration`, `saveIndexes`, `loadIndexes`, `publishFile`, `publishNextFile` |
| DHT core | `src/dht/DHT.cpp` | life cycle, firewall check, saved file | `start`, `stop`, `dispatch`, handlers of INF, SCH, RES, PUB, CTM, STA, PSR, MSG, GET, SND |
| routing table | `src/dht/KBucket.cpp` | buckets of nodes, addresses in use, online users | `addOrUpdate`, `setOnline`, `checkExpiration`, `getClosestNodes` |
| UDP socket | `src/dht/UDPSocket.cpp` | send queue with an adaptive delay | `send`, `run`, `listen`, `disconnect` |
| scheduling, bootstrap | `src/dht/TaskManager.cpp`, `BootstrapManager.cpp` | times of the next tasks, bootstrap nodes | timer callbacks |
| hub search queue | `src/client/SearchQueue.cpp`, callers in `Client.cpp`, `ClientManager.cpp` | searches waiting for a hub | `add`, `pop`, `cancelSearch`, `getSearchTime` |
| peer connections | `src/client/ConnectionManager.cpp` | users to download from (`downloads`), users who download from us (`uploads`), connections (`userConnections`) | the timer's attempts, handlers of a handshake, `putConnection`, `failed`, `force`, `shutdown` |
| upload slots | `src/client/UploadManager.cpp` | counters of slots, waiting users (`uploadQueue`), users told to come (`notifiedUsers`) | `prepareFile`, `removeConnection`, `notifyQueuedUsers`, timer |
| RPC server and services | `src/rpc` | table of methods, favourite hubs, search results | request loop, `RpcServiceHub`, `RpcServiceSearch` |
| bandwidth limiter | `src/client/ThrottleManager.cpp` | tokens of downloads and uploads | `read`, `write`, timer |
| events, timer | `src/client/Speaker.h`, `TimerManager.cpp` | listeners | `fire`, `addListener`, `removeListener` |
| download queue, transfers, hub protocols, share, database, web server, GUI | rest of `src/client`, `src/windows` | | inherited from DC++ or presentation |
| vendored | boost, poco, openssl, MediaInfoLib, Zenlib, WTL, zlib, bzip2, json_spirit, jsoncpp, miniupnpc, natpmp, sqlite | | third party |

### Threads and how the parts talk

* The *timer thread* calls `on(Second)` and `on(Minute)` of every listener, one
  after the other. `TaskManager` uses it to process searches (every
  `SEARCH_PROCESSTIME`), publish the next file, search for our own identifier, ping nodes
  and expire things; `Client` uses it to pop its search queue.
* The *UDP thread* (`UDPSocket::run`) sends what is queued, receives, calls
  `Utils::checkFlood` and then the handler of the command (`DHT::dispatch`).
* *Other threads* - windows, the web server, the download queue - call
  `SearchManager::findFile` and `Client::search` by way of `ClientManager`.
* *Connection threads*: each connection to a user has a `BufferedSocket` thread, which
  calls the ConnectionManager and the UploadManager and reads and writes through the
  ThrottleManager. *Hub threads* make connections when a hub passes on a request.
* Whoever gets a search result - the UDP thread from a DHT node, a hub thread by `$SR` - tells the ClientManager the address
  that it came from (`setIPUser`), which for a user found through the DHT is the address of a node of the routing table.
* *RPC threads* are those of POCO's HTTP server.

Parts share state through singletons, each with its own critical section.
`SearchManager` calls `IndexManager` (slots, through the destructor of a
`Search`), `DHT` (routing table) and `Utils` (accounting of what is sent); the UDP thread
calls all of them.

### What is hard

* A lock is taken for one call, and an operation is several calls:
  `isAlreadySearchingFor` before `search`, `add` before `getSearchTime`,
  the tick before the lock.
* Datagrams are lost, repeated, delayed and sent by nodes we never asked.
* A slot, a deadline or a counter is given back on another path than the one
  that took it - often by a destructor.
* Times saved by one process are read by the next, whose clock starts at 0.
* Loops that stop at the first young entry assume that a list is sorted.
* A handler finds out whose connection it has under a lock, lets it go, and ties the
  connection to an item under the lock again; a limit is tested without the lock and
  used under it; a counter is lowered without the lock that guards its raising.
* Errors, promises and requests that a timer forgets while the answer is on its way.
* A manager may refuse a connection and leave its state as it was, so that its handler can run once more.
* A failure reaches one manager before the other, and a user comes back in between.

`PROJECT.json` lists each of these under "hazards" at the line where it bites,
with the property that would notice, or with the reason why none covers it yet.

### What makes each part correct

* *Packet accounting*: one request licenses one response; a request is not
  forgotten before its time; limits are exact per address and command.
* *Searches*: no node is asked twice; the closest are asked first; a search
  ends; a result is put aside only for an offline user; the timer does not
  search for one thing twice.
* *Publishing*: the slots in use are the files being published.
* *Index*: one source per node, the cap, expiry, survival of a restart.
* *Search queue*: no search lost, none duplicated, users before automatic
  searches, everything sent in the end.
* *Routing table*: every node in its bucket and counted once; the closest are found; addresses and
  online users agree with the nodes; dead nodes leave.
* *Saved index*: what was saved last is what the next process reads.
* *Firewall check*: one wrong answer is outvoted; the check ends.
* *Peer connections*: items in use and connections match; attempts and shutdown end.
* *Upload slots*: counters tell the truth; a slot is promised once; who waits is served.
* *Limiter*: what a second uses is its limit; only closed connections are taken for closed.
* *RPC* (not modelled): a failed update leaves no partial change; results are not taken twice.

## 2. The modules

| module | models | extends / used by |
|---|---|---|
| `FloodControl` | `Utils::checkFlood`, `trackOutgoingPacket`, `cleanFlood` | `MCFloodControl`, `FloodControlProofs` |
| `DhtSearch` | `SearchManager`, the publish queue and slots of `IndexManager`, the INF handler and `stop` as searches see them | `MCDhtSearch`, `DhtSearchProofs`; instantiates `Publishing` |
| `Publishing` | what `IndexManager` promises about publishing: a queue, a limit | implemented by `DhtSearch` |
| `RoutingTable` | `RoutingTable` and `Node` of `KBucket.cpp`, the INF handler and `ClientManager::putOnline`/`putOffline` around them | extends `Lists`; `MCRoutingTable`, `RoutingTableProofs` |
| `DhtIndex` | `tthList` of `IndexManager`, the answer to a FILE search, its file, crashes and restarts | extends `Lists`; `MCDhtIndex`, `DhtIndexProofs` |
| `SearchQueue` | `SearchQueue` with `Client::search`, `Client::on(Second)`, `ClientManager::search`/`cancelSearch` | `MCSearchQueue`, `SearchQueueProofs` |
| `FirewallCheck` | the firewall check of `DHT.cpp`, with the socket, the timers and the network around it | `MCFirewallCheck`, `FloodControlProofs` |
| `PeerConnections` | `ConnectionManager` of `client/`, with the users, hub threads and the main thread that ends the program | `MCPeerConnections`, `PeerConnectionsProofs` |
| `UploadSlots` | the slots of `UploadManager`, with the threads that take and give them back | extends `Lists`; `MCUploadSlots`, `UploadSlotsProofs` |
| `Throttle` | `ThrottleManager`, with the connection threads, the timer and what `BufferedSocket` makes of a read of nothing | `MCThrottle`, `UploadSlotsProofs` |
| `Lists` | what a loop leaves of a `std::list` from which it erases as it walks | the three above |
| `*Proofs` | theorems about the module of that name; `FloodControlProofs` also about `FirewallCheck`, `UploadSlotsProofs` also about `Throttle`, `ListsProofs` only lemmas | |

The names of `FirewallCheck` and `Throttle` begin with `Check` and `Limiter` (`CheckSpec`, `LimiterSpec`), so that one
module of theorems can extend them beside another component.
`Lists!Without` says which positions are left and in which order, with no recursion. The community modules' `SelectSeq` means the same,
but is recursive, and nothing could be proved about it.

An `MC` module only instantiates its model (numbers as identifiers, symmetry).
Definitions named `X_Something` and introduced by "Fault:" are variants of `X`
with a plausible bug; no behaviour uses them. Each property has one that breaks
it, listed under "mutants".

### FloodControl

`sentPackets` is the list of the code, oldest in front; `receivedPackets` its
map of counters. `trackOutgoingPacket` reads `GET_TICK()` before it takes its
lock, so it is two steps, `ReadTick` and `TrackOutgoingPacket`; what a thread
has read is in `sending[t]`. The second step holds the lock: it stores the packet
if its command is tracked and then always cleans up, with *its* tick. The age
of a packet is an unsigned difference: `diff` is modulo `TickModulus`, which
stands for 2^64 and is larger than any age that occurs, so a packet from the
"future" has a huge age, as in the code. `checkFlood` runs under one lock and is one step:
`AcceptResponse` or `CountRequest`. `tracked`, `answered` and `passed` are
history variables.

### DhtSearch

A running `Search` is a record in `searches`, under its token. What the code
keeps sorted by distance (`possibleNodes`) is a set here, and `Closest` takes
the nearest ones by the constant `Distance`, which is injective per term as XOR is.
`findNode`, `findFile` and `findStore` check `isAlreadySearchingFor` under the
lock, release it, read the routing table, and store the search under the lock
again. So they are two or three steps; the thread in between is in `work[t]`.
`publishNextFile` takes the slot, `findStore` gives it back if the term is searched for
already, and `~Search` gives it back otherwise: `Delete`, or `NobodyToAsk` if
the routing table is empty. `processSearches` (one step, under the lock)
processes all searches and deletes those past their time. The routing table is
abstract: `DoSearch` takes any set of nodes. Responses are abstract: any nodes
(up to `DHT_K`) and any sources, from any node, at any time, as often as wanted - lost,
late and repeated ones included. `ProcessInf` puts a user online and reports
what waited for him. `Restart` is `DHT::stop` followed by `start`.

Deadlines are *relative*: `lifeTime` is the time left, `Tick` lowers it, and -1
means that it has passed. All the code does with a deadline is compare it
with the tick, so nothing is lost and no clock needs a bound.

Assumed: random 32-bit tokens of running searches differ; `Restart` happens when no
thread is inside the SearchManager (the code does not ensure this: a hazard of
its own). PUB requests that a finished STOREFILE search sends change no state of ours.

`Publishing` is the abstract specification of the slots: a queue from whose
front files are begun while fewer than `Limit` are in the works. `DhtSearch`
implements it with `busy` mapped to what is *really* being published - STOREFILE
searches that run, and threads about to start one - and not to the counter
that the code compares with the limit. So the refinement says that the counter
can be trusted, in addition to the order and to no file being begun out of nowhere.

### RoutingTable

The tree of zones is the function `table` from paths (the bits in which the nodes of a zone
differ from us) to buckets; the tree's leaves are its domain. `Id` gives every user by
its *distance from us*: all the code asks of an identifier is such a bit or the distance between
two nodes, and XOR makes that the same thing. `addOrUpdate` calls itself after a split,
so one call may split several times: `Target` is the zone where this ends and
`Split` the table then. Whether a zone may be split (`splitAllowed`) follows from its path,
so it is no state. `MaySplit` has the conditions with `OneBranchLevel` 4 and `LastLevels` 5.
`getClosestNodes` is the recursion of the code over `TreeZones`, the leaves and the branches.

`nodes` holds the objects of class `Node` that can still be reached: from a bucket, from `onlineUsers`,
or from the INF that is being handled. There is never more than one per user. A node for which a
bucket has no room is only returned; it lives on if it is put online, and is found among the online users from then on.
The INF handler is three steps: `Inf` (`addNode`, under `DHT::cs`), `SetOnline` and `PutOnline`, without it;
the timer's `CheckExpiration` comes in between. A removed node that is still listed stays in `nodes` with its
last values - the program would look at an object that is gone, and what it would find there is not
promised; this is the mildest outcome.

Abstracted: a deadline is `expired` or not, so a node may fall due at any time;
whether a packet carries the key of the node is free (`KeepNode` is always possible); so is
whether a search still refers to a dead node (`kept`). The flag `PASSIVE`, which the hubs set, is left out.
`getDistance(...).data()` points into a temporary that is gone at the end of the statement;
the model takes its bytes as they were, as no build has a reason to overwrite them first.
`Restart` is `DHT::stop` with `start`; what is `static` survives it.

`SetIPUser` is `ClientManager::setIPUser`, called for every result of a listed user: it overwrites the address of his node and leaves `ipMap`
alone. For each user `ResultOrigins` has the addresses that results may come from. It may come at any moment, also between the steps of
the INF handler, for a hub thread calls it too. `left` is a history variable: what earlier tables left in what is `static`, and the addresses from which
`SetIPUser` has moved a node (`moved`).

### DhtIndex

`tthList` maps a file to its sources in order of arrival. `AddSource` removes
the node's old source, appends the new one and drops the oldest one over the cap.
`CheckExpiration` drops expired sources from the front of each list. `DHT::saveData` is three
steps: `WriteFile` writes what `saveIndexes` writes (files with their *complete* sources) to the
temporary file, or fails; `DeleteFile` deletes the old file, or fails, which nobody notices; `RenameFile` renames the new one. If it can neither be moved nor
copied (`RenameFails`), `saveData` drops the exception and all goes on.
`Start` is a start in the same process. `NewProcess` ends the process - saved or not, or
anywhere in the middle of a save - and loads the file with its old ticks into
a process whose clock is 0. The temporary file is never read, and the next save overwrites it. `loaded`, `saved` (what the last save that reached its
end put into the file) and `cut` (a later save ended after the deletion and before the end of the renaming) are history variables; `failed` counts failures for the bound.
What `processSearchRequest` answers from the list is not part of the model.

### SearchQueue

One hub. `AddSearch` and `GetSearchTime` are the two calls of `Client::search`:
they hold the lock of the ClientManager, which other searches and cancels wait for (`asking`),
but the timer thread's `Pop` takes only the lock of the queue and comes between them.
A window cancels before it searches (`cancelled`); the web server does not.
Automatic searches have the owner `NULL`. `lastSearchTime` is kept as the time since
the last search, counted up to `interval + 1`, the first value that lets a search through. `wanted` is
a history variable. The start of the process, when `GET_TICK() - interval` wraps, and
an interval of 0 (no queueing) are not modelled.

### FirewallCheck

`Send` is `DHT::send` to a node that was not asked yet; the question waits in the socket's queue
(`sendQueue`) until `Transmit` loses it or brings it to the node, whose answer may then arrive
at any time, late and again (`wire` is never emptied). A liar answers whatever it likes. `Receive` is
`handle(STA)`: it keeps the first answer of each node that was asked, and with the third it gives a
verdict. The answers are read in the order of a map with hashed keys, so `Verdict` takes any order; and the port that they are
compared with may become 0 between two of them while the socket stops (`SeenPorts`). `Minute` and `Hour` are what
`TaskManager` calls. `start` and `stop` reset none of `firewalledWanted` and `firewalledChecks`, so answers about an
earlier port stay. `natted` and the nodes' view of us (`Truth`) are the environment; `wrong` is a history variable.

### PeerConnections

`downloads` maps users to their `ConnectionQueueItem`; `uploads` is the set of users with an upload; `conns` are the
`UserConnection`s with their state. Every section under the lock `cs` is an action, so where the code has let the lock go `Inf`, `Key` and
the others only note what is left to do (`todo`), and `AddDownloadConnection`,
`AddUploadConnection` and `PutConnection` take it again. Once an item is tied, the connection goes to a manager. That takes it (`Managed`) or refuses it
(`Declined`): DownloadManager disconnects it then, UploadManager does nothing at all. A refused connection keeps its state, KEY or INF,
so the handler may run for it again, tied as it is; it finds the item in use and puts the connection, for which
`failed()` will never come. `repeated` (a history variable) has the users of connections that were handled again, or put, while they were tied. `Second` is the timer for all items at once; `lastAttempt` is an age
("never", "recent", "late", "due"), which `Age` lets grow. `on(MyNick)` resets the errors of the items it passes: those
in front of the matching one, in any order, and all of them for a nick that nobody has (`UnknownNick`). `Failed` is `failed()`; where after a repeated
handler it finds no item, which its assertions exclude, the model changes none.
`Call` and `Connect` are a hub thread that tests `shuttingDown` and makes a connection later; `BeginShutdown`,
`DisconnectAll` and `EndShutdown` are `shutdown()`. To disconnect a single connection is no step: it changes no list, and the `Failed` that follows may come at any time anyway. Left open: whether the download queue gives a slot.

### UploadSlots

A connection takes a slot in `prepareFile`, keeps it from file to file and gives it back in `removeConnection`. A change of
the counters is two steps, `BeginChange` (the thread reads) and `EndChange` (it writes), as the counters are plain bytes;
`prepareFile` has the lock from the one to the other ("taking"), `removeConnection` does not ("leaving"). `raced` are the counters that
two threads have changed at once. `PrepareFile` chooses as the code does: a standard slot for a privileged user or one whose
turn it is, an extra slot for a small file, a partial slot, or the queue. `NotifyQueuedUsers` tells as many users to come as there
are free slots, less those told before; `Minute` forgets those told long ago. Privileges, the kind of file and the operator
flag are inputs. `bonus` is a history variable: who holds a slot by privilege.

A connection that fails is dealt with by the ConnectionManager (`ConnectionFailed`: "dropped" with an upload, "lost" without) before
UploadManager hears of it (`RemoveUpload`, `Failed`), and from then on its user may connect again (`AddConnection`). `HasUpload` compares what `hasUpload` compares:
the address (`ip`) and the bytes that the user shares; that another user shares as many is an input (`alike`). So somebody who was told to come may be refused
for his own last upload, or for that of another one behind his address.

### Throttle

`read()` and `write()` test the limit without the lock (`busy` holds a connection that is past the test), then take the lock, divide
the limit by the number of transfers, and take tokens: `write()` before the write, `read()` after it by the
result, which is stored in a `size_t`. So a result of -1 is `Word - 1`, and the subtraction, which wraps, adds one token. on(Second) sets the
limits without a lock and fills up both buckets, each under its own. `used` and `granted` count the tokens of a second; `cut` has the
connections that took a read of 0 bytes for the end; `switched` those whose limit was switched off since their test.

## 3. What the runs show

Passing runs, with their bounds and why these are enough:

| run | instance | shows |
|---|---|---|
| `flood` | 2 threads, 2 addresses, ticks 0..3, `TIME_FOR_RESPONSE` 2; SCH and STA sent, RES, SND and GET received; one tracked request per kind and address, 3 received per minute (the limit for GET is 2) | `AnsweredAtMostOnce`: responses repeated or never asked for get through once per request. `LimitIsExact`: exactly the limit gets through, per address. `ForgottenIsStaleOrOvertaken`: the *only* way a request is forgotten early is that the cleaning thread read its tick before the request was stamped. |
| `dht_lookup` | nodes 1, 2, 3 and ourselves (0), one file, responses of two nodes, `SEARCH_ALPHA` 2 | `AskedOnce`, `AsksTheClosest`, and `WaitingUserIsOffline` with a source that goes on- and offline |
| `dht_publish` | 3 tokens, 2 slots, 2 files, queue of 1, one user thread, fair | `SlotsAccounted` on every path that gives a slot back; `PublishesAsPromised` (the refinement); `DuplicateIsFileSearch`; `SearchEnds`; `SlotsComeBack` |
| `routing_table` | 4 users of 4 bits, buckets of 2, one user who sends INF from one address and has results from another, the others are only mentioned; fair (96 018 states) | `EveryNodeInItsPlace`, `CountIsExact`, `ClosestIsExact`; `KnownAddressIsUsed` (no addition, update or removal leaks an address; an earlier table and `setIPUser` do), `OnlineIsListed`, and that a node that falls silent leaves (`SilentNodeLeaves`) |
| `dht_index` | 3 nodes, 1 file, cap 2, lifetimes 2 and 1, ticks 0..2, 2 failures, any number of processes (1 708 517 states) | `OneSourcePerUser`, `OutlivesOnlyIfLoaded`, `ExpiredOnlyBehindLonger` (an expired source stays only behind a loaded one, or a partial one behind a complete one), `SavedIsRead` (what was saved last is what the next process reads, but in the window between deletion and renaming and after a save that ended there) |
| `search_queue` | 2 windows, the web server, 2 queries, fair (298 260 states) | `WantedIsQueued`, `OneSearchPerWindow`, `ToldItsWait`, `UserSearchNotDelayed`, `UserSearchIsSent` |
| `firewall` | 2 honest nodes and a liar, one port, behind a NAT or not, fair (28 100 states) | `OneWrongAnswerIsOutvoted`, also after stops and starts; `CheckEnds` although packets are lost and the minute timer forgets who was asked |
| `connections` | 1 user, 2 connections, errors up to 1, fair (519 216 states) | `ItemsMatchConnections`, but for users of a connection handled again after a manager refused it; `AttemptEnds`; `ShutdownEnds`, unless a hub thread connects too late |
| `uploads` | 2 users behind one address, one of them with 2 connections, a standard and an extra slot, 1 race, fair (160 458 states) | `SlotsAreCounted` until a counter is raced, `SlotsPromisedOnce`, `WaitingIsServed` |
| `throttle` | 2 connections, limits 2, 3 and none, words below 8, 2 failed reads a second (about 165 600 states) | `BudgetKept`, `CutOnlyAtSwitch` |

Why these bounds are enough to meet the interesting cases:

* Overtaking needs two threads and two ticks; a wrong clean-up also needs a
  third tick. Two addresses tell "per address" from "global".
* Three nodes and `SEARCH_ALPHA` 2 leave one node for later and let a response bring a node
  already asked, ourselves, and the responder. A lifetime of 1 lets a response arrive in
  time, in the extension and too late.
* Three tokens and two slots: with both slots taken a third search may still start, so
  it is the limit of the code and not the bound `Room` that stops a third publication. A
  publishing search can meet a FILE search or another publishing one of its term. The queue holds
  one file; its order is covered by the proof of the refinement, for any length. FILE and NODE searches
  live shorter than STOREFILE ones here, and all are extended once.
* Four users, three of whom share a zone that may not be split, so that one finds no
  room, and buckets of two: the first overflow splits two levels at once, a bucket has a front and a back,
  and a second zone holds nodes for the search of the closest. Restarts leave up to one node behind. Search results move a node away from its address, and its INF back.
* Cap 2 with three nodes overflows. Lifetimes 1 and 2 give every order of arrival and
  expiry. `MaxTick` 2 lets both kinds expire in one process, and a source saved at 2 outlive a whole later process.
  Two failures let a save be cut off, and a later one fail before a third puts things right.
* The queue holds at most one entry per query, so two queries give a queue with
  something in front and something behind; three owners share entries. With a
  third query and one window the run also passes, but takes longer.
* Three answers decide about the firewall, so three nodes are asked; one liar is what two honest nodes can outvote, and
  it may claim that our address is that of another node. A second port adds only answers about an earlier one: the proof covers
  any ports.
* Two connections are the least that compete for an item, and one user has both items, a download and an upload; a second user adds only
  the errors that `on(MyNick)` resets (the proof covers any number). Errors 0, 1 and -1 (protocol error) are the kinds that the timer tells apart.
* A slot of each of two kinds and three connections: both counters reach their limit, a user waits behind another, and a user asks on one connection while
  the upload of his last one, which has failed, is still listed. With everyone behind one address a user who was told to come is refused for that upload and for another
  user's (both were seen to happen). There is no partial slot: its counter works as that of the extra slots, and with one the three invariants hold as well (333 037 states), but
  the check of liveness takes too long. One race is enough to make a counter wrong, also below 0 (255).
* Two connections share a limit and a bucket; the limits are not multiples of the buffer, so a share, a buffer and what is left are each the least.

Bounds in guards: `MaxTick`, `MaxSent`, `MaxReceived` (FloodControl), `Room` and
`MaxQueue` (DhtSearch), `MaxListed` and `MaxLeft` (RoutingTable), `MaxTick` and `MaxFailures` (DhtIndex),
`MaxErrors` (PeerConnections), `MaxRaces` (UploadSlots), `MaxFailures` (Throttle). `SearchQueue` and `FirewallCheck` have none.

Symmetry is used only where a run checks no liveness and nothing depends on the
identity of the elements (threads and addresses; nodes and files of DhtIndex; connections of Throttle). No other passing run uses it.

Each passing run checks deadlock too. Type invariants are theorems for every module; the runs of `RoutingTable`, `DhtIndex` and `UploadSlots`
check them as well.
The two runs that end in a violation are those of section 6.

## 4. Fairness

* `DhtSearch!FairSpec`: time passes (weak); a thread that has entered
  `findStore` or `search` goes on (weak: there is nothing to wait for but a lock); the timer
  runs `processSearches` again and again (*strong*: the same thread also runs
  `publishNextFile` and `findNode`, during which the step is disabled, and between which
  `TaskManager::on(Second)` always comes back to it). No fairness
  for responses, INF, users or the publish queue: the network may be silent.
* `RoutingTable!FairSpec`: the UDP thread finishes what it handles; deadlines pass; and every minute the timer
  checks each bucket (weak, per user's bucket), now and then with no search referring to a dead node: a search
  takes only nodes of type 3 or less, and it ends, so a dead node is let go in the end.
* `SearchQueue!FairSpec`: time passes (weak); `Client::on(Second)` reconnects a
  hub that is not connected (weak); and it pops the queue if, again and again, the hub is
  connected and a search may be sent (*strong*). This assumes that the hub, whenever
  it comes back, is not always gone at the very second in which the timer looks;
  without it nothing can be sent at all. No fairness for users and automatic searches.

* `FirewallCheck!FairSpec`: the minute timer runs (weak); packets are sent to every node again and again, and a node that
  is asked again and again is reached and its answer arrives in the end (strong, per node: the socket may stop in between). Nothing
  makes the socket start or the hourly timer run; `CheckEnds` supposes that the latter, which begins anew, does not cut every check off.
* `PeerConnections!FairSpec`: the timer ticks and attempts grow old (weak); a thread that has left a lock section goes on to the next;
  a connection that was told to close is closed; and `shutdown()` goes on. No fairness for other users, who may
  never answer, nor for hub threads.
* `UploadSlots!FairSpec`: threads finish a change (weak); who has a connection goes in the end, and UploadManager hears of it; the timer notifies, and the minute forgets some of those told to
  come (strong: other calls of the same lock come in between). Users need not come.

`FloodControl`, `DhtIndex` and `Throttle` promise nothing that must eventually happen.

## 5. Proofs

`DhtSearchProofs` proves, for *every* set of nodes, files, tokens and threads,
every distance, every number of slots and every lifetime (`SearchAssumption` in
`DhtSearch`: `Tokens` and the threads are finite, lifetimes are natural numbers, `Me`
is not among the other nodes, and so on):

| theorem | states | inductive invariant |
|---|---|---|
| `TypeCorrect` | `Spec => []TypeOK` | `TypeOK` itself |
| `SlotsCorrect` | `Spec => []SlotsAccounted` | `SlotInv`: `TypeOK`, `WorkOK`, `SlotsAccounted` |
| `PublishingImplemented` | `Spec => PublishesAsPromised` | `SlotInv` |
| `AsksOnce` | `Spec => []AskedOnce` | `TypeOK`, `AskedOnce` |
| `DuplicatesAreFileSearches` | `Spec => []DuplicateIsFileSearch` | `TypeOK`, `WorkOK`, `CheckStillHolds`, `DuplicateIsFileSearch` |
| `ClosestAreAsked` | `Spec => AsksTheClosest` | `TypeOK`, `AskedOnce` |
| `OnlineUsersDoNotWait` | `Spec => []WaitingUserIsOffline` | `TypeOK`, `WaitingUserIsOffline` |

`FloodControlProofs` proves, for every set of threads, addresses and commands
and all bounds (`FloodAssumption`: the numbers are natural, the modulus of ticks is larger than any
age, commands are known ones):

| theorem | states | inductive invariant |
|---|---|---|
| `TypeCorrect` | `Spec => []TypeOK` | `TypeOK` itself |
| `LimitsAreExact` | `Spec => []LimitIsExact` | `LimitInv`: the types of the two counters, `LimitIsExact` |
| `AnswersAreLicensed` | `Spec => []AnsweredAtMostOnce` | `AnswerInv`: `TypeOK`, `AnsweredAtMostOnce` |
| `OnlyOldIsForgotten` | `Spec => ForgottenIsStaleOrOvertaken` | `ForgetInv`: `TypeOK`, one packet per thread, no packet from the future |

`RoutingTableProofs` proves, for every set of users, ids, addresses and packets
(`RoutingAssumption`: ids are distinct bit sequences, the numbers are natural):

| theorem | states | inductive invariant |
|---|---|---|
| `KnownAddressesAreUsed` | `Spec => []KnownAddressIsUsed` | `KnownInv`: `NodesOK`, `LeftOK`, `KnownAddressIsUsed` |
| `OnlineUsersAreListed` | `Spec => []OnlineIsListed` | `ListedInv`: `NodesOK`, `OnlineIsListed` |
| `TypeCorrect`, `NodesAreInTheirPlace`, `NodesAreCounted` | `TypeOK`, `EveryNodeInItsPlace`, `CountIsExact` always | `IInv`: `ListedInv`, `TableOK`, `NodesAreHeld`, `EntryFits`, `CountsOK`, `CountIsExact` |
| `ClosestAreFound` | `Spec => []ClosestIsExact` | the same |

The other modules, each for every value of its constants under its one assumption:

| about | theorem | states | inductive invariant |
|---|---|---|---|
| `DhtIndex` | `TypeCorrect`, `NodesAreOneSource`, `OnlyLoadedOutlives`, `ExpiredIsBehindLonger` | `TypeOK`, `OneSourcePerUser`, `OutlivesOnlyIfLoaded`, `ExpiredOnlyBehindLonger` always | `TypeOK`, `ListedOK`, `SavedOK` of both files and of `saved`, `CopiesOK` |
| | `LastSaveIsRead` | `SavedIsRead` always | the same |
| `SearchQueue` | `TypeCorrect`, `WantedIsThereOnce`, `WindowsHaveOneSearch` | `TypeOK`, `WantedIsQueued`, `OneSearchPerWindow` always | `TypeOK`, `QueueOK`, `WantedIsThere`, `OneWish`, `OneAsks` |
| | `UsersAreNotDelayed`, `WaitsAreTold` | `Spec => UserSearchNotDelayed`, `Spec => ToldItsWait` | the same |
| `PeerConnections` | `TypeCorrect`, `ItemsMatch` | `TypeOK`, `ItemsMatchConnections` always | `TypeOK`, `Staged`, `Matched`, `Single` |
| `UploadSlots` | `TypeCorrect` | `TypeOK` always | `TypeOK` |
| | `CountersAreRight` | `SlotsAreCounted` always, if connections are fewer than 256 | `SlotTypes`, `SlotsAreCounted`, `ReadIsCurrent`, `OneChanger` |
| | `NoSlotIsPromisedTwice` | `SlotsPromisedOnce` always, if connections are fewer than 256 | the same, `TypeOK`, `LeavingEnds`, `PromisesKept` |
| `FirewallCheck` | `CheckTypeCorrect`, `VerdictOutvotes` | `CheckTypeOK`, `OneWrongAnswerIsOutvoted` always | `CheckTypeOK`, `Bound`, `OneWrongAnswerIsOutvoted` |
| `Throttle` | `LimiterTypeCorrect`, `BudgetIsKept`, `CutsOnlyAtSwitch` | `LimiterTypeOK`, `BudgetKept`, `CutOnlyAtSwitch` always | `LimiterTypeOK`, `BudgetKept`, `Tested`, `CutOnlyAtSwitch` |

*Slots.* `publishing` is the number of STOREFILE searches that run plus the
threads that hold a slot for one not yet stored. The invariant is not inductive
as it stands: a thread could hold a slot in a stage that does not exist, or a
user thread could hold one. `WorkOK` says which stage goes with which type and that
only the timer thread publishes. Every step then changes both sides by the same number;
`FiniteSetTheorems` gives the cardinalities of sets that gain or lose an element, and
of the set of searches that `processSearches` removes at once.

*Publishing.* Given `SlotInv` before and after a step, the counter *is* the number of
files in the works (`CounterIsExact`), so each step is judged by what it does to the counter: a
step that lowers it or keeps it ends publications or stutters (`LoweringEnds`); only
`publishNextFile` raises it, by one, below the limit.

*Asked once.* `ProcessType` shows that `process()` only moves nodes from
`possible` to `tried`; `AddNodes` adds only nodes not tried and not ourselves;
responders come from `tried`.

*Duplicates.* The check of `isAlreadySearchingFor` and the store are separate
steps. `CheckStillHolds` says what is left of the check in between: a search of
the term that has appeared since the timer thread checked is a FILE search - no other
thread starts any other kind.

*The closest.* `Closest` takes as many as it shall, and nobody who is farther than one it leaves (`ClosestIs`); distances are
distinct, so "closer" is a linear order of the nodes of a term. Only `process()` adds to `tried`, and what it adds is what it takes
from `possible`, because `AskedOnce` keeps the two apart. `Distance` is a function of a node and then of a term, and not of a pair: the provers
reason about the former.

*One answer.* The property counts positions of a list, so the proof is about
how positions move: the clean-up keeps a suffix (`CleanUpIsSuffix`), which has no more
requests (`SuffixPositions`, by an injection that shifts); appending adds at most one of its kind; removing
the matched request removes one of its kind (`RemovePositions`). Which packets the clean-up
drops - and so whether a tick was read too early - does not matter here.

*Forgotten early.* Here it does: the first packet that the clean-up keeps is the first young one, and everything behind it stays, young or not, so
what is young stays (`CleanUpDropsOld`). A packet that went was old by the tick of the thread that cleans up; that tick is not later than the
clock, so the packet is old by the clock too, unless its time is later than that tick - and then the subtraction has wrapped.

*Limits.* `LimitIsExact` says that the requests let through are the lesser of those received
and the limit, and `checkFlood` counts before it compares; both counters are cleared together.

*Addresses and online users.* Neither property depends on the shape of the tree, so
their proofs never expand a bucket. `NodesOK` has the types of the nodes and says that
one INF at most is being handled, without which the window in `OnlineIsListed` could hide a second user.
An update takes the old address of a node out of `ipMap` with the same condition under which the new one goes in;
`CheckExpirationStep` names the sets that a check computes (removed, put offline, pinged),
and a node that is not removed keeps its address (`CheckedType`). `SetIPUser` may leave an address that nobody has any more, and then puts it into `left.moved`;
every other node keeps its own (`SetIPUserStep`). An address once in `left` stays there, so the theorem says nothing of it later: what it excludes is a leak
by `addOrUpdate` or `checkExpiration`.

*The tree.* `TableOK` says that every id of the space, a user's or not, has exactly one zone in the tree, and that a bucket holds only users of its zone, none twice.
So `Zone` is well defined, and a split must give each member of the bucket that it divides exactly one of the new zones (`MembersMove`) and
leave all other ids where they were (`OthersStay`). Both follow from how long a common prefix of two ids is, once it is known which zones
are divided: those of the new user, from the bucket to `Target` (`InnerIs`).

*The number of nodes.* `CountIsExact` compares a counter with the cardinality of the table, and the handlers change nodes, so the two must be tied
to each other: `NodesAreHeld` says that the nodes are those of the table, of the listed users and of the handler. The counter then moves with the table,
by one for a new node and by the number of those that a check removes. `EntryFits` keeps the bound on `listed` inductive.

*The closest nodes.* Since every id has one bucket, a zone that was split has two zones below it, each with buckets (`SplitZoneIs`); were `TableOK` about
the users' ids only, a side without users could be missing, and the walk would have nowhere to go. So the recursion, one level down with each call, defines a function
(`WalkExists`). At a branch everyone on the target's side is closer to it than everyone on the other (`SideIsCloser`). If the nearest of a set are
fewer than may be, they are all of it (`NearestIsAll`); otherwise nobody who is farther than all of the set joins them (`NearestAreEnough`): that is why the far side may be
left out. `WalkFinds` puts this together for a zone of least height where the walk would be wrong.

*Lists of sources.* `ListedOK` divides each list in two: what was loaded is in front, in any order and of any age; what was published
to this process is behind it, expires within its own lifetime, and in the order of the list, save a partial source behind a complete one. Without the first
part the order is not inductive, since a file may bring any ticks; without the second, a fresh publication could not be told from a stale one.

*The last save is read.* `CopiesOK` says what each step of a save may rely on: from the writing on the temporary file is complete, and no save that reached its end
saved a torn file. Only the deletion and a failed renaming change the file before the end of a save. The first is the window that `SavedIsRead` names (`saving`), and whoever leaves the window
otherwise than by the end of the renaming, a crash or a dropped exception, sets `cut`.

*Queue of searches.* `QueueOK` says that no two entries search for the same thing, that automatic ones belong to `NULL` only and come last. The operations
on sequences are reduced to two relations between the queue before and after, `Lost` and `Gained`, and a change of owners, and each is shown once to keep `QueueOK`,
to change who waits for what in one way, and to move no search of a user back. That `add` may throw an automatic entry away, owners and all, needs `AutoIsNull`; that
`cancelSearch` may stop at the first entry needs `OneWish`, which holds because windows cancel before they search. The least
member of a set of positions comes from `WellFoundedInduction`.

*Items and connections.* The equality of cardinalities becomes a bijection: `Matched` (in use exactly if some connection is tied) and `Single` (at most one is).
`Staged` says of each connection (`Ordered`) that it knows its user from the stages on in which it may be tied; that a tied one is at INF, KEY or with a manager, so that `MyNick` and `Direction`
never meet one; that the handler runs for a tied one only if its user is in `repeated`; and that what it is about to be tied as agrees with its flag.
So for all other users an item is tied to a free connection, or freed with the one that it was tied to (`ChangeKeeps`, `DropKeeps`). A user in `repeated` stays there: nothing is promised of
his items any more, as the code may leave them in use for good.

*Verdict.* Three distinct nodes are read; if one answer at most is wrong, two of them agree with the truth, in any order. Two that agree on the address give it (`MajorityGivesAddress`),
and two that agree on a port outvote the third (`MajorityOfPorts`). `start` asks for a new check, so no verdict about an earlier port is in force.

*Counters of slots.* What a thread has read of a counter is still true when it writes, unless another thread changed that counter in between (`ReadIsCurrent`), and
two threads that change one counter at once have been recorded (`OneChanger`). Bytes do not wrap, as there are fewer connections than 256.

*Slots and promises.* A user who was told to come is a promise, and so is a slot that a thread has decided on and not yet counted. `PromisesKept` adds up both kinds
and the slots that are held, privileged ones left out, and says that there are never more than slots. `NotifyQueuedUsers` has the lock,
so no thread is in between (`CountedPromises`), and it tells as many as are free; `PrepareFile` takes a free slot or redeems a promise (`PromiseTake`);
`LeavingEnds` says that who leaves takes nothing.

*Tokens.* A share is never more than the tokens that are left (`SizeType`), and the one subtraction that wraps gives one token back (`NoWrap` for the others).
`Tested` says that a connection past the test sees a limit of 0 only if it was switched off since.

Only model-checked: liveness (`SearchEnds`, `SlotsComeBack`, `SilentNodeLeaves`, `UserSearchIsSent`, `CheckEnds`, `AttemptEnds`, `ShutdownEnds`, `WaitingIsServed` -
the prover has no fairness). Every invariant and every action property that a passing run checks is a theorem too.

## 6. Where the code disagrees with its comments

Each is a run that checks one property, a sentence of the source, and finds a
behaviour of the code that contradicts it.

1. `waiting_user_contacted` - `SearchManager.cpp:393` "try to contact him if we didn't
   contact him recently". The condition asks whether a result *already waits*, so the
   first result of a user waits without anybody contacting him.
2. `reconnect_unforced` - `ConnectionManager.cpp:180` "protocol error, don't reconnect except after a
   forced attempt". `on(MyNick)` sets the errors of every item it passes to 0 before it compares the user, so a nick announced
   by anybody wipes out the mark of a protocol error with other users, and the timer connects to them again.

Seen while modelling, and allowed for by the properties rather than claimed as contradictions:

* The tick of a sent packet is read before the lock (`Utils.cpp:153`), so the list of packets may be out of order, and a fresh request
  is forgotten when a thread with an older tick cleans up (`ForgottenIsStaleOrOvertaken` says: only then).
* `nodesCount` and `ipMap` are static and survive the table that filled them (`CountIsExact` counts what was left).
* `checkExpiration` stops at the first source that has not expired; partial ones live shorter and may stay behind complete ones.
* A file with partial sources only is saved without sources and loaded with an empty list.
* `saveData` deletes the old file before it renames the new one; a crash in between, or a failure of both move and copy, whose exception is dropped, leaves
  only the temporary file, which nothing reads and the next save overwrites (`SavedIsRead` names the window).
* An address that `setIPUser` (`ClientManager.h:118`) has moved a node away from stays in `ipMap` (`KnownAddressIsUsed` leaves it out), and the death of the node takes another
  address out. `addOrUpdate` then refuses updates from an address that no node has, where `KBucket.cpp:172` says "when new IP already exists for different node".
* The INF handler sets the flag of a node (`DHT.cpp:447`) before the ClientManager lists the user, and holds no lock of the table; if the node is dead, as its INF did not carry its key,
  `checkExpiration` may put it offline in between, against the assertion of `putOffline` (`ClientManager.cpp:414`), and the user is listed then while his node says that he is offline.
* A connection that a manager refused keeps its state; if its `$Key` or INF comes again before it is closed, it is put while it is tied, and its item stays in use, or its upload
  listed, with no connection (`ItemsMatchConnections` leaves its user out).
* `hasUpload` compares addresses and shares: a user who was told to come is refused, and told to wait once more, for his own last upload that is about to be removed, or
  for that of somebody behind the same address who shares as much.
* `Client::search` subtracts `GET_TICK()` from the 0 of `getSearchTime` and returns almost 2^64 ms if the timer sends the search in between.
* An attempt to connect that is forced after a protocol error and not answered stays CONNECTING for ever: the branch that would time it out is skipped.
* `shutdown()` waits for ever for a connection that a hub thread, past the test of `shuttingDown`, makes after the others were told to close.
* A user who was told to come, and waits in the queue again, loses his place when he is forgotten.
* A counter of slots that two threads have changed at once stays wrong, and below 0 it is 255: then no slot is free.
* The answers of the firewall check, and who was asked, survive `stop` and `start`; and while the socket stops, a verdict may compare answers with port 0.
* A failed read gives the limiter one token too many; and a limiter switched off between the test and the share makes `recv` read 0 bytes, which
  closes the connection.

## 7. What is not modelled, and why

* *Most of the source tree is not the program's own*: of its 1.3 million lines almost all are
  vendored (sqlite, poco, openssl, MediaInfoLib, boost, WTL and so on); the rest is mostly Win32 windows and what DC++ brings along. The
  models cover what keeps state across threads, timers and packets in the DHT, the searches, and the connections to users.
* The race of `DHT::stop` with the timer, which may use deleted objects: its outcome is undefined. The modules take the two as excluding each other.
* RPC server and services: a request is one call under one lock; where they share vectors with the windows without a lock, the outcome is undefined.
* The adaptive delay of the UDP socket, and the bootstrap, which asks a web server for nodes.
* Texts and formats: ADC and NMDC parsing, XML of the saved file, compression and
  encryption of datagrams. They are pure, and no property is about them.
* In `PeerConnections`: the flood check of addresses and the expected NMDC connections, which only refuse. In `UploadSlots`: files, resumed uploads,
  the fireball, and why a user is privileged.
* Download queue, transfers, share, hashing, database: inherited from DC++, large, and mostly I/O.
* Windows and dialogs: only the calls of search windows to the search queue.
* In `DhtSearch`, who is in the routing table (any set); in the models, the contents of
  packets beyond what a handler decides on; more than one hub; time of republishing.

## 8. What is left

1. `QueueManager` and `DownloadManager`: segments of a file given to several connections and given back when one fails; composed with `PeerConnections`,
   which leaves their slots open.
2. `UdpSocket`: the adaptive delay, composed with `FloodControl`, since a request is tracked when it is queued and not when it is sent.
3. `DhtLifecycle`: the order of `stop`, once the code says who may run during it.
