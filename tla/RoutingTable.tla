----------------------------- MODULE RoutingTable -----------------------------
(***************************************************************************)
(* The routing table of the DHT: dht/KBucket.cpp with the handlers of      *)
(* dht/DHT.cpp that call it and the list of online users that              *)
(* client/ClientManager.cpp keeps.                                         *)
(*                                                                         *)
(* The table is a binary tree whose leaves are buckets.  A zone is the     *)
(* path that leads to it: the bits, most significant first, in which its   *)
(* nodes differ from us.  Nodes are added and updated by the UDP thread,   *)
(* aged and removed by the timer thread, both under DHT::cs; but the       *)
(* handler of INF puts a node online after it has released that lock, and  *)
(* whoever gets a search result sets the address of an online user, be he  *)
(* a node or not, under the lock of the ClientManager.                     *)
(*                                                                         *)
(* Time is whether a node's deadline has passed (expired).  An unset       *)
(* deadline (0) is one that has passed, except for a dead node, whose      *)
(* deadline is always set.  Whether a packet has the key of the node is    *)
(* the choice of the network, and so is whether a search still refers to   *)
(* a dead node.                                                            *)
(***************************************************************************)
EXTENDS Integers, FiniteSets, SequencesExt, Lists

CONSTANTS
    Users,                      \* the other nodes of the network
    Id,                         \* their distances from us: sequences of ID_BITS bits
    Addresses,                  \* addresses, each an IP with a port
    Origins,                    \* for each user what packets may tell of it: its address, and
                                \* whether they come with the key we gave out
    ResultOrigins,              \* for each user the addresses that search results may come from
    Infs,                       \* for each user the INF packets it sends: does one ask for a connection?
    AliveTypes,                 \* the types setAlive gives: 2 to a young node, 0 to an old one
    ID_BITS, DHT_K,
    Targets,                    \* ids that are looked for
    OneBranchLevel, LastLevels, \* 4 and 5: where the branches of ones may split
    MaxListed,                  \* bound: entries of a user in onlineUsers
    MaxLeft                     \* bound: nodes left in nodesCount by earlier tables

Bit  == {0, 1}
Path == UNION {[1..n -> Bit] : n \in 0..ID_BITS}

\* The zones in which each user belongs.
Zones == [u \in Users |-> Prefixes(Id[u])]

ASSUME RoutingAssumption ==
    /\ IsFiniteSet(Users)
    /\ Id \in [Users -> [1..ID_BITS -> Bit]]
    /\ \A u, v \in Users : Id[u] = Id[v] => u = v
    /\ Targets \subseteq [1..ID_BITS -> Bit]
    /\ Origins \in [Users -> SUBSET [addr : Addresses, verified : BOOLEAN]]
    /\ ResultOrigins \in [Users -> SUBSET Addresses]
    /\ Infs \in [Users -> SUBSET BOOLEAN]
    /\ AliveTypes \subseteq 0..2 /\ AliveTypes # {}
    /\ {ID_BITS, DHT_K} \subseteq Nat \ {0}
    /\ {OneBranchLevel, LastLevels, MaxListed, MaxLeft} \subseteq Nat

VARIABLES
    table,          \* the buckets: for each zone its nodes, the next to be asked in front
    nodes,          \* the Node objects that the table, onlineUsers or the UDP thread refer to
    ipMap,          \* addresses known to be in use (static)
    nodesCount,     \* the number of nodes (static)
    listed,         \* how many entries each user has in ClientManager::onlineUsers
    udp,            \* {}, or {h} for the INF that the UDP thread is handling
    left            \* history: what earlier tables left in nodesCount and ipMap, and the
                    \* addresses in ipMap from which search results have moved a node

vars == <<table, nodes, ipMap, nodesCount, listed, udp, left>>

Node == [addr : Addresses, type : 0..4, expired : BOOLEAN, verified : BOOLEAN, online : BOOLEAN]
Handler == [user : Users, stage : {"setOnline", "putOnline"}]

NewNode(addr, verified) ==
    [addr |-> addr, type |-> 3, expired |-> TRUE, verified |-> verified, online |-> FALSE]

Root == <<>>
Empty == [z \in {Root} |-> <<>>]

Init ==
    /\ table = Empty
    /\ nodes = <<>>
    /\ ipMap = {}
    /\ nodesCount = 0
    /\ listed = [u \in Users |-> 0]
    /\ udp = {}
    /\ left = [count |-> 0, addresses |-> {}, moved |-> {}]

-----------------------------------------------------------------------------
InTable == UNION {ToSet(table[z]) : z \in DOMAIN table}

\* The bucket in which a user belongs.
Zone(u) == CHOOSE z \in DOMAIN table : z \in Zones[u]

\* Is the user in it?
Stored(u) == u \in ToSet(table[Zone(u)])

\* May the bucket at z be split?  Branches of zeros may if their parent may,
\* branches of ones only near the root and in the last levels.
MaySplit(z) ==
    /\ Len(z) < ID_BITS - 1
    /\ \A k \in DOMAIN z :
          z[k] = 1 /\ (\A j \in (k + 1)..Len(z) : z[j] = 0)
              => k - 1 < OneBranchLevel \/ k - 1 > ID_BITS - LastLevels

\* The zone at which the splitting for a new user ends: the first on its path
\* that has room or may not be split.
Target(u) ==
    LET bucket  == ToSet(table[Zone(u)])
        depth   == Len(Zone(u))
        path    == {p \in Zones[u] : Len(p) >= depth}
        room(p) == Cardinality({v \in bucket : p \in Zones[v]}) < DHT_K
        ends    == {p \in path : room(p) \/ ~MaySplit(p)}
    IN  CHOOSE p \in ends : \A q \in ends : Len(p) <= Len(q)

\* Fault: the bucket that was split remains.
Split_KeepsBucket(u) ==
    LET bucket == table[Zone(u)]
        depths == Len(Zone(u))..(Len(Target(u)) - 1)
        inner  == {p \in Zones[u] : Len(p) \in depths}
        leaves == DOMAIN table \cup UNION {{Append(p, 0), Append(p, 1)} : p \in inner}
    IN  [z \in leaves |-> IF z \in DOMAIN table THEN table[z]
                          ELSE Without(bucket, {v \in Users : z \notin Zones[v]})]

\* split() for each zone from the bucket of u down to its target.
Split(u) ==
    LET bucket == table[Zone(u)]
        depths == Len(Zone(u))..(Len(Target(u)) - 1)
        inner  == {p \in Zones[u] : Len(p) \in depths}
        leaves == (DOMAIN table \cup UNION {{Append(p, 0), Append(p, 1)} : p \in inner}) \ inner
    IN  [z \in leaves |-> IF z \in DOMAIN table THEN table[z]
                          ELSE Without(bucket, {v \in Users : z \notin Zones[v]})]

\* addOrUpdate for a user who has a node: a packet that may not update it, has
\* another key, or comes from an address known to be in use, changes nothing.
KeepNode(u) == UNCHANGED <<nodes, ipMap>>

\* addOrUpdate for a user who has a node: the packet updates it.  (ipVerified is
\* reset when the address changes.)
UpdateNode(u, addr, verified) ==
    \E type \in AliveTypes :
        LET moved == addr # nodes[u].addr
        IN  /\ moved => addr \notin ipMap
            /\ ipMap' = IF moved THEN (ipMap \ {nodes[u].addr}) \cup {addr} ELSE ipMap
            /\ nodes' = [nodes EXCEPT ![u] =
                  [@ EXCEPT !.addr = addr, !.type = type, !.expired = FALSE,
                            !.verified = verified \/ (~moved /\ @)]]

MoveToBack(u) ==
    table' = IF Stored(u) THEN [table EXCEPT ![Zone(u)] = Append(Without(@, {u}), u)] ELSE table

\* addOrUpdate for a user without a node: into the bucket, which is split if it
\* is full.  If it may not be split either, the node is only returned, and
\* lives on if it is about to be put online.
AddNewNode(u, addr, verified, goesOnline) ==
    LET new   == NewNode(addr, verified)
        split == Split(u)
        room  == Len(split[Target(u)]) < DHT_K
    IN  /\ table' = IF room THEN [split EXCEPT ![Target(u)] = Append(@, u)] ELSE split
        /\ nodes' = IF room \/ goesOnline
                    THEN [v \in DOMAIN nodes \cup {u} |-> IF v = u THEN new ELSE nodes[v]]
                    ELSE nodes
        /\ nodesCount' = IF room THEN nodesCount + 1 ELSE nodesCount
        /\ UNCHANGED ipMap

\* RoutingTable::addOrUpdate.  A node that is not in the table is found among
\* the online users.
AddOrUpdate(u, addr, update, verified, goesOnline) ==
    \/ /\ u \notin DOMAIN nodes
       /\ AddNewNode(u, addr, verified, goesOnline)
    \/ /\ u \in DOMAIN nodes
       /\ MoveToBack(u)
       /\ KeepNode(u) \/ (update /\ UpdateNode(u, addr, verified))
       /\ UNCHANGED nodesCount

\* A RES or SND packet mentions u.
AddNode(u, addr, verified) ==
    /\ udp = {}
    /\ UNCHANGED <<listed, udp, left>>
    /\ AddOrUpdate(u, addr, FALSE, verified, FALSE)

\* An INF packet of u, up to the return of addNode.
Inf(u, addr, verified, connection) ==
    /\ udp = {}
    /\ connection => listed[u] < MaxListed \/ (u \in DOMAIN nodes /\ nodes[u].online)
    /\ udp' = IF connection THEN {[user |-> u, stage |-> "setOnline"]} ELSE {}
    /\ UNCHANGED <<listed, left>>
    /\ AddOrUpdate(u, addr, TRUE, verified, connection)

\* Without a lock, the handler of INF sets the flag ...
SetOnline ==
    \E h \in udp :
        /\ h.stage = "setOnline"
        /\ IF nodes[h.user].online
           THEN udp' = {} /\ UNCHANGED nodes
           ELSE /\ udp' = {[h EXCEPT !.stage = "putOnline"]}
                /\ nodes' = [nodes EXCEPT ![h.user].online = TRUE]
    /\ UNCHANGED <<table, ipMap, nodesCount, listed, left>>

\* ... and has the ClientManager list the user.
PutOnline ==
    \E h \in udp :
        /\ h.stage = "putOnline"
        /\ listed' = [listed EXCEPT ![h.user] = @ + 1]
        /\ udp' = {}
    /\ UNCHANGED <<table, nodes, ipMap, nodesCount, left>>

\* ClientManager::setIPUser, called for a result of an online user: all his
\* entries get the address it came from.  ipMap is not told.
SetIPUser(u, addr) ==
    /\ listed[u] > 0
    /\ nodes' = [nodes EXCEPT ![u].addr = addr]
    /\ left' = [left EXCEPT !.moved = @ \cup (({nodes[u].addr} \ {addr}) \cap ipMap)]
    /\ UNCHANGED <<table, ipMap, nodesCount, listed, udp>>

\* ClientManager::putOffline for each user of U.
PutOffline(U) ==
    listed' = [u \in Users |-> IF u \in U /\ listed[u] > 0 THEN listed[u] - 1 ELSE listed[u]]

-----------------------------------------------------------------------------
Held(u) == \E h \in udp : h.user = u

\* The dead nodes of a bucket.
Dead(z) == {u \in ToSet(table[z]) : nodes[u].type = 4 /\ nodes[u].expired}

\* Fault: the address of a removed node stays in ipMap.
RemoveNodes_KeepsAddress(gone, offline) ==
    /\ PutOffline(offline)
    /\ ipMap' = ipMap
    /\ nodesCount' = nodesCount - Cardinality(gone)

\* Fault: removed nodes are still counted.
RemoveNodes_StillCounted(gone, offline) ==
    /\ PutOffline(offline)
    /\ ipMap' = ipMap \ {nodes[u].addr : u \in gone}
    /\ nodesCount' = nodesCount

\* checkExpiration puts dead nodes offline and removes those nobody refers to.
RemoveNodes(gone, offline) ==
    /\ PutOffline(offline)
    /\ ipMap' = ipMap \ {nodes[u].addr : u \in gone}
    /\ nodesCount' = nodesCount - Cardinality(gone)

\* Fault: dead nodes are asked again.
Ask_Dead(u) == nodes[u].expired

\* Fault: nodes we have just heard of are never asked.
Ask_NotNew(u) == nodes[u].type < 3 /\ nodes[u].expired

\* Is the node in front asked whether it is alive?
Ask(u) == nodes[u].type < 4 /\ nodes[u].expired

\* Fault: a node that is put offline keeps its flag.
Checked_KeepsFlag(u, offline, pinged) ==
    [nodes[u] EXCEPT !.type    = IF u \in pinged THEN @ + 1 ELSE @,
                     !.expired = @ /\ u \notin pinged]

\* What the check makes of a node: setOnline(false), setTimeout.
Checked(u, offline, pinged) ==
    [nodes[u] EXCEPT !.online  = @ /\ u \notin offline,
                     !.type    = IF u \in pinged THEN @ + 1 ELSE @,
                     !.expired = @ /\ u \notin pinged]

\* RoutingTable::checkExpiration for one bucket: remove dead nodes to which
\* nobody refers; then ping the node in front if its deadline has passed, and
\* put it at the end otherwise.  (\E names what is left of the bucket: TLC
\* would compute a LET again at each use.)
CheckExpiration(z, gone) ==
    /\ UNCHANGED <<udp, left>>
    /\ \A u \in gone : ~Held(u)
    /\ LET offline == {u \in Dead(z) : nodes[u].online}
           alive   == {u \in DOMAIN nodes : u \notin gone \/ listed'[u] > 0}
       IN  /\ RemoveNodes(gone, offline)
           /\ \E bucket \in {Without(table[z], gone)} :
                 LET front  == {u \in ToSet(bucket) : u = Head(bucket)}
                     pinged == {u \in front : Ask(u)}
                 IN  /\ nodes' = [u \in alive |-> Checked(u, offline, pinged)]
                     /\ table' = [table EXCEPT ![z] =
                           IF front = pinged THEN bucket ELSE Append(Tail(bucket), Head(bucket))]

\* A deadline passes.
Expire(u) ==
    /\ u \in DOMAIN nodes /\ ~nodes[u].expired
    /\ nodes' = [nodes EXCEPT ![u].expired = TRUE]
    /\ UNCHANGED <<table, ipMap, nodesCount, listed, udp, left>>

\* DHT::stop deletes the table and start makes a new one.  The UDP thread has
\* been joined.  What is static is not reset.
Restart ==
    /\ udp = {}
    /\ left.count + Cardinality(InTable) <= MaxLeft
    /\ PutOffline({u \in InTable : nodes[u].online})
    /\ table' = Empty
    /\ nodes' = [u \in {v \in DOMAIN nodes : listed'[v] > 0} |->
                    [nodes[u] EXCEPT !.online = @ /\ u \notin InTable]]
    /\ left' = [left EXCEPT !.count = @ + Cardinality(InTable), !.addresses = @ \cup ipMap]
    /\ UNCHANGED <<ipMap, nodesCount, udp>>

Next ==
    \/ \E u \in Users : \E o \in Origins[u] :
          \/ AddNode(u, o.addr, o.verified)
          \/ \E connection \in Infs[u] : Inf(u, o.addr, o.verified, connection)
    \/ SetOnline
    \/ PutOnline
    \/ \E u \in Users : \E addr \in ResultOrigins[u] : SetIPUser(u, addr)
    \/ \E z \in DOMAIN table : \E gone \in SUBSET Dead(z) : CheckExpiration(z, gone)
    \/ \E u \in Users : Expire(u)
    \/ Restart

Spec == Init /\ [][Next]_vars

\* The UDP thread finishes what it handles, deadlines pass, and every minute the
\* timer thread checks every bucket; a search never takes a dead node, and the
\* searches that still refer to one end.
Fairness ==
    /\ WF_vars(SetOnline \/ PutOnline)
    /\ \A u \in Users : WF_vars(Expire(u))
    /\ \A u \in Users :
          WF_vars(Stored(u) /\ CheckExpiration(Zone(u), {v \in Dead(Zone(u)) : ~Held(v)}))

FairSpec == Spec /\ Fairness

-----------------------------------------------------------------------------
\* Does the XOR distance make the id a closer to the target than the id b?
Closer(a, b, target) ==
    \E i \in DOMAIN a :
        /\ a[i] # b[i] /\ a[i] = target[i]
        /\ \A j \in 1..(i - 1) : a[j] = b[j]

\* The max users of U that are closest to a target.
Nearest(max, U, target) ==
    {u \in U : Cardinality({v \in U : Closer(Id[v], Id[u], target)}) < max}

Eligible(U, maxType) == {u \in U : nodes[u].type <= maxType /\ nodes[u].verified}

\* The zones of the tree: the buckets and those that were split.
TreeZones == UNION {Prefixes(z) : z \in DOMAIN table}

\* Fault: the side of the target is visited last.
getClosestNodes_FarthestFirst(target, max, maxType) ==
    LET walk[z \in TreeZones] == [found \in SUBSET Users |->
            IF z \in DOMAIN table
            THEN Nearest(max, found \cup Eligible(ToSet(table[z]), maxType), target)
            ELSE LET bit  == target[Len(z) + 1]
                     near == walk[Append(z, 1 - bit)][found]
                 IN  IF Cardinality(near) < max THEN walk[Append(z, bit)][near] ELSE near]
    IN  walk[Root][{}]

\* RoutingTable::getClosestNodes adds to the nodes found so far those of a
\* bucket that are closer; at each branch it goes first to the side of the
\* target, then to the other one if nodes are still missing.
getClosestNodes(target, max, maxType) ==
    LET walk[z \in TreeZones] == [found \in SUBSET Users |->
            IF z \in DOMAIN table
            THEN Nearest(max, found \cup Eligible(ToSet(table[z]), maxType), target)
            ELSE LET bit  == target[Len(z) + 1]
                     near == walk[Append(z, bit)][found]
                 IN  IF Cardinality(near) < max THEN walk[Append(z, 1 - bit)][near] ELSE near]
    IN  walk[Root][{}]

-----------------------------------------------------------------------------
\* Types, and which nodes exist.
TypeOK ==
    /\ DOMAIN table \subseteq Path
    /\ \A z \in DOMAIN table : table[z] \in Seq(Users)
    /\ DOMAIN nodes \subseteq Users
    /\ \A u \in DOMAIN nodes : nodes[u] \in Node
    /\ InTable \cup {u \in Users : listed[u] > 0 \/ Held(u)} = DOMAIN nodes
    /\ ipMap \subseteq Addresses
    /\ nodesCount \in Nat
    /\ listed \in [Users -> 0..MaxListed]
    /\ udp \subseteq Handler /\ Cardinality(udp) <= 1
    /\ left \in [count : 0..MaxLeft, addresses : SUBSET Addresses, moved : SUBSET Addresses]

\* Whatever was split, removed and rotated: every user belongs in exactly one
\* bucket, and every bucket holds at most DHT_K nodes, each of them once and
\* only if it belongs there.
EveryNodeInItsPlace ==
    /\ \A u \in Users : Cardinality((DOMAIN table \cap Zones[u])) = 1
    /\ \A z \in DOMAIN table :
          /\ Len(table[z]) <= DHT_K
          /\ IsInjective(table[z])
          /\ \A u \in ToSet(table[z]) : z \in Zones[u]

\* nodesCount, counted up and down by addOrUpdate and checkExpiration, is the
\* number of nodes in the buckets, but for what earlier tables have left.
CountIsExact == nodesCount = Cardinality(InTable) + left.count

\* The walk through the tree returns the closest of all nodes that are eligible,
\* although it leaves out the far side of a branch as soon as it has enough.
ClosestIsExact ==
    \A target \in Targets, max \in 1..DHT_K, maxType \in {2, 3} :
            getClosestNodes(target, max, maxType) = Nearest(max, Eligible(InTable, maxType), target)

\* The address of a node: does any have it?
Used(addr) == \E u \in DOMAIN nodes : nodes[u].addr = addr

\* addOrUpdate and checkExpiration block no address for ever: an address known
\* to be in use is the address of a node, however nodes move, die and come back,
\* unless an earlier table left it or a search result moved a node away from it.
KnownAddressIsUsed ==
    \A addr \in ipMap : addr \in left.addresses \cup left.moved \/ Used(addr)

\* A node marked online can be found among the online users, except while the
\* handler of INF is about to list it.
OnlineIsListed ==
    \A u \in DOMAIN nodes :
        nodes[u].online /\ ~(\E h \in udp : h = [user |-> u, stage |-> "putOnline"]) => listed[u] > 0

\* A node of which no packet tells anything any more leaves the table, however
\* the other nodes of its bucket are moved around.
SilentNodeLeaves ==
    \A u \in Users :
        \/ []<><<\E o \in Origins[u] :
                    \/ AddNode(u, o.addr, o.verified)
                    \/ \E connection \in Infs[u] : Inf(u, o.addr, o.verified, connection)>>_vars
        \/ []<>~Stored(u)

===============================================================================
