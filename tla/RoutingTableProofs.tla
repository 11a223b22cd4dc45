-------------------------- MODULE RoutingTableProofs --------------------------
(***************************************************************************)
(* Proofs about RoutingTable, for any users, ids, addresses and packets:   *)
(* the table leaves no address known without a node, and a node that is    *)
(* online is listed - neither depends on how the buckets are split, so     *)
(* these proofs do not expand the table; then the tree, its types, that    *)
(* every node is in its place, that the nodes are counted, and that a      *)
(* search in the tree finds the closest.                                   *)
(***************************************************************************)
EXTENDS RoutingTable, ListsProofs, WellFoundedInduction

-----------------------------------------------------------------------------
(* The nodes, the entries of the users and the handler.                    *)

\* What the proofs need of the types: no more than one INF is being handled.
NodesOK ==
    /\ DOMAIN nodes \subseteq Users
    /\ \A u \in DOMAIN nodes : nodes[u] \in Node
    /\ listed \in [Users -> Nat]
    /\ udp \subseteq Handler
    /\ \A g, h \in udp : g = h

LEMMA NewNodeType == ASSUME NEW addr \in Addresses, NEW verified \in BOOLEAN
                     PROVE  NewNode(addr, verified) \in Node
  BY DEF NewNode, Node

\* addOrUpdate keeps the nodes well typed.
LEMMA AddOrUpdateType ==
    ASSUME NodesOK, NEW u \in Users, NEW addr \in Addresses, NEW update \in BOOLEAN,
           NEW verified \in BOOLEAN, NEW goesOnline \in BOOLEAN,
           AddOrUpdate(u, addr, update, verified, goesOnline)
    PROVE  /\ DOMAIN nodes' \subseteq Users
           /\ \A v \in DOMAIN nodes' : nodes'[v] \in Node
<1>1. CASE u \notin DOMAIN nodes /\ AddNewNode(u, addr, verified, goesOnline)
  BY <1>1, NewNodeType DEF AddNewNode, NodesOK
<1>2. CASE u \in DOMAIN nodes /\ KeepNode(u)
  BY <1>2 DEF KeepNode, NodesOK
<1>3. CASE u \in DOMAIN nodes /\ UpdateNode(u, addr, verified)
  <2>1. AliveTypes \subseteq 0..4
    BY RoutingAssumption
  <2>2. PICK type \in AliveTypes :
          nodes' = [nodes EXCEPT ![u] =
                      [@ EXCEPT !.addr = addr, !.type = type, !.expired = FALSE,
                                !.verified = verified \/ (~(addr # nodes[u].addr) /\ @)]]
    BY <1>3 DEF UpdateNode
  <2>3. nodes[u] \in Node
    BY <1>3 DEF NodesOK
  <2>4. \A b \in BOOLEAN : [nodes[u] EXCEPT !.addr = addr, !.type = type, !.expired = FALSE,
                                             !.verified = b] \in Node
    BY <2>1, <2>3 DEF Node
  <2>5. verified \/ (~(addr # nodes[u].addr) /\ nodes[u].verified) \in BOOLEAN
    BY <2>3 DEF Node
  <2> QED
    BY <1>3, <2>2, <2>4, <2>5 DEF NodesOK
<1> QED
  BY <1>1, <1>2, <1>3 DEF AddOrUpdate

LEMMA PutOfflineType == ASSUME NodesOK, NEW U, PutOffline(U)
                        PROVE  listed' \in [Users -> Nat]
  BY DEF NodesOK, PutOffline

\* checkExpiration keeps the address of a node and its type in 0..4.
LEMMA CheckedType ==
    ASSUME NEW u, nodes[u] \in Node, NEW offline, NEW pinged, u \in pinged => Ask(u)
    PROVE  /\ Checked(u, offline, pinged) \in Node
           /\ Checked(u, offline, pinged).addr = nodes[u].addr
           /\ Checked(u, offline, pinged).online = (nodes[u].online /\ u \notin offline)
<1> DEFINE online  == nodes[u].online /\ u \notin offline
           type    == IF u \in pinged THEN nodes[u].type + 1 ELSE nodes[u].type
           expired == nodes[u].expired /\ u \notin pinged
<1>1. online \in BOOLEAN /\ expired \in BOOLEAN
  OBVIOUS
<1>2. type \in 0..4
  BY DEF Ask, Node
<1> HIDE DEF online, type, expired
<1>3. /\ [nodes[u] EXCEPT !.online = online, !.type = type, !.expired = expired] \in Node
      /\ [nodes[u] EXCEPT !.online = online, !.type = type, !.expired = expired].addr = nodes[u].addr
      /\ [nodes[u] EXCEPT !.online = online, !.type = type, !.expired = expired].online = online
  BY <1>1, <1>2 DEF Node
<1> QED
  BY <1>3, Zenon DEF Checked, online, type, expired

\* The sets a check computes: those it puts offline and the one that it pings.
LEMMA CheckExpirationStep ==
    ASSUME NEW z \in DOMAIN table, NEW gone, CheckExpiration(z, gone)
    PROVE  \E offline, pinged :
             /\ RemoveNodes(gone, offline)
             /\ offline = {u \in Dead(z) : nodes[u].online}
             /\ nodes' = [u \in {v \in DOMAIN nodes : v \notin gone \/ listed'[v] > 0} |->
                             Checked(u, offline, pinged)]
             /\ \A u \in pinged : Ask(u)
<1> DEFINE offline == {u \in Dead(z) : nodes[u].online}
<1>1. PICK bucket \in {Without(table[z], gone)} :
        nodes' = [u \in {v \in DOMAIN nodes : v \notin gone \/ listed'[v] > 0} |->
                     Checked(u, offline, {v \in {w \in ToSet(bucket) : w = Head(bucket)} : Ask(v)})]
  BY DEF CheckExpiration
<1> DEFINE pinged == {v \in {w \in ToSet(bucket) : w = Head(bucket)} : Ask(v)}
<1>2. RemoveNodes(gone, offline)
  BY DEF CheckExpiration
<1>3. \A u \in pinged : Ask(u)
  OBVIOUS
<1>4. nodes' = [u \in {v \in DOMAIN nodes : v \notin gone \/ listed'[v] > 0} |->
                   Checked(u, offline, pinged)]
  BY <1>1
<1>5. offline = {u \in Dead(z) : nodes[u].online}
  OBVIOUS
<1> HIDE DEF offline, pinged
<1> QED
  BY <1>2, <1>3, <1>4, <1>5

\* A search result gives its user another address, and changes nothing else.
LEMMA SetIPUserStep ==
    ASSUME NodesOK, NEW u \in Users, NEW addr \in ResultOrigins[u], SetIPUser(u, addr)
    PROVE  /\ UNCHANGED <<table, ipMap, nodesCount, listed, udp>>
           /\ DOMAIN nodes' = DOMAIN nodes
           /\ \A v \in DOMAIN nodes :
                 /\ nodes'[v] \in Node
                 /\ nodes'[v].addr = (IF v = u THEN addr ELSE nodes[v].addr)
                 /\ nodes'[v].online = nodes[v].online
<1>1. addr \in Addresses
  BY RoutingAssumption
<1>2. nodes' = [nodes EXCEPT ![u].addr = addr]
  BY DEF SetIPUser
<1>3. ASSUME NEW v \in DOMAIN nodes
      PROVE  /\ nodes'[v] \in Node
             /\ nodes'[v].addr = (IF v = u THEN addr ELSE nodes[v].addr)
             /\ nodes'[v].online = nodes[v].online
  <2>1. nodes[v] \in Node
    BY DEF NodesOK
  <2>2. CASE v = u
    <3>1. nodes'[v] = [nodes[v] EXCEPT !.addr = addr]
      BY <1>2, <2>2
    <3> QED
      BY <1>1, <2>1, <2>2, <3>1 DEF Node
  <2>3. CASE v # u
    <3>1. nodes'[v] = nodes[v]
      BY <1>2, <2>3
    <3> QED
      BY <2>1, <2>3, <3>1
  <2> QED
    BY <2>2, <2>3
<1>4. DOMAIN nodes' = DOMAIN nodes
  BY <1>2
<1> QED
  BY <1>3, <1>4 DEF SetIPUser

-----------------------------------------------------------------------------
LEMMA NodesInit == Init => NodesOK
<1> SUFFICES ASSUME Init PROVE NodesOK
  OBVIOUS
<1>1. DOMAIN nodes = {}
  BY DEF Init
<1> QED
  BY <1>1 DEF Init, NodesOK

LEMMA NodesNext == NodesOK /\ [Next]_vars => NodesOK'
<1> SUFFICES ASSUME NodesOK, [Next]_vars PROVE NodesOK'
  OBVIOUS
<1>1. ASSUME NEW u \in Users, NEW o \in Origins[u],
             AddNode(u, o.addr, o.verified)
      PROVE  NodesOK'
  <2>1. o.addr \in Addresses /\ o.verified \in BOOLEAN
    BY <1>1, RoutingAssumption
  <2> QED
    BY <1>1, <2>1, AddOrUpdateType DEF AddNode, NodesOK
<1>2. ASSUME NEW u \in Users, NEW o \in Origins[u],
             NEW connection \in Infs[u], Inf(u, o.addr, o.verified, connection)
      PROVE  NodesOK'
  <2>1. o.addr \in Addresses /\ o.verified \in BOOLEAN /\ connection \in BOOLEAN
    BY <1>2, RoutingAssumption
  <2>2. /\ DOMAIN nodes' \subseteq Users
        /\ \A v \in DOMAIN nodes' : nodes'[v] \in Node
    BY <1>2, <2>1, AddOrUpdateType DEF Inf
  <2> QED
    BY <1>2, <2>2 DEF Inf, NodesOK, Handler
<1>3. CASE SetOnline
  <2>1. PICK h \in udp :
          /\ h.stage = "setOnline"
          /\ \/ udp' = {} /\ UNCHANGED nodes
             \/ /\ udp' = {[h EXCEPT !.stage = "putOnline"]}
                /\ nodes' = [nodes EXCEPT ![h.user].online = TRUE]
    BY <1>3 DEF SetOnline
  <2>2. [h EXCEPT !.stage = "putOnline"] \in Handler
    BY <2>1 DEF NodesOK, Handler
  <2>3. \A u \in DOMAIN nodes : [nodes[u] EXCEPT !.online = TRUE] \in Node
    BY DEF NodesOK, Node
  <2> QED
    BY <1>3, <2>1, <2>2, <2>3 DEF SetOnline, NodesOK
<1>4. CASE PutOnline
  BY <1>4 DEF PutOnline, NodesOK, Handler
<1>5. ASSUME NEW z \in DOMAIN table, NEW gone \in SUBSET Dead(z), CheckExpiration(z, gone)
      PROVE  NodesOK'
  <2>1. PICK offline, pinged :
          /\ RemoveNodes(gone, offline)
          /\ nodes' = [u \in {v \in DOMAIN nodes : v \notin gone \/ listed'[v] > 0} |->
                          Checked(u, offline, pinged)]
          /\ \A u \in pinged : Ask(u)
    BY <1>5, CheckExpirationStep
  <2>2. listed' \in [Users -> Nat]
    BY <2>1, PutOfflineType DEF RemoveNodes
  <2>3. \A u \in DOMAIN nodes' : nodes'[u] \in Node
    BY <2>1, CheckedType DEF NodesOK
  <2> QED
    BY <1>5, <2>1, <2>2, <2>3 DEF CheckExpiration, NodesOK
<1>6. ASSUME NEW u \in Users, Expire(u)
      PROVE  NodesOK'
  BY <1>6 DEF Expire, NodesOK, Node
<1>7. CASE Restart
  <2>1. listed' \in [Users -> Nat]
    BY <1>7, PutOfflineType DEF Restart
  <2>2. \A u \in DOMAIN nodes' : u \in DOMAIN nodes /\ nodes'[u] \in Node
    BY ZenonT(60), <1>7 DEF Restart, NodesOK, Node
  <2> QED
    BY <1>7, <2>1, <2>2 DEF Restart, NodesOK
<1>8. ASSUME NEW u \in Users, NEW addr \in ResultOrigins[u], SetIPUser(u, addr)
      PROVE  NodesOK'
  BY <1>8, SetIPUserStep DEF NodesOK
<1>9. CASE UNCHANGED vars
  BY <1>9 DEF vars, NodesOK
<1> QED
  BY <1>1, <1>2, <1>3, <1>4, <1>5, <1>6, <1>7, <1>8, <1>9 DEF Next

-----------------------------------------------------------------------------
(* No address is blocked: what checkExpiration and an update take out.     *)

\* What earlier tables and search results have left is a record.
LeftOK == left = [count |-> left.count, addresses |-> left.addresses, moved |-> left.moved]

KnownInv == NodesOK /\ LeftOK /\ KnownAddressIsUsed

\* addOrUpdate makes an address known only by giving it to a node, and forgets
\* the earlier one of that node.
LEMMA AddOrUpdateKnown ==
    ASSUME KnownInv, NEW u \in Users, NEW addr, NEW update, NEW verified, NEW goesOnline,
           AddOrUpdate(u, addr, update, verified, goesOnline), left' = left
    PROVE  KnownAddressIsUsed'
<1>1. CASE u \notin DOMAIN nodes /\ AddNewNode(u, addr, verified, goesOnline)
  <2>1. \A v \in DOMAIN nodes : v \in DOMAIN nodes' /\ nodes'[v] = nodes[v]
    BY <1>1 DEF AddNewNode
  <2> QED
    BY <1>1, <2>1 DEF AddNewNode, KnownInv, KnownAddressIsUsed, Used
<1>2. CASE KeepNode(u)
  BY <1>2 DEF KeepNode, KnownInv, KnownAddressIsUsed, Used
<1>3. CASE u \in DOMAIN nodes /\ UpdateNode(u, addr, verified)
  <2>1. DOMAIN nodes' = DOMAIN nodes /\ nodes'[u].addr = addr
    BY ZenonT(60), <1>3 DEF UpdateNode, KnownInv, NodesOK, Node
  <2>2. \A v \in DOMAIN nodes \ {u} : nodes'[v] = nodes[v]
    BY <1>3 DEF UpdateNode
  <2>3. ASSUME NEW a \in ipMap', a # addr
        PROVE  a \in ipMap /\ (nodes[u].addr # addr => a # nodes[u].addr)
    BY <1>3, <2>3 DEF UpdateNode
  <2>4. ASSUME NEW a \in ipMap'
        PROVE  a \in left.addresses \cup left.moved \/ \E v \in DOMAIN nodes' : nodes'[v].addr = a
    <3>1. CASE a = addr
      BY <1>3, <2>1, <3>1
    <3>2. CASE a # addr
      <4>1. a \in left.addresses \cup left.moved \/ \E v \in DOMAIN nodes : nodes[v].addr = a
        BY <2>3, <3>2 DEF KnownInv, KnownAddressIsUsed, Used
      <4>2. ASSUME NEW v \in DOMAIN nodes, nodes[v].addr = a
            PROVE  v # u
        BY <2>3, <3>2, <4>2
      <4> QED
        BY <2>1, <2>2, <4>1, <4>2
    <3> QED
      BY <3>1, <3>2
  <2> QED
    BY <2>4 DEF KnownAddressIsUsed, Used
<1> QED
  BY <1>1, <1>2, <1>3 DEF AddOrUpdate

LEMMA KnownInit == Init => KnownInv
  BY NodesInit DEF Init, KnownInv, LeftOK, KnownAddressIsUsed, Used

LEMMA KnownNext == KnownInv /\ [Next]_vars => KnownInv'
<1> SUFFICES ASSUME KnownInv, [Next]_vars PROVE KnownInv'
  OBVIOUS
<1>0. LeftOK'
  BY DEF KnownInv, LeftOK, Next, vars, AddNode, Inf, SetOnline, PutOnline, SetIPUser, CheckExpiration,
         Expire, Restart
<1> SUFFICES KnownAddressIsUsed'
  BY <1>0, NodesNext DEF KnownInv
<1>1. ASSUME NEW u \in Users, NEW o \in Origins[u], AddNode(u, o.addr, o.verified)
      PROVE  KnownAddressIsUsed'
  BY <1>1, AddOrUpdateKnown DEF AddNode
<1>2. ASSUME NEW u \in Users, NEW o \in Origins[u], NEW connection \in Infs[u],
             Inf(u, o.addr, o.verified, connection)
      PROVE  KnownAddressIsUsed'
  BY <1>2, AddOrUpdateKnown DEF Inf
<1>3. ASSUME ipMap' = ipMap, left' = left, DOMAIN nodes' = DOMAIN nodes,
             \A u \in DOMAIN nodes : nodes'[u].addr = nodes[u].addr
      PROVE  KnownAddressIsUsed'
  BY <1>3 DEF KnownInv, KnownAddressIsUsed, Used
<1>4. CASE SetOnline
  <2>1. /\ DOMAIN nodes' = DOMAIN nodes
        /\ \A u \in DOMAIN nodes : nodes'[u].addr = nodes[u].addr
    BY <1>4 DEF SetOnline, KnownInv, NodesOK, Node
  <2> QED
    BY <1>3, <1>4, <2>1 DEF SetOnline
<1>5. CASE PutOnline
  BY <1>3, <1>5 DEF PutOnline
<1>6. ASSUME NEW z \in DOMAIN table, NEW gone \in SUBSET Dead(z), CheckExpiration(z, gone)
      PROVE  KnownAddressIsUsed'
  <2>1. PICK offline, pinged :
          /\ RemoveNodes(gone, offline)
          /\ nodes' = [u \in {v \in DOMAIN nodes : v \notin gone \/ listed'[v] > 0} |->
                          Checked(u, offline, pinged)]
          /\ \A u \in pinged : Ask(u)
    BY <1>6, CheckExpirationStep
  <2>2. ipMap' = ipMap \ {nodes[u].addr : u \in gone} /\ left' = left
    BY <1>6, <2>1 DEF RemoveNodes, CheckExpiration
  <2>3. \A u \in DOMAIN nodes : u \notin gone =>
           u \in DOMAIN nodes' /\ nodes'[u].addr = nodes[u].addr
    BY <2>1, CheckedType DEF KnownInv, NodesOK
  <2> QED
    BY <2>2, <2>3 DEF KnownInv, KnownAddressIsUsed, Used
<1>7. ASSUME NEW u \in Users, Expire(u)
      PROVE  KnownAddressIsUsed'
  <2>1. /\ DOMAIN nodes' = DOMAIN nodes
        /\ \A v \in DOMAIN nodes : nodes'[v].addr = nodes[v].addr
    BY <1>7 DEF Expire, KnownInv, NodesOK, Node
  <2> QED
    BY <1>3, <1>7, <2>1 DEF Expire
<1>8. CASE Restart
  <2>1. ipMap' = ipMap /\ ipMap \subseteq left'.addresses
    BY <1>8 DEF Restart, KnownInv, LeftOK
  <2> QED
    BY <2>1 DEF KnownAddressIsUsed, Used
<1>9. ASSUME NEW u \in Users, NEW addr \in ResultOrigins[u], SetIPUser(u, addr)
      PROVE  KnownAddressIsUsed'
  <2>1. /\ ipMap' = ipMap /\ DOMAIN nodes' = DOMAIN nodes
        /\ \A v \in DOMAIN nodes : nodes'[v].addr = (IF v = u THEN addr ELSE nodes[v].addr)
    BY <1>9, SetIPUserStep DEF KnownInv
  <2>2. /\ left'.addresses = left.addresses
        /\ left'.moved = left.moved \cup (({nodes[u].addr} \ {addr}) \cap ipMap)
    BY <1>9 DEF SetIPUser, KnownInv, LeftOK
  <2> QED
    BY <2>1, <2>2 DEF KnownInv, KnownAddressIsUsed, Used
<1>10. CASE UNCHANGED vars
  BY <1>3, <1>10 DEF vars
<1> QED
  BY <1>1, <1>2, <1>4, <1>5, <1>6, <1>7, <1>8, <1>9, <1>10 DEF Next

\* However nodes are added, updated and removed, and told to have moved by search
\* results, an address that updates are refused for is the address of a node, unless
\* an earlier table left it or a search result moved a node away from it.
THEOREM KnownAddressesAreUsed == Spec => []KnownAddressIsUsed
<1>1. KnownInv => KnownAddressIsUsed
  BY DEF KnownInv
<1> QED
  BY KnownInit, KnownNext, <1>1, PTL DEF Spec

-----------------------------------------------------------------------------
(* Who is online is listed, except in the window of the INF handler.       *)

ListedInv == NodesOK /\ OnlineIsListed

\* addOrUpdate puts nobody online.
LEMMA AddOrUpdateOnline ==
    ASSUME NodesOK, NEW u \in Users, NEW addr, NEW update, NEW verified, NEW goesOnline,
           AddOrUpdate(u, addr, update, verified, goesOnline),
           NEW v \in DOMAIN nodes', nodes'[v].online
    PROVE  v \in DOMAIN nodes /\ nodes[v].online
<1>1. CASE u \notin DOMAIN nodes /\ AddNewNode(u, addr, verified, goesOnline)
  BY <1>1 DEF AddNewNode, NewNode
<1>2. CASE KeepNode(u)
  BY <1>2 DEF KeepNode
<1>3. CASE u \in DOMAIN nodes /\ UpdateNode(u, addr, verified)
  BY <1>3 DEF UpdateNode, NodesOK, Node
<1> QED
  BY <1>1, <1>2, <1>3 DEF AddOrUpdate

LEMMA ListedInit == Init => ListedInv
  BY NodesInit DEF Init, ListedInv, OnlineIsListed

LEMMA ListedNext == ListedInv /\ [Next]_vars => ListedInv'
<1> SUFFICES ASSUME ListedInv, [Next]_vars PROVE OnlineIsListed'
  BY NodesNext DEF ListedInv
<1>1. ASSUME NEW u \in Users, NEW o \in Origins[u], AddNode(u, o.addr, o.verified)
      PROVE  OnlineIsListed'
  BY <1>1, AddOrUpdateOnline DEF AddNode, ListedInv, OnlineIsListed
<1>2. ASSUME NEW u \in Users, NEW o \in Origins[u], NEW connection \in Infs[u],
             Inf(u, o.addr, o.verified, connection)
      PROVE  OnlineIsListed'
  BY <1>2, AddOrUpdateOnline DEF Inf, ListedInv, OnlineIsListed
<1>3. CASE SetOnline
  <2>1. PICK h \in udp :
          /\ h.stage = "setOnline"
          /\ \/ udp' = {} /\ UNCHANGED nodes
             \/ /\ udp' = {[h EXCEPT !.stage = "putOnline"]}
                /\ nodes' = [nodes EXCEPT ![h.user].online = TRUE]
    BY <1>3 DEF SetOnline
  <2>2. h \in Handler /\ \A g \in udp : g = h
    BY <2>1 DEF ListedInv, NodesOK
  <2>3. [h EXCEPT !.stage = "putOnline"] = [user |-> h.user, stage |-> "putOnline"]
    BY <2>2 DEF Handler
  <2>4. \A u \in DOMAIN nodes : nodes[u].online => listed[u] > 0
    BY <2>1, <2>2 DEF ListedInv, OnlineIsListed
  <2>5. DOMAIN nodes' = DOMAIN nodes /\ \A u \in DOMAIN nodes \ {h.user} : nodes'[u] = nodes[u]
    BY <2>1
  <2>6. listed' = listed
    BY <1>3 DEF SetOnline
  <2> QED
    BY <2>1, <2>3, <2>4, <2>5, <2>6 DEF OnlineIsListed
<1>4. CASE PutOnline
  <2>1. PICK h \in udp :
          listed' = [listed EXCEPT ![h.user] = @ + 1] /\ udp' = {} /\ UNCHANGED nodes
    BY <1>4 DEF PutOnline
  <2>2. h \in Handler /\ \A g \in udp : g = h
    BY <2>1 DEF ListedInv, NodesOK
  <2>3. \A u \in DOMAIN nodes : u # h.user /\ nodes[u].online => listed[u] > 0
    BY <2>2 DEF ListedInv, OnlineIsListed
  <2> QED
    BY <2>1, <2>2, <2>3 DEF ListedInv, NodesOK, OnlineIsListed, Handler
<1>5. ASSUME NEW z \in DOMAIN table, NEW gone \in SUBSET Dead(z), CheckExpiration(z, gone)
      PROVE  OnlineIsListed'
  <2>1. PICK offline, pinged :
          /\ RemoveNodes(gone, offline)
          /\ nodes' = [u \in {v \in DOMAIN nodes : v \notin gone \/ listed'[v] > 0} |->
                          Checked(u, offline, pinged)]
          /\ \A u \in pinged : Ask(u)
    BY <1>5, CheckExpirationStep
  <2>2. \A u \in DOMAIN nodes' : nodes'[u].online = (nodes[u].online /\ u \notin offline)
    BY <2>1, CheckedType DEF ListedInv, NodesOK
  <2>3. \A u \in Users \ offline : listed'[u] = listed[u]
    BY <2>1 DEF RemoveNodes, PutOffline
  <2>4. udp' = udp
    BY <1>5 DEF CheckExpiration
  <2> QED
    BY <2>1, <2>2, <2>3, <2>4 DEF ListedInv, NodesOK, OnlineIsListed
<1>6. ASSUME NEW u \in Users, Expire(u)
      PROVE  OnlineIsListed'
  BY <1>6 DEF Expire, ListedInv, NodesOK, Node, OnlineIsListed
<1>7. CASE Restart
  <2>1. \A u \in DOMAIN nodes' : nodes'[u].online => u \in DOMAIN nodes /\ nodes[u].online
    BY <1>7 DEF Restart, ListedInv, NodesOK, Node
  <2>2. \A u \in DOMAIN nodes' : listed'[u] > 0
    BY <1>7 DEF Restart
  <2> QED
    BY <2>2 DEF OnlineIsListed
<1>8. ASSUME NEW u \in Users, NEW addr \in ResultOrigins[u], SetIPUser(u, addr)
      PROVE  OnlineIsListed'
  BY <1>8, SetIPUserStep DEF ListedInv, OnlineIsListed
<1>9. CASE UNCHANGED vars
  BY <1>9 DEF vars, ListedInv, OnlineIsListed
<1> QED
  BY <1>1, <1>2, <1>3, <1>4, <1>5, <1>6, <1>7, <1>8, <1>9 DEF Next

\* However INF, time-outs, removals and restarts interleave, a node marked
\* online is listed, unless the handler of INF is between the two steps.
THEOREM OnlineUsersAreListed == Spec => []OnlineIsListed
<1>1. ListedInv => OnlineIsListed
  BY DEF ListedInv
<1> QED
  BY ListedInit, ListedNext, <1>1, PTL DEF Spec

-----------------------------------------------------------------------------
(* The tree of buckets: prefixes of ids, splitting, and what a bucket      *)
(* holds.                                                                  *)

Ids == [1..ID_BITS -> Bit]

\* The first n bits of an id.
Bits(x, n) == SubSeq(x, 1, n)

LEMMA BitsType ==
    ASSUME NEW x \in Ids, NEW n \in 0..ID_BITS
    PROVE  /\ Bits(x, n) \in Seq(Bit) /\ Len(Bits(x, n)) = n
           /\ Bits(x, n) \in Path
           /\ \A i \in 1..n : Bits(x, n)[i] = x[i]
<1>1. x \in [1..ID_BITS -> Bit] /\ ID_BITS \in Nat
  BY RoutingAssumption DEF Ids
<1>2. x \in Seq(Bit) /\ Len(x) = ID_BITS
  BY <1>1
<1>3. /\ Bits(x, n) \in Seq(Bit) /\ Len(Bits(x, n)) = n
      /\ \A i \in 1..n : Bits(x, n)[i] = x[i]
  BY <1>1, <1>2 DEF Bits
<1>4. Bits(x, n) \in [1..n -> Bit]
  BY <1>3
<1> QED
  BY <1>3, <1>4 DEF Path

LEMMA ZonesAreBits == \A x \in Ids : Prefixes(x) = {Bits(x, n) : n \in 0..ID_BITS}
<1> SUFFICES ASSUME NEW x \in Ids PROVE Prefixes(x) = {Bits(x, n) : n \in 0..ID_BITS}
  OBVIOUS
<1>1. Len(x) = ID_BITS
  BY RoutingAssumption DEF Ids
<1> QED
  BY <1>1 DEF Prefixes, Bits

LEMMA UserIds ==
    \A u \in Users : /\ Id[u] \in Ids /\ Zones[u] = Prefixes(Id[u])
                    /\ Zones[u] = {Bits(Id[u], n) : n \in 0..ID_BITS}
<1> SUFFICES ASSUME NEW u \in Users
             PROVE  /\ Id[u] \in Ids /\ Zones[u] = Prefixes(Id[u])
                    /\ Zones[u] = {Bits(Id[u], n) : n \in 0..ID_BITS}
  OBVIOUS
<1>1. Id[u] \in Ids
  BY RoutingAssumption DEF Ids
<1>2. Zones[u] = Prefixes(Id[u])
  BY DEF Zones
<1> QED
  BY <1>1, <1>2, ZonesAreBits

LEMMA SameBits ==
    ASSUME NEW x \in Ids, NEW y \in Ids, NEW n \in 0..ID_BITS, NEW k \in 0..ID_BITS
    PROVE  Bits(x, n) = Bits(y, k) <=> n = k /\ \A i \in 1..n : x[i] = y[i]
<1>1. ASSUME Bits(x, n) = Bits(y, k) PROVE n = k /\ \A i \in 1..n : x[i] = y[i]
  BY <1>1, BitsType
<1>2. ASSUME n = k, \A i \in 1..n : x[i] = y[i] PROVE Bits(x, n) = Bits(y, k)
  BY <1>2, BitsType
<1> QED
  BY <1>1, <1>2

LEMMA ShorterBits ==
    ASSUME NEW x \in Ids, NEW y \in Ids, NEW n \in 0..ID_BITS, NEW k \in 0..n,
           Bits(x, n) = Bits(y, n)
    PROVE  Bits(x, k) = Bits(y, k)
<1>1. k \in 0..ID_BITS /\ \A i \in 1..k : i \in 1..n
  BY RoutingAssumption
<1> QED
  BY <1>1, SameBits

\* A zone one level down.
LEMMA OneMoreBit ==
    ASSUME NEW x \in Ids, NEW n \in 0..(ID_BITS - 1), NEW b \in Bit
    PROVE  LET z == Append(Bits(x, n), b)
           IN  /\ z \in Path /\ Len(z) = n + 1
               /\ z[n + 1] = b /\ \A i \in 1..n : z[i] = x[i]
               /\ b = x[n + 1] => z = Bits(x, n + 1)
<1>1. ID_BITS \in Nat /\ n \in 0..ID_BITS /\ n + 1 \in 0..ID_BITS
  BY RoutingAssumption
<1> DEFINE z == Append(Bits(x, n), b)
<1>2. z \in Seq(Bit) /\ Len(z) = n + 1 /\ z[n + 1] = b /\ \A i \in 1..n : z[i] = x[i]
  <2>1. /\ Bits(x, n) \in Seq(Bit) /\ Len(Bits(x, n)) = n
        /\ \A i \in 1..n : Bits(x, n)[i] = x[i]
    BY <1>1, BitsType
  <2> QED
    BY <1>1, <2>1
<1> HIDE DEF z
<1>3. z \in Path
  <2>1. z \in [1..(n + 1) -> Bit]
    BY <1>1, <1>2
  <2> QED
    BY <1>1, <2>1 DEF Path
<1>4. ASSUME b = x[n + 1] PROVE z = Bits(x, n + 1)
  <2>1. /\ Bits(x, n + 1) \in Seq(Bit) /\ Len(Bits(x, n + 1)) = n + 1
        /\ \A i \in 1..(n + 1) : Bits(x, n + 1)[i] = x[i]
    BY <1>1, BitsType
  <2> QED
    BY <1>1, <1>2, <1>4, <2>1
<1> QED
  BY <1>2, <1>3, <1>4 DEF z

\* Whose zone it may be.
LEMMA BitsBelow ==
    ASSUME NEW x \in Ids, NEW n \in 0..(ID_BITS - 1), NEW b \in Bit,
           NEW y \in Ids, NEW k \in 0..ID_BITS, Append(Bits(x, n), b) = Bits(y, k)
    PROVE  k = n + 1 /\ Bits(x, n) = Bits(y, n) /\ b = y[n + 1]
<1> DEFINE z == Append(Bits(x, n), b)
<1>1. ID_BITS \in Nat /\ n \in 0..ID_BITS
  BY RoutingAssumption
<1>2. Len(z) = n + 1 /\ z[n + 1] = b /\ \A i \in 1..n : z[i] = x[i]
  BY OneMoreBit
<1>3. z = Bits(y, k)
  OBVIOUS
<1> HIDE DEF z
<1>4. k = n + 1 /\ \A i \in 1..k : z[i] = y[i]
  BY <1>2, <1>3, BitsType
<1>5. \A i \in 1..n : x[i] = y[i]
  BY <1>1, <1>2, <1>4
<1>6. Bits(x, n) = Bits(y, n)
  BY <1>1, <1>5, SameBits
<1>7. b = y[n + 1]
  <2>1. n + 1 \in 1..k
    BY <1>1, <1>4
  <2> QED
    BY <1>2, <1>4, <2>1
<1> QED
  BY <1>4, <1>6, <1>7

\* A table in which every id has one place, whether it is the id of a user or
\* not, and no bucket holds too many nodes, a node twice, or one that does not
\* belong there.
TableOK(t) ==
    /\ t = [z \in DOMAIN t |-> t[z]]
    /\ DOMAIN t \subseteq Path
    /\ \A z \in DOMAIN t : t[z] \in Seq(Users) /\ Len(t[z]) <= DHT_K /\ IsInjective(t[z])
    /\ \A z \in DOMAIN t : \A u \in ToSet(t[z]) : z \in Zones[u]
    /\ \A x \in Ids : \E z \in DOMAIN t : DOMAIN t \cap Prefixes(x) = {z}

Members(t) == UNION {ToSet(t[z]) : z \in DOMAIN t}

\* The bucket in which an id belongs.
Place(x) == CHOOSE z \in DOMAIN table : z \in Prefixes(x)

LEMMA PlaceIs ==
    ASSUME TableOK(table), NEW x \in Ids
    PROVE  /\ Place(x) \in DOMAIN table
           /\ DOMAIN table \cap Prefixes(x) = {Place(x)}
           /\ \E d \in 0..ID_BITS : Place(x) = Bits(x, d) /\ Len(Place(x)) = d
<1>1. PICK z \in DOMAIN table : DOMAIN table \cap Prefixes(x) = {z}
  BY DEF TableOK
<1>2. Place(x) = z
  BY <1>1 DEF Place
<1>3. PICK d \in 0..ID_BITS : z = Bits(x, d)
  BY <1>1, ZonesAreBits
<1> QED
  BY <1>1, <1>2, <1>3, BitsType

LEMMA ZoneIs ==
    ASSUME TableOK(table), NEW u \in Users
    PROVE  /\ Zone(u) \in DOMAIN table /\ Zone(u) = Place(Id[u])
           /\ DOMAIN table \cap Zones[u] = {Zone(u)}
           /\ \E d \in 0..ID_BITS : Zone(u) = Bits(Id[u], d) /\ Len(Zone(u)) = d
<1>1. Id[u] \in Ids /\ Zones[u] = Prefixes(Id[u])
  BY UserIds
<1>2. Zone(u) = Place(Id[u])
  BY <1>1 DEF Zone, Place
<1> QED
  BY <1>1, <1>2, PlaceIs

\* A bucket with other nodes that belong there.
LEMMA ReplaceBucket ==
    ASSUME NEW t, TableOK(t), NEW z \in DOMAIN t,
           NEW b \in Seq(Users), Len(b) <= DHT_K, IsInjective(b),
           \A u \in ToSet(b) : z \in Zones[u]
    PROVE  /\ TableOK([t EXCEPT ![z] = b])
           /\ Members([t EXCEPT ![z] = b]) = (Members(t) \ ToSet(t[z])) \cup ToSet(b)
<1> DEFINE r == [t EXCEPT ![z] = b]
<1>1. /\ DOMAIN r = DOMAIN t /\ r = [y \in DOMAIN r |-> r[y]]
      /\ r[z] = b /\ \A y \in DOMAIN t \ {z} : r[y] = t[y]
  BY DEF TableOK
<1> HIDE DEF r
<1>2. TableOK(r)
  BY <1>1 DEF TableOK
<1>3. ASSUME NEW u \in ToSet(t[z]), NEW y \in DOMAIN t \ {z} PROVE u \notin ToSet(t[y])
  <2> SUFFICES ASSUME u \in ToSet(t[y]) PROVE FALSE
    OBVIOUS
  <2>1. u \in Users /\ z \in Zones[u] /\ y \in Zones[u]
    BY DEF TableOK, ToSet
  <2>2. PICK x \in DOMAIN t : DOMAIN t \cap Zones[u] = {x}
    BY <2>1, UserIds DEF TableOK
  <2> QED
    BY <2>1, <2>2
<1>4. Members(r) = (Members(t) \ ToSet(t[z])) \cup ToSet(b)
  BY <1>1, <1>3 DEF Members
<1> QED
  BY <1>2, <1>4 DEF r

-----------------------------------------------------------------------------
(* Splitting: where it ends, and that it moves every node of the bucket to *)
(* the one new bucket in which it belongs.                                 *)

LEMMA LeastMember ==
    ASSUME NEW S \in SUBSET Nat, S # {}
    PROVE  \E x \in S : \A y \in S : x <= y
<1> DEFINE below == OpToRel(<, Nat)
<1>1. \A x, y \in Nat : y < x => <<y, x>> \in below
  BY Zenon DEF OpToRel
<1>2. IsWellFoundedOn(below, Nat)
  BY NatLessThanWellFounded
<1> HIDE DEF below
<1>3. PICK x \in S : \A y \in S : <<y, x>> \notin below
  BY <1>2, WFMin
<1>4. \A y \in S : ~(y < x)
  BY <1>1, <1>3
<1> QED
  BY <1>4

\* Splitting ends at a zone of the user below its bucket: at the last bit no
\* bucket may be split.
LEMMA TargetIs ==
    ASSUME TableOK(table), NEW u \in Users, NEW d \in 0..ID_BITS, Zone(u) = Bits(Id[u], d)
    PROVE  \E e \in d..ID_BITS : Target(u) = Bits(Id[u], e) /\ Len(Target(u)) = e
<1> DEFINE bucket  == ToSet(table[Zone(u)])
           path    == {p \in Zones[u] : Len(p) >= Len(Zone(u))}
           room(p) == Cardinality({v \in bucket : p \in Zones[v]}) < DHT_K
           ends    == {p \in path : room(p) \/ ~MaySplit(p)}
           lengths == {Len(p) : p \in ends}
<1>1. ID_BITS \in Nat /\ d \in Nat /\ Len(Zone(u)) = d
  BY BitsType, RoutingAssumption, UserIds
<1>2. path = {Bits(Id[u], n) : n \in d..ID_BITS}
  <2>1. Zones[u] = {Bits(Id[u], n) : n \in 0..ID_BITS}
    BY ZonesAreBits, UserIds
  <2>2. \A n \in 0..ID_BITS : Len(Bits(Id[u], n)) = n
    BY BitsType, UserIds
  <2> QED
    BY <1>1, <2>1, <2>2
<1>3. Bits(Id[u], ID_BITS) \in ends
  <2>1. Bits(Id[u], ID_BITS) \in path /\ Len(Bits(Id[u], ID_BITS)) = ID_BITS
    BY <1>1, <1>2, BitsType, UserIds
  <2>2. ~MaySplit(Bits(Id[u], ID_BITS))
    BY <1>1, <2>1 DEF MaySplit
  <2> QED
    BY <2>1, <2>2
<1>4. Target(u) = CHOOSE p \in ends : \A q \in ends : Len(p) <= Len(q)
  BY Zenon DEF Target
<1>5. \A p \in ends : p \in path
  OBVIOUS
<1> HIDE DEF ends
<1>6. lengths \in SUBSET Nat /\ lengths # {}
  <2>1. \A p \in ends : Len(p) \in Nat
    BY <1>1, <1>2, <1>5, BitsType, UserIds
  <2> QED
    BY <1>3, <2>1
<1>7. \E p \in ends : \A q \in ends : Len(p) <= Len(q)
  <2>1. PICK n \in lengths : \A k \in lengths : n <= k
    BY <1>6, LeastMember
  <2> QED
    BY <2>1
<1>8. Target(u) \in ends
  BY <1>4, <1>7
<1> QED
  BY <1>1, <1>2, <1>5, <1>8, BitsType, UserIds

\* The zones that Split divides, from the bucket of u down to its target.
Inner(u) == {p \in Zones[u] : Len(p) \in Len(Zone(u))..(Len(Target(u)) - 1)}

Leaves(u) == (DOMAIN table \cup UNION {{Append(p, 0), Append(p, 1)} : p \in Inner(u)}) \ Inner(u)

LEMMA InnerIs ==
    ASSUME NEW u \in Users, NEW d \in 0..ID_BITS, NEW e \in d..ID_BITS,
           Len(Zone(u)) = d, Len(Target(u)) = e
    PROVE  /\ Inner(u) = {Bits(Id[u], n) : n \in d..(e - 1)}
           /\ \A n \in d..(e - 1) : n \in 0..(ID_BITS - 1)
<1>1. ID_BITS \in Nat
  BY RoutingAssumption
<1>2. \A n \in d..(e - 1) : n \in 0..(ID_BITS - 1) /\ n \in 0..ID_BITS
  BY <1>1
<1>3. Zones[u] = {Bits(Id[u], n) : n \in 0..ID_BITS}
  BY ZonesAreBits, UserIds
<1>4. \A n \in 0..ID_BITS : Len(Bits(Id[u], n)) = n
  BY BitsType, UserIds
<1>5. Inner(u) = {p \in Zones[u] : Len(p) \in d..(e - 1)}
  BY DEF Inner
<1>6. \A p \in Inner(u) : \E n \in d..(e - 1) : p = Bits(Id[u], n)
  BY <1>3, <1>4, <1>5
<1>7. \A n \in d..(e - 1) : Bits(Id[u], n) \in Inner(u)
  BY <1>2, <1>3, <1>4, <1>5
<1> QED
  BY <1>2, <1>6, <1>7

\* An id of another bucket keeps its place.
LEMMA OthersStay ==
    ASSUME TableOK(table), NEW u \in Users, NEW x \in Ids, Place(x) # Zone(u)
    PROVE  Leaves(u) \cap Prefixes(x) = {Place(x)}
<1>1. PICK d \in 0..ID_BITS : Zone(u) = Bits(Id[u], d) /\ Len(Zone(u)) = d
  BY ZoneIs
<1>2. PICK e \in d..ID_BITS : Len(Target(u)) = e
  BY <1>1, TargetIs
<1>3. PICK f \in 0..ID_BITS : Place(x) = Bits(x, f)
  BY PlaceIs
<1>4. d \in Nat /\ e \in Nat /\ ID_BITS \in Nat
  BY RoutingAssumption
<1>5. Bits(x, d) # Bits(Id[u], d)
  <2> SUFFICES ASSUME Bits(x, d) = Bits(Id[u], d) PROVE FALSE
    OBVIOUS
  <2>1. Bits(x, d) \in Prefixes(x) /\ Bits(x, d) \in DOMAIN table
    BY <1>1, ZonesAreBits, ZoneIs, UserIds
  <2> QED
    BY <1>1, <2>1, PlaceIs
<1>6. ASSUME NEW n \in d..(e - 1), NEW k \in 0..ID_BITS PROVE Bits(Id[u], n) # Bits(x, k)
  <2> SUFFICES ASSUME Bits(Id[u], n) = Bits(x, k) PROVE FALSE
    OBVIOUS
  <2>1. n \in 0..ID_BITS /\ d \in 0..n
    BY <1>4
  <2>2. Bits(Id[u], n) = Bits(x, n)
    BY <2>1, SameBits, UserIds
  <2> QED
    BY <1>5, <2>1, <2>2, ShorterBits, UserIds
<1>7. Place(x) \notin Inner(u)
  BY <1>1, <1>2, <1>3, <1>6, InnerIs
<1>8. ASSUME NEW n \in d..(e - 1), NEW b \in Bit PROVE Append(Bits(Id[u], n), b) \notin Prefixes(x)
  <2> SUFFICES ASSUME NEW k \in 0..ID_BITS, Append(Bits(Id[u], n), b) = Bits(x, k) PROVE FALSE
    BY ZonesAreBits
  <2>1. n \in 0..(ID_BITS - 1) /\ n \in 0..ID_BITS /\ Id[u] \in Ids
    BY <1>4, UserIds
  <2>2. Bits(Id[u], n) = Bits(x, n)
    BY ZenonT(90), <2>1, BitsBelow
  <2> QED
    BY <1>6, <2>1, <2>2
<1>9. \A z \in Leaves(u) : z \in Prefixes(x) => z \in DOMAIN table
  <2>1. \A p \in Inner(u) : \E n \in d..(e - 1) : p = Bits(Id[u], n)
    BY <1>1, <1>2, InnerIs
  <2> SUFFICES ASSUME NEW z \in Leaves(u), z \notin DOMAIN table PROVE z \notin Prefixes(x)
    OBVIOUS
  <2>2. PICK p \in Inner(u) : \E b \in Bit : z = Append(p, b)
    BY DEF Leaves, Bit
  <2> QED
    BY <1>8, <2>1, <2>2
<1>10. DOMAIN table \cap Prefixes(x) = {Place(x)}
  BY PlaceIs
<1> QED
  BY <1>7, <1>9, <1>10 DEF Leaves

\* An id of the bucket that is split has a place in one of the new buckets:
\* below the last divided zone that it shares with u.
LEMMA MembersMove ==
    ASSUME TableOK(table), NEW u \in Users, NEW x \in Ids, Place(x) = Zone(u)
    PROVE  \E z : /\ Leaves(u) \cap Prefixes(x) = {z}
                  /\ z \in DOMAIN table => z = Zone(u)
<1>1. PICK d \in 0..ID_BITS : Zone(u) = Bits(Id[u], d) /\ Len(Zone(u)) = d
  BY ZoneIs
<1>2. PICK e \in d..ID_BITS : Len(Target(u)) = e
  BY <1>1, TargetIs
<1>3. d \in Nat /\ e \in Nat /\ ID_BITS \in Nat /\ e <= ID_BITS
  BY RoutingAssumption
<1>4. Inner(u) = {Bits(Id[u], n) : n \in d..(e - 1)} /\ \A n \in d..(e - 1) : n \in 0..(ID_BITS - 1)
  BY <1>1, <1>2, InnerIs
<1>5. DOMAIN table \cap Prefixes(x) = {Zone(u)}
  BY PlaceIs
<1>6. Bits(x, d) = Bits(Id[u], d)
  BY <1>1, <1>5, SameBits, ZonesAreBits, UserIds
<1>7. CASE d = e
  <2>1. Inner(u) = {}
    BY <1>3, <1>4, <1>7
  <2> QED
    BY <1>5, <2>1 DEF Leaves
<1>8. CASE d < e
  <2> DEFINE last(n) == n = e - 1 \/ Id[u][n + 1] # x[n + 1]
             S == {n \in d..(e - 1) : last(n)}
  <2>1. S \in SUBSET Nat /\ e - 1 \in S
    BY <1>3, <1>8
  <2>2. PICK m \in S : \A n \in S : m <= n
    BY <2>1, LeastMember
  <2>3. m \in d..(e - 1) /\ last(m) /\ \A n \in d..(m - 1) : Id[u][n + 1] = x[n + 1]
    BY <1>3, <2>2
  <2> HIDE DEF S
  <2>4. Bits(Id[u], m) = Bits(x, m)
    <3>1. \A i \in 1..d : Id[u][i] = x[i]
      BY <1>6, SameBits, UserIds
    <3>2. \A i \in (d + 1)..m : Id[u][i] = x[i]
      <4> SUFFICES ASSUME NEW i \in (d + 1)..m PROVE Id[u][i] = x[i]
        OBVIOUS
      <4>1. i - 1 \in d..(m - 1) /\ (i - 1) + 1 = i
        BY <1>3, <2>3
      <4> QED
        BY <2>3, <4>1
    <3>3. \A i \in 1..m : i \in 1..d \/ i \in (d + 1)..m
      BY <1>3, <2>3
    <3>4. m \in 0..ID_BITS
      BY <1>3, <2>3
    <3> QED
      BY <3>1, <3>2, <3>3, <3>4, SameBits, UserIds
  <2> DEFINE z == Bits(x, m + 1)
  <2>5. m \in 0..(ID_BITS - 1) /\ m \in 0..ID_BITS /\ m + 1 \in 0..ID_BITS
    BY <1>3, <1>4, <2>3
  <2>6. x[m + 1] \in Bit
    BY <2>5, RoutingAssumption DEF Ids
  <2>7. z \in {Append(Bits(Id[u], m), 0), Append(Bits(Id[u], m), 1)}
    BY <2>4, <2>5, <2>6, OneMoreBit, UserIds DEF Bit
  <2>8. z \notin Inner(u)
    <3> SUFFICES ASSUME NEW n \in d..(e - 1), Bits(x, m + 1) = Bits(Id[u], n) PROVE FALSE
      BY <1>4
    <3>1. n \in 0..ID_BITS
      BY <1>3
    <3>2. n = m + 1 /\ \A i \in 1..(m + 1) : x[i] = Id[u][i]
      BY <2>5, <3>1, SameBits, UserIds
    <3>3. m + 1 \in 1..(m + 1) /\ m # e - 1
      BY <1>3, <2>3, <2>5, <3>2
    <3> QED
      BY <2>3, <3>2, <3>3
  <2>9. z \in Leaves(u) /\ z \in Prefixes(x)
    BY <1>4, <2>3, <2>5, <2>7, <2>8, ZonesAreBits, UserIds DEF Leaves
  <2>10. ASSUME NEW y \in Leaves(u), y \in Prefixes(x) PROVE y = z
    <3>1. y \notin DOMAIN table
      <4>1. Zone(u) \in Inner(u)
        BY <1>1, <1>3, <1>4, <1>8
      <4> QED
        BY <1>5, <2>10, <4>1 DEF Leaves
    <3>2. PICK n \in d..(e - 1), b \in Bit : y = Append(Bits(Id[u], n), b)
      BY <1>4, <3>1 DEF Leaves, Bit
    <3>3. PICK k \in 0..ID_BITS : y = Bits(x, k)
      BY <2>10, ZonesAreBits, UserIds
    <3>4. n \in 0..(ID_BITS - 1) /\ n \in 0..ID_BITS
      BY <1>3, <1>4
    <3>5. k = n + 1 /\ Bits(Id[u], n) = Bits(x, n) /\ b = x[n + 1]
      <4>1. Append(Bits(Id[u], n), b) = Bits(x, k)
        BY <3>2, <3>3
      <4>2. Id[u] \in Ids
        BY UserIds
      <4> QED
        BY ZenonT(90), <3>4, <4>1, <4>2, BitsBelow
    <3>6. ~(n < m)
      <4> SUFFICES ASSUME n < m PROVE FALSE
        OBVIOUS
      <4>1. n \in d..(m - 1) /\ n + 1 \in d..(e - 1)
        BY <1>3, <2>3, <3>4
      <4>2. b = Id[u][n + 1] /\ Id[u] \in Ids
        BY <2>3, <3>5, <4>1, UserIds
      <4>3. y = Bits(Id[u], n + 1)
        BY ZenonT(30), <3>2, <3>4, <4>2, OneMoreBit
      <4> QED
        BY <1>4, <4>1, <4>3 DEF Leaves
    <3>7. ~(m < n)
      <4> SUFFICES ASSUME m < n PROVE FALSE
        OBVIOUS
      <4>1. m # e - 1 /\ m + 1 \in 1..n
        BY <1>3, <2>3, <3>4
      <4>2. Id[u][m + 1] = x[m + 1]
        BY <3>4, <3>5, <4>1, SameBits, UserIds
      <4> QED
        BY <2>3, <4>1, <4>2
    <3>8. n = m
      BY <1>3, <2>3, <3>4, <3>6, <3>7
    <3> QED
      BY <3>3, <3>5, <3>8
  <2>11. z \notin DOMAIN table
    <3>1. Zone(u) \in Inner(u)
      BY <1>1, <1>3, <1>4, <1>8
    <3> QED
      BY <1>5, <2>8, <2>9, <3>1
  <2> HIDE DEF z
  <2> QED
    BY <2>9, <2>10, <2>11
<1> QED
  BY <1>3, <1>7, <1>8

LEMMA LeafType == ASSUME TableOK(table), NEW u \in Users PROVE Leaves(u) \subseteq Path
<1>1. PICK d \in 0..ID_BITS : Zone(u) = Bits(Id[u], d) /\ Len(Zone(u)) = d
  BY ZoneIs
<1>2. PICK e \in d..ID_BITS : Len(Target(u)) = e
  BY <1>1, TargetIs
<1>3. Inner(u) = {Bits(Id[u], n) : n \in d..(e - 1)} /\ \A n \in d..(e - 1) : n \in 0..(ID_BITS - 1)
  BY <1>1, <1>2, InnerIs
<1>4. \A p \in Inner(u) : Append(p, 0) \in Path /\ Append(p, 1) \in Path
  BY <1>3, OneMoreBit, UserIds DEF Bit
<1>5. ASSUME NEW z \in Leaves(u), z \notin DOMAIN table
      PROVE  \E p \in Inner(u) : z = Append(p, 0) \/ z = Append(p, 1)
  BY <1>5 DEF Leaves
<1> QED
  BY <1>4, <1>5 DEF TableOK

LEMMA SplitIs ==
    ASSUME NEW u \in Users
    PROVE  Split(u) = [z \in Leaves(u) |->
                          IF z \in DOMAIN table THEN table[z]
                          ELSE Without(table[Zone(u)], {v \in Users : z \notin Zones[v]})]
  BY DEF Split, Leaves, Inner

\* Splitting keeps a table in which everyone has his place, and its nodes, and
\* ends with a bucket for the user it was done for.
LEMMA SplitKeeps ==
    ASSUME TableOK(table), NEW u \in Users
    PROVE  /\ TableOK(Split(u))
           /\ Members(Split(u)) = Members(table)
           /\ DOMAIN Split(u) = Leaves(u)
<1> DEFINE t == Split(u)
           old == table[Zone(u)]
           new(z) == Without(old, {v \in Users : z \notin Zones[v]})
<1>1. DOMAIN t = Leaves(u) /\ \A z \in Leaves(u) : t[z] = IF z \in DOMAIN table THEN table[z] ELSE new(z)
  BY SplitIs
<1>2. Zone(u) \in DOMAIN table /\ old \in Seq(Users) /\ Len(old) <= DHT_K /\ IsInjective(old)
  BY ZoneIs DEF TableOK
<1>3. ASSUME NEW z
      PROVE  /\ new(z) \in Seq(Users) /\ Len(new(z)) <= DHT_K /\ IsInjective(new(z))
             /\ ToSet(new(z)) = {v \in ToSet(old) : z \in Zones[v]}
  <2> DEFINE S == {v \in Users : z \notin Zones[v]}
  <2>1. /\ Without(old, S) \in Seq(Users) /\ Len(Without(old, S)) <= Len(old)
        /\ ToSet(Without(old, S)) = ToSet(old) \ S
        /\ IsInjective(Without(old, S))
    BY <1>2, WithoutProps
  <2>2. Len(Without(old, S)) <= DHT_K
    BY <1>2, <2>1, RoutingAssumption
  <2>3. ToSet(old) \ S = {v \in ToSet(old) : z \in Zones[v]}
    BY <1>2 DEF ToSet
  <2> HIDE DEF S
  <2> QED
    BY <2>1, <2>2, <2>3 DEF S
<1> HIDE DEF t, old, new
<1>4. \A z \in DOMAIN t : t[z] \in Seq(Users) /\ Len(t[z]) <= DHT_K /\ IsInjective(t[z])
  BY <1>1, <1>3 DEF TableOK
<1>5. \A z \in DOMAIN t : \A v \in ToSet(t[z]) : z \in Zones[v]
  BY <1>1, <1>3 DEF TableOK
<1>6. \A x \in Ids : \E z : Leaves(u) \cap Prefixes(x) = {z}
  BY ZenonT(60), OthersStay, MembersMove
<1>7. TableOK(t)
  <2>1. t = [z \in DOMAIN t |-> t[z]]
    BY SplitIs DEF t
  <2> QED
    BY <2>1, <1>1, <1>4, <1>5, <1>6, LeafType DEF TableOK
<1>8. ASSUME NEW v \in Members(t) PROVE v \in Members(table)
  <2>1. PICK z \in Leaves(u) : v \in ToSet(t[z])
    BY <1>1 DEF Members
  <2> QED
    BY <1>1, <1>2, <1>3, <2>1 DEF Members, old
<1>9. ASSUME NEW v \in Members(table) PROVE v \in Members(t)
  <2>1. PICK y \in DOMAIN table : v \in ToSet(table[y])
    BY DEF Members
  <2>2. v \in Users /\ y \in Zones[v]
    BY <2>1 DEF TableOK, ToSet
  <2>3. y = Zone(v) /\ Zone(v) = Place(Id[v]) /\ Id[v] \in Ids /\ Zones[v] = Prefixes(Id[v])
    BY <2>2, ZoneIs, UserIds
  <2>4. CASE Zone(v) # Zone(u)
    <3>1. y \in Leaves(u)
      BY <2>2, <2>3, <2>4, OthersStay
    <3> QED
      BY <1>1, <2>1, <3>1 DEF Members
  <2>5. CASE Zone(v) = Zone(u)
    <3>1. PICK z : Leaves(u) \cap Zones[v] = {z} /\ (z \in DOMAIN table => z = Zone(u))
      <4>1. Place(Id[v]) = Zone(u)
        BY <2>3, <2>5
      <4> QED
        BY ZenonT(30), <2>3, <4>1, MembersMove
    <3>2. v \in ToSet(t[z])
      BY <1>1, <1>3, <2>1, <2>3, <2>5, <3>1 DEF old
    <3> QED
      BY <1>1, <3>1, <3>2 DEF Members
  <2> QED
    BY <2>4, <2>5
<1> QED
  BY <1>1, <1>7, <1>8, <1>9 DEF t

\* The new node goes to its target, if that has room.
LEMMA TargetIsLeaf ==
    ASSUME TableOK(table), NEW u \in Users
    PROVE  Target(u) \in Leaves(u) /\ Target(u) \in Zones[u]
<1>1. PICK d \in 0..ID_BITS : Zone(u) = Bits(Id[u], d) /\ Len(Zone(u)) = d
  BY ZoneIs
<1>2. PICK e \in d..ID_BITS : Target(u) = Bits(Id[u], e) /\ Len(Target(u)) = e
  BY <1>1, TargetIs
<1>3. d \in Nat /\ e \in Nat /\ ID_BITS \in Nat /\ e <= ID_BITS /\ e \in 0..ID_BITS
  BY RoutingAssumption
<1>4. Inner(u) = {Bits(Id[u], n) : n \in d..(e - 1)} /\ \A n \in d..(e - 1) : n \in 0..(ID_BITS - 1)
  BY <1>1, <1>2, InnerIs
<1>5. Target(u) \notin Inner(u)
  BY <1>2 DEF Inner
<1>6. CASE d = e
  BY <1>1, <1>2, <1>5, <1>6, ZoneIs DEF Leaves
<1>7. CASE d < e
  <2>1. e - 1 \in d..(e - 1) /\ e - 1 \in 0..(ID_BITS - 1) /\ (e - 1) + 1 = e
    BY <1>3, <1>7
  <2>2. Id[u][e] \in Bit
    BY <1>3, <1>7, RoutingAssumption
  <2>3. Target(u) = Append(Bits(Id[u], e - 1), Id[u][e])
    BY <1>2, <2>1, <2>2, OneMoreBit, UserIds
  <2>4. Target(u) \in {Append(Bits(Id[u], e - 1), 0), Append(Bits(Id[u], e - 1), 1)}
    BY <2>2, <2>3 DEF Bit
  <2> QED
    BY <1>2, <1>3, <1>4, <1>5, <2>1, <2>4, ZonesAreBits, UserIds DEF Leaves
<1> QED
  BY <1>2, <1>3, <1>6, <1>7, ZonesAreBits, UserIds

-----------------------------------------------------------------------------
(* What the handlers do to a bucket.                                       *)

\* A list without doubles is as long as the set of its members is large.
LEMMA DistinctLen ==
    ASSUME NEW s \in Seq(Users), IsInjective(s)
    PROVE  IsFiniteSet(ToSet(s)) /\ Cardinality(ToSet(s)) = Len(s)
<1>1. DOMAIN s = 1..Len(s) /\ Len(s) \in Nat
  OBVIOUS
<1>2. s \in [1..Len(s) -> ToSet(s)] /\ \A x \in ToSet(s) : \E i \in 1..Len(s) : s[i] = x
  BY <1>1 DEF ToSet
<1>3. s \in Surjection(1..Len(s), ToSet(s))
  BY <1>2, Fun_IsSurj
<1>4. s \in Injection(1..Len(s), ToSet(s))
  BY <1>1, <1>2, Fun_IsInj DEF IsInjective
<1>5. IsFiniteSet(1..Len(s)) /\ Cardinality(1..Len(s)) = Len(s)
  BY SMTT(30), <1>1, FS_Interval
<1> QED
  BY <1>3, <1>4, <1>5, FS_Surjection

LEMMA Appended ==
    ASSUME NEW s \in Seq(Users), IsInjective(s), NEW u \in Users, u \notin ToSet(s)
    PROVE  /\ Append(s, u) \in Seq(Users) /\ Len(Append(s, u)) = Len(s) + 1
           /\ IsInjective(Append(s, u)) /\ ToSet(Append(s, u)) = ToSet(s) \cup {u}
<1> DEFINE r == Append(s, u)
<1>1. /\ r \in Seq(Users) /\ Len(r) = Len(s) + 1 /\ Len(s) \in Nat
      /\ DOMAIN s = 1..Len(s) /\ DOMAIN r = 1..(Len(s) + 1)
      /\ r[Len(s) + 1] = u /\ \A i \in 1..Len(s) : r[i] = s[i]
  OBVIOUS
<1> HIDE DEF r
<1>2. \A i \in 1..Len(s) : s[i] \in ToSet(s)
  BY <1>1 DEF ToSet
<1>3. \A i \in DOMAIN r : i \in 1..Len(s) \/ i = Len(s) + 1
  BY <1>1
<1>4. IsInjective(r)
  BY <1>1, <1>2, <1>3 DEF IsInjective
<1>5. ToSet(r) = ToSet(s) \cup {u}
  <2>1. ASSUME NEW x \in ToSet(r) PROVE x \in ToSet(s) \cup {u}
    BY <1>1, <1>3, <2>1 DEF ToSet
  <2>2. ASSUME NEW x \in ToSet(s) PROVE x \in ToSet(r)
    BY <1>1, <2>2 DEF ToSet
  <2>3. u \in ToSet(r)
    BY <1>1 DEF ToSet
  <2> QED
    BY <2>1, <2>2, <2>3
<1> QED
  BY <1>1, <1>4, <1>5 DEF r

\* The node in front goes to the back.
LEMMA Rotated ==
    ASSUME NEW s \in Seq(Users), IsInjective(s), s # <<>>
    PROVE  LET r == Append(Tail(s), Head(s))
           IN  /\ r \in Seq(Users) /\ Len(r) = Len(s)
               /\ IsInjective(r) /\ ToSet(r) = ToSet(s)
<1> DEFINE t == Tail(s)
           h == Head(s)
<1>1. Len(s) \in Nat \ {0} /\ DOMAIN s = 1..Len(s) /\ h = s[1] /\ h \in Users
  OBVIOUS
<1>2. /\ t \in Seq(Users) /\ Len(t) = Len(s) - 1 /\ DOMAIN t = 1..(Len(s) - 1)
      /\ \A i \in 1..(Len(s) - 1) : t[i] = s[i + 1]
  OBVIOUS
<1> HIDE DEF t, h
<1>3. \A i \in 1..(Len(s) - 1) : i + 1 \in DOMAIN s /\ i + 1 # 1
  BY <1>1
<1>4. IsInjective(t) /\ h \notin ToSet(t)
  <2>1. 1 \in DOMAIN s
    BY <1>1
  <2>2. ASSUME NEW i \in 1..(Len(s) - 1), NEW k \in 1..(Len(s) - 1), t[i] = t[k] PROVE i = k
    <3>1. i + 1 \in DOMAIN s /\ k + 1 \in DOMAIN s /\ s[i + 1] = s[k + 1]
      BY <1>2, <1>3, <2>2
    <3>2. i + 1 = k + 1
      BY <3>1 DEF IsInjective
    <3> QED
      BY <3>2
  <2>3. ASSUME NEW i \in 1..(Len(s) - 1) PROVE t[i] # h
    BY <1>1, <1>2, <1>3, <2>1 DEF IsInjective
  <2> QED
    BY <1>2, <2>2, <2>3 DEF IsInjective, ToSet
<1>5. ToSet(s) = ToSet(t) \cup {h}
  <2>1. ASSUME NEW i \in DOMAIN s PROVE s[i] \in ToSet(t) \cup {h}
    <3>1. CASE i = 1
      BY <1>1, <3>1
    <3>2. CASE i # 1
      <4>1. i - 1 \in 1..(Len(s) - 1) /\ (i - 1) + 1 = i
        BY <1>1, <3>2
      <4>2. t[i - 1] = s[i]
        BY <1>2, <4>1
      <4> QED
        BY <1>2, <4>1, <4>2 DEF ToSet
    <3> QED
      BY <3>1, <3>2
  <2>2. \A i \in DOMAIN t : t[i] \in ToSet(s)
    BY <1>2, <1>3 DEF ToSet
  <2>3. h \in ToSet(s)
    BY <1>1 DEF ToSet
  <2> QED
    BY <2>1, <2>2, <2>3 DEF ToSet
<1>6. /\ Append(t, h) \in Seq(Users) /\ Len(Append(t, h)) = Len(t) + 1
      /\ IsInjective(Append(t, h)) /\ ToSet(Append(t, h)) = ToSet(t) \cup {h}
  BY <1>1, <1>2, <1>4, Appended
<1>7. Len(t) + 1 = Len(s)
  BY <1>1, <1>2
<1> QED
  BY <1>5, <1>6, <1>7 DEF t, h

\* A node that packets tell of goes to the back of its bucket.
LEMMA MovedBack ==
    ASSUME NEW s \in Seq(Users), IsInjective(s), NEW u \in ToSet(s)
    PROVE  LET r == Append(Without(s, {u}), u)
           IN  /\ r \in Seq(Users) /\ Len(r) = Len(s)
               /\ IsInjective(r) /\ ToSet(r) = ToSet(s)
<1> DEFINE w == Without(s, {u})
<1>1. u \in Users
  BY DEF ToSet
<1>2. w \in Seq(Users) /\ IsInjective(w) /\ ToSet(w) = ToSet(s) \ {u}
  BY WithoutProps
<1> HIDE DEF w
<1>3. Len(w) = Len(s) - 1
  <2>1. IsFiniteSet(ToSet(s)) /\ Cardinality(ToSet(s)) = Len(s)
    BY DistinctLen
  <2>2. Cardinality(ToSet(w)) = Len(w)
    BY <1>2, DistinctLen
  <2> QED
    BY <1>2, <2>1, <2>2, FS_RemoveElement
<1>4. u \notin ToSet(w)
  BY <1>2
<1>5. Len(s) \in Nat
  OBVIOUS
<1>6. /\ Append(w, u) \in Seq(Users) /\ Len(Append(w, u)) = Len(w) + 1
      /\ IsInjective(Append(w, u)) /\ ToSet(Append(w, u)) = ToSet(w) \cup {u}
  BY <1>1, <1>2, <1>4, Appended
<1>7. Len(w) + 1 = Len(s) /\ ToSet(w) \cup {u} = ToSet(s)
  BY <1>2, <1>3, <1>5
<1> QED
  BY <1>6, <1>7 DEF w

-----------------------------------------------------------------------------
(* The inductive invariant: the types, the places of the nodes and their   *)
(* number depend on each other, and on who is online being listed.         *)

\* While INF is handled, there is room for the entry that it will add.
EntryFits ==
    \A h \in udp :
        \/ listed[h.user] < MaxListed
        \/ h.stage = "setOnline" /\ h.user \in DOMAIN nodes /\ nodes[h.user].online

\* The nodes are those of the table, of the listed users and of the handler.
NodesAreHeld == InTable \cup {u \in Users : listed[u] > 0 \/ Held(u)} = DOMAIN nodes

\* What earlier tables left, and what bounds it.
CountsOK ==
    /\ ipMap \subseteq Addresses
    /\ listed \in [Users -> 0..MaxListed]
    /\ left \in [count : 0..MaxLeft, addresses : SUBSET Addresses, moved : SUBSET Addresses]

IInv ==
    /\ ListedInv
    /\ TableOK(table)
    /\ NodesAreHeld
    /\ EntryFits
    /\ CountsOK
    /\ CountIsExact

LEMMA InTableIsMembers == InTable = Members(table) /\ InTable' = Members(table')
  BY DEF InTable, Members

LEMMA TableIsFinite == ASSUME TableOK(table) PROVE InTable \subseteq Users /\ IsFiniteSet(InTable)
<1>1. InTable \subseteq Users
  BY DEF TableOK, InTable, ToSet
<1> QED
  BY <1>1, FS_Subset, RoutingAssumption

LEMMA CountsType == ASSUME IInv PROVE nodesCount \in Nat
<1>1. Cardinality(InTable) \in Nat
  BY TableIsFinite, FS_CardinalityType DEF IInv
<1>2. left.count \in Nat
  BY RoutingAssumption DEF IInv, CountsOK
<1> QED
  BY <1>1, <1>2 DEF IInv, CountIsExact

\* addOrUpdate keeps the table in order, and counts the node that it adds.
LEMMA AddOrUpdateTable ==
    ASSUME TableOK(table), InTable \subseteq DOMAIN nodes, NEW u \in Users, NEW addr,
           NEW update, NEW verified, NEW goesOnline,
           AddOrUpdate(u, addr, update, verified, goesOnline)
    PROVE  /\ TableOK(table')
           /\ \/ /\ InTable' = InTable /\ nodesCount' = nodesCount
                 /\ DOMAIN nodes' = DOMAIN nodes \cup (IF goesOnline THEN {u} ELSE {})
              \/ /\ u \notin InTable /\ InTable' = InTable \cup {u} /\ nodesCount' = nodesCount + 1
                 /\ DOMAIN nodes' = DOMAIN nodes \cup {u}
<1>1. CASE u \notin DOMAIN nodes /\ AddNewNode(u, addr, verified, goesOnline)
  <2> DEFINE t == Split(u)
             z == Target(u)
  <2>1. TableOK(t) /\ Members(t) = InTable /\ z \in DOMAIN t /\ z \in Zones[u]
    BY SplitKeeps, TargetIsLeaf, InTableIsMembers
  <2>2. u \notin InTable
    BY <1>1
  <2>3. CASE ~(Len(t[z]) < DHT_K)
    <3>1. table' = t /\ nodesCount' = nodesCount
      BY <1>1, <2>3 DEF AddNewNode
    <3>2. DOMAIN nodes' = DOMAIN nodes \cup (IF goesOnline THEN {u} ELSE {})
      BY <1>1, <2>3 DEF AddNewNode
    <3> QED
      BY <2>1, <3>1, <3>2, InTableIsMembers
  <2>4. CASE Len(t[z]) < DHT_K
    <3>1. table' = [t EXCEPT ![z] = Append(t[z], u)] /\ nodesCount' = nodesCount + 1
      BY <1>1, <2>4 DEF AddNewNode
    <3>2. DOMAIN nodes' = DOMAIN nodes \cup {u}
      BY <1>1, <2>4 DEF AddNewNode
    <3> DEFINE s == t[z]
               b == Append(s, u)
    <3> HIDE DEF t, z
    <3>3. s \in Seq(Users) /\ IsInjective(s) /\ \A v \in ToSet(s) : z \in Zones[v]
      BY <2>1 DEF TableOK
    <3>4. u \notin ToSet(s)
      BY <2>1, <2>2 DEF Members
    <3> HIDE DEF s
    <3>5. b \in Seq(Users) /\ Len(b) = Len(s) + 1 /\ IsInjective(b) /\ ToSet(b) = ToSet(s) \cup {u}
      BY <3>3, <3>4, Appended
    <3>6. Len(b) <= DHT_K
      BY <2>4, <3>3, <3>5, RoutingAssumption DEF s
    <3>7. \A v \in ToSet(b) : z \in Zones[v]
      BY <2>1, <3>3, <3>5
    <3> HIDE DEF b
    <3>8. /\ TableOK([t EXCEPT ![z] = b])
          /\ Members([t EXCEPT ![z] = b]) = (Members(t) \ ToSet(t[z])) \cup ToSet(b)
      BY <2>1, <3>5, <3>6, <3>7, ReplaceBucket
    <3>9. ToSet(t[z]) \subseteq Members(t)
      BY <2>1 DEF Members
    <3>10. table' = [t EXCEPT ![z] = b]
      BY <3>1 DEF b, s
    <3>11. Members(table') = InTable \cup {u}
      BY <2>1, <3>5, <3>8, <3>9, <3>10 DEF s
    <3> QED
      BY <2>2, <3>1, <3>2, <3>8, <3>10, <3>11, InTableIsMembers
  <2> QED
    BY <2>3, <2>4
<1>2. CASE u \in DOMAIN nodes /\ MoveToBack(u)
  <2>1. DOMAIN nodes' = DOMAIN nodes /\ nodesCount' = nodesCount
    BY <1>2 DEF AddOrUpdate, KeepNode, UpdateNode
  <2>2. CASE ~Stored(u)
    BY <1>2, <2>1, <2>2, InTableIsMembers DEF MoveToBack
  <2>3. CASE Stored(u)
    <3> DEFINE z == Zone(u)
               s == table[z]
               b == Append(Without(s, {u}), u)
    <3>1. table' = [table EXCEPT ![z] = b] /\ u \in ToSet(s)
      BY <1>2, <2>3 DEF MoveToBack, Stored
    <3>2. z \in DOMAIN table /\ s \in Seq(Users) /\ Len(s) <= DHT_K /\ IsInjective(s)
      BY ZoneIs DEF TableOK
    <3>3. \A v \in ToSet(s) : z \in Zones[v]
      BY <3>2 DEF TableOK
    <3> HIDE DEF z, s
    <3>4. b \in Seq(Users) /\ Len(b) = Len(s) /\ IsInjective(b) /\ ToSet(b) = ToSet(s)
      BY <3>1, <3>2, MovedBack
    <3> HIDE DEF b
    <3>5. /\ TableOK([table EXCEPT ![z] = b])
          /\ Members([table EXCEPT ![z] = b]) = (Members(table) \ ToSet(table[z])) \cup ToSet(b)
      BY <3>2, <3>3, <3>4, ReplaceBucket
    <3>6. ToSet(s) \subseteq Members(table)
      BY <3>2 DEF Members, s
    <3>7. Members(table') = Members(table)
      BY <3>1, <3>4, <3>5, <3>6 DEF s
    <3> QED
      BY <2>1, <1>2, <3>1, <3>5, <3>7, InTableIsMembers
  <2> QED
    BY <2>2, <2>3
<1> QED
  BY <1>1, <1>2 DEF AddOrUpdate

\* checkExpiration keeps the table in order, and takes from it what it removes.
LEMMA CheckExpirationTable ==
    ASSUME TableOK(table), NEW z \in DOMAIN table, NEW gone \in SUBSET Dead(z),
           CheckExpiration(z, gone)
    PROVE  TableOK(table') /\ InTable' = InTable \ gone
<1> DEFINE old == table[z]
           b == Without(old, gone)
           r == Append(Tail(b), Head(b))
<1>1. table' = [table EXCEPT ![z] = b] \/ (b # <<>> /\ table' = [table EXCEPT ![z] = r])
  <2> DEFINE front  == {u \in ToSet(b) : u = Head(b)}
             pinged == {u \in front : Ask(u)}
  <2>1. table' = [table EXCEPT ![z] = IF front = pinged THEN b ELSE r]
    BY DEF CheckExpiration
  <2>2. b = <<>> => front = pinged
    BY DEF ToSet
  <2> QED
    BY <2>1, <2>2
<1>2. old \in Seq(Users) /\ Len(old) <= DHT_K /\ IsInjective(old) /\ \A u \in ToSet(old) : z \in Zones[u]
  BY DEF TableOK
<1> HIDE DEF old
<1>3. b \in Seq(Users) /\ Len(b) <= Len(old) /\ IsInjective(b) /\ ToSet(b) = ToSet(old) \ gone
  BY <1>2, WithoutProps
<1> HIDE DEF b
<1>4. b # <<>> => r \in Seq(Users) /\ Len(r) = Len(b) /\ IsInjective(r) /\ ToSet(r) = ToSet(b)
  BY <1>3, Rotated
<1> HIDE DEF r
<1>5. PICK c \in {b, r} :
        /\ table' = [table EXCEPT ![z] = c]
        /\ c \in Seq(Users) /\ Len(c) <= Len(old) /\ IsInjective(c) /\ ToSet(c) = ToSet(old) \ gone
  BY <1>1, <1>3, <1>4
<1>6. Len(c) <= DHT_K /\ \A u \in ToSet(c) : z \in Zones[u]
  BY <1>2, <1>5, RoutingAssumption
<1>7. /\ TableOK([table EXCEPT ![z] = c])
      /\ Members([table EXCEPT ![z] = c]) = (Members(table) \ ToSet(table[z])) \cup ToSet(c)
  BY <1>5, <1>6, ReplaceBucket
<1>8. gone \subseteq ToSet(old) /\ ToSet(old) \subseteq Members(table)
  BY DEF Dead, Members, old
<1> QED
  BY <1>5, <1>7, <1>8, InTableIsMembers DEF old

\* addOrUpdate makes known only addresses of packets.
LEMMA AddOrUpdateAddresses ==
    ASSUME ipMap \subseteq Addresses, NEW u, NEW addr \in Addresses, NEW update, NEW verified,
           NEW goesOnline, AddOrUpdate(u, addr, update, verified, goesOnline)
    PROVE  ipMap' \subseteq Addresses
<1>1. CASE AddNewNode(u, addr, verified, goesOnline) \/ KeepNode(u)
  BY <1>1 DEF AddNewNode, KeepNode
<1>2. CASE UpdateNode(u, addr, verified)
  BY <1>2 DEF UpdateNode
<1> QED
  BY <1>1, <1>2 DEF AddOrUpdate

\* It puts nobody offline.
LEMMA AddOrUpdateStaysOnline ==
    ASSUME NodesOK, NEW u \in DOMAIN nodes, nodes[u].online, NEW addr,
           NEW update, NEW verified, NEW goesOnline,
           AddOrUpdate(u, addr, update, verified, goesOnline)
    PROVE  u \in DOMAIN nodes' /\ nodes'[u].online
<1>1. CASE KeepNode(u)
  BY <1>1 DEF KeepNode
<1>2. CASE UpdateNode(u, addr, verified)
  BY ZenonT(60), <1>2 DEF UpdateNode, NodesOK, Node
<1> QED
  BY <1>1, <1>2 DEF AddOrUpdate

\* The part of the invariant that addOrUpdate is responsible for.
LEMMA AddOrUpdateCounts ==
    ASSUME IInv, udp = {}, NEW u \in Users, NEW addr, NEW update, NEW verified, NEW goesOnline \in BOOLEAN,
           AddOrUpdate(u, addr, update, verified, goesOnline),
           listed' = listed, left' = left, {v \in Users : Held(v)'} = IF goesOnline THEN {u} ELSE {}
    PROVE  TableOK(table') /\ NodesAreHeld' /\ CountIsExact'
<1>1. InTable \subseteq DOMAIN nodes
  BY DEF IInv, NodesAreHeld
<1>2. /\ TableOK(table')
      /\ \/ /\ InTable' = InTable /\ nodesCount' = nodesCount
            /\ DOMAIN nodes' = DOMAIN nodes \cup (IF goesOnline THEN {u} ELSE {})
         \/ /\ u \notin InTable /\ InTable' = InTable \cup {u} /\ nodesCount' = nodesCount + 1
            /\ DOMAIN nodes' = DOMAIN nodes \cup {u}
  BY <1>1, AddOrUpdateTable DEF IInv
<1>3. DOMAIN nodes = InTable \cup {v \in Users : listed[v] > 0}
  BY DEF IInv, NodesAreHeld, Held
<1>4. {v \in Users : listed'[v] > 0 \/ Held(v)'} =
         {v \in Users : listed[v] > 0} \cup (IF goesOnline THEN {u} ELSE {})
  OBVIOUS
<1>5. NodesAreHeld'
  <2> SUFFICES InTable' \cup {v \in Users : listed'[v] > 0 \/ Held(v)'} = DOMAIN nodes'
    BY DEF NodesAreHeld
  <2> QED
    BY <1>2, <1>3, <1>4
<1>6. CountIsExact'
  <2>1. IsFiniteSet(InTable) /\ Cardinality(InTable) \in Nat /\ left.count \in Nat
    BY TableIsFinite, FS_CardinalityType, RoutingAssumption DEF IInv, CountsOK
  <2>2. u \notin InTable => Cardinality(InTable \cup {u}) = Cardinality(InTable) + 1
    BY <2>1, FS_AddElement
  <2>3. nodesCount = Cardinality(InTable) + left.count
    BY DEF IInv, CountIsExact
  <2>4. CASE InTable' = InTable /\ nodesCount' = nodesCount
    BY <2>3, <2>4 DEF CountIsExact
  <2>5. CASE u \notin InTable /\ InTable' = InTable \cup {u} /\ nodesCount' = nodesCount + 1
    <3>1. Cardinality(InTable') = Cardinality(InTable) + 1
      BY <2>2, <2>5
    <3> QED
      BY <2>1, <2>3, <2>5, <3>1 DEF CountIsExact
  <2> QED
    BY <1>2, <2>4, <2>5
<1> QED
  BY <1>2, <1>5, <1>6

LEMMA InvAddNode ==
    ASSUME IInv, NEW u \in Users, NEW o \in Origins[u], AddNode(u, o.addr, o.verified), ListedInv'
    PROVE  IInv'
<1>1. o.addr \in Addresses
  BY RoutingAssumption
<1>2. {v \in Users : Held(v)'} = {}
  BY DEF AddNode, Held
<1>3. TableOK(table') /\ NodesAreHeld' /\ CountIsExact'
  BY <1>2, AddOrUpdateCounts DEF AddNode
<1>4. EntryFits'
  BY DEF AddNode, EntryFits
<1>5. CountsOK'
  BY <1>1, AddOrUpdateAddresses DEF AddNode, IInv, CountsOK
<1> QED
  BY <1>3, <1>4, <1>5 DEF IInv

LEMMA InvInf ==
    ASSUME IInv, NEW u \in Users, NEW o \in Origins[u], NEW connection \in Infs[u],
           Inf(u, o.addr, o.verified, connection), ListedInv'
    PROVE  IInv'
<1>1. o.addr \in Addresses /\ connection \in BOOLEAN
  BY RoutingAssumption
<1>2. {v \in Users : Held(v)'} = IF connection THEN {u} ELSE {}
  <2>1. CASE connection
    <3> DEFINE h == [user |-> u, stage |-> "setOnline"]
    <3>1. udp' = {h} /\ h.user = u
      BY <2>1 DEF Inf
    <3> HIDE DEF h
    <3> QED
      BY <2>1, <3>1 DEF Held
  <2>2. CASE ~connection
    BY <2>2 DEF Inf, Held
  <2> QED
    BY <2>1, <2>2
<1>3. TableOK(table') /\ NodesAreHeld' /\ CountIsExact'
  BY <1>1, <1>2, AddOrUpdateCounts DEF Inf
<1>4. EntryFits'
  <2> SUFFICES ASSUME NEW h \in udp'
               PROVE  \/ listed'[h.user] < MaxListed
                      \/ h.stage = "setOnline" /\ h.user \in DOMAIN nodes' /\ nodes'[h.user].online
    BY DEF EntryFits
  <2>1. connection /\ h = [user |-> u, stage |-> "setOnline"] /\ listed' = listed
    BY <1>1 DEF Inf
  <2>2. CASE listed[u] < MaxListed
    BY <2>1, <2>2
  <2>3. CASE u \in DOMAIN nodes /\ nodes[u].online
    BY <2>1, <2>3, AddOrUpdateStaysOnline DEF Inf, IInv, ListedInv
  <2> QED
    BY <2>1, <2>2, <2>3 DEF Inf
<1>5. CountsOK'
  BY <1>1, AddOrUpdateAddresses DEF Inf, IInv, CountsOK
<1> QED
  BY <1>3, <1>4, <1>5 DEF IInv

LEMMA InvSetOnline == ASSUME IInv, SetOnline, ListedInv' PROVE IInv'
<1>1. PICK h \in udp :
        /\ h.stage = "setOnline"
        /\ \/ nodes[h.user].online /\ udp' = {} /\ UNCHANGED nodes
           \/ /\ ~nodes[h.user].online
              /\ udp' = {[h EXCEPT !.stage = "putOnline"]}
              /\ nodes' = [nodes EXCEPT ![h.user].online = TRUE]
  BY DEF SetOnline
<1>2. /\ UNCHANGED <<table, ipMap, nodesCount, listed, left>>
      /\ InTable' = InTable /\ DOMAIN nodes' = DOMAIN nodes
  BY <1>1 DEF SetOnline, InTable
<1>3. h \in Handler /\ h.user \in Users /\ \A g \in udp : g = h
  BY <1>1 DEF IInv, ListedInv, NodesOK, Handler
<1>4. h.user \in DOMAIN nodes
  BY <1>1, <1>3 DEF IInv, NodesAreHeld, Held
<1>5. NodesAreHeld'
  <2> SUFFICES InTable \cup {u \in Users : listed[u] > 0 \/ Held(u)'} = DOMAIN nodes
    BY <1>2 DEF NodesAreHeld
  <2>1. DOMAIN nodes = InTable \cup {u \in Users : listed[u] > 0 \/ u = h.user}
    BY <1>1, <1>3 DEF IInv, NodesAreHeld, Held
  <2>2. CASE nodes[h.user].online
    <3>1. listed[h.user] > 0
      BY <1>1, <1>3, <1>4, <2>2 DEF IInv, ListedInv, OnlineIsListed
    <3>2. \A u \in Users : ~Held(u)'
      BY <1>1, <2>2 DEF Held
    <3> QED
      BY <2>1, <3>1, <3>2
  <2>3. CASE ~nodes[h.user].online
    <3>1. udp' = {[h EXCEPT !.stage = "putOnline"]} /\ [h EXCEPT !.stage = "putOnline"].user = h.user
      BY <1>1, <1>3, <2>3 DEF Handler
    <3>2. \A u \in Users : Held(u)' <=> u = h.user
      <4> DEFINE g == [h EXCEPT !.stage = "putOnline"]
      <4>1. udp' = {g} /\ g.user = h.user
        BY <3>1
      <4> HIDE DEF g
      <4> QED
        BY <4>1 DEF Held
    <3> QED
      BY <2>1, <3>2
  <2> QED
    BY <2>2, <2>3
<1>6. EntryFits'
  <2>1. CASE nodes[h.user].online
    BY <1>1, <2>1 DEF EntryFits
  <2>2. CASE ~nodes[h.user].online
    <3>1. listed[h.user] < MaxListed
      BY <1>1, <2>2 DEF IInv, EntryFits
    <3>2. \A g \in udp' : g.user = h.user
      BY <1>1, <1>3, <2>2 DEF Handler
    <3> QED
      BY <1>2, <3>1, <3>2 DEF EntryFits
  <2> QED
    BY <2>1, <2>2
<1> QED
  BY <1>2, <1>5, <1>6 DEF IInv, CountsOK, CountIsExact

LEMMA InvPutOnline == ASSUME IInv, PutOnline, ListedInv' PROVE IInv'
<1>1. PICK h \in udp :
        /\ h.stage = "putOnline" /\ listed' = [listed EXCEPT ![h.user] = @ + 1] /\ udp' = {}
        /\ UNCHANGED <<table, nodes, ipMap, nodesCount, left>>
  BY DEF PutOnline
<1>2. h.user \in Users /\ \A g \in udp : g = h
  BY <1>1 DEF IInv, ListedInv, NodesOK, Handler
<1>3. listed \in [Users -> 0..MaxListed] /\ MaxListed \in Nat
  BY RoutingAssumption DEF IInv, CountsOK
<1>4. listed[h.user] < MaxListed
  BY <1>1 DEF IInv, EntryFits
<1>5. listed' \in [Users -> 0..MaxListed]
  BY <1>1, <1>2, <1>3, <1>4
<1>6. InTable' = InTable
  BY <1>1 DEF InTable
<1>7. NodesAreHeld'
  <2> SUFFICES InTable \cup {u \in Users : listed'[u] > 0 \/ Held(u)'} = DOMAIN nodes
    BY <1>1, <1>6 DEF NodesAreHeld
  <2>1. \A u \in Users : listed'[u] > 0 \/ Held(u)' <=> listed[u] > 0 \/ Held(u)
    BY <1>1, <1>2, <1>3 DEF Held
  <2> QED
    BY <2>1 DEF IInv, NodesAreHeld
<1> QED
  BY <1>1, <1>5, <1>6, <1>7 DEF IInv, CountsOK, CountIsExact, EntryFits

LEMMA InvCheckExpiration ==
    ASSUME IInv, NEW z \in DOMAIN table, NEW gone \in SUBSET Dead(z), CheckExpiration(z, gone),
           ListedInv'
    PROVE  IInv'
<1>1. TableOK(table') /\ InTable' = InTable \ gone
  BY CheckExpirationTable DEF IInv
<1>2. PICK offline, pinged :
        /\ RemoveNodes(gone, offline)
        /\ offline = {u \in Dead(z) : nodes[u].online}
        /\ nodes' = [u \in {v \in DOMAIN nodes : v \notin gone \/ listed'[v] > 0} |->
                        Checked(u, offline, pinged)]
        /\ \A u \in pinged : Ask(u)
  BY CheckExpirationStep
<1>3. UNCHANGED <<udp, left>> /\ \A u \in gone : ~Held(u)
  BY DEF CheckExpiration
<1>4. /\ PutOffline(offline) /\ ipMap' \subseteq ipMap
      /\ nodesCount' = nodesCount - Cardinality(gone)
  BY <1>2 DEF RemoveNodes
<1>5. Dead(z) \subseteq InTable /\ gone \subseteq InTable /\ offline \subseteq InTable
  BY <1>2 DEF Dead, InTable
<1>6. listed \in [Users -> 0..MaxListed] /\ MaxListed \in Nat
  BY RoutingAssumption DEF IInv, CountsOK
<1>7. /\ listed' \in [Users -> 0..MaxListed]
      /\ \A u \in Users : listed'[u] <= listed[u]
      /\ \A u \in Users \ offline : listed'[u] = listed[u]
      /\ \A u \in Users \cap offline : listed[u] > 0 => listed'[u] < listed[u]
  BY <1>4, <1>6 DEF PutOffline
<1>8. NodesAreHeld'
  <2> SUFFICES (InTable \ gone) \cup {u \in Users : listed'[u] > 0 \/ Held(u)'} = DOMAIN nodes'
    BY <1>1 DEF NodesAreHeld
  <2>1. DOMAIN nodes' = {v \in DOMAIN nodes : v \notin gone \/ listed'[v] > 0}
    BY <1>2
  <2>2. \A u : Held(u)' <=> Held(u)
    BY <1>3 DEF Held
  <2>3. DOMAIN nodes = InTable \cup {u \in Users : listed[u] > 0 \/ Held(u)}
    BY DEF IInv, NodesAreHeld
  <2>4. \A u \in Users : listed'[u] > 0 => listed[u] > 0
    BY <1>6, <1>7
  <2>5. ASSUME NEW u \in DOMAIN nodes, u \notin gone, u \notin InTable
        PROVE  u \in Users /\ (listed'[u] > 0 \/ Held(u))
    BY <1>5, <1>7, <2>3, <2>5
  <2>6. DOMAIN nodes \subseteq Users
    BY DEF IInv, ListedInv, NodesOK
  <2> QED
    BY <1>3, <2>1, <2>2, <2>3, <2>4, <2>5, <2>6
<1>9. EntryFits'
  <2> SUFFICES ASSUME NEW h \in udp
               PROVE  \/ listed'[h.user] < MaxListed
                      \/ h.stage = "setOnline" /\ h.user \in DOMAIN nodes' /\ nodes'[h.user].online
    BY <1>3 DEF EntryFits
  <2>1. h.user \in Users /\ \A g \in udp : g = h
    BY DEF IInv, ListedInv, NodesOK, Handler
  <2>2. CASE listed[h.user] < MaxListed
    BY <1>6, <1>7, <2>1, <2>2
  <2>3. CASE h.stage = "setOnline" /\ h.user \in DOMAIN nodes /\ nodes[h.user].online
    <3>1. h.user \notin gone
      BY <1>3 DEF Held
    <3>2. CASE h.user \in offline
      <4>1. listed[h.user] > 0
        BY <2>1, <2>3 DEF IInv, ListedInv, OnlineIsListed
      <4> QED
        BY <1>6, <1>7, <2>1, <3>2, <4>1
    <3>3. CASE h.user \notin offline
      <4>1. Checked(h.user, offline, pinged).online = (nodes[h.user].online /\ h.user \notin offline)
        BY <1>2, <2>3, CheckedType DEF IInv, ListedInv, NodesOK
      <4> QED
        BY <1>2, <2>3, <3>1, <3>3, <4>1
    <3> QED
      BY <3>2, <3>3
  <2> QED
    BY <2>2, <2>3 DEF IInv, EntryFits
<1>10. CountIsExact'
  <2>1. IsFiniteSet(InTable) /\ Cardinality(InTable) \in Nat /\ left.count \in Nat
    BY TableIsFinite, FS_CardinalityType, RoutingAssumption DEF IInv, CountsOK
  <2>2. /\ IsFiniteSet(gone) /\ Cardinality(gone) \in Nat
        /\ Cardinality(InTable \ gone) \in Nat
        /\ Cardinality(InTable \ gone) = Cardinality(InTable) - Cardinality(gone)
    <3>1. IsFiniteSet(gone) /\ IsFiniteSet(InTable \ gone) /\ InTable \cap gone = gone
      BY <1>5, <2>1, FS_Subset
    <3> QED
      BY ZenonT(30), <2>1, <3>1, FS_Difference, FS_CardinalityType
  <2>3. nodesCount = Cardinality(InTable) + left.count
    BY DEF IInv, CountIsExact
  <2>4. nodesCount' = Cardinality(InTable') + left'.count
    BY <1>1, <1>3, <1>4, <2>1, <2>2, <2>3
  <2> QED
    BY <2>4 DEF CountIsExact
<1>11. CountsOK'
  BY <1>3, <1>4, <1>7 DEF IInv, CountsOK
<1> QED
  BY <1>1, <1>8, <1>9, <1>10, <1>11 DEF IInv

LEMMA InvExpire == ASSUME IInv, NEW u \in Users, Expire(u), ListedInv' PROVE IInv'
<1>1. /\ UNCHANGED <<table, ipMap, nodesCount, listed, udp, left>> /\ InTable' = InTable
      /\ DOMAIN nodes' = DOMAIN nodes
      /\ \A v \in DOMAIN nodes : nodes'[v].online = nodes[v].online
  BY DEF Expire, InTable, IInv, ListedInv, NodesOK, Node
<1>2. NodesAreHeld'
  BY <1>1 DEF IInv, NodesAreHeld, Held
<1>3. EntryFits'
  BY <1>1 DEF IInv, EntryFits
<1> QED
  BY <1>1, <1>2, <1>3 DEF IInv, CountsOK, CountIsExact

LEMMA InvSetIPUser ==
    ASSUME IInv, NEW u \in Users, NEW addr \in ResultOrigins[u], SetIPUser(u, addr), ListedInv'
    PROVE  IInv'
<1>1. /\ UNCHANGED <<table, ipMap, nodesCount, listed, udp>> /\ InTable' = InTable
      /\ DOMAIN nodes' = DOMAIN nodes
      /\ \A v \in DOMAIN nodes : nodes'[v].online = nodes[v].online
  BY SetIPUserStep DEF InTable, IInv, ListedInv
<1>2. NodesAreHeld'
  BY <1>1 DEF IInv, NodesAreHeld, Held
<1>3. EntryFits'
  BY <1>1 DEF IInv, EntryFits
<1>4. /\ left' \in [count : 0..MaxLeft, addresses : SUBSET Addresses, moved : SUBSET Addresses]
      /\ left'.count = left.count
  BY DEF SetIPUser, IInv, CountsOK
<1>5. CountsOK' /\ CountIsExact'
  BY <1>1, <1>4 DEF IInv, CountsOK, CountIsExact
<1> QED
  BY <1>1, <1>2, <1>3, <1>5 DEF IInv

\* One bucket that is the place of every user.
LEMMA EmptyIsOK == TableOK(Empty) /\ Members(Empty) = {}
<1>1. ID_BITS \in Nat /\ DHT_K \in Nat
  BY RoutingAssumption
<1>2. DOMAIN Empty = {Root} /\ Empty = [z \in DOMAIN Empty |-> Empty[z]] /\ Empty[Root] = <<>>
  BY DEF Empty
<1>3. Root \in Path
  <2>1. Root \in [1..0 -> Bit] /\ 0 \in 0..ID_BITS
    BY <1>1 DEF Root
  <2> QED
    BY <2>1 DEF Path
<1>4. ASSUME NEW x \in Ids PROVE Root \in Prefixes(x)
  <2>1. Bits(x, 0) \in Seq(Bit) /\ Len(Bits(x, 0)) = 0 /\ 0 \in 0..ID_BITS
    BY <1>1, BitsType, UserIds
  <2>2. Bits(x, 0) = Root
    BY <2>1 DEF Root
  <2> QED
    BY <2>1, <2>2, ZonesAreBits, UserIds
<1>5. <<>> \in Seq(Users) /\ Len(<<>>) <= DHT_K /\ IsInjective(<<>>) /\ ToSet(<<>>) = {}
  BY <1>1 DEF IsInjective, ToSet
<1> QED
  BY <1>2, <1>3, <1>4, <1>5 DEF TableOK, Members

LEMMA InvRestart == ASSUME IInv, Restart, ListedInv' PROVE IInv'
<1>1. TableOK(table') /\ InTable' = {}
  BY EmptyIsOK, InTableIsMembers DEF Restart
<1>2. NodesAreHeld'
  <2> SUFFICES {u \in Users : listed'[u] > 0 \/ Held(u)'} = DOMAIN nodes'
    BY <1>1 DEF NodesAreHeld
  <2>1. DOMAIN nodes' = {v \in DOMAIN nodes : listed'[v] > 0} /\ \A u : ~Held(u)'
    BY DEF Restart, Held
  <2>2. \A u \in Users : listed'[u] > 0 => listed[u] > 0
    BY DEF Restart, PutOffline
  <2>3. \A u \in Users : listed[u] > 0 => u \in DOMAIN nodes
    BY DEF IInv, NodesAreHeld
  <2>4. DOMAIN nodes \subseteq Users
    BY DEF IInv, ListedInv, NodesOK
  <2> QED
    BY <2>1, <2>2, <2>3, <2>4
<1>3. EntryFits'
  BY DEF Restart, EntryFits
<1>4. Cardinality(InTable) \in Nat /\ left.count \in Nat /\ MaxLeft \in Nat
  BY TableIsFinite, FS_CardinalityType, RoutingAssumption DEF IInv, CountsOK
<1>5. CountsOK'
  <2>1. listed \in [Users -> 0..MaxListed] /\ MaxListed \in Nat
    BY RoutingAssumption DEF IInv, CountsOK
  <2>2. listed' \in [Users -> 0..MaxListed]
    BY <2>1 DEF Restart, PutOffline
  <2>3. left' \in [count : 0..MaxLeft, addresses : SUBSET Addresses, moved : SUBSET Addresses]
    <3>1. /\ left \in [count : 0..MaxLeft, addresses : SUBSET Addresses, moved : SUBSET Addresses]
          /\ ipMap \subseteq Addresses
      BY DEF IInv, CountsOK
    <3>2. left.count + Cardinality(InTable) \in 0..MaxLeft
      BY <1>4 DEF Restart
    <3>3. left' = [left EXCEPT !.count = @ + Cardinality(InTable), !.addresses = @ \cup ipMap]
      BY DEF Restart
    <3> QED
      BY <3>1, <3>2, <3>3
  <2> QED
    BY <2>2, <2>3 DEF Restart, IInv, CountsOK
<1>6. CountIsExact'
  <2>1. nodesCount' = Cardinality(InTable) + left.count /\ left'.count = left.count + Cardinality(InTable)
    BY DEF Restart, IInv, CountIsExact
  <2>2. Cardinality(InTable') = 0
    BY <1>1, FS_EmptySet
  <2> QED
    BY <1>4, <2>1, <2>2 DEF CountIsExact
<1> QED
  BY <1>1, <1>2, <1>3, <1>5, <1>6 DEF IInv

LEMMA InvInit == Init => IInv
<1> SUFFICES ASSUME Init PROVE IInv
  OBVIOUS
<1>1. TableOK(table) /\ InTable = {} /\ Cardinality(InTable) = 0
  BY EmptyIsOK, InTableIsMembers, FS_EmptySet DEF Init
<1>2. NodesAreHeld
  <2>1. DOMAIN nodes = {}
    BY DEF Init
  <2> QED
    BY <1>1, <2>1 DEF Init, NodesAreHeld, Held
<1>3. EntryFits /\ CountIsExact
  BY <1>1 DEF Init, EntryFits, CountIsExact
<1>4. CountsOK
  BY RoutingAssumption DEF Init, CountsOK
<1> QED
  BY <1>1, <1>2, <1>3, <1>4, ListedInit DEF IInv

LEMMA InvNext == IInv /\ [Next]_vars => IInv'
<1> SUFFICES ASSUME IInv, [Next]_vars PROVE IInv'
  OBVIOUS
<1>1. ListedInv'
  BY ListedNext DEF IInv
<1>2. CASE UNCHANGED vars
  BY <1>1, <1>2 DEF vars, IInv, TableOK, NodesAreHeld, InTable, Held, EntryFits, CountsOK, CountIsExact
<1> QED
  BY <1>1, <1>2, InvAddNode, InvInf, InvSetOnline, InvPutOnline, InvCheckExpiration, InvExpire,
     InvSetIPUser, InvRestart DEF Next

-----------------------------------------------------------------------------
\* The types hold, and the nodes that exist are those of the table, of the
\* online users and of the handler of INF: none is kept that nobody refers to,
\* and none is freed that somebody does.
THEOREM TypeCorrect == Spec => []TypeOK
<1>1. IInv => TypeOK
  <2> SUFFICES ASSUME IInv PROVE TypeOK
    OBVIOUS
  <2>1. Cardinality(udp) <= 1
    <3>1. CASE udp = {}
      BY <3>1, FS_EmptySet
    <3>2. CASE udp # {}
      <4>1. PICK h \in udp : udp = {h}
        BY <3>2 DEF IInv, ListedInv, NodesOK
      <4>2. Cardinality({h}) = 1
        BY FS_Singleton
      <4> QED
        BY <4>1, <4>2
    <3> QED
      BY <3>1, <3>2
  <2> QED
    BY <2>1, CountsType DEF TypeOK, IInv, ListedInv, NodesOK, TableOK, NodesAreHeld, CountsOK
<1> QED
  BY InvInit, InvNext, <1>1, PTL DEF Spec

\* However buckets are split, emptied and rotated, every user has exactly one
\* bucket, which holds its node at most once and only so many others.
THEOREM NodesAreInTheirPlace == Spec => []EveryNodeInItsPlace
<1>1. IInv => EveryNodeInItsPlace
  <2> SUFFICES ASSUME IInv PROVE EveryNodeInItsPlace
    OBVIOUS
  <2>1. ASSUME NEW u \in Users PROVE Cardinality((DOMAIN table \cap Zones[u])) = 1
    <3>1. DOMAIN table \cap Zones[u] = {Zone(u)}
      BY ZoneIs DEF IInv
    <3> QED
      BY <3>1, FS_Singleton
  <2> QED
    BY <2>1 DEF EveryNodeInItsPlace, IInv, TableOK
<1> QED
  BY InvInit, InvNext, <1>1, PTL DEF Spec

\* The number of nodes is exact, whatever is added, split off, refused and
\* removed, but for what earlier tables have left in it.
THEOREM NodesAreCounted == Spec => []CountIsExact
<1>1. IInv => CountIsExact
  BY DEF IInv
<1> QED
  BY InvInit, InvNext, <1>1, PTL DEF Spec

-----------------------------------------------------------------------------
(* Which ids are closer, and the nearest of a set.                         *)

LEMMA CloserIsOrder ==
    ASSUME NEW t \in Ids, NEW a \in Ids, NEW b \in Ids, NEW c \in Ids
    PROVE  /\ ~Closer(a, a, t)
           /\ Closer(a, b, t) => ~Closer(b, a, t)
           /\ Closer(a, b, t) /\ Closer(b, c, t) => Closer(a, c, t)
<1> DEFINE at(x, y, i) == /\ x[i] # y[i] /\ x[i] = t[i]
                          /\ \A j \in 1..(i - 1) : x[j] = y[j]
<1>1. \A x, y \in Ids : Closer(x, y, t) <=> \E i \in 1..ID_BITS : at(x, y, i)
  BY DEF Closer, Ids
<1>2. ID_BITS \in Nat
  BY RoutingAssumption
<1>3. ~Closer(a, a, t)
  BY <1>1
<1>4. ASSUME NEW x \in Ids, NEW i \in 1..ID_BITS, NEW k \in 1..ID_BITS, at(a, b, i), at(b, x, k)
      PROVE  Closer(a, x, t)
  <2>1. CASE i < k
    <3>1. i \in 1..(k - 1) /\ \A j \in 1..(i - 1) : j \in 1..(k - 1)
      BY <1>2, <2>1
    <3>2. at(a, x, i)
      BY <1>4, <3>1
    <3> QED
      BY <1>1, <3>2
  <2>2. CASE i = k
    BY <1>4, <2>2
  <2>3. CASE k < i
    <3>1. k \in 1..(i - 1) /\ \A j \in 1..(k - 1) : j \in 1..(i - 1)
      BY <1>2, <2>3
    <3>2. at(a, x, k)
      BY <1>4, <3>1
    <3> QED
      BY <1>1, <3>2
  <2> QED
    BY <1>2, <2>1, <2>2, <2>3
<1> HIDE DEF at
<1>5. ASSUME NEW x \in Ids, Closer(a, b, t), Closer(b, x, t) PROVE Closer(a, x, t)
  BY <1>1, <1>4, <1>5
<1> QED
  BY <1>3, <1>5

\* Those who are closer than a user are finitely many.
Before(U, u, t) == {v \in U : Closer(Id[v], Id[u], t)}

LEMMA BeforeIs ==
    ASSUME NEW U \in SUBSET Users, NEW u, NEW t
    PROVE  /\ IsFiniteSet(U) /\ Cardinality(U) \in Nat
           /\ IsFiniteSet(Before(U, u, t)) /\ Cardinality(Before(U, u, t)) \in Nat
<1>1. Before(U, u, t) \subseteq Users
  BY DEF Before
<1> QED
  BY <1>1, RoutingAssumption, FS_Subset, FS_CardinalityType

LEMMA NearestIs ==
    \A max, U, t : Nearest(max, U, t) = {u \in U : Cardinality(Before(U, u, t)) < max}
  BY DEF Nearest, Before

\* If fewer are the nearest than may be, they are all.
LEMMA NearestIsAll ==
    ASSUME NEW t \in Ids, NEW max \in Nat, NEW U \in SUBSET Users, Cardinality(Nearest(max, U, t)) < max
    PROVE  Nearest(max, U, t) = U
<1> DEFINE near == Nearest(max, U, t)
           rank(u) == Cardinality(Before(U, u, t))
           ranks == {rank(u) : u \in U \ near}
<1>1. near = {u \in U : rank(u) < max} /\ near \subseteq U
  BY NearestIs
<1>2. \A u \in U : rank(u) \in Nat
  BY BeforeIs
<1> HIDE DEF near
<1> SUFFICES ASSUME U \ near # {} PROVE FALSE
  BY <1>1 DEF near
<1>3. ranks \in SUBSET Nat /\ ranks # {}
  BY <1>2
<1>4. PICK x \in U \ near : \A u \in U \ near : rank(x) <= rank(u)
  <2>1. PICK n \in ranks : \A k \in ranks : n <= k
    BY <1>3, LeastMember
  <2> QED
    BY <2>1
<1>5. ASSUME NEW u \in Before(U, x, t) PROVE u \in near
  <2>1. u \in U /\ Closer(Id[u], Id[x], t) /\ {u, x} \subseteq Users
    BY <1>5 DEF Before
  <2>2. Before(U, u, t) \subseteq Before(U, x, t)
    <3> SUFFICES ASSUME NEW v \in U, Closer(Id[v], Id[u], t) PROVE Closer(Id[v], Id[x], t)
      BY DEF Before
    <3>1. Id[v] \in Ids /\ Id[u] \in Ids /\ Id[x] \in Ids
      BY <2>1, UserIds
    <3> QED
      BY <2>1, <3>1, CloserIsOrder
  <2>3. u \notin Before(U, u, t)
    BY <2>1, UserIds, CloserIsOrder DEF Before
  <2>4. rank(u) < rank(x)
    <3>1. /\ IsFiniteSet(Before(U, x, t)) /\ Before(U, u, t) # Before(U, x, t)
      BY <1>5, <2>3, BeforeIs
    <3>2. /\ Cardinality(Before(U, u, t)) <= Cardinality(Before(U, x, t))
          /\ Cardinality(Before(U, u, t)) # Cardinality(Before(U, x, t))
      BY <2>2, <3>1, FS_Subset
    <3>3. Cardinality(Before(U, u, t)) \in Nat /\ Cardinality(Before(U, x, t)) \in Nat
      BY BeforeIs
    <3> QED
      BY <3>2, <3>3
  <2> QED
    BY <1>2, <1>4, <2>1, <2>4
<1>6. rank(x) <= Cardinality(near)
  <2>1. Before(U, x, t) \subseteq near /\ IsFiniteSet(near)
    BY <1>1, <1>5, BeforeIs, FS_Subset
  <2> QED
    BY <2>1, FS_Subset
<1>7. rank(x) \in Nat /\ ~(rank(x) < max)
  BY <1>1, <1>2, <1>4
<1>8. Cardinality(near) \in Nat /\ Cardinality(near) < max
  BY <1>1, BeforeIs, FS_Subset, FS_CardinalityType DEF near
<1> QED
  BY <1>6, <1>7, <1>8

\* If there are enough, nobody who is farther than all of them is among the nearest.
LEMMA NearestAreEnough ==
    ASSUME NEW t \in Ids, NEW max \in Nat, NEW U \in SUBSET Users, NEW W \in SUBSET Users,
           \A u \in U, w \in W : Closer(Id[u], Id[w], t),
           ~(Cardinality(Nearest(max, U, t)) < max)
    PROVE  Nearest(max, U \cup W, t) = Nearest(max, U, t)
<1> DEFINE near == Nearest(max, U, t)
<1>1. \A u \in U : Before(U \cup W, u, t) = Before(U, u, t)
  <2> SUFFICES ASSUME NEW u \in U, NEW w \in W PROVE ~Closer(Id[w], Id[u], t)
    BY DEF Before
  <2>1. Closer(Id[u], Id[w], t) /\ Id[u] \in Ids /\ Id[w] \in Ids
    BY UserIds
  <2> QED
    BY <2>1, CloserIsOrder
<1>2. ASSUME NEW w \in W PROVE ~(Cardinality(Before(U \cup W, w, t)) < max)
  <2>1. near \subseteq Before(U \cup W, w, t)
    BY NearestIs DEF Before
  <2>2. IsFiniteSet(Before(U \cup W, w, t)) /\ Cardinality(Before(U \cup W, w, t)) \in Nat
    BY BeforeIs
  <2>3. Cardinality(near) \in Nat /\ Cardinality(near) <= Cardinality(Before(U \cup W, w, t))
    BY <2>1, <2>2, FS_Subset, FS_CardinalityType
  <2> QED
    BY <2>2, <2>3
<1> QED
  BY <1>1, <1>2, NearestIs

-----------------------------------------------------------------------------
(* The zones of the tree, and the nodes below each.                        *)

LEMMA PathType ==
    \A z \in Path : /\ z \in Seq(Bit) /\ Len(z) \in 0..ID_BITS
                    /\ DOMAIN z = 1..Len(z) /\ \A i \in 1..Len(z) : z[i] \in Bit
<1> SUFFICES ASSUME NEW n \in 0..ID_BITS, NEW z \in [1..n -> Bit]
             PROVE  /\ z \in Seq(Bit) /\ Len(z) \in 0..ID_BITS
                    /\ DOMAIN z = 1..Len(z) /\ \A i \in 1..Len(z) : z[i] \in Bit
  BY Zenon DEF Path
<1>1. n \in Nat
  BY RoutingAssumption
<1>2. z \in Seq(Bit) /\ DOMAIN z = 1..n /\ Len(z) = n
  BY <1>1
<1> QED
  BY <1>2

LEMMA PrefixIs ==
    ASSUME NEW y \in Seq(Bit), NEW z
    PROVE  z \in Prefixes(y) <=> /\ z \in Seq(Bit) /\ Len(z) <= Len(y)
                                 /\ \A i \in 1..Len(z) : z[i] = y[i]
<1>1. ASSUME z \in Prefixes(y)
      PROVE  z \in Seq(Bit) /\ Len(z) <= Len(y) /\ \A i \in 1..Len(z) : z[i] = y[i]
  <2>1. PICK n \in 0..Len(y) : z = SubSeq(y, 1, n)
    BY <1>1 DEF Prefixes
  <2> QED
    BY <2>1
<1>2. ASSUME z \in Seq(Bit), Len(z) <= Len(y), \A i \in 1..Len(z) : z[i] = y[i]
      PROVE  z \in Prefixes(y)
  <2>1. Len(z) \in 0..Len(y)
    BY <1>2
  <2>2. SubSeq(y, 1, Len(z)) \in Seq(Bit) /\ Len(SubSeq(y, 1, Len(z))) = Len(z)
        /\ \A i \in 1..Len(z) : SubSeq(y, 1, Len(z))[i] = y[i]
    BY <2>1
  <2>3. z = SubSeq(y, 1, Len(z))
    BY <1>2, <2>2
  <2>4. \E n \in 0..Len(y) : z = SubSeq(y, 1, n)
    BY <2>1, <2>3
  <2> QED
    BY Zenon, <2>4 DEF Prefixes
<1> QED
  BY <1>1, <1>2

\* Every zone is one of some id.
LEMMA IdsHaveAll == ASSUME NEW z \in Path PROVE \E x \in Ids : z \in Prefixes(x)
<1> DEFINE x == [i \in 1..ID_BITS |-> IF i <= Len(z) THEN z[i] ELSE 0]
<1>1. z \in Seq(Bit) /\ Len(z) \in 0..ID_BITS /\ \A i \in 1..Len(z) : z[i] \in Bit
  BY PathType
<1>2. ID_BITS \in Nat /\ 0 \in Bit
  BY RoutingAssumption DEF Bit
<1>3. x \in Ids
  BY <1>1, <1>2 DEF Ids
<1>4. x \in Seq(Bit) /\ Len(x) = ID_BITS
  BY <1>2, <1>3 DEF Ids
<1>5. \A i \in 1..Len(z) : i \in 1..ID_BITS /\ i <= Len(z)
  BY <1>1, <1>2
<1>6. \A i \in 1..Len(z) : z[i] = x[i]
  BY <1>5
<1> HIDE DEF x
<1>7. z \in Prefixes(x)
  BY <1>1, <1>4, <1>6, PrefixIs
<1> QED
  BY <1>3, <1>7

LEMMA IdIsPath == \A x \in Ids : x \in Seq(Bit) /\ Len(x) = ID_BITS
  BY RoutingAssumption DEF Ids

\* No bucket is below another one.
LEMMA NoBucketBelow ==
    ASSUME TableOK(table), NEW y \in DOMAIN table, NEW z \in DOMAIN table, z \in Prefixes(y)
    PROVE  z = y
<1>1. y \in Path /\ y \in Seq(Bit) /\ Len(y) \in Nat
  BY PathType DEF TableOK
<1>2. PICK x \in Ids : y \in Prefixes(x)
  BY <1>1, IdsHaveAll
<1>3. z \in Seq(Bit) /\ Len(z) <= Len(y) /\ \A i \in 1..Len(z) : z[i] = y[i]
  BY <1>1, PrefixIs
<1>4. x \in Seq(Bit) /\ Len(y) <= Len(x) /\ \A i \in 1..Len(y) : y[i] = x[i]
  BY <1>1, <1>2, IdIsPath, PrefixIs
<1>5. Len(z) <= Len(x) /\ \A i \in 1..Len(z) : z[i] = x[i]
  BY <1>1, <1>3, <1>4
<1>6. z \in Prefixes(x)
  BY <1>3, <1>4, <1>5, PrefixIs
<1> QED
  BY <1>2, <1>6, PlaceIs

\* The buckets of a zone, and their nodes.
Below(z) == {y \in DOMAIN table : z \in Prefixes(y)}
NodesOf(z) == UNION {ToSet(table[y]) : y \in Below(z)}

LEMMA TreeZoneIs ==
    ASSUME TableOK(table), NEW z \in TreeZones
    PROVE  /\ z \in Path /\ z \in Seq(Bit) /\ Len(z) \in 0..ID_BITS
           /\ Below(z) # {}
           /\ z \in DOMAIN table => Below(z) = {z}
<1>1. PICK y \in DOMAIN table : z \in Prefixes(y)
  BY DEF TreeZones
<1>2. y \in Seq(Bit) /\ Len(y) \in 0..ID_BITS
  BY PathType DEF TableOK
<1>3. z \in Seq(Bit) /\ Len(z) <= Len(y)
  BY <1>1, <1>2, PrefixIs
<1>4. Len(z) \in 0..ID_BITS
  BY <1>2, <1>3, RoutingAssumption
<1>5. z \in Path
  BY <1>3, <1>4 DEF Path
<1>6. ASSUME z \in DOMAIN table PROVE z \in Below(z)
  BY <1>3, <1>6, PrefixIs DEF Below
<1>7. ASSUME z \in DOMAIN table, NEW x \in Below(z) PROVE x = z
  BY <1>7, NoBucketBelow DEF Below
<1> QED
  BY <1>1, <1>3, <1>4, <1>5, <1>6, <1>7 DEF Below

\* A zone that was split has two zones below it, each with a bucket.
LEMMA SplitZoneIs ==
    ASSUME TableOK(table), NEW z \in TreeZones, z \notin DOMAIN table
    PROVE  /\ Len(z) \in 0..(ID_BITS - 1)
           /\ \A b \in Bit : Append(z, b) \in TreeZones /\ Len(Append(z, b)) = Len(z) + 1
           /\ Below(z) = Below(Append(z, 0)) \cup Below(Append(z, 1))
<1>1. z \in Seq(Bit) /\ Len(z) \in 0..ID_BITS /\ ID_BITS \in Nat
  BY TreeZoneIs, RoutingAssumption
<1>2. ASSUME NEW y \in Below(z)
      PROVE  /\ y \in Seq(Bit) /\ Len(z) < Len(y) /\ Len(y) <= ID_BITS
             /\ \A i \in 1..Len(z) : z[i] = y[i]
             /\ y[Len(z) + 1] \in Bit
  <2>1. /\ y \in Seq(Bit) /\ Len(y) \in 0..ID_BITS /\ y \in DOMAIN table
        /\ \A i \in 1..Len(y) : y[i] \in Bit
    BY PathType DEF TableOK, Below
  <2>2. Len(z) <= Len(y) /\ \A i \in 1..Len(z) : z[i] = y[i]
    BY <2>1, PrefixIs DEF Below
  <2>3. Len(z) # Len(y)
    <3> SUFFICES ASSUME Len(z) = Len(y) PROVE FALSE
      OBVIOUS
    <3>1. z = y
      BY <1>1, <2>1, <2>2
    <3> QED
      BY <2>1, <3>1
  <2>4. Len(z) < Len(y) /\ Len(y) <= ID_BITS /\ Len(z) + 1 \in 1..Len(y)
    BY <1>1, <2>1, <2>2, <2>3
  <2> QED
    BY <2>1, <2>2, <2>4
<1>3. PICK y \in Below(z) : TRUE
  BY TreeZoneIs
<1>4. Len(z) \in 0..(ID_BITS - 1)
  BY <1>1, <1>2, <1>3
<1>5. ASSUME NEW b \in Bit
      PROVE  LET c == Append(z, b)
             IN  /\ c \in Seq(Bit) /\ Len(c) = Len(z) + 1 /\ c[Len(z) + 1] = b
                 /\ \A i \in 1..Len(z) : c[i] = z[i]
                 /\ c \in Path
  <2> DEFINE c == Append(z, b)
  <2>1. c \in Seq(Bit) /\ Len(c) = Len(z) + 1 /\ c[Len(z) + 1] = b /\ \A i \in 1..Len(z) : c[i] = z[i]
    BY <1>1
  <2>2. Len(c) \in 0..ID_BITS
    BY <1>1, <1>4, <2>1
  <2> HIDE DEF c
  <2>3. c \in Path
    BY <2>1, <2>2 DEF Path
  <2> QED
    BY <2>1, <2>3 DEF c
<1>6. ASSUME NEW b \in Bit PROVE Append(z, b) \in TreeZones
  <2> DEFINE c == Append(z, b)
  <2>1. c \in Seq(Bit) /\ Len(c) = Len(z) + 1 /\ c \in Path /\ \A i \in 1..Len(z) : c[i] = z[i]
    BY <1>5
  <2> HIDE DEF c
  <2>2. PICK x \in Ids : c \in Prefixes(x)
    BY <2>1, IdsHaveAll
  <2>3. x \in Seq(Bit) /\ Len(x) = ID_BITS /\ \A i \in 1..Len(c) : c[i] = x[i]
    BY <2>1, <2>2, IdIsPath, PrefixIs
  <2>4. Place(x) \in DOMAIN table /\ Place(x) \in Prefixes(x)
    BY PlaceIs
  <2>5. /\ Place(x) \in Seq(Bit) /\ Len(Place(x)) \in Nat
        /\ \A i \in 1..Len(Place(x)) : Place(x)[i] = x[i]
    BY <2>3, <2>4, PrefixIs
  <2>6. CASE Len(Place(x)) <= Len(z)
    <3>1. \A i \in 1..Len(Place(x)) : i \in 1..Len(z) /\ i \in 1..Len(c)
      BY <1>1, <2>1, <2>5, <2>6
    <3>2. Len(Place(x)) < Len(y) /\ y \in Seq(Bit) /\ \A i \in 1..Len(z) : z[i] = y[i]
      BY <1>1, <1>2, <2>5, <2>6
    <3>3. \A i \in 1..Len(Place(x)) : Place(x)[i] = y[i]
      BY <2>1, <2>3, <2>5, <3>1, <3>2
    <3>4. Place(x) \in Prefixes(y)
      BY <2>5, <3>2, <3>3, PrefixIs
    <3>5. Place(x) = y
      BY <2>4, <3>4, NoBucketBelow DEF Below
    <3> QED
      BY <2>5, <3>2, <3>5
  <2>7. CASE Len(z) < Len(Place(x))
    <3>1. Len(c) <= Len(Place(x)) /\ \A i \in 1..Len(c) : i \in 1..Len(Place(x))
      BY <1>1, <2>1, <2>5, <2>7
    <3>2. \A i \in 1..Len(c) : c[i] = Place(x)[i]
      BY <2>3, <2>5, <3>1
    <3>3. c \in Prefixes(Place(x))
      BY <2>1, <2>5, <3>1, <3>2, PrefixIs
    <3> QED
      BY <2>4, <3>3 DEF TreeZones, c
  <2> QED
    BY <1>1, <2>5, <2>6, <2>7
<1>7. ASSUME NEW x \in Below(z) PROVE x \in Below(Append(z, 0)) \cup Below(Append(z, 1))
  <2>1. /\ x \in Seq(Bit) /\ Len(z) < Len(x) /\ \A i \in 1..Len(z) : z[i] = x[i]
        /\ x[Len(z) + 1] \in Bit
    BY <1>2
  <2> DEFINE c == Append(z, x[Len(z) + 1])
  <2>2. /\ c \in Seq(Bit) /\ Len(c) = Len(z) + 1 /\ c[Len(z) + 1] = x[Len(z) + 1]
        /\ \A i \in 1..Len(z) : c[i] = z[i]
    BY <1>5, <2>1
  <2> HIDE DEF c
  <2>3. Len(c) <= Len(x) /\ \A i \in 1..Len(c) : i \in 1..Len(z) \/ i = Len(z) + 1
    BY <1>1, <2>1, <2>2
  <2>4. \A i \in 1..Len(c) : c[i] = x[i]
    BY <2>1, <2>2, <2>3
  <2>5. c \in Prefixes(x)
    BY <2>1, <2>2, <2>3, <2>4, PrefixIs
  <2>6. c = Append(z, 0) \/ c = Append(z, 1)
    BY <2>1 DEF c, Bit
  <2> QED
    BY <2>5, <2>6 DEF Below
<1>8. ASSUME NEW b \in Bit, NEW x \in Below(Append(z, b)) PROVE x \in Below(z)
  <2> DEFINE c == Append(z, b)
  <2>1. c \in Seq(Bit) /\ Len(c) = Len(z) + 1 /\ \A i \in 1..Len(z) : c[i] = z[i]
    BY <1>5
  <2> HIDE DEF c
  <2>2. x \in DOMAIN table /\ x \in Seq(Bit) /\ c \in Prefixes(x)
    BY PathType DEF TableOK, Below, c
  <2>3. Len(c) <= Len(x) /\ Len(x) \in Nat /\ \A i \in 1..Len(c) : c[i] = x[i]
    BY <2>1, <2>2, PrefixIs
  <2>4. Len(z) <= Len(x) /\ \A i \in 1..Len(z) : z[i] = x[i]
    BY <1>1, <2>1, <2>3
  <2> QED
    BY <1>1, <2>2, <2>4, PrefixIs DEF Below
<1> QED
  BY <1>4, <1>5, <1>6, <1>7, <1>8 DEF Bit

\* The side of the target is closer to it.
LEMMA SideIsCloser ==
    ASSUME TableOK(table), NEW t \in Ids, NEW z \in TreeZones, z \notin DOMAIN table,
           NEW u \in NodesOf(Append(z, t[Len(z) + 1])), NEW v \in NodesOf(Append(z, 1 - t[Len(z) + 1]))
    PROVE  Closer(Id[u], Id[v], t)
<1> DEFINE k == Len(z) + 1
<1>1. z \in Seq(Bit) /\ Len(z) \in Nat /\ k \in 1..ID_BITS /\ ID_BITS \in Nat
  BY TreeZoneIs, SplitZoneIs, RoutingAssumption
<1>2. t[k] \in Bit /\ 1 - t[k] \in Bit /\ 1 - t[k] # t[k]
  BY <1>1 DEF Ids, Bit
<1>3. ASSUME NEW b \in Bit, NEW w \in NodesOf(Append(z, b))
      PROVE  Id[w] \in Ids /\ Id[w][k] = b /\ \A i \in 1..Len(z) : Id[w][i] = z[i]
  <2> DEFINE c == Append(z, b)
  <2>1. c \in Seq(Bit) /\ Len(c) = k /\ c[k] = b /\ \A i \in 1..Len(z) : c[i] = z[i]
    BY <1>1
  <2>2. PICK y \in Below(c) : w \in ToSet(table[y])
    BY DEF NodesOf
  <2> HIDE DEF c
  <2>3. y \in DOMAIN table /\ c \in Prefixes(y) /\ y \in Seq(Bit) /\ Len(y) \in Nat
    BY <2>2, PathType DEF Below, TableOK
  <2>4. w \in Users /\ Id[w] \in Ids /\ y \in Prefixes(Id[w])
    BY <2>2, <2>3, UserIds DEF TableOK, ToSet
  <2>5. Len(c) <= Len(y) /\ \A i \in 1..Len(c) : c[i] = y[i]
    BY <2>1, <2>3, PrefixIs
  <2>6. \A i \in 1..Len(y) : y[i] = Id[w][i]
    BY <2>3, <2>4, IdIsPath, PrefixIs
  <2>7. \A i \in 1..k : i \in 1..Len(c) /\ i \in 1..Len(y)
    BY <1>1, <2>1, <2>3, <2>5
  <2>8. \A i \in 1..k : Id[w][i] = c[i]
    BY <2>5, <2>6, <2>7
  <2>9. k \in 1..k /\ \A i \in 1..Len(z) : i \in 1..k
    BY <1>1
  <2> QED
    BY <2>1, <2>4, <2>8, <2>9
<1>4. Id[u] \in Ids /\ Id[u][k] = t[k] /\ \A i \in 1..Len(z) : Id[u][i] = z[i]
  BY <1>2, <1>3
<1>5. Id[v] \in Ids /\ Id[v][k] = 1 - t[k] /\ \A i \in 1..Len(z) : Id[v][i] = z[i]
  BY <1>2, <1>3
<1>6. \A j \in 1..(k - 1) : j \in 1..Len(z)
  BY <1>1
<1>7. DOMAIN Id[u] = 1..ID_BITS
  BY <1>4 DEF Ids
<1> HIDE DEF k
<1>8. Id[u][k] # Id[v][k] /\ Id[u][k] = t[k] /\ \A j \in 1..(k - 1) : Id[u][j] = Id[v][j]
  BY <1>2, <1>4, <1>5, <1>6
<1> QED
  BY <1>1, <1>7, <1>8 DEF Closer

-----------------------------------------------------------------------------
(* The walk: that the recursion defines a function, and what it finds.     *)

\* One call of getClosestNodes, for a zone z; w has what its calls for the
\* zones below return.
Visit(w, z, t, max, maxType) ==
    [found \in SUBSET Users |->
        IF z \in DOMAIN table
        THEN Nearest(max, found \cup Eligible(ToSet(table[z]), maxType), t)
        ELSE LET bit  == t[Len(z) + 1]
                 near == w[Append(z, bit)][found]
             IN  IF Cardinality(near) < max THEN w[Append(z, 1 - bit)][near] ELSE near]

Walk(t, max, maxType) == CHOOSE w : w = [z \in TreeZones |-> Visit(w, z, t, max, maxType)]

LEMMA WalkIs ==
    ASSUME NEW t, NEW max, NEW maxType
    PROVE  getClosestNodes(t, max, maxType) = Walk(t, max, maxType)[Root][{}]
  BY Zenon DEF getClosestNodes, Walk, Visit

\* The zones from which fewer than n steps lead to the last bit.
Low(n) == {z \in TreeZones : ID_BITS - Len(z) < n}

\* A call depends on the calls one level down only.
LEMMA VisitBelow ==
    ASSUME TableOK(table), NEW t \in Ids, NEW max, NEW maxType, NEW n \in Nat, NEW z \in Low(n + 1),
           NEW v, NEW w, \A y \in Low(n) : v[y] = w[y]
    PROVE  Visit(v, z, t, max, maxType) = Visit(w, z, t, max, maxType)
<1>1. CASE z \in DOMAIN table
  BY <1>1 DEF Visit
<1>2. CASE z \notin DOMAIN table
  <2> DEFINE bit == t[Len(z) + 1]
  <2>1. z \in TreeZones /\ ID_BITS - Len(z) < n + 1 /\ ID_BITS \in Nat
    BY RoutingAssumption DEF Low
  <2>2. Len(z) \in 0..(ID_BITS - 1)
    BY <1>2, <2>1, SplitZoneIs
  <2>3. bit \in Bit /\ 1 - bit \in Bit
    <3>1. Len(z) + 1 \in 1..ID_BITS
      BY <2>1, <2>2
    <3>2. bit \in Bit
      BY <3>1 DEF Ids
    <3> QED
      BY <3>2 DEF Bit
  <2>4. ASSUME NEW b \in Bit PROVE Append(z, b) \in Low(n)
    <3>1. Append(z, b) \in TreeZones /\ Len(Append(z, b)) = Len(z) + 1
      BY <1>2, <2>1, SplitZoneIs
    <3> QED
      BY <2>1, <2>2, <3>1 DEF Low
  <2>5. v[Append(z, bit)] = w[Append(z, bit)] /\ v[Append(z, 1 - bit)] = w[Append(z, 1 - bit)]
    BY <2>3, <2>4
  <2> QED
    BY <1>2, <2>5 DEF Visit
<1> QED
  BY <1>1, <1>2

\* The recursion ends, as every call is one level down.
LEMMA WalkExists ==
    ASSUME TableOK(table), NEW t \in Ids, NEW max, NEW maxType
    PROVE  Walk(t, max, maxType) = [z \in TreeZones |-> Visit(Walk(t, max, maxType), z, t, max, maxType)]
<1> DEFINE V(w, z) == Visit(w, z, t, max, maxType)
           right(w, n) == w = [z \in TreeZones |-> w[z]] /\ \A z \in Low(n) : w[z] = V(w, z)
           bad == {n \in Nat : ~\E w : right(w, n)}
<1>1. \A z \in TreeZones : Len(z) \in 0..ID_BITS
  BY TreeZoneIs
<1>2. ID_BITS \in Nat
  BY RoutingAssumption
<1>3. bad = {}
  <2> SUFFICES ASSUME bad # {} PROVE FALSE
    OBVIOUS
  <2>1. PICK n \in bad : \A k \in bad : n <= k
    BY LeastMember
  <2>2. n # 0
    <3> SUFFICES ASSUME n = 0 PROVE FALSE
      OBVIOUS
    <3>1. Low(0) = {}
      BY <1>1, <1>2 DEF Low
    <3>2. right([z \in TreeZones |-> {}], 0)
      BY <3>1
    <3> QED
      BY <3>2
  <2>3. n - 1 \in Nat /\ n - 1 \notin bad /\ (n - 1) + 1 = n
    BY <2>1, <2>2
  <2>4. PICK w : right(w, n - 1)
    BY <2>3
  <2> DEFINE x == [z \in TreeZones |-> IF z \in Low(n - 1) THEN w[z] ELSE V(w, z)]
  <2>5. \A z \in Low(n - 1) : x[z] = w[z]
    BY DEF Low
  <2>6. \A z \in Low(n) : V(w, z) = V(x, z)
    BY <2>3, <2>5, VisitBelow
  <2>7. \A z \in Low(n) : x[z] = V(w, z)
    BY <2>4 DEF Low
  <2>8. right(x, n)
    BY <2>6, <2>7
  <2> QED
    BY <2>8
<1>4. PICK w : right(w, ID_BITS + 1)
  BY <1>2, <1>3
<1>5. \A z \in TreeZones : z \in Low(ID_BITS + 1)
  BY <1>1, <1>2 DEF Low
<1>6. w = [z \in TreeZones |-> V(w, z)]
  BY <1>4, <1>5
<1> QED
  BY <1>6, Zenon DEF Walk

\* The walk for a zone adds its closest nodes to those found so far, if these
\* are closer than all of the zone.
LEMMA WalkFinds ==
    ASSUME TableOK(table), NEW t \in Ids, NEW max \in Nat, NEW maxType
    PROVE  \A z \in TreeZones, found \in SUBSET Users :
              LET nodesOfZone == Eligible(NodesOf(z), maxType)
              IN  (\A u \in found, v \in nodesOfZone : Closer(Id[u], Id[v], t))
                     => Walk(t, max, maxType)[z][found] = Nearest(max, found \cup nodesOfZone, t)
<1> DEFINE good(z) == Eligible(NodesOf(z), maxType)
           walk == Walk(t, max, maxType)
           nearer(F, z) == \A u \in F, v \in good(z) : Closer(Id[u], Id[v], t)
           finds(z) == \A F \in SUBSET Users : nearer(F, z) => walk[z][F] = Nearest(max, F \cup good(z), t)
           bad == {z \in TreeZones : ~finds(z)}
           heights == {ID_BITS - Len(z) : z \in bad}
<1>1. \A z \in TreeZones : z \in Seq(Bit) /\ Len(z) \in 0..ID_BITS
  BY TreeZoneIs
<1>2. ID_BITS \in Nat
  BY RoutingAssumption
<1>3. \A z \in TreeZones : walk[z] = Visit(walk, z, t, max, maxType)
  BY WalkExists
<1>4. \A z : NodesOf(z) \subseteq Users /\ good(z) \subseteq NodesOf(z)
  BY DEF NodesOf, Below, TableOK, ToSet, Eligible
<1> HIDE DEF walk
<1>5. ASSUME NEW z \in TreeZones, z \in DOMAIN table PROVE finds(z)
  <2> SUFFICES ASSUME NEW F \in SUBSET Users PROVE walk[z][F] = Nearest(max, F \cup good(z), t)
    OBVIOUS
  <2>1. NodesOf(z) = ToSet(table[z])
    BY <1>5, TreeZoneIs DEF NodesOf
  <2>2. walk[z][F] = Visit(walk, z, t, max, maxType)[F]
    BY <1>3
  <2>3. Visit(walk, z, t, max, maxType)[F] = Nearest(max, F \cup Eligible(ToSet(table[z]), maxType), t)
    BY <1>5 DEF Visit
  <2> QED
    BY <2>1, <2>2, <2>3
<1>6. ASSUME NEW z \in TreeZones, z \notin DOMAIN table,
             \A b \in Bit : Append(z, b) \in TreeZones => finds(Append(z, b))
      PROVE  finds(z)
  <2> SUFFICES ASSUME NEW F \in SUBSET Users, nearer(F, z)
               PROVE  walk[z][F] = Nearest(max, F \cup good(z), t)
    OBVIOUS
  <2> DEFINE bit == t[Len(z) + 1]
             c == Append(z, bit)
             d == Append(z, 1 - bit)
             near == walk[c][F]
  <2>1. bit \in Bit /\ 1 - bit \in Bit /\ {bit, 1 - bit} = {0, 1}
    <3>1. Len(z) + 1 \in 1..ID_BITS
      BY <1>2, <1>6, SplitZoneIs
    <3>2. bit \in Bit
      BY <3>1 DEF Ids
    <3> QED
      BY <3>2 DEF Bit
  <2>2. c \in TreeZones /\ d \in TreeZones /\ finds(c) /\ finds(d)
    BY <1>6, <2>1, SplitZoneIs
  <2>3. good(z) = good(c) \cup good(d)
    <3>1. Below(z) = Below(c) \cup Below(d)
      <4>1. Below(z) = Below(Append(z, 0)) \cup Below(Append(z, 1))
        BY <1>6, SplitZoneIs
      <4>2. (bit = 0 /\ 1 - bit = 1) \/ (bit = 1 /\ 1 - bit = 0)
        BY <2>1 DEF Bit
      <4> QED
        BY <4>1, <4>2
    <3>2. NodesOf(z) = NodesOf(c) \cup NodesOf(d)
      BY <3>1 DEF NodesOf
    <3> QED
      BY <3>2 DEF Eligible
  <2>4. \A u \in good(c), v \in good(d) : Closer(Id[u], Id[v], t)
    BY <1>4, <1>6, SideIsCloser
  <2>5. walk[z][F] = IF Cardinality(near) < max THEN walk[d][near] ELSE near
    BY <1>3, <1>6 DEF Visit
  <2> HIDE DEF c, d, good, near, finds
  <2>6. near = Nearest(max, F \cup good(c), t)
    <3>1. nearer(F, c)
      BY <2>3
    <3> QED
      BY <2>2, <3>1 DEF finds, near
  <2> DEFINE U == F \cup good(c)
  <2>7. U \subseteq Users /\ good(d) \subseteq Users /\ F \cup good(z) = U \cup good(d)
    BY <1>4, <2>3
  <2>8. \A u \in U, v \in good(d) : Closer(Id[u], Id[v], t)
    BY <2>3, <2>4
  <2> HIDE DEF U
  <2>9. CASE Cardinality(near) < max
    <3>1. near = U
      BY <2>6, <2>7, <2>9, NearestIsAll DEF U
    <3>2. walk[d][near] = Nearest(max, U \cup good(d), t)
      BY <2>2, <2>7, <2>8, <3>1 DEF finds
    <3> QED
      BY <2>5, <2>7, <2>9, <3>2
  <2>10. CASE ~(Cardinality(near) < max)
    <3>1. near = Nearest(max, U, t)
      BY <2>6 DEF U
    <3>2. Nearest(max, U \cup good(d), t) = near
      BY <2>7, <2>8, <2>10, <3>1, NearestAreEnough
    <3> QED
      BY <2>5, <2>7, <2>10, <3>2
  <2> QED
    BY <2>9, <2>10
<1> HIDE DEF finds
<1>7. bad = {}
  <2> SUFFICES ASSUME bad # {} PROVE FALSE
    OBVIOUS
  <2>1. heights \in SUBSET Nat /\ heights # {}
    BY <1>1, <1>2
  <2>2. PICK z \in bad : \A y \in bad : ID_BITS - Len(z) <= ID_BITS - Len(y)
    <3>1. PICK n \in heights : \A k \in heights : n <= k
      BY <2>1, LeastMember
    <3> QED
      BY <3>1
  <2>3. z \in TreeZones /\ ~finds(z) /\ z \notin DOMAIN table
    BY <1>5, <2>2
  <2>4. ASSUME NEW b \in Bit, Append(z, b) \in TreeZones PROVE finds(Append(z, b))
    <3>1. Len(Append(z, b)) = Len(z) + 1 /\ Len(z) \in Nat
      BY <1>1, <2>3, SplitZoneIs
    <3>2. ~(ID_BITS - Len(z) <= ID_BITS - Len(Append(z, b)))
      BY <1>2, <3>1
    <3>3. Append(z, b) \notin bad
      BY <2>2, <3>2
    <3> QED
      BY <2>4, <3>3
  <2> QED
    BY <1>6, <2>3, <2>4
<1>8. \A z \in TreeZones : finds(z)
  BY <1>7
<1> QED
  BY <1>8 DEF finds, walk

\* Whatever the buckets hold, and however they were split: a walk that leaves
\* out the far side of a branch as soon as it has enough finds the closest.
THEOREM ClosestAreFound == Spec => []ClosestIsExact
<1>1. IInv => ClosestIsExact
  <2> SUFFICES ASSUME IInv, NEW t \in Targets, NEW max \in 1..DHT_K, NEW maxType
               PROVE  getClosestNodes(t, max, maxType) = Nearest(max, Eligible(InTable, maxType), t)
    BY DEF ClosestIsExact
  <2>1. TableOK(table) /\ t \in Ids /\ max \in Nat
    BY RoutingAssumption DEF IInv, Ids
  <2>2. \A y \in DOMAIN table : Root \in Prefixes(y)
    <3> SUFFICES ASSUME NEW y \in DOMAIN table PROVE Root \in Prefixes(y)
      OBVIOUS
    <3>1. y \in Seq(Bit) /\ Len(y) \in Nat
      BY <2>1, PathType DEF TableOK
    <3>2. Root \in Seq(Bit) /\ Len(Root) = 0
      BY DEF Root
    <3>3. Len(Root) <= Len(y) /\ \A i \in 1..Len(Root) : Root[i] = y[i]
      BY <3>1, <3>2
    <3> QED
      BY <3>1, <3>2, <3>3, PrefixIs
  <2>3. Root \in TreeZones
    BY <2>1, <2>2, PlaceIs DEF TreeZones
  <2>4. NodesOf(Root) = InTable
    BY <2>2 DEF NodesOf, Below, InTable
  <2>5. Walk(t, max, maxType)[Root][{}] = Nearest(max, {} \cup Eligible(NodesOf(Root), maxType), t)
    <3> DEFINE good == Eligible(NodesOf(Root), maxType)
    <3>1. {} \in SUBSET Users /\ \A u \in {}, v \in good : Closer(Id[u], Id[v], t)
      OBVIOUS
    <3>2. \A F \in SUBSET Users :
             (\A u \in F, v \in good : Closer(Id[u], Id[v], t))
                => Walk(t, max, maxType)[Root][F] = Nearest(max, F \cup good, t)
      BY <2>1, <2>3, WalkFinds
    <3> HIDE DEF good
    <3>3. Walk(t, max, maxType)[Root][{}] = Nearest(max, {} \cup good, t)
      BY <3>1, <3>2
    <3> QED
      BY <3>3 DEF good
  <2> QED
    BY <2>4, <2>5, WalkIs
<1> QED
  BY InvInit, InvNext, <1>1, PTL DEF Spec

===============================================================================
