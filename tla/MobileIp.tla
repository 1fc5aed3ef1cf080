------------------------------ MODULE MobileIp ------------------------------
(***************************************************************************)
(* Mobile IP as pa3-86105039/CF/user/ap.cpp and node.cpp do it: access     *)
(* points lease addresses to the nodes of their cells, and a node that has *)
(* moved to the cell of another access point is registered with the one    *)
(* that gave it its address, its home, which tunnels to the other.         *)
(*                                                                         *)
(* Cells, routers and the framework are external: a frame sent in a cell   *)
(* reaches its access point and the nodes that are there at that moment,   *)
(* and nobody checks that a frame for an access point is for itself; a     *)
(* packet for an address goes to the access point whose pool it is from.   *)
(* Frames for one interface arrive in order.  Only the main thread of each *)
(* program touches the maps below; the other one of the access point ages  *)
(* timemp, which nothing reads.                                            *)
(***************************************************************************)
EXTENDS Naturals, Sequences, FiniteSets, SequencesExt

CONSTANTS
    AP, Node, NULL,
    Pool,           \* Pool[a]: the array ips as pars_infos() fills it, 0 for NULL
    MaxQueue,       \* frames that wait for one interface (a bound of the model)
    MaxMoves,       \* (a bound of the model)
    MaxPings        \* (a bound of the model)

Address == (UNION {Range(Pool[a]) : a \in AP}) \ {0}

ASSUME MobileIpAssumption ==
    /\ NULL \notin AP \union Node
    /\ Pool \in [AP -> Seq(Nat)]
    /\ \A a, b \in AP : \A i \in DOMAIN Pool[a], j \in DOMAIN Pool[b] :
           Pool[a][i] = Pool[b][j] /\ Pool[a][i] # 0 => a = b /\ i = j
    /\ MaxQueue \in Nat \ {0} /\ MaxMoves \in Nat /\ MaxPings \in Nat

VARIABLES
    ips,        \* the addresses an access point has left
    mp,         \* the node of an address, NULL where operator[] made an empty entry
    ipmp,       \* the access point that an address is tunnelled to
    ip,         \* the address of a node, 0 if it has none
    home,       \* home_ip1: the access point it is from
    cell,       \* where the node is
    toAP,       \* frames from a cell: interface 0
    toNet,      \* packets from the network: interface 1
    toNode,
    moves, pings

apVars == <<ips, mp, ipmp>>
nodeVars == <<ip, home>>
netVars == <<toAP, toNet, toNode>>
vars == <<apVars, nodeVars, netVars, cell, moves, pings>>

Owner(x) == CHOOSE a \in AP : x \in Range(Pool[a])

\* map::insert(): an entry that is there stays.
Inserted(map, key, value) ==
    [x \in DOMAIN map \union {key} |-> IF x \in DOMAIN map THEN map[x] ELSE value]

(***************************************************************************)
(* The array of addresses.                                                 *)
(***************************************************************************)

FirstFree(pool) == CHOOSE i \in DOMAIN pool :
    pool[i] # 0 /\ \A j \in 1..(i - 1) : pool[j] = 0

\* getIP() swaps, at every empty place j from there on, the places i and j - 1, so
\* that requests go round; the address stays.  Held(j): what is at i when the loop
\* comes to j.
GetIP(pool) ==
    IF \A i \in DOMAIN pool : pool[i] = 0 THEN [ip |-> 0, pool |-> pool]
    ELSE LET i == FirstFree(pool)
             Gaps(j) == {k \in DOMAIN pool : i < k /\ k < j /\ pool[k] = 0}
             Held(j) == IF Gaps(j) = {} THEN pool[i] ELSE pool[Max(Gaps(j)) - 1]
         IN [ip |-> pool[i],
             pool |-> [k \in DOMAIN pool |->
                 IF k = i THEN Held(Len(pool) + 1)
                 ELSE IF k + 1 \in Gaps(Len(pool) + 1) THEN Held(k + 1) ELSE pool[k]]]

RemoveIP(pool, x) ==
    IF x \notin Range(pool) THEN pool
    ELSE LET i == CHOOSE i \in DOMAIN pool : pool[i] = x /\ \A j \in 1..(i - 1) : pool[j] # x
         IN [pool EXCEPT ![i] = 0]

(***************************************************************************)
(* The node.                                                               *)
(***************************************************************************)

\* Less than MaxQueue of the frames that wait in q have the value v in field.
Few(q, field, v) ==
    Cardinality({i \in DOMAIN q : field \in DOMAIN q[i] /\ q[i][field] = v}) < MaxQueue

\* run(): every four seconds it says that it has no address, or which and from whom.
Beacon(n) ==
    /\ Few(toAP[cell[n]], "node", n) /\ Len(toNode[n]) < MaxQueue
    /\ ip[n] # 0 => Few(toNet[home[n]], "ip", ip[n])
    /\ toAP' = [toAP EXCEPT ![cell[n]] = Append(@,
           IF ip[n] = 0 THEN [type |-> "none", node |-> n]
           ELSE [type |-> "has", node |-> n, home |-> home[n], ip |-> ip[n]])]
    /\ UNCHANGED <<apVars, nodeVars, toNet, toNode, cell, moves, pings>>

\* Every offer is taken, by a node that has an address, too.  The answer goes to
\* the cell the node is in by now.
TakeOffer(n) ==
    /\ toNode[n] # <<>> /\ Head(toNode[n]).type = "offer"
    /\ LET m == Head(toNode[n])
       IN /\ ip' = [ip EXCEPT ![n] = m.ip]
          /\ home' = [home EXCEPT ![n] = m.ap]
          /\ toAP' = [toAP EXCEPT ![cell[n]] = Append(@, [type |-> "ack", node |-> n, ip |-> m.ip])]
    /\ toNode' = [toNode EXCEPT ![n] = Tail(@)]
    /\ UNCHANGED <<apVars, toNet, cell, moves, pings>>

AnswerPing(n) ==
    /\ toNode[n] # <<>> /\ Head(toNode[n]).type = "ping"
    /\ toAP' = [toAP EXCEPT ![cell[n]] = Append(@, [type |-> "reply", node |-> n])]
    /\ toNode' = [toNode EXCEPT ![n] = Tail(@)]
    /\ UNCHANGED <<apVars, nodeVars, toNet, cell, moves, pings>>

(***************************************************************************)
(* The access point, interface 0.                                          *)
(***************************************************************************)

FromCell(a, type) == toAP[a] # <<>> /\ Head(toAP[a]).type = type
CellFrameTaken(a) == toAP' = [toAP EXCEPT ![a] = Tail(@)]

\* sendFrame() on interface 0, for the address n.
SentInCell(a, n, m) ==
    IF n \in Node /\ cell[n] = a THEN [toNode EXCEPT ![n] = Append(@, m)] ELSE toNode

\* A slip: only the first place of the array is looked at.
OfferFirst(a) ==
    /\ FromCell(a, "none")
    /\ LET n == Head(toAP[a]).node
       IN toNode' = SentInCell(a, n, [type |-> "offer", ap |-> a, ip |-> Head(ips[a])])
    /\ CellFrameTaken(a)
    /\ UNCHANGED <<apVars, nodeVars, toNet, cell, moves, pings>>

OfferIP(a) ==
    /\ FromCell(a, "none")
    /\ LET n == Head(toAP[a]).node  got == GetIP(ips[a])
       IN /\ ips' = [ips EXCEPT ![a] = got.pool]
          /\ toNode' = SentInCell(a, n, [type |-> "offer", ap |-> a, ip |-> got.ip])
    /\ CellFrameTaken(a)
    /\ UNCHANGED <<mp, ipmp, nodeVars, toNet, cell, moves, pings>>

\* A slip: the address stays in the pool.
AcknowledgedOnly(a) ==
    /\ FromCell(a, "ack")
    /\ LET m == Head(toAP[a]) IN mp' = [mp EXCEPT ![a] = Inserted(@, m.ip, m.node)]
    /\ CellFrameTaken(a)
    /\ UNCHANGED <<ips, ipmp, nodeVars, toNet, toNode, cell, moves, pings>>

Acknowledged(a) ==
    /\ FromCell(a, "ack")
    /\ LET m == Head(toAP[a])
       IN /\ mp' = [mp EXCEPT ![a] = Inserted(@, m.ip, m.node)]
          /\ ips' = [ips EXCEPT ![a] = RemoveIP(@, m.ip)]
    /\ CellFrameTaken(a)
    /\ UNCHANGED <<ipmp, nodeVars, toNet, toNode, cell, moves, pings>>

\* A slip: a node that is back home is tunnelled to all the same.
VisitForgets(a) ==
    /\ FromCell(a, "has")
    /\ LET m == Head(toAP[a])
       IN toNet' = IF m.home = a THEN toNet
                   ELSE [toNet EXCEPT ![m.home] =
                          Append(@, [type |-> "register", ip |-> m.ip, foreign |-> a])]
    /\ CellFrameTaken(a)
    /\ UNCHANGED <<apVars, nodeVars, toNode, cell, moves, pings>>

\* A node that is back home is tunnelled to no more; one from elsewhere is
\* registered with its home.
Visit(a) ==
    /\ FromCell(a, "has")
    /\ LET m == Head(toAP[a])
       IN IF m.home = a
          THEN /\ ipmp' = [ipmp EXCEPT ![a] = Restrict(@, DOMAIN @ \ {m.ip})]
               /\ UNCHANGED toNet
          ELSE /\ toNet' = [toNet EXCEPT ![m.home] =
                      Append(@, [type |-> "register", ip |-> m.ip, foreign |-> a])]
               /\ UNCHANGED ipmp
    /\ CellFrameTaken(a)
    /\ UNCHANGED <<ips, mp, nodeVars, toNode, cell, moves, pings>>

\* The answer to a ping goes to the gateway, and is out of sight.
ForwardReply(a) ==
    /\ FromCell(a, "reply")
    /\ CellFrameTaken(a)
    /\ UNCHANGED <<apVars, nodeVars, toNet, toNode, cell, moves, pings>>

(***************************************************************************)
(* The access point, interface 1.                                          *)
(***************************************************************************)

FromNet(a, type) == toNet[a] # <<>> /\ Head(toNet[a]).type = type
PacketTaken(a) == [toNet EXCEPT ![a] = Tail(@)]

\* mp[ip] makes an entry if there is none.
PingArrives(a) ==
    /\ FromNet(a, "ping")
    /\ LET x == Head(toNet[a]).ip
       IN /\ mp' = [mp EXCEPT ![a] = Inserted(@, x, NULL)]
          /\ IF x \in DOMAIN ipmp[a]
             THEN /\ toNet' = [PacketTaken(a) EXCEPT ![ipmp[a][x]] =
                         Append(@, [type |-> "tunnel", ip |-> x, node |-> mp'[a][x]])]
                  /\ UNCHANGED toNode
             ELSE /\ toNode' = SentInCell(a, mp'[a][x], [type |-> "ping", ip |-> x])
                  /\ toNet' = PacketTaken(a)
    /\ UNCHANGED <<ips, ipmp, nodeVars, toAP, cell, moves, pings>>

RegistrationArrives(a) ==
    /\ FromNet(a, "register")
    /\ LET m == Head(toNet[a])
       IN ipmp' = [ipmp EXCEPT ![a] = Inserted(@, m.ip, m.foreign)]
    /\ toNet' = PacketTaken(a)
    /\ UNCHANGED <<ips, mp, nodeVars, toAP, toNode, cell, moves, pings>>

TunnelEnds(a) ==
    /\ FromNet(a, "tunnel")
    /\ LET m == Head(toNet[a])
       IN toNode' = SentInCell(a, m.node, [type |-> "ping", ip |-> m.ip])
    /\ toNet' = PacketTaken(a)
    /\ UNCHANGED <<apVars, nodeVars, toAP, cell, moves, pings>>

(***************************************************************************)
(* What the programs do not control.                                       *)
(***************************************************************************)

Move(n) ==
    /\ moves < MaxMoves
    /\ \E a \in AP \ {cell[n]} : cell' = [cell EXCEPT ![n] = a]
    /\ moves' = moves + 1
    /\ UNCHANGED <<apVars, nodeVars, netVars, pings>>

Ping ==
    /\ pings < MaxPings
    /\ pings' = pings + 1
    /\ \E x \in Address :
           toNet' = [toNet EXCEPT ![Owner(x)] = Append(@, [type |-> "ping", ip |-> x])]
    /\ UNCHANGED <<apVars, nodeVars, toAP, toNode, cell, moves>>

Init ==
    /\ ips = Pool
    /\ mp = [a \in AP |-> <<>>] /\ ipmp = [a \in AP |-> <<>>]
    /\ ip = [n \in Node |-> 0] /\ home = [n \in Node |-> NULL]
    /\ cell \in [Node -> AP]
    /\ toAP = [a \in AP |-> <<>>] /\ toNet = [a \in AP |-> <<>>]
    /\ toNode = [n \in Node |-> <<>>]
    /\ moves = 0 /\ pings = 0

CellStep(a) == OfferIP(a) \/ Acknowledged(a) \/ Visit(a) \/ ForwardReply(a)
NetStep(a) == PingArrives(a) \/ RegistrationArrives(a) \/ TunnelEnds(a)

NodeStep(n) == TakeOffer(n) \/ AnswerPing(n)

Next ==
    \/ \E a \in AP : CellStep(a) \/ NetStep(a)
    \/ \E n \in Node : NodeStep(n) \/ Beacon(n) \/ Move(n)
    \/ Ping

Spec == Init /\ [][Next]_vars

FairSpec ==
    /\ Spec
    /\ \A a \in AP : WF_vars(CellStep(a)) /\ WF_vars(NetStep(a))
    /\ \A n \in Node : WF_vars(NodeStep(n)) /\ WF_vars(Beacon(n))

TypeOK ==
    /\ \A a \in AP : Len(ips[a]) = Len(Pool[a]) /\ Range(ips[a]) \subseteq Range(Pool[a]) \union {0}
    /\ mp \in [AP -> UNION {[X -> Node \union {NULL}] : X \in SUBSET (Address \union {0})}]
    /\ ipmp \in [AP -> UNION {[X -> AP] : X \in SUBSET Address}]
    /\ ip \in [Node -> Address \union {0}] /\ home \in [Node -> AP \union {NULL}]
    /\ \A n \in Node : ip[n] # 0 => ip[n] \in Range(Pool[home[n]])
    /\ cell \in [Node -> AP]

(***************************************************************************)
(* The addresses of an access point are all accounted for, whatever moves  *)
(* between an offer and its acknowledgement: none is in the pool twice,    *)
(* none gets lost without an entry of the map, and one that a node of the  *)
(* map has is not offered again.                                           *)
(***************************************************************************)
AddressesAccounted == TypeOK /\ \A a \in AP :
    /\ \A i, j \in DOMAIN ips[a] : ips[a][i] = ips[a][j] /\ ips[a][i] # 0 => i = j
    /\ \A x \in Range(Pool[a]) \ {0} :
        /\ x \notin Range(ips[a]) => x \in DOMAIN mp[a]
        /\ x \in Range(ips[a]) /\ x \in DOMAIN mp[a] => mp[a][x] = NULL

\* Nobody else has the address of n: two nodes that ask at the same time can be
\* offered the same one, and both of them keep it.
Alone(n) == \A k \in Node \ {n} : ip[k] # ip[n]
Route(n) == IF ip[n] \in DOMAIN ipmp[home[n]] THEN ipmp[home[n]][ip[n]] ELSE home[n]

(***************************************************************************)
(* Once the nodes have stopped moving, the home of each sends what comes   *)
(* for its address to the cell where it is, however beacons, registrations *)
(* and moves overtook each other, if no other node has the address too.    *)
(* With two access points: insert() leaves the entry of a node that goes   *)
(* on from one foreign cell to another.                                    *)
(***************************************************************************)
TunnelFollows == <>[](\A n \in Node : ip[n] # 0 /\ Alone(n) => Route(n) = cell[n])

(***************************************************************************)
(* Where the pools are large enough, every node gets an address, however   *)
(* many offers it was too late for.                                        *)
(***************************************************************************)
EveryNodeAddressed == <>[](\A n \in Node : ip[n] # 0)
=============================================================================
