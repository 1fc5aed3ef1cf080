------------------------------- MODULE Bridge -------------------------------
(***************************************************************************)
(* The learning bridge of pa2-86105039/user/sm.cpp, several of them on     *)
(* LANs.  Bridges exchange hellos to agree on a root and on their distance *)
(* to it, and so decide who forwards frames onto which LAN.                *)
(*                                                                         *)
(* Each bridge is a process of two threads with no lock between them: the  *)
(* main thread hands received frames to processFrame(), the simulator's    *)
(* thread executes run().  A step ends wherever the other thread could     *)
(* tell the difference in rootID, dist or dsg_interfaces.                  *)
(*                                                                         *)
(* The framework and its server are external: a frame sent on a LAN gets   *)
(* to every other bridge that is up, and each bridge has one connection,   *)
(* so that frames arrive in the order in which they were relayed.  One     *)
(* Tick stands for HELLO_TIME; hellos, and what they cause, take less.     *)
(* The 16-bit stamps of run() are good for 65536 seconds (see Wire).       *)
(*                                                                         *)
(* An identifier (a string) is a number, ordered as str_compare() orders   *)
(* them; an interface is named by the LAN it is on.  The table of          *)
(* addresses at the end takes no part in the hellos.                       *)
(***************************************************************************)
EXTENDS Naturals, Sequences, FiniteSets, SequencesExt

CONSTANTS
    Bridge,         \* the identifiers, positive numbers
    Lan,            \* the LANs, numbered in the order of the interfaces
    Ports,          \* Ports[b]: the LANs that bridge b is attached to
    MAX_AGE,        \* hellos that were passed on more often than this are ignored
    MAX_WAIT,       \* MAX_WAIT_FOR_HELLO, in ticks
    MayCrash,       \* the bridges that may stop and be started again
    MaxCrashes      \* how often (a bound of the model)

ASSUME BridgeAssumption ==
    /\ Bridge \subseteq Nat \ {0} /\ IsFiniteSet(Bridge)
    /\ Lan \subseteq Nat /\ IsFiniteSet(Lan)
    /\ Ports \in [Bridge -> SUBSET Lan] /\ MayCrash \subseteq Bridge
    /\ MAX_AGE \in Nat /\ MAX_WAIT \in Nat /\ MaxCrashes \in Nat

VARIABLES
    up,         \* the bridges that execute
    rootID, dist, age,
    dsg,        \* the interfaces whose dsg_interfaces[] is not 0: no hello goes there
    blocked,    \* the interfaces whose states[] is backup
    parent,     \* the bridge and interface that rootID was learnt from, 0 for "None"
    silent,     \* ticks since noHelloTimer was set
    inbox,      \* what the framework has for the bridge: interface and hello
    task,       \* where the main thread is in processFrame()
    clock,      \* where the other thread is in run()
    crashes

tree == <<rootID, dist, age, dsg, blocked, parent, silent>>
bridgeVars == <<up, tree, inbox, task, clock, crashes>>

Hello == [root : Bridge, dist : Nat, id : Bridge, age : Nat]
Idle == [at |-> "idle"]

(***************************************************************************)
(* Frames.                                                                 *)
(***************************************************************************)

\* make_hello(): what the bridge says of itself at this moment.
MakeHello(b, a) == [root |-> rootID[b], dist |-> dist[b], id |-> b, age |-> a]

InOrder(S) == CHOOSE seq \in [1..Cardinality(S) -> S] :
                  \A i, j \in 1..Cardinality(S) : i < j => seq[i] < seq[j]

\* sendFrame() on the interfaces S, in their order.
SentOn(box, b, S, h) ==
    [c \in Bridge |->
        IF c = b \/ c \notin up THEN box[c]
        ELSE box[c] \o [k \in 1..Cardinality(S \cap Ports[c]) |->
                           <<InOrder(S \cap Ports[c])[k], h>>]]

Designated(b) == Ports[b] \ dsg[b]

(***************************************************************************)
(* initialize() of a new process.  dsg_interfaces comes from new and is    *)
(* not set: it keeps what the memory held, chosen at first and by Crash.    *)
(***************************************************************************)

Boot(b) ==
    /\ b \notin up
    /\ up' = up \union {b}
    /\ rootID' = [rootID EXCEPT ![b] = b]
    /\ dist' = [dist EXCEPT ![b] = 0]
    /\ age' = [age EXCEPT ![b] = 0]
    /\ blocked' = [blocked EXCEPT ![b] = {}]
    /\ parent' = [parent EXCEPT ![b] = [id |-> 0, port |-> 0]]
    /\ silent' = [silent EXCEPT ![b] = 0]
    /\ inbox' = SentOn(inbox, b, Ports[b], [root |-> b, dist |-> 0, id |-> b, age |-> 0])
    /\ UNCHANGED <<dsg, task, clock, crashes>>

Crash(b) ==
    /\ b \in up \cap MayCrash /\ crashes < MaxCrashes
    /\ up' = up \ {b}
    /\ crashes' = crashes + 1
    /\ inbox' = [inbox EXCEPT ![b] = <<>>]
    /\ task' = [task EXCEPT ![b] = Idle]
    /\ clock' = [clock EXCEPT ![b] = "sleep"]
    /\ \E S \in SUBSET Ports[b] : dsg' = [dsg EXCEPT ![b] = S]
    /\ UNCHANGED <<rootID, dist, age, blocked, parent, silent>>

(***************************************************************************)
(* processFrame(), a hello.                                                *)
(***************************************************************************)

\* Slip: a better root is taken only if it is near, too.
BetterAndNearer(b, h) == h.root <= rootID[b] /\ h.dist + 1 < dist[b]

Better(b, h) == h.root < rootID[b] \/ (h.root = rootID[b] /\ h.dist + 1 < dist[b])

Equal(b, h) == h.root = rootID[b] /\ h.dist = dist[b]
Worse(b, h) == h.root > rootID[b] \/ (h.root = rootID[b] /\ h.dist + 1 > dist[b])

Verdict(b, h) ==
    CASE Better(b, h) -> "adopt"
      [] ~Better(b, h) /\ Equal(b, h) -> "fight"
      [] ~Better(b, h) /\ ~Equal(b, h) /\ Worse(b, h) -> "reply"
      [] OTHER -> "refresh"

\* A hello that is too old changes nothing, noHelloTimer included.
Receive(b) ==
    /\ b \in up /\ task[b] = Idle /\ inbox[b] # <<>>
    /\ LET h == Head(inbox[b])[2]
       IN task' = [task EXCEPT ![b] =
              IF h.age > MAX_AGE THEN Idle
              ELSE [at |-> Verdict(b, h), hello |-> h, port |-> Head(inbox[b])[1]]]
    /\ inbox' = [inbox EXCEPT ![b] = Tail(@)]
    /\ UNCHANGED <<up, tree, clock, crashes>>

At(b, where) == b \in up /\ task[b].at = where

\* The last statement of every hello: noHelloTimer = timer.
Heard(b) ==
    /\ silent' = [silent EXCEPT ![b] = 0]
    /\ task' = [task EXCEPT ![b] = Idle]

AdoptRoot(b) ==
    /\ At(b, "adopt")
    /\ rootID' = [rootID EXCEPT ![b] = task[b].hello.root]
    /\ task' = [task EXCEPT ![b].at = "distance"]
    /\ UNCHANGED <<up, dist, age, dsg, blocked, parent, silent, inbox, clock, crashes>>

\* Slip: the distance of the sender.
AdoptSameDistance(b) ==
    /\ At(b, "distance")
    /\ dist' = [dist EXCEPT ![b] = task[b].hello.dist]
    /\ age' = [age EXCEPT ![b] = task[b].hello.age]
    /\ parent' = [parent EXCEPT ![b] = [id |-> task[b].hello.id, port |-> task[b].port]]
    /\ dsg' = [dsg EXCEPT ![b] = @ \union {task[b].port}]
    /\ task' = [task EXCEPT ![b].at = "announce"]
    /\ UNCHANGED <<up, rootID, blocked, silent, inbox, clock, crashes>>

\* The interface of the old parent is blocked if the new one is another bridge.
\* The first time parent_index is -1: the store is outside of states[].
AdoptDistance(b) ==
    /\ At(b, "distance")
    /\ LET h == task[b].hello  p == task[b].port
       IN /\ dist' = [dist EXCEPT ![b] = h.dist + 1]
          /\ age' = [age EXCEPT ![b] = h.age]
          /\ blocked' = [blocked EXCEPT ![b] =
                 IF parent[b].id # h.id /\ parent[b].id # 0 THEN @ \union {parent[b].port} ELSE @]
          /\ parent' = [parent EXCEPT ![b] = [id |-> h.id, port |-> p]]
          /\ dsg' = [dsg EXCEPT ![b] = @ \union {p}]
    /\ task' = [task EXCEPT ![b].at = "announce"]
    /\ UNCHANGED <<up, rootID, silent, inbox, clock, crashes>>

Announce(b) ==
    /\ At(b, "announce")
    /\ inbox' = SentOn(inbox, b, Designated(b), MakeHello(b, age[b]))
    /\ Heard(b)
    /\ UNCHANGED <<up, rootID, dist, age, dsg, blocked, parent, clock, crashes>>

\* Two bridges at the same distance on a LAN: the one with the smaller
\* identifier forwards onto it.
Fight(b) ==
    /\ At(b, "fight")
    /\ LET S == IF task[b].hello.id < b THEN {task[b].port} ELSE {}
       IN /\ dsg' = [dsg EXCEPT ![b] = @ \union S]
          /\ blocked' = [blocked EXCEPT ![b] = @ \union S]
    /\ Heard(b)
    /\ UNCHANGED <<up, rootID, dist, age, parent, inbox, clock, crashes>>

\* Slip: only a designated interface is answered.
ReplyDesignated(b) ==
    /\ At(b, "reply")
    /\ inbox' = SentOn(inbox, b, {task[b].port} \cap Designated(b), MakeHello(b, age[b]))
    /\ Heard(b)
    /\ UNCHANGED <<up, rootID, dist, age, dsg, blocked, parent, clock, crashes>>

\* "notify": the sender is told of the better root.
Reply(b) ==
    /\ At(b, "reply")
    /\ inbox' = SentOn(inbox, b, {task[b].port}, MakeHello(b, age[b]))
    /\ Heard(b)
    /\ UNCHANGED <<up, rootID, dist, age, dsg, blocked, parent, clock, crashes>>

\* From the side of the root: the hello is passed on.
Refresh(b) ==
    /\ At(b, "refresh")
    /\ age' = [age EXCEPT ![b] = task[b].hello.age]
    /\ inbox' = SentOn(inbox, b, Designated(b), MakeHello(b, task[b].hello.age + 1))
    /\ Heard(b)
    /\ UNCHANGED <<up, rootID, dist, dsg, blocked, parent, clock, crashes>>

(***************************************************************************)
(* run().  A root says hello whenever HELLO_TIME has passed; who has heard *)
(* no hello for MAX_WAIT_FOR_HELLO makes itself the root.  dist is read    *)
(* here and rootID only when the hello is made.                            *)
(***************************************************************************)

Quiet == \A b \in up : inbox[b] = <<>> /\ task[b] = Idle /\ clock[b] = "sleep"

Tick ==
    /\ Quiet /\ up # {}
    /\ silent' = [b \in Bridge |->
           IF b \in up /\ silent[b] <= MAX_WAIT THEN silent[b] + 1 ELSE silent[b]]
    /\ clock' = [b \in Bridge |->
           CASE b \in up /\ dist[b] = 0 -> "hello"
             [] b \in up /\ dist[b] # 0 /\ silent'[b] > MAX_WAIT -> "claim"
             [] OTHER -> "sleep"]
    /\ UNCHANGED <<up, rootID, dist, age, dsg, blocked, parent, inbox, task, crashes>>

RootHello(b) ==
    /\ b \in up /\ clock[b] = "hello"
    /\ inbox' = SentOn(inbox, b, Ports[b], MakeHello(b, age[b]))
    /\ clock' = [clock EXCEPT ![b] = "sleep"]
    /\ UNCHANGED <<up, tree, task, crashes>>

\* dist keeps its value.
ClaimRoot(b) ==
    /\ b \in up /\ clock[b] = "claim"
    /\ rootID' = [rootID EXCEPT ![b] = b]
    /\ dsg' = [dsg EXCEPT ![b] = {}]
    /\ clock' = [clock EXCEPT ![b] = "claimed"]
    /\ UNCHANGED <<up, dist, age, blocked, parent, silent, inbox, task, crashes>>

ClaimHello(b) ==
    /\ b \in up /\ clock[b] = "claimed"
    /\ inbox' = SentOn(inbox, b, Ports[b], MakeHello(b, age[b]))
    /\ silent' = [silent EXCEPT ![b] = 0]
    /\ clock' = [clock EXCEPT ![b] = "sleep"]
    /\ UNCHANGED <<up, rootID, dist, age, dsg, blocked, parent, task, crashes>>

MainStep(b) ==
    \/ Receive(b) \/ AdoptRoot(b) \/ AdoptDistance(b) \/ Announce(b)
    \/ Fight(b) \/ Reply(b) \/ Refresh(b)

RunStep(b) == RootHello(b) \/ ClaimRoot(b) \/ ClaimHello(b)

BridgeInit ==
    /\ up = {} /\ crashes = 0
    /\ rootID = [b \in Bridge |-> b]
    /\ dist = [b \in Bridge |-> 0] /\ age = [b \in Bridge |-> 0]
    /\ dsg \in {f \in [Bridge -> SUBSET Lan] : \A b \in Bridge : f[b] \subseteq Ports[b]}
    /\ blocked = [b \in Bridge |-> {}]
    /\ parent = [b \in Bridge |-> [id |-> 0, port |-> 0]]
    /\ silent = [b \in Bridge |-> 0]
    /\ inbox = [b \in Bridge |-> <<>>]
    /\ task = [b \in Bridge |-> Idle]
    /\ clock = [b \in Bridge |-> "sleep"]

BridgeNext ==
    \/ \E b \in Bridge : Boot(b) \/ Crash(b) \/ MainStep(b) \/ RunStep(b)
    \/ Tick

BridgeSpec == BridgeInit /\ [][BridgeNext]_bridgeVars

\* The processor is given to each thread, time passes.
FairBridgeSpec ==
    /\ BridgeSpec
    /\ \A b \in Bridge : WF_bridgeVars(MainStep(b)) /\ WF_bridgeVars(RunStep(b))
    /\ WF_bridgeVars(Tick)

-----------------------------------------------------------------------------
(***************************************************************************)
(* The table of addresses, m: where a station was seen and when.  data     *)
(* frames do not touch the variables above, only read them.                *)
(***************************************************************************)

\* m.insert() keeps the entry that is there.
Learn(table, src, port, now) ==
    IF src \in DOMAIN table THEN table
    ELSE table @@ (src :> [port |-> port, time |-> now])

\* The interfaces that a frame for dst which came in on port goes out of.
OutOf(table, dst, port, ports, silenced) ==
    IF dst \notin DOMAIN table THEN ports \ (silenced \union {port})
    ELSE {table[dst].port} \ {port}

\* A data frame in processFrame(): the table after it, and where it goes.
DataFrame(table, src, dst, port, now, ports, silenced, backup) ==
    IF port \in backup THEN [table |-> table, out |-> {}]
    ELSE LET t == Learn(table, src, port, now)
         IN [table |-> t, out |-> OutOf(t, dst, port, ports, silenced)]

\* The ageing of run().  The iterator is used after erase() has freed what it
\* points to: the pass gets past the first expired entry, how much further is
\* up to the freed memory.  (max_stay is MAX_STAY.)
AgedTables(table, now, max_stay) ==
    LET expired == {s \in DOMAIN table : now - table[s].time > max_stay}
    IN {Restrict(table, DOMAIN table \ S) :
            S \in {S \in SUBSET expired : expired # {} => S # {}}}

-----------------------------------------------------------------------------
(***************************************************************************)
(* Properties.                                                             *)
(***************************************************************************)

\* Types; nobody believes in, or tells of, a root that is worse than itself;
\* and a bridge at distance 0, which run() takes for "bridge is current root",
\* is one, except between the two assignments of processFrame(): only there can
\* run() send a hello that names another root at distance 0.
BridgeSound ==
    /\ up \subseteq Bridge
    /\ rootID \in [Bridge -> Bridge] /\ dist \in [Bridge -> Nat] /\ age \in [Bridge -> Nat]
    /\ \A b \in Bridge :
        /\ dsg[b] \subseteq Ports[b] /\ blocked[b] \subseteq Ports[b]
        /\ rootID[b] <= b
        /\ b \in up /\ dist[b] = 0 /\ ~At(b, "distance") => rootID[b] = b
        /\ \A k \in 1..Len(inbox[b]) :
               LET h == inbox[b][k][2]
               IN h \in Hello /\ h.root <= h.id /\ inbox[b][k][1] \in Ports[b]

Neighbours(b) == {c \in up \ {b} : Ports[b] \cap Ports[c] # {}}

\* In the end whoever takes itself for the root by its distance is followed by
\* all bridges on its LANs: of two such bridges on one LAN the worse one gives
\* up, whatever dsg_interfaces held at the start, in whatever order the bridges
\* came up, and although the two threads of a bridge may tear an update.
RootIsFollowed ==
    <>[](\A b \in up : dist[b] = 0 => \A c \in Neighbours(b) : rootID[c] = b)

\* A bridge that makes itself the root while a neighbour knows a better one is
\* put right: hellos go out and are answered on every interface, designated or
\* not, which is what finds a bridge that the refreshing hellos pass by.
ClaimIsAnswered ==
    \A b \in Bridge :
        []<>~(b \in up /\ rootID[b] = b /\ \E c \in Neighbours(b) : rootID[c] < b)
=============================================================================
