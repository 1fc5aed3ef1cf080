--------------------------- MODULE NetworkProofs ---------------------------
(***************************************************************************)
(* Theorems about the programs for the network simulator, Bridge and       *)
(* MobileIp: for any bridges, LANs and crashes; for any access points,     *)
(* nodes, pools and moves.                                                 *)
(***************************************************************************)
EXTENDS Bridge, MobileIp, FiniteSetTheorems, FunctionTheorems, SequenceTheorems,
        WellFoundedInduction, TLAPS

-----------------------------------------------------------------------------
(* Numbers and sequences *)

LEMMA Least ==
  ASSUME NEW S, S \subseteq Nat, S # {}
  PROVE  \E m \in S : \A n \in S : m <= n
  <1>1. PICK m \in S : \A n \in S : ~(<<n, m>> \in OpToRel(<, Nat))
    BY WFMin, NatLessThanWellFounded
  <1>2. \A n \in S : ~(n < m)
    BY <1>1 DEF OpToRel
  <1> QED BY <1>2

LEMMA Greatest ==
  ASSUME NEW S, NEW bound \in Nat, S \subseteq 0..bound, S # {}
  PROVE  Max(S) \in S /\ \A n \in S : n <= Max(S)
  <1> DEFINE T == {n \in Nat : bound - n \in S}
  <1>1. PICK x \in S : x \in 0..bound
    OBVIOUS
  <1>2. bound - x \in Nat /\ bound - (bound - x) = x
    BY <1>1
  <1>3. T \subseteq Nat /\ T # {}
    BY <1>1, <1>2
  <1>4. PICK m \in T : \A n \in T : m <= n
    BY <1>3, Least
  <1>5. ASSUME NEW n \in S PROVE n <= bound - m
    <2>1. n \in 0..bound /\ bound - n \in Nat /\ bound - (bound - n) = n
      OBVIOUS
    <2>2. bound - n \in T
      BY <2>1
    <2> QED BY <1>4, <2>1, <2>2
  <1>6. \E y \in S : \A n \in S : y >= n
    BY <1>4, <1>5
  <1> QED BY <1>6 DEF Max

LEMMA TakenFrom ==
  ASSUME NEW S, NEW seq \in Seq(S), seq # <<>>
  PROVE  Head(seq) \in S /\ Tail(seq) \in Seq(S)
  BY HeadTailProperties

LEMMA AddedTo ==
  ASSUME NEW S, NEW seq \in Seq(S), NEW x \in S
  PROVE  Append(seq, x) \in Seq(S)
  BY AppendProperties

-----------------------------------------------------------------------------
(* The bridges: the inductive invariant *)

\* A hello as bridges make it, and the frames that b may have.
TrueHello == {h \in Hello : h.root <= h.id}
FrameFor(b) == Ports[b] \X TrueHello

TaskLabel == {"adopt", "distance", "announce", "fight", "reply", "refresh"}
TaskOf(b) == {Idle} \union
    {t \in [at : TaskLabel, hello : TrueHello, port : Ports[b]] :
        t.at \in {"adopt", "distance"} => t.hello.root <= b}

BridgeTypes ==
    /\ up \subseteq Bridge
    /\ rootID \in [Bridge -> Bridge] /\ dist \in [Bridge -> Nat] /\ age \in [Bridge -> Nat]
    /\ dsg \in [Bridge -> SUBSET Lan] /\ blocked \in [Bridge -> SUBSET Lan]
    /\ parent \in [Bridge -> [id : Nat, port : Nat]]
BridgeShapes ==
    inbox = [b \in Bridge |-> inbox[b]] /\ task = [b \in Bridge |-> task[b]]

(***************************************************************************)
(* Why BridgeSound is kept: a root that a bridge is about to take is no    *)
(* worse than itself, although its own may change between the verdict and  *)
(* the assignment; once it has taken it, its distance is not 0.  What is   *)
(* in its boxes, or comes out of them, came in on its own interfaces.      *)
(***************************************************************************)
PortsRight(b) ==
    /\ dsg[b] \subseteq Ports[b] /\ blocked[b] \subseteq Ports[b]
    /\ parent[b].id # 0 => parent[b].port \in Ports[b]
RootRight(b) ==
    /\ rootID[b] <= b
    /\ b \in up /\ dist[b] = 0 /\ ~At(b, "distance") => rootID[b] = b
BridgeOK(b) ==
    /\ PortsRight(b) /\ RootRight(b)
    /\ inbox[b] \in Seq(FrameFor(b))
    /\ task[b] \in TaskOf(b)

BridgeInv == BridgeTypes /\ BridgeShapes /\ \A b \in Bridge : BridgeOK(b)

\* sendFrame() finds an order of the interfaces: a set of numbers without one would
\* have a least element, and the rest of it none either.
LEMMA Ordered ==
  ASSUME NEW S \in SUBSET Lan
  PROVE  Cardinality(S) \in Nat /\ InOrder(S) \in [1..Cardinality(S) -> S]
  <1> DEFINE Ascending(X, seq) ==
               \A i, j \in 1..Cardinality(X) : i < j => seq[i] < seq[j]
             Bad == {n \in Nat : \E X \in SUBSET Lan :
               Cardinality(X) = n /\ ~(\E seq \in [1..Cardinality(X) -> X] : Ascending(X, seq))}
  <1>1. \A X \in SUBSET Lan : IsFiniteSet(X) /\ Cardinality(X) \in Nat /\ X \subseteq Nat
    BY BridgeAssumption, FS_Subset, FS_CardinalityType
  <1>2. ASSUME Bad # {} PROVE FALSE
    <2>1. PICK n \in Bad : \A k \in Bad : n <= k
      BY <1>2, Least
    <2>2. PICK X \in SUBSET Lan : /\ Cardinality(X) = n
                                  /\ ~(\E seq \in [1..Cardinality(X) -> X] : Ascending(X, seq))
      OBVIOUS
    <2>3. ASSUME X = {} PROVE FALSE
      <3>1. Cardinality(X) = 0
        BY <2>3, FS_EmptySet
      <3>2. 1..Cardinality(X) = {}
        BY <3>1
      <3>3. [i \in {} |-> 0] \in [1..Cardinality(X) -> X] /\ Ascending(X, [i \in {} |-> 0])
        BY <3>2
      <3> QED BY <2>2, <3>3
    <2>4. PICK m \in X : \A y \in X : m <= y
      BY <1>1, <2>3, Least
    <2> DEFINE Y == X \ {m}
    <2>5. n \in Nat /\ Y \in SUBSET Lan /\ Cardinality(Y) = n - 1 /\ n - 1 \in Nat
      <3>1. IsFiniteSet(X) /\ n \in Nat /\ Y \in SUBSET Lan
        BY <1>1, <2>2
      <3>2. Cardinality(Y) = n - 1
        BY <2>2, <3>1, FS_RemoveElement
      <3>3. Cardinality(Y) \in Nat
        <4> HIDE DEF Y
        <4> QED BY <1>1, <3>1
      <3> HIDE DEF Y
      <3> QED BY <3>1, <3>2, <3>3
    <2>6. PICK seq \in [1..(n - 1) -> Y] : \A i, j \in 1..(n - 1) : i < j => seq[i] < seq[j]
      <3>1. n - 1 \notin Bad
        <4> HIDE DEF Bad
        <4> QED BY <2>1, <2>5
      <3> QED BY <2>5, <3>1
    <2> HIDE DEF Bad
    <2> DEFINE whole == [i \in 1..n |-> IF i = 1 THEN m ELSE seq[i - 1]]
    <2>7. whole \in [1..n -> X]
      <3>1. ASSUME NEW i \in 1..n PROVE (IF i = 1 THEN m ELSE seq[i - 1]) \in X
        BY <2>5, i # 1 => i - 1 \in 1..(n - 1)
      <3> QED BY <3>1
    <2>8. ASSUME NEW i \in 1..n, NEW j \in 1..n, i < j PROVE whole[i] < whole[j]
      <3>1. j # 1 /\ j - 1 \in 1..(n - 1)
        BY <2>5, <2>8
      <3>2. whole[j] = seq[j - 1] /\ seq[j - 1] \in Y
        BY <3>1
      <3>3. CASE i = 1
        <4>1. m \in Nat /\ seq[j - 1] \in Nat /\ m <= seq[j - 1] /\ m # seq[j - 1]
          BY <1>1, <2>4, <3>2
        <4>2. whole[i] = m
          BY <3>3
        <4> QED BY <3>2, <4>1, <4>2
      <3>4. CASE i # 1
        <4>1. i - 1 \in 1..(n - 1) /\ i - 1 < j - 1
          BY <2>5, <2>8, <3>4
        <4>2. whole[i] = seq[i - 1]
          BY <3>4
        <4> QED BY <2>6, <3>1, <3>2, <4>1, <4>2
      <3> QED BY <3>3, <3>4
    <2> QED BY <2>2, <2>7, <2>8
  <1>3. \E seq \in [1..Cardinality(S) -> S] : Ascending(S, seq)
    BY <1>1, <1>2
  <1> QED BY <1>1, <1>3 DEF InOrder

\* What is sent ends up in the boxes of those it is for.
LEMMA SentTyped ==
  ASSUME NEW boxes, \A c \in Bridge : boxes[c] \in Seq(FrameFor(c)),
         NEW b \in Bridge, NEW S \in SUBSET Lan, NEW hello \in TrueHello,
         NEW c \in Bridge
  PROVE  SentOn(boxes, b, S, hello)[c] \in Seq(FrameFor(c))
  <1>1. CASE c = b \/ c \notin up
    BY <1>1 DEF SentOn
  <1>2. CASE ~(c = b \/ c \notin up)
    <2> DEFINE T == S \cap Ports[c]
               new == [k \in 1..Cardinality(T) |-> <<InOrder(T)[k], hello>>]
    <2>1. Cardinality(T) \in Nat /\ InOrder(T) \in [1..Cardinality(T) -> T]
      BY Ordered
    <2>2. new \in [1..Cardinality(T) -> FrameFor(c)]
      BY <2>1 DEF FrameFor
    <2>3. new \in Seq(FrameFor(c))
      <3>1. \A k \in 1..Cardinality(T) : <<InOrder(T)[k], hello>> \in FrameFor(c)
        BY <2>1 DEF FrameFor
      <3> HIDE DEF T
      <3> QED BY <2>1, <3>1
    <2>4. boxes[c] \o new \in Seq(FrameFor(c))
      BY <2>3, ConcatProperties
    <2> QED BY <1>2, <2>4 DEF SentOn
  <1> QED BY <1>1, <1>2

LEMMA SentShape ==
  ASSUME NEW boxes, NEW b, NEW S, NEW hello
  PROVE  SentOn(boxes, b, S, hello) = [c \in Bridge |-> SentOn(boxes, b, S, hello)[c]]
  BY DEF SentOn

LEMMA HelloMade ==
  ASSUME BridgeInv, NEW b \in Bridge, NEW a \in Nat
  PROVE  MakeHello(b, a) \in TrueHello
  BY DEF BridgeInv, BridgeTypes, BridgeOK, RootRight, MakeHello, TrueHello, Hello

\* What the main thread works on.
LEMMA TaskAtHand ==
  ASSUME BridgeInv, NEW b \in Bridge, NEW where \in TaskLabel, At(b, where)
  PROVE  /\ task[b] \in [at : TaskLabel, hello : TrueHello, port : Ports[b]]
         /\ task[b].hello \in TrueHello /\ task[b].port \in Ports[b] /\ task[b].port \in Lan
         /\ where \in {"adopt", "distance"} => task[b].hello.root <= b
  <1>1. task[b] # Idle
    BY DEF At, Idle, TaskLabel
  <1>2. task[b] \in TaskOf(b)
    BY DEF BridgeInv, BridgeOK
  <1> QED BY <1>1, <1>2, BridgeAssumption DEF At, TaskOf

\* A step of one bridge: the others keep all but what they are sent.
LEMMA OneBridgeSteps ==
  ASSUME BridgeInv, NEW b \in Bridge, BridgeTypes', BridgeShapes',
         PortsRight(b)', RootRight(b)', task'[b] \in TaskOf(b),
         \A c \in Bridge : inbox'[c] \in Seq(FrameFor(c)),
         \A c \in Bridge \ {b} :
             /\ rootID'[c] = rootID[c] /\ dist'[c] = dist[c] /\ dsg'[c] = dsg[c]
             /\ blocked'[c] = blocked[c] /\ parent'[c] = parent[c] /\ task'[c] = task[c]
             /\ c \in up' => c \in up
  PROVE  BridgeInv'
  <1>1. ASSUME NEW c \in Bridge \ {b} PROVE PortsRight(c)' /\ RootRight(c)'
    BY <1>1 DEF BridgeInv, BridgeOK, PortsRight, RootRight, At
  <1>2. ASSUME NEW c \in Bridge PROVE BridgeOK(c)'
    BY <1>1 DEF BridgeInv, BridgeOK
  <1> QED BY <1>2 DEF BridgeInv

\* One lemma for each step of a bridge.
LEMMA BootKept ==
  ASSUME BridgeInv, NEW b \in Bridge, Boot(b)
  PROVE  BridgeInv'
  <1>1. Ports[b] \in SUBSET Lan /\ [root |-> b, dist |-> 0, id |-> b, age |-> 0] \in TrueHello
    BY BridgeAssumption DEF TrueHello, Hello
  <1>2. BridgeTypes'
    BY DEF BridgeInv, BridgeTypes, Boot
  <1>3. BridgeShapes'
    BY DEF BridgeInv, BridgeShapes, Boot, SentOn
  <1>4. PortsRight(b)'
    BY DEF BridgeInv, BridgeTypes, BridgeOK, PortsRight, Boot
  <1>5. RootRight(b)'
    BY BridgeAssumption
       DEF BridgeInv, BridgeTypes, BridgeShapes, BridgeOK, RootRight, At, Boot
  <1>6. task'[b] \in TaskOf(b)
    BY DEF BridgeInv, BridgeShapes, BridgeOK, TaskOf, Boot
  <1>7. ASSUME NEW c \in Bridge PROVE inbox'[c] \in Seq(FrameFor(c))
    BY <1>1, SentTyped DEF BridgeInv, BridgeOK, Boot
  <1> QED BY <1>2, <1>3, <1>4, <1>5, <1>6, <1>7, OneBridgeSteps
          DEF BridgeInv, BridgeTypes, BridgeShapes, Boot

LEMMA CrashKept ==
  ASSUME BridgeInv, NEW b \in Bridge, Crash(b)
  PROVE  BridgeInv'
  <1>1. PICK S \in SUBSET Ports[b] : dsg' = [dsg EXCEPT ![b] = S]
    BY DEF Crash
  <1>2. S \in SUBSET Lan
    BY BridgeAssumption
  <1>3. BridgeTypes'
    BY <1>1, <1>2 DEF BridgeInv, BridgeTypes, Crash, Idle
  <1>4. BridgeShapes'
    BY DEF BridgeInv, BridgeShapes, Crash, Idle
  <1>5. PortsRight(b)'
    BY DEF BridgeInv, BridgeTypes, BridgeOK, PortsRight, Crash, Idle
  <1>6. RootRight(b)'
    BY DEF BridgeInv, BridgeTypes, BridgeShapes, BridgeOK, RootRight, At, Crash, Idle
  <1>7. task'[b] \in TaskOf(b)
    BY DEF BridgeInv, BridgeShapes, BridgeOK, TaskOf, Crash, Idle
  <1>8. ASSUME NEW c \in Bridge PROVE inbox'[c] \in Seq(FrameFor(c))
    BY EmptySeq DEF BridgeInv, BridgeShapes, BridgeOK, Crash
  <1> QED BY <1>3, <1>4, <1>5, <1>6, <1>7, <1>8, OneBridgeSteps
          DEF BridgeInv, BridgeTypes, BridgeShapes, Crash, Idle

LEMMA ReceiveKept ==
  ASSUME BridgeInv, NEW b \in Bridge, Receive(b)
  PROVE  BridgeInv'
  <1> DEFINE port == Head(inbox[b])[1]
             hello == Head(inbox[b])[2]
  <1>1. port \in Ports[b] /\ hello \in TrueHello /\ Tail(inbox[b]) \in Seq(FrameFor(b))
    <2>1. inbox[b] \in Seq(FrameFor(b)) /\ inbox[b] # <<>>
      BY DEF BridgeInv, BridgeOK, Receive
    <2>2. Head(inbox[b]) \in FrameFor(b) /\ Tail(inbox[b]) \in Seq(FrameFor(b))
      BY <2>1, TakenFrom
    <2> QED BY <2>2 DEF FrameFor
  <1>2. /\ Verdict(b, hello) \in TaskLabel /\ Verdict(b, hello) # "distance"
        /\ Verdict(b, hello) = "adopt" => hello.root <= b
    <2>1. hello.root \in Nat /\ rootID[b] \in Nat /\ rootID[b] <= b /\ b \in Nat
      BY <1>1, BridgeAssumption
         DEF BridgeInv, BridgeTypes, BridgeOK, RootRight, TrueHello, Hello
    <2>2. Better(b, hello) => hello.root <= b
      BY <2>1 DEF Better
    <2> QED BY <2>2 DEF Verdict, TaskLabel
  <1>3. /\ task[b] = Idle
        /\ \/ task'[b] = Idle
           \/ task'[b] = [at |-> Verdict(b, hello), hello |-> hello, port |-> port]
    BY DEF BridgeInv, BridgeShapes, Receive
  <1>4. BridgeTypes'
    BY DEF BridgeInv, BridgeTypes, Receive, tree
  <1>5. BridgeShapes'
    BY DEF BridgeInv, BridgeShapes, Receive, tree
  <1>6. PortsRight(b)'
    BY DEF BridgeInv, BridgeTypes, BridgeOK, PortsRight, Receive, tree
  <1>7. RootRight(b)'
    BY <1>2, <1>3
       DEF BridgeInv, BridgeTypes, BridgeShapes, BridgeOK, RootRight, At, Receive, tree, Idle
  <1>8. task'[b] \in TaskOf(b)
    BY <1>1, <1>2, <1>3 DEF TaskOf
  <1>9. ASSUME NEW c \in Bridge PROVE inbox'[c] \in Seq(FrameFor(c))
    BY <1>1 DEF BridgeInv, BridgeShapes, BridgeOK, Receive
  <1> QED BY <1>4, <1>5, <1>6, <1>7, <1>8, <1>9, OneBridgeSteps
          DEF BridgeInv, BridgeTypes, BridgeShapes, Receive, tree

LEMMA AdoptRootKept ==
  ASSUME BridgeInv, NEW b \in Bridge, AdoptRoot(b)
  PROVE  BridgeInv'
  <1>1. /\ task[b] \in [at : TaskLabel, hello : TrueHello, port : Ports[b]]
        /\ task[b].hello \in TrueHello /\ task[b].port \in Ports[b] /\ task[b].port \in Lan
        /\ "adopt" \in {"adopt", "distance"} => task[b].hello.root <= b
    BY TaskAtHand DEF AdoptRoot, TaskLabel
  <1>2. BridgeTypes'
    BY <1>1 DEF BridgeInv, BridgeTypes, AdoptRoot, TrueHello, Hello
  <1>3. BridgeShapes'
    BY DEF BridgeInv, BridgeShapes, AdoptRoot
  <1>4. PortsRight(b)'
    BY DEF BridgeInv, BridgeTypes, BridgeOK, PortsRight, AdoptRoot
  <1>5. RootRight(b)'
    BY <1>1
       DEF BridgeInv, BridgeTypes, BridgeShapes, BridgeOK, RootRight, At, AdoptRoot, TrueHello, Hello
  <1>6. task'[b] \in TaskOf(b)
    BY <1>1 DEF BridgeInv, BridgeShapes, AdoptRoot, TaskOf, TaskLabel
  <1>7. ASSUME NEW c \in Bridge PROVE inbox'[c] \in Seq(FrameFor(c))
    BY DEF BridgeInv, BridgeShapes, BridgeOK, AdoptRoot
  <1> QED BY <1>2, <1>3, <1>4, <1>5, <1>6, <1>7, OneBridgeSteps
          DEF BridgeInv, BridgeTypes, BridgeShapes, AdoptRoot

LEMMA AdoptDistanceKept ==
  ASSUME BridgeInv, NEW b \in Bridge, AdoptDistance(b)
  PROVE  BridgeInv'
  <1>1. /\ task[b] \in [at : TaskLabel, hello : TrueHello, port : Ports[b]]
        /\ task[b].hello \in TrueHello /\ task[b].port \in Ports[b] /\ task[b].port \in Lan
        /\ "distance" \in {"adopt", "distance"} => task[b].hello.root <= b
    BY TaskAtHand DEF AdoptDistance, TaskLabel
  <1>2. /\ task[b].hello.dist + 1 \in Nat \ {0} /\ task[b].hello.age \in Nat
        /\ [id |-> task[b].hello.id, port |-> task[b].port] \in [id : Nat, port : Nat]
    <2>1. task[b].hello.id \in Nat /\ task[b].port \in Nat
      BY <1>1, BridgeAssumption DEF TrueHello, Hello
    <2>2. task[b].hello.dist \in Nat /\ task[b].hello.age \in Nat
      BY <1>1 DEF TrueHello, Hello
    <2> QED BY <2>1, <2>2
  <1>3. parent[b].id # 0 => parent[b].port \in Ports[b] /\ parent[b].port \in Lan
    BY BridgeAssumption DEF BridgeInv, BridgeOK, PortsRight
  <1>4. BridgeTypes'
    BY <1>1, <1>2, <1>3 DEF BridgeInv, BridgeTypes, AdoptDistance
  <1>5. BridgeShapes'
    BY DEF BridgeInv, BridgeShapes, AdoptDistance
  <1>6. PortsRight(b)'
    BY <1>1, <1>3 DEF BridgeInv, BridgeTypes, BridgeOK, PortsRight, AdoptDistance
  <1>7. RootRight(b)'
    <2>1. rootID'[b] = rootID[b] /\ dist'[b] = task[b].hello.dist + 1
      BY DEF BridgeInv, BridgeTypes, AdoptDistance
    <2>2. dist'[b] # 0
      BY <1>2, <2>1
    <2>3. rootID[b] <= b
      BY DEF BridgeInv, BridgeOK, RootRight
    <2> QED BY <2>1, <2>2, <2>3 DEF RootRight
  <1>8. task'[b] \in TaskOf(b)
    BY <1>1 DEF BridgeInv, BridgeShapes, AdoptDistance, TaskOf, TaskLabel
  <1>9. ASSUME NEW c \in Bridge PROVE inbox'[c] \in Seq(FrameFor(c))
    BY DEF BridgeInv, BridgeShapes, BridgeOK, AdoptDistance
  <1> QED BY <1>4, <1>5, <1>6, <1>7, <1>8, <1>9, OneBridgeSteps
          DEF BridgeInv, BridgeTypes, BridgeShapes, AdoptDistance

LEMMA AnnounceKept ==
  ASSUME BridgeInv, NEW b \in Bridge, Announce(b)
  PROVE  BridgeInv'
  <1>1. Designated(b) \in SUBSET Lan /\ MakeHello(b, age[b]) \in TrueHello
    BY BridgeAssumption, HelloMade DEF BridgeInv, BridgeTypes, Designated
  <1>2. BridgeTypes'
    BY DEF BridgeInv, BridgeTypes, Announce, Heard, Idle
  <1>3. BridgeShapes'
    BY DEF BridgeInv, BridgeShapes, Announce, Heard, Idle, SentOn
  <1>4. PortsRight(b)'
    BY DEF BridgeInv, BridgeTypes, BridgeOK, PortsRight, Announce, Heard, Idle
  <1>5. RootRight(b)'
    BY
       DEF BridgeInv, BridgeTypes, BridgeShapes, BridgeOK, RootRight, At, Announce, Heard, Idle
  <1>6. task'[b] \in TaskOf(b)
    BY DEF BridgeInv, BridgeShapes, BridgeOK, TaskOf, Announce, Heard, Idle
  <1>7. ASSUME NEW c \in Bridge PROVE inbox'[c] \in Seq(FrameFor(c))
    BY <1>1, SentTyped DEF BridgeInv, BridgeOK, Announce, Heard, Idle
  <1> QED BY <1>2, <1>3, <1>4, <1>5, <1>6, <1>7, OneBridgeSteps
          DEF BridgeInv, BridgeTypes, BridgeShapes, Announce, Heard, Idle

LEMMA FightKept ==
  ASSUME BridgeInv, NEW b \in Bridge, Fight(b)
  PROVE  BridgeInv'
  <1>1. /\ task[b] \in [at : TaskLabel, hello : TrueHello, port : Ports[b]]
        /\ task[b].hello \in TrueHello /\ task[b].port \in Ports[b] /\ task[b].port \in Lan
        /\ "fight" \in {"adopt", "distance"} => task[b].hello.root <= b
    BY TaskAtHand DEF Fight, TaskLabel
  <1>2. BridgeTypes'
    BY <1>1 DEF BridgeInv, BridgeTypes, Fight, Heard, Idle
  <1>3. BridgeShapes'
    BY DEF BridgeInv, BridgeShapes, Fight, Heard, Idle
  <1>4. PortsRight(b)'
    BY <1>1 DEF BridgeInv, BridgeTypes, BridgeOK, PortsRight, Fight, Heard, Idle
  <1>5. RootRight(b)'
    BY DEF BridgeInv, BridgeTypes, BridgeShapes, BridgeOK, RootRight, At, Fight, Heard, Idle
  <1>6. task'[b] \in TaskOf(b)
    BY DEF BridgeInv, BridgeShapes, BridgeOK, TaskOf, Fight, Heard, Idle
  <1>7. ASSUME NEW c \in Bridge PROVE inbox'[c] \in Seq(FrameFor(c))
    BY DEF BridgeInv, BridgeShapes, BridgeOK, Fight, Heard, Idle
  <1> QED BY <1>2, <1>3, <1>4, <1>5, <1>6, <1>7, OneBridgeSteps
          DEF BridgeInv, BridgeTypes, BridgeShapes, Fight, Heard, Idle

LEMMA ReplyKept ==
  ASSUME BridgeInv, NEW b \in Bridge, Reply(b)
  PROVE  BridgeInv'
  <1>1. /\ task[b] \in [at : TaskLabel, hello : TrueHello, port : Ports[b]]
        /\ task[b].hello \in TrueHello /\ task[b].port \in Ports[b] /\ task[b].port \in Lan
        /\ "reply" \in {"adopt", "distance"} => task[b].hello.root <= b
    BY TaskAtHand DEF Reply, TaskLabel
  <1>2. {task[b].port} \in SUBSET Lan /\ MakeHello(b, age[b]) \in TrueHello
    BY <1>1, HelloMade DEF BridgeInv, BridgeTypes
  <1>3. BridgeTypes'
    BY DEF BridgeInv, BridgeTypes, Reply, Heard, Idle
  <1>4. BridgeShapes'
    BY DEF BridgeInv, BridgeShapes, Reply, Heard, Idle, SentOn
  <1>5. PortsRight(b)'
    BY DEF BridgeInv, BridgeTypes, BridgeOK, PortsRight, Reply, Heard, Idle
  <1>6. RootRight(b)'
    BY DEF BridgeInv, BridgeTypes, BridgeShapes, BridgeOK, RootRight, At, Reply, Heard, Idle
  <1>7. task'[b] \in TaskOf(b)
    BY DEF BridgeInv, BridgeShapes, BridgeOK, TaskOf, Reply, Heard, Idle
  <1>8. ASSUME NEW c \in Bridge PROVE inbox'[c] \in Seq(FrameFor(c))
    BY <1>2, SentTyped DEF BridgeInv, BridgeOK, Reply, Heard, Idle
  <1> QED BY <1>3, <1>4, <1>5, <1>6, <1>7, <1>8, OneBridgeSteps
          DEF BridgeInv, BridgeTypes, BridgeShapes, Reply, Heard, Idle

LEMMA RefreshKept ==
  ASSUME BridgeInv, NEW b \in Bridge, Refresh(b)
  PROVE  BridgeInv'
  <1>1. /\ task[b] \in [at : TaskLabel, hello : TrueHello, port : Ports[b]]
        /\ task[b].hello \in TrueHello /\ task[b].port \in Ports[b] /\ task[b].port \in Lan
        /\ "refresh" \in {"adopt", "distance"} => task[b].hello.root <= b
    BY TaskAtHand DEF Refresh, TaskLabel
  <1>2. Designated(b) \in SUBSET Lan /\ MakeHello(b, task[b].hello.age + 1) \in TrueHello
    <2>1. task[b].hello.age + 1 \in Nat
      BY <1>1 DEF TrueHello, Hello
    <2> QED BY <2>1, BridgeAssumption, HelloMade DEF Designated
  <1>3. BridgeTypes'
    BY <1>1 DEF BridgeInv, BridgeTypes, Refresh, Heard, Idle, TrueHello, Hello
  <1>4. BridgeShapes'
    BY DEF BridgeInv, BridgeShapes, Refresh, Heard, Idle, SentOn
  <1>5. PortsRight(b)'
    BY DEF BridgeInv, BridgeTypes, BridgeOK, PortsRight, Refresh, Heard, Idle
  <1>6. RootRight(b)'
    BY
       DEF BridgeInv, BridgeTypes, BridgeShapes, BridgeOK, RootRight, At, Refresh, Heard, Idle
  <1>7. task'[b] \in TaskOf(b)
    BY DEF BridgeInv, BridgeShapes, BridgeOK, TaskOf, Refresh, Heard, Idle
  <1>8. ASSUME NEW c \in Bridge PROVE inbox'[c] \in Seq(FrameFor(c))
    BY <1>2, SentTyped DEF BridgeInv, BridgeOK, Refresh, Heard, Idle
  <1> QED BY <1>3, <1>4, <1>5, <1>6, <1>7, <1>8, OneBridgeSteps
          DEF BridgeInv, BridgeTypes, BridgeShapes, Refresh, Heard, Idle

LEMMA RootHelloKept ==
  ASSUME BridgeInv, NEW b \in Bridge, RootHello(b)
  PROVE  BridgeInv'
  <1>1. Ports[b] \in SUBSET Lan /\ MakeHello(b, age[b]) \in TrueHello
    BY BridgeAssumption, HelloMade DEF BridgeInv, BridgeTypes
  <1>2. BridgeTypes'
    BY DEF BridgeInv, BridgeTypes, RootHello, tree
  <1>3. BridgeShapes'
    BY DEF BridgeInv, BridgeShapes, RootHello, tree, SentOn
  <1>4. PortsRight(b)'
    BY DEF BridgeInv, BridgeTypes, BridgeOK, PortsRight, RootHello, tree
  <1>5. RootRight(b)'
    BY DEF BridgeInv, BridgeTypes, BridgeShapes, BridgeOK, RootRight, At, RootHello, tree
  <1>6. task'[b] \in TaskOf(b)
    BY DEF BridgeInv, BridgeShapes, BridgeOK, TaskOf, RootHello, tree
  <1>7. ASSUME NEW c \in Bridge PROVE inbox'[c] \in Seq(FrameFor(c))
    BY <1>1, SentTyped DEF BridgeInv, BridgeOK, RootHello, tree
  <1> QED BY <1>2, <1>3, <1>4, <1>5, <1>6, <1>7, OneBridgeSteps
          DEF BridgeInv, BridgeTypes, BridgeShapes, RootHello, tree

LEMMA ClaimRootKept ==
  ASSUME BridgeInv, NEW b \in Bridge, ClaimRoot(b)
  PROVE  BridgeInv'
  <1>1. BridgeTypes'
    BY BridgeAssumption DEF BridgeInv, BridgeTypes, ClaimRoot
  <1>2. BridgeShapes'
    BY DEF BridgeInv, BridgeShapes, ClaimRoot
  <1>3. PortsRight(b)'
    BY DEF BridgeInv, BridgeTypes, BridgeOK, PortsRight, ClaimRoot
  <1>4. RootRight(b)'
    BY BridgeAssumption
       DEF BridgeInv, BridgeTypes, BridgeShapes, BridgeOK, RootRight, At, ClaimRoot
  <1>5. task'[b] \in TaskOf(b)
    BY DEF BridgeInv, BridgeShapes, BridgeOK, TaskOf, ClaimRoot
  <1>6. ASSUME NEW c \in Bridge PROVE inbox'[c] \in Seq(FrameFor(c))
    BY DEF BridgeInv, BridgeShapes, BridgeOK, ClaimRoot
  <1> QED BY <1>1, <1>2, <1>3, <1>4, <1>5, <1>6, OneBridgeSteps
          DEF BridgeInv, BridgeTypes, BridgeShapes, ClaimRoot

LEMMA ClaimHelloKept ==
  ASSUME BridgeInv, NEW b \in Bridge, ClaimHello(b)
  PROVE  BridgeInv'
  <1>1. Ports[b] \in SUBSET Lan /\ MakeHello(b, age[b]) \in TrueHello
    BY BridgeAssumption, HelloMade DEF BridgeInv, BridgeTypes
  <1>2. BridgeTypes'
    BY DEF BridgeInv, BridgeTypes, ClaimHello
  <1>3. BridgeShapes'
    BY DEF BridgeInv, BridgeShapes, ClaimHello, SentOn
  <1>4. PortsRight(b)'
    BY DEF BridgeInv, BridgeTypes, BridgeOK, PortsRight, ClaimHello
  <1>5. RootRight(b)'
    BY DEF BridgeInv, BridgeTypes, BridgeShapes, BridgeOK, RootRight, At, ClaimHello
  <1>6. task'[b] \in TaskOf(b)
    BY DEF BridgeInv, BridgeShapes, BridgeOK, TaskOf, ClaimHello
  <1>7. ASSUME NEW c \in Bridge PROVE inbox'[c] \in Seq(FrameFor(c))
    BY <1>1, SentTyped DEF BridgeInv, BridgeOK, ClaimHello
  <1> QED BY <1>2, <1>3, <1>4, <1>5, <1>6, <1>7, OneBridgeSteps
          DEF BridgeInv, BridgeTypes, BridgeShapes, ClaimHello

\* Time and stuttering touch nothing of the invariant.
LEMMA TickKept ==
  ASSUME BridgeInv, Tick
  PROVE  BridgeInv'
  BY DEF BridgeInv, BridgeTypes, BridgeShapes, BridgeOK, PortsRight, RootRight, Tick, At

LEMMA BridgeStutters ==
  ASSUME BridgeInv, UNCHANGED bridgeVars
  PROVE  BridgeInv'
  BY
     DEF BridgeInv, BridgeTypes, BridgeShapes, BridgeOK, PortsRight, RootRight, bridgeVars, tree, At

LEMMA BridgeBegins ==
  ASSUME BridgeInit
  PROVE  BridgeInv
  <1>1. BridgeTypes /\ BridgeShapes
    BY BridgeAssumption DEF BridgeInit, BridgeTypes, BridgeShapes
  <1>2. ASSUME NEW b \in Bridge PROVE BridgeOK(b)
    <2>1. PortsRight(b) /\ RootRight(b)
      BY BridgeAssumption DEF BridgeInit, PortsRight, RootRight
    <2> QED BY <2>1, EmptySeq DEF BridgeInit, BridgeOK, TaskOf
  <1> QED BY <1>1, <1>2 DEF BridgeInv

LEMMA BridgeSteps ==
  ASSUME BridgeInv, [BridgeNext]_bridgeVars
  PROVE  BridgeInv'
  <1>1. CASE UNCHANGED bridgeVars
    BY <1>1, BridgeStutters
  <1>2. CASE Tick
    BY <1>2, TickKept
  <1>3. ASSUME NEW b \in Bridge, Boot(b) \/ Crash(b) \/ MainStep(b) \/ RunStep(b)
        PROVE BridgeInv'
    BY <1>3, BootKept, CrashKept, ReceiveKept, AdoptRootKept, AdoptDistanceKept, AnnounceKept,
       FightKept, ReplyKept, RefreshKept, RootHelloKept, ClaimRootKept, ClaimHelloKept
       DEF MainStep, RunStep
  <1> QED BY <1>1, <1>2, <1>3 DEF BridgeNext

LEMMA BridgeInvSound ==
  ASSUME BridgeInv
  PROVE  BridgeSound
  <1>1. ASSUME NEW b \in Bridge, NEW k \in 1..Len(inbox[b])
        PROVE  inbox[b][k] \in FrameFor(b)
    BY ElementOfSeq DEF BridgeInv, BridgeOK
  <1> QED BY <1>1 DEF BridgeInv, BridgeTypes, BridgeOK, PortsRight, RootRight,
             BridgeSound, FrameFor, TrueHello

\* What the bridges keep between two steps, at any time (sm.cpp: processFrame() and
\* run() on the same rootID and dist, without a lock).
THEOREM BridgesKeepInvariant == BridgeSpec => []BridgeInv
  <1> QED BY BridgeBegins, BridgeSteps, PTL DEF BridgeSpec

\* Nobody believes in a root worse than itself, who takes itself for the root by its
\* distance is one but in the middle of an update, and every hello on its way says
\* so: for any number of bridges on any LANs, wherever the threads interleave.
THEOREM BridgeStaysSound == BridgeSpec => []BridgeSound
  <1> QED BY BridgesKeepInvariant, BridgeInvSound, PTL

-----------------------------------------------------------------------------
(* Mobile IP: the inductive invariant *)

CellFrame ==
    [type : {"none", "reply"}, node : Node]
    \union [type : {"has"}, node : Node, home : AP, ip : Address]
    \union [type : {"ack"}, node : Node, ip : Address \union {0}]
NetPacket ==
    [type : {"ping"}, ip : Address]
    \union [type : {"register"}, ip : Address, foreign : AP]
    \union [type : {"tunnel"}, ip : Address, node : Node \union {NULL}]
NodeFrame ==
    [type : {"ping"}, ip : Address]
    \union {m \in [type : {"offer"}, ap : AP, ip : Address \union {0}] :
               m.ip # 0 => m.ip \in Range(Pool[m.ap])}

\* The array holds each address once, and all of those that are not leased.
Distinct(pool) ==
    \A i, j \in DOMAIN pool : pool[i] = pool[j] /\ pool[i] # 0 => i = j
LeasedRight(a) ==
    \A x \in Range(Pool[a]) \ {0} :
        /\ x \notin Range(ips[a]) => x \in DOMAIN mp[a]
        /\ x \in Range(ips[a]) /\ x \in DOMAIN mp[a] => mp[a][x] = NULL

FramesOK ==
    /\ toAP \in [AP -> Seq(CellFrame)] /\ toNet \in [AP -> Seq(NetPacket)]
    /\ toNode \in [Node -> Seq(NodeFrame)]

(***************************************************************************)
(* Why AddressesAccounted is kept: the frames on their way carry addresses *)
(* of the right kind, and an offer one of the access point it is from.     *)
(***************************************************************************)
MobileInv ==
    /\ TypeOK
    /\ ips \in [AP -> Seq(Nat)]
    /\ \A n \in Node : ip[n] # 0 => home[n] \in AP
    /\ FramesOK
    /\ \A a \in AP : Distinct(ips[a]) /\ LeasedRight(a)

-----------------------------------------------------------------------------
(* Mobile IP: the array of addresses *)

LEMMA FirstFreeRight ==
  ASSUME NEW pool \in Seq(Nat), ~(\A i \in DOMAIN pool : pool[i] = 0)
  PROVE  FirstFree(pool) \in 1..Len(pool) /\ pool[FirstFree(pool)] # 0
  <1> DEFINE Free == {i \in 1..Len(pool) : pool[i] # 0}
  <1>1. DOMAIN pool = 1..Len(pool) /\ Len(pool) \in Nat
    BY LenProperties
  <1>2. PICK m \in Free : \A n \in Free : m <= n
    <2>1. Free \subseteq Nat /\ Free # {}
      BY <1>1
    <2> HIDE DEF Free
    <2> QED BY <2>1, Least
  <1>3. \A j \in 1..(m - 1) : pool[j] = 0
    BY <1>1, <1>2
  <1>4. m \in DOMAIN pool /\ pool[m] # 0
    BY <1>1, <1>2
  <1> QED BY <1>1, <1>3, <1>4 DEF FirstFree

(***************************************************************************)
(* getIP() moves the addresses about: what ends up at a place was at one   *)
(* other place, and no two places get theirs from the same one.  Place(j)  *)
(* is where the address came from that is held when the loop is at j.      *)
(***************************************************************************)
LEMMA GetIPRight ==
  ASSUME NEW pool \in Seq(Nat)
  PROVE  /\ GetIP(pool).pool \in Seq(Nat)
         /\ Len(GetIP(pool).pool) = Len(pool)
         /\ Range(GetIP(pool).pool) = Range(pool)
         /\ GetIP(pool).ip \in Range(pool) \union {0}
         /\ Distinct(pool) => Distinct(GetIP(pool).pool)
  <1>1. CASE \A i \in DOMAIN pool : pool[i] = 0
    BY <1>1 DEF GetIP
  <1>2. CASE ~(\A i \in DOMAIN pool : pool[i] = 0)
    <2> DEFINE N == Len(pool)
               i == FirstFree(pool)
               Gaps(j) == {k \in DOMAIN pool : i < k /\ k < j /\ pool[k] = 0}
               Place(j) == IF Gaps(j) = {} THEN i ELSE Max(Gaps(j)) - 1
               from == [k \in 1..N |-> IF k = i THEN Place(N + 1)
                                       ELSE IF k + 1 \in Gaps(N + 1) THEN Place(k + 1) ELSE k]
    <2>1. DOMAIN pool = 1..N /\ N \in Nat /\ i \in 1..N
      BY <1>2, LenProperties, FirstFreeRight
    <2>2. ASSUME NEW j \in 1..(N + 1), i < j
          PROVE  /\ Place(j) \in 1..N /\ i <= Place(j)
                 /\ Place(j) = i \/ Place(j) + 1 \in Gaps(j)
                 /\ \A g \in Gaps(j) : g - 1 <= Place(j)
      <3>1. CASE Gaps(j) = {}
        BY <2>1, <2>2, <3>1
      <3>2. CASE Gaps(j) # {}
        <4>1. Gaps(j) \subseteq 0..N
          BY <2>1
        <4>2. Max(Gaps(j)) \in Gaps(j) /\ \A g \in Gaps(j) : g <= Max(Gaps(j))
          <5> HIDE DEF Gaps
          <5> QED BY <2>1, <3>2, <4>1, Greatest
        <4>3. PICK m \in Gaps(j) : m = Max(Gaps(j)) /\ \A g \in Gaps(j) : g <= m
          BY <4>2
        <4>4. Place(j) = m - 1 /\ m \in 1..N /\ i < m /\ m < j
          BY <2>1, <3>2, <4>3
        <4>5. Place(j) + 1 = m
          BY <4>4
        <4>6. \A g \in Gaps(j) : g - 1 <= Place(j)
          <5> HIDE DEF Place, Gaps
          <5> QED BY <4>1, <4>3, <4>4
        <4> HIDE DEF Place, Gaps
        <4> QED BY <2>1, <4>3, <4>4, <4>5, <4>6
      <3> QED BY <3>1, <3>2
    <2>3. ASSUME NEW j \in Gaps(N + 1)
          PROVE  j \in 1..(N + 1) /\ i < j
      BY <2>1
    <2>4. from \in [1..N -> 1..N]
      <3> HIDE DEF Place
      <3> QED BY <2>1, <2>2, <2>3
    <2>5. ASSUME NEW j \in Gaps(N + 1), NEW k \in 1..(N + 1), j < k, j # i + 1
          PROVE  Place(j) < Place(k)
      <3>1. j \in Gaps(k) /\ i < k
        BY <2>1, <2>5
      <3>2. j - 1 <= Place(k) /\ Place(k) \in 1..N
        <4> HIDE DEF Place
        <4> QED BY <2>2, <3>1
      <3>3. Place(j) \in 1..N /\ (Place(j) = i \/ Place(j) + 1 \in Gaps(j))
        <4> HIDE DEF Place
        <4> QED BY <2>2, <2>3
      <3>4. Place(j) < j - 1
        <4> HIDE DEF Place
        <4>1. CASE Place(j) = i
          <5>1. j \in 1..(N + 1) /\ i < j
            BY <2>3
          <5> HIDE DEF Gaps
          <5> QED BY <2>1, <2>5, <4>1, <5>1
        <4>2. CASE Place(j) + 1 \in Gaps(j)
          <5>1. Place(j) + 1 < j
            BY <4>2
          <5>2. j \in 1..(N + 1)
            BY <2>3
          <5> HIDE DEF Gaps
          <5> QED BY <3>3, <5>1, <5>2
        <4> QED BY <3>3, <4>1, <4>2
      <3> HIDE DEF Place
      <3> QED BY <2>1, <3>2, <3>3, <3>4
    <2>6. ASSUME NEW k \in 1..N, NEW l \in 1..N, from[k] = from[l] PROVE k = l
      <3> DEFINE Moved(x) == x = i \/ x + 1 \in Gaps(N + 1)
                 Due(x) == IF x = i THEN N + 1 ELSE x + 1
      <3>1. ASSUME NEW x \in 1..N, Moved(x)
            PROVE  /\ from[x] = Place(Due(x)) /\ Due(x) \in 1..(N + 1) /\ i < Due(x)
                   /\ Due(x) # N + 1 => Due(x) \in Gaps(N + 1) /\ Due(x) # i + 1
        <4> HIDE DEF Place
        <4> QED BY <2>1, <3>1
      <3>2. ASSUME NEW x \in 1..N, NEW y \in 1..N, Moved(x), Moved(y), Due(x) < Due(y)
            PROVE  from[x] < from[y]
        <4>1. Due(x) # N + 1
          BY <2>1, <3>1, <3>2
        <4> HIDE DEF Place, Due, Gaps, Moved, from
        <4> QED BY <2>5, <3>1, <3>2, <4>1
      <3>3. ASSUME NEW x \in 1..N, NEW y \in 1..N, Moved(x), ~Moved(y)
            PROVE  from[x] # from[y]
        <4>1. from[y] = y
          BY <3>3
        <4>2. from[x] = i \/ from[x] + 1 \in Gaps(N + 1)
          <5>1. from[x] = i \/ from[x] + 1 \in Gaps(Due(x))
            <6> HIDE DEF Place, Due, Gaps, Moved, from
            <6> QED BY <2>2, <3>1, <3>3
          <5>2. Gaps(Due(x)) \subseteq Gaps(N + 1)
            BY <2>1, <3>1, <3>3
          <5> HIDE DEF Gaps, from
          <5> QED BY <5>1, <5>2
        <4> HIDE DEF from, Gaps
        <4> QED BY <3>3, <4>1, <4>2
      <3>4. CASE Moved(k) /\ Moved(l)
        <4>1. from[k] \in Nat /\ from[l] \in Nat
          <5> HIDE DEF from, N
          <5>1. from[k] \in 1..N /\ from[l] \in 1..N
            BY <2>4
          <5> QED BY <2>1, <5>1
        <4>2. Due(k) \in Nat /\ Due(l) \in Nat
          BY <2>1, <3>4
        <4>3. Due(k) = Due(l)
          <5> HIDE DEF Due, Moved, from
          <5> QED BY <2>6, <3>2, <3>4, <4>1, <4>2
        <4> QED BY <2>1, <3>4, <4>3
      <3>5. CASE ~Moved(k) /\ ~Moved(l)
        BY <2>6, <3>5
      <3> HIDE DEF Moved, from
      <3> QED BY <2>6, <3>3, <3>4, <3>5
    <2> DEFINE got == GetIP(pool)
    <2>7. got.ip = pool[i] /\ got.pool = [k \in 1..N |-> pool[from[k]]]
      <3>1. got.pool = [k \in DOMAIN pool |->
                 IF k = i THEN (IF Gaps(N + 1) = {} THEN pool[i] ELSE pool[Max(Gaps(N + 1)) - 1])
                 ELSE IF k + 1 \in Gaps(N + 1)
                      THEN (IF Gaps(k + 1) = {} THEN pool[i] ELSE pool[Max(Gaps(k + 1)) - 1])
                      ELSE pool[k]]
            /\ got.ip = pool[i]
        BY <1>2 DEF GetIP
      <3> HIDE DEF Gaps, got, N, i
      <3> QED BY <2>1, <3>1
    <2>8. IsFiniteSet(1..N)
      BY <2>1, FS_Interval
    <2>9. \A m \in 1..N : \E k \in 1..N : from[k] = m
      <3> HIDE DEF from
      <3>1. from \in Injection(1..N, 1..N)
        BY <2>4, <2>6, Fun_IsInj
      <3>2. from \in Surjection(1..N, 1..N)
        BY <2>8, <3>1, FS_Injection
      <3> QED BY <3>2, Fun_SurjectionProperties
    <2> HIDE DEF from, got
    <2>10. \A k \in 1..N : got.pool[k] = pool[from[k]] /\ from[k] \in 1..N /\ pool[k] \in Nat
      BY <2>1, <2>4, <2>7, ElementOfSeq
    <2>11. DOMAIN got.pool = 1..N /\ got.pool \in Seq(Nat) /\ Len(got.pool) = N
      BY <2>1, <2>7, <2>10
    <2>12. Range(got.pool) = Range(pool)
      <3>1. Range(got.pool) = {got.pool[k] : k \in 1..N} /\ Range(pool) = {pool[k] : k \in 1..N}
        BY <2>1, <2>11 DEF Range
      <3> HIDE DEF N
      <3>2. {got.pool[k] : k \in 1..N} \subseteq {pool[k] : k \in 1..N}
        BY <2>10
      <3>3. ASSUME NEW m \in 1..N PROVE pool[m] \in {got.pool[k] : k \in 1..N}
        <4>1. PICK k \in 1..N : from[k] = m
          BY <2>9
        <4> QED BY <2>10, <4>1
      <3> QED BY <3>1, <3>2, <3>3
    <2>13. ASSUME Distinct(pool) PROVE Distinct(got.pool)
      <3>1. ASSUME NEW k \in 1..N, NEW l \in 1..N, got.pool[k] = got.pool[l], got.pool[k] # 0
            PROVE  k = l
        <4>1. from[k] = from[l]
          BY <2>1, <2>10, <2>13, <3>1 DEF Distinct
        <4> QED BY <2>6, <4>1
      <3> QED BY <2>11, <3>1 DEF Distinct
    <2>14. got.ip \in Range(pool)
      BY <2>1, <2>7 DEF Range
    <2> QED BY <2>11, <2>12, <2>13, <2>14 DEF got
  <1> QED BY <1>1, <1>2

LEMMA RemoveIPRight ==
  ASSUME NEW pool \in Seq(Nat), NEW x, Distinct(pool)
  PROVE  /\ RemoveIP(pool, x) \in Seq(Nat)
         /\ Len(RemoveIP(pool, x)) = Len(pool)
         /\ Distinct(RemoveIP(pool, x))
         /\ \A y : y # 0 => (y \in Range(RemoveIP(pool, x)) <=> y \in Range(pool) /\ y # x)
  <1>1. CASE x \notin Range(pool)
    BY <1>1 DEF RemoveIP
  <1>2. CASE x \in Range(pool)
    <2> DEFINE found == {i \in DOMAIN pool : pool[i] = x}
    <2>1. DOMAIN pool = 1..Len(pool) /\ Len(pool) \in Nat
      BY LenProperties
    <2>2. PICK m \in found : \A n \in found : m <= n
      <3>1. found \subseteq Nat /\ found # {}
        BY <1>2, <2>1 DEF Range
      <3> HIDE DEF found
      <3> QED BY <3>1, Least
    <2>3. \A j \in 1..(m - 1) : pool[j] # x
      BY <2>1, <2>2
    <2>4. PICK i \in 1..Len(pool) : pool[i] = x /\ RemoveIP(pool, x) = [pool EXCEPT ![i] = 0]
      BY <1>2, <2>1, <2>2, <2>3 DEF RemoveIP
    <2> DEFINE rest == [pool EXCEPT ![i] = 0]
    <2>5. rest \in Seq(Nat) /\ Len(rest) = Len(pool)
          /\ \A j \in 1..Len(pool) : rest[j] = IF j = i THEN 0 ELSE pool[j]
      BY ExceptSeq
    <2>6. DOMAIN rest = 1..Len(pool)
      BY <2>1
    <2> HIDE DEF rest
    <2>7. Distinct(rest)
      BY <2>1, <2>5, <2>6 DEF Distinct
    <2>8. ASSUME NEW y, y # 0 PROVE y \in Range(rest) <=> y \in Range(pool) /\ y # x
      <3>1. \A j \in 1..Len(pool) : j # i => pool[j] # x \/ x = 0
        BY <2>1, <2>4 DEF Distinct
      <3>2. y \in Range(rest) <=> \E j \in 1..Len(pool) : rest[j] = y
        BY <2>6 DEF Range
      <3>3. y \in Range(pool) <=> \E j \in 1..Len(pool) : pool[j] = y
        BY <2>1 DEF Range
      <3> QED BY <2>4, <2>5, <2>8, <3>1, <3>2, <3>3
    <2> QED BY <2>4, <2>5, <2>7, <2>8 DEF rest
  <1> QED BY <1>1, <1>2

-----------------------------------------------------------------------------
(* Mobile IP: maps, queues and frames *)

Maps(K, V) == UNION {[X -> V] : X \in SUBSET K}

LEMMA InsertedRight ==
  ASSUME NEW K, NEW V, NEW map \in Maps(K, V), NEW key \in K, NEW value \in V
  PROVE  /\ Inserted(map, key, value) \in Maps(K, V)
         /\ DOMAIN Inserted(map, key, value) = DOMAIN map \union {key}
         /\ \A x \in DOMAIN map : Inserted(map, key, value)[x] = map[x]
         /\ key \notin DOMAIN map => Inserted(map, key, value)[key] = value
         /\ Inserted(map, key, value)[key] \in V
  <1>1. PICK X \in SUBSET K : map \in [X -> V]
    BY DEF Maps
  <1>2. Inserted(map, key, value) \in [X \union {key} -> V]
    BY <1>1 DEF Inserted
  <1>3. Inserted(map, key, value) \in Maps(K, V)
    BY <1>2 DEF Maps
  <1> QED BY <1>1, <1>2, <1>3 DEF Inserted

LEMMA RestrictRight ==
  ASSUME NEW K, NEW V, NEW map \in Maps(K, V), NEW S \in SUBSET DOMAIN map
  PROVE  Restrict(map, S) \in Maps(K, V)
  <1>1. PICK X \in SUBSET K : map \in [X -> V]
    BY DEF Maps
  <1>2. Restrict(map, S) \in [S -> V]
    BY <1>1 DEF Restrict
  <1> QED BY <1>1, <1>2 DEF Maps

LEMMA QueueGrows ==
  ASSUME NEW P, NEW S, NEW boxes \in [P -> Seq(S)], NEW p \in P, NEW x \in S
  PROVE  [boxes EXCEPT ![p] = Append(@, x)] \in [P -> Seq(S)]
  <1>1. Append(boxes[p], x) \in Seq(S)
    BY AddedTo
  <1> QED BY <1>1

LEMMA QueueShrinks ==
  ASSUME NEW P, NEW S, NEW boxes \in [P -> Seq(S)], NEW p \in P, boxes[p] # <<>>
  PROVE  Head(boxes[p]) \in S /\ [boxes EXCEPT ![p] = Tail(@)] \in [P -> Seq(S)]
  <1>1. Head(boxes[p]) \in S /\ Tail(boxes[p]) \in Seq(S)
    BY TakenFrom
  <1> QED BY <1>1

LEMMA AddressRange ==
  /\ 0 \notin Address
  /\ \A a \in AP : \A x \in Range(Pool[a]) : x # 0 => x \in Address
  /\ \A x \in Address : Owner(x) \in AP /\ x \in Range(Pool[Owner(x)])
  /\ Address \subseteq Nat
  <1>1. ASSUME NEW x \in Address PROVE \E a \in AP : x \in Range(Pool[a])
    BY DEF Address
  <1>2. \A x \in Address : Owner(x) \in AP /\ x \in Range(Pool[Owner(x)])
    BY <1>1 DEF Owner
  <1>3. ASSUME NEW a \in AP PROVE Range(Pool[a]) \subseteq Nat
    BY MobileIpAssumption, RangeOfSeq
  <1> QED BY <1>1, <1>2, <1>3 DEF Address

\* The first frame of each kind that a program takes.
LEMMA FromCellTyped ==
  ASSUME MobileInv, NEW a \in AP, NEW type \in {"none", "has", "ack", "reply"},
         FromCell(a, type), CellFrameTaken(a)
  PROVE  /\ toAP' \in [AP -> Seq(CellFrame)]
         /\ Head(toAP[a]).node \in Node
         /\ type = "has" => Head(toAP[a]).home \in AP /\ Head(toAP[a]).ip \in Address
         /\ type = "ack" => Head(toAP[a]).ip \in Address \union {0}
  <1>1. Head(toAP[a]) \in CellFrame /\ toAP' \in [AP -> Seq(CellFrame)]
    BY QueueShrinks DEF MobileInv, FramesOK, FromCell, CellFrameTaken
  <1> QED BY <1>1 DEF CellFrame, FromCell

LEMMA FromNetTyped ==
  ASSUME MobileInv, NEW a \in AP, NEW type \in {"ping", "register", "tunnel"}, FromNet(a, type)
  PROVE  /\ PacketTaken(a) \in [AP -> Seq(NetPacket)]
         /\ Head(toNet[a]).ip \in Address
         /\ type = "register" => Head(toNet[a]).foreign \in AP
         /\ type = "tunnel" => Head(toNet[a]).node \in Node \union {NULL}
  <1>1. Head(toNet[a]) \in NetPacket /\ PacketTaken(a) \in [AP -> Seq(NetPacket)]
    BY QueueShrinks DEF MobileInv, FramesOK, FromNet, PacketTaken
  <1> QED BY <1>1 DEF NetPacket, FromNet

LEMMA SentInCellTyped ==
  ASSUME MobileInv, NEW a, NEW n, NEW m \in NodeFrame
  PROVE  SentInCell(a, n, m) \in [Node -> Seq(NodeFrame)]
  <1>1. toNode \in [Node -> Seq(NodeFrame)]
    BY DEF MobileInv, FramesOK
  <1>2. CASE n \in Node /\ cell[n] = a
    BY <1>1, <1>2, QueueGrows DEF SentInCell
  <1>3. CASE ~(n \in Node /\ cell[n] = a)
    BY <1>1, <1>3 DEF SentInCell
  <1> QED BY <1>2, <1>3

LEMMA PoolsTyped ==
  ASSUME MobileInv, NEW a \in AP
  PROVE  /\ ips[a] \in Seq(Nat) /\ Distinct(ips[a]) /\ LeasedRight(a)
         /\ mp[a] \in Maps(Address \union {0}, Node \union {NULL})
         /\ ipmp[a] \in Maps(Address, AP)
         /\ Len(ips[a]) = Len(Pool[a]) /\ Range(ips[a]) \subseteq Range(Pool[a]) \union {0}
         /\ Range(ips[a]) \subseteq Address \union {0}
  BY AddressRange DEF MobileInv, TypeOK, Maps

-----------------------------------------------------------------------------
(* Mobile IP: one lemma for each step *)

\* Only frames move.
LEMMA OnlyFrames ==
  ASSUME MobileInv, UNCHANGED <<apVars, nodeVars, cell>>, FramesOK'
  PROVE  MobileInv'
  BY DEF MobileInv, TypeOK, LeasedRight, apVars, nodeVars

LEMMA BeaconKept ==
  ASSUME MobileInv, NEW n \in Node, Beacon(n)
  PROVE  MobileInv'
  <1> DEFINE m == IF ip[n] = 0 THEN [type |-> "none", node |-> n]
                  ELSE [type |-> "has", node |-> n, home |-> home[n], ip |-> ip[n]]
  <1>1. cell[n] \in AP /\ ip[n] \in Address \union {0} /\ (ip[n] # 0 => home[n] \in AP)
    BY DEF MobileInv, TypeOK
  <1>2. m \in CellFrame
    BY <1>1 DEF CellFrame
  <1>3. toAP' = [toAP EXCEPT ![cell[n]] = Append(@, m)]
    BY DEF Beacon
  <1>4. toAP' \in [AP -> Seq(CellFrame)]
    <2> HIDE DEF m
    <2> QED BY <1>1, <1>2, <1>3, QueueGrows DEF MobileInv, FramesOK
  <1>5. FramesOK'
    BY <1>4 DEF Beacon, MobileInv, FramesOK
  <1> QED BY <1>5, OnlyFrames DEF Beacon

LEMMA TakeOfferKept ==
  ASSUME MobileInv, NEW n \in Node, TakeOffer(n)
  PROVE  MobileInv'
  <1> DEFINE m == Head(toNode[n])
             ack == [type |-> "ack", node |-> n, ip |-> m.ip]
  <1>1. m \in NodeFrame /\ toNode' \in [Node -> Seq(NodeFrame)]
    BY QueueShrinks DEF TakeOffer, MobileInv, FramesOK
  <1>2. m.ap \in AP /\ m.ip \in Address \union {0} /\ (m.ip # 0 => m.ip \in Range(Pool[m.ap]))
    BY <1>1 DEF TakeOffer, NodeFrame
  <1>3. ack \in CellFrame /\ cell[n] \in AP
    BY <1>2 DEF CellFrame, MobileInv, TypeOK
  <1>4. toAP' = [toAP EXCEPT ![cell[n]] = Append(@, ack)]
    BY DEF TakeOffer
  <1>5. toAP' \in [AP -> Seq(CellFrame)]
    <2> HIDE DEF ack
    <2> QED BY <1>3, <1>4, QueueGrows DEF MobileInv, FramesOK
  <1>6. FramesOK'
    BY <1>1, <1>5 DEF TakeOffer, MobileInv, FramesOK
  <1>7. ip' = [ip EXCEPT ![n] = m.ip] /\ home' = [home EXCEPT ![n] = m.ap]
    BY DEF TakeOffer
  <1>8. /\ ip' \in [Node -> Address \union {0}] /\ home' \in [Node -> AP \union {NULL}]
        /\ \A k \in Node : ip'[k] # 0 => ip'[k] \in Range(Pool[home'[k]]) /\ home'[k] \in AP
    <2> HIDE DEF m
    <2> QED BY <1>2, <1>7 DEF MobileInv, TypeOK
  <1> QED BY <1>6, <1>8 DEF TakeOffer, MobileInv, TypeOK, LeasedRight, apVars

LEMMA AnswerPingKept ==
  ASSUME MobileInv, NEW n \in Node, AnswerPing(n)
  PROVE  MobileInv'
  <1>1. toNode' \in [Node -> Seq(NodeFrame)]
    BY QueueShrinks DEF AnswerPing, MobileInv, FramesOK
  <1>2. [type |-> "reply", node |-> n] \in CellFrame /\ cell[n] \in AP
    BY DEF CellFrame, MobileInv, TypeOK
  <1>3. toAP' \in [AP -> Seq(CellFrame)]
    BY <1>2, QueueGrows DEF AnswerPing, MobileInv, FramesOK
  <1>4. FramesOK'
    BY <1>1, <1>3 DEF AnswerPing, MobileInv, FramesOK
  <1> QED BY <1>4, OnlyFrames DEF AnswerPing

\* An access point changes its own tables only.
LEMMA OneAccessPoint ==
  ASSUME MobileInv, NEW a \in AP, UNCHANGED <<nodeVars, cell>>, FramesOK',
         ips' = [ips EXCEPT ![a] = ips'[a]], mp' = [mp EXCEPT ![a] = mp'[a]],
         ipmp' = [ipmp EXCEPT ![a] = ipmp'[a]],
         ips'[a] \in Seq(Nat), Distinct(ips'[a]), Len(ips'[a]) = Len(ips[a]),
         Range(ips'[a]) \subseteq Range(ips[a]) \union {0},
         mp'[a] \in Maps(Address \union {0}, Node \union {NULL}),
         ipmp'[a] \in Maps(Address, AP), LeasedRight(a)'
  PROVE  MobileInv'
  <1>1. /\ ips' \in [AP -> Seq(Nat)] /\ ipmp' \in [AP -> Maps(Address, AP)]
        /\ mp' \in [AP -> Maps(Address \union {0}, Node \union {NULL})]
        /\ \A b \in AP \ {a} : ips'[b] = ips[b] /\ mp'[b] = mp[b]
    BY DEF MobileInv, TypeOK, Maps
  <1>2. ASSUME NEW b \in AP
        PROVE  /\ Distinct(ips'[b]) /\ LeasedRight(b)' /\ Len(ips'[b]) = Len(Pool[b])
               /\ Range(ips'[b]) \subseteq Range(Pool[b]) \union {0}
    <2>1. CASE b = a
      BY <2>1, PoolsTyped
    <2>2. CASE b # a
      BY <1>1, <2>2, PoolsTyped DEF LeasedRight
    <2> QED BY <2>1, <2>2
  <1>3. TypeOK'
    BY <1>1, <1>2 DEF MobileInv, TypeOK, Maps, nodeVars
  <1> QED BY <1>1, <1>2, <1>3 DEF MobileInv, nodeVars

LEMMA TablesShaped ==
  ASSUME MobileInv
  PROVE  /\ ips = [a \in AP |-> ips[a]] /\ mp = [a \in AP |-> mp[a]]
         /\ ipmp = [a \in AP |-> ipmp[a]]
  BY DEF MobileInv, TypeOK

LEMMA OfferIPKept ==
  ASSUME MobileInv, NEW a \in AP, OfferIP(a)
  PROVE  MobileInv'
  <1> DEFINE got == GetIP(ips[a])
             offer == [type |-> "offer", ap |-> a, ip |-> got.ip]
  <1>1. /\ got.pool \in Seq(Nat) /\ Len(got.pool) = Len(ips[a]) /\ Range(got.pool) = Range(ips[a])
        /\ got.ip \in Range(ips[a]) \union {0} /\ Distinct(got.pool)
    BY PoolsTyped, GetIPRight
  <1>2. offer \in NodeFrame
    <2>1. got.ip \in Address \union {0} /\ (got.ip # 0 => got.ip \in Range(Pool[a]))
      BY <1>1, PoolsTyped
    <2> HIDE DEF got
    <2> QED BY <2>1 DEF NodeFrame
  <1>3. ips' = [ips EXCEPT ![a] = got.pool] /\ toNode' = SentInCell(a, Head(toAP[a]).node, offer)
    BY DEF OfferIP
  <1>4. toAP' \in [AP -> Seq(CellFrame)]
    BY FromCellTyped DEF OfferIP
  <1>5. toNode' \in [Node -> Seq(NodeFrame)]
    <2> HIDE DEF offer
    <2> QED BY <1>2, <1>3, SentInCellTyped
  <1>6. FramesOK'
    BY <1>4, <1>5 DEF FramesOK, OfferIP, MobileInv
  <1>7. UNCHANGED <<mp, ipmp, nodeVars, cell>>
    BY DEF OfferIP
  <1>8. /\ ips'[a] = got.pool /\ ips' = [ips EXCEPT ![a] = ips'[a]]
        /\ mp'[a] = mp[a] /\ mp' = [mp EXCEPT ![a] = mp'[a]]
        /\ ipmp'[a] = ipmp[a] /\ ipmp' = [ipmp EXCEPT ![a] = ipmp'[a]]
    BY <1>3, <1>7, TablesShaped
  <1> HIDE DEF got
  <1>9. LeasedRight(a)'
    BY <1>1, <1>8, PoolsTyped DEF LeasedRight
  <1> QED BY <1>1, <1>6, <1>7, <1>8, <1>9, PoolsTyped, OneAccessPoint

LEMMA AcknowledgedKept ==
  ASSUME MobileInv, NEW a \in AP, Acknowledged(a)
  PROVE  MobileInv'
  <1> DEFINE x == Head(toAP[a]).ip
             n == Head(toAP[a]).node
             map == Inserted(mp[a], x, n)
             pool == RemoveIP(ips[a], x)
  <1>1. toAP' \in [AP -> Seq(CellFrame)] /\ x \in Address \union {0} /\ n \in Node
    BY FromCellTyped DEF Acknowledged
  <1>2. FramesOK'
    BY <1>1 DEF FramesOK, Acknowledged, MobileInv
  <1>3. /\ map \in Maps(Address \union {0}, Node \union {NULL})
        /\ DOMAIN map = DOMAIN mp[a] \union {x}
        /\ \A y \in DOMAIN mp[a] : map[y] = mp[a][y]
    <2>1. x \in Address \union {0} /\ n \in Node \union {NULL}
      BY <1>1
    <2>2. mp[a] \in Maps(Address \union {0}, Node \union {NULL})
      BY PoolsTyped
    <2> HIDE DEF x, n
    <2>3. map \in Maps(Address \union {0}, Node \union {NULL})
      BY <2>1, <2>2, InsertedRight, Zenon
    <2>4. DOMAIN map = DOMAIN mp[a] \union {x} /\ \A y \in DOMAIN mp[a] : map[y] = mp[a][y]
      BY DEF Inserted
    <2> QED BY <2>3, <2>4
  <1>4. /\ pool \in Seq(Nat) /\ Len(pool) = Len(ips[a]) /\ Distinct(pool)
        /\ \A y : y # 0 => (y \in Range(pool) <=> y \in Range(ips[a]) /\ y # x)
    <2> HIDE DEF x
    <2> QED BY PoolsTyped, RemoveIPRight
  <1>5. ips' = [ips EXCEPT ![a] = pool] /\ mp' = [mp EXCEPT ![a] = map]
        /\ UNCHANGED <<ipmp, nodeVars, cell>>
    BY DEF Acknowledged
  <1> HIDE DEF map, pool, x, n
  <1>6. Range(pool) \subseteq Range(ips[a]) \union {0}
    BY <1>4
  <1>7. /\ ips'[a] = pool /\ ips' = [ips EXCEPT ![a] = ips'[a]]
        /\ mp'[a] = map /\ mp' = [mp EXCEPT ![a] = mp'[a]]
        /\ ipmp'[a] = ipmp[a] /\ ipmp' = [ipmp EXCEPT ![a] = ipmp'[a]]
    BY <1>5, TablesShaped
  <1>8. LeasedRight(a)'
    BY <1>3, <1>4, <1>7, PoolsTyped DEF LeasedRight
  <1> QED BY <1>2, <1>3, <1>4, <1>5, <1>6, <1>7, <1>8, PoolsTyped, OneAccessPoint

LEMMA VisitKept ==
  ASSUME MobileInv, NEW a \in AP, Visit(a)
  PROVE  MobileInv'
  <1> DEFINE m == Head(toAP[a])
             register == [type |-> "register", ip |-> m.ip, foreign |-> a]
             care == Restrict(ipmp[a], DOMAIN ipmp[a] \ {m.ip})
  <1>1. toAP' \in [AP -> Seq(CellFrame)] /\ m.home \in AP /\ m.ip \in Address
    BY FromCellTyped DEF Visit
  <1>2. UNCHANGED <<ips, mp, nodeVars, toNode, cell>>
    BY DEF Visit
  <1>3. CASE m.home = a
    <2>1. FramesOK'
      BY <1>1, <1>2, <1>3 DEF FramesOK, Visit, MobileInv
    <2>2. ipmp' = [ipmp EXCEPT ![a] = care]
      BY <1>3 DEF Visit, MobileInv, TypeOK
    <2>3. care \in Maps(Address, AP)
      BY PoolsTyped, RestrictRight
    <2>4. /\ ips'[a] = ips[a] /\ ips' = [ips EXCEPT ![a] = ips'[a]]
          /\ mp'[a] = mp[a] /\ mp' = [mp EXCEPT ![a] = mp'[a]]
          /\ ipmp'[a] = care /\ ipmp' = [ipmp EXCEPT ![a] = ipmp'[a]]
      BY <1>2, <2>2, TablesShaped
    <2> HIDE DEF care
    <2>5. LeasedRight(a)'
      BY <2>4, PoolsTyped DEF LeasedRight
    <2> QED BY <1>2, <2>1, <2>3, <2>4, <2>5, PoolsTyped, OneAccessPoint
  <1>4. CASE m.home # a
    <2>1. toNet' = [toNet EXCEPT ![m.home] = Append(@, register)] /\ UNCHANGED ipmp
      BY <1>4 DEF Visit
    <2>2. register \in NetPacket
      BY <1>1 DEF NetPacket
    <2>3. toNet' \in [AP -> Seq(NetPacket)]
      <3> HIDE DEF register, m
      <3> QED BY <1>1, <2>1, <2>2, QueueGrows DEF MobileInv, FramesOK
    <2>4. FramesOK'
      BY <1>1, <1>2, <2>3 DEF FramesOK, MobileInv
    <2> QED BY <1>2, <2>1, <2>4, OnlyFrames DEF apVars
  <1> QED BY <1>3, <1>4

LEMMA ForwardReplyKept ==
  ASSUME MobileInv, NEW a \in AP, ForwardReply(a)
  PROVE  MobileInv'
  <1>1. FramesOK'
    BY FromCellTyped DEF ForwardReply, FramesOK, MobileInv
  <1> QED BY <1>1, OnlyFrames DEF ForwardReply

LEMMA PingArrivesKept ==
  ASSUME MobileInv, NEW a \in AP, PingArrives(a)
  PROVE  MobileInv'
  <1> DEFINE x == Head(toNet[a]).ip
             map == Inserted(mp[a], x, NULL)
             tunnel == [type |-> "tunnel", ip |-> x, node |-> map[x]]
             ping == [type |-> "ping", ip |-> x]
  <1>1. PacketTaken(a) \in [AP -> Seq(NetPacket)] /\ x \in Address
    BY FromNetTyped DEF PingArrives
  <1>2. /\ map \in Maps(Address \union {0}, Node \union {NULL})
        /\ DOMAIN map = DOMAIN mp[a] \union {x}
        /\ \A y \in DOMAIN mp[a] : map[y] = mp[a][y]
        /\ x \notin DOMAIN mp[a] => map[x] = NULL
        /\ map[x] \in Node \union {NULL}
    <2>1. x \in Address \union {0} /\ NULL \in Node \union {NULL}
      BY <1>1
    <2>2. mp[a] \in Maps(Address \union {0}, Node \union {NULL})
      BY PoolsTyped
    <2> HIDE DEF x
    <2> QED BY <2>1, <2>2, InsertedRight, Zenon
  <1>3. mp' = [mp EXCEPT ![a] = map] /\ UNCHANGED <<ips, ipmp, nodeVars, toAP, cell>>
    BY DEF PingArrives
  <1>4. mp'[a] = map
    BY <1>3 DEF MobileInv, TypeOK
  <1>5. tunnel \in NetPacket /\ ping \in NodeFrame
    <2> HIDE DEF map, x
    <2> QED BY <1>1, <1>2 DEF NetPacket, NodeFrame
  <1>6. ASSUME x \in DOMAIN ipmp[a] PROVE FramesOK'
    <2>1. toNet' = [PacketTaken(a) EXCEPT ![ipmp[a][x]] = Append(@, tunnel)] /\ UNCHANGED toNode
      BY <1>4, <1>6 DEF PingArrives
    <2>2. ipmp[a][x] \in AP
      BY <1>6, PoolsTyped DEF Maps
    <2>3. toNet' \in [AP -> Seq(NetPacket)]
      <3> HIDE DEF tunnel, x
      <3> QED BY <1>1, <1>5, <2>1, <2>2, QueueGrows
    <2> QED BY <1>3, <2>1, <2>3 DEF FramesOK, MobileInv
  <1>7. ASSUME x \notin DOMAIN ipmp[a] PROVE FramesOK'
    <2>1. toNode' = SentInCell(a, map[x], ping) /\ toNet' = PacketTaken(a)
      BY <1>4, <1>7 DEF PingArrives
    <2>2. toNode' \in [Node -> Seq(NodeFrame)]
      <3> HIDE DEF ping, map, x
      <3> QED BY <1>5, <2>1, SentInCellTyped
    <2> QED BY <1>1, <1>3, <2>1, <2>2 DEF FramesOK, MobileInv
  <1>8. FramesOK'
    BY <1>6, <1>7
  <1> HIDE DEF map, x
  <1>9. /\ ips'[a] = ips[a] /\ ips' = [ips EXCEPT ![a] = ips'[a]]
        /\ mp'[a] = map /\ mp' = [mp EXCEPT ![a] = mp'[a]]
        /\ ipmp'[a] = ipmp[a] /\ ipmp' = [ipmp EXCEPT ![a] = ipmp'[a]]
    BY <1>3, TablesShaped
  <1>10. LeasedRight(a)'
    BY <1>2, <1>9, PoolsTyped DEF LeasedRight
  <1> QED BY <1>2, <1>3, <1>8, <1>9, <1>10, PoolsTyped, OneAccessPoint

LEMMA RegistrationArrivesKept ==
  ASSUME MobileInv, NEW a \in AP, RegistrationArrives(a)
  PROVE  MobileInv'
  <1> DEFINE m == Head(toNet[a])
             care == Inserted(ipmp[a], m.ip, m.foreign)
  <1>1. PacketTaken(a) \in [AP -> Seq(NetPacket)] /\ m.ip \in Address /\ m.foreign \in AP
    BY FromNetTyped DEF RegistrationArrives
  <1>2. care \in Maps(Address, AP)
    <2> HIDE DEF m
    <2> QED BY <1>1, PoolsTyped, InsertedRight
  <1>3. ipmp' = [ipmp EXCEPT ![a] = care] /\ UNCHANGED <<ips, mp, nodeVars, cell>>
    BY DEF RegistrationArrives
  <1>4. FramesOK'
    BY <1>1 DEF RegistrationArrives, FramesOK, MobileInv
  <1>5. /\ ips'[a] = ips[a] /\ ips' = [ips EXCEPT ![a] = ips'[a]]
        /\ mp'[a] = mp[a] /\ mp' = [mp EXCEPT ![a] = mp'[a]]
        /\ ipmp'[a] = care /\ ipmp' = [ipmp EXCEPT ![a] = ipmp'[a]]
    BY <1>3, TablesShaped
  <1> HIDE DEF care
  <1>6. LeasedRight(a)'
    BY <1>5, PoolsTyped DEF LeasedRight
  <1> QED BY <1>2, <1>3, <1>4, <1>5, <1>6, PoolsTyped, OneAccessPoint

LEMMA TunnelEndsKept ==
  ASSUME MobileInv, NEW a \in AP, TunnelEnds(a)
  PROVE  MobileInv'
  <1> DEFINE m == Head(toNet[a])
             ping == [type |-> "ping", ip |-> m.ip]
  <1>1. PacketTaken(a) \in [AP -> Seq(NetPacket)] /\ m.ip \in Address
    BY FromNetTyped DEF TunnelEnds
  <1>2. ping \in NodeFrame /\ toNode' = SentInCell(a, m.node, ping)
    BY <1>1 DEF NodeFrame, TunnelEnds
  <1>3. toNode' \in [Node -> Seq(NodeFrame)]
    <2> HIDE DEF ping, m
    <2> QED BY <1>2, SentInCellTyped
  <1>4. FramesOK'
    BY <1>1, <1>3 DEF TunnelEnds, FramesOK, MobileInv
  <1> QED BY <1>4, OnlyFrames DEF TunnelEnds

LEMMA MoveKept ==
  ASSUME MobileInv, NEW n \in Node, Move(n)
  PROVE  MobileInv'
  <1>1. cell' \in [Node -> AP]
    BY DEF Move, MobileInv, TypeOK
  <1> QED BY <1>1 DEF Move, MobileInv, TypeOK, FramesOK, LeasedRight, apVars, nodeVars, netVars

LEMMA PingKept ==
  ASSUME MobileInv, Ping
  PROVE  MobileInv'
  <1>1. PICK x \in Address :
            toNet' = [toNet EXCEPT ![Owner(x)] = Append(@, [type |-> "ping", ip |-> x])]
    BY DEF Ping
  <1>2. [type |-> "ping", ip |-> x] \in NetPacket /\ Owner(x) \in AP
    BY AddressRange DEF NetPacket
  <1>3. toNet' \in [AP -> Seq(NetPacket)]
    BY <1>1, <1>2, QueueGrows DEF MobileInv, FramesOK
  <1>4. FramesOK'
    BY <1>3 DEF Ping, FramesOK, MobileInv
  <1> QED BY <1>4, OnlyFrames DEF Ping

LEMMA MobileStutters ==
  ASSUME MobileInv, UNCHANGED vars
  PROVE  MobileInv'
  <1>1. FramesOK'
    BY DEF MobileInv, FramesOK, vars, netVars
  <1> QED BY <1>1, OnlyFrames DEF vars

LEMMA MobileBegins ==
  ASSUME Init
  PROVE  MobileInv
  <1>1. /\ mp \in [AP -> Maps(Address \union {0}, Node \union {NULL})]
        /\ ipmp \in [AP -> Maps(Address, AP)]
    <2>1. \A V : <<>> \in [{} -> V]
      OBVIOUS
    <2>2. \A K, V : <<>> \in Maps(K, V)
      BY <2>1 DEF Maps
    <2> QED BY <2>2 DEF Init
  <1>2. TypeOK
    BY <1>1 DEF Init, TypeOK, Maps
  <1>3. FramesOK
    <2>1. \A S : <<>> \in Seq(S)
      BY EmptySeq
    <2> QED BY <2>1 DEF Init, FramesOK
  <1>4. ASSUME NEW a \in AP PROVE Distinct(ips[a]) /\ LeasedRight(a)
    BY MobileIpAssumption DEF Init, Distinct, LeasedRight
  <1> QED BY <1>2, <1>3, <1>4, MobileIpAssumption DEF Init, MobileInv

LEMMA MobileSteps ==
  ASSUME MobileInv, [Next]_vars
  PROVE  MobileInv'
  <1>1. CASE UNCHANGED vars
    BY <1>1, MobileStutters
  <1>2. ASSUME NEW a \in AP, CellStep(a) \/ NetStep(a) PROVE MobileInv'
    BY <1>2, OfferIPKept, AcknowledgedKept, VisitKept, ForwardReplyKept, PingArrivesKept,
       RegistrationArrivesKept, TunnelEndsKept DEF CellStep, NetStep
  <1>3. ASSUME NEW n \in Node, NodeStep(n) \/ Beacon(n) \/ Move(n) PROVE MobileInv'
    BY <1>3, TakeOfferKept, AnswerPingKept, BeaconKept, MoveKept DEF NodeStep
  <1>4. CASE Ping
    BY <1>4, PingKept
  <1> QED BY <1>1, <1>2, <1>3, <1>4 DEF Next

\* What access points and nodes keep between two steps, with what is on its way
\* (ap.cpp and node.cpp: processFrame() and run()).
THEOREM MobileKeepsInvariant == Spec => []MobileInv
  <1> QED BY MobileBegins, MobileSteps, PTL DEF Spec

\* getIP(), removeIP() and the two maps lose no address and lease none twice, in
\* whatever order requests, offers and acknowledgements meet and wherever the nodes
\* move meanwhile: for any access points, pools and nodes.
THEOREM AddressesStayAccounted == Spec => []AddressesAccounted
  <1>1. MobileInv => AddressesAccounted
    BY DEF MobileInv, AddressesAccounted, Distinct, LeasedRight
  <1> QED BY <1>1, MobileKeepsInvariant, PTL
=============================================================================
