-------------------------------- MODULE Wire --------------------------------
(***************************************************************************)
(* What the programs of the network simulator write and read.  The bytes   *)
(* of the bridge's hello (pa2-86105039/user/sm.cpp) and of the packets of  *)
(* the access point and the node (pa3-86105039/CF/user); and the client    *)
(* that carries their frames (pa3-86105039/CF/base/cf.cpp): its answers to *)
(* arguments, to the server and to partial transfers.  All as functions.   *)
(*                                                                         *)
(* A byte is a number below B, 256 in the code.  The client knows a string *)
(* by its length or, where it is read character by character, as a         *)
(* sequence of digits with DOT between them.                               *)
(***************************************************************************)
EXTENDS Integers, Sequences, FiniteSets, SequencesExt, Functions

\* Characters are their codes, but for hexadecimal digits.
NUL == 0
SPACE == 32
COLON == 58

(***************************************************************************)
(* Numbers as bytes.                                                       *)
(***************************************************************************)

\* ext_IP() of four bytes and ext_mac() of six: the first is the most significant.
FromBytes(B, d) == FoldLeft(LAMBDA n, x : n * B + x, 0, d)

\* ip2array() and mac2array(), k bytes; the arrays they return the address of are
\* local, so that this is what the caller reads only if nothing reused the stack.
ToBytes(B, n, k) == [i \in 1..k |-> (n \div B^(k - i)) % B]

\* The loops of make_hello() that write dist and age: least significant first.
LittleEndian(B, n, k) == Reverse(ToBytes(B, n, k))
FromLittle(B, d) == FromBytes(B, Reverse(d))

\* parsframe(), onto numbers that are zero before it.
ParsFrame(B, d) == [dst |-> FromBytes(B, SubSeq(d, 1, 6)), src |-> FromBytes(B, SubSeq(d, 7, 12))]

(***************************************************************************)
(* The hello of the bridge.                                                *)
(***************************************************************************)

\* parsinfo(): the identifier of a bridge is its number and then its address
\* without the colons; strcat() writes past the end of the string it appends to.
ParsInfo(mac, id) == id \o SelectSeq(mac, LAMBDA c : c # COLON)

MakeHello(B, h) ==
    [i \in 1..12 |-> NUL] \o <<72>> \o h.root \o <<SPACE>> \o LittleEndian(B, h.dist, 2) \o <<SPACE>>
        \o h.id \o <<SPACE>> \o LittleEndian(B, h.age, 4)

\* strtok(d, " ") on a string that does not begin with a space.
Token(d) ==
    LET stops == {i \in DOMAIN d : d[i] \in {SPACE, NUL}}
    IN IF stops = {} THEN d
       ELSE SubSeq(d, 1, (CHOOSE i \in stops : \A j \in stops : i <= j) - 1)

ParsHello(B, d) ==
    LET root == Token(SubSeq(d, 14, Len(d)))
        d1 == SubSeq(d, 15 + Len(root), Len(d))
        id == Token(SubSeq(d1, 4, Len(d1)))
        d2 == SubSeq(d1, 5 + Len(id), Len(d1))
    IN [root |-> root, dist |-> FromLittle(B, SubSeq(d1, 1, 2)), id |-> id,
        age |-> FromLittle(B, SubSeq(d2, 1, 4))]

\* str_compare(s1, s2) < 0, characters as numbers: the shorter is the less.
StrLess(s1, s2) ==
    IF Len(s1) # Len(s2) THEN Len(s1) < Len(s2)
    ELSE \E i \in DOMAIN s1 : s1[i] < s2[i] /\ \A j \in 1..(i - 1) : s1[j] = s2[j]

(***************************************************************************)
(* What the simulator tells an access point: the address of its gateway,   *)
(* in hexadecimal, and the addresses of its pool, each with its numbers.   *)
(***************************************************************************)

\* hextodec(): upper case only; it falls off its end for anything else.
HexToDec == [c \in {"0", "1", "2", "3", "4", "5", "6", "7", "8", "9", "A", "B", "C", "D", "E", "F"} |->
    CHOOSE v \in 0..15 :
        c = <<"0", "1", "2", "3", "4", "5", "6", "7", "8", "9", "A", "B", "C", "D", "E", "F">>[v + 1]]

Ahtob(s) == (16 * HexToDec[s[1]] + HexToDec[s[2]]) % 256

\* The numbers of an address are cast to a byte one by one, and only the first
\* three of them shift what is there.
ParsInfos(B, mac, addresses) ==
    LET Address(numbers) == FoldLeft(
            LAMBDA n, i : (n + (numbers[i] % B)) * (IF i < 4 THEN B ELSE 1), 0, [i \in DOMAIN numbers |-> i])
    IN [gateway |-> [i \in DOMAIN mac |-> Ahtob(mac[i])],
        ips |-> [i \in DOMAIN addresses |-> Address(addresses[i])]]

(***************************************************************************)
(* Checksums and packets.                                                  *)
(***************************************************************************)

\* checksum() of words below W, 2^16 in the code: two folds of the carry.
Checksum(W, words) ==
    LET sum == FoldLeft(LAMBDA n, x : n + x, 0, words)
        once == (sum \div W) + (sum % W)
        twice == once + (once \div W)
    IN (W - 1) - (twice % W)

\* Bytes two by two, as a little-endian machine reads them.
Words(B, d) == [i \in 1..(Len(d) \div 2) |-> d[2 * i - 1] + B * d[2 * i]]

\* The header that make_ip_packet() writes after the 14 bytes of the frame's.
MakeIpPacket(src, dst, protocol) ==
    LET header(sum) == <<69, 0, 0, 186, 0, 0, 0, 0, 240, protocol>> \o sum \o src \o dst
    IN header(LittleEndian(256, Checksum(65536, Words(256, header(<<0, 0>>))), 2))

\* What the home puts behind the header of a packet it tunnels: the sum of all of
\* the frame, and size bytes of it (98 in the code).
Tunnelled(B, frame, size) ==
    LittleEndian(B, Checksum(B * B, Words(B, frame)), 2)
        \o [i \in 1..size |-> IF i <= Len(frame) THEN frame[i] ELSE 0]

\* The other end takes it by the sum of what came.
TunnelAccepted(B, d) == Checksum(B * B, Words(B, d)) = 0

IsMyMac(mac, imac) == \A i \in 1..6 : mac[i] = imac[i]
IsBroadcast(mac) == \A i \in 1..6 : mac[i] = 255

-----------------------------------------------------------------------------
FRAME_BUFFER_SIZE == 1524
DOT == -2

(***************************************************************************)
(* The client: its arguments.                                              *)
(***************************************************************************)

\* parseIP(): a dot is put behind the address and each number ends at one.
ParseIP(s) ==
    LET ip == Append(s, DOT)
        dots == {k \in DOMAIN ip : ip[k] = DOT}
        DotPos(i) == IF i = 0 THEN 0 ELSE CHOOSE k \in dots : Cardinality({j \in dots : j <= k}) = i
        Number(i) == SubSeq(ip, DotPos(i - 1) + 1, DotPos(i) - 1)
        Value(i) == FoldLeft(LAMBDA num, d : num * 10 + d, 0, Number(i))
    IN IF /\ Cardinality(dots) >= 4
          /\ \A i \in 1..4 : /\ Len(Number(i)) <= 3
                             /\ Range(Number(i)) \subseteq 0..9
                             /\ Value(i) <= 255
          /\ DotPos(4) = Len(ip)
       THEN [ok |-> TRUE, ip |-> [i \in 1..4 |-> Value(i)]] ELSE [ok |-> FALSE]

\* parsePort(): num is an int of w bits, which wraps; the port has p of them.
ParsePort(w, p, s) ==
    LET Wrapped(n) == ((n + 2^(w - 1)) % 2^w) - 2^(w - 1)
        num == FoldLeft(LAMBDA n, d : Wrapped(n * 10 + d), 0, s)
    IN IF Range(s) \subseteq 0..9 /\ num < 2^p THEN [ok |-> TRUE, port |-> num % 2^p] ELSE [ok |-> FALSE]

\* parseArguments(): each option once, one of --id, --new and --free, --node only
\* if wanted, with values that are not refused by parseIP() or parsePort().
\* An option at the end takes the null pointer behind the arguments.
Mark == [o \in {"--ip", "--port", "--map", "--user", "--pass", "--id", "--new", "--free", "--node"} |->
    CASE o = "--ip" -> 0 [] o = "--port" -> 1 [] o = "--map" -> 2 [] o = "--user" -> 3 [] o = "--pass" -> 4
      [] o \in {"--id", "--new", "--free"} -> 5 [] o = "--node" -> 6]

ParseArguments(argv, refused) ==
    LET Step(s, arg) ==
            IF s.usage THEN s
            ELSE IF s.option # "" /\ <<s.option, arg>> \in refused THEN [s EXCEPT !.usage = TRUE]
            ELSE IF s.option # "" THEN [s EXCEPT !.value = @ \union {<<s.option, arg>>}, !.option = ""]
            ELSE IF arg \notin DOMAIN Mark \/ Mark[arg] \in s.mark THEN [s EXCEPT !.usage = TRUE]
            ELSE [s EXCEPT !.mark = @ \union {Mark[arg]},
                           !.option = IF arg \in {"--new", "--free"} THEN "" ELSE arg,
                           !.needNewMap = CASE arg = "--id" -> 0 [] arg = "--new" -> 1 [] arg = "--free" -> -1
                                            [] OTHER -> @]
        end == FoldLeft(Step, [usage |-> FALSE, option |-> "", mark |-> {}, value |-> {}, needNewMap |-> 0], argv)
    IN IF end.usage THEN [result |-> "usage"]
       ELSE IF end.option # "" THEN [result |-> "undefined"]
       ELSE IF ~ (0..5 \subseteq end.mark) THEN [result |-> "usage"]
       ELSE [result |-> "run", needNewMap |-> end.needNewMap, value |-> end.value]

(***************************************************************************)
(* Transfers.                                                              *)
(***************************************************************************)

\* sendOrReceive() when send() or recv() returns counts: what is left to transfer
\* and whether it has returned.  A count is at most what is left, -1 is an error
\* and 0, the end of the stream, is taken for a transfer that goes on.
SendOrReceive(size, counts) ==
    FoldLeft(LAMBDA s, count :
                 IF s.returned # "not yet" THEN s
                 ELSE IF count < 0 THEN [s EXCEPT !.returned = "false"]
                 ELSE [left |-> s.left - count,
                       returned |-> IF count < s.left THEN "not yet" ELSE "true"],
             [left |-> size, returned |-> "not yet"], counts)

\* realSendFrame(): the bytes it puts in front of the frame, in all, or nothing.
SendFrame(length) ==
    IF length < 14 \/ length >= 65536 - 4 THEN [sent |-> FALSE]
    ELSE [sent |-> TRUE, command |-> 1, size |-> 4 + length, bytes |-> 4 + 2 + 4 + length]

\* One turn of the loop of simulateMachine(): what came has type c, says that size
\* bytes follow, which come if ok, the first four of them an interface.
Received(c, size, ok, interfaceIndex, countOfInterfaces) ==
    IF c = 5 THEN [result |-> IF size < 1 \/ ~ok THEN "abort" ELSE "continue"]
    ELSE IF c # 4 \/ size < 4 \/ size > FRAME_BUFFER_SIZE \/ ~ok THEN [result |-> "abort"]
    ELSE IF interfaceIndex \notin 0..(countOfInterfaces - 1) THEN [result |-> "abort"]
    ELSE [result |-> "frame", length |-> size - 4]

(***************************************************************************)
(* The negotiations.  An answer of the server is [c1, c2] and what follows *)
(* it, or IO where the transfer fails.  Each returns whether to go on.     *)
(***************************************************************************)
IO == [c1 |-> -1, c2 |-> -1]

SigningIn(userName, password, answer) ==
    userName <= 20 /\ password <= 50 /\ answer.c1 = 0 /\ answer.c2 = 1

\* What selecting a map needs in the buffer, and what is tested for.
MapRequestSize(mapName, creatorId) == 2 + (2 + mapName + 1) + (2 + creatorId + 1) + 4
MapRequestTested(mapName, creatorId) == 3 * 2 + mapName + creatorId + 4
MapSelecting(mapName, creatorId, answer) ==
    /\ MapRequestTested(mapName, creatorId) <= FRAME_BUFFER_SIZE
    /\ answer.c1 = 1 /\ answer.c2 = 2

\* Without a name the client waits for ever; the map works without it.
NodeSelecting(nodeName, answer) ==
    IF nodeName = 0 THEN "wait"
    ELSE IF nodeName + 1 <= FRAME_BUFFER_SIZE - 2 /\ answer.c1 = 1 /\ answer.c2 = 4 THEN "yes" ELSE "no"

\* The count of interfaces and then each: a name of a type that is known, at the
\* beginning of size bytes that end in a hardware address, an address and a mask.
InterfaceInformation(info) ==
    info.size <= FRAME_BUFFER_SIZE /\ info.ok /\ info.name \in {"EthernetInterface", "EthernetPhysicalInterface"}
InterfacesInformation(answer, infos) ==
    /\ answer.c1 = 2 /\ answer.c2 = 1
    /\ Len(infos) >= 1 /\ \A k \in DOMAIN infos : InterfaceInformation(infos[k])

CustomInformation(answer, size, ok) == answer.c1 = 2 /\ answer.c2 = 2 /\ size >= 1 /\ ok
StartSimulation(answer) == answer.c1 = 3

\* main(): the number of the step that fails, 0 where the simulation starts.
Negotiated(args, answers) ==
    LET node == NodeSelecting(args.nodeName, answers[3])
    IN CASE ~SigningIn(args.userName, args.password, answers[1]) -> 1
         [] ~MapSelecting(args.mapName,
                IF args.needNewMap # 0 THEN args.userName ELSE args.creatorId, answers[2]) -> 2
         [] node # "yes" -> IF node = "wait" THEN -1 ELSE 3
         [] ~InterfacesInformation(answers[4], args.infos) -> 4
         [] ~CustomInformation(answers[5], args.custom, TRUE) -> 5
         [] ~StartSimulation(answers[6]) -> 6
         [] OTHER -> 0
=============================================================================
