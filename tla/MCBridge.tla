------------------------------ MODULE MCBridge ------------------------------
(* Small instances for Bridge, and its table of addresses on all inputs of *)
(* a small size.                                                           *)
EXTENDS Bridge, Integers

\* Bridges 1, 3 and 2 in a row: 3 relays between the other two.
Line == 1 :> {1} @@ 3 :> {1, 2} @@ 2 :> {2}

Station == {"s", "t"}
Entry == [port : {1, 2, 3}, time : 0..2]
Tables == UNION {[S -> Entry] : S \in SUBSET Station}

\* A frame never goes back where it came from, leaves a blocked interface or is
\* copied once its destination is known; and only an unknown destination is
\* kept from the interfaces that somebody else serves.
ASSUME FramesRouted ==
    \A t \in Tables, src, dst \in Station, p \in {1, 2, 3}, quiet, off \in SUBSET {1, 2, 3} :
        LET r == DataFrame(t, src, dst, p, 2, {1, 2, 3}, quiet, off)
        IN /\ p \notin r.out
           /\ p \in off => r.table = t /\ r.out = {}
           /\ dst \in DOMAIN r.table => Cardinality(r.out) <= 1
           /\ dst \notin DOMAIN t \union {src} => r.out \cap quiet = {}
           /\ src \in DOMAIN t => r.table[src] = t[src]

\* A pass makes progress while an entry is too old, touches no other entry, and
\* so many passes end with fresh entries only.
ASSUME TablesAge ==
    \A t \in Tables : \A a \in AgedTables(t, 3, 1) :
        LET old == {s \in DOMAIN t : t[s].time < 2}
        IN /\ \A s \in DOMAIN a : a[s] = t[s]
           /\ DOMAIN t \ old \subseteq DOMAIN a
           /\ old # {} => a # t

(***************************************************************************)
(* The client of the simulator.                                            *)
(***************************************************************************)
C == INSTANCE Wire
Digits(n) == IF n < 10 THEN <<n>> ELSE IF n < 100 THEN <<n \div 10, n % 10>>
             ELSE <<n \div 100, (n \div 10) % 10, n % 10>>
Dots(a) == Digits(a[1]) \o <<-2>> \o Digits(a[2]) \o <<-2>> \o Digits(a[3]) \o <<-2>> \o Digits(a[4])

\* An address is read as it was written, if its numbers are bytes, and a
\* number left out is zero; a port too, but that numbers so large that they wrap
\* around to a small or negative one pass.
ASSUME AddressRead ==
    /\ \A a \in [1..4 -> {0, 7, 42, 255, 256, 999}] :
           LET r == C!ParseIP(Dots(a))
           IN IF Range(a) \subseteq 0..255 THEN r.ok /\ r.ip = a ELSE ~r.ok
    /\ \A a \in [1..4 -> {0, 255}] : ~C!ParseIP(Append(Dots(a), -2)).ok /\ ~C!ParseIP(SubSeq(Dots(a), 1, 5)).ok
    /\ C!ParseIP(<<-2, -2, -2>>).ip = <<0, 0, 0, 0>>
ASSUME PortRead ==
    /\ \A n \in 0..127 : C!ParsePort(8, 4, Digits(n)).ok <=> n < 16
    /\ \A n \in 0..15 : C!ParsePort(8, 4, Digits(n)).port = n
    /\ \A n \in 128..271 : C!ParsePort(8, 4, Digits(n)).ok

\* A transfer ends when all of it is through, in however many pieces, and goes on
\* for ever when the stream has ended before that.
Counts == UNION {[1..k -> -1..4] : k \in 0..4}
Total(counts) == FoldLeft(LAMBDA n, c : n + c, 0, counts)
ASSUME TransferWhole == \A size \in 1..4, counts \in Counts :
    LET s == C!SendOrReceive(size, counts)
    IN -1 \notin Range(counts) /\ Total(counts) <= size =>
          /\ s.left = size - Total(counts)
          /\ s.returned = IF s.left = 0 THEN "true" ELSE "not yet"

\* What one client may send another takes, up to the length of its buffer; a
\* longer frame ends the other's simulation.
ASSUME FramesFit == \A length \in {0, 13, 14, 60, 1519, 1520, 1521, 65531, 65532} :
    LET s == C!SendFrame(length) IN s.sent =>
        C!Received(4, s.size, TRUE, 0, 2) =
            IF length <= 1520 THEN [result |-> "frame", length |-> length] ELSE [result |-> "abort"]

\* The test of the map's name leaves out the two bytes that end the strings.
ASSUME MapRequestFits == \A m, c \in {0, 1, 20, 1490, 1493, 1494, 1495, 1514} :
    C!MapRequestTested(m, c) + 2 = C!MapRequestSize(m, c)

Given == <<"--ip", "1", "--port", "2", "--map", "3", "--user", "4", "--pass", "5">>
Refused == {<<"--ip", "9">>}
ASSUME ArgumentsRead ==
    /\ C!ParseArguments(Given \o <<"--new">>, Refused).needNewMap = 1
    /\ C!ParseArguments(<<"--free">> \o Given, Refused).needNewMap = -1
    /\ C!ParseArguments(Given \o <<"--id", "6", "--node", "--new">>, Refused).value \ {<<"--id", "6">>, <<"--node", "--new">>}
           = {<<Given[k], Given[k + 1]>> : k \in {1, 3, 5, 7, 9}}
    /\ C!ParseArguments(Given, Refused).result = "usage"
    /\ C!ParseArguments(Given \o <<"--new", "--id", "6">>, Refused).result = "usage"
    /\ C!ParseArguments(Given \o <<"--new", "--map", "6">>, Refused).result = "usage"
    /\ C!ParseArguments(<<"--ip", "9">> \o Given, Refused).result = "usage"
    /\ C!ParseArguments(Given \o <<"--id">>, Refused).result = "undefined"

\* The simulation starts if the server agrees to every step, and the first step it
\* does not agree to is where it ends.
Valid == [userName |-> 5, password |-> 50, mapName |-> 9, creatorId |-> 3, nodeName |-> 4, needNewMap |-> 1,
          infos |-> <<[size |-> 60, ok |-> TRUE, name |-> "EthernetInterface"]>>, custom |-> 1]
Agreed == <<[c1 |-> 0, c2 |-> 1], [c1 |-> 1, c2 |-> 2], [c1 |-> 1, c2 |-> 4],
            [c1 |-> 2, c2 |-> 1], [c1 |-> 2, c2 |-> 2], [c1 |-> 3, c2 |-> 0]>>
ASSUME NegotiatedInOrder ==
    /\ C!Negotiated(Valid, Agreed) = 0
    /\ \A refused \in SUBSET (1..6) \ {{}} :
           C!Negotiated(Valid, [k \in 1..6 |-> IF k \in refused THEN C!IO ELSE Agreed[k]]) =
               CHOOSE k \in refused : \A j \in refused : k <= j
    /\ C!Negotiated([Valid EXCEPT !.nodeName = 0], Agreed) = -1
    /\ C!Negotiated([Valid EXCEPT !.password = 51], Agreed) = 1
=============================================================================
