----------------------------- MODULE MCMobileIp -----------------------------
(***************************************************************************)
(* Two access points with two addresses each, and two nodes; getIP() on    *)
(* every small array of addresses, and the bytes of the packets.           *)
(***************************************************************************)
EXTENDS MobileIp
CONSTANTS h, f, n1, n2

MCPool == h :> <<1, 2, 0, 0>> @@ f :> <<3, 4, 0>>

Arrays == {p \in UNION {[1..k -> 0..3] : k \in 1..5} :
              \A i, j \in DOMAIN p : p[i] = p[j] /\ p[i] # 0 => i = j}

\* getIP() loses no address and makes none, offers one if there is one, and an
\* address that is acknowledged at once is the one that goes.
ASSUME Offered == \A p \in Arrays :
    LET got == GetIP(p) IN
    /\ Range(got.pool) = Range(p) /\ Len(got.pool) = Len(p)
    /\ \A i, j \in DOMAIN p : got.pool[i] = got.pool[j] /\ got.pool[i] # 0 => i = j
    /\ got.ip = 0 <=> Range(p) \subseteq {0}
    /\ Range(RemoveIP(got.pool, got.ip)) \ {0} = Range(p) \ {0, got.ip}

\* getIP() place by place, as its inner loop goes (ap.cpp:417).
Swapped(pool) ==
    LET i == FirstFree(pool)
        Swap(p, j) == IF p[j] # 0 THEN p
                      ELSE [p EXCEPT ![j - 1] = p[i], ![i] = p[j - 1]]
    IN FoldLeft(Swap, pool, [k \in 1..(Len(pool) - i + 1) |-> k + i - 1])
ASSUME RoundTaken == \A p \in Arrays :
    GetIP(p).pool = IF Range(p) \subseteq {0} THEN p ELSE Swapped(p)

\* A second request that comes before the first acknowledgement gets another
\* address, but for the last two addresses of an array.
ASSUME OfferedTwice ==
    /\ GetIP(GetIP(<<1, 2, 3, 0, 0>>).pool).ip = 2
    /\ GetIP(GetIP(<<1, 2, 0>>).pool).ip = 2
    /\ GetIP(GetIP(<<1, 2, 0, 0>>).pool).ip = 1

W == INSTANCE Wire

Bytes(B, k) == [1..k -> 0..(B - 1)]

\* What is written as bytes is read back: addresses, and a hello whatever bytes its
\* distance and age are made of.
ASSUME NumbersReadBack ==
    /\ \A n \in 0..255 : W!FromBytes(4, W!ToBytes(4, n, 4)) = n /\ W!FromLittle(4, W!LittleEndian(4, n, 4)) = n
    /\ \A d \in Bytes(2, 12) : W!ParsFrame(2, d) =
           [dst |-> W!FromBytes(2, SubSeq(d, 1, 6)), src |-> W!FromBytes(2, SubSeq(d, 7, 12))]
    /\ \A d \in Bytes(3, 6) : W!ToBytes(3, W!FromBytes(3, d), 6) = d
    /\ W!ParsInfo(<<48, 65, 58, 49, 70>>, <<55>>) = <<55, 48, 65, 49, 70>>
ASSUME HelloReadBack == \A dist \in 0..15, age \in {0, 1, 4, 37, 255} : \A r, i \in {<<49>>, <<49, 50>>} :
    LET x == [root |-> r, dist |-> dist, id |-> i, age |-> age]
    IN W!ParsHello(4, W!MakeHello(4, x)) = x

\* str_compare() orders the identifiers.
Names == UNION {Bytes(3, k) : k \in 0..3}
ASSUME NamesOrdered == \A s, t \in Names :
    /\ ~ (W!StrLess(s, t) /\ W!StrLess(t, s))
    /\ s # t => W!StrLess(s, t) \/ W!StrLess(t, s)
    /\ \A u \in Names : W!StrLess(s, t) /\ W!StrLess(t, u) => W!StrLess(s, u)

\* With its checksum in it, a sequence of words sums to nothing, and no other word
\* in its place does, but that 0 and W - 1 count the same.
ASSUME ChecksumFound == \A d \in UNION {[1..k -> 0..3] : k \in 1..5} : \A x \in 0..3 :
    W!Checksum(4, Append(d, x)) = 0 => x = W!Checksum(4, d) \/ (x = 3 /\ W!Checksum(4, d) = 0)
ASSUME ChecksumRight == \A d \in UNION {[1..k -> 0..3] : k \in 1..5} :
    W!Checksum(4, Append(d, W!Checksum(4, d))) = 0
ASSUME HeaderAccepted == \A a \in {0, 1, 192, 255}, c \in {0, 7, 255}, p \in {96, 101} :
    W!Checksum(65536, W!Words(256, W!MakeIpPacket(<<a, 168, c, a>>, <<c, a, 255, c>>, p))) = 0

\* A tunnelled frame of the length the code is written for is taken; a longer one
\* only if what is cut off happens to sum to nothing.
ASSUME TunnelTaken ==
    /\ \A d \in Bytes(2, 4) : W!TunnelAccepted(2, W!Tunnelled(2, d, 4))
    /\ \A d \in Bytes(2, 6) : W!TunnelAccepted(2, W!Tunnelled(2, d, 4)) <=>
           W!Checksum(4, W!Words(2, d)) = W!Checksum(4, W!Words(2, SubSeq(d, 1, 4)))

ASSUME InfosRead ==
    /\ W!ParsInfos(256, <<<<"0", "A">>, <<"F", "F">>>>, <<<<0, 0, 1, 2>>, <<256, 1, 0, 3>>>>) =
           [gateway |-> <<10, 255>>, ips |-> <<258, 65539>>]
    /\ \A c \in DOMAIN W!HexToDec, e \in DOMAIN W!HexToDec :
           W!Ahtob(<<c, e>>) = W!FromBytes(16, <<W!HexToDec[c], W!HexToDec[e]>>)
    /\ W!IsBroadcast([i \in 1..6 |-> 255]) /\ ~W!IsMyMac(<<1, 2, 3, 4, 5, 6>>, <<1, 2, 3, 4, 5, 7>>)
=============================================================================
