--------------------------- MODULE SerialProofs ---------------------------
(***************************************************************************)
(* Proofs about Serial, for any bytes, queues of any size and any number   *)
(* of bytes out and in.                                                    *)
(***************************************************************************)
EXTENDS Serial, SequenceTheorems, TLAPS

(***************************************************************************)
(* The inductive invariant.  Polling and the queue are two ways to the     *)
(* same wire, and the first may only be taken when nothing in the second   *)
(* is older; the interrupt enable register has to be right about the input *)
(* buffer all the time, and about the transmit queue when interrupts are   *)
(* on; and what a thread sleeps for is always followed by its being woken. *)
(***************************************************************************)
Sent == wire \o Opt(thr) \o Opt(polled) \o txq

ModeRight == mode # "QUEUE" => txq = <<>> /\ writer = NULL /\ held = NULL

CpuRight ==
    /\ polled # NULL => cpu \in {"polling", "flushing"}
    /\ held # NULL => cpu \in {"polling", "queueing"}
    /\ cpu = "polling" => polled # NULL
    /\ cpu = "queueing" => held # NULL
    /\ cpu = "polling" /\ mode = "QUEUE" => held # NULL
    /\ cpu \in {"receiving", "sending"} => mode = "QUEUE"

Told ==
    /\ mode = "QUEUE" => ("IER_RECV" \in ier <=> ~input_full(buffer))
    /\ cpu = "threads" /\ mode = "QUEUE" /\ txq # <<>> => "IER_XMIT" \in ier

Woken ==
    /\ writer # NULL /\ Len(txq) < capacity => "writer" \in woken
    /\ reader = "asleep" /\ buffer # <<>> => "reader" \in woken
    /\ "writer" \in woken => writer # NULL

SInv == SerialTypeOK /\ ModeRight /\ CpuRight /\ Sent = accepted /\ Told /\ Woken

-----------------------------------------------------------------------------
(***************************************************************************)
(* Sequences.                                                              *)
(***************************************************************************)
LEMMA OptTyped == ASSUME NEW b \in Byte \cup {NULL}  PROVE Opt(b) \in Seq(Byte)
  BY DEF Opt

LEMMA CapacityPositive == capacity \in Nat /\ capacity >= 1
  BY SerialAssumption DEF capacity

LEMMA PutTyped ==
    ASSUME NEW q \in Seq(Byte), NEW b \in Byte
    PROVE  Append(q, b) \in Seq(Byte) /\ Append(q, b) # <<>> /\ Len(Append(q, b)) = Len(q) + 1
  BY AppendProperties

LEMMA GetTyped ==
    ASSUME NEW q \in Seq(Byte), q # <<>>
    PROVE  Tail(q) \in Seq(Byte) /\ Head(q) \in Byte /\ Len(Tail(q)) = Len(q) - 1 /\ Len(q) \in Nat
  BY HeadTailProperties, LenProperties

LEMMA HeadThenTail ==
    ASSUME NEW q \in Seq(Byte), q # <<>>
    PROVE  <<Head(q)>> \o Tail(q) = q
  <1>1. Len(q) \in Nat \ {0} /\ Head(q) = q[1]
    BY EmptySeq
  <1>2. 1 \in 1..Len(q) /\ Len(q) \in 1..Len(q) /\ 1 + 1 = 2
    BY <1>1
  <1>3. SubSeq(q, 1, Len(q)) = <<q[1]>> \o SubSeq(q, 1 + 1, Len(q))
    BY <1>2, SubSeqRecursiveFirst
  <1>4. SubSeq(q, 1, Len(q)) = q /\ Tail(q) = SubSeq(q, 2, Len(q))
    BY SubSeqFull, TailIsSubSeq
  <1> QED BY <1>1, <1>2, <1>3, <1>4

\* What is sent and what is to be sent, when a byte comes at the end ...
LEMMA ComesLast ==
    ASSUME NEW front \in Seq(Byte), NEW q \in Seq(Byte), NEW b \in Byte
    PROVE  front \o Append(q, b) = Append(front \o q, b)
  <1>1. front \o q \in Seq(Byte) /\ <<b>> \in Seq(Byte)
    BY ConcatProperties
  <1>2. Append(q, b) = q \o <<b>> /\ Append(front \o q, b) = (front \o q) \o <<b>>
    BY <1>1, AppendIsConcat
  <1> QED BY <1>1, <1>2, ConcatAssociative

\* ... when the head of the queue moves to where nothing is ...
LEMMA HeadMoves ==
    ASSUME NEW front \in Seq(Byte), NEW q \in Seq(Byte), q # <<>>
    PROVE  front \o <<Head(q)>> \o Tail(q) = front \o q
  <1>1. <<Head(q)>> \in Seq(Byte) /\ Tail(q) \in Seq(Byte)
    BY GetTyped
  <1> QED BY <1>1, HeadThenTail, ConcatAssociative

\* ... and when the byte in the port goes out.
LEMMA GoesOut ==
    ASSUME NEW w \in Seq(Byte), NEW b \in Byte
    PROVE  Append(w, b) \o <<>> = w \o <<b>>
  BY AppendIsConcat, AppendProperties, ConcatEmptySeq

LEMMA OptEmpty == Opt(NULL) = <<>> /\ \A b \in Byte : Opt(b) = <<b>>
  BY SerialAssumption DEF Opt

-----------------------------------------------------------------------------
(***************************************************************************)
(* The port.                                                               *)
(***************************************************************************)
LEMMA IerForRight ==
    ASSUME NEW q, NEW k
    PROVE  /\ IerFor(q, k) \in SUBSET {"IER_RECV", "IER_XMIT"}
           /\ "IER_RECV" \in IerFor(q, k) <=> ~input_full(k)
           /\ "IER_XMIT" \in IerFor(q, k) <=> q # <<>>
  BY DEF IerFor

LEMMA WriteIerDoes ==
    ASSUME UartTypeOK, NEW enabled \in SUBSET {"IER_RECV", "IER_XMIT"}, WriteIer(enabled)
    PROVE  UartTypeOK' /\ ier' = enabled /\ UNCHANGED <<rbr, thr, wire>>
  <1> USE DEF UartTypeOK, WriteIer
  <1>1. thr_event' \in BOOLEAN
    BY Zenon DEF EventAfter
  <1>2. irr' \in BOOLEAN
    BY Zenon DEF Latch
  <1> QED BY <1>1, <1>2

\* write_ier() tells the port what the queues are like.
LEMMA WriteIerTells ==
    ASSUME UartTypeOK, write_ier
    PROVE  UartTypeOK' /\ Told' /\ UNCHANGED <<rbr, thr, wire>>
  <1>1. WriteIer(IerFor(txq', buffer'))
    BY DEF write_ier
  <1>2. UartTypeOK' /\ ier' = IerFor(txq', buffer') /\ UNCHANGED <<rbr, thr, wire>>
    BY <1>1, IerForRight, WriteIerDoes
  <1> QED BY <1>2, IerForRight DEF Told

\* So does serial_notify(), unless nothing is queued yet.
LEMMA NotifyTells ==
    ASSUME UartTypeOK, serial_notify, mode' = mode
    PROVE  UartTypeOK' /\ Told' /\ UNCHANGED <<rbr, thr, wire>>
  <1>1. CASE mode = "QUEUE"
    BY <1>1, WriteIerTells DEF serial_notify
  <1>2. CASE mode # "QUEUE"
    BY <1>2 DEF serial_notify, uartVars, UartTypeOK, Told
  <1> QED BY <1>1, <1>2

\* Every byte fetched from the port is followed by an outb (IER_REG).
LEMMA FetchTells ==
    ASSUME UartTypeOK, ReadRbrWriteIer(IerFor(txq', buffer'))
    PROVE  UartTypeOK' /\ Told' /\ UNCHANGED <<thr, wire>> /\ rbr' = NULL
  <1> USE DEF UartTypeOK, ReadRbrWriteIer
  <1>1. thr_event' \in BOOLEAN /\ irr' \in BOOLEAN
    BY Zenon DEF EventAfter
  <1>2. ier' = IerFor(txq', buffer')
    OBVIOUS
  <1> QED BY <1>1, <1>2, IerForRight DEF Told

-----------------------------------------------------------------------------
(***************************************************************************)
(* The steps.                                                              *)
(***************************************************************************)
LEMMA InitHolds == Init => SInv
  <1> SUFFICES ASSUME Init  PROVE SInv
    OBVIOUS
  <1>1. <<>> \in Seq(Byte) /\ Len(<<>>) = 0 /\ <<>> \o <<>> = <<>>
    BY EmptySeq, ConcatEmptySeq
  <1>2. 0 \in 0..MaxIn /\ Len(<<>>) < INTQ_BUFSIZE
    BY <1>1, SerialAssumption
  <1>3. SerialTypeOK
    BY <1>1, <1>2 DEF Init, UartInit, SerialTypeOK, UartTypeOK
  <1>4. Sent = accepted
    BY <1>1, OptEmpty DEF Init, UartInit, Sent
  <1> QED BY <1>3, <1>4 DEF SInv, Init, UartInit, ModeRight, CpuRight, Told, Woken

LEMMA SentTyped == SerialTypeOK => /\ Opt(thr) \in Seq(Byte) /\ Opt(polled) \in Seq(Byte)
                                   /\ wire \o Opt(thr) \in Seq(Byte)
                                   /\ wire \o Opt(thr) \o Opt(polled) \in Seq(Byte)
  BY OptTyped, ConcatProperties DEF SerialTypeOK, UartTypeOK

\* A byte is put into the transmit queue, and the port is told.
LEMMA Queued ==
    ASSUME SInv, NEW b \in Byte, Tx!Put(b), write_ier, accepted' = Append(accepted, b),
           buffer' = buffer, reader' = reader, arrived' = arrived, mode' = mode, polled' = polled,
           mode = "QUEUE"
    PROVE  /\ UartTypeOK' /\ Told' /\ Sent' = accepted'
           /\ txq' \in Seq(Byte) /\ Len(txq') = Len(txq) + 1 /\ Len(txq') < INTQ_BUFSIZE
           /\ accepted' \in Seq(Byte)
  <1> USE DEF SInv
  <1>1. UartTypeOK' /\ Told' /\ UNCHANGED <<rbr, thr, wire>>
    BY WriteIerTells DEF SerialTypeOK
  <1>2. txq' = Append(txq, b) /\ Len(txq) < capacity /\ txq \in Seq(Byte) /\ accepted \in Seq(Byte)
    BY DEF Tx!Put, SerialTypeOK
  <1>3. txq' \in Seq(Byte) /\ Len(txq') = Len(txq) + 1 /\ accepted' \in Seq(Byte)
    BY <1>2, PutTyped
  <1>4. Len(txq') < INTQ_BUFSIZE
    <2>1. Len(txq) \in Nat
      BY <1>2, LenProperties
    <2> QED BY <1>2, <1>3, <2>1, SerialAssumption DEF capacity
  <1>5. Sent' = accepted'
    <2>1. wire \o Opt(thr) \o Opt(polled) \o Append(txq, b) = Append(Sent, b)
      <3> DEFINE front == wire \o Opt(thr) \o Opt(polled)
      <3>1. front \in Seq(Byte)
        BY SentTyped
      <3> HIDE DEF front
      <3>2. front \o Append(txq, b) = Append(front \o txq, b)
        BY <1>2, <3>1, ComesLast
      <3> QED BY <3>2 DEF Sent, front
    <2> QED BY <1>1, <1>2, <2>1 DEF Sent
  <1> QED BY <1>1, <1>3, <1>4, <1>5

\* A byte is put into the input buffer, and a reader that sleeps is woken.
LEMMA Buffered ==
    ASSUME SInv, NEW b \in Byte, Rx!Put(b), WakeReader, UNCHANGED <<txq, writer, reader>>
    PROVE  /\ buffer' \in Seq(Byte) /\ Len(buffer') < INTQ_BUFSIZE
           /\ woken' \in SUBSET {"reader", "writer"} /\ Woken'
  <1> USE DEF SInv
  <1>1. buffer' = Append(buffer, b) /\ Len(buffer) < capacity /\ buffer \in Seq(Byte)
    BY DEF Rx!Put, SerialTypeOK
  <1>2. buffer' \in Seq(Byte) /\ Len(buffer') = Len(buffer) + 1 /\ Len(buffer) \in Nat
    BY <1>1, PutTyped, LenProperties
  <1>3. Len(buffer') < INTQ_BUFSIZE
    BY <1>1, <1>2, SerialAssumption DEF capacity
  <1>4. woken' \in SUBSET {"reader", "writer"} /\ Woken'
    BY DEF WakeReader, Woken, SerialTypeOK
  <1> QED BY <1>2, <1>3, <1>4

\* The head of the transmit queue is taken, and a writer that sleeps is woken.
LEMMA Taken ==
    ASSUME SInv, Tx!Get, WakeWriter, UNCHANGED <<buffer, writer, reader>>
    PROVE  /\ txq # <<>> /\ Head(txq) \in Byte /\ txq' = Tail(txq)
           /\ txq' \in Seq(Byte) /\ Len(txq') < Len(txq) /\ Len(txq) < INTQ_BUFSIZE /\ Len(txq') < INTQ_BUFSIZE
           /\ woken' \in SUBSET {"reader", "writer"} /\ Woken'
  <1> USE DEF SInv
  <1>1. txq # <<>> /\ txq' = Tail(txq) /\ txq \in Seq(Byte) /\ Len(txq) < INTQ_BUFSIZE
    BY DEF Tx!Get, SerialTypeOK
  <1>2. Head(txq) \in Byte /\ txq' \in Seq(Byte) /\ Len(txq') = Len(txq) - 1 /\ Len(txq) \in Nat
    BY <1>1, GetTyped
  <1>3. Len(txq') < Len(txq) /\ Len(txq') < INTQ_BUFSIZE
    BY <1>1, <1>2, SerialAssumption
  <1>4. woken' \in SUBSET {"reader", "writer"} /\ Woken'
    BY DEF WakeWriter, Woken, SerialTypeOK
  <1> QED BY <1>1, <1>2, <1>3, <1>4

LEMMA PutcKeeps ==
    ASSUME SInv, NEW b \in Byte, Putc(b)
    PROVE  SInv'
  <1> USE DEF SInv, Putc
  <1>1. CpuRight'
    BY DEF CpuRight
  <1>2. CASE Tx!Put(b)
    <2>1. /\ UartTypeOK' /\ Told' /\ Sent' = accepted' /\ accepted' \in Seq(Byte)
          /\ txq' \in Seq(Byte) /\ Len(txq') = Len(txq) + 1 /\ Len(txq') < INTQ_BUFSIZE
      BY <1>2, Queued DEF Tx!Put
    <2>2. SerialTypeOK' /\ ModeRight'
      BY <2>1, <1>2 DEF SerialTypeOK, ModeRight
    <2>3. Woken'
      BY <2>1, <1>2 DEF Woken
    <2> QED BY <1>1, <2>1, <2>2, <2>3
  <1>3. CASE Len(txq) = capacity /\ writer' = b /\ UNCHANGED <<uartVars, txq, buffer, reader, woken, accepted>>
    <2>1. SerialTypeOK' /\ ModeRight'
      BY <1>3 DEF SerialTypeOK, UartTypeOK, ModeRight, uartVars
    <2>2. Told' /\ Sent' = accepted'
      BY <1>3 DEF Told, Sent, uartVars, input_full
    <2>3. Woken'
      BY <1>3, CapacityPositive, SerialAssumption DEF Woken
    <2> QED BY <1>1, <2>1, <2>2, <2>3
  <1> QED BY <1>2, <1>3

LEMMA WriterWokenKeeps ==
    ASSUME SInv, WriterWoken
    PROVE  SInv'
  <1> USE DEF SInv, WriterWoken
  <1>1. CpuRight'
    BY DEF CpuRight
  <1>2. writer \in Byte /\ mode = "QUEUE"
    BY DEF SerialTypeOK, Woken, ModeRight
  <1>3. CASE Tx!Put(writer) /\ writer' = NULL /\ write_ier
    <2>1. /\ UartTypeOK' /\ Told' /\ Sent' = accepted' /\ accepted' \in Seq(Byte)
          /\ txq' \in Seq(Byte) /\ Len(txq') = Len(txq) + 1 /\ Len(txq') < INTQ_BUFSIZE
      BY <1>2, <1>3, Queued DEF Tx!Put, Putc
    <2>2. SerialTypeOK' /\ ModeRight'
      BY <2>1, <1>2, <1>3 DEF SerialTypeOK, ModeRight, Tx!Put
    <2>3. Woken'
      BY <2>1, <1>3 DEF Woken, Tx!Put
    <2> QED BY <1>1, <2>1, <2>2, <2>3
  <1>4. CASE Len(txq) = capacity /\ UNCHANGED <<uartVars, txq, buffer, writer, reader, accepted>>
    <2>1. SerialTypeOK' /\ ModeRight'
      BY <1>4 DEF SerialTypeOK, UartTypeOK, ModeRight, uartVars
    <2>2. Told' /\ Sent' = accepted'
      BY <1>4 DEF Told, Sent, uartVars, input_full
    <2>3. Woken'
      BY <1>4, CapacityPositive DEF Woken
    <2> QED BY <1>1, <2>1, <2>2, <2>3
  <1> QED BY <1>3, <1>4

LEMMA PutcIntrOffKeeps ==
    ASSUME SInv, NEW b \in Byte, PutcIntrOff(b)
    PROVE  SInv'
  <1> USE DEF SInv, PutcIntrOff
  <1>1. CASE Tx!Put(b) /\ write_ier /\ UNCHANGED <<buffer, writer, reader, woken, cpu, polled, held>>
    <2>1. /\ UartTypeOK' /\ Told' /\ Sent' = accepted' /\ accepted' \in Seq(Byte)
          /\ txq' \in Seq(Byte) /\ Len(txq') = Len(txq) + 1 /\ Len(txq') < INTQ_BUFSIZE
      BY <1>1, Queued, CapacityPositive DEF Tx!Put
    <2>2. SerialTypeOK' /\ ModeRight' /\ CpuRight'
      BY <2>1, <1>1 DEF SerialTypeOK, ModeRight, CpuRight
    <2>3. Woken'
      BY <2>1, <1>1, LenProperties DEF Woken, SerialTypeOK, Tx!Put
    <2> QED BY <2>1, <2>2, <2>3
  <1>2. CASE /\ polled' = Head(txq) /\ held' = b /\ Tx!Get /\ WakeWriter /\ cpu' = "polling"
             /\ UNCHANGED <<uartVars, buffer, writer, reader, accepted>>
    <2>1. /\ txq # <<>> /\ Head(txq) \in Byte /\ txq' = Tail(txq)
          /\ txq' \in Seq(Byte) /\ Len(txq') < INTQ_BUFSIZE
          /\ woken' \in SUBSET {"reader", "writer"} /\ Woken'
      BY <1>2, Taken
    <2>2. SerialTypeOK' /\ ModeRight' /\ CpuRight'
      BY <2>1, <1>2, SerialAssumption DEF SerialTypeOK, UartTypeOK, ModeRight, CpuRight, uartVars
    <2>3. Told'
      BY <1>2 DEF Told, uartVars, input_full
    <2>4. Sent' = accepted'
      <3>1. polled = NULL
        BY <1>2 DEF CpuRight
      <3>2. Opt(polled) = <<>> /\ Opt(polled') = <<Head(txq)>> /\ thr' = thr /\ wire' = wire
        BY <3>1, <1>2, <2>1, OptEmpty DEF uartVars
      <3>3. wire \o Opt(thr) \in Seq(Byte) /\ wire \o Opt(thr) \o <<>> = wire \o Opt(thr) /\ txq \in Seq(Byte)
        BY SentTyped, ConcatEmptySeq DEF SerialTypeOK
      <3>4. wire \o Opt(thr) \o <<Head(txq)>> \o Tail(txq) = wire \o Opt(thr) \o txq
        BY <3>3, <2>1, HeadMoves
      <3> QED BY <3>2, <3>3, <3>4, <2>1, <1>2 DEF Sent
    <2> QED BY <2>1, <2>2, <2>3, <2>4
  <1> QED BY <1>1, <1>2

LEMMA PutcEarlyKeeps ==
    ASSUME SInv, NEW b \in Byte, PutcEarly(b)
    PROVE  SInv'
  <1> USE DEF SInv, PutcEarly, queueVars, uartVars
  <1>1. accepted' \in Seq(Byte)
    BY PutTyped DEF SerialTypeOK
  <1>2. SerialTypeOK' /\ ModeRight' /\ CpuRight'
    BY <1>1, SerialAssumption DEF SerialTypeOK, UartTypeOK, ModeRight, CpuRight
  <1>3. Told' /\ Woken'
    BY DEF Told, Woken
  <1>4. Sent' = accepted'
    <2>1. Opt(polled) = <<>> /\ Opt(polled') = <<b>> /\ txq = <<>>
      BY OptEmpty DEF CpuRight, ModeRight
    <2> DEFINE front == wire \o Opt(thr)
    <2>2. front \in Seq(Byte)
      BY SentTyped
    <2> HIDE DEF front
    <2>3. front \o <<>> = front /\ front \o <<b>> \in Seq(Byte) /\ Append(front, b) = front \o <<b>>
      BY <2>2, ConcatEmptySeq, AppendIsConcat, AppendProperties
    <2>4. (front \o <<b>>) \o <<>> = front \o <<b>>
      BY <2>3, ConcatEmptySeq
    <2>5. accepted = front
      BY <2>1, <2>3 DEF Sent, front
    <2> QED BY <2>1, <2>3, <2>4, <2>5 DEF Sent, front
  <1> QED BY <1>2, <1>3, <1>4

\* putc_poll() gives the port the byte that polled holds.
LEMMA Polled ==
    ASSUME SInv, polled # NULL, thr = NULL, WriteThr(polled), polled' = NULL, txq' = txq
    PROVE  UartTypeOK' /\ Sent' = Sent /\ ier' = ier
  <1> USE DEF SInv, WriteThr
  <1>1. polled \in Byte
    BY DEF SerialTypeOK
  <1>2. UartTypeOK'
    BY <1>1 DEF SerialTypeOK, UartTypeOK
  <1>3. wire \in Seq(Byte) /\ <<polled>> \in Seq(Byte)
    BY <1>1 DEF SerialTypeOK, UartTypeOK
  <1>4. wire \o <<>> = wire /\ (wire \o <<polled>>) \o <<>> = wire \o <<polled>>
    BY <1>3, ConcatEmptySeq, ConcatProperties
  <1>5. Opt(thr) = <<>> /\ Opt(polled) = <<polled>> /\ Opt(thr') = <<polled>> /\ Opt(polled') = <<>> /\ wire' = wire
    BY <1>1, OptEmpty
  <1>6. wire \o Opt(thr) \o Opt(polled) = wire \o <<polled>> /\ wire' \o Opt(thr') \o Opt(polled') = wire \o <<polled>>
    BY <1>4, <1>5
  <1> QED BY <1>2, <1>6 DEF Sent

LEMMA PollDoneKeeps ==
    ASSUME SInv, PollDone
    PROVE  SInv'
  <1> USE DEF SInv, PollDone, queueVars
  <1>1. UartTypeOK' /\ Sent' = Sent /\ ier' = ier
    BY Polled DEF CpuRight
  <1>2. SerialTypeOK' /\ ModeRight' /\ CpuRight'
    BY <1>1 DEF SerialTypeOK, ModeRight, CpuRight
  <1>3. Told' /\ Woken'
    BY <1>1 DEF Told, Woken, CpuRight, input_full
  <1> QED BY <1>1, <1>2, <1>3

LEMMA QueueHeldKeeps ==
    ASSUME SInv, QueueHeld
    PROVE  SInv'
  <1> USE DEF SInv, QueueHeld
  <1>1. held \in Byte /\ mode = "QUEUE"
    BY DEF SerialTypeOK, CpuRight, ModeRight
  <1>2. /\ UartTypeOK' /\ Told' /\ Sent' = accepted' /\ accepted' \in Seq(Byte)
        /\ txq' \in Seq(Byte) /\ Len(txq') = Len(txq) + 1 /\ Len(txq') < INTQ_BUFSIZE
    BY <1>1, Queued
  <1>3. SerialTypeOK' /\ ModeRight' /\ CpuRight'
    BY <1>1, <1>2 DEF SerialTypeOK, ModeRight, CpuRight
  <1>4. Woken'
    BY <1>2, LenProperties DEF Woken, SerialTypeOK, Tx!Put
  <1> QED BY <1>2, <1>3, <1>4

LEMMA InitQueueKeeps ==
    ASSUME SInv, serial_init_queue
    PROVE  SInv'
  <1> USE DEF SInv, serial_init_queue, queueVars
  <1>1. UartTypeOK' /\ Told' /\ UNCHANGED <<rbr, thr, wire>>
    BY WriteIerTells DEF SerialTypeOK
  <1>2. SerialTypeOK' /\ ModeRight' /\ CpuRight' /\ Woken'
    BY <1>1 DEF SerialTypeOK, ModeRight, CpuRight, Woken
  <1>3. Sent' = accepted'
    BY <1>1 DEF Sent
  <1> QED BY <1>1, <1>2, <1>3

LEMMA FlushKeeps ==
    ASSUME SInv, FlushStart \/ FlushNext \/ FlushByte \/ FlushDone
    PROVE  SInv'
  <1> USE DEF SInv, queueVars
  <1>1. CASE FlushStart
    <2>1. SerialTypeOK' /\ ModeRight' /\ CpuRight'
      BY <1>1 DEF FlushStart, SerialTypeOK, UartTypeOK, uartVars, ModeRight, CpuRight
    <2>2. Told' /\ Woken' /\ Sent' = accepted'
      BY <1>1 DEF FlushStart, Told, Woken, Sent, uartVars, input_full
    <2> QED BY <2>1, <2>2
  <1>2. CASE FlushNext
    <2> USE <1>2 DEF FlushNext
    <2>1. /\ txq # <<>> /\ Head(txq) \in Byte /\ txq' = Tail(txq)
          /\ txq' \in Seq(Byte) /\ Len(txq') < INTQ_BUFSIZE
          /\ woken' \in SUBSET {"reader", "writer"} /\ Woken'
      BY Taken
    <2>2. SerialTypeOK' /\ ModeRight' /\ CpuRight'
      BY <2>1, SerialAssumption DEF SerialTypeOK, UartTypeOK, ModeRight, CpuRight, uartVars
    <2>3. Told'
      BY DEF Told, uartVars, input_full
    <2>4. Sent' = accepted'
      <3>1. Opt(polled) = <<>> /\ Opt(polled') = <<Head(txq)>> /\ thr' = thr /\ wire' = wire
        BY <2>1, OptEmpty DEF uartVars
      <3>2. wire \o Opt(thr) \in Seq(Byte) /\ wire \o Opt(thr) \o <<>> = wire \o Opt(thr) /\ txq \in Seq(Byte)
        BY SentTyped, ConcatEmptySeq DEF SerialTypeOK
      <3>3. wire \o Opt(thr) \o <<Head(txq)>> \o Tail(txq) = wire \o Opt(thr) \o txq
        BY <3>2, <2>1, HeadMoves
      <3> QED BY <3>1, <3>2, <3>3, <2>1 DEF Sent
    <2> QED BY <2>1, <2>2, <2>3, <2>4
  <1>3. CASE FlushByte
    <2> USE <1>3 DEF FlushByte
    <2>1. UartTypeOK' /\ Sent' = Sent /\ ier' = ier
      BY Polled
    <2>2. SerialTypeOK' /\ ModeRight' /\ CpuRight'
      BY <2>1 DEF SerialTypeOK, ModeRight, CpuRight
    <2>3. Told' /\ Woken'
      BY <2>1 DEF Told, Woken, input_full
    <2> QED BY <2>1, <2>2, <2>3
  <1>4. CASE FlushDone
    <2>1. SerialTypeOK' /\ ModeRight' /\ CpuRight'
      BY <1>4 DEF FlushDone, SerialTypeOK, UartTypeOK, uartVars, ModeRight, CpuRight
    <2>2. Told' /\ Woken' /\ Sent' = accepted'
      BY <1>4 DEF FlushDone, Told, Woken, Sent, uartVars, input_full
    <2> QED BY <2>1, <2>2
  <1> QED BY <1>1, <1>2, <1>3, <1>4

\* A byte leaves the input buffer, or the reader goes to sleep because there is none.
LEMMA GetcKeeps ==
    ASSUME SInv, Getc
    PROVE  SInv'
  <1> USE DEF SInv, Getc, cpuVars
  <1>1. CASE Rx!Get /\ serial_notify /\ UNCHANGED reader
    <2>1. UartTypeOK' /\ Told' /\ UNCHANGED <<rbr, thr, wire>>
      BY <1>1, NotifyTells DEF SerialTypeOK
    <2>2. buffer \in Seq(Byte) /\ buffer # <<>> /\ buffer' = Tail(buffer) /\ Len(buffer) < INTQ_BUFSIZE
      BY <1>1 DEF SerialTypeOK, Rx!Get
    <2>3. buffer' \in Seq(Byte) /\ Len(buffer') < INTQ_BUFSIZE
      BY <2>2, GetTyped, SerialAssumption
    <2>4. SerialTypeOK' /\ ModeRight' /\ CpuRight'
      BY <1>1, <2>1, <2>3 DEF SerialTypeOK, ModeRight, CpuRight
    <2>5. Woken' /\ Sent' = accepted'
      BY <1>1, <2>1 DEF Woken, Sent
    <2> QED BY <2>1, <2>4, <2>5
  <1>2. CASE buffer = <<>> /\ reader' = "asleep" /\ UNCHANGED <<uartVars, buffer>>
    <2>1. SerialTypeOK' /\ ModeRight' /\ CpuRight'
      BY <1>2 DEF SerialTypeOK, UartTypeOK, uartVars, ModeRight, CpuRight
    <2>2. Told' /\ Woken' /\ Sent' = accepted'
      BY <1>2 DEF Told, Woken, Sent, uartVars, input_full
    <2> QED BY <2>1, <2>2
  <1> QED BY <1>1, <1>2

LEMMA ReaderWokenKeeps ==
    ASSUME SInv, ReaderWoken
    PROVE  SInv'
  <1> USE DEF SInv, ReaderWoken, cpuVars
  <1>1. UartTypeOK' /\ Told' /\ UNCHANGED <<rbr, thr, wire>>
    BY NotifyTells DEF SerialTypeOK
  <1>2. buffer \in Seq(Byte) /\ buffer # <<>> /\ buffer' = Tail(buffer) /\ Len(buffer) < INTQ_BUFSIZE
    BY DEF SerialTypeOK, Rx!Get
  <1>3. buffer' \in Seq(Byte) /\ Len(buffer') < INTQ_BUFSIZE
    BY <1>2, GetTyped, SerialAssumption
  <1>4. SerialTypeOK' /\ ModeRight' /\ CpuRight'
    BY <1>1, <1>3 DEF SerialTypeOK, ModeRight, CpuRight
  <1>5. Woken' /\ Sent' = accepted'
    BY <1>1 DEF Woken, Sent
  <1> QED BY <1>1, <1>4, <1>5

LEMMA KeyKeeps ==
    ASSUME SInv, NEW b \in Byte, Key(b)
    PROVE  SInv'
  <1> USE DEF SInv, Key, queueVars
  <1>1. arrived' \in 0..MaxIn
    BY SerialAssumption DEF SerialTypeOK
  <1>2. CASE UNCHANGED <<uartVars, queueVars>>
    <2>1. SerialTypeOK' /\ ModeRight' /\ CpuRight'
      BY <1>1, <1>2 DEF SerialTypeOK, UartTypeOK, uartVars, ModeRight, CpuRight
    <2>2. Told' /\ Woken' /\ Sent' = accepted'
      BY <1>2 DEF Told, Woken, Sent, uartVars, input_full
    <2> QED BY <2>1, <2>2
  <1>3. CASE Rx!Put(b) /\ WakeReader /\ UNCHANGED <<txq, writer, reader>> /\ serial_notify
    <2>1. UartTypeOK' /\ Told' /\ UNCHANGED <<rbr, thr, wire>>
      BY <1>3, NotifyTells DEF SerialTypeOK
    <2>2. /\ buffer' \in Seq(Byte) /\ Len(buffer') < INTQ_BUFSIZE
          /\ woken' \in SUBSET {"reader", "writer"} /\ Woken'
      BY <1>3, Buffered
    <2>3. SerialTypeOK' /\ ModeRight' /\ CpuRight'
      BY <1>1, <1>3, <2>1, <2>2 DEF SerialTypeOK, ModeRight, CpuRight
    <2>4. Sent' = accepted'
      BY <1>3, <2>1 DEF Sent
    <2> QED BY <2>1, <2>2, <2>3, <2>4
  <1> QED BY <1>2, <1>3

LEMMA SerialInterruptKeeps ==
    ASSUME SInv, SerialInterrupt
    PROVE  SInv'
  <1> USE DEF SInv, SerialInterrupt, Acknowledge, queueVars
  <1>1. thr_event' \in BOOLEAN
    BY Zenon
  <1>2. SerialTypeOK' /\ ModeRight' /\ CpuRight'
    BY <1>1 DEF SerialTypeOK, UartTypeOK, ModeRight, CpuRight
  <1>3. Told' /\ Woken' /\ Sent' = accepted'
    BY DEF Told, Woken, Sent, input_full
  <1> QED BY <1>2, <1>3

LEMMA ReceiveKeeps ==
    ASSUME SInv, ReceiveByte \/ ReceiveDone
    PROVE  SInv'
  <1> USE DEF SInv, queueVars, cpuVars
  <1>1. CASE ReceiveByte
    <2> USE <1>1 DEF ReceiveByte
    <2>1. UartTypeOK' /\ Told' /\ UNCHANGED <<thr, wire>>
      BY FetchTells DEF SerialTypeOK
    <2>2. /\ buffer' \in Seq(Byte) /\ Len(buffer') < INTQ_BUFSIZE
          /\ woken' \in SUBSET {"reader", "writer"} /\ Woken'
      <3>1. rbr \in Byte
        BY DEF SerialTypeOK, UartTypeOK
      <3> QED BY <3>1, Buffered
    <2>3. SerialTypeOK' /\ ModeRight' /\ CpuRight'
      BY <2>1, <2>2 DEF SerialTypeOK, ModeRight, CpuRight
    <2>4. Sent' = accepted'
      BY <2>1 DEF Sent
    <2> QED BY <2>1, <2>2, <2>3, <2>4
  <1>2. CASE ReceiveDone
    <2>1. SerialTypeOK' /\ ModeRight' /\ CpuRight'
      BY <1>2 DEF ReceiveDone, SerialTypeOK, UartTypeOK, uartVars, ModeRight, CpuRight
    <2>2. Told' /\ Woken' /\ Sent' = accepted'
      BY <1>2 DEF ReceiveDone, Told, Woken, Sent, uartVars, input_full
    <2> QED BY <2>1, <2>2
  <1> QED BY <1>1, <1>2

LEMMA SendKeeps ==
    ASSUME SInv, SendByte \/ SendDone
    PROVE  SInv'
  <1> USE DEF SInv, queueVars, cpuVars
  <1>1. CASE SendByte
    <2> USE <1>1 DEF SendByte, WriteThr
    <2>1. /\ txq # <<>> /\ Head(txq) \in Byte /\ txq' = Tail(txq)
          /\ txq' \in Seq(Byte) /\ Len(txq') < INTQ_BUFSIZE
          /\ woken' \in SUBSET {"reader", "writer"} /\ Woken'
      BY Taken
    <2>2. SerialTypeOK' /\ ModeRight' /\ CpuRight'
      BY <2>1 DEF SerialTypeOK, UartTypeOK, ModeRight, CpuRight
    <2>3. Told'
      BY DEF Told, input_full, CpuRight
    <2>4. Sent' = accepted'
      <3>1. polled = NULL
        BY DEF CpuRight
      <3>2. Opt(polled) = <<>> /\ Opt(polled') = <<>> /\ Opt(thr) = <<>> /\ Opt(thr') = <<Head(txq)>> /\ wire' = wire
        BY <3>1, <2>1, OptEmpty
      <3>3. wire \in Seq(Byte) /\ <<Head(txq)>> \in Seq(Byte) /\ txq \in Seq(Byte)
        BY <2>1 DEF SerialTypeOK, UartTypeOK
      <3>4. wire \o <<>> = wire /\ (wire \o <<Head(txq)>>) \o <<>> = wire \o <<Head(txq)>>
        BY <3>3, ConcatEmptySeq, ConcatProperties
      <3>5. wire \o <<Head(txq)>> \o Tail(txq) = wire \o txq
        BY <3>3, <2>1, HeadMoves
      <3>6. Sent = wire \o txq /\ Sent' = wire \o <<Head(txq)>> \o Tail(txq)
        BY <3>2, <3>4, <2>1 DEF Sent
      <3> QED BY <3>5, <3>6
    <2> QED BY <2>1, <2>2, <2>3, <2>4
  <1>2. CASE SendDone
    <2> USE <1>2 DEF SendDone
    <2>1. UartTypeOK' /\ Told' /\ UNCHANGED <<rbr, thr, wire>>
      BY WriteIerTells DEF SerialTypeOK
    <2>2. SerialTypeOK' /\ ModeRight' /\ CpuRight' /\ Woken'
      BY <2>1 DEF SerialTypeOK, ModeRight, CpuRight, Woken
    <2>3. Sent' = accepted'
      BY <2>1 DEF Sent
    <2> QED BY <2>1, <2>2, <2>3
  <1> QED BY <1>1, <1>2

LEMMA PortKeeps ==
    ASSUME SInv, Port
    PROVE  SInv'
  <1> USE DEF SInv, queueVars, cpuVars
  <1>1. ASSUME NEW b \in Byte, PortReceives(b)  PROVE SInv'
    <2> USE <1>1 DEF PortReceives, Receive
    <2>1. arrived' \in 0..MaxIn
      BY SerialAssumption DEF SerialTypeOK
    <2>2. irr' \in BOOLEAN
      BY Zenon DEF Latch
    <2>3. SerialTypeOK' /\ ModeRight' /\ CpuRight'
      BY <2>1, <2>2 DEF SerialTypeOK, UartTypeOK, ModeRight, CpuRight
    <2>4. Told' /\ Woken' /\ Sent' = accepted'
      BY DEF Told, Woken, Sent, input_full
    <2> QED BY <2>3, <2>4
  <1>2. CASE PortTransmits
    <2> USE <1>2 DEF PortTransmits, Transmit
    <2>1. thr \in Byte /\ wire \in Seq(Byte)
      BY DEF SerialTypeOK, UartTypeOK
    <2>2. irr' \in BOOLEAN
      BY Zenon DEF Latch
    <2>3. wire' \in Seq(Byte)
      BY <2>1, PutTyped
    <2>4. SerialTypeOK' /\ ModeRight' /\ CpuRight'
      BY <2>2, <2>3 DEF SerialTypeOK, UartTypeOK, ModeRight, CpuRight
    <2>5. Told' /\ Woken'
      BY DEF Told, Woken, input_full
    <2>6. Sent' = accepted'
      <3>1. wire' \o Opt(thr') = wire \o Opt(thr)
        BY <2>1, GoesOut, OptEmpty
      <3> QED BY <3>1 DEF Sent
    <2> QED BY <2>4, <2>5, <2>6
  <1> QED BY <1>1, <1>2 DEF Port

LEMMA StutterKeeps == SInv /\ UNCHANGED vars => SInv'
  BY SMTT(30) DEF SInv, vars, uartVars, queueVars, cpuVars, SerialTypeOK, UartTypeOK, ModeRight, CpuRight, Sent,
         Told, Woken, input_full

LEMMA NextHolds == SInv /\ [Next]_vars => SInv'
  <1> SUFFICES ASSUME SInv, [Next]_vars  PROVE SInv'
    OBVIOUS
  <1>1. CASE Threads
    BY <1>1, PutcKeeps, PutcIntrOffKeeps, PutcEarlyKeeps, WriterWokenKeeps, GetcKeeps, ReaderWokenKeeps,
       InitQueueKeeps, FlushKeeps DEF Threads
  <1>2. CASE IntrOff
    BY <1>2, PollDoneKeeps, QueueHeldKeeps, FlushKeeps, ReceiveKeeps, SendKeeps DEF IntrOff
  <1>3. CASE Interrupts
    BY <1>3, SerialInterruptKeeps, KeyKeeps DEF Interrupts
  <1>4. CASE Port
    BY <1>4, PortKeeps
  <1>5. CASE UNCHANGED vars
    BY <1>5, StutterKeeps
  <1> QED BY <1>1, <1>2, <1>3, <1>4, <1>5 DEF Next

-----------------------------------------------------------------------------
\* The queues, the port and the processor always fit together.
THEOREM SerialInvariant == Spec => []SInv
  BY InitHolds, NextHolds, PTL DEF Spec

\* Every byte serial_putc() has taken is sent once and in order, whichever of
\* its ways it goes and whatever the port and the handler do meanwhile.
THEOREM BytesSentInOrder == Spec => []SentInOrder
  <1>1. SInv => SentInOrder
    BY DEF SInv, SentInOrder, Sent
  <1> QED BY <1>1, SerialInvariant, PTL

\* write_ier() and serial_notify() are called wherever they have to be, and
\* nobody sleeps unwoken next to a queue that has what it waits for.
THEOREM EndsAreTold == Spec => []BothEndsTold
  <1>1. SInv => BothEndsTold
    BY DEF SInv, BothEndsTold, IerRight, SleepersWoken, Told, Woken
  <1> QED BY <1>1, SerialInvariant, PTL
=============================================================================
