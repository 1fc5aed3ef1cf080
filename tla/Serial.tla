------------------------------- MODULE Serial -------------------------------
(***************************************************************************)
(* devices/serial.c and devices/input.c: the two interrupt queues between  *)
(* the threads and the interrupt handlers of the serial port and the       *)
(* keyboard.  A queue is what Intq is shown to implement, a bounded first- *)
(* in-first-out (Fifo), and the one thread that may wait for it: the       *)
(* console lock lets one thread at a time into serial_putc(), and one      *)
(* thread reads.                                                           *)
(*                                                                         *)
(* The code runs with interrupts off, so that threads and handlers do not  *)
(* overlap; but the port goes on by itself between any two accesses to its *)
(* registers.  `cpu' says whose code is running.                           *)
(*                                                                         *)
(* The port is a 16550A without FIFOs behind an edge-triggered interrupt   *)
(* controller (pic_init() in threads/interrupt.c), as devices/serial.c     *)
(* uses it; this hardware is not part of the repository.                   *)
(***************************************************************************)
EXTENDS Naturals, Sequences

CONSTANTS
    Byte, NULL,
    INTQ_BUFSIZE,
    MaxOut,        \* bound: serial_putc() calls, but for one that sleeps
    MaxIn          \* bound: bytes from the line and keys

ASSUME SerialAssumption ==
    /\ NULL \notin Byte
    /\ INTQ_BUFSIZE \in Nat /\ INTQ_BUFSIZE >= 2
    /\ MaxOut \in Nat /\ MaxIn \in Nat

VARIABLES
    ier,        \* interrupt enable register
    rbr,        \* receiver buffer; NULL when LSR_DR is clear
    thr,        \* transmitter holding register; NULL when LSR_THRE is set
    thr_event,  \* "holding register empty" has not been reported yet
    irr,        \* the interrupt controller has seen the line rise
    wire        \* the bytes sent

uartVars == <<ier, rbr, thr, thr_event, irr, wire>>

UartTypeOK ==
    /\ ier \in SUBSET {"IER_RECV", "IER_XMIT"}
    /\ rbr \in Byte \cup {NULL}
    /\ thr \in Byte \cup {NULL}
    /\ thr_event \in BOOLEAN
    /\ irr \in BOOLEAN
    /\ wire \in Seq(Byte)

UartInit ==
    /\ ier = {} /\ rbr = NULL /\ thr = NULL
    /\ thr_event = FALSE /\ irr = FALSE /\ wire = <<>>

\* Whether the port requests an interrupt, given the registers.
LineOf(enabled, data, event) ==
    \/ "IER_RECV" \in enabled /\ data # NULL
    \/ "IER_XMIT" \in enabled /\ event
Line == LineOf(ier, rbr, thr_event)

\* The controller latches a rising edge, not a level.
Latch == irr' = (irr \/ (~Line /\ Line'))

\* A byte comes in; if the last one has not been read, it is lost.
Receive(b) == rbr' = b /\ UNCHANGED <<ier, thr, thr_event, wire>> /\ Latch

\* The byte in the holding register goes out.
Transmit ==
    /\ thr # NULL
    /\ wire' = Append(wire, thr)
    /\ thr' = NULL
    /\ thr_event' = TRUE
    /\ UNCHANGED <<ier, rbr>>
    /\ Latch

\* outb (IER_REG, enabled): enabling IER_XMIT reports an empty register again.
EventAfter(enabled) ==
    thr_event \/ ("IER_XMIT" \in enabled \ ier /\ thr = NULL)
WriteIer(enabled) ==
    /\ ier' = enabled
    /\ thr_event' = EventAfter(enabled)
    /\ UNCHANGED <<rbr, thr, wire>>
    /\ Latch

\* inb (RBR_REG), then outb (IER_REG, enabled).
ReadRbrWriteIer(enabled) ==
    LET between == LineOf(ier, NULL, thr_event) IN
    /\ rbr' = NULL
    /\ ier' = enabled
    /\ thr_event' = EventAfter(enabled)
    /\ irr' = (irr \/ (~between /\ Line'))
    /\ UNCHANGED <<thr, wire>>

\* outb (THR_REG, b); a byte that is still there is lost.
WriteThr(b) ==
    /\ thr' = b
    /\ thr_event' = FALSE
    /\ UNCHANGED <<ier, rbr, irr, wire>>

\* The processor takes the interrupt, and the handler's first inb (IIR_REG)
\* acknowledges the transmit event, unless there is a byte to report first.
Acknowledge ==
    /\ irr
    /\ irr' = FALSE
    /\ thr_event' = (thr_event /\ "IER_RECV" \in ier /\ rbr # NULL)
    /\ UNCHANGED <<ier, rbr, thr, wire>>

-----------------------------------------------------------------------------
VARIABLES
    mode,
    txq, buffer,      \* the transmit queue and the input buffer
    writer,           \* the byte of the thread asleep in intq_putc (&txq)
    reader,           \* the thread in intq_getc (&buffer)
    woken,            \* which of the two has been woken
    cpu,
    polled,           \* the byte putc_poll() is to send
    held,             \* the byte serial_putc() has still to queue after that
    accepted,         \* history: the bytes serial_putc() has taken
    arrived           \* history: how many bytes and keys came in

queueVars == <<txq, buffer, writer, reader, woken>>
cpuVars == <<mode, cpu, polled, held, accepted, arrived>>
vars == <<uartVars, queueVars, cpuVars>>

\* How many bytes a queue holds.
capacity == INTQ_BUFSIZE - 1
Tx == INSTANCE Fifo WITH items <- txq
Rx == INSTANCE Fifo WITH items <- buffer

SerialTypeOK ==
    /\ UartTypeOK
    /\ mode \in {"UNINIT", "POLL", "QUEUE"}
    /\ txq \in Seq(Byte) /\ Len(txq) < INTQ_BUFSIZE
    /\ buffer \in Seq(Byte) /\ Len(buffer) < INTQ_BUFSIZE
    /\ writer \in Byte \cup {NULL}
    /\ reader \in {"out", "asleep"}
    /\ woken \in SUBSET {"reader", "writer"}
    /\ cpu \in {"threads", "receiving", "sending", "polling", "queueing", "flushing", "stopped"}
    /\ polled \in Byte \cup {NULL} /\ held \in Byte \cup {NULL}
    /\ accepted \in Seq(Byte)
    /\ arrived \in 0..MaxIn

Init ==
    /\ UartInit
    /\ mode = "UNINIT"
    /\ txq = <<>> /\ buffer = <<>>
    /\ writer = NULL /\ reader = "out" /\ woken = {}
    /\ cpu = "threads" /\ polled = NULL /\ held = NULL
    /\ accepted = <<>> /\ arrived = 0

-----------------------------------------------------------------------------
input_full(keys) == Len(keys) = capacity

\* write_ier(): what goes into the register, given the two queues.
IerFor(out, keys) ==
    (IF out # <<>> THEN {"IER_XMIT"} ELSE {})
        \cup (IF input_full(keys) THEN {} ELSE {"IER_RECV"})
write_ier == WriteIer(IerFor(txq', buffer'))

\* Slip: getting a byte wakes nobody.
WakeNobody == UNCHANGED woken
\* signal() at the end of intq_getc (&txq) and of intq_putc (&buffer).
WakeWriter == woken' = IF writer # NULL THEN woken \cup {"writer"} ELSE woken
WakeReader == woken' = IF reader # "out" THEN woken \cup {"reader"} ELSE woken

\* serial_putc() by a thread with interrupts on, in queue mode.
Putc(b) ==
    /\ cpu = "threads" /\ mode = "QUEUE" /\ writer = NULL
    /\ Len(accepted) < MaxOut
    /\ \/ /\ Tx!Put(b)
          /\ UNCHANGED <<buffer, writer, reader, woken>>
          /\ write_ier
          /\ accepted' = Append(accepted, b)
       \/ /\ Len(txq) = capacity
          /\ writer' = b
          /\ UNCHANGED <<uartVars, txq, buffer, reader, woken, accepted>>
    /\ UNCHANGED <<mode, cpu, polled, held, arrived>>

\* Slip: write_ier() is not called after a sleep.
WriterWokenQuiet ==
    /\ cpu = "threads" /\ "writer" \in woken
    /\ woken' = woken \ {"writer"}
    /\ \/ /\ Tx!Put(writer)
          /\ writer' = NULL
          /\ accepted' = Append(accepted, writer)
       \/ Len(txq) = capacity /\ UNCHANGED <<txq, writer, accepted>>
    /\ UNCHANGED <<uartVars, buffer, reader, mode, cpu, polled, held, arrived>>

\* The sleeping writer runs again: the loop of intq_putc(), and write_ier().
WriterWoken ==
    /\ cpu = "threads" /\ "writer" \in woken
    /\ woken' = woken \ {"writer"}
    /\ \/ /\ Tx!Put(writer)
          /\ writer' = NULL
          /\ UNCHANGED <<buffer, reader>>
          /\ write_ier
          /\ accepted' = Append(accepted, writer)
       \/ /\ Len(txq) = capacity
          /\ UNCHANGED <<uartVars, txq, buffer, writer, reader, accepted>>
    /\ UNCHANGED <<mode, cpu, polled, held, arrived>>

\* Slip: the byte overtakes those in the queue.
PutcIntrOffUnfair(b) ==
    /\ cpu = "threads" /\ mode = "QUEUE"
    /\ Len(accepted) < MaxOut
    /\ \/ /\ Tx!Put(b)
          /\ UNCHANGED <<buffer, writer, reader, woken>>
          /\ write_ier
          /\ accepted' = Append(accepted, b)
          /\ UNCHANGED <<cpu, polled, held>>
       \/ /\ Len(txq) = capacity
          /\ polled' = b
          /\ cpu' = "polling"
          /\ accepted' = Append(accepted, b)
          /\ UNCHANGED <<uartVars, txq, buffer, writer, reader, woken, held>>
    /\ UNCHANGED <<mode, arrived>>

\* serial_putc() with interrupts off (an interrupt handler, a panic): when the
\* queue is full, the byte at its head is sent by polling to make room.
PutcIntrOff(b) ==
    /\ cpu = "threads" /\ mode = "QUEUE"
    /\ Len(accepted) < MaxOut
    /\ \/ /\ Tx!Put(b)
          /\ UNCHANGED <<buffer, writer, reader, woken>>
          /\ write_ier
          /\ accepted' = Append(accepted, b)
          /\ UNCHANGED <<cpu, polled, held>>
       \/ /\ Len(txq) = capacity
          /\ polled' = Head(txq) /\ held' = b
          /\ Tx!Get /\ WakeWriter
          /\ cpu' = "polling"
          /\ UNCHANGED <<uartVars, buffer, writer, reader, accepted>>
    /\ UNCHANGED <<mode, arrived>>

\* serial_putc() before serial_init_queue(): by polling.
PutcEarly(b) ==
    /\ cpu = "threads" /\ mode # "QUEUE"
    /\ Len(accepted) < MaxOut
    /\ mode' = "POLL"
    /\ cpu' = "polling" /\ polled' = b
    /\ accepted' = Append(accepted, b)
    /\ UNCHANGED <<uartVars, queueVars, held, arrived>>

\* putc_poll() finds the port ready.
PollDone ==
    /\ cpu = "polling" /\ thr = NULL
    /\ WriteThr(polled)
    /\ polled' = NULL
    /\ cpu' = IF held = NULL THEN "threads" ELSE "queueing"
    /\ UNCHANGED <<queueVars, mode, held, accepted, arrived>>

\* After that, serial_putc() with interrupts off queues its own byte.
QueueHeld ==
    /\ cpu = "queueing"
    /\ Tx!Put(held)
    /\ accepted' = Append(accepted, held)
    /\ held' = NULL
    /\ cpu' = "threads"
    /\ UNCHANGED <<buffer, writer, reader, woken>>
    /\ write_ier
    /\ UNCHANGED <<mode, polled, arrived>>

\* serial_init_queue().  Nothing but a key can come between its assignment to
\* mode and its write_ier(), and serial_notify() then writes the same.
serial_init_queue ==
    /\ cpu = "threads" /\ mode # "QUEUE"
    /\ mode' = "QUEUE"
    /\ UNCHANGED queueVars
    /\ write_ier
    /\ UNCHANGED <<cpu, polled, held, accepted, arrived>>

(***************************************************************************)
(* serial_flush(): its loop, up to putc_poll().  A panic calls it and then *)
(* stops with interrupts off; power_off() calls it and goes on, and what   *)
(* is printed between that and the end of power is outside the model.      *)
(***************************************************************************)
FlushStart ==
    /\ cpu = "threads"
    /\ cpu' = "flushing"
    /\ UNCHANGED <<uartVars, queueVars, mode, polled, held, accepted, arrived>>
FlushNext ==
    /\ cpu = "flushing" /\ polled = NULL /\ txq # <<>>
    /\ polled' = Head(txq)
    /\ Tx!Get /\ WakeWriter
    /\ UNCHANGED <<uartVars, buffer, writer, reader, mode, cpu, held, accepted, arrived>>
FlushByte ==
    /\ cpu = "flushing" /\ polled # NULL /\ thr = NULL
    /\ WriteThr(polled)
    /\ polled' = NULL
    /\ UNCHANGED <<queueVars, mode, cpu, held, accepted, arrived>>
FlushDone ==
    /\ cpu = "flushing" /\ polled = NULL /\ txq = <<>>
    /\ cpu' \in {"threads", "stopped"}
    /\ UNCHANGED <<uartVars, queueVars, mode, polled, held, accepted, arrived>>

-----------------------------------------------------------------------------
\* Slip: the interrupt enable register is left as it is.
GetcNoNotify ==
    /\ cpu = "threads" /\ reader = "out"
    /\ \/ Rx!Get /\ UNCHANGED reader
       \/ buffer = <<>> /\ reader' = "asleep" /\ UNCHANGED buffer
    /\ UNCHANGED <<uartVars, txq, writer, woken, cpuVars>>

\* serial_notify().
serial_notify == IF mode = "QUEUE" THEN write_ier ELSE UNCHANGED uartVars

\* input_getc(): intq_getc (&buffer), then serial_notify().
Getc ==
    /\ cpu = "threads" /\ reader = "out"
    /\ UNCHANGED <<txq, writer, woken>>
    /\ \/ Rx!Get /\ serial_notify /\ UNCHANGED reader
       \/ buffer = <<>> /\ reader' = "asleep" /\ UNCHANGED <<uartVars, buffer>>
    /\ UNCHANGED cpuVars

\* The sleeping reader runs again.
ReaderWoken ==
    /\ cpu = "threads" /\ "reader" \in woken
    /\ Rx!Get
    /\ reader' = "out"
    /\ woken' = woken \ {"reader"}
    /\ UNCHANGED <<txq, writer>>
    /\ serial_notify
    /\ UNCHANGED cpuVars

\* keyboard_interrupt() with a key that has a character: dropped if there is
\* no room, else input_putc().
Key(b) ==
    /\ cpu = "threads" /\ arrived < MaxIn
    /\ arrived' = arrived + 1
    /\ \/ input_full(buffer) /\ UNCHANGED <<uartVars, queueVars>>
       \/ /\ Rx!Put(b) /\ WakeReader
          /\ UNCHANGED <<txq, writer, reader>>
          /\ serial_notify
    /\ UNCHANGED <<mode, cpu, polled, held, accepted>>

-----------------------------------------------------------------------------
\* serial_interrupt(): its two loops, one access to the port a step.
SerialInterrupt ==
    /\ cpu = "threads" /\ mode = "QUEUE"
    /\ Acknowledge
    /\ cpu' = "receiving"
    /\ UNCHANGED <<queueVars, mode, polled, held, accepted, arrived>>

ReceiveByte ==
    /\ cpu = "receiving" /\ rbr # NULL
    /\ Rx!Put(rbr) /\ WakeReader
    /\ UNCHANGED <<txq, writer, reader>>
    /\ ReadRbrWriteIer(IerFor(txq', buffer'))
    /\ UNCHANGED cpuVars

ReceiveDone ==
    /\ cpu = "receiving" /\ (input_full(buffer) \/ rbr = NULL)
    /\ cpu' = "sending"
    /\ UNCHANGED <<uartVars, queueVars, mode, polled, held, accepted, arrived>>

SendByte ==
    /\ cpu = "sending" /\ txq # <<>> /\ thr = NULL
    /\ WriteThr(Head(txq))
    /\ Tx!Get /\ WakeWriter
    /\ UNCHANGED <<buffer, writer, reader, cpuVars>>

SendDone ==
    /\ cpu = "sending" /\ (txq = <<>> \/ thr # NULL)
    /\ cpu' = "threads"
    /\ UNCHANGED queueVars
    /\ write_ier
    /\ UNCHANGED <<mode, polled, held, accepted, arrived>>

\* What the port does by itself.
PortReceives(b) ==
    /\ arrived < MaxIn
    /\ arrived' = arrived + 1
    /\ Receive(b)
    /\ UNCHANGED <<queueVars, mode, cpu, polled, held, accepted>>
PortTransmits == Transmit /\ UNCHANGED <<queueVars, cpuVars>>

Threads ==
    \/ \E b \in Byte : Putc(b) \/ PutcIntrOff(b) \/ PutcEarly(b)
    \/ WriterWoken \/ Getc \/ ReaderWoken \/ serial_init_queue \/ FlushStart
IntrOff ==
    \/ PollDone \/ QueueHeld \/ FlushNext \/ FlushByte \/ FlushDone
    \/ ReceiveByte \/ ReceiveDone \/ SendByte \/ SendDone
Interrupts == SerialInterrupt \/ \E b \in Byte : Key(b)
Port == PortTransmits \/ \E b \in Byte : PortReceives(b)

Next == Threads \/ IntrOff \/ Interrupts \/ Port

Spec == Init /\ [][Next]_vars

(***************************************************************************)
(* Code that runs with interrupts off goes on, the port sends what it is   *)
(* given, and an interrupt the controller has latched is taken some time   *)
(* when interrupts are on again and again.  Threads that have been woken   *)
(* run some time; nobody has to call anything.                             *)
(***************************************************************************)
Fairness ==
    /\ WF_vars(IntrOff)
    /\ WF_vars(PortTransmits)
    /\ SF_vars(SerialInterrupt)
    /\ SF_vars(ReaderWoken) /\ SF_vars(WriterWoken)

FairSpec == Spec /\ Fairness

-----------------------------------------------------------------------------
Opt(b) == IF b = NULL THEN <<>> ELSE <<b>>

(***************************************************************************)
(* Every byte serial_putc() has taken is sent once and in order, whichever *)
(* way it goes: queue and handler, polling, or a flush.                    *)
(***************************************************************************)
SentInOrder ==
    /\ SerialTypeOK
    /\ wire \o Opt(thr) \o Opt(polled) \o txq = accepted

(***************************************************************************)
(* Whenever interrupts are on, the interrupt enable register is what       *)
(* write_ier()'s comments ask for: "Enable transmit interrupt if we have   *)
(* any characters to transmit", "Enable receive interrupt if we have room".*)
(***************************************************************************)
IerRight ==
    cpu = "threads" /\ mode = "QUEUE" =>
        /\ txq # <<>> => "IER_XMIT" \in ier
        /\ "IER_RECV" \in ier <=> ~input_full(buffer)

(***************************************************************************)
(* Nobody is forgotten: a writer asleep with room, or a reader asleep with *)
(* a byte, has been woken.                                                 *)
(***************************************************************************)
SleepersWoken ==
    /\ writer # NULL /\ Len(txq) < capacity /\ cpu # "queueing" => "writer" \in woken
    /\ reader = "asleep" /\ buffer # <<>> => "reader" \in woken

(***************************************************************************)
(* Both ends of each queue know of the other: the port by its interrupt    *)
(* enable register, a thread by being woken.                               *)
(***************************************************************************)
BothEndsTold == IerRight /\ SleepersWoken

(***************************************************************************)
(* With the line quiet in the other direction, what has been taken is sent *)
(* in the end, also when the system stops in a panic.                      *)
(***************************************************************************)
EverythingSent ==
    [](arrived = 0) => \A n \in 1..MaxOut : Len(accepted) >= n ~> Len(wire) >= n

(***************************************************************************)
(* With nothing to send, a byte in the port is fetched as long as there is *)
(* room for it.  (Both properties need the other direction to be quiet: a  *)
(* byte that comes in during the transmit loop of serial_interrupt() keeps *)
(* the request line up, and the edge-triggered controller sees no edge.)   *)
(***************************************************************************)
ByteIsFetched ==
    [](accepted = <<>>) =>
        (rbr # NULL /\ mode = "QUEUE" /\ ~input_full(buffer) ~>
            rbr = NULL \/ input_full(buffer) \/ cpu = "stopped")

=============================================================================
