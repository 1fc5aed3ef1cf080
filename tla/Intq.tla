-------------------------------- MODULE Intq --------------------------------
(***************************************************************************)
(* devices/intq.c: the circular queue of bytes shared by kernel threads    *)
(* and interrupt handlers.  Interrupts are off in all of it, so a thread   *)
(* runs without interruption from one place where it sleeps to the next,   *)
(* and each such stretch is one step here.  It sleeps in two places:       *)
(* in lock_acquire(), on the semaphore of q->lock, and in wait().          *)
(***************************************************************************)
EXTENDS Naturals, Sequences

CONSTANTS
    Thread,        \* the threads that call intq_getc() or intq_putc()
    Byte,
    NULL,
    INTQ_BUFSIZE   \* 64 in the code

ASSUME IntqAssumption ==
    /\ INTQ_BUFSIZE \in Nat /\ INTQ_BUFSIZE >= 2
    /\ NULL \notin Thread \cup Byte \cup {"getc"}
    /\ "getc" \notin Byte

VARIABLES
    buf, head, tail,
    waiter,        \* q->not_empty and q->not_full
    lock_value,    \* the semaphore of q->lock
    lock_waiters,
    pos,           \* where each thread is asleep, or to wake up
    call,          \* what each thread is doing: "getc", or the byte to put
    panic          \* an assertion has failed

ringVars == <<buf, head, tail>>
lockVars == <<lock_value, lock_waiters>>
vars == <<ringVars, waiter, lockVars, pos, call, panic>>

Slot == 0..(INTQ_BUFSIZE - 1)
Position == {"out", "lock", "lock_woken", "wait", "wait_woken"}

IntqTypeOK ==
    /\ buf \in [Slot -> Byte \cup {NULL}]
    /\ head \in Slot /\ tail \in Slot
    /\ waiter \in [{"not_empty", "not_full"} -> Thread \cup {NULL}]
    /\ lock_value \in {0, 1}
    /\ lock_waiters \in Seq(Thread)
    /\ pos \in [Thread -> Position]
    /\ call \in [Thread -> Byte \cup {"getc", NULL}]
    /\ panic \in BOOLEAN

\* Slip: no wrapping.
AfterNoWrap(slot) == slot + 1
\* next(): the position after slot.
After(slot) == (slot + 1) % INTQ_BUFSIZE

Empty == head = tail
Full == After(head) = tail

Init ==
    /\ buf = [i \in Slot |-> NULL]
    /\ head = 0 /\ tail = 0
    /\ waiter = [s \in {"not_empty", "not_full"} |-> NULL]
    /\ lock_value = 1 /\ lock_waiters = <<>>
    /\ pos = [t \in Thread |-> "out"]
    /\ call = [t \in Thread |-> NULL]
    /\ panic = FALSE

-----------------------------------------------------------------------------
\* The condition a call waits for, and whether it holds.
SideOf(c) == IF c = "getc" THEN "not_empty" ELSE "not_full"
Ready(c) == IF c = "getc" THEN ~Empty ELSE ~Full

\* Slip: the waiter is woken but not reset.
MoveNoReset(c, moved) ==
    LET other == IF c = "getc" THEN "not_full" ELSE "not_empty" IN
    /\ IF c = "getc"
       THEN tail' = After(tail) /\ UNCHANGED <<buf, head>>
       ELSE /\ buf' = [buf EXCEPT ![head] = c]
            /\ head' = After(head)
            /\ UNCHANGED tail
    /\ pos' = [t \in Thread |-> IF t = waiter[other] THEN "wait_woken" ELSE moved[t]]
    /\ UNCHANGED waiter

(***************************************************************************)
(* The end of intq_getc() or intq_putc(), once its condition holds: move   *)
(* the byte and signal() the thread that waits for the other condition.    *)
(* `moved' is pos but for what the caller itself changes in it.            *)
(***************************************************************************)
Move(c, moved) ==
    LET other == IF c = "getc" THEN "not_full" ELSE "not_empty" IN
    /\ IF c = "getc"
       THEN tail' = After(tail) /\ UNCHANGED <<buf, head>>
       ELSE /\ buf' = [buf EXCEPT ![head] = c]
            /\ head' = After(head)
            /\ UNCHANGED tail
    /\ pos' = [t \in Thread |-> IF t = waiter[other] THEN "wait_woken" ELSE moved[t]]
    /\ waiter' = [waiter EXCEPT ![other] = NULL]

\* wait(): t becomes the waiter and sleeps.
Wait(t, c, moved) ==
    /\ waiter' = [waiter EXCEPT ![SideOf(c)] = t]
    /\ pos' = [moved EXCEPT ![t] = "wait"]
    /\ UNCHANGED ringVars

\* A thread calls intq_getc() or intq_putc(byte): its loop up to the first sleep.
Call(t, c) ==
    /\ pos[t] = "out"
    /\ \/ /\ Ready(c)
          /\ Move(c, pos)
          /\ UNCHANGED <<lockVars, call>>
       \/ /\ ~Ready(c) /\ lock_value = 1
          /\ lock_value' = 0
          /\ Wait(t, c, pos)
          /\ call' = [call EXCEPT ![t] = c]
          /\ UNCHANGED lock_waiters
       \/ /\ ~Ready(c) /\ lock_value = 0
          /\ lock_waiters' = Append(lock_waiters, t)
          /\ pos' = [pos EXCEPT ![t] = "lock"]
          /\ call' = [call EXCEPT ![t] = c]
          /\ UNCHANGED <<ringVars, waiter, lock_value>>
    /\ UNCHANGED panic

\* t wakes up in lock_acquire().  wait() then asserts that the condition for
\* which t is going to sleep is still false.
LockWoken(t) ==
    /\ pos[t] = "lock_woken"
    /\ \/ /\ lock_value = 0
          /\ lock_waiters' = Append(lock_waiters, t)
          /\ pos' = [pos EXCEPT ![t] = "lock"]
          /\ UNCHANGED <<ringVars, waiter, lock_value, panic>>
       \/ /\ lock_value = 1 /\ ~Ready(call[t])
          /\ lock_value' = 0
          /\ Wait(t, call[t], pos)
          /\ UNCHANGED <<lock_waiters, panic>>
       \/ /\ lock_value = 1 /\ Ready(call[t])
          /\ panic' = TRUE
          /\ UNCHANGED <<ringVars, waiter, lockVars, pos>>
    /\ UNCHANGED call

\* Slip: wait() was not in a loop, the byte is taken without looking again.
WaitWokenOnce(t) ==
    /\ pos[t] = "wait_woken"
    /\ lock_value' = 1
    /\ UNCHANGED lock_waiters
    /\ Move(call[t], [pos EXCEPT ![t] = "out"])
    /\ call' = [call EXCEPT ![t] = NULL]
    /\ UNCHANGED panic

\* Slip: the lock is released without waking the thread that wants it.
WaitWokenSilent(t) ==
    /\ pos[t] = "wait_woken"
    /\ Ready(call[t])
    /\ lock_value' = 1
    /\ UNCHANGED lock_waiters
    /\ Move(call[t], [pos EXCEPT ![t] = "out"])
    /\ call' = [call EXCEPT ![t] = NULL]
    /\ UNCHANGED panic

\* t wakes up in wait(): lock_release(), which wakes a thread that sleeps on
\* the lock, and round the loop again.
WaitWoken(t) ==
    /\ pos[t] = "wait_woken"
    /\ LET next == IF lock_waiters = <<>> THEN NULL ELSE Head(lock_waiters)
           moved == [u \in Thread |-> CASE u = t    -> "out"
                                        [] u = next -> "lock_woken"
                                        [] OTHER    -> pos[u]]
       IN /\ lock_waiters' = IF next = NULL THEN <<>> ELSE Tail(lock_waiters)
          /\ \/ /\ Ready(call[t])
                /\ lock_value' = 1
                /\ Move(call[t], moved)
                /\ call' = [call EXCEPT ![t] = NULL]
             \/ /\ ~Ready(call[t])
                /\ Wait(t, call[t], moved)
                /\ UNCHANGED <<lock_value, call>>
    /\ UNCHANGED panic

\* An interrupt handler's call; its condition must hold.
IntrCall(c) ==
    /\ Ready(c)
    /\ Move(c, pos)
    /\ UNCHANGED <<lockVars, call, panic>>

Next ==
    /\ ~panic
    /\ \/ \E t \in Thread, c \in Byte \cup {"getc"} : Call(t, c)
       \/ \E t \in Thread : LockWoken(t) \/ WaitWoken(t)
       \/ \E c \in Byte \cup {"getc"} : IntrCall(c)

Spec == Init /\ [][Next]_vars

-----------------------------------------------------------------------------
\* The bytes in the queue, the oldest first.
Count == (INTQ_BUFSIZE + head - tail) % INTQ_BUFSIZE
Contents == [i \in 1..Count |-> buf[(tail + i - 1) % INTQ_BUFSIZE]]

(***************************************************************************)
(* Nobody sleeps in wait() for something that is already the case, as its  *)
(* assertion (intq.c:91) demands even of a thread that tested the queue    *)
(* before it slept for q->lock; and the thread that sleeps there is the    *)
(* one that signal() will wake.                                            *)
(***************************************************************************)
WaiterIsRight ==
    /\ waiter["not_empty"] # NULL => Empty
    /\ waiter["not_full"] # NULL => Full
    /\ \A t \in Thread : pos[t] = "wait" => waiter[SideOf(call[t])] = t
    /\ \A s \in {"not_empty", "not_full"} : waiter[s] # NULL =>
          pos[waiter[s]] = "wait" /\ SideOf(call[waiter[s]]) = s

(***************************************************************************)
(* intq.h:24: "Only one thread may wait at once", and one that sleeps for  *)
(* its turn to wait will be woken: the lock is held by a thread in wait(), *)
(* or somebody has been woken to take it.                                  *)
(***************************************************************************)
OneWaits ==
    /\ \A t, u \in Thread :
          {pos[t], pos[u]} \subseteq {"wait", "wait_woken"} => t = u
    /\ lock_waiters # <<>> => \E t \in Thread :
          pos[t] \in {"wait", "wait_woken", "lock_woken"}

F == INSTANCE Fifo WITH items <- Contents, capacity <- INTQ_BUFSIZE - 1

\* Whatever is interrupted by whom, the queue is a bounded first-in-first-out.
ImplementsFifo == F!Spec
=============================================================================
