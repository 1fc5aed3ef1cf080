------------------------------- MODULE Thread -------------------------------
(***************************************************************************)
(* The scheduler of threads/thread.c: who runs, who is ready, and the      *)
(* switch from one thread to the next.  The machine has one processor and  *)
(* the scheduler runs with interrupts off, so every operator below is      *)
(* executed as one step of the action that calls it.                       *)
(*                                                                         *)
(* A struct thread is the page it sits in; Thread is the set of pages.     *)
(* The run queue is strictly first in, first out.                          *)
(***************************************************************************)
EXTENDS Naturals, Sequences, FiniteSets

CONSTANTS
    Thread,      \* the pages that can hold a struct thread
    Main,        \* initial_thread, whose page did not come from palloc
    Idle,        \* the page thread_start() gives to the idle thread
    NULL,        \* the null pointer
    TIME_SLICE   \* timer ticks a thread may use before it is preempted

ASSUME ThreadAssumption ==
    /\ Main \in Thread
    /\ Idle \in Thread
    /\ Main # Idle
    /\ NULL \notin Thread
    /\ TIME_SLICE \in Nat \ {0}

VARIABLES
    status,        \* t->status; "NONE" while the page holds no thread
    ready_list,    \* the run queue, a sequence of threads
    current,       \* running_thread(): the owner of the stack in use
    idle_thread,   \* NULL until idle() has stored itself
    thread_ticks   \* timer ticks since the last switch

schedVars == <<status, ready_list, current, idle_thread, thread_ticks>>

Status == {"NONE", "BLOCKED", "READY", "RUNNING", "DYING"}

SchedTypeOK ==
    /\ status \in [Thread -> Status]
    /\ ready_list \in Seq(Thread)
    /\ current \in Thread
    /\ idle_thread \in {NULL, Idle}
    /\ thread_ticks \in 0..(TIME_SLICE - 1)

-----------------------------------------------------------------------------
\* thread_init(): the code that is running becomes the thread "main".
SchedInit ==
    /\ status = [t \in Thread |-> IF t = Main THEN "RUNNING" ELSE "NONE"]
    /\ ready_list = <<>>
    /\ current = Main
    /\ idle_thread = NULL
    /\ thread_ticks = 0

\* next_thread_to_run(): the head of the run queue, else the idle thread.
NextThread(queue) == IF queue = <<>> THEN idle_thread ELSE Head(queue)

(***************************************************************************)
(* schedule() and schedule_tail(): the running thread has just got the     *)
(* status `left` and the run queue is `queue`.  Switch, start a new time   *)
(* slice, and free the page of the thread we left if it is dying and is    *)
(* not the initial thread.                                                 *)
(***************************************************************************)
Reaped(left) == IF left = "DYING" /\ current # Main THEN "NONE" ELSE left

Schedule(left, queue) ==
    /\ current' = NextThread(queue)
    /\ ready_list' = IF queue = <<>> THEN queue ELSE Tail(queue)
    /\ status' = [status EXCEPT ![current] = Reaped(left),
                                ![NextThread(queue)] = "RUNNING"]
    /\ thread_ticks' = 0
    /\ UNCHANGED idle_thread

\* thread_block(): sleep until somebody calls thread_unblock().
ThreadBlock == Schedule("BLOCKED", ready_list)

\* Slips: the yielding thread goes to the front; the idle thread is queued.
YieldToFront ==
    Schedule("READY", IF current = idle_thread THEN ready_list
                                               ELSE <<current>> \o ready_list)
YieldQueuesIdle == Schedule("READY", Append(ready_list, current))

\* thread_yield(): the idle thread alone does not go back to the run queue.
ThreadYield ==
    Schedule("READY", IF current = idle_thread THEN ready_list
                                               ELSE Append(ready_list, current))

\* Slip: the dying thread is queued like a yielding one.
ExitStaysQueued == Schedule("DYING", Append(ready_list, current))

\* thread_exit(): the next thread destroys this one.
ThreadExit == Schedule("DYING", ready_list)

\* thread_unblock(t): t joins the run queue; the caller keeps running.
ThreadUnblock(t) ==
    /\ ready_list' = Append(ready_list, t)
    /\ status' = [status EXCEPT ![t] = "READY"]
    /\ UNCHANGED <<current, idle_thread, thread_ticks>>

\* thread_tick(), then the end of intr_handler(): preempt a used-up slice.
ThreadTick ==
    IF thread_ticks + 1 >= TIME_SLICE
    THEN ThreadYield
    ELSE /\ thread_ticks' = thread_ticks + 1
         /\ UNCHANGED <<status, ready_list, current, idle_thread>>
=============================================================================
