-------------------------------- MODULE Synch --------------------------------
(***************************************************************************)
(* threads/synch.c on top of threads/thread.c: semaphores, locks and Mesa  *)
(* condition variables used by kernel threads that are preempted by the    *)
(* timer, and that create and destroy each other.                          *)
(*                                                                         *)
(* The granularity is the code's: what runs with interrupts off is one     *)
(* step, and between any two such regions the timer may switch threads.    *)
(* pc says where a thread stands inside the kernel: "run" is the caller's  *)
(* own code, the other labels are named after the function the thread is   *)
(* in and the statement it is about to execute.                            *)
(***************************************************************************)
EXTENDS Thread

CONSTANTS
    Sema,        \* plain semaphores, all of initial value 0
    IdleStarted, \* the semaphore on which thread_start() waits
    IntrSema,    \* the semaphores interrupt handlers may up
    Lock,        \* the locks
    TidLock,     \* the lock of allocate_tid()
    Cond,        \* the condition variables
    LockOf,      \* the lock each condition variable goes with
    MaxValue,    \* bound: a plain semaphore is not upped beyond this
    MaxTid       \* bound: no thread is created once next_tid exceeds this

ASSUME SynchAssumption ==
    /\ IdleStarted \in Sema
    /\ IntrSema \subseteq Sema \ {IdleStarted}
    /\ TidLock \in Lock
    /\ LockOf \in [Cond -> Lock \ {TidLock}]
    /\ Sema \cap Lock = {}
    /\ Thread \cap (Sema \cup Lock \cup Cond) = {}
    /\ NULL \notin Sema \cup Lock \cup Cond
    /\ MaxValue \in Nat \ {0}
    /\ MaxTid \in Nat

VARIABLES
    value,         \* sema->value
    waiters,       \* sema->waiters, a sequence of threads
    holder,        \* lock->holder
    cond_waiters,  \* cond->waiters: whose semaphore_elem is in the list
    tid,           \* t->tid
    next_tid,      \* the static of allocate_tid()
    pc,            \* where each thread stands
    arg,           \* the semaphore, lock or condition of the current call
    peer,          \* the thread being created, or the waiter being signalled
    held           \* the locks the caller's code relies on holding

syncVars == <<value, waiters, holder, cond_waiters>>
tidVars == <<tid, next_tid>>
callVars == <<pc, arg, peer, held>>
vars == <<schedVars, syncVars, tidVars, callVars>>

(***************************************************************************)
(* Every semaphore of the system: the plain ones, the one in each lock,    *)
(* and the one each thread puts in its stack frame while in cond_wait(),   *)
(* which is named by its thread.                                           *)
(***************************************************************************)
AnySema == Sema \cup Lock \cup Thread

\* Where a thread may sleep in sema_down(), and where it goes on from there.
DownLabel == {"sema_down", "lock_down", "wait_down", "relock_down"}
DownThen(label) ==
    CASE label = "sema_down"   -> "run"
      [] label = "lock_down"   -> "lock_set"
      [] label = "wait_down"   -> "relock"
      [] label = "relock_down" -> "relock_set"

Label == DownLabel \cup
    {"none", "run",
     "lock_set", "lock_up", "wait_unlock", "wait_up", "wait_call",
     "relock", "relock_set", "signal_up", "bcast", "bcast_up",
     "create", "tid", "tid_write", "tid_release", "unblock",
     "boot_create", "boot_enable", "boot_down",
     "idle_start", "idle_up", "idle_loop", "idle_hlt"}

(***************************************************************************)
(* Interrupts are off while main boots, and when a thread that slept in    *)
(* sema_down() is switched to: it re-tests the value before it turns them  *)
(* on again.                                                               *)
(***************************************************************************)
IntrOn == pc[current] \notin DownLabel \cup {"boot_create", "boot_enable"}

TypeOK ==
    /\ SchedTypeOK
    /\ value \in [AnySema -> Nat]
    /\ waiters \in [AnySema -> Seq(Thread)]
    /\ holder \in [Lock -> Thread \cup {NULL}]
    /\ cond_waiters \in [Cond -> Seq(Thread)]
    /\ tid \in [Thread -> Nat]
    /\ next_tid \in Nat
    /\ pc \in [Thread -> Label]
    /\ arg \in [Thread -> Sema \cup Lock \cup Cond \cup {NULL}]
    /\ peer \in [Thread -> Thread \cup {NULL}]
    /\ held \in [Thread -> SUBSET Lock]

-----------------------------------------------------------------------------
\* The machine as thread_init() leaves it; lock_init() has run on each lock.
Init ==
    /\ SchedInit
    /\ value = [s \in AnySema |-> IF s \in Lock THEN 1 ELSE 0]
    /\ waiters = [s \in AnySema |-> <<>>]
    /\ holder = [l \in Lock |-> NULL]
    /\ cond_waiters = [c \in Cond |-> <<>>]
    /\ tid = [t \in Thread |-> IF t = Main THEN 1 ELSE 0]
    /\ next_tid = 2
    /\ pc = [t \in Thread |-> IF t = Main THEN "boot_create" ELSE "none"]
    /\ arg = [t \in Thread |-> NULL]
    /\ peer = [t \in Thread |-> NULL]
    /\ held = [t \in Thread |-> {}]

\* t executes the statement at `label`.
At(t, label) == current = t /\ pc[t] = label
Goto(t, label) == pc' = [pc EXCEPT ![t] = label]

(***************************************************************************)
(* One turn of the loop of sema_down(s) by t: take a unit and go on at     *)
(* `done`, or queue up and sleep at `asleep`.                              *)
(***************************************************************************)
SemaDown(t, s, done, asleep) ==
    \/ /\ value[s] > 0
       /\ value' = [value EXCEPT ![s] = @ - 1]
       /\ Goto(t, done)
       /\ UNCHANGED <<waiters, schedVars>>
    \/ /\ value[s] = 0
       /\ waiters' = [waiters EXCEPT ![s] = Append(@, t)]
       /\ Goto(t, asleep)
       /\ ThreadBlock
       /\ UNCHANGED value

\* Slip: nobody is woken.
SemaUpSilent(s) ==
    /\ value' = [value EXCEPT ![s] = @ + 1]
    /\ UNCHANGED <<waiters, schedVars>>

\* sema_up(s): wake the first waiter, if any, and add one unit.
SemaUp(s) ==
    /\ value' = [value EXCEPT ![s] = @ + 1]
    /\ IF waiters[s] = <<>>
       THEN UNCHANGED <<waiters, schedVars>>
       ELSE /\ waiters' = [waiters EXCEPT ![s] = Tail(@)]
            /\ ThreadUnblock(Head(waiters[s]))

-----------------------------------------------------------------------------
(* Interrupts *)

\* What an interrupt leaves of the idle thread: HLT is over.
AwakenIdle(labels) ==
    [labels EXCEPT ![Idle] = IF current = Idle /\ @ = "idle_hlt"
                             THEN "idle_loop" ELSE @]

\* The timer interrupt.
TimerTick ==
    /\ IntrOn
    /\ ThreadTick
    /\ pc' = AwakenIdle(pc)
    /\ UNCHANGED <<syncVars, tidVars, arg, peer, held>>

\* A device's interrupt handler ups the semaphore its driver sleeps on.
DeviceUp(s) ==
    /\ IntrOn
    /\ value[s] < MaxValue
    /\ SemaUp(s)
    /\ pc' = AwakenIdle(pc)
    /\ UNCHANGED <<holder, cond_waiters, tidVars, arg, peer, held>>

(* Semaphores *)

\* Slip: `if' for `while', the woken thread does not re-test the value.
SemaDownOnce(t) ==
    /\ current = t
    /\ pc[t] \in DownLabel
    /\ LET s == IF pc[t] = "wait_down" THEN t ELSE arg[t]
       IN value' = [value EXCEPT ![s] = IF @ > 0 THEN @ - 1 ELSE 0]
    /\ Goto(t, DownThen(pc[t]))
    /\ arg' = [arg EXCEPT ![t] = IF pc'[t] = "run" THEN NULL ELSE @]
    /\ UNCHANGED <<schedVars, waiters, holder, cond_waiters, tidVars, peer, held>>

\* The sema_down() that t sleeps in goes round its loop.
SemaDownLoop(t) ==
    /\ current = t
    /\ pc[t] \in DownLabel
    /\ SemaDown(t, IF pc[t] = "wait_down" THEN t ELSE arg[t],
                DownThen(pc[t]), pc[t])
    /\ arg' = [arg EXCEPT ![t] = IF pc'[t] = "run" THEN NULL ELSE @]
    /\ UNCHANGED <<holder, cond_waiters, tidVars, peer, held>>

CallSemaDown(t, s) ==
    /\ At(t, "run")
    /\ SemaDown(t, s, "run", "sema_down")
    /\ arg' = [arg EXCEPT ![t] = IF pc'[t] = "run" THEN NULL ELSE s]
    /\ UNCHANGED <<holder, cond_waiters, tidVars, peer, held>>

\* sema_try_down() that succeeds; one that fails changes nothing.
CallSemaTryDown(t, s) ==
    /\ At(t, "run")
    /\ value[s] > 0
    /\ value' = [value EXCEPT ![s] = @ - 1]
    /\ UNCHANGED <<schedVars, waiters, holder, cond_waiters, tidVars, callVars>>

CallSemaUp(t, s) ==
    /\ At(t, "run")
    /\ value[s] < MaxValue
    /\ SemaUp(s)
    /\ UNCHANGED <<holder, cond_waiters, tidVars, callVars>>

(* Locks *)

\* lock_acquire(l): sema_down() and, in a later step, lock->holder.
LockAcquire(t, l) ==
    /\ At(t, "run")
    /\ l \notin held[t]
    /\ SemaDown(t, l, "lock_set", "lock_down")
    /\ arg' = [arg EXCEPT ![t] = l]
    /\ UNCHANGED <<holder, cond_waiters, tidVars, peer, held>>

\* lock_try_acquire(l) that gets the semaphore.
LockTryAcquire(t, l) ==
    /\ At(t, "run")
    /\ l \notin held[t]
    /\ value[l] > 0
    /\ value' = [value EXCEPT ![l] = @ - 1]
    /\ Goto(t, "lock_set")
    /\ arg' = [arg EXCEPT ![t] = l]
    /\ UNCHANGED <<schedVars, waiters, holder, cond_waiters, tidVars, peer, held>>

\* lock->holder = thread_current(): back to the caller, or to allocate_tid().
LockSetHolder(t) ==
    /\ pc[t] \in {"lock_set", "relock_set"}
    /\ current = t
    /\ holder' = [holder EXCEPT ![arg[t]] = t]
    /\ IF peer[t] = NULL
       THEN /\ Goto(t, "run")
            /\ held' = [held EXCEPT ![t] = @ \cup {arg[t]}]
            /\ arg' = [arg EXCEPT ![t] = NULL]
       ELSE /\ Goto(t, "tid")
            /\ UNCHANGED <<held, arg>>
    /\ UNCHANGED <<schedVars, value, waiters, cond_waiters, tidVars, peer>>

\* Slip: lock->holder is not cleared.
ClearHolderNot(t, l, label) ==
    /\ held' = [held EXCEPT ![t] = @ \ {l}]
    /\ arg' = [arg EXCEPT ![t] = l]
    /\ Goto(t, label)
    /\ UNCHANGED <<schedVars, syncVars, tidVars, peer>>

\* The first half of lock_release(l): lock->holder = NULL.
ClearHolder(t, l, label) ==
    /\ holder' = [holder EXCEPT ![l] = NULL]
    /\ held' = [held EXCEPT ![t] = @ \ {l}]
    /\ arg' = [arg EXCEPT ![t] = l]
    /\ Goto(t, label)
    /\ UNCHANGED <<schedVars, value, waiters, cond_waiters, tidVars, peer>>

LockRelease(t, l) ==
    /\ At(t, "run")
    /\ l \in held[t]
    /\ ClearHolder(t, l, "lock_up")

\* The second half of lock_release(): sema_up(&lock->semaphore).
LockReleaseUp(t) ==
    /\ At(t, "lock_up")
    /\ SemaUp(arg[t])
    /\ Goto(t, IF peer[t] = NULL THEN "run" ELSE "unblock")
    /\ arg' = [arg EXCEPT ![t] = NULL]
    /\ UNCHANGED <<holder, cond_waiters, tidVars, peer, held>>

(* Condition variables *)

\* cond_wait(c, LockOf[c]): the waiter's semaphore_elem joins the list ...
CondWait(t, c) ==
    /\ At(t, "run")
    /\ LockOf[c] \in held[t]
    /\ value' = [value EXCEPT ![t] = 0]
    /\ waiters' = [waiters EXCEPT ![t] = <<>>]
    /\ cond_waiters' = [cond_waiters EXCEPT ![c] = Append(@, t)]
    /\ arg' = [arg EXCEPT ![t] = LockOf[c]]
    /\ Goto(t, "wait_unlock")
    /\ UNCHANGED <<schedVars, holder, tidVars, peer, held>>

\* ... lock_release() gives the lock up in two steps ...
WaitClearHolder(t) ==
    /\ At(t, "wait_unlock")
    /\ ClearHolder(t, arg[t], "wait_up")

WaitUnlock(t) ==
    /\ At(t, "wait_up")
    /\ SemaUp(arg[t])
    /\ Goto(t, "wait_call")
    /\ UNCHANGED <<holder, cond_waiters, tidVars, arg, peer, held>>

\* Slip: sema_init(&waiter.semaphore, 0) comes after lock_release().
WaitInitLate(t) ==
    /\ At(t, "wait_call")
    /\ value' = [value EXCEPT ![t] = 0]
    /\ waiters' = [waiters EXCEPT ![t] = <<t>>]
    /\ Goto(t, "wait_down")
    /\ ThreadBlock
    /\ UNCHANGED <<holder, cond_waiters, tidVars, arg, peer, held>>

\* ... sema_down(&waiter.semaphore) ...
WaitDown(t) ==
    /\ At(t, "wait_call")
    /\ SemaDown(t, t, "relock", "wait_down")
    /\ UNCHANGED <<holder, cond_waiters, tidVars, arg, peer, held>>

\* ... and lock_acquire() takes the lock again.
Relock(t) ==
    /\ At(t, "relock")
    /\ SemaDown(t, arg[t], "relock_set", "relock_down")
    /\ UNCHANGED <<holder, cond_waiters, tidVars, arg, peer, held>>

\* Slip: the last waiter is taken off the list, not the first.
PopLastWaiter(t, c, label) ==
    /\ cond_waiters[c] # <<>>
    /\ LET n == Len(cond_waiters[c]) IN
          /\ cond_waiters' = [cond_waiters EXCEPT ![c] = SubSeq(@, 1, n - 1)]
          /\ peer' = [peer EXCEPT ![t] = cond_waiters[c][n]]
    /\ Goto(t, label)
    /\ UNCHANGED <<schedVars, value, waiters, holder, tidVars, held>>

\* cond_signal(c): take the first semaphore_elem off the list, if any ...
PopWaiter(t, c, label) ==
    /\ cond_waiters[c] # <<>>
    /\ cond_waiters' = [cond_waiters EXCEPT ![c] = Tail(@)]
    /\ peer' = [peer EXCEPT ![t] = Head(cond_waiters[c])]
    /\ Goto(t, label)
    /\ UNCHANGED <<schedVars, value, waiters, holder, tidVars, held>>

CondSignal(t, c) ==
    /\ At(t, "run")
    /\ LockOf[c] \in held[t]
    /\ PopWaiter(t, c, "signal_up")
    /\ UNCHANGED arg

\* ... and up its semaphore.
SignalUp(t) ==
    /\ pc[t] \in {"signal_up", "bcast_up"}
    /\ current = t
    /\ SemaUp(peer[t])
    /\ peer' = [peer EXCEPT ![t] = NULL]
    /\ Goto(t, IF pc[t] = "signal_up" THEN "run" ELSE "bcast")
    /\ UNCHANGED <<holder, cond_waiters, tidVars, arg, held>>

\* cond_broadcast(c): cond_signal() until the list is empty.
CondBroadcast(t, c) ==
    /\ At(t, "run")
    /\ LockOf[c] \in held[t]
    /\ cond_waiters[c] # <<>>
    /\ arg' = [arg EXCEPT ![t] = c]
    /\ Goto(t, "bcast")
    /\ UNCHANGED <<schedVars, syncVars, tidVars, peer, held>>

BroadcastNext(t) ==
    /\ At(t, "bcast")
    /\ PopWaiter(t, arg[t], "bcast_up")
    /\ UNCHANGED arg

BroadcastDone(t) ==
    /\ At(t, "bcast")
    /\ cond_waiters[arg[t]] = <<>>
    /\ arg' = [arg EXCEPT ![t] = NULL]
    /\ Goto(t, "run")
    /\ UNCHANGED <<schedVars, syncVars, tidVars, peer, held>>

(* Threads *)

CallYield(t) ==
    /\ At(t, "run")
    /\ ThreadYield
    /\ UNCHANGED <<syncVars, tidVars, callVars>>

\* A thread returns from its function; a sane one holds no lock by then.
CallExit(t) ==
    /\ At(t, "run")
    /\ held[t] = {}
    /\ ThreadExit
    /\ Goto(t, "none")
    /\ UNCHANGED <<syncVars, tidVars, arg, peer, held>>

\* thread_create(): palloc_get_page() finds page u; init_thread(u).
ThreadCreate(t, u) ==
    /\ At(t, "run")
    /\ status[u] = "NONE"
    /\ next_tid <= MaxTid
    /\ status' = [status EXCEPT ![u] = "BLOCKED"]
    /\ peer' = [peer EXCEPT ![t] = u]
    /\ arg' = [arg EXCEPT ![t] = TidLock]
    /\ Goto(t, "create")
    /\ UNCHANGED <<ready_list, current, idle_thread, thread_ticks,
                   syncVars, tidVars, held>>

\* Slip: allocate_tid() does not take the lock.
TidAcquireNot(t) ==
    /\ At(t, "create")
    /\ Goto(t, "tid")
    /\ UNCHANGED <<schedVars, syncVars, tidVars, arg, peer, held>>

\* allocate_tid(): lock_acquire(&tid_lock), tid = next_tid++ as a read and a
\* write, lock_release(&tid_lock).
TidAcquire(t) ==
    /\ At(t, "create")
    /\ SemaDown(t, TidLock, "lock_set", "lock_down")
    /\ UNCHANGED <<holder, cond_waiters, tidVars, arg, peer, held>>

TidRead(t) ==
    /\ At(t, "tid")
    /\ tid' = [tid EXCEPT ![peer[t]] = next_tid]
    /\ Goto(t, "tid_write")
    /\ UNCHANGED <<schedVars, syncVars, next_tid, arg, peer, held>>

TidWrite(t) ==
    /\ At(t, "tid_write")
    /\ next_tid' = tid[peer[t]] + 1
    /\ Goto(t, "tid_release")
    /\ UNCHANGED <<schedVars, syncVars, tid, arg, peer, held>>

TidRelease(t) ==
    /\ At(t, "tid_release")
    /\ ClearHolder(t, TidLock, "lock_up")

\* The new thread's stack is ready: thread_unblock() and return.
CreateUnblock(t) ==
    /\ At(t, "unblock")
    /\ ThreadUnblock(peer[t])
    /\ pc' = [pc EXCEPT ![t] = "run", ![peer[t]] = "run"]
    /\ peer' = [peer EXCEPT ![t] = NULL]
    /\ UNCHANGED <<syncVars, tidVars, arg, held>>

(***************************************************************************)
(* thread_start(): thread_create("idle") with interrupts off, where no     *)
(* other thread exists and allocate_tid() cannot be disturbed; then        *)
(* intr_enable(), and sema_down(&idle_started).                            *)
(***************************************************************************)
BootCreateIdle ==
    /\ At(Main, "boot_create")
    /\ ThreadUnblock(Idle)
    /\ tid' = [tid EXCEPT ![Idle] = next_tid]
    /\ next_tid' = next_tid + 1
    /\ pc' = [pc EXCEPT ![Main] = "boot_enable", ![Idle] = "idle_start"]
    /\ UNCHANGED <<syncVars, arg, peer, held>>

BootEnable ==
    /\ At(Main, "boot_enable")
    /\ Goto(Main, "boot_down")
    /\ UNCHANGED <<schedVars, syncVars, tidVars, arg, peer, held>>

BootWait ==
    /\ At(Main, "boot_down")
    /\ SemaDown(Main, IdleStarted, "run", "sema_down")
    /\ arg' = [arg EXCEPT ![Main] = IF pc'[Main] = "run" THEN NULL
                                                         ELSE IdleStarted]
    /\ UNCHANGED <<holder, cond_waiters, tidVars, peer, held>>

\* Slip: idle_thread is not stored.
IdleStartNot ==
    /\ At(Idle, "idle_start")
    /\ Goto(Idle, "idle_up")
    /\ UNCHANGED <<schedVars, syncVars, tidVars, arg, peer, held>>

\* idle(): store idle_thread, sema_up(idle_started), then block and halt for
\* ever; an interrupt ends the HLT.
IdleStart ==
    /\ At(Idle, "idle_start")
    /\ idle_thread' = Idle
    /\ Goto(Idle, "idle_up")
    /\ UNCHANGED <<status, ready_list, current, thread_ticks,
                   syncVars, tidVars, arg, peer, held>>

IdleUp ==
    /\ At(Idle, "idle_up")
    /\ SemaUp(IdleStarted)
    /\ Goto(Idle, "idle_loop")
    /\ UNCHANGED <<holder, cond_waiters, tidVars, arg, peer, held>>

IdleBlock ==
    /\ At(Idle, "idle_loop")
    /\ ThreadBlock
    /\ Goto(Idle, "idle_hlt")
    /\ UNCHANGED <<syncVars, tidVars, arg, peer, held>>

-----------------------------------------------------------------------------
\* A step of t inside a kernel function.
KernelStep(t) ==
    \/ SemaDownLoop(t)
    \/ LockSetHolder(t)
    \/ LockReleaseUp(t)
    \/ WaitClearHolder(t) \/ WaitUnlock(t) \/ WaitDown(t) \/ Relock(t)
    \/ SignalUp(t) \/ BroadcastNext(t) \/ BroadcastDone(t)
    \/ TidAcquire(t) \/ TidRead(t) \/ TidWrite(t) \/ TidRelease(t)
    \/ CreateUnblock(t)

BootStep ==
    BootCreateIdle \/ BootEnable \/ BootWait \/ IdleStart \/ IdleUp \/ IdleBlock

\* The caller's code of t makes a call.
Call(t) ==
    \/ \E s \in Sema \ {IdleStarted} :
          CallSemaDown(t, s) \/ CallSemaTryDown(t, s) \/ CallSemaUp(t, s)
    \/ \E l \in Lock \ {TidLock} :
          LockAcquire(t, l) \/ LockTryAcquire(t, l) \/ LockRelease(t, l)
    \/ \E c \in Cond : CondWait(t, c) \/ CondSignal(t, c) \/ CondBroadcast(t, c)
    \/ \E u \in Thread : ThreadCreate(t, u)
    \/ CallYield(t)
    \/ CallExit(t)

Next ==
    \/ TimerTick
    \/ \E s \in IntrSema : DeviceUp(s)
    \/ BootStep
    \/ \E t \in Thread : KernelStep(t) \/ Call(t)

Spec == Init /\ [][Next]_vars

-----------------------------------------------------------------------------
(* Safety *)

Elems(seq) == {seq[i] : i \in DOMAIN seq}
NoRepeats(seq) == \A i, j \in DOMAIN seq : i # j => seq[i] # seq[j]

\* The semaphore whose sema_down() t is in, when pc[t] is in DownLabel.
SemaOf(t) == IF pc[t] = "wait_down" THEN t ELSE arg[t]

(***************************************************************************)
(* thread.h:77: the `elem' of a thread is in the run queue or in one       *)
(* semaphore's wait list, never in two lists nor twice in one.  Exactly    *)
(* the ready threads are queued to run, the idle thread apart, and exactly *)
(* the running thread is the one whose stack is in use.                    *)
(***************************************************************************)
ElemOnOneList ==
    /\ NoRepeats(ready_list)
    /\ Elems(ready_list) = {t \in Thread : status[t] = "READY"} \ {idle_thread}
    /\ {t \in Thread : status[t] = "RUNNING"} = {current}
    /\ \A s \in AnySema :
          /\ NoRepeats(waiters[s])
          /\ \A t \in Elems(waiters[s]) :
                status[t] = "BLOCKED" /\ pc[t] \in DownLabel /\ SemaOf(t) = s

\* The threads that were woken in sema_down(s) and have not re-tested it yet.
Woken(s) ==
    {t \in Thread : /\ pc[t] \in DownLabel
                    /\ SemaOf(t) = s
                    /\ t \notin Elems(waiters[s])}

(***************************************************************************)
(* No wake-up is lost: while threads sleep on a semaphore, each of its     *)
(* units has a woken thread on its way.  sema_up() wakes before it adds    *)
(* the unit, and a unit may be stolen by a thread that did not sleep.      *)
(***************************************************************************)
WakeupsCoverValue ==
    \A s \in AnySema :
        waiters[s] # <<>> => value[s] <= Cardinality(Woken(s))

\* t has the unit of lock l: it is between sema_down() and sema_up() of it.
Owns(t, l) ==
    \/ l \in held[t]
    \/ /\ arg[t] = l
       /\ pc[t] \in {"lock_set", "relock_set", "lock_up", "wait_up",
                     "tid", "tid_write", "tid_release"}

\* The code t executes relies on lock l being held.
InCritical(t, l) ==
    \/ l \in held[t]
    \/ l = TidLock /\ pc[t] \in {"tid", "tid_write", "tid_release"}

(***************************************************************************)
(* A lock has at most one owner, and its semaphore is 1 exactly when it    *)
(* has none, whatever point of lock_acquire(), lock_release() or           *)
(* cond_wait() the timer interrupts.                                       *)
(***************************************************************************)
MutualExclusion ==
    \A l \in Lock :
        /\ \A t, u \in Thread : Owns(t, l) /\ Owns(u, l) => t = u
        /\ value[l] = IF \E t \in Thread : Owns(t, l) THEN 0 ELSE 1

(***************************************************************************)
(* lock->holder, which is stored after the semaphore is taken and cleared  *)
(* before it is given back, is right whenever the assertions of            *)
(* lock_release(), cond_wait() and cond_signal() (synch.c:232, 295, 317)   *)
(* look at it, and never names a thread that is not in its critical        *)
(* section.                                                                *)
(***************************************************************************)
HolderIsRight ==
    \A l \in Lock, t \in Thread : InCritical(t, l) <=> holder[l] = t

(***************************************************************************)
(* A thread asleep in cond_wait() can still be signalled or has been: it   *)
(* is in the condition's list, or a signaller took it off and is about to  *)
(* up its semaphore.                                                       *)
(***************************************************************************)
NoLostSignal ==
    \A t \in Thread :
        pc[t] = "wait_down" /\ t \in Elems(waiters[t]) =>
            \/ \E c \in Cond : t \in Elems(cond_waiters[c])
            \/ \E u \in Thread :
                  peer[u] = t /\ pc[u] \in {"signal_up", "bcast_up"}

(***************************************************************************)
(* Whoever sleeps can still be woken: no unit of a semaphore and no signal *)
(* is lost, whatever point of sema_up(), cond_wait() or cond_signal() the  *)
(* timer interrupts.                                                       *)
(***************************************************************************)
NoWakeupLost == WakeupsCoverValue /\ NoLostSignal

(***************************************************************************)
(* A page that schedule_tail() freed is referenced by nobody: no list, no  *)
(* lock, no thread in the middle of a call still points to it.             *)
(***************************************************************************)
NoDanglingThread ==
    \A t \in Thread : status[t] \in {"NONE", "DYING"} =>
        /\ t # current
        /\ t \notin Elems(ready_list)
        /\ \A s \in AnySema : t \notin Elems(waiters[s])
        /\ \A c \in Cond : t \notin Elems(cond_waiters[c])
        /\ \A l \in Lock : holder[l] # t
        /\ \A u \in Thread : peer[u] # t

\* allocate_tid() never gives one identifier to two threads that both exist.
UniqueTid ==
    \A t, u \in Thread :
        pc[t] # "none" /\ pc[u] # "none" /\ t # u => tid[t] # tid[u]

-----------------------------------------------------------------------------
(* The promise of synch.h *)

\* Who has the unit of lock l.
OwnerOf(l) ==
    IF \E t \in Thread : Owns(t, l) THEN CHOOSE t \in Thread : Owns(t, l) ELSE NULL

\* Who waits on c without the lock: everybody in the list, but for the one who
\* joined it last while that one is still on its way out of the lock.
StillHolds(t) == pc[t] \in {"wait_unlock", "wait_up"}
WaitingOn(c) ==
    LET q == cond_waiters[c] IN
    IF q # <<>> /\ StillHolds(q[Len(q)]) THEN SubSeq(q, 1, Len(q) - 1) ELSE q

\* The lock that t has to take again, once its semaphore_elem is off the list.
ToReclaim(t) ==
    IF /\ pc[t] \in {"wait_call", "wait_down", "relock", "relock_down"}
       /\ \A c \in Cond : t \notin Elems(cond_waiters[c])
    THEN arg[t] ELSE NULL

M == INSTANCE Monitor WITH
    units   <- [s \in Sema |-> value[s]],
    owner   <- [l \in Lock |-> OwnerOf(l)],
    waiting <- [c \in Cond |-> WaitingOn(c)],
    reclaim <- [t \in Thread |-> ToReclaim(t)]

(***************************************************************************)
(* The preemptible steps of synch.c implement the atomic operations of     *)
(* Monitor: "Atomically releases LOCK and waits for COND" (synch.c:267).   *)
(***************************************************************************)
ImplementsMonitor == M!Spec

-----------------------------------------------------------------------------
(* Liveness *)

(***************************************************************************)
(* The timer keeps interrupting whatever runs with interrupts on, and a    *)
(* thread that is given the processor gets to execute instructions.  Both  *)
(* are strong: the interrupt waits in the PIC while interrupts are off,    *)
(* and a thread may be preempted before its next step any finite number    *)
(* of times.  Nothing is assumed of the calls a thread makes, but for one  *)
(* thing: who holds a lock goes on to release it or to wait.               *)
(***************************************************************************)
Fairness ==
    /\ SF_vars(TimerTick)
    /\ WF_vars(BootStep)
    /\ \A t \in Thread \ {Idle} :
          /\ SF_vars(KernelStep(t))
          /\ \A l \in Lock \ {TidLock} : SF_vars(LockRelease(t, l))

LiveSpec == Spec /\ Fairness

\* Round robin: a ready thread, the idle one apart, gets the processor.
ReadyThreadRuns ==
    \A t \in Thread \ {Idle} : status[t] = "READY" ~> status[t] = "RUNNING"

\* A free lock that threads sleep on does not stay free.
FreeLockIsTaken ==
    \A l \in Lock : (value[l] = 1 /\ waiters[l] # <<>>) ~> (value[l] = 0)

\* A signalled waiter leaves cond_wait() or competes for its lock again.
SignalledWaiterLeaves ==
    \A t \in Thread :
        (pc[t] = "wait_down" /\ value[t] > 0)
            ~> (pc[t] \in {"relock_down", "relock_set"})

\* Boot ends: main gets past thread_start() and the idle thread is known.
BootCompletes == <>(idle_thread = Idle /\ pc[Main] = "run")

(***************************************************************************)
(* Who sleeps on something that is there gets up in the end: on a lock     *)
(* that is free, in cond_wait() after the signal, and the main thread on   *)
(* idle_started (thread.c:118).                                            *)
(***************************************************************************)
SleepersLeave == FreeLockIsTaken /\ SignalledWaiterLeaves /\ BootCompletes
=============================================================================
