------------------------------ MODULE Priority ------------------------------
(***************************************************************************)
(* The second kernel tree, `changed_version-mine', where it differs from   *)
(* the first: threads/thread.c and threads/synch.c choose by priority and  *)
(* donate it.  Here is what their choices and donations make of the lists  *)
(* they are given, and how far the start of that kernel gets.              *)
(*                                                                         *)
(* A thread is [priority, realPrio, lockHoldr, locks], with the set of its *)
(* locks or NULL; a lock is [holder, waiters].                             *)
(***************************************************************************)
EXTENDS Integers, Sequences, SequencesExt, FiniteSetsExt

CONSTANTS NULL, PRI_MIN, PRI_MAX

\* The positions of the first of those with the highest priority, among some positions.
FirstMax(threads, list, among) ==
    {i \in among : \A j \in among : threads[list[j]].priority < threads[list[i]].priority
                                    \/ (threads[list[j]].priority = threads[list[i]].priority /\ i <= j)}

(***************************************************************************)
(* thread.c.                                                               *)
(***************************************************************************)
highPrio(threads, ready_list) == FirstMax(threads, ready_list, DOMAIN ready_list)
next_thread_to_run(threads, ready_list, idle_thread) ==
    IF ready_list = <<>> THEN [next |-> idle_thread, ready_list |-> <<>>]
    ELSE LET i == Min(highPrio(threads, ready_list)) IN [next |-> ready_list[i], ready_list |-> RemoveAt(ready_list, i)]
CreateYields(threads, current, priority) == threads[current].priority < priority
\* list_begin(NULL) does not hold its assertion.
updatePrio(threads, locks, t, prio) ==
    LET donors == UNION {ToSet(locks[l].waiters) : l \in threads[t].locks}
    IN [threads EXCEPT ![t].priority = Max({threads[t].realPrio, prio} \union {threads[w].priority : w \in donors})]
thread_set_priority(threads, locks, current, new_priority) ==
    IF threads[current].locks = NULL THEN "PANIC"
    ELSE updatePrio([threads EXCEPT ![current].realPrio = new_priority], locks, current, -1)
init_thread(priority) ==
    IF priority \in PRI_MIN..PRI_MAX THEN [priority |-> priority, realPrio |-> priority, lockHoldr |-> NULL, locks |-> NULL] ELSE "PANIC"

(***************************************************************************)
(* synch.c.                                                                *)
(***************************************************************************)
\* The loop of lock_acquire() over holders ends only where a null pointer is followed.
RECURSIVE DonateFrom(_, _, _, _)
DonateFrom(threads, locks, temp, prio) ==
    IF threads[temp].locks = NULL THEN [threads |-> threads, end |-> "PANIC"]
    ELSE LET updated == updatePrio(threads, locks, temp, prio)
             lock == updated[temp].lockHoldr
         IN IF lock = NULL THEN [threads |-> updated, end |-> "null lockHoldr"]
            ELSE IF locks[lock].holder = NULL THEN [threads |-> updated, end |-> "sema_down"]
            ELSE DonateFrom(updated, locks, locks[lock].holder, prio)
AcquireDonates(threads, locks, current, lock) ==
    IF locks[lock].holder = NULL THEN [threads |-> threads, end |-> "sema_down"]
    ELSE DonateFrom(threads, locks, locks[lock].holder, threads[current].priority)
\* The waiter lock_release() makes the holder: the first is not compared with the others.
NextHolder(threads, waiters) ==
    waiters[IF Len(waiters) = 1 THEN 1 ELSE Min(FirstMax(threads, waiters, 2..Len(waiters)))]
my_sema_up(threads, waiters) == waiters[Min(FirstMax(threads, waiters, DOMAIN waiters))]

(***************************************************************************)
(* The start: thread_init() gives the first thread its identifier under    *)
(* tid_lock, which takes memory for the list of its locks.  What is not    *)
(* initialised yet is zero.                                                *)
(***************************************************************************)
zeroed == [value |-> 0, tail_prev |-> NULL]
sema_init(value) == [value |-> value, tail_prev |-> "head"]
list_push_back(list) == IF list.tail_prev = NULL THEN "PANIC" ELSE "inserted"
sema_down(sema) == IF sema.value > 0 THEN "down" ELSE IF list_push_back(sema) = "PANIC" THEN "PANIC" ELSE "blocks"
malloc(pool_semaphore) == IF sema_down(pool_semaphore) = "down" THEN "memory" ELSE sema_down(pool_semaphore)
\* The list is taken to begin at the member `locks' itself, so that its tail lies behind the
\* thread's structure, in words nobody has set.
lock_acquire(lock_semaphore, pool_semaphore, behind) ==
    IF sema_down(lock_semaphore) # "down" THEN sema_down(lock_semaphore)
    ELSE IF malloc(pool_semaphore) # "memory" THEN malloc(pool_semaphore)
    ELSE IF list_push_back([tail_prev |-> behind]) = "PANIC" THEN "PANIC" ELSE "acquired"
thread_init == lock_acquire(sema_init(1), zeroed, NULL)
=============================================================================
