------------------------------- MODULE MCSynch -------------------------------
(* Model values and small instances for Synch. *)
EXTENDS Synch, TLC

CONSTANTS
    mainT, idleT, a, b, d,  \* pages
    tidL, lk,               \* locks
    cv, cw,                 \* conditions
    started, sm             \* semaphores

OnePage == {mainT, idleT, a}
TwoPages == {mainT, idleT, a, b}
ThreePages == {mainT, idleT, a, b, d}
OnlyBoot == {started}
BootAndOne == {started, sm}
One == {sm}
None == {}
OnlyTidLock == {tidL}
TwoLocks == {tidL, lk}
OneCond == {cv}
TwoConds == {cv, cw}
OneCondLock == [c \in OneCond |-> lk]
TwoCondsLock == [c \in TwoConds |-> lk]
NoCondLock == [c \in {} |-> lk]

Symmetry == Permutations({a, b, d})

(***************************************************************************)
(* The second tree's priorities.                                           *)
(***************************************************************************)
Q == INSTANCE Priority WITH PRI_MIN <- 0, PRI_MAX <- 3
Named == {"t", "u", "v", "w"}
Threads == [Named -> {[priority |-> n, realPrio |-> n, lockHoldr |-> NULL, locks |-> {}] : n \in 0..3}]
Orders == {order \in [1..3 -> Named] : \A i, j \in 1..3 : order[i] = order[j] => i = j}

\* The thread that runs next is the first of the highest priority, and the others keep their
\* order; a semaphore is given so too, but a lock to the first of them only if it is not the
\* first waiter or the only one.
ASSUME HighestChosen == \A threads \in Threads, order \in Orders :
    LET Prio(t) == threads[t].priority
        run == Q!next_thread_to_run(threads, order, "idle")
        first == \A i \in 2..3 : Prio(order[i]) < Prio(order[1])
    IN /\ \A i \in 1..3 : Prio(order[i]) <= Prio(run.next)
       /\ \E i \in 1..3 : /\ order[i] = run.next /\ \A j \in 1..(i - 1) : Prio(order[j]) < Prio(run.next)
                          /\ run.ready_list = SubSeq(order, 1, i - 1) \o SubSeq(order, i + 1, 3)
       /\ Q!my_sema_up(threads, order) = run.next
       /\ Q!NextHolder(threads, order) # order[1]
       /\ (first => Q!NextHolder(threads, order) # run.next)
       /\ Q!NextHolder(threads, <<order[1]>>) = order[1]
       /\ Q!CreateYields(threads, order[1], 3) <=> Prio(order[1]) < 3

\* A thread that would wait gives its priority to everyone in the chain of holders before it,
\* and lowers nobody's; but the end of that chain is always a null pointer that is followed.
\* Setting a priority keeps what was given.
Chain(threads, n) ==
    [threads EXCEPT !["u"].locks = {"l1"}, !["v"].locks = {"l2"}, !["u"].lockHoldr = IF n > 1 THEN "l2" ELSE NULL]
Held == [l1 |-> [holder |-> "u", waiters |-> <<"w">>], l2 |-> [holder |-> "v", waiters |-> <<"u">>]]
ASSUME PriorityDonated == \A threads \in Threads, n \in 1..2 :
    LET r == Q!AcquireDonates(Chain(threads, n), Held, "t", "l1")
        free == Q!AcquireDonates(Chain(threads, n), [Held EXCEPT !.l1.holder = NULL], "t", "l1")
        chain == IF n = 1 THEN {"u"} ELSE {"u", "v"}
        set == Q!thread_set_priority(Chain(threads, n), Held, "u", 1)
    IN /\ r.end = "null lockHoldr"
       /\ \A k \in chain : r.threads[k].priority >= threads["t"].priority /\ r.threads[k].priority >= threads[k].realPrio
       /\ \A k \in Named \ chain : r.threads[k].priority = threads[k].priority
       /\ free = [threads |-> Chain(threads, n), end |-> "sema_down"]
       /\ set["u"].realPrio = 1 /\ set["u"].priority = IF threads["w"].priority > 1 THEN threads["w"].priority ELSE 1

\* The kernel of this tree does not start: thread_init() takes memory that palloc_init() has
\* not set up, and if it were set up would insert into words that are no list.
ASSUME StartPanics ==
    /\ Q!thread_init = "PANIC"
    /\ Q!lock_acquire(Q!sema_init(1), Q!sema_init(1), NULL) = "PANIC"
    /\ Q!lock_acquire(Q!sema_init(0), Q!sema_init(1), NULL) = "blocks"
    /\ LET t == Q!init_thread(2) IN t.locks = NULL /\ Q!thread_set_priority([u |-> t], Held, "u", 1) = "PANIC"
    /\ Q!init_thread(4) = "PANIC"
=============================================================================
