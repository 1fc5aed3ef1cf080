------------------------------- MODULE Palloc -------------------------------
(***************************************************************************)
(* threads/palloc.c and the functions of lib/kernel/bitmap.c it calls: two *)
(* pools of pages, a bit for each page, and a lock for each pool.  The     *)
(* operators are the steps of palloc_get_multiple() and                    *)
(* palloc_free_multiple(); the module that EXTENDS this one makes actions  *)
(* of them.                                                                *)
(*                                                                         *)
(* The bitmap is tested, set and cleared one bit at a time with interrupts *)
(* on, and palloc_free_multiple() takes no lock, so every bit is a step.   *)
(* The lock is that of Monitor: taken and released at once.                *)
(***************************************************************************)
EXTENDS Integers, FiniteSets, FiniteSetsExt

CONSTANTS
    Thread,
    NULL,
    FreePages,  \* free_pages: pages from the end of the kernel to that of RAM
    UserLimit   \* user_page_limit

-----------------------------------------------------------------------------
(* palloc_init() and init_pool() *)

Pool == {"kernel", "user"}

DivRoundUp(x, step) == (x + step - 1) \div step

UserPages == Min({FreePages \div 2, UserLimit})
Count(p) == IF p = "user" THEN UserPages ELSE FreePages - UserPages
Start(p) == IF p = "user" THEN FreePages - UserPages ELSE 0

\* bitmap_buf_size(): a bitmap and its 32-bit elements; the pages it takes.
MapPages(n) == DivRoundUp(8 + 4 * DivRoundUp(n, 32), 4096)

Base(p) == Start(p) + MapPages(Count(p))
Size(p) == Count(p) - MapPages(Count(p))

\* init_pool() panics where the bitmap does not fit.
ASSUME PoolsFit ==
    /\ FreePages \in Nat /\ UserLimit \in Nat
    /\ \A p \in Pool : MapPages(Count(p)) <= Count(p)

Page == 0..(FreePages - 1)
FromPool(p, page) == page >= Base(p) /\ page < Base(p) + Size(p)

-----------------------------------------------------------------------------
VARIABLES
    used_map,   \* the bits of each pool
    pool_lock,  \* the holder of each pool's lock
    pool,       \* per thread: the pool it works on
    cnt,        \* per thread: page_cnt
    idx,        \* per thread: page_idx, or i of bitmap_scan()
    bit,        \* per thread: i of bitmap_contains() and bitmap_set_multiple()
    pages,      \* per thread: the page it was given
    lacked      \* history: no group of cnt free pages when it got the lock

poolVars == <<used_map, pool_lock>>
pageRegs == <<pool, cnt, idx, bit, pages, lacked>>

FreeRun(p, n, i) == \A k \in 0..(n - 1) : ~used_map[p][i + k]

PallocInit ==
    /\ used_map = [p \in Pool |-> [i \in 0..(Size(p) - 1) |-> FALSE]]
    /\ pool_lock = [p \in Pool |-> NULL]
    /\ pool = [t \in Thread |-> "kernel"]
    /\ cnt = [t \in Thread |-> 0]
    /\ idx = [t \in Thread |-> 0]
    /\ bit = [t \in Thread |-> 0]
    /\ pages = [t \in Thread |-> NULL]
    /\ lacked = [t \in Thread |-> FALSE]

\* A call returns: its local variables are gone, and start from 0 again.
ForgetPages(t) ==
    /\ pool' = [pool EXCEPT ![t] = "kernel"]
    /\ cnt' = [cnt EXCEPT ![t] = 0]
    /\ idx' = [idx EXCEPT ![t] = 0]
    /\ bit' = [bit EXCEPT ![t] = 0]
    /\ pages' = [pages EXCEPT ![t] = NULL]
    /\ lacked' = [lacked EXCEPT ![t] = FALSE]

\* palloc_get_multiple(flags, n) is called; PAL_USER chooses the pool.
AskPages(t, p, n) ==
    /\ pool' = [pool EXCEPT ![t] = p]
    /\ cnt' = [cnt EXCEPT ![t] = n]
    /\ UNCHANGED <<poolVars, idx, bit, pages, lacked>>

\* Slip: the lock is not waited for.
LockPoolNot(t) ==
    LET p == pool[t] IN
    /\ pool_lock' = [pool_lock EXCEPT ![p] = t]
    /\ lacked' = [lacked EXCEPT ![t] =
                    \A i \in 0..(Size(p) - cnt[t]) : ~FreeRun(p, cnt[t], i)]
    /\ UNCHANGED <<used_map, pool, cnt, idx, bit, pages>>

\* lock_acquire(&pool->lock).
LockPool(t) ==
    LET p == pool[t] IN
    /\ pool_lock[p] = NULL
    /\ pool_lock' = [pool_lock EXCEPT ![p] = t]
    /\ lacked' = [lacked EXCEPT ![t] =
                    \A i \in 0..(Size(p) - cnt[t]) : ~FreeRun(p, cnt[t], i)]
    /\ UNCHANGED <<used_map, pool, cnt, idx, bit, pages>>

\* bitmap_scan(): one bitmap_test(), in the group that starts at idx.
ScanBit(t) ==
    /\ IF used_map[pool[t]][idx[t] + bit[t]]
       THEN /\ idx' = [idx EXCEPT ![t] = @ + 1]
            /\ bit' = [bit EXCEPT ![t] = 0]
       ELSE /\ bit' = [bit EXCEPT ![t] = @ + 1]
            /\ UNCHANGED idx
    /\ UNCHANGED <<poolVars, pool, cnt, pages, lacked>>

\* Slip: the last group is left out.
ScanIsOverEarly(t) == idx[t] + cnt[t] >= Size(pool[t])

ScanIsOver(t) == idx[t] + cnt[t] > Size(pool[t])
ScanFound(t) == bit[t] = cnt[t]

\* bitmap_set_multiple(): one bitmap_mark() or bitmap_reset().
SetBit(t, value) ==
    /\ used_map' = [used_map EXCEPT ![pool[t]][idx[t] + bit[t]] = value]
    /\ bit' = [bit EXCEPT ![t] = @ + 1]
    /\ UNCHANGED <<pool_lock, pool, cnt, idx, pages, lacked>>

\* lock_release(&pool->lock), and the address of page idx or a null pointer.
UnlockPool(t, found) ==
    /\ pool_lock' = [pool_lock EXCEPT ![pool[t]] = NULL]
    /\ pages' = [pages EXCEPT ![t] = IF found THEN Base(pool[t]) + idx[t] ELSE NULL]
    /\ pool' = [pool EXCEPT ![t] = "kernel"]
    /\ idx' = [idx EXCEPT ![t] = 0]
    /\ bit' = [bit EXCEPT ![t] = 0]
    /\ lacked' = [lacked EXCEPT ![t] = @ /\ ~found]
    /\ UNCHANGED <<used_map, cnt>>

\* palloc_free_multiple(page, n) is called: which pool, and which bit of it.
GivePages(t, page, n) ==
    LET p == IF FromPool("kernel", page) THEN "kernel" ELSE "user" IN
    /\ pool' = [pool EXCEPT ![t] = p]
    /\ idx' = [idx EXCEPT ![t] = page - Base(p)]
    /\ cnt' = [cnt EXCEPT ![t] = n]
    /\ bit' = [bit EXCEPT ![t] = 0]
    /\ pages' = [pages EXCEPT ![t] = NULL]
    /\ lacked' = [lacked EXCEPT ![t] = FALSE]
    /\ UNCHANGED poolVars
=============================================================================
