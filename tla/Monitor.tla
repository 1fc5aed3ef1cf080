------------------------------- MODULE Monitor -------------------------------
(***************************************************************************)
(* What threads/synch.h promises its callers: a lock has at most one       *)
(* owner, a semaphore is a counter with atomic P and V, and waiting on a   *)
(* condition gives up the lock and starts to wait in one indivisible step, *)
(* so that every later signal finds the waiter.  Signals go to the waiter  *)
(* that has waited longest, and a signalled thread must take the lock      *)
(* again, in competition with everybody else (Mesa style).                 *)
(*                                                                         *)
(* Nothing here says how threads are scheduled or put to sleep.            *)
(***************************************************************************)
EXTENDS Naturals, Sequences

CONSTANTS Thread, Sema, Lock, Cond, LockOf, NULL

VARIABLES
    units,     \* the value of each semaphore
    owner,     \* the owner of each lock
    waiting,   \* who waits on each condition, the oldest first
    reclaim    \* the lock a signalled thread has to take again

vars == <<units, owner, waiting, reclaim>>

Init ==
    /\ units = [s \in Sema |-> 0]
    /\ owner = [l \in Lock |-> NULL]
    /\ waiting = [c \in Cond |-> <<>>]
    /\ reclaim = [t \in Thread |-> NULL]

P(s) ==
    /\ units[s] > 0
    /\ units' = [units EXCEPT ![s] = @ - 1]
    /\ UNCHANGED <<owner, waiting, reclaim>>

V(s) ==
    /\ units' = [units EXCEPT ![s] = @ + 1]
    /\ UNCHANGED <<owner, waiting, reclaim>>

Acquire(t, l) ==
    /\ owner[l] = NULL
    /\ reclaim[t] = NULL
    /\ owner' = [owner EXCEPT ![l] = t]
    /\ UNCHANGED <<units, waiting, reclaim>>

Release(t, l) ==
    /\ owner[l] = t
    /\ owner' = [owner EXCEPT ![l] = NULL]
    /\ UNCHANGED <<units, waiting, reclaim>>

Wait(t, c) ==
    /\ owner[LockOf[c]] = t
    /\ owner' = [owner EXCEPT ![LockOf[c]] = NULL]
    /\ waiting' = [waiting EXCEPT ![c] = Append(@, t)]
    /\ UNCHANGED <<units, reclaim>>

Signal(t, c) ==
    /\ owner[LockOf[c]] = t
    /\ waiting[c] # <<>>
    /\ waiting' = [waiting EXCEPT ![c] = Tail(@)]
    /\ reclaim' = [reclaim EXCEPT ![Head(waiting[c])] = LockOf[c]]
    /\ UNCHANGED <<units, owner>>

Reacquire(t) ==
    /\ reclaim[t] # NULL
    /\ owner[reclaim[t]] = NULL
    /\ owner' = [owner EXCEPT ![reclaim[t]] = t]
    /\ reclaim' = [reclaim EXCEPT ![t] = NULL]
    /\ UNCHANGED <<units, waiting>>

Next ==
    \/ \E s \in Sema : P(s) \/ V(s)
    \/ \E t \in Thread :
          \/ \E l \in Lock : Acquire(t, l) \/ Release(t, l)
          \/ \E c \in Cond : Wait(t, c) \/ Signal(t, c)
          \/ Reacquire(t)

Spec == Init /\ [][Next]_vars
=============================================================================
