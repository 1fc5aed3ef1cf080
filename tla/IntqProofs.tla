----------------------------- MODULE IntqProofs -----------------------------
(***************************************************************************)
(* Theorems about Intq, for any threads, bytes and size of the queue.      *)
(***************************************************************************)
EXTENDS Intq, SequenceTheorems, TLAPS

-----------------------------------------------------------------------------
(* The inductive invariant *)

InWait(t) == pos[t] \in {"wait", "wait_woken"}

\* A thread has a call in progress exactly while it is in one.
CallOK == \A t \in Thread : pos[t] = "out" <=> call[t] = NULL

\* q->lock is held exactly by the thread in wait(), and the threads that
\* sleep for it are in its list, each once.
LockOK ==
    /\ lock_value = 0 <=> \E t \in Thread : InWait(t)
    /\ \A i \in 1..Len(lock_waiters) : pos[lock_waiters[i]] = "lock"
    /\ \A i, j \in 1..Len(lock_waiters) : lock_waiters[i] = lock_waiters[j] => i = j

IInv == IntqTypeOK /\ CallOK /\ LockOK /\ WaiterIsRight /\ OneWaits

Side == {"not_empty", "not_full"}

-----------------------------------------------------------------------------
LEMMA AfterType == \A slot \in Slot : After(slot) \in Slot
  BY IntqAssumption DEF Slot, After

LEMMA InitHolds == Init => IInv
  <1> SUFFICES ASSUME Init  PROVE IInv
    OBVIOUS
  <1> USE IntqAssumption DEF Init
  <1>1. IntqTypeOK
    BY DEF IntqTypeOK, Slot, Position
  <1>2. CallOK /\ LockOK /\ OneWaits
    BY DEF CallOK, LockOK, InWait, OneWaits
  <1>3. WaiterIsRight
    BY DEF WaiterIsRight
  <1> QED BY <1>1, <1>2, <1>3 DEF IInv

\* With a thread in wait() or on its way out of it, it is the only waiter.
LEMMA OnlyWaiter ==
  ASSUME IInv, NEW t \in Thread, InWait(t)
  PROVE  /\ \A s \in Side : waiter[s] # NULL => waiter[s] = t /\ pos[t] = "wait"
         /\ \A u \in Thread : InWait(u) => u = t
         /\ lock_value = 0
  <1>1. \A u \in Thread : InWait(u) => u = t
    BY DEF IInv, OneWaits, InWait
  <1>2. \A s \in Side : waiter[s] # NULL => waiter[s] = t /\ pos[t] = "wait"
    BY <1>1 DEF IInv, WaiterIsRight, IntqTypeOK, Side, InWait
  <1> QED BY <1>1, <1>2 DEF IInv, LockOK, IntqTypeOK

\* When nobody holds the lock, nobody waits.
LEMMA NoWaiter ==
  ASSUME IInv, lock_value = 1
  PROVE  /\ \A s \in Side : waiter[s] = NULL
         /\ \A u \in Thread : ~InWait(u)
  BY DEF IInv, LockOK, WaiterIsRight, IntqTypeOK, Side, InWait

\* A byte is moved: types, and nobody waits for what is the case now.
LEMMA MoveRing ==
  ASSUME IInv, NEW c \in Byte \cup {"getc"}, Ready(c),
         NEW moved \in [Thread -> Position], Move(c, moved)
  PROVE  /\ buf' \in [Slot -> Byte \cup {NULL}] /\ head' \in Slot /\ tail' \in Slot
         /\ waiter' = [s \in Side |-> NULL]
         /\ \A u \in Thread : pos'[u] =
               IF \E s \in Side : waiter[s] = u THEN "wait_woken" ELSE moved[u]
         /\ pos' \in [Thread -> Position]
  <1> USE DEF IInv, IntqTypeOK
  <1>1. /\ buf' \in [Slot -> Byte \cup {NULL}] /\ head' \in Slot /\ tail' \in Slot
    BY AfterType DEF Move
  <1>2. waiter[SideOf(c)] = NULL
    BY DEF Ready, SideOf, WaiterIsRight
  <1>3. CASE c = "getc"
    BY <1>1, <1>2, <1>3, IntqAssumption DEF Move, SideOf, Side, Position
  <1>4. CASE c # "getc"
    BY <1>1, <1>2, <1>4, IntqAssumption DEF Move, SideOf, Side, Position
  <1> QED BY <1>3, <1>4

-----------------------------------------------------------------------------
(* The steps *)

\* A byte is moved by an interrupt handler, or by a thread at once.
LEMMA MoveStep ==
  ASSUME IInv, NEW c \in Byte \cup {"getc"}, Ready(c),
         Move(c, pos), UNCHANGED <<lockVars, call, panic>>
  PROVE  IInv'
  <1> USE DEF lockVars
  <1>1. /\ buf' \in [Slot -> Byte \cup {NULL}] /\ head' \in Slot /\ tail' \in Slot
        /\ waiter' = [s \in Side |-> NULL]
        /\ \A u \in Thread : pos'[u] =
              IF \E s \in Side : waiter[s] = u THEN "wait_woken" ELSE pos[u]
        /\ pos' \in [Thread -> Position]
    BY MoveRing DEF IInv, IntqTypeOK
  <1>2. \A u \in Thread :
           /\ InWait(u)' <=> InWait(u)
           /\ pos'[u] # "wait"
           /\ ~InWait(u) => pos'[u] = pos[u]
    <2>1. \A u \in Thread : SideOf(call[u]) \in Side /\ u # NULL
      BY IntqAssumption DEF SideOf, Side
    <2>2. \A u \in Thread : (\E s \in Side : waiter[s] = u) <=> pos[u] = "wait"
      BY <2>1 DEF IInv, WaiterIsRight, Side
    <2> QED BY <1>1, <2>2 DEF InWait
  <1>3. IntqTypeOK'
    BY <1>1 DEF IInv, IntqTypeOK, Side
  <1>4. CallOK'
    BY <1>2 DEF IInv, CallOK, InWait
  <1>5. LockOK'
    BY <1>2 DEF IInv, LockOK, InWait, IntqTypeOK
  <1>6. WaiterIsRight'
    BY <1>1, <1>2 DEF WaiterIsRight, Side
  <1>7. OneWaits'
    BY <1>2 DEF IInv, OneWaits, InWait
  <1> QED BY <1>3, <1>4, <1>5, <1>6, <1>7 DEF IInv

\* A thread takes the lock and sleeps in wait().
LEMMA WaitStep ==
  ASSUME IInv, NEW t \in Thread, NEW c \in Byte \cup {"getc"}, ~Ready(c),
         lock_value = 1, pos[t] \in {"out", "lock_woken"},
         Wait(t, c, pos), lock_value' = 0, call' = [call EXCEPT ![t] = c],
         UNCHANGED <<lock_waiters, panic>>
  PROVE  IInv'
  <1> USE DEF Wait, ringVars
  <1>1. /\ \A s \in Side : waiter[s] = NULL
        /\ \A u \in Thread : ~InWait(u)
    BY NoWaiter
  <1>2. /\ pos' = [pos EXCEPT ![t] = "wait"] /\ pos \in [Thread -> Position]
        /\ waiter' = [waiter EXCEPT ![SideOf(c)] = t]
        /\ waiter \in [Side -> Thread \cup {NULL}]
        /\ call \in [Thread -> Byte \cup {"getc", NULL}]
        /\ SideOf(c) \in Side /\ c # NULL
    BY IntqAssumption DEF IInv, IntqTypeOK, SideOf, Side
  <1>3. IntqTypeOK'
    BY <1>2 DEF IInv, IntqTypeOK, Side, Position
  <1>4. CallOK'
    BY <1>2 DEF IInv, CallOK
  <1>5. LockOK'
    <2>1. \E u \in Thread : InWait(u)'
      BY <1>2 DEF InWait
    <2>2. \A i \in 1..Len(lock_waiters) :
             lock_waiters[i] \in Thread /\ pos[lock_waiters[i]] = "lock"
      BY DEF IInv, LockOK, IntqTypeOK
    <2>3. \A i \in 1..Len(lock_waiters) : pos'[lock_waiters[i]] = "lock"
      BY <1>2, <2>2
    <2> QED BY <2>1, <2>3 DEF IInv, LockOK, InWait
  <1>6. WaiterIsRight'
    <2>1. \A u \in Thread : pos'[u] = "wait" => u = t
      BY <1>1, <1>2 DEF InWait
    <2>2. pos'[t] = "wait" /\ call'[t] = c /\ waiter'[SideOf(c)] = t
      BY <1>2
    <2>3. \A s \in Side : waiter'[s] # NULL => s = SideOf(c)
      BY <1>1, <1>2
    <2>4. Empty' = Empty /\ Full' = Full
      BY DEF Empty, Full
    <2>5. /\ waiter'["not_empty"] # NULL => Empty
          /\ waiter'["not_full"] # NULL => Full
      BY <2>3 DEF Side, SideOf, Ready
    <2>6. SideOf(c)' = SideOf(c)
      BY DEF SideOf
    <2>7. \A u \in Thread : pos'[u] = "wait" => waiter'[SideOf(call'[u])] = u
      BY <2>1, <2>2
    <2>8. \A s \in Side : waiter'[s] # NULL =>
             pos'[waiter'[s]] = "wait" /\ SideOf(call'[waiter'[s]]) = s
      BY <2>2, <2>3
    <2> QED BY <2>4, <2>5, <2>7, <2>8 DEF WaiterIsRight, Side, SideOf
  <1>7. OneWaits'
    <2>1. \A u \in Thread : InWait(u)' => u = t
      BY <1>1, <1>2 DEF InWait
    <2>2. InWait(t)'
      BY <1>2 DEF InWait
    <2> QED BY <2>1, <2>2 DEF OneWaits, InWait
  <1> QED BY <1>3, <1>4, <1>5, <1>6, <1>7 DEF IInv

\* A thread sleeps for the lock.
LEMMA LockStep ==
  ASSUME IInv, NEW t \in Thread, NEW c \in Byte \cup {"getc"},
         lock_value = 0, pos[t] \in {"out", "lock_woken"},
         lock_waiters' = Append(lock_waiters, t),
         pos' = [pos EXCEPT ![t] = "lock"], call' = [call EXCEPT ![t] = c],
         UNCHANGED <<ringVars, waiter, lock_value, panic>>
  PROVE  IInv'
  <1> USE DEF ringVars
  <1>1. /\ pos \in [Thread -> Position] /\ lock_waiters \in Seq(Thread)
        /\ waiter \in [Side -> Thread \cup {NULL}]
        /\ call \in [Thread -> Byte \cup {"getc", NULL}] /\ c # NULL
    BY IntqAssumption DEF IInv, IntqTypeOK, Side
  <1>2. /\ lock_waiters' \in Seq(Thread) /\ Len(lock_waiters') = Len(lock_waiters) + 1
        /\ \A i \in 1..Len(lock_waiters) : lock_waiters'[i] = lock_waiters[i]
        /\ lock_waiters'[Len(lock_waiters) + 1] = t
    BY <1>1
  <1>3. \A u \in Thread : (InWait(u)' <=> InWait(u)) /\ (u # t => pos'[u] = pos[u])
    BY <1>1 DEF InWait
  <1>4. IntqTypeOK'
    BY <1>1, <1>2 DEF IInv, IntqTypeOK, Position
  <1>5. CallOK'
    BY <1>1 DEF IInv, CallOK
  <1>6. LockOK'
    <2>1. lock_value' = 0 <=> \E u \in Thread : InWait(u)'
      BY <1>3 DEF IInv, LockOK
    <2>2. \A i \in 1..Len(lock_waiters) : lock_waiters[i] # t /\ lock_waiters[i] \in Thread
      BY <1>1 DEF IInv, LockOK
    <2>3. \A i \in 1..Len(lock_waiters') : pos'[lock_waiters'[i]] = "lock"
      BY <1>1, <1>2, <1>3, <2>2 DEF IInv, LockOK
    <2>4. \A i, j \in 1..Len(lock_waiters') : lock_waiters'[i] = lock_waiters'[j] => i = j
      BY <1>1, <1>2, <2>2 DEF IInv, LockOK
    <2> QED BY <2>1, <2>3, <2>4 DEF LockOK, InWait
  <1>7. WaiterIsRight'
    BY <1>1 DEF IInv, WaiterIsRight, Empty, Full, SideOf, Side
  <1>8. OneWaits'
    BY <1>1, <1>3 DEF IInv, OneWaits, LockOK, InWait
  <1> QED BY <1>4, <1>5, <1>6, <1>7, <1>8 DEF IInv

\* The thread that comes out of wait() and releases the lock: moved is what
\* lock_release() makes of pos.
LEMMA Released ==
  ASSUME IInv, NEW t \in Thread, pos[t] = "wait_woken",
         NEW next, next = (IF lock_waiters = <<>> THEN NULL ELSE Head(lock_waiters)),
         NEW moved, moved = [u \in Thread |-> CASE u = t    -> "out"
                                                [] u = next -> "lock_woken"
                                                [] OTHER    -> pos[u]],
         lock_waiters' = IF next = NULL THEN <<>> ELSE Tail(lock_waiters)
  PROVE  /\ moved \in [Thread -> Position] /\ moved[t] = "out"
         /\ \A u \in Thread \ {t} : moved[u] \notin {"wait", "wait_woken"}
         /\ \A u \in Thread \ {t} : moved[u] = "out" <=> pos[u] = "out"
         /\ lock_waiters' \in Seq(Thread)
         /\ \A i \in 1..Len(lock_waiters') :
               lock_waiters'[i] # t /\ moved[lock_waiters'[i]] = "lock"
         /\ \A i, j \in 1..Len(lock_waiters') : lock_waiters'[i] = lock_waiters'[j] => i = j
         /\ lock_waiters' # <<>> => \E u \in Thread \ {t} : moved[u] = "lock_woken"
  <1>1. /\ pos \in [Thread -> Position] /\ lock_waiters \in Seq(Thread)
        /\ NULL \notin Thread
    BY IntqAssumption DEF IInv, IntqTypeOK
  <1>2. \A u \in Thread \ {t} : ~InWait(u)
    BY OnlyWaiter DEF InWait
  <1>3. /\ \A i \in 1..Len(lock_waiters) :
              lock_waiters[i] \in Thread /\ pos[lock_waiters[i]] = "lock"
        /\ \A i, j \in 1..Len(lock_waiters) : lock_waiters[i] = lock_waiters[j] => i = j
    BY <1>1 DEF IInv, LockOK
  <1>4. moved \in [Thread -> Position] /\ moved[t] = "out"
    <2>1. "out" \in Position /\ "lock_woken" \in Position
      BY DEF Position
    <2>2. \A u \in Thread : moved[u] = CASE u = t    -> "out"
                                         [] u = next -> "lock_woken"
                                         [] OTHER    -> pos[u]
      BY Zenon
    <2>3. moved \in [Thread -> Position]
      <3>1. \A u \in Thread : moved[u] \in Position
        BY <1>1, <2>1, <2>2
      <3> QED BY <3>1, SMT
    <2>4. next # t
      BY <1>1, <1>3
    <2>5. moved[t] = "out"
      BY <2>2, <2>4, Zenon
    <2> QED BY <2>3, <2>5
  <1>5. CASE lock_waiters = <<>>
    <2>1. next = NULL /\ lock_waiters' = <<>>
      BY <1>5
    <2>2. \A u \in Thread \ {t} : moved[u] = pos[u]
      BY <1>1, <2>1
    <2> QED BY <1>2, <1>4, <2>1, <2>2 DEF InWait
  <1>6. CASE lock_waiters # <<>>
    <2>1. /\ next = lock_waiters[1] /\ next \in Thread /\ next # t /\ pos[next] = "lock"
          /\ 1 \in 1..Len(lock_waiters)
      BY <1>1, <1>3, <1>6
    <2>2. /\ lock_waiters' = Tail(lock_waiters) /\ lock_waiters' \in Seq(Thread)
          /\ Len(lock_waiters') = Len(lock_waiters) - 1
          /\ \A i \in 1..Len(lock_waiters') :
                lock_waiters'[i] = lock_waiters[i + 1] /\ i + 1 \in 1..Len(lock_waiters)
      BY <1>1, <1>6, <2>1
    <2>3. moved[next] = "lock_woken" /\ \A u \in Thread \ {t, next} : moved[u] = pos[u]
      BY <2>1
    <2>4. \A i \in 1..Len(lock_waiters') :
             lock_waiters'[i] \in Thread \ {t, next} /\ pos[lock_waiters'[i]] = "lock"
      BY <1>3, <2>1, <2>2
    <2>5. \A i, j \in 1..Len(lock_waiters') : lock_waiters'[i] = lock_waiters'[j] => i = j
      BY <1>3, <2>2
    <2> QED BY <1>2, <1>4, <2>1, <2>2, <2>3, <2>4, <2>5 DEF InWait
  <1> QED BY <1>5, <1>6

LEMMA WokenStep ==
  ASSUME IInv, NEW t \in Thread, WaitWoken(t)
  PROVE  IInv'
  <1> DEFINE next == IF lock_waiters = <<>> THEN NULL ELSE Head(lock_waiters)
             moved == [u \in Thread |-> CASE u = t    -> "out"
                                          [] u = next -> "lock_woken"
                                          [] OTHER    -> pos[u]]
             c == call[t]
  <1>1. /\ pos[t] = "wait_woken" /\ panic' = panic
        /\ lock_waiters' = IF next = NULL THEN <<>> ELSE Tail(lock_waiters)
        /\ \/ /\ Ready(c) /\ lock_value' = 1 /\ Move(c, moved)
              /\ call' = [call EXCEPT ![t] = NULL]
           \/ ~Ready(c) /\ Wait(t, c, moved) /\ UNCHANGED <<lock_value, call>>
    BY DEF WaitWoken
  <1>2. /\ moved \in [Thread -> Position] /\ moved[t] = "out"
        /\ \A u \in Thread \ {t} : moved[u] \notin {"wait", "wait_woken"}
        /\ \A u \in Thread \ {t} : moved[u] = "out" <=> pos[u] = "out"
        /\ lock_waiters' \in Seq(Thread)
        /\ \A i \in 1..Len(lock_waiters') :
              lock_waiters'[i] # t /\ moved[lock_waiters'[i]] = "lock"
        /\ \A i, j \in 1..Len(lock_waiters') : lock_waiters'[i] = lock_waiters'[j] => i = j
        /\ lock_waiters' # <<>> => \E u \in Thread \ {t} : moved[u] = "lock_woken"
    <2> HIDE DEF next, moved
    <2>1. /\ next = (IF lock_waiters = <<>> THEN NULL ELSE Head(lock_waiters))
          /\ moved = [u \in Thread |-> CASE u = t    -> "out"
                                         [] u = next -> "lock_woken"
                                         [] OTHER    -> pos[u]]
      BY DEF next, moved
    <2> QED BY <1>1, <2>1, Released
  <1>3. /\ c \in Byte \cup {"getc"} /\ c # NULL
        /\ call \in [Thread -> Byte \cup {"getc", NULL}]
        /\ waiter \in [Side -> Thread \cup {NULL}]
    BY <1>1, IntqAssumption DEF IInv, IntqTypeOK, CallOK, Side
  <1>4. \A s \in Side : waiter[s] = NULL
    BY <1>1, OnlyWaiter DEF InWait
  <1>5. lock_value = 0
    BY <1>1, OnlyWaiter DEF InWait
  <1> HIDE DEF next, moved, c
  <1>6. CASE /\ Ready(c) /\ lock_value' = 1 /\ Move(c, moved)
             /\ call' = [call EXCEPT ![t] = NULL]
    <2>1. /\ buf' \in [Slot -> Byte \cup {NULL}] /\ head' \in Slot /\ tail' \in Slot
          /\ waiter' = [s \in Side |-> NULL]
          /\ \A u \in Thread : pos'[u] =
                IF \E s \in Side : waiter[s] = u THEN "wait_woken" ELSE moved[u]
          /\ pos' \in [Thread -> Position]
      BY <1>2, <1>3, <1>6, MoveRing
    <2>2. \A u \in Thread : pos'[u] = moved[u]
      BY <1>4, <2>1, IntqAssumption
    <2>3. \A u \in Thread : ~InWait(u)'
      BY <1>2, <2>2 DEF InWait
    <2>4. IntqTypeOK'
      BY <1>1, <1>2, <1>3, <1>6, <2>1 DEF IInv, IntqTypeOK, Side
    <2>5. CallOK'
      BY <1>2, <1>3, <1>6, <2>2 DEF IInv, CallOK
    <2>6. LockOK'
      BY <1>2, <1>6, <2>2, <2>3 DEF LockOK, InWait
    <2>7. WaiterIsRight'
      BY <2>1, <2>3 DEF WaiterIsRight, Side, InWait
    <2>8. OneWaits'
      BY <1>2, <2>2, <2>3 DEF OneWaits, InWait
    <2> QED BY <2>4, <2>5, <2>6, <2>7, <2>8 DEF IInv
  <1>7. CASE ~Ready(c) /\ Wait(t, c, moved) /\ UNCHANGED <<lock_value, call>>
    <2>1. /\ pos' = [moved EXCEPT ![t] = "wait"] /\ UNCHANGED <<buf, head, tail>>
          /\ waiter' = [waiter EXCEPT ![SideOf(c)] = t] /\ SideOf(c) \in Side
      BY <1>7 DEF Wait, ringVars, SideOf, Side
    <2>2. /\ pos' \in [Thread -> Position] /\ pos'[t] = "wait"
          /\ \A u \in Thread \ {t} : pos'[u] = moved[u]
      BY <1>2, <2>1 DEF Position
    <2>3. InWait(t)' /\ \A u \in Thread \ {t} : ~InWait(u)'
      BY <1>2, <2>2 DEF InWait
    <2>4. IntqTypeOK'
      BY <1>1, <1>2, <1>3, <1>7, <2>1, <2>2 DEF IInv, IntqTypeOK, Side
    <2>5. CallOK'
      BY <1>1, <1>2, <1>7, <2>2 DEF IInv, CallOK
    <2>6. LockOK'
      BY <1>2, <1>5, <1>7, <2>2, <2>3 DEF LockOK, InWait
    <2>7. WaiterIsRight'
      <3>1. waiter'[SideOf(c)] = t /\ \A s \in Side : waiter'[s] # NULL => s = SideOf(c)
        BY <1>3, <1>4, <2>1
      <3>2. /\ waiter'["not_empty"] # NULL => Empty
            /\ waiter'["not_full"] # NULL => Full
        BY <1>7, <3>1 DEF Side, SideOf, Ready
      <3>3. Empty' = Empty /\ Full' = Full
        BY <2>1 DEF Empty, Full
      <3>4. \A u \in Thread : pos'[u] = "wait" => u = t
        BY <2>3 DEF InWait
      <3>5. call'[t] = c
        BY <1>7 DEF c
      <3> QED BY <2>2, <3>1, <3>2, <3>3, <3>4, <3>5 DEF WaiterIsRight, Side, SideOf
    <2>8. OneWaits'
      BY <2>3 DEF OneWaits, InWait
    <2> QED BY <2>4, <2>5, <2>6, <2>7, <2>8 DEF IInv
  <1> QED BY <1>1, <1>6, <1>7

LEMMA NextHolds == IInv /\ [Next]_vars => IInv'
  <1> SUFFICES ASSUME IInv, [Next]_vars  PROVE IInv'
    OBVIOUS
  <1>1. ASSUME NEW t \in Thread, NEW c \in Byte \cup {"getc"}, Call(t, c)  PROVE IInv'
    <2>1. CASE Ready(c) /\ Move(c, pos) /\ UNCHANGED <<lockVars, call, panic>>
      BY <2>1, MoveStep
    <2>2. CASE /\ ~Ready(c) /\ lock_value = 1 /\ lock_value' = 0 /\ Wait(t, c, pos)
               /\ call' = [call EXCEPT ![t] = c]
               /\ UNCHANGED <<lock_waiters, panic>> /\ pos[t] = "out"
      BY <2>2, WaitStep
    <2>3. CASE /\ lock_value = 0 /\ lock_waiters' = Append(lock_waiters, t)
               /\ pos' = [pos EXCEPT ![t] = "lock"] /\ call' = [call EXCEPT ![t] = c]
               /\ UNCHANGED <<ringVars, waiter, lock_value, panic>> /\ pos[t] = "out"
      BY <2>3, LockStep
    <2> QED BY <1>1, <2>1, <2>2, <2>3 DEF Call
  <1>2. ASSUME NEW t \in Thread, LockWoken(t)  PROVE IInv'
    <2> DEFINE c == call[t]
    <2>1. /\ pos[t] = "lock_woken" /\ c \in Byte \cup {"getc"}
          /\ call' = call => call' = [call EXCEPT ![t] = c]
      BY <1>2 DEF LockWoken, IInv, IntqTypeOK, CallOK
    <2>2. CASE /\ lock_value = 0 /\ lock_waiters' = Append(lock_waiters, t)
               /\ pos' = [pos EXCEPT ![t] = "lock"]
               /\ UNCHANGED <<ringVars, waiter, lock_value, panic, call>>
      BY <2>1, <2>2, LockStep
    <2>3. CASE /\ lock_value = 1 /\ ~Ready(c) /\ lock_value' = 0 /\ Wait(t, c, pos)
               /\ UNCHANGED <<lock_waiters, panic, call>>
      BY <2>1, <2>3, WaitStep
    <2>4. CASE /\ panic' = TRUE
               /\ UNCHANGED <<ringVars, waiter, lockVars, pos, call>>
      BY <2>4 DEF IInv, IntqTypeOK, CallOK, LockOK, InWait, WaiterIsRight, OneWaits,
                  Empty, Full, ringVars, lockVars
    <2> QED BY <1>2, <2>2, <2>3, <2>4 DEF LockWoken
  <1>3. ASSUME NEW t \in Thread, WaitWoken(t)  PROVE IInv'
    BY <1>3, WokenStep
  <1>4. ASSUME NEW c \in Byte \cup {"getc"}, IntrCall(c)  PROVE IInv'
    BY <1>4, MoveStep DEF IntrCall, lockVars
  <1>5. CASE UNCHANGED vars
    BY <1>5 DEF IInv, IntqTypeOK, CallOK, LockOK, InWait, WaiterIsRight, OneWaits,
                Empty, Full, vars, ringVars, lockVars
  <1> QED BY <1>1, <1>2, <1>3, <1>4, <1>5 DEF Next

-----------------------------------------------------------------------------
(* The theorems *)

\* The lock, its wait list, the calls in progress and the two pointers always fit
\* together.
THEOREM IntqInvariant == Spec => []IInv
  BY InitHolds, NextHolds, PTL DEF Spec

\* Every variable of the queue keeps its type; its two positions stay inside
\* the buffer.
THEOREM IntqTypeCorrect == Spec => []IntqTypeOK
  <1>1. IInv => IntqTypeOK
    BY DEF IInv
  <1> QED BY <1>1, IntqInvariant, PTL

\* Who sleeps in wait() is who signal() will wake, and sleeps for something
\* that is not the case.
THEOREM WaiterCorrect == Spec => []WaiterIsRight
  <1>1. IInv => WaiterIsRight
    BY DEF IInv
  <1> QED BY <1>1, IntqInvariant, PTL

\* Only one thread waits at once, and those that sleep for the lock are not
\* forgotten.
THEOREM OnlyOneWaits == Spec => []OneWaits
  <1>1. IInv => OneWaits
    BY DEF IInv
  <1> QED BY <1>1, IntqInvariant, PTL

-----------------------------------------------------------------------------
(* The refinement *)

LEMMA ModSmall ==
  ASSUME NEW n \in Nat, n > 0, NEW a \in 0..(2 * n - 1)
  PROVE  a % n = (IF a < n THEN a ELSE a - n)
  OBVIOUS

Wrapped(p) == IF p < INTQ_BUFSIZE THEN p ELSE p - INTQ_BUFSIZE

\* What the ring holds, and where each byte of it is.
RingIsRight ==
    /\ Contents \in Seq(Byte \cup {NULL}) /\ Len(Contents) = Count
    /\ Count = IF head >= tail THEN head - tail ELSE INTQ_BUFSIZE + head - tail
    /\ Count \in 0..(INTQ_BUFSIZE - 1)
    /\ \A i \in 1..Count : Contents[i] = buf[Wrapped(tail + i - 1)]
    /\ Empty <=> Count = 0
    /\ Full <=> Count = INTQ_BUFSIZE - 1

LEMMA AfterWraps == \A slot \in Slot : After(slot) = Wrapped(slot + 1)
  BY IntqAssumption, ModSmall DEF Slot, After, Wrapped

LEMMA RingHolds == IntqTypeOK => RingIsRight
  <1> SUFFICES ASSUME IntqTypeOK  PROVE RingIsRight
    OBVIOUS
  <1>1. head \in Slot /\ tail \in Slot /\ INTQ_BUFSIZE \in Nat /\ INTQ_BUFSIZE >= 2
    BY IntqAssumption DEF IntqTypeOK
  <1>2. /\ Count = IF head >= tail THEN head - tail ELSE INTQ_BUFSIZE + head - tail
        /\ Count \in 0..(INTQ_BUFSIZE - 1)
    BY <1>1, ModSmall DEF Slot, Count
  <1>3. \A i \in 1..Count :
           Contents[i] = buf[Wrapped(tail + i - 1)] /\ Contents[i] \in Byte \cup {NULL}
    <2> SUFFICES ASSUME NEW i \in 1..Count
                 PROVE  Contents[i] = buf[Wrapped(tail + i - 1)] /\ Contents[i] \in Byte \cup {NULL}
      OBVIOUS
    <2>1. Contents[i] = buf[(tail + i - 1) % INTQ_BUFSIZE]
      BY DEF Contents
    <2>2. (tail + i - 1) % INTQ_BUFSIZE = Wrapped(tail + i - 1) /\ Wrapped(tail + i - 1) \in Slot
      BY <1>1, <1>2, ModSmall DEF Slot, Wrapped
    <2> QED BY <2>1, <2>2 DEF IntqTypeOK
  <1>4. Contents \in Seq(Byte \cup {NULL}) /\ Len(Contents) = Count
    <2>1. Contents \in [1..Count -> Byte \cup {NULL}]
      BY <1>3 DEF Contents
    <2> QED BY <1>2, <2>1, SeqDef
  <1>5. Empty <=> Count = 0
    BY <1>1, <1>2 DEF Empty, Slot
  <1>6. Full <=> Count = INTQ_BUFSIZE - 1
    BY <1>1, <1>2, AfterWraps DEF Full, Slot, Wrapped
  <1> QED BY <1>2, <1>3, <1>4, <1>5, <1>6 DEF RingIsRight

\* A byte that is moved is taken from before, or put behind, all the others.
LEMMA MoveMaps ==
  ASSUME IInv, IInv', NEW c \in Byte \cup {"getc"}, NEW moved, Ready(c), Move(c, moved)
  PROVE  F!Next
  <1> USE DEF RingIsRight
  <1>1. RingIsRight
    BY RingHolds DEF IInv
  <1>2. RingIsRight'
    <2>1. IntqTypeOK'
      BY DEF IInv
    <2> QED BY <2>1, RingHolds, PTL
  <1>3. /\ head \in Slot /\ tail \in Slot /\ buf \in [Slot -> Byte \cup {NULL}]
        /\ head' \in Slot /\ tail' \in Slot /\ buf' \in [Slot -> Byte \cup {NULL}]
        /\ INTQ_BUFSIZE \in Nat /\ INTQ_BUFSIZE >= 2
    BY IntqAssumption DEF IInv, IntqTypeOK
  <1>4. CASE c = "getc"
    <2>1. tail' = Wrapped(tail + 1) /\ head' = head /\ buf' = buf
      BY <1>3, <1>4, AfterWraps DEF Move
    <2>2. Count # 0 /\ Count' = Count - 1
      BY <1>1, <1>2, <1>3, <1>4, <2>1 DEF Ready, Slot, Wrapped
    <2>3. \A i \in 1..Count' : Contents'[i] = Contents[i + 1]
      BY <1>1, <1>2, <1>3, <2>1, <2>2 DEF Slot, Wrapped
    <2>4. Contents # <<>>
      BY <1>1, <2>2
    <2>5. Contents' = Tail(Contents)
      BY <1>1, <1>2, <2>2, <2>3, <2>4, HeadTailProperties, SeqEqual
    <2> QED BY <2>4, <2>5 DEF F!Next, F!Get
  <1>5. CASE c # "getc"
    <2>1. /\ head' = Wrapped(head + 1) /\ tail' = tail
          /\ buf' = [buf EXCEPT ![head] = c] /\ c \in Byte
      BY <1>3, <1>5, AfterWraps DEF Move
    <2>2. Count < INTQ_BUFSIZE - 1 /\ Count' = Count + 1
      BY <1>1, <1>2, <1>3, <1>5, <2>1 DEF Ready, Slot, Wrapped
    <2>3. \A i \in 1..Count : Contents'[i] = Contents[i]
      <3> SUFFICES ASSUME NEW i \in 1..Count  PROVE Contents'[i] = Contents[i]
        OBVIOUS
      <3>1. Wrapped(tail + i - 1) \in Slot /\ Wrapped(tail + i - 1) # head
        BY <1>1, <1>3, <2>2 DEF Slot, Wrapped
      <3>2. Contents'[i] = buf'[Wrapped(tail + i - 1)]
        BY <1>1, <1>2, <1>3, <2>1, <2>2
      <3> QED BY <1>1, <1>3, <2>1, <3>1, <3>2
    <2>4. Contents'[Count + 1] = c
      <3>1. Wrapped(tail + (Count + 1) - 1) = head
        BY <1>1, <1>3, <2>2 DEF Slot, Wrapped
      <3>2. Contents'[Count + 1] = buf'[head]
        BY <1>1, <1>2, <1>3, <2>1, <2>2, <3>1
      <3> QED BY <1>3, <2>1, <3>2
    <2>5. Contents' = Append(Contents, c)
      BY <1>1, <1>2, <2>1, <2>2, <2>3, <2>4, AppendProperties, SeqEqual
    <2> QED BY <1>1, <2>1, <2>2, <2>5 DEF F!Next, F!Put
  <1> QED BY <1>4, <1>5

\* While the ring is left alone, so is what it holds.
LEMMA RingMaps == UNCHANGED ringVars => UNCHANGED Contents
  BY DEF ringVars, Contents, Count

LEMMA StepMaps == IInv /\ IInv' /\ [Next]_vars => [F!Next]_Contents
  <1> SUFFICES ASSUME IInv, IInv', [Next]_vars  PROVE F!Next \/ UNCHANGED Contents
    OBVIOUS
  <1>1. ASSUME NEW t \in Thread, NEW c \in Byte \cup {"getc"}, Call(t, c)
        PROVE  F!Next \/ UNCHANGED Contents
    BY <1>1, MoveMaps, RingMaps DEF Call, Wait
  <1>2. ASSUME NEW t \in Thread, LockWoken(t)  PROVE UNCHANGED Contents
    BY <1>2, RingMaps DEF LockWoken, Wait
  <1>3. ASSUME NEW t \in Thread, WaitWoken(t)  PROVE F!Next \/ UNCHANGED Contents
    <2>1. PICK moved : \/ Ready(call[t]) /\ Move(call[t], moved)
                       \/ Wait(t, call[t], moved)
      BY <1>3, Zenon DEF WaitWoken
    <2>2. call[t] \in Byte \cup {"getc"}
      <3>1. pos[t] = "wait_woken"
        BY <1>3 DEF WaitWoken
      <3> QED BY <3>1 DEF IInv, IntqTypeOK, CallOK
    <2> QED BY <2>1, <2>2, MoveMaps, RingMaps DEF Wait
  <1>4. ASSUME NEW c \in Byte \cup {"getc"}, IntrCall(c)  PROVE F!Next
    BY <1>4, MoveMaps DEF IntrCall
  <1>5. CASE UNCHANGED vars
    BY <1>5, RingMaps DEF vars
  <1> QED BY <1>1, <1>2, <1>3, <1>4, <1>5 DEF Next

\* Whatever is interrupted by whom, and wherever the positions wrap, what is
\* put into the queue comes out of it once and in its order.
THEOREM IntqImplementsFifo == Spec => ImplementsFifo
  <1>1. Init => F!Init
    <2> SUFFICES ASSUME Init  PROVE Contents = <<>>
      BY DEF F!Init
    <2>1. IntqTypeOK
      BY InitHolds DEF IInv
    <2>2. Empty
      BY DEF Init, Empty
    <2> QED BY <2>1, <2>2, RingHolds, EmptySeq DEF RingIsRight
  <1>2. IInv /\ [Next]_vars => IInv'
    BY NextHolds
  <1> QED BY <1>1, <1>2, StepMaps, IntqInvariant, PTL DEF Spec, ImplementsFifo, F!Spec
=============================================================================
