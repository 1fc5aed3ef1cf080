----------------------------- MODULE SynchProofs -----------------------------
(***************************************************************************)
(* Theorems about Synch, for any set of threads, semaphores, locks and     *)
(* conditions: types and locks; identifiers, the lists that threads queue  *)
(* in, signals and wake-ups; the refinement of Monitor.                    *)
(***************************************************************************)
EXTENDS Synch, FiniteSetTheorems, TLAPS

-----------------------------------------------------------------------------
(* The inductive invariant *)

\* Labels of the call of thread_create(), apart from those of lock_acquire()
\* and lock_release() on tid_lock.
CreateLabel == {"create", "tid", "tid_write", "tid_release", "unblock"}
LockLabel == {"lock_down", "lock_set", "lock_up"}
WaitLabel == {"wait_unlock", "wait_up", "wait_call", "wait_down",
              "relock", "relock_down", "relock_set"}
IdleLabel == {"none", "idle_start", "idle_up", "idle_loop", "idle_hlt"}

\* t is inside thread_create(): peer[t] is the thread being created.
Creating(t) ==
    \/ pc[t] \in CreateLabel
    \/ pc[t] \in LockLabel /\ peer[t] # NULL

\* What arg and peer are, by label.
CallOK(t) ==
    /\ pc[t] = "sema_down" => arg[t] \in Sema
    /\ pc[t] \in LockLabel => arg[t] \in Lock
    /\ pc[t] \in WaitLabel => arg[t] \in Lock \ {TidLock}
    /\ pc[t] = "wait_unlock" => arg[t] \in held[t]
    /\ pc[t] \in {"bcast", "bcast_up"} => arg[t] \in Cond
    /\ pc[t] \in {"create", "tid", "tid_write", "tid_release"} => arg[t] = TidLock
    /\ pc[t] \in LockLabel => (peer[t] # NULL <=> arg[t] = TidLock)
    /\ pc[t] \in {"signal_up", "bcast_up"} \cup CreateLabel => peer[t] \in Thread
    /\ pc[t] \notin {"signal_up", "bcast_up"} \cup CreateLabel \cup LockLabel
          => peer[t] = NULL
    /\ TidLock \notin held[t]

\* A thread under creation exists, does nothing, and has one creator.
ChildOK ==
    /\ \A u \in Thread : status[u] = "NONE" => pc[u] = "none"
    /\ \A t \in Thread : Creating(t) =>
          pc[peer[t]] = "none" /\ status[peer[t]] # "NONE"
    /\ \A t, u \in Thread :
          Creating(t) /\ Creating(u) /\ peer[t] = peer[u] => t = u

\* Until idle_thread is set there is a thread to switch to: idle itself.
IdleThere ==
    idle_thread = NULL => current = Idle \/ Idle \in Elems(ready_list)

BootOK ==
    /\ pc[Idle] \in IdleLabel
    /\ pc[Main] = "boot_create" =>
          current = Main /\ status[Idle] = "NONE" /\ \A t \in Thread : ~Creating(t)
    /\ pc[Main] # "boot_create" => pc[Idle] # "none"
    /\ idle_thread = NULL /\ pc[Main] # "boot_create" =>
          pc[Idle] = "idle_start"
    /\ pc[Main] # "boot_create" => IdleThere

TypeInv ==
    /\ TypeOK
    /\ \A t \in Thread : CallOK(t)
    /\ ChildOK
    /\ BootOK

-----------------------------------------------------------------------------
(* Lemmas about the scheduler *)

\* The elements of a queue after a push and after a pop.
LEMMA ElemsAppend ==
  ASSUME NEW S, NEW q \in Seq(S), NEW x \in S
  PROVE  /\ Append(q, x) \in Seq(S)
         /\ Append(q, x) # <<>>
         /\ Elems(Append(q, x)) = Elems(q) \cup {x}
  <1> DEFINE r == Append(q, x)
  <1>1. /\ r \in Seq(S) /\ Len(r) = Len(q) + 1 /\ r[Len(q) + 1] = x
        /\ \A i \in 1..Len(q) : r[i] = q[i]
    OBVIOUS
  <1>2. r # <<>>
    BY <1>1
  <1>3. ASSUME NEW y \in Elems(r)  PROVE y \in Elems(q) \cup {x}
    BY <1>1, <1>3 DEF Elems
  <1>4. ASSUME NEW y \in Elems(q)  PROVE y \in Elems(r)
    BY <1>1, <1>4 DEF Elems
  <1>5. x \in Elems(r)
    BY <1>1 DEF Elems
  <1> QED BY <1>1, <1>2, <1>3, <1>4, <1>5

LEMMA ElemsTail ==
  ASSUME NEW S, NEW q \in Seq(S), q # <<>>
  PROVE  /\ Tail(q) \in Seq(S)
         /\ Head(q) \in S
         /\ Elems(q) = Elems(Tail(q)) \cup {Head(q)}
  <1> DEFINE r == Tail(q)
  <1>1. /\ r \in Seq(S) /\ Len(q) > 0 /\ Len(r) = Len(q) - 1
        /\ Head(q) = q[1] /\ Head(q) \in S
        /\ DOMAIN r = 1..Len(r) /\ \A i \in 1..Len(r) : r[i] = q[i + 1]
    OBVIOUS
  <1>2. ASSUME NEW y \in Elems(q)  PROVE y \in Elems(r) \cup {Head(q)}
    <2>1. PICK i \in 1..Len(q) : y = q[i]
      BY <1>2 DEF Elems
    <2>2. CASE i = 1
      BY <1>1, <2>1, <2>2
    <2>3. CASE i # 1
      <3>1. i - 1 \in 1..Len(r) /\ r[i - 1] = y
        BY <1>1, <2>1, <2>3
      <3> QED BY <1>1, <3>1 DEF Elems
    <2> QED BY <2>2, <2>3
  <1>3. ASSUME NEW y \in Elems(r)  PROVE y \in Elems(q)
    <2>1. PICK i \in 1..Len(r) : y = r[i]
      BY <1>1, <1>3 DEF Elems
    <2>2. i + 1 \in 1..Len(q) /\ q[i + 1] = y
      BY <1>1, <2>1
    <2> QED BY <2>2 DEF Elems
  <1>4. Head(q) \in Elems(q)
    BY <1>1 DEF Elems
  <1> QED BY <1>1, <1>2, <1>3, <1>4

\* What each scheduler operation leaves as it was.
SchedKept ==
    /\ SchedTypeOK'
    /\ idle_thread' = idle_thread
    /\ IdleThere'
    /\ \A u \in Thread : status'[u] = "NONE" => status[u] = "NONE"

\* A switch needs a thread to switch to; whoever was queued stays queued or
\* runs, and only a dying thread gives up its page.
LEMMA ScheduleTyped ==
  ASSUME SchedTypeOK, NEW left \in Status, NEW queue \in Seq(Thread),
         idle_thread = NULL => Idle \in Elems(queue),
         Schedule(left, queue)
  PROVE  /\ SchedTypeOK'
         /\ idle_thread' = idle_thread
         /\ IdleThere'
         /\ \A u \in Thread : status'[u] = "NONE" =>
               status[u] = "NONE" \/ (u = current /\ left \in {"NONE", "DYING"})
  <1>1. idle_thread = NULL => queue # <<>>
    BY DEF Elems
  <1>2. NextThread(queue) \in Thread
    <2>1. CASE queue = <<>>
      BY <1>1, <2>1, ThreadAssumption DEF NextThread, SchedTypeOK
    <2>2. CASE queue # <<>>
      BY <2>2, ElemsTail DEF NextThread
    <2>3. QED BY <2>1, <2>2
  <1>3. ready_list' \in Seq(Thread)
    BY ElemsTail DEF Schedule
  <1>4. Reaped(left) \in Status
    BY DEF Reaped, Status
  <1>5. SchedTypeOK'
    BY <1>2, <1>3, <1>4, ThreadAssumption DEF Schedule, SchedTypeOK, Status
  <1>6. IdleThere'
    <2>1. CASE queue = <<>>
      BY <1>1, <2>1 DEF Schedule, IdleThere
    <2>2. CASE queue # <<>>
      BY <2>2, ElemsTail DEF Schedule, NextThread, IdleThere
    <2>3. QED BY <2>1, <2>2
  <1>7. QED
    BY <1>2, <1>5, <1>6 DEF Schedule, SchedTypeOK, Status, Reaped

LEMMA BlockKeeps ==
  ASSUME SchedTypeOK, IdleThere, idle_thread = NULL => current # Idle,
         ThreadBlock
  PROVE  SchedKept
  BY ScheduleTyped DEF ThreadBlock, SchedKept, Status, SchedTypeOK, IdleThere

LEMMA YieldKeeps ==
  ASSUME SchedTypeOK, IdleThere, ThreadYield
  PROVE  SchedKept
  <1> DEFINE q == IF current = idle_thread THEN ready_list
                                           ELSE Append(ready_list, current)
  <1>1. q \in Seq(Thread) /\ (idle_thread = NULL => Idle \in Elems(q))
    BY ElemsAppend, ThreadAssumption DEF SchedTypeOK, IdleThere
  <1> QED
    BY <1>1, ScheduleTyped DEF ThreadYield, SchedKept, Status, SchedTypeOK

LEMMA UnblockKeeps ==
  ASSUME SchedTypeOK, IdleThere, NEW u \in Thread, ThreadUnblock(u)
  PROVE  SchedKept
  BY ElemsAppend DEF ThreadUnblock, SchedKept, SchedTypeOK, Status, IdleThere

LEMMA TickKeeps ==
  ASSUME SchedTypeOK, IdleThere, ThreadTick
  PROVE  SchedKept
  <1>1. CASE thread_ticks + 1 >= TIME_SLICE
    BY <1>1, YieldKeeps DEF ThreadTick
  <1>2. CASE ~(thread_ticks + 1 >= TIME_SLICE)
    BY <1>2, ThreadAssumption DEF ThreadTick, SchedKept, SchedTypeOK, IdleThere
  <1> QED BY <1>1, <1>2

LEMMA SameKeeps ==
  ASSUME SchedTypeOK, IdleThere, UNCHANGED schedVars
  PROVE  SchedKept
  BY DEF schedVars, SchedKept, SchedTypeOK, IdleThere

(* Lemmas about the semaphores *)

SemaTyped ==
    /\ value \in [AnySema -> Nat]
    /\ waiters \in [AnySema -> Seq(Thread)]

LEMMA SemaDownKeeps ==
  ASSUME SchedTypeOK, IdleThere, idle_thread = NULL => current # Idle,
         SemaTyped, NEW t \in Thread, NEW s \in AnySema, NEW done, NEW asleep,
         SemaDown(t, s, done, asleep)
  PROVE  SchedKept /\ SemaTyped'
  <1>1. CASE /\ UNCHANGED <<waiters, schedVars>>
             /\ value[s] > 0
             /\ value' = [value EXCEPT ![s] = @ - 1]
    <2>1. value[s] - 1 \in Nat
      BY <1>1 DEF SemaTyped
    <2> QED BY <1>1, <2>1, SameKeeps DEF SemaTyped
  <1>2. CASE /\ waiters' = [waiters EXCEPT ![s] = Append(@, t)]
             /\ ThreadBlock
             /\ UNCHANGED value
    BY <1>2, BlockKeeps, ElemsAppend DEF SemaTyped
  <1> QED BY <1>1, <1>2 DEF SemaDown

LEMMA SemaUpKeeps ==
  ASSUME SchedTypeOK, IdleThere, SemaTyped, NEW s \in AnySema, SemaUp(s)
  PROVE  SchedKept /\ SemaTyped'
  <1>1. CASE waiters[s] = <<>>
    BY <1>1, SameKeeps DEF SemaTyped, SemaUp
  <1>2. CASE waiters[s] # <<>>
    <2>1. waiters[s] \in Seq(Thread)
      BY DEF SemaTyped
    <2>2. Head(waiters[s]) \in Thread /\ Tail(waiters[s]) \in Seq(Thread)
      BY <1>2, <2>1, ElemsTail
    <2>3. SchedKept
      BY <1>2, <2>2, UnblockKeeps DEF SemaUp
    <2>4. value' \in [AnySema -> Nat]
      BY DEF SemaTyped, SemaUp
    <2>5. waiters' \in [AnySema -> Seq(Thread)]
      BY <1>2, <2>2 DEF SemaTyped, SemaUp
    <2> QED BY <2>3, <2>4, <2>5 DEF SemaTyped
  <1> QED BY <1>1, <1>2

-----------------------------------------------------------------------------
(* Type correctness *)

\* t executes, and is neither the idle thread nor main while it boots.
Runner(t) == current = t /\ pc[t] \notin IdleLabel \cup {"boot_create"}

LEMMA RunnerFacts ==
  ASSUME TypeInv, NEW t \in Thread, Runner(t)
  PROVE  /\ t # Idle /\ pc[t] # "none" /\ pc[Main] # "boot_create"
         /\ idle_thread = NULL => current # Idle
         /\ SchedTypeOK /\ IdleThere /\ SemaTyped
         /\ TypeOK /\ CallOK(t)
  BY ThreadAssumption DEF Runner, IdleLabel, TypeInv, TypeOK, BootOK, SemaTyped

LEMMA CreatingFacts ==
  ASSUME TypeInv, NEW t \in Thread, Creating(t)
  PROVE  peer[t] \in Thread /\ pc[peer[t]] = "none" /\ pc[t] # "none"
  BY DEF TypeInv, TypeOK, CallOK, Creating, ChildOK, CreateLabel, LockLabel

\* A step that makes no thread a creator keeps ChildOK if the children keep
\* their page and their label.
LEMMA ChildKept ==
  ASSUME ChildOK,
         \A u \in Thread : Creating(u)' =>
            /\ Creating(u) /\ peer'[u] = peer[u] /\ peer[u] \in Thread
            /\ pc'[peer[u]] = pc[peer[u]]
            /\ status'[peer[u]] = "NONE" => status[peer[u]] = "NONE",
         \A u \in Thread : status'[u] = "NONE" => pc'[u] = "none"
  PROVE  ChildOK'
  <1>1. ASSUME NEW u \in Thread, Creating(u)'
        PROVE  pc'[peer'[u]] = "none" /\ status'[peer'[u]] # "NONE"
    BY <1>1 DEF ChildOK
  <1>2. \A u, v \in Thread :
          Creating(u)' /\ Creating(v)' /\ peer'[u] = peer'[v] => u = v
    BY DEF ChildOK
  <1> QED BY <1>1, <1>2 DEF ChildOK

\* A step by which the runner t changes its own pc, arg, peer and held only.
LEMMA OwnStep ==
  ASSUME TypeInv, NEW t \in Thread, Runner(t), SchedKept, TypeOK',
         NEW label \in Label \ {"none", "boot_create"},
         pc' = [pc EXCEPT ![t] = label],
         \A u \in Thread \ {t} :
            arg'[u] = arg[u] /\ peer'[u] = peer[u] /\ held'[u] = held[u],
         Creating(t)' => Creating(t) /\ peer'[t] = peer[t],
         CallOK(t)'
  PROVE  TypeInv'
  <1> USE ThreadAssumption DEF TypeInv, TypeOK
  <1>1. /\ t # Idle /\ pc[t] # "none" /\ pc[Main] # "boot_create"
        /\ \A u \in Thread \ {t} : pc'[u] = pc[u]
        /\ pc'[t] = label
    BY RunnerFacts
  <1>2. \A u \in Thread : CallOK(u)'
    BY <1>1 DEF CallOK
  <1>3. \A u \in Thread : Creating(u)' => Creating(u) /\ peer'[u] = peer[u]
    BY <1>1 DEF Creating
  <1>4. ChildOK'
    <2>1. \A u \in Thread : status'[u] = "NONE" => pc'[u] = "none"
      BY <1>1 DEF ChildOK, SchedKept
    <2>2. \A u \in Thread : Creating(u) => peer[u] \in Thread /\ pc[peer[u]] = "none"
      BY CreatingFacts
    <2> QED BY <1>1, <1>3, <2>1, <2>2, ChildKept DEF SchedKept
  <1>5. BootOK'
    BY <1>1 DEF BootOK, SchedKept
  <1> QED BY <1>2, <1>4, <1>5

\* The scheduler and the semaphores when a runner calls them.
LEMMA RunnerDown ==
  ASSUME TypeInv, NEW t \in Thread, Runner(t), NEW s \in AnySema,
         NEW done, NEW asleep, SemaDown(t, s, done, asleep)
  PROVE  SchedKept /\ SemaTyped'
  BY RunnerFacts, SemaDownKeeps

LEMMA RunnerUp ==
  ASSUME TypeInv, NEW t \in Thread, Runner(t), NEW s \in AnySema, SemaUp(s)
  PROVE  SchedKept /\ SemaTyped'
  BY RunnerFacts, SemaUpKeeps

LEMMA RunnerSame ==
  ASSUME TypeInv, NEW t \in Thread, Runner(t), UNCHANGED schedVars
  PROVE  SchedKept
  BY RunnerFacts, SameKeeps

(* The actions of a runner, one lemma each *)


LEMMA TypedSemaDownLoop ==
  ASSUME TypeInv, NEW t \in Thread, SemaDownLoop(t)
  PROVE  TypeInv'
  <1> USE DEF SemaDownLoop, At, Goto, CreateLabel, LockLabel, WaitLabel,
     DownLabel
  <1>1. Runner(t)
    BY DEF Runner, IdleLabel
  <1>2. CallOK(t) /\ TypeOK
    BY DEF TypeInv
  <1>3. SemaOf(t) \in AnySema
    BY <1>2, SynchAssumption DEF CallOK, AnySema, SemaOf, TypeOK
  <1>4. SemaDown(t, SemaOf(t), DownThen(pc[t]), pc[t])
    BY DEF SemaOf
  <1>5. SchedKept /\ SemaTyped'
    BY <1>1, <1>3, <1>4, RunnerDown
  <1>6. PICK label \in {DownThen(pc[t]), pc[t]} : pc' = [pc EXCEPT ![t] = label]
    BY <1>4 DEF SemaDown
  <1>7. label \in Label \ {"none", "boot_create"}
    BY <1>6 DEF Label, DownThen
  <1>9. TypeOK'
    BY <1>2, <1>5, <1>6, <1>7, SynchAssumption, ThreadAssumption DEF TypeOK,
       CallOK, SchedKept, SemaTyped, syncVars, tidVars, callVars
  <1>10. CallOK(t)' /\ (Creating(t)' => Creating(t) /\ peer'[t] = peer[t])
    BY <1>2, <1>6, SynchAssumption, ThreadAssumption DEF TypeOK, CallOK,
       Creating, callVars, DownThen, SemaDown
  <1> QED
    BY <1>1, <1>2, <1>5, <1>6, <1>7, <1>9, <1>10, OwnStep DEF TypeOK, callVars

LEMMA TypedLockSetHolder ==
  ASSUME TypeInv, NEW t \in Thread, LockSetHolder(t)
  PROVE  TypeInv'
  <1> USE DEF LockSetHolder, At, Goto, CreateLabel, LockLabel, WaitLabel,
     DownLabel
  <1>1. Runner(t)
    BY DEF Runner, IdleLabel
  <1>2. CallOK(t) /\ TypeOK
    BY DEF TypeInv
  <1>5. SchedKept /\ SemaTyped'
    BY <1>1, <1>2, RunnerSame DEF SemaTyped, TypeOK, AnySema, syncVars
  <1>6. PICK label \in {"run", "tid"} : pc' = [pc EXCEPT ![t] = label]
    OBVIOUS
  <1>7. label \in Label \ {"none", "boot_create"}
    BY <1>6 DEF Label, DownThen
  <1>8. arg[t] \in Lock
    BY <1>2 DEF CallOK
  <1>9. TypeOK'
    <2>1. holder' \in [Lock -> Thread \cup {NULL}]
      <3>1. holder \in [Lock -> Thread \cup {NULL}]
        BY <1>2 DEF TypeOK
      <3>2. holder' = [holder EXCEPT ![arg[t]] = t]
        OBVIOUS
      <3> HIDE DEF LockSetHolder
      <3> QED BY <3>1, <3>2
    <2>2. held' \in [Thread -> SUBSET Lock]
      <3>1. held[t] \cup {arg[t]} \in SUBSET Lock
        BY <1>2, <1>8 DEF TypeOK
      <3>2. \/ held' = [held EXCEPT ![t] = held[t] \cup {arg[t]}]
            \/ held' = held
        OBVIOUS
      <3>3. held \in [Thread -> SUBSET Lock]
        BY <1>2 DEF TypeOK
      <3> HIDE DEF LockSetHolder
      <3> QED BY <3>1, <3>2, <3>3
    <2>3. arg' \in [Thread -> Sema \cup Lock \cup Cond \cup {NULL}]
      <3>1. CASE peer[t] = NULL
        BY <3>1, <1>2, <1>8 DEF TypeOK
      <3>2. CASE peer[t] # NULL
        BY <3>2, <1>2 DEF TypeOK
      <3> QED BY <3>1, <3>2
    <2> QED
      BY <1>2, <1>5, <1>6, <1>7, <2>1, <2>2, <2>3
         DEF TypeOK, SchedKept, SemaTyped, tidVars
  <1>10. CallOK(t)' /\ (Creating(t)' => Creating(t) /\ peer'[t] = peer[t])
    BY <1>2, <1>6, SynchAssumption, ThreadAssumption DEF TypeOK, CallOK,
       Creating, callVars, DownThen, SemaDown
  <1> QED
    BY <1>1, <1>2, <1>5, <1>6, <1>7, <1>9, <1>10, OwnStep DEF TypeOK, callVars

LEMMA TypedLockReleaseUp ==
  ASSUME TypeInv, NEW t \in Thread, LockReleaseUp(t)
  PROVE  TypeInv'
  <1> USE DEF LockReleaseUp, At, Goto, CreateLabel, LockLabel, WaitLabel,
     DownLabel
  <1>1. Runner(t)
    BY DEF Runner, IdleLabel
  <1>2. CallOK(t) /\ TypeOK
    BY DEF TypeInv
  <1>3. arg[t] \in AnySema
    BY <1>2, SynchAssumption DEF CallOK, AnySema, SemaOf, TypeOK
  <1>5. SchedKept /\ SemaTyped'
    BY <1>1, <1>3, RunnerUp
  <1>6. PICK label \in {"run", "unblock"} : pc' = [pc EXCEPT ![t] = label]
    OBVIOUS
  <1>7. label \in Label \ {"none", "boot_create"}
    BY <1>6 DEF Label, DownThen
  <1>9. TypeOK'
    BY <1>2, <1>5, <1>6, <1>7, SynchAssumption, ThreadAssumption DEF TypeOK,
       CallOK, SchedKept, SemaTyped, syncVars, tidVars, callVars
  <1>10. CallOK(t)' /\ (Creating(t)' => Creating(t) /\ peer'[t] = peer[t])
    BY <1>2, <1>6, SynchAssumption, ThreadAssumption DEF TypeOK, CallOK,
       Creating, callVars, DownThen, SemaDown
  <1> QED
    BY <1>1, <1>2, <1>5, <1>6, <1>7, <1>9, <1>10, OwnStep DEF TypeOK, callVars

LEMMA TypedWaitClearHolder ==
  ASSUME TypeInv, NEW t \in Thread, WaitClearHolder(t)
  PROVE  TypeInv'
  <1> USE DEF WaitClearHolder, ClearHolder, At, Goto, CreateLabel, LockLabel,
     WaitLabel, DownLabel
  <1>1. Runner(t)
    BY DEF Runner, IdleLabel
  <1>2. CallOK(t) /\ TypeOK
    BY DEF TypeInv
  <1>5. SchedKept /\ SemaTyped'
    BY <1>1, <1>2, RunnerSame DEF SemaTyped, TypeOK, AnySema, syncVars
  <1>6. PICK label \in {"wait_up"} : pc' = [pc EXCEPT ![t] = label]
    OBVIOUS
  <1>7. label \in Label \ {"none", "boot_create"}
    BY <1>6 DEF Label, DownThen
  <1>9. TypeOK'
    BY <1>2, <1>5, <1>6, <1>7, SynchAssumption, ThreadAssumption DEF TypeOK,
       CallOK, SchedKept, SemaTyped, syncVars, tidVars, callVars
  <1>10. CallOK(t)' /\ (Creating(t)' => Creating(t) /\ peer'[t] = peer[t])
    BY <1>2, <1>6, SynchAssumption, ThreadAssumption DEF TypeOK, CallOK,
       Creating, callVars, DownThen, SemaDown
  <1> QED
    BY <1>1, <1>2, <1>5, <1>6, <1>7, <1>9, <1>10, OwnStep DEF TypeOK, callVars

LEMMA TypedWaitUnlock ==
  ASSUME TypeInv, NEW t \in Thread, WaitUnlock(t)
  PROVE  TypeInv'
  <1> USE DEF WaitUnlock, At, Goto, CreateLabel, LockLabel, WaitLabel,
     DownLabel
  <1>1. Runner(t)
    BY DEF Runner, IdleLabel
  <1>2. CallOK(t) /\ TypeOK
    BY DEF TypeInv
  <1>3. arg[t] \in AnySema
    BY <1>2, SynchAssumption DEF CallOK, AnySema, SemaOf, TypeOK
  <1>5. SchedKept /\ SemaTyped'
    BY <1>1, <1>3, RunnerUp
  <1>6. PICK label \in {"wait_call"} : pc' = [pc EXCEPT ![t] = label]
    OBVIOUS
  <1>7. label \in Label \ {"none", "boot_create"}
    BY <1>6 DEF Label, DownThen
  <1>9. TypeOK'
    BY <1>2, <1>5, <1>6, <1>7, SynchAssumption, ThreadAssumption DEF TypeOK,
       CallOK, SchedKept, SemaTyped, syncVars, tidVars, callVars
  <1>10. CallOK(t)' /\ (Creating(t)' => Creating(t) /\ peer'[t] = peer[t])
    BY <1>2, <1>6, SynchAssumption, ThreadAssumption DEF TypeOK, CallOK,
       Creating, callVars, DownThen, SemaDown
  <1> QED
    BY <1>1, <1>2, <1>5, <1>6, <1>7, <1>9, <1>10, OwnStep DEF TypeOK, callVars

LEMMA TypedWaitDown ==
  ASSUME TypeInv, NEW t \in Thread, WaitDown(t)
  PROVE  TypeInv'
  <1> USE DEF WaitDown, At, Goto, CreateLabel, LockLabel, WaitLabel, DownLabel
  <1>1. Runner(t)
    BY DEF Runner, IdleLabel
  <1>2. CallOK(t) /\ TypeOK
    BY DEF TypeInv
  <1>3. t \in AnySema
    BY <1>2, SynchAssumption DEF CallOK, AnySema, SemaOf, TypeOK
  <1>4. SemaDown(t, t, "relock", "wait_down")
    BY DEF SemaOf
  <1>5. SchedKept /\ SemaTyped'
    BY <1>1, <1>3, <1>4, RunnerDown
  <1>6. PICK label \in {"relock", "wait_down"} : pc' = [pc EXCEPT ![t] = label]
    BY <1>4 DEF SemaDown
  <1>7. label \in Label \ {"none", "boot_create"}
    BY <1>6 DEF Label, DownThen
  <1>9. TypeOK'
    BY <1>2, <1>5, <1>6, <1>7, SynchAssumption, ThreadAssumption DEF TypeOK,
       CallOK, SchedKept, SemaTyped, syncVars, tidVars, callVars
  <1>10. CallOK(t)' /\ (Creating(t)' => Creating(t) /\ peer'[t] = peer[t])
    BY <1>2, <1>6, SynchAssumption, ThreadAssumption DEF TypeOK, CallOK,
       Creating, callVars, DownThen, SemaDown
  <1> QED
    BY <1>1, <1>2, <1>5, <1>6, <1>7, <1>9, <1>10, OwnStep DEF TypeOK, callVars

LEMMA TypedRelock ==
  ASSUME TypeInv, NEW t \in Thread, Relock(t)
  PROVE  TypeInv'
  <1> USE DEF Relock, At, Goto, CreateLabel, LockLabel, WaitLabel, DownLabel
  <1>1. Runner(t)
    BY DEF Runner, IdleLabel
  <1>2. CallOK(t) /\ TypeOK
    BY DEF TypeInv
  <1>3. arg[t] \in AnySema
    BY <1>2, SynchAssumption DEF CallOK, AnySema, SemaOf, TypeOK
  <1>4. SemaDown(t, arg[t], "relock_set", "relock_down")
    BY DEF SemaOf
  <1>5. SchedKept /\ SemaTyped'
    BY <1>1, <1>3, <1>4, RunnerDown
  <1>6. PICK label \in {"relock_set", "relock_down"} : pc' = [pc EXCEPT ![t] = label]
    BY <1>4 DEF SemaDown
  <1>7. label \in Label \ {"none", "boot_create"}
    BY <1>6 DEF Label, DownThen
  <1>9. TypeOK'
    BY <1>2, <1>5, <1>6, <1>7, SynchAssumption, ThreadAssumption DEF TypeOK,
       CallOK, SchedKept, SemaTyped, syncVars, tidVars, callVars
  <1>10. CallOK(t)' /\ (Creating(t)' => Creating(t) /\ peer'[t] = peer[t])
    BY <1>2, <1>6, SynchAssumption, ThreadAssumption DEF TypeOK, CallOK,
       Creating, callVars, DownThen, SemaDown
  <1> QED
    BY <1>1, <1>2, <1>5, <1>6, <1>7, <1>9, <1>10, OwnStep DEF TypeOK, callVars

LEMMA TypedSignalUp ==
  ASSUME TypeInv, NEW t \in Thread, SignalUp(t)
  PROVE  TypeInv'
  <1> USE DEF SignalUp, At, Goto, CreateLabel, LockLabel, WaitLabel, DownLabel
  <1>1. Runner(t)
    BY DEF Runner, IdleLabel
  <1>2. CallOK(t) /\ TypeOK
    BY DEF TypeInv
  <1>3. peer[t] \in AnySema
    BY <1>2, SynchAssumption DEF CallOK, AnySema, SemaOf, TypeOK
  <1>5. SchedKept /\ SemaTyped'
    BY <1>1, <1>3, RunnerUp
  <1>6. PICK label \in {"run", "bcast"} : pc' = [pc EXCEPT ![t] = label]
    OBVIOUS
  <1>7. label \in Label \ {"none", "boot_create"}
    BY <1>6 DEF Label, DownThen
  <1>9. TypeOK'
    BY <1>2, <1>5, <1>6, <1>7, SynchAssumption, ThreadAssumption DEF TypeOK,
       CallOK, SchedKept, SemaTyped, syncVars, tidVars, callVars
  <1>10. CallOK(t)' /\ (Creating(t)' => Creating(t) /\ peer'[t] = peer[t])
    BY <1>2, <1>6, SynchAssumption, ThreadAssumption DEF TypeOK, CallOK,
       Creating, callVars, DownThen, SemaDown
  <1> QED
    BY <1>1, <1>2, <1>5, <1>6, <1>7, <1>9, <1>10, OwnStep DEF TypeOK, callVars

LEMMA TypedBroadcastNext ==
  ASSUME TypeInv, NEW t \in Thread, BroadcastNext(t)
  PROVE  TypeInv'
  <1> USE DEF BroadcastNext, PopWaiter, At, Goto, CreateLabel, LockLabel,
     WaitLabel, DownLabel
  <1>1. Runner(t)
    BY DEF Runner, IdleLabel
  <1>2. CallOK(t) /\ TypeOK
    BY DEF TypeInv
  <1>5. SchedKept /\ SemaTyped'
    BY <1>1, <1>2, RunnerSame DEF SemaTyped, TypeOK, AnySema, syncVars
  <1>6. PICK label \in {"bcast_up"} : pc' = [pc EXCEPT ![t] = label]
    OBVIOUS
  <1>7. label \in Label \ {"none", "boot_create"}
    BY <1>6 DEF Label, DownThen
  <1>9. TypeOK'
    BY <1>2, <1>5, <1>6, <1>7, SynchAssumption, ThreadAssumption DEF TypeOK,
       CallOK, SchedKept, SemaTyped, syncVars, tidVars, callVars
  <1>10. CallOK(t)' /\ (Creating(t)' => Creating(t) /\ peer'[t] = peer[t])
    BY <1>2, <1>6, SynchAssumption, ThreadAssumption DEF TypeOK, CallOK,
       Creating, callVars, DownThen, SemaDown
  <1> QED
    BY <1>1, <1>2, <1>5, <1>6, <1>7, <1>9, <1>10, OwnStep DEF TypeOK, callVars

LEMMA TypedBroadcastDone ==
  ASSUME TypeInv, NEW t \in Thread, BroadcastDone(t)
  PROVE  TypeInv'
  <1> USE DEF BroadcastDone, At, Goto, CreateLabel, LockLabel, WaitLabel,
     DownLabel
  <1>1. Runner(t)
    BY DEF Runner, IdleLabel
  <1>2. CallOK(t) /\ TypeOK
    BY DEF TypeInv
  <1>5. SchedKept /\ SemaTyped'
    BY <1>1, <1>2, RunnerSame DEF SemaTyped, TypeOK, AnySema, syncVars
  <1>6. PICK label \in {"run"} : pc' = [pc EXCEPT ![t] = label]
    OBVIOUS
  <1>7. label \in Label \ {"none", "boot_create"}
    BY <1>6 DEF Label, DownThen
  <1>9. TypeOK'
    BY <1>2, <1>5, <1>6, <1>7, SynchAssumption, ThreadAssumption DEF TypeOK,
       CallOK, SchedKept, SemaTyped, syncVars, tidVars, callVars
  <1>10. CallOK(t)' /\ (Creating(t)' => Creating(t) /\ peer'[t] = peer[t])
    BY <1>2, <1>6, SynchAssumption, ThreadAssumption DEF TypeOK, CallOK,
       Creating, callVars, DownThen, SemaDown
  <1> QED
    BY <1>1, <1>2, <1>5, <1>6, <1>7, <1>9, <1>10, OwnStep DEF TypeOK, callVars

LEMMA TypedTidAcquire ==
  ASSUME TypeInv, NEW t \in Thread, TidAcquire(t)
  PROVE  TypeInv'
  <1> USE DEF TidAcquire, At, Goto, CreateLabel, LockLabel, WaitLabel,
     DownLabel
  <1>1. Runner(t)
    BY DEF Runner, IdleLabel
  <1>2. CallOK(t) /\ TypeOK
    BY DEF TypeInv
  <1>3. TidLock \in AnySema
    BY <1>2, SynchAssumption DEF CallOK, AnySema, SemaOf, TypeOK
  <1>4. SemaDown(t, TidLock, "lock_set", "lock_down")
    BY DEF SemaOf
  <1>5. SchedKept /\ SemaTyped'
    BY <1>1, <1>3, <1>4, RunnerDown
  <1>6. PICK label \in {"lock_set", "lock_down"} : pc' = [pc EXCEPT ![t] = label]
    BY <1>4 DEF SemaDown
  <1>7. label \in Label \ {"none", "boot_create"}
    BY <1>6 DEF Label, DownThen
  <1>9. TypeOK'
    BY <1>2, <1>5, <1>6, <1>7, SynchAssumption, ThreadAssumption DEF TypeOK,
       CallOK, SchedKept, SemaTyped, syncVars, tidVars, callVars
  <1>10. CallOK(t)' /\ (Creating(t)' => Creating(t) /\ peer'[t] = peer[t])
    BY <1>2, <1>6, SynchAssumption, ThreadAssumption DEF TypeOK, CallOK,
       Creating, callVars, DownThen, SemaDown
  <1> QED
    BY <1>1, <1>2, <1>5, <1>6, <1>7, <1>9, <1>10, OwnStep DEF TypeOK, callVars

LEMMA TypedTidRead ==
  ASSUME TypeInv, NEW t \in Thread, TidRead(t)
  PROVE  TypeInv'
  <1> USE DEF TidRead, At, Goto, CreateLabel, LockLabel, WaitLabel, DownLabel
  <1>1. Runner(t)
    BY DEF Runner, IdleLabel
  <1>2. CallOK(t) /\ TypeOK
    BY DEF TypeInv
  <1>5. SchedKept /\ SemaTyped'
    BY <1>1, <1>2, RunnerSame DEF SemaTyped, TypeOK, AnySema, syncVars
  <1>6. PICK label \in {"tid_write"} : pc' = [pc EXCEPT ![t] = label]
    OBVIOUS
  <1>7. label \in Label \ {"none", "boot_create"}
    BY <1>6 DEF Label, DownThen
  <1>9. TypeOK'
    BY <1>2, <1>5, <1>6, <1>7, SynchAssumption, ThreadAssumption DEF TypeOK,
       CallOK, SchedKept, SemaTyped, syncVars, tidVars, callVars
  <1>10. CallOK(t)' /\ (Creating(t)' => Creating(t) /\ peer'[t] = peer[t])
    BY <1>2, <1>6, SynchAssumption, ThreadAssumption DEF TypeOK, CallOK,
       Creating, callVars, DownThen, SemaDown
  <1> QED
    BY <1>1, <1>2, <1>5, <1>6, <1>7, <1>9, <1>10, OwnStep DEF TypeOK, callVars

LEMMA TypedTidWrite ==
  ASSUME TypeInv, NEW t \in Thread, TidWrite(t)
  PROVE  TypeInv'
  <1> USE DEF TidWrite, At, Goto, CreateLabel, LockLabel, WaitLabel, DownLabel
  <1>1. Runner(t)
    BY DEF Runner, IdleLabel
  <1>2. CallOK(t) /\ TypeOK
    BY DEF TypeInv
  <1>5. SchedKept /\ SemaTyped'
    BY <1>1, <1>2, RunnerSame DEF SemaTyped, TypeOK, AnySema, syncVars
  <1>6. PICK label \in {"tid_release"} : pc' = [pc EXCEPT ![t] = label]
    OBVIOUS
  <1>7. label \in Label \ {"none", "boot_create"}
    BY <1>6 DEF Label, DownThen
  <1>9. TypeOK'
    BY <1>2, <1>5, <1>6, <1>7, SynchAssumption, ThreadAssumption DEF TypeOK,
       CallOK, SchedKept, SemaTyped, syncVars, tidVars, callVars
  <1>10. CallOK(t)' /\ (Creating(t)' => Creating(t) /\ peer'[t] = peer[t])
    BY <1>2, <1>6, SynchAssumption, ThreadAssumption DEF TypeOK, CallOK,
       Creating, callVars, DownThen, SemaDown
  <1> QED
    BY <1>1, <1>2, <1>5, <1>6, <1>7, <1>9, <1>10, OwnStep DEF TypeOK, callVars

LEMMA TypedTidRelease ==
  ASSUME TypeInv, NEW t \in Thread, TidRelease(t)
  PROVE  TypeInv'
  <1> USE DEF TidRelease, ClearHolder, At, Goto, CreateLabel, LockLabel,
     WaitLabel, DownLabel
  <1>1. Runner(t)
    BY DEF Runner, IdleLabel
  <1>2. CallOK(t) /\ TypeOK
    BY DEF TypeInv
  <1>5. SchedKept /\ SemaTyped'
    BY <1>1, <1>2, RunnerSame DEF SemaTyped, TypeOK, AnySema, syncVars
  <1>6. PICK label \in {"lock_up"} : pc' = [pc EXCEPT ![t] = label]
    OBVIOUS
  <1>7. label \in Label \ {"none", "boot_create"}
    BY <1>6 DEF Label, DownThen
  <1>9. TypeOK'
    BY <1>2, <1>5, <1>6, <1>7, SynchAssumption, ThreadAssumption DEF TypeOK,
       CallOK, SchedKept, SemaTyped, syncVars, tidVars, callVars
  <1>10. CallOK(t)' /\ (Creating(t)' => Creating(t) /\ peer'[t] = peer[t])
    BY <1>2, <1>6, SynchAssumption, ThreadAssumption DEF TypeOK, CallOK,
       Creating, callVars, DownThen, SemaDown
  <1> QED
    BY <1>1, <1>2, <1>5, <1>6, <1>7, <1>9, <1>10, OwnStep DEF TypeOK, callVars

LEMMA TypedCallSemaDown ==
  ASSUME TypeInv, NEW t \in Thread, NEW s \in Sema \ {IdleStarted}, CallSemaDown(t, s)
  PROVE  TypeInv'
  <1> USE DEF CallSemaDown, At, Goto, CreateLabel, LockLabel, WaitLabel,
     DownLabel
  <1>1. Runner(t)
    BY DEF Runner, IdleLabel
  <1>2. CallOK(t) /\ TypeOK
    BY DEF TypeInv
  <1>3. s \in AnySema
    BY <1>2, SynchAssumption DEF CallOK, AnySema, SemaOf, TypeOK
  <1>4. SemaDown(t, s, "run", "sema_down")
    BY DEF SemaOf
  <1>5. SchedKept /\ SemaTyped'
    BY <1>1, <1>3, <1>4, RunnerDown
  <1>6. PICK label \in {"run", "sema_down"} : pc' = [pc EXCEPT ![t] = label]
    BY <1>4 DEF SemaDown
  <1>7. label \in Label \ {"none", "boot_create"}
    BY <1>6 DEF Label, DownThen
  <1>9. TypeOK'
    BY <1>2, <1>5, <1>6, <1>7, SynchAssumption, ThreadAssumption DEF TypeOK,
       CallOK, SchedKept, SemaTyped, syncVars, tidVars, callVars
  <1>10. CallOK(t)' /\ (Creating(t)' => Creating(t) /\ peer'[t] = peer[t])
    BY <1>2, <1>6, SynchAssumption, ThreadAssumption DEF TypeOK, CallOK,
       Creating, callVars, DownThen, SemaDown
  <1> QED
    BY <1>1, <1>2, <1>5, <1>6, <1>7, <1>9, <1>10, OwnStep DEF TypeOK, callVars

LEMMA TypedCallSemaTryDown ==
  ASSUME TypeInv, NEW t \in Thread, NEW s \in Sema \ {IdleStarted}, CallSemaTryDown(t, s)
  PROVE  TypeInv'
  <1> USE DEF CallSemaTryDown, At, Goto, CreateLabel, LockLabel, WaitLabel,
     DownLabel
  <1>1. Runner(t)
    BY DEF Runner, IdleLabel
  <1>2. CallOK(t) /\ TypeOK
    BY DEF TypeInv
  <1>5. SchedKept /\ SemaTyped'
    BY <1>1, <1>2, RunnerSame DEF SemaTyped, TypeOK, AnySema, syncVars
  <1>6. PICK label \in {"run"} : pc' = [pc EXCEPT ![t] = label]
    BY <1>2 DEF callVars, TypeOK
  <1>7. label \in Label \ {"none", "boot_create"}
    BY <1>6 DEF Label, DownThen
  <1>9. TypeOK'
    BY <1>2, <1>5, <1>6, <1>7, SynchAssumption, ThreadAssumption DEF TypeOK,
       CallOK, SchedKept, SemaTyped, syncVars, tidVars, callVars
  <1>10. CallOK(t)' /\ (Creating(t)' => Creating(t) /\ peer'[t] = peer[t])
    BY <1>2, <1>6, SynchAssumption, ThreadAssumption DEF TypeOK, CallOK,
       Creating, callVars, DownThen, SemaDown
  <1> QED
    BY <1>1, <1>2, <1>5, <1>6, <1>7, <1>9, <1>10, OwnStep DEF TypeOK, callVars

LEMMA TypedCallSemaUp ==
  ASSUME TypeInv, NEW t \in Thread, NEW s \in Sema \ {IdleStarted}, CallSemaUp(t, s)
  PROVE  TypeInv'
  <1> USE DEF CallSemaUp, At, Goto, CreateLabel, LockLabel, WaitLabel,
     DownLabel
  <1>1. Runner(t)
    BY DEF Runner, IdleLabel
  <1>2. CallOK(t) /\ TypeOK
    BY DEF TypeInv
  <1>3. s \in AnySema
    BY <1>2, SynchAssumption DEF CallOK, AnySema, SemaOf, TypeOK
  <1>5. SchedKept /\ SemaTyped'
    BY <1>1, <1>3, RunnerUp
  <1>6. PICK label \in {"run"} : pc' = [pc EXCEPT ![t] = label]
    BY <1>2 DEF callVars, TypeOK
  <1>7. label \in Label \ {"none", "boot_create"}
    BY <1>6 DEF Label, DownThen
  <1>9. TypeOK'
    BY <1>2, <1>5, <1>6, <1>7, SynchAssumption, ThreadAssumption DEF TypeOK,
       CallOK, SchedKept, SemaTyped, syncVars, tidVars, callVars
  <1>10. CallOK(t)' /\ (Creating(t)' => Creating(t) /\ peer'[t] = peer[t])
    BY <1>2, <1>6, SynchAssumption, ThreadAssumption DEF TypeOK, CallOK,
       Creating, callVars, DownThen, SemaDown
  <1> QED
    BY <1>1, <1>2, <1>5, <1>6, <1>7, <1>9, <1>10, OwnStep DEF TypeOK, callVars

LEMMA TypedLockAcquire ==
  ASSUME TypeInv, NEW t \in Thread, NEW l \in Lock \ {TidLock}, LockAcquire(t, l)
  PROVE  TypeInv'
  <1> USE DEF LockAcquire, At, Goto, CreateLabel, LockLabel, WaitLabel,
     DownLabel
  <1>1. Runner(t)
    BY DEF Runner, IdleLabel
  <1>2. CallOK(t) /\ TypeOK
    BY DEF TypeInv
  <1>3. l \in AnySema
    BY <1>2, SynchAssumption DEF CallOK, AnySema, SemaOf, TypeOK
  <1>4. SemaDown(t, l, "lock_set", "lock_down")
    BY DEF SemaOf
  <1>5. SchedKept /\ SemaTyped'
    BY <1>1, <1>3, <1>4, RunnerDown
  <1>6. PICK label \in {"lock_set", "lock_down"} : pc' = [pc EXCEPT ![t] = label]
    BY <1>4 DEF SemaDown
  <1>7. label \in Label \ {"none", "boot_create"}
    BY <1>6 DEF Label, DownThen
  <1>9. TypeOK'
    BY <1>2, <1>5, <1>6, <1>7, SynchAssumption, ThreadAssumption DEF TypeOK,
       CallOK, SchedKept, SemaTyped, syncVars, tidVars, callVars
  <1>10. CallOK(t)' /\ (Creating(t)' => Creating(t) /\ peer'[t] = peer[t])
    BY <1>2, <1>6, SynchAssumption, ThreadAssumption DEF TypeOK, CallOK,
       Creating, callVars, DownThen, SemaDown
  <1> QED
    BY <1>1, <1>2, <1>5, <1>6, <1>7, <1>9, <1>10, OwnStep DEF TypeOK, callVars

LEMMA TypedLockTryAcquire ==
  ASSUME TypeInv, NEW t \in Thread, NEW l \in Lock \ {TidLock}, LockTryAcquire(t, l)
  PROVE  TypeInv'
  <1> USE DEF LockTryAcquire, At, Goto, CreateLabel, LockLabel, WaitLabel,
     DownLabel
  <1>1. Runner(t)
    BY DEF Runner, IdleLabel
  <1>2. CallOK(t) /\ TypeOK
    BY DEF TypeInv
  <1>5. SchedKept /\ SemaTyped'
    BY <1>1, <1>2, RunnerSame DEF SemaTyped, TypeOK, AnySema, syncVars
  <1>6. PICK label \in {"lock_set"} : pc' = [pc EXCEPT ![t] = label]
    OBVIOUS
  <1>7. label \in Label \ {"none", "boot_create"}
    BY <1>6 DEF Label, DownThen
  <1>9. TypeOK'
    BY <1>2, <1>5, <1>6, <1>7, SynchAssumption, ThreadAssumption DEF TypeOK,
       CallOK, SchedKept, SemaTyped, syncVars, tidVars, callVars
  <1>10. CallOK(t)' /\ (Creating(t)' => Creating(t) /\ peer'[t] = peer[t])
    BY <1>2, <1>6, SynchAssumption, ThreadAssumption DEF TypeOK, CallOK,
       Creating, callVars, DownThen, SemaDown
  <1> QED
    BY <1>1, <1>2, <1>5, <1>6, <1>7, <1>9, <1>10, OwnStep DEF TypeOK, callVars

LEMMA TypedLockRelease ==
  ASSUME TypeInv, NEW t \in Thread, NEW l \in Lock \ {TidLock}, LockRelease(t, l)
  PROVE  TypeInv'
  <1> USE DEF LockRelease, ClearHolder, At, Goto, CreateLabel, LockLabel,
     WaitLabel, DownLabel
  <1>1. Runner(t)
    BY DEF Runner, IdleLabel
  <1>2. CallOK(t) /\ TypeOK
    BY DEF TypeInv
  <1>5. SchedKept /\ SemaTyped'
    BY <1>1, <1>2, RunnerSame DEF SemaTyped, TypeOK, AnySema, syncVars
  <1>6. PICK label \in {"lock_up"} : pc' = [pc EXCEPT ![t] = label]
    OBVIOUS
  <1>7. label \in Label \ {"none", "boot_create"}
    BY <1>6 DEF Label, DownThen
  <1>9. TypeOK'
    BY <1>2, <1>5, <1>6, <1>7, SynchAssumption, ThreadAssumption DEF TypeOK,
       CallOK, SchedKept, SemaTyped, syncVars, tidVars, callVars
  <1>10. CallOK(t)' /\ (Creating(t)' => Creating(t) /\ peer'[t] = peer[t])
    BY <1>2, <1>6, SynchAssumption, ThreadAssumption DEF TypeOK, CallOK,
       Creating, callVars, DownThen, SemaDown
  <1> QED
    BY <1>1, <1>2, <1>5, <1>6, <1>7, <1>9, <1>10, OwnStep DEF TypeOK, callVars

LEMMA TypedCondWait ==
  ASSUME TypeInv, NEW t \in Thread, NEW c \in Cond, CondWait(t, c)
  PROVE  TypeInv'
  <1> USE DEF CondWait, At, Goto, CreateLabel, LockLabel, WaitLabel, DownLabel
  <1>1. Runner(t)
    BY DEF Runner, IdleLabel
  <1>2. CallOK(t) /\ TypeOK
    BY DEF TypeInv
  <1>5. SchedKept /\ SemaTyped'
    BY <1>1, <1>2, RunnerSame DEF SemaTyped, TypeOK, AnySema, syncVars
  <1>6. PICK label \in {"wait_unlock"} : pc' = [pc EXCEPT ![t] = label]
    OBVIOUS
  <1>7. label \in Label \ {"none", "boot_create"}
    BY <1>6 DEF Label, DownThen
  <1>9. TypeOK'
    BY <1>2, <1>5, <1>6, <1>7, SynchAssumption, ThreadAssumption DEF TypeOK,
       CallOK, SchedKept, SemaTyped, syncVars, tidVars, callVars
  <1>10. CallOK(t)' /\ (Creating(t)' => Creating(t) /\ peer'[t] = peer[t])
    BY <1>2, <1>6, SynchAssumption, ThreadAssumption DEF TypeOK, CallOK,
       Creating, callVars, DownThen, SemaDown
  <1> QED
    BY <1>1, <1>2, <1>5, <1>6, <1>7, <1>9, <1>10, OwnStep DEF TypeOK, callVars

LEMMA TypedCondSignal ==
  ASSUME TypeInv, NEW t \in Thread, NEW c \in Cond, CondSignal(t, c)
  PROVE  TypeInv'
  <1> USE DEF CondSignal, PopWaiter, At, Goto, CreateLabel, LockLabel,
     WaitLabel, DownLabel
  <1>1. Runner(t)
    BY DEF Runner, IdleLabel
  <1>2. CallOK(t) /\ TypeOK
    BY DEF TypeInv
  <1>5. SchedKept /\ SemaTyped'
    BY <1>1, <1>2, RunnerSame DEF SemaTyped, TypeOK, AnySema, syncVars
  <1>6. PICK label \in {"signal_up"} : pc' = [pc EXCEPT ![t] = label]
    OBVIOUS
  <1>7. label \in Label \ {"none", "boot_create"}
    BY <1>6 DEF Label, DownThen
  <1>9. TypeOK'
    BY <1>2, <1>5, <1>6, <1>7, SynchAssumption, ThreadAssumption DEF TypeOK,
       CallOK, SchedKept, SemaTyped, syncVars, tidVars, callVars
  <1>10. CallOK(t)' /\ (Creating(t)' => Creating(t) /\ peer'[t] = peer[t])
    BY <1>2, <1>6, SynchAssumption, ThreadAssumption DEF TypeOK, CallOK,
       Creating, callVars, DownThen, SemaDown
  <1> QED
    BY <1>1, <1>2, <1>5, <1>6, <1>7, <1>9, <1>10, OwnStep DEF TypeOK, callVars

LEMMA TypedCondBroadcast ==
  ASSUME TypeInv, NEW t \in Thread, NEW c \in Cond, CondBroadcast(t, c)
  PROVE  TypeInv'
  <1> USE DEF CondBroadcast, At, Goto, CreateLabel, LockLabel, WaitLabel,
     DownLabel
  <1>1. Runner(t)
    BY DEF Runner, IdleLabel
  <1>2. CallOK(t) /\ TypeOK
    BY DEF TypeInv
  <1>5. SchedKept /\ SemaTyped'
    BY <1>1, <1>2, RunnerSame DEF SemaTyped, TypeOK, AnySema, syncVars
  <1>6. PICK label \in {"bcast"} : pc' = [pc EXCEPT ![t] = label]
    OBVIOUS
  <1>7. label \in Label \ {"none", "boot_create"}
    BY <1>6 DEF Label, DownThen
  <1>9. TypeOK'
    BY <1>2, <1>5, <1>6, <1>7, SynchAssumption, ThreadAssumption DEF TypeOK,
       CallOK, SchedKept, SemaTyped, syncVars, tidVars, callVars
  <1>10. CallOK(t)' /\ (Creating(t)' => Creating(t) /\ peer'[t] = peer[t])
    BY <1>2, <1>6, SynchAssumption, ThreadAssumption DEF TypeOK, CallOK,
       Creating, callVars, DownThen, SemaDown
  <1> QED
    BY <1>1, <1>2, <1>5, <1>6, <1>7, <1>9, <1>10, OwnStep DEF TypeOK, callVars

LEMMA TypedCallYield ==
  ASSUME TypeInv, NEW t \in Thread, CallYield(t)
  PROVE  TypeInv'
  <1> USE DEF CallYield, At, Goto, CreateLabel, LockLabel, WaitLabel,
     DownLabel
  <1>1. Runner(t)
    BY DEF Runner, IdleLabel
  <1>2. CallOK(t) /\ TypeOK
    BY DEF TypeInv
  <1>5. SchedKept /\ SemaTyped'
    BY <1>1, RunnerFacts, YieldKeeps DEF SemaTyped, syncVars
  <1>6. PICK label \in {"run"} : pc' = [pc EXCEPT ![t] = label]
    BY <1>2 DEF callVars, TypeOK
  <1>7. label \in Label \ {"none", "boot_create"}
    BY <1>6 DEF Label, DownThen
  <1>9. TypeOK'
    BY <1>2, <1>5, <1>6, <1>7, SynchAssumption, ThreadAssumption DEF TypeOK,
       CallOK, SchedKept, SemaTyped, syncVars, tidVars, callVars
  <1>10. CallOK(t)' /\ (Creating(t)' => Creating(t) /\ peer'[t] = peer[t])
    BY <1>2, <1>6, SynchAssumption, ThreadAssumption DEF TypeOK, CallOK,
       Creating, callVars, DownThen, SemaDown
  <1> QED
    BY <1>1, <1>2, <1>5, <1>6, <1>7, <1>9, <1>10, OwnStep DEF TypeOK, callVars
(* The other actions *)

\* A step that changes no label but the idle thread's, from one to another
\* of its loop, and no call variable.
LEMMA InterruptStep ==
  ASSUME TypeInv, SchedKept, SemaTyped', pc' = AwakenIdle(pc),
         pc[Main] # "boot_create",
         UNCHANGED <<holder, cond_waiters, tidVars, arg, peer, held>>
  PROVE  TypeInv'
  <1> USE ThreadAssumption DEF TypeInv
  <1>1. /\ pc' \in [Thread -> Label]
        /\ \A u \in Thread : \/ pc'[u] = pc[u]
                             \/ u = Idle /\ pc[u] = "idle_hlt" /\ pc'[u] = "idle_loop"
    BY DEF AwakenIdle, TypeOK, Label
  <1>2. TypeOK'
    BY <1>1 DEF TypeOK, SchedKept, SemaTyped, tidVars
  <1>3. \A u \in Thread : CallOK(u)'
    BY <1>1 DEF CallOK, LockLabel, WaitLabel, CreateLabel
  <1>4. \A u \in Thread : Creating(u)' => Creating(u)
    BY <1>1 DEF Creating, LockLabel, CreateLabel
  <1>5. ChildOK'
    <2>1. \A u \in Thread : pc'[u] = "none" <=> pc[u] = "none"
      BY <1>1
    <2>2. \A u \in Thread : Creating(u) => peer[u] \in Thread
      BY CreatingFacts
    <2>3. \A u \in Thread : status'[u] = "NONE" => pc'[u] = "none"
      BY <2>1 DEF ChildOK, SchedKept
    <2>4. \A u \in Thread : Creating(u) => pc[peer[u]] = "none"
      BY DEF ChildOK
    <2> QED BY <1>4, <2>1, <2>2, <2>3, <2>4, ChildKept DEF SchedKept
  <1>6. BootOK'
    BY <1>1 DEF BootOK, SchedKept, IdleLabel
  <1> QED BY <1>2, <1>3, <1>5, <1>6

LEMMA IntrFacts ==
  ASSUME TypeInv, IntrOn
  PROVE  pc[Main] # "boot_create" /\ SchedTypeOK /\ IdleThere /\ SemaTyped
  BY ThreadAssumption DEF TypeInv, TypeOK, BootOK, SemaTyped, IntrOn

LEMMA TypedTimerTick ==
  ASSUME TypeInv, TimerTick
  PROVE  TypeInv'
  <1>1. SchedKept /\ SemaTyped'
    BY IntrFacts, TickKeeps DEF TimerTick, SemaTyped, syncVars
  <1> QED BY <1>1, IntrFacts, InterruptStep DEF TimerTick, syncVars

LEMMA TypedDeviceUp ==
  ASSUME TypeInv, NEW s \in IntrSema, DeviceUp(s)
  PROVE  TypeInv'
  <1>1. s \in AnySema
    BY SynchAssumption DEF AnySema
  <1>2. SchedKept /\ SemaTyped'
    BY <1>1, IntrFacts, SemaUpKeeps DEF DeviceUp
  <1> QED BY <1>2, IntrFacts, InterruptStep DEF DeviceUp

\* The exiting thread is the only one that gives up its page, and its label.
LEMMA TypedCallExit ==
  ASSUME TypeInv, NEW t \in Thread, CallExit(t)
  PROVE  TypeInv'
  <1> USE ThreadAssumption DEF TypeInv, CallExit, At, Goto
  <1>1. Runner(t)
    BY DEF Runner, IdleLabel
  <1>2. /\ t # Idle /\ pc[Main] # "boot_create"
        /\ idle_thread = NULL => current # Idle
        /\ SchedTypeOK /\ IdleThere
    BY <1>1, RunnerFacts
  <1>3. /\ SchedTypeOK' /\ idle_thread' = idle_thread /\ IdleThere'
        /\ \A u \in Thread : status'[u] = "NONE" => status[u] = "NONE" \/ u = t
    BY <1>2, ScheduleTyped DEF ThreadExit, Status, SchedTypeOK, IdleThere
  <1>4. /\ pc' \in [Thread -> Label] /\ pc'[t] = "none"
        /\ \A u \in Thread \ {t} : pc'[u] = pc[u]
    BY DEF TypeOK, Label
  <1>5. TypeOK'
    BY <1>3, <1>4 DEF TypeOK, syncVars, tidVars
  <1>6. \A u \in Thread : CallOK(u)'
    BY <1>4 DEF CallOK, LockLabel, WaitLabel, CreateLabel
  <1>7. \A u \in Thread : Creating(u)' => Creating(u) /\ u # t
    BY <1>4 DEF Creating, LockLabel, CreateLabel
  <1>8. ChildOK'
    <2>1. \A u \in Thread : Creating(u) => peer[u] \in Thread /\ peer[u] # t
      BY CreatingFacts
    <2>2. \A u \in Thread : status'[u] = "NONE" => pc'[u] = "none"
      BY <1>3, <1>4 DEF ChildOK
    <2>3. peer' = peer
      OBVIOUS
    <2> HIDE DEF CallExit
    <2> QED BY <1>3, <1>4, <1>7, <2>1, <2>2, <2>3, ChildKept
  <1>9. BootOK'
    BY <1>2, <1>3, <1>4 DEF BootOK
  <1> QED BY <1>5, <1>6, <1>8, <1>9

\* The new creator's page was free, so it is nobody else's child.
LEMMA TypedThreadCreate ==
  ASSUME TypeInv, NEW t \in Thread, NEW u \in Thread, ThreadCreate(t, u)
  PROVE  TypeInv'
  <1> USE ThreadAssumption, SynchAssumption
      DEF TypeInv, ThreadCreate, At, Goto
  <1>1. Runner(t)
    BY DEF Runner, IdleLabel
  <1>2. /\ t # Idle /\ pc[Main] # "boot_create" /\ pc[u] = "none" /\ u # t
        /\ SchedTypeOK /\ IdleThere
    BY <1>1, RunnerFacts DEF ChildOK
  <1>3. /\ pc' \in [Thread -> Label] /\ pc'[t] = "create"
        /\ \A v \in Thread \ {t} : pc'[v] = pc[v] /\ peer'[v] = peer[v]
        /\ peer'[t] = u
        /\ \A v \in Thread \ {u} : status'[v] = status[v]
        /\ status'[u] = "BLOCKED"
    BY DEF TypeOK, Label, SchedTypeOK
  <1>4. TypeOK'
    BY <1>2, <1>3 DEF TypeOK, SchedTypeOK, Status, syncVars, tidVars
  <1>5. \A v \in Thread : CallOK(v)'
    BY <1>3 DEF CallOK, LockLabel, WaitLabel, CreateLabel, TypeOK
  <1>6. \A v \in Thread \ {t} : Creating(v)' => Creating(v) /\ peer[v] # u
    BY <1>3 DEF Creating, ChildOK
  <1>7. ChildOK'
    <2>1. \A v \in Thread : Creating(v) => peer[v] \in Thread /\ peer[v] # t
      BY CreatingFacts
    <2>2. \A v \in Thread : status'[v] = "NONE" => pc'[v] = "none"
      BY <1>2, <1>3 DEF ChildOK
    <2>3. ASSUME NEW v \in Thread, Creating(v)'
          PROVE  pc'[peer'[v]] = "none" /\ status'[peer'[v]] # "NONE"
      <3>1. CASE v = t
        BY <1>2, <1>3, <3>1
      <3>2. CASE v # t
        BY <1>3, <1>6, <2>1, <2>3, <3>2 DEF ChildOK
      <3> QED BY <3>1, <3>2
    <2>4. ASSUME NEW v \in Thread, NEW w \in Thread,
                 Creating(v)', Creating(w)', peer'[v] = peer'[w]
          PROVE  v = w
      BY <1>3, <1>6, <2>4 DEF ChildOK
    <2> QED BY <2>2, <2>3, <2>4 DEF ChildOK
  <1>8. BootOK'
    BY <1>2, <1>3 DEF BootOK, IdleThere
  <1> QED BY <1>4, <1>5, <1>7, <1>8

LEMMA TypedCreateUnblock ==
  ASSUME TypeInv, NEW t \in Thread, CreateUnblock(t)
  PROVE  TypeInv'
  <1> USE ThreadAssumption DEF TypeInv, CreateUnblock, At
  <1> DEFINE c == peer[t]
  <1>1. Runner(t)
    BY DEF Runner, IdleLabel
  <1>2. /\ t # Idle /\ pc[Main] # "boot_create"
        /\ SchedTypeOK /\ IdleThere /\ SemaTyped
    BY <1>1, RunnerFacts
  <1>3. Creating(t) /\ c \in Thread /\ pc[c] = "none" /\ c # t /\ c # Idle
    BY <1>2 DEF Creating, CreateLabel, CallOK, ChildOK, BootOK
  <1>4. SchedKept
    BY <1>2, <1>3, UnblockKeeps
  <1>5. /\ pc' \in [Thread -> Label] /\ pc'[t] = "run" /\ pc'[c] = "run"
        /\ \A u \in Thread \ {t, c} : pc'[u] = pc[u]
        /\ peer'[t] = NULL /\ \A u \in Thread \ {t} : peer'[u] = peer[u]
    BY <1>3 DEF TypeOK, Label
  <1>6. TypeOK'
    BY <1>2, <1>4, <1>5 DEF TypeOK, SchedKept, syncVars, tidVars
  <1>7. peer[c] = NULL
    BY <1>3 DEF CallOK, CreateLabel, LockLabel
  <1>8. \A u \in Thread : CallOK(u)'
    BY <1>3, <1>5, <1>7 DEF CallOK, LockLabel, WaitLabel, CreateLabel
  <1>9. \A u \in Thread : Creating(u)' =>
          Creating(u) /\ u # t /\ u # c /\ peer'[u] = peer[u] /\ peer[u] # c
    BY <1>3, <1>5 DEF Creating, LockLabel, CreateLabel, ChildOK
  <1>10. ChildOK'
    <2>1. \A u \in Thread : Creating(u) => peer[u] \in Thread /\ peer[u] # t
      BY CreatingFacts
    <2>2. \A u \in Thread : status'[u] = "NONE" => pc'[u] = "none"
      BY <1>3, <1>4, <1>5 DEF ChildOK, SchedKept, ThreadUnblock, SchedTypeOK, TypeOK
    <2> HIDE DEF CreateUnblock
    <2> QED BY <1>4, <1>5, <1>9, <2>1, <2>2, ChildKept DEF SchedKept
  <1>11. BootOK'
    BY <1>2, <1>3, <1>4, <1>5 DEF BootOK, SchedKept
  <1> QED BY <1>6, <1>8, <1>10, <1>11

\* A step by which the idle thread, known to the scheduler by the end of it,
\* moves on in its function.
LEMMA IdleStep ==
  ASSUME TypeInv, SchedTypeOK', SemaTyped', idle_thread' # NULL,
         \A u \in Thread : status'[u] = "NONE" => status[u] = "NONE",
         pc[Idle] # "none", pc[Main] # "boot_create",
         NEW label \in IdleLabel \ {"none"},
         pc' = [pc EXCEPT ![Idle] = label],
         UNCHANGED <<holder, cond_waiters, tidVars, arg, peer, held>>
  PROVE  TypeInv'
  <1> USE ThreadAssumption DEF TypeInv
  <1>1. /\ pc' \in [Thread -> Label] /\ pc'[Idle] = label
        /\ \A u \in Thread \ {Idle} : pc'[u] = pc[u]
    BY DEF TypeOK, Label, IdleLabel
  <1>2. TypeOK'
    BY <1>1 DEF TypeOK, SemaTyped, tidVars
  <1>3. pc[Idle] \in IdleLabel
    BY DEF BootOK
  <1>4. \A u \in Thread : CallOK(u)'
    BY <1>1, <1>3 DEF CallOK, LockLabel, WaitLabel, CreateLabel, IdleLabel
  <1>5. \A u \in Thread : Creating(u)' => Creating(u) /\ peer'[u] = peer[u]
    BY <1>1 DEF Creating, LockLabel, CreateLabel, IdleLabel
  <1>6. ChildOK'
    <2>1. \A u \in Thread : Creating(u) => peer[u] # Idle /\ peer[u] \in Thread
      BY CreatingFacts
    <2>2. \A u \in Thread : status'[u] = "NONE" => pc'[u] = "none"
      BY <1>1 DEF ChildOK
    <2> QED BY <1>1, <1>5, <2>1, <2>2, ChildKept
  <1>7. BootOK'
    BY <1>1 DEF BootOK, IdleThere
  <1> QED BY <1>2, <1>4, <1>6, <1>7

LEMMA IdleFacts ==
  ASSUME TypeInv, current = Idle, pc[Idle] \in {"idle_start", "idle_up", "idle_loop"}
  PROVE  /\ SchedTypeOK /\ SemaTyped /\ IdleThere
         /\ pc[Main] # "boot_create"
         /\ pc[Idle] # "idle_start" => idle_thread # NULL
  BY ThreadAssumption DEF TypeInv, TypeOK, SemaTyped, BootOK

LEMMA TypedIdle ==
  ASSUME TypeInv, IdleStart \/ IdleUp \/ IdleBlock
  PROVE  TypeInv'
  <1>1. CASE IdleStart
    <2>1. SchedTypeOK' /\ SemaTyped' /\ idle_thread' # NULL
      BY <1>1, IdleFacts, ThreadAssumption
         DEF IdleStart, At, SchedTypeOK, SemaTyped, syncVars
    <2> QED
      BY <1>1, <2>1, IdleFacts, IdleStep DEF IdleStart, At, Goto, IdleLabel, syncVars
  <1>2. CASE IdleUp
    <2>1. SchedKept /\ SemaTyped' /\ idle_thread' # NULL
      BY <1>2, IdleFacts, SemaUpKeeps, SynchAssumption
         DEF IdleUp, At, AnySema, SchedKept
    <2> QED
      BY <1>2, <2>1, IdleFacts, IdleStep
         DEF IdleUp, At, Goto, IdleLabel, SchedKept
  <1>3. CASE IdleBlock
    <2>1. SchedKept /\ SemaTyped' /\ idle_thread' # NULL
      BY <1>3, IdleFacts, BlockKeeps
         DEF IdleBlock, At, SchedKept, SemaTyped, syncVars
    <2> QED
      BY <1>3, <2>1, IdleFacts, IdleStep
         DEF IdleBlock, At, Goto, IdleLabel, SchedKept, syncVars
  <1> QED BY <1>1, <1>2, <1>3

\* The idle thread is created before there is anybody to disturb it.
LEMMA TypedBootCreateIdle ==
  ASSUME TypeInv, BootCreateIdle
  PROVE  TypeInv'
  <1> USE ThreadAssumption DEF TypeInv, BootCreateIdle, At
  <1>1. /\ pc' \in [Thread -> Label]
        /\ pc'[Main] = "boot_enable" /\ pc'[Idle] = "idle_start"
        /\ \A u \in Thread \ {Main, Idle} : pc'[u] = pc[u]
    BY DEF TypeOK, Label
  <1>2. /\ status' = [status EXCEPT ![Idle] = "READY"]
        /\ ready_list' = Append(ready_list, Idle)
        /\ UNCHANGED <<current, idle_thread, thread_ticks>>
    BY DEF ThreadUnblock
  <1>3. SchedTypeOK' /\ IdleThere'
    <2>1. ready_list' \in Seq(Thread) /\ Idle \in Elems(ready_list')
      BY <1>2, ElemsAppend DEF TypeOK, SchedTypeOK
    <2> QED BY <1>2, <2>1 DEF TypeOK, SchedTypeOK, Status, IdleThere
  <1>4. TypeOK'
    <2>1. tid' \in [Thread -> Nat] /\ next_tid' \in Nat
      BY DEF TypeOK
    <2> QED BY <1>1, <1>3, <2>1 DEF TypeOK, syncVars
  <1>5. pc[Main] = "boot_create" /\ pc[Idle] = "none"
    BY DEF BootOK, ChildOK
  <1>6. \A u \in Thread : CallOK(u)'
    BY <1>1, <1>5 DEF CallOK, LockLabel, WaitLabel, CreateLabel
  <1>7. \A u \in Thread : ~Creating(u)'
    BY <1>1 DEF BootOK, Creating, LockLabel, CreateLabel
  <1>8. ChildOK'
    BY <1>1, <1>2, <1>7 DEF ChildOK, TypeOK, SchedTypeOK
  <1>9. BootOK'
    BY <1>1, <1>3 DEF BootOK, IdleLabel
  <1> QED BY <1>4, <1>6, <1>8, <1>9

LEMMA TypedBootEnable ==
  ASSUME TypeInv, BootEnable
  PROVE  TypeInv'
  <1> USE ThreadAssumption DEF BootEnable, At, Goto
  <1>1. Runner(Main)
    BY DEF Runner, IdleLabel
  <1>2. CallOK(Main) /\ TypeOK
    BY DEF TypeInv
  <1>3. SchedKept /\ SemaTyped'
    BY <1>1, <1>2, RunnerSame DEF SemaTyped, TypeOK, syncVars
  <1>4. TypeOK'
    BY <1>2, <1>3 DEF TypeOK, SchedKept, SemaTyped, syncVars, tidVars, Label
  <1>5. CallOK(Main)' /\ ~Creating(Main)'
    BY <1>2 DEF CallOK, Creating, TypeOK, CreateLabel, LockLabel, WaitLabel
  <1> QED BY <1>1, <1>2, <1>3, <1>4, <1>5, OwnStep DEF Label

LEMMA TypedBootWait ==
  ASSUME TypeInv, BootWait
  PROVE  TypeInv'
  <1> USE ThreadAssumption, SynchAssumption DEF BootWait, At, Goto
  <1>1. Runner(Main)
    BY DEF Runner, IdleLabel
  <1>2. CallOK(Main) /\ TypeOK
    BY DEF TypeInv
  <1>3. SchedKept /\ SemaTyped'
    BY <1>1, RunnerDown DEF AnySema
  <1>4. PICK label \in {"run", "sema_down"} : pc' = [pc EXCEPT ![Main] = label]
    BY DEF SemaDown
  <1>5. label \in Label \ {"none", "boot_create"}
    BY DEF Label, DownLabel
  <1>6. pc'[Main] = label /\ pc' \in [Thread -> Label]
    BY <1>2, <1>4, <1>5 DEF TypeOK
  <1>7. arg' = [arg EXCEPT ![Main] = IF label = "run" THEN NULL ELSE IdleStarted]
    BY <1>6
  <1>8. TypeOK'
    BY <1>2, <1>3, <1>6, <1>7 DEF TypeOK, SchedKept, SemaTyped, tidVars
  <1>9. CallOK(Main)' /\ ~Creating(Main)'
    BY <1>2, <1>6, <1>7 DEF CallOK, Creating, TypeOK, CreateLabel, LockLabel, WaitLabel
  <1> QED BY <1>1, <1>2, <1>3, <1>4, <1>5, <1>7, <1>8, <1>9, OwnStep DEF TypeOK

-----------------------------------------------------------------------------
(* The invariant *)

LEMMA TypeInvInit == Init => TypeInv
  <1> SUFFICES ASSUME Init  PROVE TypeInv
    OBVIOUS
  <1> USE ThreadAssumption, SynchAssumption DEF Init, SchedInit
  <1>1. TypeOK
    BY DEF TypeOK, SchedTypeOK, Status, Label, DownLabel
  <1>2. \A t \in Thread : CallOK(t)
    BY DEF CallOK, LockLabel, WaitLabel, CreateLabel
  <1>3. \A t \in Thread : ~Creating(t)
    BY DEF Creating, LockLabel, CreateLabel
  <1>4. ChildOK
    BY <1>3 DEF ChildOK
  <1>5. BootOK
    BY <1>3 DEF BootOK, IdleLabel
  <1> QED BY <1>1, <1>2, <1>4, <1>5 DEF TypeInv

LEMMA TypeInvStutter == TypeInv /\ UNCHANGED vars => TypeInv'
  <1> SUFFICES ASSUME TypeInv, UNCHANGED vars  PROVE TypeInv'
    OBVIOUS
  <1> USE DEF vars, schedVars, syncVars, tidVars, callVars
  <1>1. TypeOK'
    BY DEF TypeInv, TypeOK, SchedTypeOK
  <1>2. \A t \in Thread : CallOK(t)'
    BY DEF TypeInv, CallOK
  <1>3. ChildOK'
    BY DEF TypeInv, ChildOK, Creating
  <1>4. BootOK'
    BY DEF TypeInv, BootOK, Creating, IdleThere
  <1> QED BY <1>1, <1>2, <1>3, <1>4 DEF TypeInv

LEMMA TypeInvStep == TypeInv /\ [Next]_vars => TypeInv'
  <1> SUFFICES ASSUME TypeInv, [Next]_vars  PROVE TypeInv'
    OBVIOUS
  <1>1. CASE TimerTick
    BY <1>1, TypedTimerTick
  <1>2. CASE \E s \in IntrSema : DeviceUp(s)
    BY <1>2, TypedDeviceUp
  <1>3. CASE BootStep
    BY <1>3, TypedBootCreateIdle, TypedBootEnable, TypedBootWait, TypedIdle
       DEF BootStep
  <1>4. ASSUME NEW t \in Thread, KernelStep(t)  PROVE TypeInv'
    BY <1>4, TypedSemaDownLoop, TypedLockSetHolder, TypedLockReleaseUp,
       TypedWaitClearHolder, TypedWaitUnlock, TypedWaitDown, TypedRelock,
       TypedSignalUp, TypedBroadcastNext, TypedBroadcastDone, TypedTidAcquire,
       TypedTidRead, TypedTidWrite, TypedTidRelease, TypedCreateUnblock
       DEF KernelStep
  <1>5. ASSUME NEW t \in Thread, Call(t)  PROVE TypeInv'
    BY <1>5, TypedCallSemaDown, TypedCallSemaTryDown, TypedCallSemaUp,
       TypedLockAcquire, TypedLockTryAcquire, TypedLockRelease, TypedCondWait,
       TypedCondSignal, TypedCondBroadcast, TypedThreadCreate, TypedCallYield,
       TypedCallExit
       DEF Call
  <1>6. CASE UNCHANGED vars
    BY <1>6, TypeInvStutter
  <1> QED BY <1>1, <1>2, <1>3, <1>4, <1>5, <1>6 DEF Next

\* The inductive invariant holds in every reachable state: no call ever
\* loses its semaphore, its lock or the thread it is creating, and there is
\* always a thread to switch to.
THEOREM TypeInvariant == Spec => []TypeInv
  BY TypeInvInit, TypeInvStep, PTL DEF Spec

\* Every variable of Synch keeps its type.
THEOREM TypeCorrect == Spec => []TypeOK
  <1>1. TypeInv => TypeOK
    BY DEF TypeInv
  <1> QED BY <1>1, TypeInvariant, PTL

-----------------------------------------------------------------------------
(* Locks *)

\* The labels at which a thread has the unit of the lock arg[t], and those
\* of them that lie between the two halves of an acquire or of a release.
TidLabel == {"tid", "tid_write", "tid_release"}
HalfLabel == {"lock_set", "relock_set", "lock_up", "wait_up"}
UnitLabel == HalfLabel \cup TidLabel

\* A thread does not rely on a lock that it is still taking or giving back.
OwnsOnce == \A t \in Thread : pc[t] \in HalfLabel => arg[t] \notin held[t]

LockInv == MutualExclusion /\ HolderIsRight /\ OwnsOnce

\* What a thread owns depends on its own call only.
LEMMA OwnsDef ==
  ASSUME NEW t \in Thread, NEW l \in Lock
  PROVE  Owns(t, l) <=> l \in held[t] \/ (arg[t] = l /\ pc[t] \in UnitLabel)
  BY DEF Owns, UnitLabel, HalfLabel, TidLabel

LEMMA OwnsDefPrime ==
  ASSUME NEW t \in Thread, NEW l \in Lock
  PROVE  Owns(t, l)' <=> l \in held'[t] \/ (arg'[t] = l /\ pc'[t] \in UnitLabel)
  BY DEF Owns, UnitLabel, HalfLabel, TidLabel

\* Whoever relies on a lock owns it.
LEMMA CriticalOwns ==
  ASSUME TypeInv, NEW t \in Thread, NEW l \in Lock, InCritical(t, l)
  PROVE  Owns(t, l)
  BY DEF TypeInv, CallOK, InCritical, Owns

\* u's call has not moved; or it moved where it makes no difference.
SameCall(u) == pc'[u] = pc[u] /\ arg'[u] = arg[u]
FarFromLocks(u) == pc[u] \notin UnitLabel /\ pc'[u] \notin UnitLabel
InsideTid(u) == arg'[u] = arg[u] /\ pc[u] \in TidLabel /\ pc'[u] \in TidLabel

LEMMA PlainStep ==
  ASSUME LockInv, UNCHANGED <<holder, held>>,
         \A l \in Lock : value'[l] = value[l],
         \A u \in Thread : SameCall(u) \/ FarFromLocks(u) \/ InsideTid(u)
  PROVE  LockInv'
  <1>1. \A u \in Thread, l \in Lock : Owns(u, l)' <=> Owns(u, l)
    BY OwnsDef, OwnsDefPrime DEF SameCall, FarFromLocks, InsideTid, UnitLabel
  <1>2. \A u \in Thread, l \in Lock : InCritical(u, l)' <=> InCritical(u, l)
    BY DEF InCritical, SameCall, FarFromLocks, InsideTid, UnitLabel, TidLabel
  <1>3. MutualExclusion'
    BY <1>1 DEF LockInv, MutualExclusion
  <1>4. HolderIsRight'
    BY <1>2 DEF LockInv, HolderIsRight
  <1>5. OwnsOnce'
    BY DEF LockInv, OwnsOnce, SameCall, FarFromLocks, InsideTid,
           UnitLabel, HalfLabel, TidLabel
  <1> QED BY <1>3, <1>4, <1>5 DEF LockInv

\* t takes the unit of l in sema_down().
LEMMA TakeStep ==
  ASSUME TypeInv, LockInv, NEW t \in Thread, NEW l \in Lock,
         value[l] > 0, value' = [value EXCEPT ![l] = @ - 1],
         pc[t] \notin UnitLabel, pc'[t] \in {"lock_set", "relock_set"},
         arg'[t] = l, \A u \in Thread \ {t} : SameCall(u),
         UNCHANGED <<holder, held>>
  PROVE  LockInv'
  <1>1. \A u \in Thread : ~Owns(u, l)
    BY DEF LockInv, MutualExclusion
  <1>2. \A u \in Thread, k \in Lock :
          Owns(u, k)' <=> Owns(u, k) \/ (u = t /\ k = l)
    <2>1. pc'[t] \in UnitLabel
      BY DEF UnitLabel, HalfLabel
    <2> QED BY <2>1, OwnsDef, OwnsDefPrime DEF SameCall
  <1>3. value[l] = 1 /\ value'[l] = 0 /\ \A k \in Lock \ {l} : value'[k] = value[k]
    BY <1>1 DEF LockInv, MutualExclusion, TypeInv, TypeOK, AnySema
  <1>4. MutualExclusion'
    <2>1. \A k \in Lock, u, v \in Thread : Owns(u, k)' /\ Owns(v, k)' => u = v
      BY <1>1, <1>2 DEF LockInv, MutualExclusion
    <2>2. ASSUME NEW k \in Lock
          PROVE  value'[k] = IF \E u \in Thread : Owns(u, k)' THEN 0 ELSE 1
      BY <1>2, <1>3 DEF LockInv, MutualExclusion
    <2> QED BY <2>1, <2>2 DEF MutualExclusion
  <1>5. HolderIsRight'
    <2>1. \A u \in Thread, k \in Lock : InCritical(u, k)' <=> InCritical(u, k)
      BY DEF InCritical, SameCall, UnitLabel, TidLabel
    <2> QED BY <2>1 DEF LockInv, HolderIsRight
  <1>6. OwnsOnce'
    <2>1. l \notin held[t]
      BY <1>1 DEF Owns
    <2> QED BY <2>1 DEF LockInv, OwnsOnce, SameCall
  <1> QED BY <1>4, <1>5, <1>6 DEF LockInv

\* t gives the unit of l back in sema_up().
LEMMA GiveStep ==
  ASSUME TypeInv, LockInv, NEW t \in Thread, NEW l \in Lock,
         pc[t] \in {"lock_up", "wait_up"}, arg[t] = l,
         value' = [value EXCEPT ![l] = @ + 1],
         pc'[t] \notin UnitLabel, \A u \in Thread \ {t} : SameCall(u),
         UNCHANGED <<holder, held>>
  PROVE  LockInv'
  <1>1. pc[t] \in HalfLabel /\ Owns(t, l) /\ l \notin held[t]
    BY DEF HalfLabel, Owns, LockInv, OwnsOnce
  <1>2. \A u \in Thread, k \in Lock :
          Owns(u, k)' <=> Owns(u, k) /\ ~(u = t /\ k = l)
    BY <1>1, OwnsDef, OwnsDefPrime DEF SameCall
  <1>3. \A u \in Thread : ~Owns(u, l)'
    BY <1>1, <1>2 DEF LockInv, MutualExclusion
  <1>4. value'[l] = 1 /\ \A k \in Lock \ {l} : value'[k] = value[k]
    <2>1. value[l] = 0
      BY <1>1 DEF LockInv, MutualExclusion
    <2>2. value \in [AnySema -> Nat] /\ Lock \subseteq AnySema
      BY DEF TypeInv, TypeOK, AnySema
    <2> QED BY <2>1, <2>2
  <1>5. MutualExclusion'
    <2>1. \A k \in Lock, u, v \in Thread : Owns(u, k)' /\ Owns(v, k)' => u = v
      BY <1>2 DEF LockInv, MutualExclusion
    <2>2. ASSUME NEW k \in Lock
          PROVE  value'[k] = IF \E u \in Thread : Owns(u, k)' THEN 0 ELSE 1
      BY <1>2, <1>3, <1>4 DEF LockInv, MutualExclusion
    <2> QED BY <2>1, <2>2 DEF MutualExclusion
  <1>6. HolderIsRight'
    <2>1. \A u \in Thread, k \in Lock : InCritical(u, k)' <=> InCritical(u, k)
      BY DEF InCritical, SameCall, UnitLabel, TidLabel
    <2> QED BY <2>1 DEF LockInv, HolderIsRight
  <1>7. OwnsOnce'
    BY DEF LockInv, OwnsOnce, SameCall, UnitLabel
  <1> QED BY <1>5, <1>6, <1>7 DEF LockInv

\* sema_down() and sema_up() by any thread.
LEMMA DownStep ==
  ASSUME TypeInv, LockInv, NEW t \in Thread, NEW s \in AnySema,
         NEW done, NEW asleep, SemaDown(t, s, done, asleep),
         pc[t] \notin UnitLabel, asleep \notin UnitLabel,
         s \in Lock => done \in {"lock_set", "relock_set"} /\ arg'[t] = s,
         s \notin Lock => done \notin UnitLabel,
         \A u \in Thread \ {t} : arg'[u] = arg[u],
         UNCHANGED <<holder, held>>
  PROVE  LockInv'
  <1>0. pc \in [Thread -> Label]
    BY DEF TypeInv, TypeOK
  <1>1. \A u \in Thread \ {t} : SameCall(u)
    BY <1>0 DEF SemaDown, Goto, SameCall
  <1>2. CASE s \in Lock /\ value[s] > 0 /\ Goto(t, done)
             /\ value' = [value EXCEPT ![s] = @ - 1]
    BY <1>0, <1>1, <1>2, TakeStep DEF Goto
  <1>3. CASE s \notin Lock /\ Goto(t, done) /\ value' = [value EXCEPT ![s] = @ - 1]
    <2>1. \A l \in Lock : value'[l] = value[l]
      BY <1>3 DEF TypeInv, TypeOK, AnySema
    <2> QED BY <1>0, <1>1, <1>3, <2>1, PlainStep DEF Goto, FarFromLocks
  <1>4. CASE Goto(t, asleep) /\ UNCHANGED value
    BY <1>0, <1>1, <1>4, PlainStep DEF Goto, FarFromLocks
  <1> QED BY <1>2, <1>3, <1>4 DEF SemaDown

\* lock->holder is stored once the unit is taken ...
LEMMA EnterStep ==
  ASSUME TypeInv, LockInv, NEW t \in Thread, LockSetHolder(t)
  PROVE  LockInv'
  <1> DEFINE l == arg[t]
  <1>1. /\ l \in Lock /\ TypeOK /\ pc[t] \in {"lock_set", "relock_set"}
        /\ peer[t] # NULL => l = TidLock
        /\ pc[t] = "relock_set" => peer[t] = NULL
        /\ peer[t] = NULL => l # TidLock
    BY DEF TypeInv, CallOK, LockSetHolder, LockLabel, WaitLabel, CreateLabel
  <1>2. holder' = [holder EXCEPT ![l] = t] /\ UNCHANGED value
        /\ \A u \in Thread \ {t} : SameCall(u) /\ held'[u] = held[u]
    BY <1>1 DEF LockSetHolder, Goto, SameCall, TypeOK
  <1>3. \/ held'[t] = held[t] \cup {l} /\ pc'[t] = "run" /\ l # TidLock
        \/ held'[t] = held[t] /\ pc'[t] = "tid" /\ arg'[t] = l /\ l = TidLock
    BY <1>1 DEF LockSetHolder, Goto, TypeOK
  <1>4. Owns(t, l) /\ l \notin held[t] /\ \A u \in Thread : ~InCritical(u, l)
    <2>1. Owns(t, l) /\ l \notin held[t]
      BY <1>1 DEF Owns, LockInv, OwnsOnce, HalfLabel
    <2>2. ~InCritical(t, l)
      BY <1>1, <2>1 DEF InCritical
    <2> QED BY <1>1, <2>1, <2>2, CriticalOwns DEF LockInv, MutualExclusion
  <1>5. \A u \in Thread, k \in Lock : Owns(u, k)' <=> Owns(u, k)
    BY <1>1, <1>2, <1>3, OwnsDef, OwnsDefPrime
       DEF SameCall, UnitLabel, HalfLabel, TidLabel
  <1>6. \A u \in Thread, k \in Lock :
          InCritical(u, k)' <=> InCritical(u, k) \/ (u = t /\ k = l)
    BY <1>1, <1>2, <1>3 DEF InCritical, SameCall
  <1>7. MutualExclusion'
    BY <1>2, <1>5 DEF LockInv, MutualExclusion
  <1>8. HolderIsRight'
    <2>1. holder'[l] = t /\ \A k \in Lock \ {l} : holder'[k] = holder[k]
      BY <1>1, <1>2 DEF TypeOK
    <2> QED BY <1>4, <1>6, <2>1 DEF LockInv, HolderIsRight
  <1>9. OwnsOnce'
    BY <1>2, <1>3 DEF LockInv, OwnsOnce, SameCall, HalfLabel
  <1> QED BY <1>7, <1>8, <1>9 DEF LockInv

\* ... and cleared before it is given back.
LEMMA LeaveStep ==
  ASSUME TypeInv, LockInv, NEW t \in Thread, NEW l \in Lock,
         InCritical(t, l), pc[t] \notin HalfLabel,
         pc[t] \in TidLabel => l = TidLock,
         NEW label \in {"lock_up", "wait_up"}, ClearHolder(t, l, label)
  PROVE  LockInv'
  <1>1. TypeOK /\ Owns(t, l) /\ TidLock \notin held[t]
        /\ (pc[t] \in TidLabel => arg[t] = TidLock)
    BY CriticalOwns DEF TypeInv, CallOK, TidLabel
  <1>2. /\ holder' = [holder EXCEPT ![l] = NULL] /\ UNCHANGED value
        /\ \A u \in Thread \ {t} : SameCall(u) /\ held'[u] = held[u]
        /\ held'[t] = held[t] \ {l} /\ pc'[t] = label /\ arg'[t] = l
    BY <1>1 DEF ClearHolder, Goto, SameCall, TypeOK
  <1>3. \A u \in Thread, k \in Lock : Owns(u, k)' <=> Owns(u, k)
    BY <1>1, <1>2, OwnsDef, OwnsDefPrime DEF SameCall, UnitLabel, HalfLabel
  <1>4. \A u \in Thread, k \in Lock :
          InCritical(u, k)' <=> InCritical(u, k) /\ ~(u = t /\ k = l)
    BY <1>1, <1>2 DEF InCritical, SameCall, TidLabel
  <1>5. MutualExclusion'
    BY <1>2, <1>3 DEF LockInv, MutualExclusion
  <1>6. HolderIsRight'
    <2>1. holder'[l] = NULL /\ \A k \in Lock \ {l} : holder'[k] = holder[k]
      BY <1>2 DEF TypeInv, TypeOK
    <2> QED BY <1>4, <2>1, ThreadAssumption DEF LockInv, HolderIsRight
  <1>7. OwnsOnce'
    BY <1>2 DEF LockInv, OwnsOnce, SameCall
  <1> QED BY <1>5, <1>6, <1>7 DEF LockInv

\* The steps in which only t's call moves, away from any lock.
LEMMA OtherStep ==
  ASSUME TypeInv, LockInv, NEW t \in Thread, NEW label \in Label \ UnitLabel,
         pc[t] \notin UnitLabel, pc' = [pc EXCEPT ![t] = label],
         \A u \in Thread \ {t} : arg'[u] = arg[u],
         \A l \in Lock : value'[l] = value[l],
         UNCHANGED <<holder, held>>
  PROVE  LockInv'
  <1>1. pc'[t] = label /\ \A u \in Thread \ {t} : SameCall(u)
    BY DEF SameCall, TypeInv, TypeOK
  <1> QED BY <1>1, PlainStep DEF FarFromLocks

LEMMA KernelStepLocks ==
  ASSUME TypeInv, LockInv, NEW t \in Thread, KernelStep(t)
  PROVE  LockInv'
  <1> USE SynchAssumption DEF UnitLabel, HalfLabel, TidLabel
  <1>1. CallOK(t) /\ TypeOK
    BY DEF TypeInv
  <1>2. CASE SemaDownLoop(t)
    <2>1. SemaOf(t) \in AnySema /\ SemaDown(t, SemaOf(t), DownThen(pc[t]), pc[t])
      BY <1>1, <1>2 DEF SemaDownLoop, SemaOf, AnySema, CallOK, TypeOK,
                        DownLabel, LockLabel, WaitLabel
    <2>2. /\ pc[t] \notin UnitLabel
          /\ SemaOf(t) \notin Lock => DownThen(pc[t]) \notin UnitLabel
      BY <1>1, <1>2 DEF SemaDownLoop, SemaOf, CallOK, DownLabel, DownThen,
                        LockLabel, WaitLabel
    <2>3. SemaOf(t) \in Lock => /\ DownThen(pc[t]) \in {"lock_set", "relock_set"}
                                /\ pc[t] # "run" /\ SemaOf(t) = arg[t]
      BY <1>1, <1>2 DEF SemaDownLoop, SemaOf, CallOK, DownLabel, DownThen,
                        LockLabel, WaitLabel
    <2>4. SemaOf(t) \in Lock => arg'[t] = arg[t]
      <3>1. SemaOf(t) \in Lock => pc'[t] # "run"
        BY <1>1, <2>1, <2>3 DEF SemaDown, Goto, TypeOK
      <3> QED BY <1>1, <1>2, <3>1 DEF SemaDownLoop, TypeOK
    <2>5. UNCHANGED <<holder, held>> /\ \A u \in Thread \ {t} : arg'[u] = arg[u]
      BY <1>1, <1>2 DEF SemaDownLoop, TypeOK
    <2> QED BY <2>1, <2>2, <2>3, <2>4, <2>5, DownStep
  <1>3. CASE LockSetHolder(t)
    BY <1>3, EnterStep
  <1>4. CASE LockReleaseUp(t)
    <2>1. pc[t] = "lock_up" /\ arg[t] \in Lock /\ t = current
      BY <1>1, <1>4 DEF LockReleaseUp, At, CallOK, LockLabel
    <2>2. pc'[t] \in {"run", "unblock"} /\ \A u \in Thread \ {t} : SameCall(u)
      BY <1>1, <1>4 DEF LockReleaseUp, Goto, SameCall, TypeOK
    <2> QED BY <1>4, <2>1, <2>2, GiveStep DEF LockReleaseUp, SemaUp
  <1>5. CASE WaitClearHolder(t)
    <2>1. arg[t] \in Lock /\ InCritical(t, arg[t]) /\ pc[t] = "wait_unlock"
      BY <1>1, <1>5 DEF WaitClearHolder, At, CallOK, WaitLabel, InCritical
    <2> QED BY <1>5, <2>1, LeaveStep DEF WaitClearHolder
  <1>6. CASE WaitUnlock(t)
    <2>1. pc[t] = "wait_up" /\ arg[t] \in Lock
      BY <1>1, <1>6 DEF WaitUnlock, At, CallOK, WaitLabel
    <2>2. pc'[t] = "wait_call" /\ \A u \in Thread \ {t} : SameCall(u)
      BY <1>1, <1>6 DEF WaitUnlock, Goto, SameCall, TypeOK
    <2> QED BY <1>6, <2>1, <2>2, GiveStep DEF WaitUnlock, SemaUp
  <1>7. CASE WaitDown(t)
    BY <1>7, DownStep DEF WaitDown, At, AnySema
  <1>8. CASE Relock(t)
    BY <1>1, <1>8, DownStep DEF Relock, At, AnySema, CallOK, WaitLabel
  <1>9. CASE SignalUp(t)
    <2>1. \A l \in Lock : value'[l] = value[l]
      BY <1>1, <1>9 DEF SignalUp, SemaUp, TypeOK, AnySema, CallOK, CreateLabel
    <2> QED BY <1>9, <2>1, OtherStep DEF SignalUp, Goto, Label
  <1>10. CASE BroadcastNext(t)
    BY <1>1, <1>10, OtherStep DEF BroadcastNext, PopWaiter, At, Goto, Label
  <1>11. CASE BroadcastDone(t)
    BY <1>1, <1>11, OtherStep DEF BroadcastDone, At, Goto, Label, TypeOK, syncVars
  <1>12. CASE TidAcquire(t)
    BY <1>1, <1>12, DownStep DEF TidAcquire, At, AnySema, CallOK
  <1>13. CASE TidRead(t) \/ TidWrite(t)
    <2>1. /\ UNCHANGED <<value, holder, held>>
          /\ \A u \in Thread : SameCall(u) \/ InsideTid(u)
      BY <1>1, <1>13 DEF TidRead, TidWrite, At, Goto, SameCall, InsideTid,
                        TypeOK, syncVars
    <2> QED BY <2>1, PlainStep
  <1>14. CASE TidRelease(t)
    BY <1>14, LeaveStep DEF TidRelease, At, InCritical
  <1>15. CASE CreateUnblock(t)
    <2>1. peer[t] \in Thread /\ pc[peer[t]] = "none"
      BY <1>15, CreatingFacts DEF CreateUnblock, At, Creating, CreateLabel
    <2>2. \A u \in Thread : SameCall(u) \/ FarFromLocks(u)
      BY <1>1, <1>15, <2>1 DEF CreateUnblock, At, SameCall, FarFromLocks, TypeOK
    <2> QED BY <1>15, <2>2, PlainStep DEF CreateUnblock, syncVars
  <1> QED
    BY <1>2, <1>3, <1>4, <1>5, <1>6, <1>7, <1>8, <1>9, <1>10, <1>11, <1>12,
       <1>13, <1>14, <1>15 DEF KernelStep

LEMMA CallLocks ==
  ASSUME TypeInv, LockInv, NEW t \in Thread, Call(t)
  PROVE  LockInv'
  <1> USE SynchAssumption DEF At, UnitLabel, HalfLabel, TidLabel
  <1>1. CallOK(t) /\ TypeOK
    BY DEF TypeInv
  <1>2. ASSUME NEW s \in Sema \ {IdleStarted}, CallSemaDown(t, s)  PROVE LockInv'
    BY <1>1, <1>2, DownStep DEF CallSemaDown, AnySema, TypeOK
  <1>3. ASSUME NEW s \in Sema \ {IdleStarted},
               CallSemaTryDown(t, s) \/ CallSemaUp(t, s)
        PROVE  LockInv'
    <2>1. \A l \in Lock : value'[l] = value[l]
      BY <1>1, <1>3 DEF CallSemaTryDown, CallSemaUp, SemaUp, TypeOK, AnySema
    <2> QED BY <1>3, <2>1, PlainStep DEF CallSemaTryDown, CallSemaUp, callVars, SameCall
  <1>4. ASSUME NEW l \in Lock \ {TidLock}, LockAcquire(t, l)  PROVE LockInv'
    BY <1>1, <1>4, DownStep DEF LockAcquire, AnySema, TypeOK
  <1>5. ASSUME NEW l \in Lock \ {TidLock}, LockTryAcquire(t, l)  PROVE LockInv'
    <2>1. pc'[t] = "lock_set" /\ arg'[t] = l /\ \A u \in Thread \ {t} : SameCall(u)
      BY <1>1, <1>5 DEF LockTryAcquire, Goto, SameCall, TypeOK
    <2> QED BY <1>5, <2>1, TakeStep DEF LockTryAcquire
  <1>6. ASSUME NEW l \in Lock \ {TidLock}, LockRelease(t, l)  PROVE LockInv'
    BY <1>6, LeaveStep DEF LockRelease, InCritical
  <1>7. ASSUME NEW c \in Cond, CondWait(t, c)  PROVE LockInv'
    <2>1. \A l \in Lock : value'[l] = value[l]
      BY <1>1, <1>7 DEF CondWait, TypeOK, AnySema
    <2>2. \A u \in Thread \ {t} : arg'[u] = arg[u]
      BY <1>1, <1>7 DEF CondWait, TypeOK
    <2> QED BY <1>7, <2>1, <2>2, OtherStep DEF CondWait, Goto, Label
  <1>8. ASSUME NEW c \in Cond, CondSignal(t, c) \/ CondBroadcast(t, c)
        PROVE  LockInv'
    <2>1. CASE CondSignal(t, c)
      BY <2>1, OtherStep DEF CondSignal, PopWaiter, Goto, Label
    <2>2. CASE CondBroadcast(t, c)
      <3>1. \A u \in Thread \ {t} : arg'[u] = arg[u]
        BY <1>1, <2>2 DEF CondBroadcast, TypeOK
      <3> QED BY <2>2, <3>1, OtherStep DEF CondBroadcast, Goto, Label, syncVars
    <2> QED BY <1>8, <2>1, <2>2
  <1>9. ASSUME NEW u \in Thread, ThreadCreate(t, u)  PROVE LockInv'
    BY <1>1, <1>9, OtherStep DEF ThreadCreate, Goto, Label, TypeOK, syncVars
  <1>10. CASE CallYield(t)
    BY <1>10, PlainStep DEF CallYield, syncVars, callVars, SameCall
  <1>11. CASE CallExit(t)
    BY <1>1, <1>11, OtherStep DEF CallExit, Goto, Label, syncVars
  <1> QED
    BY <1>2, <1>3, <1>4, <1>5, <1>6, <1>7, <1>8, <1>9, <1>10, <1>11 DEF Call

\* Interrupts and boot take no part in any lock.
LEMMA OutsideLocks ==
  ASSUME TypeInv, LockInv,
         TimerTick \/ (\E s \in IntrSema : DeviceUp(s)) \/ BootStep
  PROVE  LockInv'
  <1> USE SynchAssumption, ThreadAssumption DEF At, Goto
  <1>1. TypeOK /\ pc[Idle] \notin UnitLabel
    BY DEF TypeInv, BootOK, IdleLabel, UnitLabel, HalfLabel, TidLabel
  <1>2. \A l \in Lock : value'[l] = value[l]
    BY <1>1 DEF TimerTick, DeviceUp, BootStep, BootCreateIdle, BootEnable,
                BootWait, IdleStart, IdleUp, IdleBlock, SemaDown, SemaUp,
                TypeOK, AnySema, syncVars
  <1>3. UNCHANGED <<holder, held>>
    BY DEF TimerTick, DeviceUp, BootStep, BootCreateIdle, BootEnable,
           BootWait, IdleStart, IdleUp, IdleBlock, syncVars
  <1>4. \A u \in Thread : SameCall(u) \/ FarFromLocks(u)
    <2> USE DEF SameCall, FarFromLocks, UnitLabel, HalfLabel, TidLabel
    <2>1. CASE TimerTick \/ \E s \in IntrSema : DeviceUp(s)
      BY <1>1, <2>1 DEF TimerTick, DeviceUp, AwakenIdle, TypeOK
    <2>2. CASE BootCreateIdle
      <3>1. /\ pc \in [Thread -> Label] /\ arg' = arg /\ pc[Main] = "boot_create"
            /\ pc' = [pc EXCEPT ![Main] = "boot_enable", ![Idle] = "idle_start"]
        BY <1>1, <2>2 DEF BootCreateIdle, TypeOK
      <3> QED BY <1>1, <3>1
    <2>3. CASE BootEnable
      BY <1>1, <2>3 DEF BootEnable, TypeOK
    <2>4. CASE BootWait
      BY <1>1, <2>4 DEF BootWait, SemaDown, TypeOK
    <2>5. CASE IdleStart \/ IdleUp \/ IdleBlock
      BY <1>1, <2>5 DEF IdleStart, IdleUp, IdleBlock, TypeOK
    <2> QED BY <2>1, <2>2, <2>3, <2>4, <2>5 DEF BootStep
  <1> QED BY <1>2, <1>3, <1>4, PlainStep

LEMMA LockInvInit == Init => LockInv
  <1> SUFFICES ASSUME Init  PROVE LockInv
    OBVIOUS
  <1> USE ThreadAssumption, SynchAssumption DEF Init
  <1>1. \A t \in Thread, l \in Lock : ~Owns(t, l) /\ ~InCritical(t, l)
    BY DEF Owns, InCritical
  <1>2. MutualExclusion
    BY <1>1 DEF MutualExclusion, AnySema
  <1>3. HolderIsRight
    BY <1>1 DEF HolderIsRight
  <1>4. OwnsOnce
    BY DEF OwnsOnce
  <1> QED BY <1>2, <1>3, <1>4 DEF LockInv

LEMMA LockInvStep == TypeInv /\ LockInv /\ [Next]_vars => LockInv'
  <1> SUFFICES ASSUME TypeInv, LockInv, [Next]_vars  PROVE LockInv'
    OBVIOUS
  <1>1. CASE Next
    BY <1>1, OutsideLocks, KernelStepLocks, CallLocks DEF Next
  <1>2. CASE UNCHANGED vars
    BY <1>2, PlainStep DEF vars, syncVars, callVars, SameCall
  <1> QED BY <1>1, <1>2

\* A lock never has two owners, and its semaphore says whether it has one,
\* whatever point of lock_acquire(), lock_release() or cond_wait() is
\* interrupted and however many threads there are.
THEOREM LocksExclude == Spec => []MutualExclusion
  <1>1. LockInv => MutualExclusion
    BY DEF LockInv
  <1> QED
    BY <1>1, LockInvInit, LockInvStep, TypeInvariant, PTL DEF Spec

\* The assertions of lock_release(), cond_wait() and cond_signal() about
\* lock->holder never fail in a thread that relies on the lock, and never
\* pass in one that does not.
THEOREM HolderCorrect == Spec => []HolderIsRight
  <1>1. LockInv => HolderIsRight
    BY DEF LockInv
  <1> QED
    BY <1>1, LockInvInit, LockInvStep, TypeInvariant, PTL DEF Spec

-----------------------------------------------------------------------------
(* Identifiers *)

\* t is past the increment of next_tid in thread_create().
HasNumber(t) ==
    \/ pc[t] \in {"tid_release", "unblock"}
    \/ pc[t] = "lock_up" /\ peer[t] # NULL

\* u has an identifier that must stay its own: it runs, or soon will.
Numbered(u) ==
    \/ pc[u] # "none"
    \/ \E t \in Thread : HasNumber(t) /\ peer[t] = u

(***************************************************************************)
(* Why UniqueTid is kept: every identifier in use is below next_tid.  A    *)
(* creator between its read and its write of next_tid has read the value   *)
(* that is still there, since tid_lock keeps the others out.               *)
(***************************************************************************)
TidInv ==
    /\ \A u \in Thread : Numbered(u) => tid[u] < next_tid
    /\ \A u, v \in Thread :
          Numbered(u) /\ Numbered(v) /\ tid[u] = tid[v] => u = v
    /\ \A t \in Thread : pc[t] = "tid_write" => tid[peer[t]] = next_tid

\* A step that numbers nobody and does not enter the critical section.
LEMMA TidKept ==
  ASSUME TidInv, UNCHANGED tidVars,
         \A u \in Thread : pc'[u] # "none" => Numbered(u),
         \A t \in Thread : HasNumber(t)' => HasNumber(t) /\ peer'[t] = peer[t],
         \A t \in Thread :
            pc'[t] = "tid_write" => pc[t] = "tid_write" /\ peer'[t] = peer[t]
  PROVE  TidInv'
  <1>1. \A u \in Thread : Numbered(u)' => Numbered(u)
    BY DEF Numbered
  <1> QED BY <1>1 DEF TidInv, tidVars

\* The same when only the call of t moves.
LEMMA TidKeptOwn ==
  ASSUME TypeInv, TidInv, UNCHANGED tidVars, NEW t \in Thread, pc[t] # "none",
         \A u \in Thread \ {t} : pc'[u] = pc[u] /\ peer'[u] = peer[u],
         HasNumber(t)' => HasNumber(t) /\ peer'[t] = peer[t],
         pc'[t] # "tid_write"
  PROVE  TidInv'
  <1>1. \A u \in Thread : HasNumber(u)' => HasNumber(u) /\ peer'[u] = peer[u]
    BY DEF HasNumber
  <1>2. \A u \in Thread : pc'[u] # "none" => Numbered(u)
    BY DEF Numbered
  <1> QED BY <1>1, <1>2, TidKept

\* sema_down() anywhere.
LEMMA TidDown ==
  ASSUME TypeInv, TidInv, UNCHANGED tidVars, NEW t \in Thread, pc[t] # "none",
         NEW s, NEW done, NEW asleep, SemaDown(t, s, done, asleep), peer' = peer,
         {done, asleep} \cap {"tid_write", "tid_release", "unblock", "lock_up"} = {}
  PROVE  TidInv'
  <1>1. pc \in [Thread -> Label]
    BY DEF TypeInv, TypeOK
  <1>2. /\ pc'[t] \in {done, asleep}
        /\ \A u \in Thread \ {t} : pc'[u] = pc[u]
    BY <1>1 DEF SemaDown, Goto
  <1> QED BY <1>2, TidKeptOwn DEF HasNumber

\* The read and the write of next_tid.
LEMMA TidReadKeeps ==
  ASSUME TypeInv, TidInv, NEW t \in Thread, TidRead(t)
  PROVE  TidInv'
  <1> DEFINE c == peer[t]
  <1>1. /\ TypeOK /\ pc[t] = "tid" /\ c \in Thread
    BY DEF TypeInv, CallOK, TidRead, At, CreateLabel
  <1>2. /\ pc' = [pc EXCEPT ![t] = "tid_write"] /\ peer' = peer
        /\ next_tid' = next_tid /\ tid' = [tid EXCEPT ![c] = next_tid]
    BY DEF TidRead, Goto
  <1>3. Creating(t) /\ pc[c] = "none"
    BY <1>1 DEF Creating, CreateLabel, TypeInv, ChildOK
  <1>4. ~Numbered(c) /\ \A u \in Thread : peer[u] = c /\ pc[u] = "tid_write" => u = t
    BY <1>1, <1>3 DEF Numbered, HasNumber, TypeInv, ChildOK, Creating,
                      CreateLabel, LockLabel
  <1>5. \A u \in Thread : Numbered(u)' => Numbered(u)
    BY <1>1, <1>2 DEF Numbered, HasNumber, TypeOK
  <1>6. tid'[c] = next_tid /\ \A u \in Thread \ {c} : tid'[u] = tid[u]
    BY <1>1, <1>2 DEF TypeOK
  <1> HIDE DEF c
  <1>7. \A u \in Thread : Numbered(u)' => Numbered(u) /\ tid'[u] = tid[u]
    BY <1>4, <1>5, <1>6
  <1>8. \A u \in Thread : pc'[u] = "tid_write" => tid'[peer'[u]] = next_tid'
    <2>1. \A u \in Thread \ {t} : pc'[u] = pc[u]
      BY <1>1, <1>2 DEF TypeOK
    <2>2. \A u \in Thread : pc[u] = "tid_write" => peer[u] \in Thread
      BY DEF TypeInv, CallOK, CreateLabel
    <2> QED BY <1>2, <1>6, <2>1, <2>2 DEF TidInv, c
  <1> QED BY <1>2, <1>7, <1>8 DEF TidInv

LEMMA TidWriteKeeps ==
  ASSUME TypeInv, LockInv, TidInv, NEW t \in Thread, TidWrite(t)
  PROVE  TidInv'
  <1> DEFINE c == peer[t]
  <1>1. /\ TypeOK /\ pc[t] = "tid_write" /\ c \in Thread
    BY DEF TypeInv, CallOK, TidWrite, At, CreateLabel
  <1>2. tid[c] = next_tid /\ next_tid' = next_tid + 1
    BY <1>1 DEF TidInv, TidWrite
  <1>3. /\ pc' = [pc EXCEPT ![t] = "tid_release"] /\ peer' = peer /\ tid' = tid
    BY DEF TidWrite, Goto
  <1> HIDE DEF c
  <1>4. \A u \in Thread : pc[u] = "tid_write" => u = t
    <2>1. \A u \in Thread : pc[u] = "tid_write" => Owns(u, TidLock)
      BY DEF TypeInv, CallOK, Owns
    <2> QED BY <1>1, <2>1, SynchAssumption DEF LockInv, MutualExclusion
  <1>5. pc'[t] = "tid_release" /\ \A u \in Thread \ {t} : pc'[u] = pc[u]
    BY <1>1, <1>3 DEF TypeOK
  <1>6. \A u \in Thread : Numbered(u)' => Numbered(u) \/ u = c
    BY <1>1, <1>3, <1>5 DEF Numbered, HasNumber, c
  <1>7. tid \in [Thread -> Nat] /\ next_tid \in Nat
    BY <1>1 DEF TypeOK
  <1>8. \A u \in Thread : Numbered(u)' => tid'[u] < next_tid'
    BY <1>2, <1>3, <1>6, <1>7 DEF TidInv
  <1>9. ASSUME NEW u \in Thread, NEW v \in Thread,
               Numbered(u)', Numbered(v)', tid'[u] = tid'[v]
        PROVE  u = v
    <2>1. Numbered(u) => tid[u] < next_tid
      BY DEF TidInv
    <2>2. Numbered(v) => tid[v] < next_tid
      BY DEF TidInv
    <2>3. tid[u] \in Nat /\ tid[v] \in Nat /\ tid[u] = tid[v]
      BY <1>3, <1>7, <1>9
    <2> QED BY <1>2, <1>6, <1>7, <1>9, <2>1, <2>2, <2>3 DEF TidInv
  <1>10. \A u \in Thread : pc'[u] # "tid_write"
    BY <1>4, <1>5
  <1> QED BY <1>8, <1>9, <1>10 DEF TidInv

LEMMA CreateUnblockTids ==
  ASSUME TypeInv, TidInv, NEW t \in Thread, CreateUnblock(t)
  PROVE  TidInv'
  <1>1. /\ TypeOK /\ pc[t] = "unblock" /\ peer[t] \in Thread
    BY DEF TypeInv, CallOK, CreateUnblock, At, CreateLabel
  <1>2. Numbered(t) /\ Numbered(peer[t])
    BY <1>1 DEF Numbered, HasNumber
  <1>3. /\ pc' = [pc EXCEPT ![t] = "run", ![peer[t]] = "run"]
        /\ peer' = [peer EXCEPT ![t] = NULL] /\ UNCHANGED tidVars
    BY DEF CreateUnblock
  <1>4. \A u \in Thread : pc'[u] = pc[u] \/ (pc'[u] = "run" /\ Numbered(u))
    BY <1>1, <1>2, <1>3 DEF TypeOK
  <1>5. \A u \in Thread \ {t} : peer'[u] = peer[u]
    BY <1>1, <1>3 DEF TypeOK
  <1>6. pc'[t] = "run"
    BY <1>1, <1>3 DEF TypeOK
  <1>7. \A u \in Thread : pc'[u] # "none" => Numbered(u)
    BY <1>4 DEF Numbered
  <1>8. \A u \in Thread : HasNumber(u)' => HasNumber(u) /\ peer'[u] = peer[u]
    BY <1>4, <1>5, <1>6 DEF HasNumber
  <1>9. \A u \in Thread :
          pc'[u] = "tid_write" => pc[u] = "tid_write" /\ peer'[u] = peer[u]
    BY <1>4, <1>5, <1>6
  <1> QED BY <1>3, <1>7, <1>8, <1>9, TidKept

LEMMA KernelStepTids ==
  ASSUME TypeInv, LockInv, TidInv, NEW t \in Thread, KernelStep(t)
  PROVE  TidInv'
  <1> USE DEF At, Goto
  <1>1. TypeOK /\ CallOK(t)
    BY DEF TypeInv
  <1>2. CASE SemaDownLoop(t)
    <2>1. /\ pc[t] \in DownLabel
          /\ SemaDown(t, SemaOf(t), DownThen(pc[t]), pc[t])
          /\ UNCHANGED tidVars /\ peer' = peer
      BY <1>2 DEF SemaDownLoop, SemaOf
    <2>2. DownThen(pc[t]) \notin {"tid_write", "tid_release", "unblock", "lock_up"}
      BY <2>1 DEF DownLabel, DownThen
    <2> QED BY <2>1, <2>2, TidDown DEF DownLabel
  <1>3. CASE LockSetHolder(t)
    BY <1>1, <1>3, TidKeptOwn DEF LockSetHolder, HasNumber, TypeOK
  <1>4. CASE LockReleaseUp(t)
    BY <1>1, <1>4, TidKeptOwn DEF LockReleaseUp, HasNumber, TypeOK
  <1>5. CASE WaitClearHolder(t)
    BY <1>1, <1>5, TidKeptOwn DEF WaitClearHolder, ClearHolder, HasNumber, TypeOK
  <1>6. CASE WaitUnlock(t)
    BY <1>1, <1>6, TidKeptOwn DEF WaitUnlock, HasNumber, TypeOK
  <1>7. CASE WaitDown(t)
    BY <1>7, TidDown DEF WaitDown
  <1>8. CASE Relock(t)
    BY <1>8, TidDown DEF Relock
  <1>9. CASE SignalUp(t)
    BY <1>1, <1>9, TidKeptOwn DEF SignalUp, HasNumber, TypeOK
  <1>10. CASE BroadcastNext(t)
    BY <1>1, <1>10, TidKeptOwn DEF BroadcastNext, PopWaiter, HasNumber, TypeOK
  <1>11. CASE BroadcastDone(t)
    BY <1>1, <1>11, TidKeptOwn DEF BroadcastDone, HasNumber, TypeOK
  <1>12. CASE TidAcquire(t)
    BY <1>12, TidDown DEF TidAcquire
  <1>13. CASE TidRead(t)
    BY <1>13, TidReadKeeps
  <1>14. CASE TidWrite(t)
    BY <1>14, TidWriteKeeps
  <1>15. CASE TidRelease(t)
    BY <1>1, <1>15, TidKeptOwn DEF TidRelease, ClearHolder, HasNumber, TypeOK
  <1>16. CASE CreateUnblock(t)
    BY <1>16, CreateUnblockTids
  <1> QED
    BY <1>2, <1>3, <1>4, <1>5, <1>6, <1>7, <1>8, <1>9, <1>10, <1>11, <1>12,
       <1>13, <1>14, <1>15, <1>16 DEF KernelStep

LEMMA CallTids ==
  ASSUME TypeInv, TidInv, NEW t \in Thread, Call(t)
  PROVE  TidInv'
  <1> USE DEF At, Goto
  <1>1. TypeOK
    BY DEF TypeInv
  <1>2. ASSUME NEW s \in Sema, CallSemaDown(t, s)  PROVE TidInv'
    BY <1>2, TidDown DEF CallSemaDown
  <1>3. ASSUME NEW s \in Sema, CallSemaTryDown(t, s) \/ CallSemaUp(t, s)
        PROVE  TidInv'
    BY <1>3, TidKeptOwn DEF CallSemaTryDown, CallSemaUp, callVars, HasNumber
  <1>4. ASSUME NEW l \in Lock, LockAcquire(t, l)  PROVE TidInv'
    BY <1>4, TidDown DEF LockAcquire
  <1>5. ASSUME NEW l \in Lock, LockTryAcquire(t, l)  PROVE TidInv'
    BY <1>1, <1>5, TidKeptOwn DEF LockTryAcquire, HasNumber, TypeOK
  <1>6. ASSUME NEW l \in Lock, LockRelease(t, l)  PROVE TidInv'
    <2>1. peer[t] = NULL /\ peer' = peer
      BY <1>6 DEF LockRelease, ClearHolder, TypeInv, CallOK, CreateLabel, LockLabel
    <2> QED
      BY <1>1, <1>6, <2>1, TidKeptOwn DEF LockRelease, ClearHolder, HasNumber, TypeOK
  <1>7. ASSUME NEW c \in Cond, CondWait(t, c) \/ CondSignal(t, c) \/ CondBroadcast(t, c)
        PROVE  TidInv'
    BY <1>1, <1>7, TidKeptOwn
       DEF CondWait, CondSignal, PopWaiter, CondBroadcast, HasNumber, TypeOK
  <1>8. ASSUME NEW u \in Thread, ThreadCreate(t, u)  PROVE TidInv'
    BY <1>1, <1>8, TidKeptOwn DEF ThreadCreate, HasNumber, TypeOK
  <1>9. CASE CallYield(t)
    BY <1>9, TidKeptOwn DEF CallYield, callVars, HasNumber
  <1>10. CASE CallExit(t)
    BY <1>1, <1>10, TidKeptOwn DEF CallExit, HasNumber, TypeOK
  <1> QED
    BY <1>2, <1>3, <1>4, <1>5, <1>6, <1>7, <1>8, <1>9, <1>10 DEF Call

LEMMA OutsideTids ==
  ASSUME TypeInv, TidInv,
         TimerTick \/ (\E s \in IntrSema : DeviceUp(s)) \/ BootStep
  PROVE  TidInv'
  <1> USE ThreadAssumption DEF At, Goto
  <1>1. TypeOK
    BY DEF TypeInv
  <1>2. CASE TimerTick \/ \E s \in IntrSema : DeviceUp(s)
    <2>1. /\ pc' = AwakenIdle(pc) /\ peer' = peer /\ UNCHANGED tidVars
      BY <1>2 DEF TimerTick, DeviceUp
    <2>2. \A u \in Thread : \/ pc'[u] = pc[u]
                            \/ pc[u] = "idle_hlt" /\ pc'[u] = "idle_loop"
      BY <1>1, <2>1 DEF AwakenIdle, TypeOK
    <2>3. \A u \in Thread : HasNumber(u)' => HasNumber(u) /\ peer'[u] = peer[u]
      BY <2>1, <2>2 DEF HasNumber
    <2>4. \A u \in Thread : pc'[u] # "none" => Numbered(u)
      BY <2>2 DEF Numbered
    <2> QED BY <2>1, <2>2, <2>3, <2>4, TidKept
  <1>3. CASE BootCreateIdle
    <2>1. /\ pc' = [pc EXCEPT ![Main] = "boot_enable", ![Idle] = "idle_start"]
          /\ peer' = peer /\ next_tid' = next_tid + 1
          /\ tid' = [tid EXCEPT ![Idle] = next_tid]
          /\ pc[Main] = "boot_create"
      BY <1>3 DEF BootCreateIdle
    <2>2. \A u \in Thread : ~Creating(u) /\ pc[Idle] = "none"
      BY <2>1 DEF TypeInv, BootOK, ChildOK
    <2>3. /\ \A u \in Thread \ {Main, Idle} : pc'[u] = pc[u]
          /\ pc'[Main] = "boot_enable" /\ pc'[Idle] = "idle_start"
          /\ \A u \in Thread \ {Idle} : tid'[u] = tid[u]
          /\ tid'[Idle] = next_tid
          /\ tid \in [Thread -> Nat] /\ next_tid \in Nat
      BY <1>1, <2>1 DEF TypeOK
    <2>4. \A u \in Thread : ~HasNumber(u)' /\ pc'[u] # "tid_write"
      BY <2>1, <2>2, <2>3 DEF HasNumber, Creating, CreateLabel, LockLabel
    <2>5. \A u \in Thread : Numbered(u)' => u = Idle \/ Numbered(u)
      BY <2>1, <2>3, <2>4 DEF Numbered
    <2>6. \A u \in Thread : Numbered(u)' => tid'[u] < next_tid'
      BY <2>1, <2>3, <2>5 DEF TidInv
    <2>7. ASSUME NEW u \in Thread, NEW v \in Thread,
                 Numbered(u)', Numbered(v)', tid'[u] = tid'[v]
          PROVE  u = v
      <3>1. Numbered(u) => tid[u] < next_tid
        BY DEF TidInv
      <3>2. Numbered(v) => tid[v] < next_tid
        BY DEF TidInv
      <3>3. tid[u] \in Nat /\ tid[v] \in Nat
        BY <2>3
      <3>4. Numbered(u) /\ Numbered(v) /\ tid[u] = tid[v] => u = v
        BY DEF TidInv
      <3> QED BY <2>3, <2>5, <2>7, <3>1, <3>2, <3>3, <3>4
    <2> QED BY <2>4, <2>6, <2>7 DEF TidInv
  <1>4. CASE BootEnable
    BY <1>1, <1>4, TidKeptOwn DEF BootEnable, HasNumber, TypeOK
  <1>5. CASE BootWait
    BY <1>5, TidDown DEF BootWait
  <1>6. CASE IdleStart
    BY <1>1, <1>6, TidKeptOwn DEF IdleStart, HasNumber, TypeOK
  <1>7. CASE IdleUp
    BY <1>1, <1>7, TidKeptOwn DEF IdleUp, HasNumber, TypeOK
  <1>8. CASE IdleBlock
    BY <1>1, <1>8, TidKeptOwn DEF IdleBlock, HasNumber, TypeOK
  <1> QED BY <1>2, <1>3, <1>4, <1>5, <1>6, <1>7, <1>8 DEF BootStep

LEMMA TidInvInit == Init => TidInv
  <1> SUFFICES ASSUME Init  PROVE TidInv
    OBVIOUS
  <1> USE ThreadAssumption DEF Init
  <1>1. \A t \in Thread : ~HasNumber(t)
    BY DEF HasNumber
  <1>2. \A t \in Thread : Numbered(t) => t = Main
    BY <1>1 DEF Numbered
  <1> QED BY <1>2 DEF TidInv

LEMMA TidInvStep == TypeInv /\ LockInv /\ TidInv /\ [Next]_vars => TidInv'
  <1> SUFFICES ASSUME TypeInv, LockInv, TidInv, [Next]_vars  PROVE TidInv'
    OBVIOUS
  <1>1. CASE Next
    BY <1>1, OutsideTids, KernelStepTids, CallTids DEF Next
  <1>2. CASE UNCHANGED vars
    <2>1. UNCHANGED <<tidVars, pc, peer>>
      BY <1>2 DEF vars, callVars
    <2>2. \A u \in Thread : pc'[u] # "none" => Numbered(u)
      BY <2>1 DEF Numbered
    <2> QED BY <2>1, <2>2, TidKept DEF HasNumber
  <1> QED BY <1>1, <1>2

\* allocate_tid() never gives one identifier to two threads that both exist,
\* however many creators the timer interleaves.
THEOREM TidsDiffer == Spec => []UniqueTid
  <1>1. TidInv => UniqueTid
    BY DEF TidInv, UniqueTid, Numbered
  <1>2. Spec => []LockInv
    BY LockInvInit, LockInvStep, TypeInvariant, PTL DEF Spec
  <1> QED
    BY <1>1, <1>2, TidInvInit, TidInvStep, TypeInvariant, PTL DEF Spec

-----------------------------------------------------------------------------
(* The lists that threads queue in *)

\* Who runs and who is queued to run.
RunQueueOK ==
    /\ NoRepeats(ready_list)
    /\ Elems(ready_list) = {t \in Thread : status[t] = "READY"} \ {idle_thread}
    /\ {t \in Thread : status[t] = "RUNNING"} = {current}

\* Who sleeps in sema_down().
WaitersOK ==
    \A s \in AnySema :
        /\ NoRepeats(waiters[s])
        /\ \A t \in Elems(waiters[s]) :
              status[t] = "BLOCKED" /\ pc[t] \in DownLabel /\ SemaOf(t) = s

Dead == {"NONE", "DYING"}

(***************************************************************************)
(* Why ElemOnOneList is kept: a thread under creation is blocked and in no *)
(* list until its creator unblocks it, the idle thread is past its first   *)
(* step once idle_thread is set, and a page without a live thread is in no *)
(* call and holds no lock.                                                 *)
(***************************************************************************)
ListInv ==
    /\ RunQueueOK
    /\ WaitersOK
    /\ \A t \in Thread : Creating(t) => status[peer[t]] = "BLOCKED"
    /\ idle_thread # NULL => pc[Idle] # "none"
    /\ \A u \in Thread : status[u] \in Dead => pc[u] = "none"
    /\ \A u \in Thread : pc[u] = "none" => held[u] = {}

(* Sequences without repetitions *)

LEMMA NoRepeatsAppend ==
  ASSUME NEW S, NEW q \in Seq(S), NEW x \in S, NoRepeats(q), x \notin Elems(q)
  PROVE  NoRepeats(Append(q, x))
  <1> DEFINE r == Append(q, x)
  <1>1. /\ DOMAIN r = 1..(Len(q) + 1) /\ r[Len(q) + 1] = x
        /\ \A i \in 1..Len(q) : r[i] = q[i] /\ q[i] # x
    BY DEF Elems
  <1> HIDE DEF r
  <1>2. ASSUME NEW i \in DOMAIN r, NEW j \in DOMAIN r, i # j
        PROVE  r[i] # r[j]
    BY <1>1, <1>2 DEF NoRepeats
  <1> QED BY <1>2 DEF NoRepeats, r

LEMMA NoRepeatsTail ==
  ASSUME NEW S, NEW q \in Seq(S), q # <<>>, NoRepeats(q)
  PROVE  /\ NoRepeats(Tail(q))
         /\ Head(q) \notin Elems(Tail(q))
         /\ Elems(Tail(q)) = Elems(q) \ {Head(q)}
  <1> DEFINE r == Tail(q)
  <1>1. /\ Len(q) > 0 /\ Len(r) = Len(q) - 1 /\ Head(q) = q[1]
        /\ DOMAIN r = 1..Len(r) /\ \A i \in 1..Len(r) : r[i] = q[i + 1]
        /\ Len(q) \in Nat /\ DOMAIN q = 1..Len(q)
    OBVIOUS
  <1>2. \A i \in 1..Len(r) : i + 1 \in DOMAIN q /\ i + 1 # 1 /\ 1 \in DOMAIN q
    BY <1>1
  <1> HIDE DEF r
  <1>3. NoRepeats(r)
    BY SMTT(30), <1>1, <1>2 DEF NoRepeats
  <1>4. Head(q) \notin Elems(r)
    BY <1>1, <1>2 DEF NoRepeats, Elems
  <1> QED BY <1>3, <1>4, ElemsTail DEF r

(* The scheduler *)

\* What a step of the scheduler may do to other threads.
SchedSafe ==
    /\ RunQueueOK'
    /\ idle_thread' = idle_thread
    /\ \A u \in Thread :
          status[u] = "BLOCKED" /\ u # idle_thread => status'[u] = "BLOCKED"
    /\ \A u \in Thread : status'[u] \in Dead => status[u] \in Dead

LEMMA ScheduleLists ==
  ASSUME SchedTypeOK, NEW left \in Status \ {"RUNNING"}, NEW queue \in Seq(Thread),
         idle_thread = NULL => Idle \in Elems(queue),
         NoRepeats(queue), status[current] = "RUNNING",
         {t \in Thread : status[t] = "RUNNING"} = {current},
         Elems(queue) =
            {t \in Thread : status[t] = "READY" \/ (t = current /\ left = "READY")}
            \ {idle_thread},
         Schedule(left, queue)
  PROVE  /\ RunQueueOK'
         /\ \A u \in Thread : \/ status'[u] = status[u]
                              \/ u = current
                              \/ status[u] = "READY"
                              \/ u = idle_thread
         /\ \A u \in Thread \ {current} : status'[u] \in Dead => status[u] \in Dead
         /\ left # "READY" /\ current # idle_thread => status'[current] = Reaped(left)
  <1> DEFINE next == NextThread(queue)
  <1>1. idle_thread = NULL => queue # <<>>
    BY DEF Elems
  <1>2. next \in Thread /\ (next = idle_thread \/ next \in Elems(queue))
    <2>1. CASE queue = <<>>
      BY <1>1, <2>1, ThreadAssumption DEF NextThread, SchedTypeOK
    <2>2. CASE queue # <<>>
      BY <2>2, ElemsTail DEF NextThread
    <2>3. QED BY <2>1, <2>2
  <1>3. NoRepeats(ready_list') /\ Elems(ready_list') = Elems(queue) \ {next}
    <2>1. CASE queue = <<>>
      BY <2>1 DEF Schedule, NoRepeats, Elems
    <2>2. CASE queue # <<>>
      BY <2>2, NoRepeatsTail DEF Schedule, NextThread
    <2>3. QED BY <2>1, <2>2
  <1>4. Reaped(left) # "RUNNING" /\ (Reaped(left) = "READY" <=> left = "READY")
    BY DEF Reaped
  <1>5. /\ current' = next /\ idle_thread' = idle_thread
        /\ status' = [status EXCEPT ![current] = Reaped(left), ![next] = "RUNNING"]
    BY DEF Schedule
  <1> HIDE DEF next
  <1>6. /\ status'[next] = "RUNNING"
        /\ current # next => status'[current] = Reaped(left)
        /\ \A u \in Thread \ {current, next} : status'[u] = status[u]
    BY <1>2, <1>5 DEF SchedTypeOK
  <1>7. {t \in Thread : status'[t] = "RUNNING"} = {current'}
    BY <1>2, <1>4, <1>5, <1>6
  <1>8. Elems(ready_list') = {t \in Thread : status'[t] = "READY"} \ {idle_thread'}
    <2>1. queue = <<>> => next = idle_thread
      BY DEF next, NextThread
    <2>2. ASSUME NEW u \in Thread, u # idle_thread
          PROVE  u \in Elems(queue) \ {next} <=> status'[u] = "READY"
      BY <1>2, <1>4, <1>6, <2>2
    <2>3. Elems(queue) \subseteq Thread \ {idle_thread}
      OBVIOUS
    <2> QED BY <1>3, <1>5, <2>2, <2>3
  <1>9. RunQueueOK'
    BY <1>3, <1>7, <1>8 DEF RunQueueOK
  <1>10. next = idle_thread \/ status[next] = "READY" \/ (next = current /\ left = "READY")
    BY <1>2
  <1>11. \A u \in Thread \ {current} : status'[u] \in Dead => status[u] \in Dead
    BY <1>6 DEF Dead
  <1>12. left # "READY" /\ current # idle_thread => status'[current] = Reaped(left)
    BY <1>6, <1>10
  <1> QED BY <1>6, <1>9, <1>10, <1>11, <1>12

LEMMA BlockSafe ==
  ASSUME SchedTypeOK, IdleThere, idle_thread = NULL => current # Idle,
         RunQueueOK, ThreadBlock
  PROVE  SchedSafe /\ (current # idle_thread => status'[current] = "BLOCKED")
  <1>1. status[current] = "RUNNING"
    BY DEF RunQueueOK
  <1>2. /\ RunQueueOK'
        /\ \A u \in Thread : \/ status'[u] = status[u]
                             \/ u = current
                             \/ status[u] = "READY"
                             \/ u = idle_thread
        /\ \A u \in Thread \ {current} : status'[u] \in Dead => status[u] \in Dead
        /\ current # idle_thread => status'[current] = Reaped("BLOCKED")
    BY <1>1, ScheduleLists DEF ThreadBlock, Status, SchedTypeOK, RunQueueOK, IdleThere
  <1>3. status'[current] \notin Dead
    BY ThreadAssumption
       DEF ThreadBlock, Schedule, SchedTypeOK, Reaped, Dead
  <1>4. idle_thread' = idle_thread
    BY DEF ThreadBlock, Schedule
  <1> QED BY <1>1, <1>2, <1>3, <1>4 DEF SchedSafe, Reaped

LEMMA YieldSafe ==
  ASSUME SchedTypeOK, IdleThere, RunQueueOK, ThreadYield
  PROVE  SchedSafe
  <1> DEFINE q == IF current = idle_thread THEN ready_list
                                           ELSE Append(ready_list, current)
  <1>1. /\ status[current] = "RUNNING" /\ ready_list \in Seq(Thread)
        /\ current \in Thread /\ current \notin Elems(ready_list)
    BY DEF RunQueueOK, SchedTypeOK
  <1>2. q \in Seq(Thread) /\ (idle_thread = NULL => Idle \in Elems(q)) /\ NoRepeats(q)
    BY <1>1, ElemsAppend, NoRepeatsAppend, ThreadAssumption
       DEF IdleThere, RunQueueOK, SchedTypeOK
  <1>3. Elems(q) = {t \in Thread : status[t] = "READY" \/ (t = current /\ "READY" = "READY")}
                   \ {idle_thread}
    BY <1>1, ElemsAppend DEF RunQueueOK
  <1>4. Schedule("READY", q)
    BY DEF ThreadYield
  <1> HIDE DEF q
  <1>5. /\ RunQueueOK'
        /\ \A u \in Thread : \/ status'[u] = status[u]
                             \/ u = current
                             \/ status[u] = "READY"
                             \/ u = idle_thread
        /\ \A u \in Thread \ {current} : status'[u] \in Dead => status[u] \in Dead
    BY <1>1, <1>2, <1>3, <1>4, ScheduleLists DEF Status, RunQueueOK
  <1>6. status'[current] \notin Dead /\ idle_thread' = idle_thread
    BY <1>1, <1>4 DEF Schedule, SchedTypeOK, Reaped, Dead
  <1> QED BY <1>1, <1>5, <1>6 DEF SchedSafe

LEMMA TickSafe ==
  ASSUME SchedTypeOK, IdleThere, RunQueueOK, ThreadTick
  PROVE  SchedSafe
  <1>1. CASE thread_ticks + 1 >= TIME_SLICE
    BY <1>1, YieldSafe DEF ThreadTick
  <1>2. CASE ~(thread_ticks + 1 >= TIME_SLICE)
    BY <1>2 DEF ThreadTick, SchedSafe, RunQueueOK
  <1> QED BY <1>1, <1>2

\* The thread that joins the run queue was not in it.
LEMMA UnblockSafe ==
  ASSUME SchedTypeOK, RunQueueOK, NEW v \in Thread, v # idle_thread,
         status[v] \notin {"READY", "RUNNING"}, ThreadUnblock(v)
  PROVE  /\ RunQueueOK'
         /\ idle_thread' = idle_thread
         /\ status'[v] = "READY"
         /\ \A u \in Thread \ {v} : status'[u] = status[u]
  <1>1. /\ ready_list \in Seq(Thread) /\ v \notin Elems(ready_list)
        /\ ready_list' = Append(ready_list, v)
        /\ current' = current /\ idle_thread' = idle_thread
        /\ status'[v] = "READY" /\ \A u \in Thread \ {v} : status'[u] = status[u]
    BY DEF ThreadUnblock, SchedTypeOK, RunQueueOK
  <1>2. NoRepeats(ready_list') /\ Elems(ready_list') = Elems(ready_list) \cup {v}
    BY <1>1, ElemsAppend, NoRepeatsAppend DEF RunQueueOK
  <1>3. Elems(ready_list') = {t \in Thread : status'[t] = "READY"} \ {idle_thread'}
    BY <1>1, <1>2 DEF RunQueueOK
  <1>4. {t \in Thread : status'[t] = "RUNNING"} = {current'}
    BY <1>1 DEF RunQueueOK
  <1> QED BY <1>1, <1>2, <1>3, <1>4 DEF RunQueueOK

(* The semaphores *)

\* What a step may do that queues nobody on a semaphore.
SemaSafe ==
    /\ RunQueueOK'
    /\ idle_thread' = idle_thread
    /\ \A s \in AnySema :
          /\ NoRepeats(waiters'[s])
          /\ \A u \in Elems(waiters'[s]) :
                u \in Elems(waiters[s]) /\ status'[u] = "BLOCKED"
    /\ \A u \in Thread :
          pc[u] = "none" /\ status[u] = "BLOCKED" => status'[u] = "BLOCKED"
    /\ \A u \in Thread : status'[u] \in Dead => status[u] \in Dead

\* The idle thread sleeps on no semaphore, and no thread sleeps on two.
LEMMA SleeperFacts ==
  ASSUME TypeInv, ListInv, NEW s \in AnySema, NEW u \in Elems(waiters[s])
  PROVE  /\ u \in Thread /\ u # idle_thread /\ u # current
         /\ status[u] = "BLOCKED" /\ pc[u] \in DownLabel /\ SemaOf(u) = s
  <1>1. waiters[s] \in Seq(Thread)
    BY DEF TypeInv, TypeOK
  <1>2. u \in Thread
    BY <1>1 DEF Elems
  <1>3. status[u] = "BLOCKED" /\ pc[u] \in DownLabel /\ SemaOf(u) = s
    BY DEF ListInv, WaitersOK
  <1>4. u # idle_thread
    BY <1>2, <1>3, ThreadAssumption
       DEF TypeInv, TypeOK, SchedTypeOK, BootOK, IdleLabel, DownLabel
  <1>5. u # current
    BY <1>2, <1>3 DEF ListInv, RunQueueOK
  <1> QED BY <1>2, <1>3, <1>4, <1>5

LEMMA SchedIsSafe ==
  ASSUME TypeInv, ListInv, SchedSafe,
         \A s \in AnySema : waiters'[s] = waiters[s] \/ waiters'[s] = <<>>
  PROVE  SemaSafe
  <1>1. ASSUME NEW s \in AnySema, NEW u \in Elems(waiters'[s])
        PROVE  u \in Elems(waiters[s]) /\ status'[u] = "BLOCKED"
    BY SleeperFacts DEF Elems, SchedSafe
  <1>2. ASSUME NEW s \in AnySema  PROVE NoRepeats(waiters'[s])
    BY DEF ListInv, WaitersOK, NoRepeats
  <1>3. \A u \in Thread : pc[u] = "none" /\ status[u] = "BLOCKED" => u # idle_thread
    BY ThreadAssumption DEF ListInv, TypeInv, TypeOK, SchedTypeOK
  <1> QED BY <1>1, <1>2, <1>3 DEF SchedSafe, SemaSafe

LEMMA SameIsSafe ==
  ASSUME TypeInv, ListInv, UNCHANGED schedVars,
         \A s \in AnySema : waiters'[s] = waiters[s] \/ waiters'[s] = <<>>
  PROVE  SemaSafe
  <1>1. SchedSafe
    BY DEF ListInv, SchedSafe, RunQueueOK, schedVars
  <1> QED BY <1>1, SchedIsSafe

\* sema_up() takes one sleeper off its list.
LEMMA SemaUpSafe ==
  ASSUME TypeInv, ListInv, NEW s \in AnySema, SemaUp(s)
  PROVE  SemaSafe
  <1>0. waiters \in [AnySema -> Seq(Thread)]
    BY DEF TypeInv, TypeOK
  <1>1. CASE waiters[s] = <<>>
    BY <1>1, SameIsSafe DEF SemaUp
  <1>2. CASE waiters[s] # <<>>
    <2> DEFINE v == Head(waiters[s])
    <2>1. /\ waiters' = [waiters EXCEPT ![s] = Tail(waiters[s])]
          /\ ThreadUnblock(v)
      BY <1>2 DEF SemaUp
    <2>2. waiters[s] \in Seq(Thread) /\ NoRepeats(waiters[s])
      BY <1>0 DEF ListInv, WaitersOK
    <2>3. /\ v \in Elems(waiters[s])
          /\ Elems(Tail(waiters[s])) = Elems(waiters[s]) \ {v}
          /\ NoRepeats(Tail(waiters[s]))
      BY <1>2, <2>2, ElemsTail, NoRepeatsTail
    <2> HIDE DEF v
    <2>4. /\ v \in Thread /\ v # idle_thread /\ status[v] = "BLOCKED"
          /\ pc[v] \in DownLabel /\ SemaOf(v) = s
      BY <2>3, SleeperFacts
    <2>5. /\ RunQueueOK' /\ idle_thread' = idle_thread /\ status'[v] = "READY"
          /\ \A u \in Thread \ {v} : status'[u] = status[u]
      BY <2>1, <2>4, UnblockSafe DEF TypeInv, TypeOK, ListInv
    <2>6. /\ waiters'[s] = Tail(waiters[s])
          /\ \A r \in AnySema \ {s} : waiters'[r] = waiters[r]
      BY <1>0, <2>1
    <2>7. ASSUME NEW r \in AnySema  PROVE NoRepeats(waiters'[r])
      BY <2>3, <2>6 DEF ListInv, WaitersOK
    <2>8. ASSUME NEW r \in AnySema, NEW u \in Elems(waiters'[r])
          PROVE  u \in Elems(waiters[r]) /\ u # v
      BY <2>3, <2>4, <2>6, SleeperFacts
    <2>9. ASSUME NEW r \in AnySema, NEW u \in Elems(waiters'[r])
          PROVE  u \in Elems(waiters[r]) /\ status'[u] = "BLOCKED"
      BY <2>5, <2>8, SleeperFacts
    <2>10. \A u \in Thread : pc[u] = "none" => u # v
      BY <2>4 DEF DownLabel
    <2> QED BY <2>5, <2>7, <2>9, <2>10 DEF SemaSafe, Dead
  <1> QED BY <1>1, <1>2

\* u's call stands still; or u runs and goes on inside a call it can make.
StandsStill(u) ==
    pc'[u] = pc[u] /\ arg'[u] = arg[u] /\ peer'[u] = peer[u] /\ held'[u] = held[u]
GoesOn(u) ==
    /\ u = current
    /\ pc[u] # "none" /\ pc'[u] # "none"
    /\ Creating(u)' => Creating(u) /\ peer'[u] = peer[u]

\* A step that queues nobody on a semaphore.
LEMMA ListsKept ==
  ASSUME TypeInv, ListInv, SemaSafe,
         \A u \in Thread : StandsStill(u) \/ GoesOn(u)
  PROVE  ListInv'
  <1>1. WaitersOK'
    <2>1. ASSUME NEW s \in AnySema, NEW u \in Elems(waiters'[s])
          PROVE  status'[u] = "BLOCKED" /\ pc'[u] \in DownLabel /\ SemaOf(u)' = s
      <3>1. u \in Elems(waiters[s]) /\ status'[u] = "BLOCKED"
        BY DEF SemaSafe
      <3>2. u \in Thread /\ u # current /\ pc[u] \in DownLabel /\ SemaOf(u) = s
        BY <3>1, SleeperFacts
      <3>3. StandsStill(u)
        BY <3>2 DEF GoesOn
      <3> QED BY <3>1, <3>2, <3>3 DEF StandsStill, SemaOf
    <2> QED BY <2>1 DEF WaitersOK, SemaSafe
  <1>2. \A u \in Thread : Creating(u)' => Creating(u) /\ peer'[u] = peer[u]
    BY DEF StandsStill, GoesOn, Creating
  <1>3. \A u \in Thread : Creating(u) => peer[u] \in Thread /\ pc[peer[u]] = "none"
    BY CreatingFacts
  <1>4. \A u \in Thread : Creating(u)' => status'[peer'[u]] = "BLOCKED"
    BY <1>2, <1>3 DEF ListInv, SemaSafe
  <1>5. idle_thread' # NULL => pc'[Idle] # "none"
    BY ThreadAssumption DEF ListInv, SemaSafe, StandsStill, GoesOn
  <1>6. \A u \in Thread : status'[u] \in Dead => pc'[u] = "none"
    BY DEF ListInv, SemaSafe, StandsStill, GoesOn
  <1>7. \A u \in Thread : pc'[u] = "none" => held'[u] = {}
    BY DEF ListInv, StandsStill, GoesOn
  <1> QED BY <1>1, <1>4, <1>5, <1>6, <1>7 DEF ListInv, SemaSafe

\* The same when only the call of the running thread t moves.
LEMMA ListsKeptOwn ==
  ASSUME TypeInv, ListInv, SemaSafe, NEW t \in Thread, t = current,
         pc[t] # "none", pc'[t] # "none",
         Creating(t)' => Creating(t) /\ peer'[t] = peer[t],
         \A u \in Thread \ {t} : StandsStill(u)
  PROVE  ListInv'
  BY ListsKept DEF GoesOn

\* sema_down() by t, which takes a unit or queues up and sleeps.
LEMMA SemaDownLists ==
  ASSUME TypeInv, ListInv, NEW t \in Thread, Runner(t), NEW s \in AnySema,
         NEW done \in Label \ {"none"}, NEW asleep \in DownLabel,
         SemaDown(t, s, done, asleep),
         pc'[t] = asleep => SemaOf(t)' = s,
         Creating(t)' => Creating(t), peer' = peer, held' = held,
         \A u \in Thread \ {t} : arg'[u] = arg[u]
  PROVE  ListInv'
  <1>1. /\ pc \in [Thread -> Label] /\ waiters \in [AnySema -> Seq(Thread)]
        /\ t = current /\ pc[t] # "none" /\ t # Idle
        /\ SchedTypeOK /\ IdleThere /\ (idle_thread = NULL => current # Idle)
    BY RunnerFacts DEF Runner, TypeOK
  <1>2. t # idle_thread
    BY <1>1, ThreadAssumption DEF SchedTypeOK
  <1>3. CASE Goto(t, done) /\ UNCHANGED <<waiters, schedVars>>
    <2>1. pc'[t] = done /\ \A u \in Thread \ {t} : StandsStill(u)
      BY <1>1, <1>3 DEF Goto, StandsStill
    <2>2. SemaSafe
      BY <1>3, SameIsSafe
    <2> QED BY <1>1, <2>1, <2>2, ListsKeptOwn
  <1>4. CASE /\ waiters' = [waiters EXCEPT ![s] = Append(@, t)]
             /\ Goto(t, asleep)
             /\ ThreadBlock
    <2>1. pc'[t] = asleep /\ \A u \in Thread \ {t} : StandsStill(u)
      BY <1>1, <1>4 DEF Goto, StandsStill
    <2>2. SchedSafe /\ status'[t] = "BLOCKED"
      BY <1>1, <1>2, <1>4, BlockSafe DEF ListInv
    <2>3. /\ waiters'[s] = Append(waiters[s], t)
          /\ \A r \in AnySema \ {s} : waiters'[r] = waiters[r]
          /\ waiters[s] \in Seq(Thread)
      BY <1>1, <1>4
    <2>4. \A r \in AnySema : t \notin Elems(waiters[r])
      BY <1>1, SleeperFacts
    <2>5. /\ Elems(waiters'[s]) = Elems(waiters[s]) \cup {t}
          /\ NoRepeats(waiters'[s])
      BY <2>3, <2>4, ElemsAppend, NoRepeatsAppend DEF ListInv, WaitersOK
    <2>6. ASSUME NEW r \in AnySema, NEW u \in Elems(waiters'[r])
          PROVE  status'[u] = "BLOCKED" /\ pc'[u] \in DownLabel /\ SemaOf(u)' = r
      <3>1. CASE u = t
        BY <2>1, <2>2, <2>3, <2>4, <2>6, <3>1
      <3>2. CASE u # t
        <4>1. u \in Elems(waiters[r])
          BY <2>3, <2>5, <2>6, <3>2
        <4>2. /\ u \in Thread /\ u # idle_thread
              /\ status[u] = "BLOCKED" /\ pc[u] \in DownLabel /\ SemaOf(u) = r
          BY <4>1, SleeperFacts
        <4> QED BY <2>1, <2>2, <3>2, <4>2 DEF SchedSafe, StandsStill, SemaOf
      <3> QED BY <3>1, <3>2
    <2>7. WaitersOK'
      <3>1. \A r \in AnySema : NoRepeats(waiters'[r])
        BY <2>3, <2>5 DEF ListInv, WaitersOK
      <3> QED BY <2>6, <3>1 DEF WaitersOK
    <2>8. \A u \in Thread : Creating(u)' => Creating(u)
      BY <2>1 DEF StandsStill, Creating
    <2>9. \A u \in Thread : Creating(u) => peer[u] \in Thread /\ pc[peer[u]] = "none"
      BY CreatingFacts
    <2>10. \A u \in Thread : pc[u] = "none" /\ status[u] = "BLOCKED" => status'[u] = "BLOCKED"
      BY <2>2, ThreadAssumption DEF SchedSafe, ListInv, SchedTypeOK, TypeInv, TypeOK
    <2>11. \A u \in Thread : Creating(u)' => status'[peer'[u]] = "BLOCKED"
      BY <2>8, <2>9, <2>10 DEF ListInv
    <2>12. asleep # "none"
      BY DEF DownLabel
    <2>13. idle_thread' # NULL => pc'[Idle] # "none"
      BY <1>1, <2>1, <2>2, ThreadAssumption DEF ListInv, SchedSafe, StandsStill
    <2>14. \A u \in Thread : status'[u] \in Dead => pc'[u] = "none"
      BY <2>1, <2>2 DEF ListInv, SchedSafe, StandsStill, Dead
    <2>15. \A u \in Thread : pc'[u] = "none" => held'[u] = {}
      BY <2>1, <2>12 DEF ListInv, StandsStill
    <2> QED BY <2>2, <2>7, <2>11, <2>13, <2>14, <2>15 DEF ListInv, SchedSafe
  <1> QED BY <1>3, <1>4 DEF SemaDown

(* The actions *)

LEMMA CreateUnblockLists ==
  ASSUME TypeInv, ListInv, NEW t \in Thread, CreateUnblock(t)
  PROVE  ListInv'
  <1> DEFINE c == peer[t]
  <1>1. /\ TypeOK /\ CallOK(t) /\ pc[t] = "unblock" /\ t = current /\ Creating(t)
    BY DEF TypeInv, CreateUnblock, At, Creating, CreateLabel
  <1>2. c \in Thread /\ pc[c] = "none" /\ status[c] = "BLOCKED" /\ c # t
    BY <1>1, CreatingFacts DEF ListInv
  <1>3. c # idle_thread /\ ~Creating(c) /\ peer[c] = NULL
    BY <1>1, <1>2, ThreadAssumption
       DEF ListInv, TypeOK, SchedTypeOK, TypeInv, Creating, CallOK,
           CreateLabel, LockLabel
  <1>4. /\ RunQueueOK' /\ idle_thread' = idle_thread /\ status'[c] = "READY"
        /\ \A u \in Thread \ {c} : status'[u] = status[u]
    BY <1>1, <1>2, <1>3, UnblockSafe DEF CreateUnblock, ListInv, TypeOK
  <1>5. /\ pc'[t] = "run" /\ pc'[c] = "run" /\ peer'[t] = NULL
        /\ arg' = arg /\ held' = held /\ waiters' = waiters
        /\ \A u \in Thread \ {t, c} : pc'[u] = pc[u]
        /\ \A u \in Thread \ {t} : peer'[u] = peer[u]
    BY <1>1, <1>2 DEF CreateUnblock, TypeOK, syncVars
  <1> HIDE DEF c
  <1>6. WaitersOK'
    <2>1. ASSUME NEW s \in AnySema, NEW u \in Elems(waiters[s])
          PROVE  status'[u] = "BLOCKED" /\ pc'[u] \in DownLabel /\ SemaOf(u)' = s
      <3>1. /\ u \in Thread /\ u # current
            /\ status[u] = "BLOCKED" /\ pc[u] \in DownLabel /\ SemaOf(u) = s
        BY SleeperFacts
      <3>2. u # c
        BY <1>2, <3>1 DEF DownLabel
      <3> QED BY <1>1, <1>4, <1>5, <3>1, <3>2 DEF SemaOf
    <2> QED BY <1>5, <2>1 DEF WaitersOK, ListInv
  <1>7. \A u \in Thread : Creating(u)' =>
           Creating(u) /\ peer'[u] = peer[u] /\ peer[u] # c /\ peer[u] \in Thread
    <2>1. \A u \in Thread : Creating(u)' => Creating(u) /\ u # t
      BY <1>5 DEF Creating, CreateLabel, LockLabel
    <2>2. \A u \in Thread \ {t} : Creating(u) => peer[u] # c
      BY <1>1 DEF TypeInv, ChildOK, c
    <2> QED BY <1>5, <2>1, <2>2, CreatingFacts
  <1>8. \A u \in Thread : Creating(u)' => status'[peer'[u]] = "BLOCKED"
    BY <1>4, <1>7 DEF ListInv
  <1>9. idle_thread' # NULL => pc'[Idle] # "none"
    BY <1>4, <1>5, ThreadAssumption DEF ListInv
  <1>10. \A u \in Thread : status'[u] \in Dead => pc'[u] = "none"
    BY <1>1, <1>4, <1>5 DEF ListInv, Dead
  <1>11. \A u \in Thread : pc'[u] = "none" => held'[u] = {}
    BY <1>5 DEF ListInv
  <1> QED BY <1>4, <1>6, <1>8, <1>9, <1>10, <1>11 DEF ListInv

LEMMA KernelStepLists ==
  ASSUME TypeInv, ListInv, NEW t \in Thread, KernelStep(t)
  PROVE  ListInv'
  <1> USE SynchAssumption DEF At, Goto, StandsStill, CreateLabel, LockLabel, WaitLabel
  <1>1. TypeOK /\ CallOK(t)
    BY DEF TypeInv
  <1>2. CASE SemaDownLoop(t)
    <2>1. SemaOf(t) \in AnySema /\ SemaDown(t, SemaOf(t), DownThen(pc[t]), pc[t])
      BY <1>1, <1>2 DEF SemaDownLoop, SemaOf, AnySema, CallOK, TypeOK, DownLabel
    <2>2. Runner(t) /\ pc[t] \in DownLabel /\ DownThen(pc[t]) \in Label \ {"none"}
      BY <1>2 DEF SemaDownLoop, Runner, DownLabel, IdleLabel, DownThen, Label
    <2>3. \A u \in Thread \ {t} : arg'[u] = arg[u]
      BY <1>1, <1>2 DEF SemaDownLoop, TypeOK
    <2>4. pc'[t] = pc[t] => SemaOf(t)' = SemaOf(t)
      BY <1>1, <1>2, <2>2 DEF SemaDownLoop, SemaOf, TypeOK, DownLabel
    <2>5. pc'[t] \in {pc[t], DownThen(pc[t])} /\ peer' = peer /\ held' = held
      BY <1>1, <1>2, <2>1 DEF SemaDownLoop, SemaDown, TypeOK
    <2>6. Creating(t)' => Creating(t)
      BY <2>2, <2>5 DEF Creating, DownLabel, DownThen
    <2> QED BY <2>1, <2>2, <2>3, <2>4, <2>5, <2>6, SemaDownLists
  <1>3. CASE LockSetHolder(t)
    <2>1. SemaSafe
      BY <1>3, SameIsSafe DEF LockSetHolder
    <2>2. CASE peer[t] = NULL
      <3>1. /\ pc' = [pc EXCEPT ![t] = "run"] /\ peer' = peer
            /\ held' = [held EXCEPT ![t] = @ \cup {arg[t]}]
            /\ arg' = [arg EXCEPT ![t] = NULL]
            /\ t = current /\ pc[t] \in {"lock_set", "relock_set"}
        BY <1>3, <2>2 DEF LockSetHolder
      <3> QED BY <1>1, <2>1, <3>1, ListsKeptOwn DEF Creating, TypeOK
    <2>3. CASE peer[t] # NULL
      <3>1. /\ pc' = [pc EXCEPT ![t] = "tid"] /\ UNCHANGED <<peer, held, arg>>
            /\ t = current /\ pc[t] \in {"lock_set", "relock_set"}
        BY <1>3, <2>3 DEF LockSetHolder
      <3>2. Creating(t)
        BY <1>1, <2>3, <3>1 DEF Creating, CallOK
      <3> QED BY <1>1, <2>1, <3>1, <3>2, ListsKeptOwn DEF TypeOK
    <2> QED BY <2>2, <2>3
  <1>4. CASE LockReleaseUp(t)
    <2>1. SemaSafe
      BY <1>1, <1>4, SemaUpSafe DEF LockReleaseUp, AnySema, CallOK
    <2> QED BY <1>1, <1>4, <2>1, ListsKeptOwn DEF LockReleaseUp, Creating, TypeOK
  <1>5. CASE WaitClearHolder(t)
    <2>1. SemaSafe
      BY <1>5, SameIsSafe DEF WaitClearHolder, ClearHolder
    <2> QED BY <1>1, <1>5, <2>1, ListsKeptOwn
            DEF WaitClearHolder, ClearHolder, Creating, TypeOK
  <1>6. CASE WaitUnlock(t)
    <2>1. SemaSafe
      BY <1>1, <1>6, SemaUpSafe DEF WaitUnlock, AnySema, CallOK
    <2> QED BY <1>1, <1>6, <2>1, ListsKeptOwn DEF WaitUnlock, Creating, TypeOK
  <1>7. CASE WaitDown(t)
    <2>1. pc'[t] \in {"relock", "wait_down"} /\ pc[t] = "wait_call" /\ t = current
      BY <1>1, <1>7 DEF WaitDown, SemaDown, TypeOK
    <2>2. Runner(t) /\ ~Creating(t)' /\ t \in AnySema
      BY <2>1 DEF Runner, IdleLabel, Creating, AnySema
    <2>3. pc'[t] = "wait_down" => SemaOf(t)' = t
      BY DEF SemaOf
    <2> QED BY <1>7, <2>1, <2>2, <2>3, SemaDownLists DEF WaitDown, Label, DownLabel
  <1>8. CASE Relock(t)
    <2>1. pc'[t] \in {"relock_set", "relock_down"} /\ pc[t] = "relock" /\ t = current
      BY <1>1, <1>8 DEF Relock, SemaDown, TypeOK
    <2>2. Runner(t) /\ ~Creating(t)' /\ arg[t] \in AnySema
      BY <1>1, <2>1 DEF Runner, IdleLabel, Creating, AnySema, CallOK
    <2>3. pc'[t] = "relock_down" => SemaOf(t)' = arg[t]
      BY <1>8 DEF SemaOf, Relock
    <2> QED BY <1>8, <2>1, <2>2, <2>3, SemaDownLists DEF Relock, Label, DownLabel
  <1>9. CASE SignalUp(t)
    <2>1. SemaSafe
      BY <1>1, <1>9, SemaUpSafe DEF SignalUp, AnySema, CallOK
    <2> QED BY <1>1, <1>9, <2>1, ListsKeptOwn DEF SignalUp, Creating, TypeOK
  <1>10. CASE BroadcastNext(t)
    <2>1. SemaSafe
      BY <1>10, SameIsSafe DEF BroadcastNext, PopWaiter
    <2> QED BY <1>1, <1>10, <2>1, ListsKeptOwn
            DEF BroadcastNext, PopWaiter, Creating, TypeOK
  <1>11. CASE BroadcastDone(t)
    <2>1. SemaSafe
      BY <1>11, SameIsSafe DEF BroadcastDone, syncVars
    <2> QED BY <1>1, <1>11, <2>1, ListsKeptOwn DEF BroadcastDone, Creating, TypeOK
  <1>12. CASE TidAcquire(t)
    <2>1. pc'[t] \in {"lock_set", "lock_down"} /\ pc[t] = "create" /\ t = current
      BY <1>1, <1>12 DEF TidAcquire, SemaDown, TypeOK
    <2>2. Runner(t) /\ Creating(t) /\ TidLock \in AnySema
      BY <2>1 DEF Runner, IdleLabel, Creating, AnySema
    <2>3. pc'[t] = "lock_down" => SemaOf(t)' = TidLock
      BY <1>1, <1>12, <2>1 DEF SemaOf, TidAcquire, CallOK
    <2> QED BY <1>12, <2>1, <2>2, <2>3, SemaDownLists DEF TidAcquire, Label, DownLabel
  <1>13. CASE TidRead(t) \/ TidWrite(t)
    <2>1. SemaSafe
      BY <1>13, SameIsSafe DEF TidRead, TidWrite, syncVars
    <2> QED BY <1>1, <1>13, <2>1, ListsKeptOwn DEF TidRead, TidWrite, Creating, TypeOK
  <1>14. CASE TidRelease(t)
    <2>1. SemaSafe
      BY <1>14, SameIsSafe DEF TidRelease, ClearHolder
    <2> QED BY <1>1, <1>14, <2>1, ListsKeptOwn
            DEF TidRelease, ClearHolder, Creating, TypeOK
  <1>15. CASE CreateUnblock(t)
    BY <1>15, CreateUnblockLists
  <1> QED
    BY <1>2, <1>3, <1>4, <1>5, <1>6, <1>7, <1>8, <1>9, <1>10, <1>11, <1>12,
       <1>13, <1>14, <1>15 DEF KernelStep

LEMMA CallExitLists ==
  ASSUME TypeInv, ListInv, NEW t \in Thread, CallExit(t)
  PROVE  ListInv'
  <1>1. Runner(t) /\ pc[t] = "run" /\ TypeOK /\ held[t] = {}
    BY DEF Runner, IdleLabel, CallExit, At, TypeInv
  <1>2. /\ t = current /\ t # Idle /\ t # idle_thread
        /\ SchedTypeOK /\ IdleThere /\ (idle_thread = NULL => current # Idle)
    BY <1>1, RunnerFacts, ThreadAssumption DEF Runner, SchedTypeOK
  <1>3. /\ RunQueueOK'
        /\ \A u \in Thread : \/ status'[u] = status[u]
                             \/ u = current
                             \/ status[u] = "READY"
                             \/ u = idle_thread
        /\ \A u \in Thread \ {current} : status'[u] \in Dead => status[u] \in Dead
    <2>1. status[current] = "RUNNING" /\ RunQueueOK
      BY <1>2 DEF ListInv, RunQueueOK
    <2> QED BY <1>2, <2>1, ScheduleLists
            DEF CallExit, ThreadExit, Status, SchedTypeOK, IdleThere, RunQueueOK
  <1>4. /\ pc'[t] = "none" /\ \A u \in Thread \ {t} : pc'[u] = pc[u]
        /\ UNCHANGED <<waiters, arg, peer, held, idle_thread>>
    BY <1>1 DEF CallExit, Goto, TypeOK, syncVars, ThreadExit, Schedule
  <1>5. WaitersOK'
    <2>1. ASSUME NEW s \in AnySema, NEW u \in Elems(waiters[s])
          PROVE  status'[u] = "BLOCKED" /\ pc'[u] \in DownLabel /\ SemaOf(u)' = s
      BY <1>2, <1>3, <1>4, SleeperFacts DEF SemaOf
    <2> QED BY <1>4, <2>1 DEF WaitersOK, ListInv
  <1>6. \A u \in Thread : Creating(u)' => Creating(u)
    BY <1>4 DEF Creating, CreateLabel, LockLabel
  <1>7. \A u \in Thread : Creating(u)' => status'[peer'[u]] = "BLOCKED"
    <2>1. \A u \in Thread : Creating(u) => /\ peer[u] \in Thread
                                           /\ pc[peer[u]] = "none"
                                           /\ status[peer[u]] = "BLOCKED"
      BY CreatingFacts DEF ListInv
    <2>2. \A u \in Thread : pc[u] = "none" => u # t /\ u # idle_thread
      BY <1>1, ThreadAssumption DEF ListInv, TypeOK, SchedTypeOK
    <2>3. \A u \in Thread : Creating(u) =>
             /\ peer[u] \in Thread /\ status[peer[u]] = "BLOCKED"
             /\ peer[u] # t /\ peer[u] # idle_thread
      BY <2>1, <2>2
    <2> QED BY <1>2, <1>3, <1>4, <1>6, <2>3
  <1>8. idle_thread' # NULL => pc'[Idle] # "none"
    BY <1>2, <1>4, ThreadAssumption DEF ListInv
  <1>9. \A u \in Thread : status'[u] \in Dead => pc'[u] = "none"
    BY <1>2, <1>3, <1>4 DEF ListInv
  <1>10. \A u \in Thread : pc'[u] = "none" => held'[u] = {}
    BY <1>1, <1>4 DEF ListInv
  <1> QED BY <1>3, <1>5, <1>7, <1>8, <1>9, <1>10 DEF ListInv

LEMMA ThreadCreateLists ==
  ASSUME TypeInv, ListInv, NEW t \in Thread, NEW c \in Thread, ThreadCreate(t, c)
  PROVE  ListInv'
  <1>1. /\ TypeOK /\ pc[t] = "run" /\ t = current /\ status[c] = "NONE"
        /\ pc[c] = "none" /\ c # t
    BY DEF ThreadCreate, At, TypeInv, ListInv, Dead
  <1>2. /\ pc'[t] = "create" /\ \A u \in Thread \ {t} : StandsStill(u)
        /\ status'[c] = "BLOCKED" /\ \A u \in Thread \ {c} : status'[u] = status[u]
        /\ peer'[t] = c
        /\ UNCHANGED <<waiters, held, idle_thread, current, ready_list>>
    BY <1>1 DEF ThreadCreate, Goto, TypeOK, SchedTypeOK, StandsStill, syncVars
  <1>3. RunQueueOK'
    <2>1. \A u \in Thread : /\ status'[u] = "READY" <=> status[u] = "READY"
                            /\ status'[u] = "RUNNING" <=> status[u] = "RUNNING"
      BY <1>1, <1>2
    <2> QED BY <1>2, <2>1 DEF RunQueueOK, ListInv
  <1>4. WaitersOK'
    <2>1. ASSUME NEW s \in AnySema, NEW u \in Elems(waiters[s])
          PROVE  status'[u] = "BLOCKED" /\ pc'[u] \in DownLabel /\ SemaOf(u)' = s
      BY <1>1, <1>2, SleeperFacts DEF StandsStill, SemaOf
    <2> QED BY <1>2, <2>1 DEF WaitersOK, ListInv
  <1>5. ASSUME NEW u \in Thread, Creating(u)'  PROVE status'[peer'[u]] = "BLOCKED"
    <2>1. CASE u = t
      BY <1>2, <2>1
    <2>2. CASE u # t
      <3>1. Creating(u) /\ peer'[u] = peer[u]
        BY <1>2, <1>5, <2>2 DEF StandsStill, Creating
      <3>2. peer[u] \in Thread /\ status[peer[u]] = "BLOCKED"
        BY <3>1, CreatingFacts DEF ListInv
      <3> QED BY <1>2, <3>1, <3>2
    <2> QED BY <2>1, <2>2
  <1>6. idle_thread' # NULL => pc'[Idle] # "none"
    BY <1>2, ThreadAssumption DEF ListInv, StandsStill
  <1>7. \A u \in Thread : status'[u] \in Dead => pc'[u] = "none"
    <2>1. status[t] = "RUNNING"
      BY <1>1 DEF ListInv, RunQueueOK
    <2> QED BY <1>1, <1>2, <2>1 DEF ListInv, StandsStill, Dead
  <1>8. \A u \in Thread : pc'[u] = "none" => held'[u] = {}
    BY <1>2 DEF ListInv, StandsStill
  <1> QED BY <1>3, <1>4, <1>5, <1>6, <1>7, <1>8 DEF ListInv

LEMMA CallLists ==
  ASSUME TypeInv, ListInv, NEW t \in Thread, Call(t)
  PROVE  ListInv'
  <1> USE SynchAssumption DEF At, Goto, StandsStill
  <1>1. TypeOK /\ CallOK(t)
    BY DEF TypeInv
  <1>2. ASSUME NEW s \in Sema, CallSemaDown(t, s)  PROVE ListInv'
    <2>1. pc'[t] \in {"run", "sema_down"} /\ Runner(t)
      BY <1>1, <1>2 DEF CallSemaDown, SemaDown, TypeOK, Runner, IdleLabel
    <2>2. /\ ~Creating(t)' /\ s \in AnySema
          /\ pc'[t] = "sema_down" => SemaOf(t)' = s
      BY <1>1, <1>2, <2>1 DEF CallSemaDown, Creating, CreateLabel, LockLabel,
                              AnySema, SemaOf, TypeOK
    <2>3. \A u \in Thread \ {t} : arg'[u] = arg[u]
      BY <1>1, <1>2 DEF CallSemaDown, TypeOK
    <2> QED BY <1>2, <2>1, <2>2, <2>3, SemaDownLists DEF CallSemaDown, Label, DownLabel
  <1>3. ASSUME NEW s \in Sema, CallSemaTryDown(t, s) \/ CallSemaUp(t, s)
        PROVE  ListInv'
    <2>1. SemaSafe
      BY <1>3, SameIsSafe, SemaUpSafe DEF CallSemaTryDown, CallSemaUp, AnySema
    <2> QED BY <1>3, <2>1, ListsKept DEF CallSemaTryDown, CallSemaUp, callVars
  <1>4. ASSUME NEW l \in Lock, LockAcquire(t, l)  PROVE ListInv'
    <2>1. pc'[t] \in {"lock_set", "lock_down"} /\ pc[t] = "run" /\ Runner(t)
      BY <1>1, <1>4 DEF LockAcquire, SemaDown, TypeOK, Runner, IdleLabel
    <2>2. /\ ~Creating(t)' /\ l \in AnySema
          /\ pc'[t] = "lock_down" => SemaOf(t)' = l
      BY <1>1, <1>4, <2>1 DEF LockAcquire, CallOK, Creating, CreateLabel, LockLabel,
                              AnySema, SemaOf, TypeOK
    <2>3. \A u \in Thread \ {t} : arg'[u] = arg[u]
      BY <1>1, <1>4 DEF LockAcquire, TypeOK
    <2> QED BY <1>4, <2>1, <2>2, <2>3, SemaDownLists DEF LockAcquire, Label, DownLabel
  <1>5. ASSUME NEW l \in Lock, LockTryAcquire(t, l)  PROVE ListInv'
    <2>1. SemaSafe
      BY <1>5, SameIsSafe DEF LockTryAcquire
    <2> QED BY <1>1, <1>5, <2>1, ListsKeptOwn
            DEF LockTryAcquire, CallOK, Creating, CreateLabel, LockLabel, TypeOK
  <1>6. ASSUME NEW l \in Lock, LockRelease(t, l)  PROVE ListInv'
    <2>1. SemaSafe
      BY <1>6, SameIsSafe DEF LockRelease, ClearHolder
    <2> QED BY <1>1, <1>6, <2>1, ListsKeptOwn
            DEF LockRelease, ClearHolder, CallOK, Creating, CreateLabel, LockLabel, TypeOK
  <1>7. ASSUME NEW c \in Cond, CondWait(t, c)  PROVE ListInv'
    <2>1. SemaSafe
      BY <1>1, <1>7, SameIsSafe DEF CondWait, TypeOK
    <2> QED BY <1>1, <1>7, <2>1, ListsKeptOwn
            DEF CondWait, Creating, CreateLabel, LockLabel, TypeOK
  <1>8. ASSUME NEW c \in Cond, CondSignal(t, c) \/ CondBroadcast(t, c)
        PROVE  ListInv'
    <2>1. SemaSafe
      BY <1>8, SameIsSafe DEF CondSignal, PopWaiter, CondBroadcast, syncVars
    <2> QED BY <1>1, <1>8, <2>1, ListsKeptOwn
            DEF CondSignal, PopWaiter, CondBroadcast, Creating, CreateLabel,
                LockLabel, TypeOK
  <1>9. ASSUME NEW u \in Thread, ThreadCreate(t, u)  PROVE ListInv'
    BY <1>9, ThreadCreateLists
  <1>10. CASE CallYield(t)
    <2>1. Runner(t)
      BY <1>10 DEF CallYield, Runner, IdleLabel
    <2>2. SemaSafe
      BY <1>10, <2>1, RunnerFacts, YieldSafe, SchedIsSafe
         DEF CallYield, ListInv, syncVars
    <2> QED BY <1>10, <2>2, ListsKept DEF CallYield, callVars
  <1>11. CASE CallExit(t)
    BY <1>11, CallExitLists
  <1> QED
    BY <1>2, <1>3, <1>4, <1>5, <1>6, <1>7, <1>8, <1>9, <1>10, <1>11 DEF Call

\* Interrupts leave every call alone, but for the end of HLT.
LEMMA InterruptLists ==
  ASSUME TypeInv, ListInv, TimerTick \/ \E s \in IntrSema : DeviceUp(s)
  PROVE  ListInv'
  <1>1. TypeOK /\ SchedTypeOK /\ IdleThere
    BY IntrFacts DEF TimerTick, DeviceUp, TypeInv
  <1>2. SemaSafe
    <2>1. CASE TimerTick
      BY <1>1, <2>1, TickSafe, SchedIsSafe DEF TimerTick, ListInv, syncVars
    <2>2. ASSUME NEW s \in IntrSema, DeviceUp(s)  PROVE SemaSafe
      BY <2>2, SemaUpSafe, SynchAssumption DEF DeviceUp, AnySema
    <2> QED BY <2>1, <2>2
  <1>3. pc' = AwakenIdle(pc) /\ UNCHANGED <<arg, peer, held>>
    BY DEF TimerTick, DeviceUp
  <1>4. \A u \in Thread :
          \/ pc'[u] = pc[u]
          \/ u = Idle /\ current = Idle /\ pc[u] = "idle_hlt" /\ pc'[u] = "idle_loop"
    BY <1>1, <1>3 DEF AwakenIdle, TypeOK
  <1>5. \A u \in Thread : StandsStill(u) \/ GoesOn(u)
    BY <1>3, <1>4 DEF StandsStill, GoesOn, Creating, CreateLabel, LockLabel
  <1> QED BY <1>2, <1>5, ListsKept

LEMMA BootLists ==
  ASSUME TypeInv, ListInv, BootStep
  PROVE  ListInv'
  <1> USE ThreadAssumption, SynchAssumption DEF At, Goto, StandsStill
  <1>1. TypeOK /\ SchedTypeOK
    BY DEF TypeInv, TypeOK
  <1>2. CASE BootCreateIdle
    <2>1. /\ pc[Main] = "boot_create" /\ status[Idle] = "NONE" /\ pc[Idle] = "none"
          /\ \A u \in Thread : ~Creating(u)
          /\ idle_thread = NULL
      BY <1>1, <1>2 DEF BootCreateIdle, TypeInv, BootOK, ListInv, Dead, SchedTypeOK
    <2>2. /\ RunQueueOK' /\ idle_thread' = NULL /\ status'[Idle] = "READY"
          /\ \A u \in Thread \ {Idle} : status'[u] = status[u]
      BY <1>1, <1>2, <2>1, UnblockSafe DEF BootCreateIdle, ListInv
    <2>3. /\ \A u \in Thread \ {Main, Idle} : pc'[u] = pc[u]
          /\ pc'[Main] = "boot_enable" /\ pc'[Idle] = "idle_start"
          /\ UNCHANGED <<arg, peer, held, waiters>>
      BY <1>1, <1>2 DEF BootCreateIdle, TypeOK, syncVars
    <2>4. WaitersOK'
      <3>1. ASSUME NEW s \in AnySema, NEW u \in Elems(waiters[s])
            PROVE  status'[u] = "BLOCKED" /\ pc'[u] \in DownLabel /\ SemaOf(u)' = s
        <4>1. u \in Thread /\ status[u] = "BLOCKED" /\ pc[u] \in DownLabel /\ SemaOf(u) = s
          BY SleeperFacts
        <4>2. u # Main /\ u # Idle
          BY <2>1, <4>1 DEF DownLabel
        <4> QED BY <2>2, <2>3, <4>1, <4>2 DEF SemaOf
      <3> QED BY <2>3, <3>1 DEF WaitersOK, ListInv
    <2>5. \A u \in Thread : ~Creating(u)'
      BY <2>1, <2>3 DEF Creating, CreateLabel, LockLabel
    <2>6. \A u \in Thread : status'[u] \in Dead => pc'[u] = "none"
      <3>1. status[Main] = "RUNNING"
        BY <1>2 DEF BootCreateIdle, ListInv, RunQueueOK
      <3> QED BY <2>2, <2>3, <3>1 DEF ListInv, Dead
    <2>7. \A u \in Thread : pc'[u] = "none" => held'[u] = {}
      BY <2>3 DEF ListInv
    <2> QED BY <2>2, <2>3, <2>4, <2>5, <2>6, <2>7 DEF ListInv
  <1>3. CASE BootEnable
    <2>1. SemaSafe
      BY <1>3, SameIsSafe DEF BootEnable, syncVars
    <2> QED BY <1>1, <1>3, <2>1, ListsKeptOwn
            DEF BootEnable, Creating, CreateLabel, LockLabel, TypeOK
  <1>4. CASE BootWait
    <2>1. pc'[Main] \in {"run", "sema_down"} /\ Runner(Main)
      BY <1>1, <1>4 DEF BootWait, SemaDown, TypeOK, Runner, IdleLabel
    <2>2. /\ ~Creating(Main)' /\ IdleStarted \in AnySema
          /\ pc'[Main] = "sema_down" => SemaOf(Main)' = IdleStarted
      BY <1>1, <1>4, <2>1 DEF BootWait, Creating, CreateLabel, LockLabel,
                              AnySema, SemaOf, TypeOK
    <2>3. \A u \in Thread \ {Main} : arg'[u] = arg[u]
      BY <1>1, <1>4 DEF BootWait, TypeOK
    <2> QED BY <1>4, <2>1, <2>2, <2>3, SemaDownLists DEF BootWait, Label, DownLabel
  <1>5. CASE IdleStart
    <2>1. /\ pc[Idle] = "idle_start" /\ current = Idle /\ idle_thread' = Idle
          /\ UNCHANGED <<status, ready_list, current, waiters, arg, peer, held>>
          /\ pc'[Idle] = "idle_up" /\ \A u \in Thread \ {Idle} : pc'[u] = pc[u]
      BY <1>1, <1>5 DEF IdleStart, TypeOK, syncVars
    <2>2. status[Idle] = "RUNNING"
      BY <2>1 DEF ListInv, RunQueueOK
    <2>3. RunQueueOK'
      BY <1>1, <2>1, <2>2 DEF ListInv, RunQueueOK, SchedTypeOK
    <2>4. WaitersOK'
      <3>1. ASSUME NEW s \in AnySema, NEW u \in Elems(waiters[s])
            PROVE  status'[u] = "BLOCKED" /\ pc'[u] \in DownLabel /\ SemaOf(u)' = s
        BY <2>1, SleeperFacts DEF SemaOf
      <3> QED BY <2>1, <3>1 DEF WaitersOK, ListInv
    <2>5. \A u \in Thread : Creating(u)' => Creating(u) /\ peer'[u] = peer[u]
      BY <2>1 DEF Creating, CreateLabel, LockLabel
    <2>6. \A u \in Thread : Creating(u)' => status'[peer'[u]] = "BLOCKED"
      BY <2>1, <2>5 DEF ListInv
    <2>7. \A u \in Thread : status'[u] \in Dead => pc'[u] = "none"
      BY <2>1, <2>2 DEF ListInv, Dead
    <2>8. \A u \in Thread : pc'[u] = "none" => held'[u] = {}
      BY <2>1 DEF ListInv
    <2> QED BY <2>1, <2>3, <2>4, <2>6, <2>7, <2>8 DEF ListInv
  <1>6. CASE IdleUp
    <2>1. SemaSafe
      BY <1>6, SemaUpSafe DEF IdleUp, AnySema
    <2> QED BY <1>1, <1>6, <2>1, ListsKeptOwn
            DEF IdleUp, Creating, CreateLabel, LockLabel, TypeOK
  <1>7. CASE IdleBlock
    <2>1. IdleThere /\ (idle_thread = NULL => current # Idle)
      BY <1>7, IdleFacts DEF IdleBlock
    <2>2. SemaSafe
      BY <1>1, <1>7, <2>1, BlockSafe, SchedIsSafe DEF IdleBlock, ListInv, syncVars
    <2> QED BY <1>1, <1>7, <2>2, ListsKeptOwn
            DEF IdleBlock, Creating, CreateLabel, LockLabel, TypeOK
  <1> QED BY <1>2, <1>3, <1>4, <1>5, <1>6, <1>7 DEF BootStep

LEMMA ListInvInit == Init => ListInv
  <1> SUFFICES ASSUME Init  PROVE ListInv
    OBVIOUS
  <1> USE ThreadAssumption DEF Init, SchedInit
  <1>1. RunQueueOK
    BY DEF RunQueueOK, NoRepeats, Elems
  <1>2. WaitersOK
    BY DEF WaitersOK, NoRepeats, Elems
  <1>3. \A t \in Thread : ~Creating(t)
    BY DEF Creating, CreateLabel, LockLabel
  <1> QED BY <1>1, <1>2, <1>3 DEF ListInv, Dead

LEMMA ListInvStep == TypeInv /\ ListInv /\ [Next]_vars => ListInv'
  <1> SUFFICES ASSUME TypeInv, ListInv, [Next]_vars  PROVE ListInv'
    OBVIOUS
  <1>1. CASE Next
    BY <1>1, InterruptLists, BootLists, KernelStepLists, CallLists DEF Next
  <1>2. CASE UNCHANGED vars
    <2>1. SemaSafe
      BY <1>2, SameIsSafe DEF vars, syncVars
    <2>2. \A u \in Thread : StandsStill(u)
      BY <1>2 DEF vars, callVars, StandsStill
    <2> QED BY <2>1, <2>2, ListsKept
  <1> QED BY <1>1, <1>2

LEMMA ListInvariant == Spec => []ListInv
  BY ListInvInit, ListInvStep, TypeInvariant, PTL DEF Spec

\* A thread's list element is in at most one list, at most once; the run
\* queue holds exactly the ready threads, whatever the timer interrupts.
THEOREM OneListAtATime == Spec => []ElemOnOneList
  <1>1. ListInv => ElemOnOneList
    BY DEF ListInv, RunQueueOK, WaitersOK, ElemOnOneList
  <1> QED BY <1>1, ListInvariant, PTL

-----------------------------------------------------------------------------
(* Signals *)

\* In cond_wait() up to the end of sema_down(&waiter.semaphore), and about to
\* up the semaphore of a waiter taken off the condition's list.
WaitingLabel == {"wait_unlock", "wait_up", "wait_call", "wait_down"}
SignalLabel == {"signal_up", "bcast_up"}

\* t's semaphore_elem has not been upped yet.
Waits(t) == pc[t] \in WaitingLabel /\ value[t] = 0
Listed(t) == \E c \in Cond : t \in Elems(cond_waiters[c])
Signalled(t) == \E u \in Thread : pc[u] \in SignalLabel /\ peer[u] = t

(***************************************************************************)
(* Why no signal is lost: exactly the threads whose semaphore_elem is      *)
(* still to be upped are in a condition's list or in the hands of a        *)
(* signaller, each in one place, and a semaphore_elem that was upped has   *)
(* nobody left to wake.                                                    *)
(***************************************************************************)
CondInv ==
    /\ \A c \in Cond : NoRepeats(cond_waiters[c])
    /\ \A c, d \in Cond : \A t \in Elems(cond_waiters[c]) :
          t \in Elems(cond_waiters[d]) => c = d
    /\ \A t \in Thread : Waits(t) <=> Listed(t) \/ Signalled(t)
    /\ \A t \in Thread : ~(Listed(t) /\ Signalled(t))
    /\ \A u, v \in Thread :
          pc[u] \in SignalLabel /\ pc[v] \in SignalLabel /\ peer[u] = peer[v] => u = v
    /\ \A t \in Thread : value[t] > 0 => waiters[t] = <<>>

\* A step that takes no part in any condition variable.
LEMMA CondKept ==
  ASSUME CondInv, cond_waiters' = cond_waiters,
         \A u \in Thread : Waits(u)' <=> Waits(u),
         \A u \in Thread : pc'[u] \in SignalLabel <=> pc[u] \in SignalLabel,
         \A u \in Thread : pc[u] \in SignalLabel => peer'[u] = peer[u],
         \A u \in Thread : value'[u] > 0 => waiters'[u] = <<>>
  PROVE  CondInv'
  <1>1. \A u \in Thread : Listed(u)' <=> Listed(u)
    BY DEF Listed
  <1>2. \A u \in Thread : Signalled(u)' <=> Signalled(u)
    BY DEF Signalled
  <1>3. \A u, v \in Thread :
          pc'[u] \in SignalLabel /\ pc'[v] \in SignalLabel /\ peer'[u] = peer'[v] => u = v
    BY DEF CondInv
  <1> QED BY <1>1, <1>2, <1>3 DEF CondInv

\* The usual case: what moves is far from cond_wait() and cond_signal().
FarFromConds(u) ==
    \/ pc'[u] = pc[u] /\ peer'[u] = peer[u]
    \/ {pc[u], pc'[u]} \cap (WaitingLabel \cup SignalLabel) = {}

LEMMA CondPlain ==
  ASSUME CondInv, cond_waiters' = cond_waiters,
         \A u \in Thread : FarFromConds(u),
         \A u \in Thread : value'[u] = value[u] /\ waiters'[u] = waiters[u]
  PROVE  CondInv'
  <1>1. \A u \in Thread : Waits(u)' <=> Waits(u)
    BY DEF Waits, FarFromConds
  <1>2. \A u \in Thread : pc'[u] \in SignalLabel <=> pc[u] \in SignalLabel
    BY DEF FarFromConds
  <1>3. \A u \in Thread : pc[u] \in SignalLabel => peer'[u] = peer[u]
    BY DEF FarFromConds
  <1>4. \A u \in Thread : value'[u] > 0 => waiters'[u] = <<>>
    BY DEF CondInv
  <1> QED BY <1>1, <1>2, <1>3, <1>4, CondKept

\* sema_down() and sema_up() of a semaphore that is not a waiter's own.
LEMMA OtherSemas ==
  ASSUME TypeInv, NEW s \in Sema \cup Lock,
         (\E t \in Thread : \E done, asleep \in Label : SemaDown(t, s, done, asleep))
            \/ SemaUp(s)
  PROVE  \A u \in Thread : value'[u] = value[u] /\ waiters'[u] = waiters[u]
  <1>1. /\ value \in [AnySema -> Nat] /\ waiters \in [AnySema -> Seq(Thread)]
        /\ Thread \subseteq AnySema /\ s \notin Thread
    BY SynchAssumption DEF TypeInv, TypeOK, AnySema
  <1> QED BY <1>1 DEF SemaDown, SemaUp

\* cond_wait() begins: the waiter's element joins one list.
LEMMA CondWaitSignals ==
  ASSUME TypeInv, CondInv, NEW t \in Thread, NEW c \in Cond, CondWait(t, c)
  PROVE  CondInv'
  <1>1. TypeOK /\ pc[t] = "run" /\ t \in AnySema
    BY DEF TypeInv, CondWait, At, AnySema
  <1>2. /\ pc'[t] = "wait_unlock" /\ \A u \in Thread \ {t} : pc'[u] = pc[u]
        /\ peer' = peer
        /\ value'[t] = 0 /\ \A u \in Thread \ {t} : value'[u] = value[u]
        /\ \A u \in Thread \ {t} : waiters'[u] = waiters[u]
        /\ cond_waiters'[c] = Append(cond_waiters[c], t)
        /\ \A d \in Cond \ {c} : cond_waiters'[d] = cond_waiters[d]
        /\ cond_waiters[c] \in Seq(Thread)
    BY <1>1 DEF CondWait, Goto, TypeOK, AnySema
  <1>3. ~Waits(t) /\ ~Listed(t) /\ ~Signalled(t)
    <2>1. ~Waits(t)
      BY <1>1 DEF Waits, WaitingLabel
    <2> QED BY <2>1 DEF CondInv
  <1>4. t \notin Elems(cond_waiters[c])
    BY <1>3 DEF Listed
  <1>5. /\ Elems(cond_waiters'[c]) = Elems(cond_waiters[c]) \cup {t}
        /\ NoRepeats(cond_waiters'[c])
    BY <1>2, <1>4, ElemsAppend, NoRepeatsAppend DEF CondInv
  <1>6. Listed(t)' /\ \A u \in Thread \ {t} : Listed(u)' <=> Listed(u)
    BY <1>2, <1>5 DEF Listed
  <1>7. \A u \in Thread : pc'[u] \in SignalLabel <=> pc[u] \in SignalLabel
    BY <1>1, <1>2 DEF SignalLabel
  <1>8. \A u \in Thread : Signalled(u)' <=> Signalled(u)
    BY <1>2, <1>7 DEF Signalled
  <1>9. Waits(t)' /\ \A u \in Thread \ {t} : Waits(u)' <=> Waits(u)
    BY <1>2 DEF Waits, WaitingLabel
  <1>10. \A d \in Cond : NoRepeats(cond_waiters'[d])
    BY <1>2, <1>5 DEF CondInv
  <1>11. ASSUME NEW d \in Cond, NEW e \in Cond, NEW u \in Elems(cond_waiters'[d]),
                u \in Elems(cond_waiters'[e])
         PROVE  d = e
    <2>1. \A f \in Cond : t \notin Elems(cond_waiters[f])
      BY <1>3 DEF Listed
    <2>2. CASE u = t
      BY <1>2, <1>11, <2>1, <2>2
    <2>3. CASE u # t
      <3>1. u \in Elems(cond_waiters[d]) /\ u \in Elems(cond_waiters[e])
        BY <1>2, <1>5, <1>11, <2>3
      <3> QED BY <3>1 DEF CondInv
    <2> QED BY <2>2, <2>3
  <1>12. \A u, v \in Thread :
          pc'[u] \in SignalLabel /\ pc'[v] \in SignalLabel /\ peer'[u] = peer'[v] => u = v
    BY <1>2, <1>7 DEF CondInv
  <1>13. \A u \in Thread : value'[u] > 0 => waiters'[u] = <<>>
    BY <1>2 DEF CondInv
  <1>14. \A u \in Thread : Waits(u)' <=> Listed(u)' \/ Signalled(u)'
    BY <1>6, <1>8, <1>9 DEF CondInv
  <1>15. \A u \in Thread : ~(Listed(u)' /\ Signalled(u)')
    BY <1>3, <1>6, <1>8 DEF CondInv
  <1> QED BY <1>10, <1>11, <1>12, <1>13, <1>14, <1>15 DEF CondInv

\* cond_signal() takes the first element off the list ...
LEMMA PopWaiterSignals ==
  ASSUME TypeInv, CondInv, NEW t \in Thread, NEW c \in Cond,
         NEW label \in SignalLabel, PopWaiter(t, c, label),
         pc[t] \notin SignalLabel \cup WaitingLabel
  PROVE  CondInv'
  <1>1. TypeOK /\ cond_waiters[c] \in Seq(Thread) /\ cond_waiters[c] # <<>>
        /\ NoRepeats(cond_waiters[c])
    BY DEF TypeInv, TypeOK, PopWaiter, CondInv
  <1>2. PICK v \in Thread : /\ v = Head(cond_waiters[c])
                            /\ v \in Elems(cond_waiters[c])
                            /\ Elems(Tail(cond_waiters[c])) = Elems(cond_waiters[c]) \ {v}
                            /\ NoRepeats(Tail(cond_waiters[c]))
    BY <1>1, ElemsTail, NoRepeatsTail
  <1>3. /\ pc'[t] = label /\ \A u \in Thread \ {t} : pc'[u] = pc[u]
        /\ peer'[t] = v /\ \A u \in Thread \ {t} : peer'[u] = peer[u]
        /\ value' = value /\ waiters' = waiters
        /\ cond_waiters'[c] = Tail(cond_waiters[c])
        /\ \A d \in Cond \ {c} : cond_waiters'[d] = cond_waiters[d]
    BY <1>1, <1>2 DEF PopWaiter, Goto, TypeOK
  <1>4. Listed(v) /\ ~Signalled(v) /\ \A d \in Cond \ {c} : v \notin Elems(cond_waiters[d])
    BY <1>2 DEF Listed, CondInv
  <1>5. ~Listed(v)' /\ \A u \in Thread \ {v} : Listed(u)' <=> Listed(u)
    BY <1>2, <1>3, <1>4 DEF Listed
  <1>6. Signalled(v)' /\ \A u \in Thread \ {v} : Signalled(u)' <=> Signalled(u)
    BY <1>3 DEF Signalled
  <1>7. \A u \in Thread : Waits(u)' <=> Waits(u)
    BY <1>3 DEF Waits, SignalLabel, WaitingLabel
  <1>8. \A d \in Cond : NoRepeats(cond_waiters'[d])
    BY <1>2, <1>3 DEF CondInv
  <1>9. ASSUME NEW d \in Cond, NEW e \in Cond, NEW u \in Elems(cond_waiters'[d]),
               u \in Elems(cond_waiters'[e])
        PROVE  d = e
    BY <1>2, <1>3, <1>9 DEF CondInv
  <1>10. ASSUME NEW u \in Thread, NEW w \in Thread,
                pc'[u] \in SignalLabel, pc'[w] \in SignalLabel, peer'[u] = peer'[w]
         PROVE  u = w
    <2>1. \A x \in Thread \ {t} : pc[x] \in SignalLabel => peer[x] # v
      BY <1>4 DEF Signalled
    <2> QED BY <1>3, <1>10, <2>1 DEF CondInv
  <1>11. \A u \in Thread : Waits(u)' <=> Listed(u)' \/ Signalled(u)'
    BY <1>4, <1>5, <1>6, <1>7 DEF CondInv
  <1>12. \A u \in Thread : ~(Listed(u)' /\ Signalled(u)')
    BY <1>5, <1>6 DEF CondInv
  <1>13. \A u \in Thread : value'[u] > 0 => waiters'[u] = <<>>
    BY <1>3 DEF CondInv
  <1> QED BY <1>8, <1>9, <1>10, <1>11, <1>12, <1>13 DEF CondInv

\* ... and ups the waiter's semaphore, on which nobody else can sleep.
LEMMA SignalUpSignals ==
  ASSUME TypeInv, ListInv, CondInv, NEW t \in Thread, SignalUp(t)
  PROVE  CondInv'
  <1>1. PICK v \in Thread : /\ v = peer[t] /\ v \in AnySema
                            /\ TypeOK /\ pc[t] \in SignalLabel
    BY DEF TypeInv, CallOK, SignalUp, SignalLabel, CreateLabel, AnySema
  <1>2. Signalled(v) /\ ~Listed(v) /\ Waits(v) /\ v # t
    BY <1>1 DEF Signalled, CondInv, Waits, SignalLabel, WaitingLabel
  <1>3. /\ pc'[t] \in {"run", "bcast"} /\ \A u \in Thread \ {t} : pc'[u] = pc[u]
        /\ \A u \in Thread \ {t} : peer'[u] = peer[u]
        /\ value'[v] = value[v] + 1
        /\ \A u \in Thread \ {v} : value'[u] = value[u]
        /\ cond_waiters' = cond_waiters
    BY <1>1 DEF SignalUp, SemaUp, Goto, TypeOK, AnySema
  <1>4. waiters'[v] = <<>> /\ \A u \in Thread \ {v} : waiters'[u] = waiters[u]
    <2>1. waiters[v] \in Seq(Thread) /\ waiters \in [AnySema -> Seq(Thread)]
      BY <1>1 DEF TypeOK
    <2>2. \A u \in Elems(waiters[v]) : u = v
      <3> TAKE u \in Elems(waiters[v])
      <3>1. u \in Thread /\ pc[u] \in DownLabel /\ SemaOf(u) = v
        BY <1>1, SleeperFacts
      <3>2. arg[u] \notin Thread
        BY <1>1, <3>1, ThreadAssumption, SynchAssumption DEF TypeOK
      <3> QED BY <1>1, <3>1, <3>2 DEF SemaOf
    <2>3. CASE waiters[v] = <<>>
      BY <1>1, <2>1, <2>3 DEF SignalUp, SemaUp
    <2>4. CASE waiters[v] # <<>>
      <3>1. /\ Elems(Tail(waiters[v])) = Elems(waiters[v]) \ {Head(waiters[v])}
            /\ Head(waiters[v]) \in Elems(waiters[v])
            /\ Tail(waiters[v]) \in Seq(Thread)
        BY <1>1, <2>1, <2>4, ElemsTail, NoRepeatsTail DEF ListInv, WaitersOK
      <3>2. Elems(Tail(waiters[v])) = {}
        BY <2>2, <3>1
      <3>4. Tail(waiters[v]) = <<>>
        BY <3>1, <3>2, ElemsTail
      <3>5. waiters' = [waiters EXCEPT ![v] = Tail(waiters[v])]
        BY <1>1, <2>4 DEF SignalUp, SemaUp
      <3> QED BY <1>1, <2>1, <3>4, <3>5
    <2> QED BY <2>3, <2>4
  <1>5. ~Waits(v)' /\ \A u \in Thread \ {v} : Waits(u)' <=> Waits(u)
    <2>1. value[v] = 0
      BY <1>2 DEF Waits
    <2>2. ~(pc[t] \in WaitingLabel) /\ ~(pc'[t] \in WaitingLabel)
      BY <1>1, <1>3 DEF SignalLabel, WaitingLabel
    <2> QED BY <1>3, <2>1, <2>2 DEF Waits
  <1>6. \A u \in Thread : Listed(u)' <=> Listed(u)
    BY <1>3 DEF Listed
  <1>7. \A u \in Thread : pc'[u] \in SignalLabel => u # t /\ pc[u] \in SignalLabel
    BY <1>3 DEF SignalLabel
  <1>8. ~Signalled(v)' /\ \A u \in Thread \ {v} : Signalled(u)' <=> Signalled(u)
    <2>1. \A u \in Thread \ {t} : pc[u] \in SignalLabel => peer[u] # v
      BY <1>1 DEF CondInv
    <2>2. ~Signalled(v)'
      BY <1>3, <1>7, <2>1 DEF Signalled
    <2>3. ASSUME NEW u \in Thread \ {v}  PROVE Signalled(u)' <=> Signalled(u)
      BY <1>1, <1>3, <1>7 DEF Signalled
    <2> QED BY <2>2, <2>3
  <1>9. \A u, w \in Thread :
          pc'[u] \in SignalLabel /\ pc'[w] \in SignalLabel /\ peer'[u] = peer'[w] => u = w
    BY <1>3, <1>7 DEF CondInv
  <1>10. \A u \in Thread : Waits(u)' <=> Listed(u)' \/ Signalled(u)'
    BY <1>2, <1>5, <1>6, <1>8 DEF CondInv
  <1>11. \A u \in Thread : ~(Listed(u)' /\ Signalled(u)')
    BY <1>2, <1>6, <1>8 DEF CondInv
  <1>12. \A u \in Thread : value'[u] > 0 => waiters'[u] = <<>>
    BY <1>3, <1>4 DEF CondInv
  <1> QED BY <1>3, <1>9, <1>10, <1>11, <1>12 DEF CondInv

\* sema_down(&waiter.semaphore): a waiter that is not signalled sleeps.
LEMMA OwnDownSignals ==
  ASSUME TypeInv, CondInv, NEW t \in Thread, pc[t] \in {"wait_call", "wait_down"},
         SemaDown(t, t, "relock", "wait_down"),
         UNCHANGED <<cond_waiters, peer>>
  PROVE  CondInv'
  <1>1. TypeOK /\ t \in AnySema
    BY DEF TypeInv, AnySema
  <1>2. \A u \in Thread \ {t} :
          /\ pc'[u] = pc[u] /\ value'[u] = value[u] /\ waiters'[u] = waiters[u]
    BY <1>1 DEF SemaDown, Goto, TypeOK, AnySema
  <1>3. \/ value[t] > 0 /\ pc'[t] = "relock" /\ waiters'[t] = waiters[t]
        \/ value[t] = 0 /\ value'[t] = 0 /\ pc'[t] = "wait_down"
    BY <1>1 DEF SemaDown, Goto, TypeOK
  <1>4. \A u \in Thread : Waits(u)' <=> Waits(u)
    <2>1. Waits(t)' <=> Waits(t)
      BY <1>3 DEF Waits, WaitingLabel
    <2> QED BY <1>2, <2>1 DEF Waits
  <1>5. \A u \in Thread : pc'[u] \in SignalLabel <=> pc[u] \in SignalLabel
    BY <1>2, <1>3 DEF SignalLabel
  <1>6. \A u \in Thread : value'[u] > 0 => waiters'[u] = <<>>
    BY <1>2, <1>3 DEF CondInv
  <1> QED BY <1>4, <1>5, <1>6, CondKept

\* A step of the running thread t elsewhere.
LEMMA CondPlainOwn ==
  ASSUME CondInv, cond_waiters' = cond_waiters, NEW t \in Thread,
         \A u \in Thread \ {t} : pc'[u] = pc[u] /\ peer'[u] = peer[u],
         {pc[t], pc'[t]} \cap (WaitingLabel \cup SignalLabel) = {},
         \A u \in Thread : value'[u] = value[u] /\ waiters'[u] = waiters[u]
  PROVE  CondInv'
  BY CondPlain DEF FarFromConds

\* sema_down() elsewhere.
LEMMA CondDown ==
  ASSUME TypeInv, CondInv, NEW t \in Thread, NEW s \in Sema \cup Lock,
         NEW done \in Label, NEW asleep \in Label, SemaDown(t, s, done, asleep),
         {pc[t], done, asleep} \cap (WaitingLabel \cup SignalLabel) = {},
         UNCHANGED <<cond_waiters, peer>>
  PROVE  CondInv'
  <1>1. /\ pc'[t] \in {done, asleep} /\ \A u \in Thread \ {t} : pc'[u] = pc[u]
    BY DEF SemaDown, Goto, TypeInv, TypeOK
  <1>2. \A u \in Thread : value'[u] = value[u] /\ waiters'[u] = waiters[u]
    BY OtherSemas
  <1> QED BY <1>1, <1>2, CondPlainOwn

\* What is still to come of cond_wait(), before sema_down().
LEMMA WaitUnlockSignals ==
  ASSUME TypeInv, CondInv, NEW t \in Thread, WaitClearHolder(t) \/ WaitUnlock(t)
  PROVE  CondInv'
  <1>1. /\ {pc[t], pc'[t]} \subseteq {"wait_unlock", "wait_up", "wait_call"}
        /\ \A u \in Thread \ {t} : pc'[u] = pc[u]
        /\ UNCHANGED <<peer, cond_waiters>>
    BY DEF WaitClearHolder, ClearHolder, WaitUnlock, At, Goto, TypeInv, TypeOK
  <1>2. \A u \in Thread : value'[u] = value[u] /\ waiters'[u] = waiters[u]
    <2>1. CASE WaitClearHolder(t)
      BY <2>1 DEF WaitClearHolder, ClearHolder
    <2>2. CASE WaitUnlock(t)
      <3>1. arg[t] \in Lock /\ SemaUp(arg[t])
        BY <2>2 DEF WaitUnlock, At, TypeInv, CallOK, WaitLabel
      <3> QED BY <3>1, OtherSemas
    <2> QED BY <2>1, <2>2
  <1>3. \A u \in Thread : Waits(u)' <=> Waits(u)
    BY <1>1, <1>2 DEF Waits, WaitingLabel
  <1>4. \A u \in Thread : pc'[u] \in SignalLabel <=> pc[u] \in SignalLabel
    BY <1>1 DEF SignalLabel
  <1>5. \A u \in Thread : value'[u] > 0 => waiters'[u] = <<>>
    BY <1>2 DEF CondInv
  <1> QED BY <1>1, <1>3, <1>4, <1>5, CondKept

LEMMA KernelStepSignals ==
  ASSUME TypeInv, ListInv, CondInv, NEW t \in Thread, KernelStep(t)
  PROVE  CondInv'
  <1> USE SynchAssumption
      DEF At, Goto, CreateLabel, LockLabel, WaitLabel, WaitingLabel, SignalLabel
  <1>1. TypeOK /\ CallOK(t)
    BY DEF TypeInv
  <1>2. CASE SemaDownLoop(t)
    <2>1. /\ pc[t] \in DownLabel /\ SemaDown(t, SemaOf(t), DownThen(pc[t]), pc[t])
          /\ UNCHANGED <<cond_waiters, peer>>
      BY <1>2 DEF SemaDownLoop, SemaOf
    <2>2. CASE pc[t] = "wait_down"
      BY <2>1, <2>2, OwnDownSignals DEF SemaOf, DownThen
    <2>3. CASE pc[t] # "wait_down"
      <3>1. SemaOf(t) \in Sema \cup Lock
        BY <1>1, <2>1, <2>3 DEF SemaOf, CallOK, DownLabel
      <3>2. /\ pc[t] \in Label /\ DownThen(pc[t]) \in Label
            /\ {pc[t], DownThen(pc[t])} \cap (WaitingLabel \cup SignalLabel) = {}
        BY <2>1, <2>3 DEF DownLabel, DownThen, Label
      <3> QED BY <2>1, <3>1, <3>2, CondDown
    <2> QED BY <2>2, <2>3
  <1>3. CASE LockSetHolder(t)
    BY <1>1, <1>3, CondPlainOwn DEF LockSetHolder, TypeOK
  <1>4. CASE LockReleaseUp(t)
    <2>1. \A u \in Thread : value'[u] = value[u] /\ waiters'[u] = waiters[u]
      BY <1>1, <1>4, OtherSemas DEF LockReleaseUp, CallOK
    <2> QED BY <1>1, <1>4, <2>1, CondPlainOwn DEF LockReleaseUp, TypeOK
  <1>5. CASE WaitClearHolder(t) \/ WaitUnlock(t)
    BY <1>5, WaitUnlockSignals
  <1>6. CASE WaitDown(t)
    BY <1>6, OwnDownSignals DEF WaitDown
  <1>7. CASE Relock(t)
    BY <1>1, <1>7, CondDown DEF Relock, CallOK, Label, DownLabel
  <1>8. CASE SignalUp(t)
    BY <1>8, SignalUpSignals
  <1>9. CASE BroadcastNext(t)
    BY <1>1, <1>9, PopWaiterSignals DEF BroadcastNext, CallOK
  <1>10. CASE BroadcastDone(t)
    BY <1>1, <1>10, CondPlainOwn DEF BroadcastDone, TypeOK, syncVars
  <1>11. CASE TidAcquire(t)
    BY <1>1, <1>11, CondDown DEF TidAcquire, Label, DownLabel
  <1>12. CASE TidRead(t) \/ TidWrite(t)
    <2>1. CASE TidRead(t)
      BY <1>1, <2>1, CondPlainOwn DEF TidRead, TypeOK, syncVars
    <2>2. CASE TidWrite(t)
      BY <1>1, <2>2, CondPlainOwn DEF TidWrite, TypeOK, syncVars
    <2> QED BY <1>12, <2>1, <2>2
  <1>13. CASE TidRelease(t)
    BY <1>1, <1>13, CondPlainOwn DEF TidRelease, ClearHolder, TypeOK
  <1>14. CASE CreateUnblock(t)
    <2>1. pc[t] = "unblock" /\ peer[t] \in Thread /\ pc[peer[t]] = "none"
      BY <1>14, CreatingFacts DEF CreateUnblock, Creating
    <2>2. \A u \in Thread : FarFromConds(u)
      BY <1>1, <1>14, <2>1 DEF CreateUnblock, FarFromConds, TypeOK
    <2> QED BY <1>14, <2>2, CondPlain DEF CreateUnblock, syncVars
  <1> QED
    BY <1>2, <1>3, <1>4, <1>5, <1>6, <1>7, <1>8, <1>9, <1>10, <1>11, <1>12,
       <1>13, <1>14 DEF KernelStep

LEMMA CallSignals ==
  ASSUME TypeInv, CondInv, NEW t \in Thread, Call(t)
  PROVE  CondInv'
  <1> USE DEF At, Goto, WaitingLabel, SignalLabel
  <1>1. TypeOK
    BY DEF TypeInv
  <1>2. ASSUME NEW s \in Sema, CallSemaDown(t, s)  PROVE CondInv'
    BY <1>2, CondDown DEF CallSemaDown, Label, DownLabel
  <1>3. ASSUME NEW s \in Sema, CallSemaTryDown(t, s) \/ CallSemaUp(t, s)
        PROVE  CondInv'
    <2>1. \A u \in Thread : value'[u] = value[u] /\ waiters'[u] = waiters[u]
      <3>1. CASE CallSemaTryDown(t, s)
        BY <1>1, <3>1, SynchAssumption DEF CallSemaTryDown, TypeOK, AnySema
      <3>2. CASE CallSemaUp(t, s)
        BY <3>2, OtherSemas DEF CallSemaUp
      <3> QED BY <1>3, <3>1, <3>2
    <2> QED BY <1>3, <2>1, CondPlainOwn DEF CallSemaTryDown, CallSemaUp, callVars
  <1>4. ASSUME NEW l \in Lock, LockAcquire(t, l)  PROVE CondInv'
    BY <1>4, CondDown DEF LockAcquire, Label, DownLabel
  <1>5. ASSUME NEW l \in Lock, LockTryAcquire(t, l)  PROVE CondInv'
    <2>1. \A u \in Thread : value'[u] = value[u] /\ waiters'[u] = waiters[u]
      BY <1>1, <1>5, SynchAssumption DEF LockTryAcquire, TypeOK, AnySema
    <2> QED BY <1>1, <1>5, <2>1, CondPlainOwn DEF LockTryAcquire, TypeOK
  <1>6. ASSUME NEW l \in Lock, LockRelease(t, l)  PROVE CondInv'
    BY <1>1, <1>6, CondPlainOwn DEF LockRelease, ClearHolder, TypeOK
  <1>7. ASSUME NEW c \in Cond, CondWait(t, c)  PROVE CondInv'
    BY <1>7, CondWaitSignals
  <1>8. ASSUME NEW c \in Cond, CondSignal(t, c)  PROVE CondInv'
    BY <1>8, PopWaiterSignals DEF CondSignal
  <1>9. ASSUME NEW c \in Cond, CondBroadcast(t, c)  PROVE CondInv'
    BY <1>1, <1>9, CondPlainOwn DEF CondBroadcast, TypeOK, syncVars
  <1>10. ASSUME NEW u \in Thread, ThreadCreate(t, u)  PROVE CondInv'
    BY <1>1, <1>10, CondPlainOwn DEF ThreadCreate, TypeOK, syncVars
  <1>11. CASE CallYield(t)
    BY <1>11, CondPlainOwn DEF CallYield, callVars, syncVars
  <1>12. CASE CallExit(t)
    BY <1>1, <1>12, CondPlainOwn DEF CallExit, TypeOK, syncVars
  <1> QED
    BY <1>2, <1>3, <1>4, <1>5, <1>6, <1>7, <1>8, <1>9, <1>10, <1>11, <1>12 DEF Call

LEMMA OutsideSignals ==
  ASSUME TypeInv, CondInv,
         TimerTick \/ (\E s \in IntrSema : DeviceUp(s)) \/ BootStep
  PROVE  CondInv'
  <1> USE ThreadAssumption, SynchAssumption
      DEF At, Goto, WaitingLabel, SignalLabel
  <1>1. TypeOK
    BY DEF TypeInv
  <1>2. CASE TimerTick \/ \E s \in IntrSema : DeviceUp(s)
    <2>1. /\ pc' = AwakenIdle(pc) /\ peer' = peer /\ cond_waiters' = cond_waiters
      BY <1>2 DEF TimerTick, DeviceUp, syncVars
    <2>2. \A u \in Thread : FarFromConds(u)
      BY <1>1, <2>1 DEF AwakenIdle, TypeOK, FarFromConds
    <2>3. \A u \in Thread : value'[u] = value[u] /\ waiters'[u] = waiters[u]
      BY <1>2, OtherSemas DEF TimerTick, DeviceUp, syncVars
    <2> QED BY <2>1, <2>2, <2>3, CondPlain
  <1>3. CASE BootCreateIdle
    <2>1. pc[Main] = "boot_create" /\ pc[Idle] = "none"
      BY <1>3 DEF BootCreateIdle, TypeInv, BootOK, ChildOK
    <2>2. \A u \in Thread : FarFromConds(u)
      BY <1>1, <1>3, <2>1 DEF BootCreateIdle, FarFromConds, TypeOK
    <2> QED BY <1>3, <2>2, CondPlain DEF BootCreateIdle, syncVars
  <1>4. CASE BootEnable
    BY <1>1, <1>4, CondPlainOwn DEF BootEnable, TypeOK, syncVars
  <1>5. CASE BootWait
    BY <1>5, CondDown DEF BootWait, Label, DownLabel
  <1>6. CASE IdleStart
    BY <1>1, <1>6, CondPlainOwn DEF IdleStart, TypeOK, syncVars
  <1>7. CASE IdleUp
    <2>1. \A u \in Thread : value'[u] = value[u] /\ waiters'[u] = waiters[u]
      BY <1>7, OtherSemas DEF IdleUp
    <2> QED BY <1>1, <1>7, <2>1, CondPlainOwn DEF IdleUp, TypeOK
  <1>8. CASE IdleBlock
    BY <1>1, <1>8, CondPlainOwn DEF IdleBlock, TypeOK, syncVars
  <1> QED BY <1>2, <1>3, <1>4, <1>5, <1>6, <1>7, <1>8 DEF BootStep

LEMMA CondInvInit == Init => CondInv
  <1> SUFFICES ASSUME Init  PROVE CondInv
    OBVIOUS
  <1> USE ThreadAssumption, SynchAssumption DEF Init
  <1>1. \A t \in Thread : ~Listed(t) /\ ~Signalled(t) /\ ~Waits(t)
    BY DEF Listed, Signalled, Waits, Elems, SignalLabel, WaitingLabel
  <1>2. \A t \in Thread : pc[t] \notin SignalLabel
    BY DEF SignalLabel
  <1>3. \A c \in Cond : NoRepeats(cond_waiters[c]) /\ Elems(cond_waiters[c]) = {}
    BY DEF NoRepeats, Elems
  <1>4. \A t \in Thread : waiters[t] = <<>>
    BY DEF AnySema
  <1> QED BY <1>1, <1>2, <1>3, <1>4 DEF CondInv

LEMMA CondInvStep == TypeInv /\ ListInv /\ CondInv /\ [Next]_vars => CondInv'
  <1> SUFFICES ASSUME TypeInv, ListInv, CondInv, [Next]_vars  PROVE CondInv'
    OBVIOUS
  <1>1. CASE Next
    BY <1>1, OutsideSignals, KernelStepSignals, CallSignals DEF Next
  <1>2. CASE UNCHANGED vars
    BY <1>2, CondPlain DEF vars, syncVars, callVars, FarFromConds
  <1> QED BY <1>1, <1>2

LEMMA CondInvariant == Spec => []CondInv
  BY CondInvInit, CondInvStep, TypeInvariant, ListInvariant, PTL DEF Spec

\* A thread asleep in cond_wait() can still be signalled or has been.
LEMMA SignalsKept == TypeInv /\ CondInv => NoLostSignal
  <1> SUFFICES ASSUME TypeInv, CondInv, NEW t \in Thread,
                      pc[t] = "wait_down", t \in Elems(waiters[t])
               PROVE  Listed(t) \/ Signalled(t)
    BY DEF NoLostSignal, Listed, Signalled, SignalLabel
  <1>1. waiters[t] # <<>>
    BY DEF Elems
  <1>2. value[t] \in Nat
    BY DEF TypeInv, TypeOK, AnySema
  <1>3. Waits(t)
    BY <1>1, <1>2 DEF CondInv, Waits, WaitingLabel
  <1> QED BY <1>3 DEF CondInv

\* Nothing still points to a page that thread_exit() gave up: no list, no
\* lock, and no call in progress.
THEOREM NothingDangles == Spec => []NoDanglingThread
  <1>1. TypeInv /\ LockInv /\ ListInv /\ CondInv => NoDanglingThread
    <2> SUFFICES ASSUME TypeInv, LockInv, ListInv, CondInv,
                        NEW t \in Thread, status[t] \in Dead
                 PROVE  /\ t # current
                        /\ t \notin Elems(ready_list)
                        /\ \A s \in AnySema : t \notin Elems(waiters[s])
                        /\ \A c \in Cond : t \notin Elems(cond_waiters[c])
                        /\ \A l \in Lock : holder[l] # t
                        /\ \A u \in Thread : peer[u] # t
      BY DEF NoDanglingThread, Dead
    <2>1. pc[t] = "none" /\ held[t] = {}
      BY DEF ListInv
    <2>2. t # current /\ t \notin Elems(ready_list)
      BY DEF ListInv, RunQueueOK, Dead
    <2>3. \A s \in AnySema : t \notin Elems(waiters[s])
      BY SleeperFacts DEF Dead
    <2>4. ~Listed(t) /\ ~Signalled(t)
      BY <2>1 DEF CondInv, Waits, WaitingLabel
    <2>5. \A l \in Lock : holder[l] # t
      BY <2>1 DEF LockInv, HolderIsRight, InCritical
    <2>6. ASSUME NEW u \in Thread  PROVE peer[u] # t
      <3>1. CASE Creating(u)
        BY <3>1 DEF ListInv, Dead
      <3>2. CASE pc[u] \in SignalLabel
        BY <2>4, <3>2 DEF Signalled
      <3>3. CASE ~Creating(u) /\ pc[u] \notin SignalLabel
        BY <3>3, ThreadAssumption DEF TypeInv, CallOK, Creating, SignalLabel
      <3> QED BY <3>1, <3>2, <3>3
    <2> QED BY <2>2, <2>3, <2>4, <2>5, <2>6 DEF Listed
  <1>2. Spec => []LockInv
    BY LockInvInit, LockInvStep, TypeInvariant, PTL DEF Spec
  <1> QED BY <1>1, <1>2, TypeInvariant, ListInvariant, CondInvariant, PTL

-----------------------------------------------------------------------------
(* Wake-ups *)

(***************************************************************************)
(* WakeupsCoverValue is inductive with the lists; that the woken threads   *)
(* are finitely many, which their number needs, is part of it.             *)
(***************************************************************************)
WakeInv ==
    \A s \in AnySema :
        /\ IsFiniteSet(Woken(s))
        /\ waiters[s] # <<>> => value[s] <= Cardinality(Woken(s))

\* u's call moves outside sema_down(), if at all.
FarFromSleep(u) ==
    \/ pc'[u] = pc[u] /\ arg'[u] = arg[u]
    \/ {pc[u], pc'[u]} \cap DownLabel = {}

\* A step that adds no unit and neither queues nor wakes anybody.
LEMMA WakePlain ==
  ASSUME TypeInv, TypeInv', WakeInv,
         \A u \in Thread : FarFromSleep(u),
         \A s \in AnySema : waiters'[s] = waiters[s] /\ value'[s] <= value[s]
  PROVE  WakeInv'
  <1>1. \A s \in AnySema : Woken(s)' = Woken(s)
    BY DEF Woken, FarFromSleep, SemaOf
  <1>2. ASSUME NEW s \in AnySema, waiters'[s] # <<>>
        PROVE  value'[s] <= Cardinality(Woken(s)')
    <2>1. value[s] <= Cardinality(Woken(s)) /\ Cardinality(Woken(s)) \in Nat
      BY <1>2, FS_CardinalityType DEF WakeInv
    <2>2. value[s] \in Nat /\ value'[s] \in Nat
      BY DEF TypeInv, TypeOK
    <2>3. value'[s] <= value[s]
      OBVIOUS
    <2> DEFINE n == Cardinality(Woken(s))
    <2> HIDE DEF n
    <2>4. value'[s] <= n
      BY <2>1, <2>2, <2>3 DEF n
    <2> QED BY <1>1, <2>4 DEF n
  <1> QED BY <1>1, <1>2 DEF WakeInv

\* sema_up(): with the unit comes a woken thread.
LEMMA WakeUp ==
  ASSUME TypeInv, ListInv, WakeInv, NEW s \in AnySema, SemaUp(s),
         \A u \in Thread : FarFromSleep(u)
  PROVE  WakeInv'
  <1>1. /\ value \in [AnySema -> Nat] /\ waiters \in [AnySema -> Seq(Thread)]
        /\ value'[s] = value[s] + 1
        /\ \A r \in AnySema \ {s} : value'[r] = value[r] /\ waiters'[r] = waiters[r]
    BY DEF TypeInv, TypeOK, SemaUp
  <1>2. ASSUME NEW r \in AnySema, waiters'[r] = waiters[r]
        PROVE  Woken(r)' = Woken(r)
    BY <1>2 DEF Woken, FarFromSleep, SemaOf
  <1>3. CASE waiters[s] = <<>>
    <2>1. \A r \in AnySema : waiters'[r] = waiters[r]
      BY <1>1, <1>3 DEF SemaUp
    <2> QED BY <1>1, <1>2, <1>3, <2>1 DEF WakeInv
  <1>4. CASE waiters[s] # <<>>
    <2>1. waiters[s] \in Seq(Thread) /\ NoRepeats(waiters[s])
      BY <1>1 DEF ListInv, WaitersOK
    <2>2. PICK v \in Elems(waiters[s]) :
             Elems(Tail(waiters[s])) = Elems(waiters[s]) \ {v}
      BY <1>4, <2>1, ElemsTail, NoRepeatsTail
    <2>3. waiters'[s] = Tail(waiters[s])
      BY <1>1, <1>4 DEF SemaUp
    <2>4. v \in Thread /\ pc[v] \in DownLabel /\ SemaOf(v) = s
      BY SleeperFacts
    <2>5. Woken(s)' = Woken(s) \cup {v}
      <3>1. \A u \in Thread : pc'[u] \in DownLabel /\ SemaOf(u)' = s
                                <=> pc[u] \in DownLabel /\ SemaOf(u) = s
        BY DEF FarFromSleep, SemaOf
      <3> QED BY <2>2, <2>3, <2>4, <3>1 DEF Woken
    <2>6. v \notin Woken(s) /\ IsFiniteSet(Woken(s))
          /\ value[s] <= Cardinality(Woken(s))
      BY <1>4 DEF Woken, WakeInv
    <2>7. /\ IsFiniteSet(Woken(s)')
          /\ Cardinality(Woken(s)') = Cardinality(Woken(s)) + 1
          /\ Cardinality(Woken(s)) \in Nat
      BY <2>5, <2>6, FS_AddElement, FS_CardinalityType
    <2>8. value'[s] <= Cardinality(Woken(s)')
      <3> DEFINE n == Cardinality(Woken(s))
      <3>1. n \in Nat /\ value[s] <= n /\ value[s] \in Nat
        BY <1>1, <2>6, <2>7
      <3> HIDE DEF n
      <3>2. value[s] + 1 <= n + 1
        BY <3>1
      <3> QED BY <1>1, <2>7, <3>2 DEF n
    <2> QED BY <1>1, <1>2, <2>7, <2>8 DEF WakeInv
  <1> QED BY <1>3, <1>4

\* sema_down(): a unit is taken by one thread, woken or not; who sleeps found
\* no unit.
LEMMA WakeDown ==
  ASSUME TypeInv, ListInv, WakeInv, NEW t \in Thread, t = current, NEW s \in AnySema,
         NEW done \in Label \ DownLabel, NEW asleep \in DownLabel,
         SemaDown(t, s, done, asleep),
         pc[t] \in DownLabel => SemaOf(t) = s,
         pc'[t] = asleep => SemaOf(t)' = s,
         \A u \in Thread \ {t} : arg'[u] = arg[u]
  PROVE  WakeInv'
  <1>1. /\ value \in [AnySema -> Nat] /\ waiters \in [AnySema -> Seq(Thread)]
        /\ pc \in [Thread -> Label]
    BY DEF TypeInv, TypeOK
  <1>2. \A u \in Thread \ {t} : pc'[u] = pc[u] /\ SemaOf(u)' = SemaOf(u)
    BY <1>1 DEF SemaDown, Goto, SemaOf
  <1>3. \A r \in AnySema \ {s} : value'[r] = value[r] /\ waiters'[r] = waiters[r]
    BY <1>1 DEF SemaDown
  <1>4. pc'[t] \in DownLabel => SemaOf(t)' = s
    BY <1>1 DEF SemaDown, Goto
  <1>5. \A r \in AnySema \ {s} : Woken(r)' = Woken(r)
    BY <1>2, <1>3, <1>4 DEF Woken
  <1>6. Woken(s)' = Woken(s) \ {t}
    <2>1. CASE Goto(t, done) /\ waiters' = waiters
      <3>1. pc'[t] = done
        BY <1>1, <2>1 DEF Goto
      <3> QED BY <1>2, <2>1, <3>1 DEF Woken
    <2>2. CASE Goto(t, asleep) /\ waiters' = [waiters EXCEPT ![s] = Append(@, t)]
      <3>1. waiters'[s] = Append(waiters[s], t) /\ waiters[s] \in Seq(Thread)
        BY <1>1, <2>2
      <3>2. Elems(waiters'[s]) = Elems(waiters[s]) \cup {t}
        BY <3>1, ElemsAppend
      <3> QED BY <1>2, <3>2 DEF Woken
    <2> QED BY <2>1, <2>2 DEF SemaDown
  <1>7. /\ IsFiniteSet(Woken(s)) /\ IsFiniteSet(Woken(s)')
        /\ Cardinality(Woken(s)) \in Nat /\ Cardinality(Woken(s)') \in Nat
        /\ Cardinality(Woken(s)) <= Cardinality(Woken(s)') + 1
    <2>1. IsFiniteSet(Woken(s)) /\ Cardinality(Woken(s)) \in Nat
      BY FS_CardinalityType DEF WakeInv
    <2>2. IsFiniteSet(Woken(s) \ {t}) /\ Cardinality(Woken(s) \ {t}) \in Nat
      BY <2>1, FS_RemoveElement, FS_CardinalityType
    <2>3. Cardinality(Woken(s) \ {t}) = IF t \in Woken(s) THEN Cardinality(Woken(s)) - 1
                                                          ELSE Cardinality(Woken(s))
      BY <2>1, FS_RemoveElement
    <2> DEFINE n == Cardinality(Woken(s))
               m == Cardinality(Woken(s) \ {t})
    <2>4. n \in Nat /\ m \in Nat /\ (m = n - 1 \/ m = n)
      BY <2>1, <2>2, <2>3
    <2> HIDE DEF n, m
    <2>5. n <= m + 1
      BY <2>4
    <2> QED BY <1>6, <2>1, <2>2, <2>5 DEF n, m
  <1>8. ASSUME waiters'[s] # <<>>  PROVE value'[s] <= Cardinality(Woken(s)')
    <2> DEFINE n == Cardinality(Woken(s))
    <2> DEFINE m == Cardinality(Woken(s)')
    <2>1. n \in Nat /\ m \in Nat /\ n <= m + 1
      BY <1>7
    <2>2. CASE value[s] > 0 /\ value' = [value EXCEPT ![s] = @ - 1] /\ waiters' = waiters
      <3>1. value[s] <= n /\ value[s] \in Nat /\ value'[s] = value[s] - 1
        BY <1>1, <1>8, <2>2 DEF WakeInv
      <3> HIDE DEF n, m
      <3>2. value'[s] <= m
        BY <2>1, <2>2, <3>1
      <3> QED BY <3>2 DEF m
    <2>3. CASE value[s] = 0 /\ value' = value
      <3> HIDE DEF m
      <3>1. value'[s] <= m
        BY <2>1, <2>3
      <3> QED BY <3>1 DEF m
    <2> HIDE DEF n, m
    <2> QED BY <2>2, <2>3 DEF SemaDown, m
  <1> QED BY <1>3, <1>5, <1>7, <1>8 DEF WakeInv

\* cond_wait() begins on a semaphore nobody else knows.
LEMMA WakeCondWait ==
  ASSUME TypeInv, ListInv, WakeInv, NEW t \in Thread, NEW c \in Cond, CondWait(t, c)
  PROVE  WakeInv'
  <1>1. TypeOK /\ pc[t] = "run" /\ t \in AnySema
    BY DEF TypeInv, CondWait, At, AnySema
  <1>2. /\ pc'[t] = "wait_unlock"
        /\ \A u \in Thread \ {t} : pc'[u] = pc[u] /\ arg'[u] = arg[u]
        /\ waiters'[t] = <<>>
        /\ \A s \in AnySema \ {t} : value'[s] = value[s] /\ waiters'[s] = waiters[s]
    BY <1>1 DEF CondWait, Goto, TypeOK
  <1>3. \A s \in AnySema \ {t} : Woken(s)' = Woken(s)
    BY <1>1, <1>2 DEF Woken, SemaOf, DownLabel
  <1>4. Woken(t)' = {}
    <2>1. \A u \in Thread \ {t} : pc[u] \in DownLabel => SemaOf(u) # t
      <3>1. \A u \in Thread : arg[u] \notin Thread
        BY <1>1, ThreadAssumption, SynchAssumption DEF TypeOK
      <3> QED BY <3>1 DEF SemaOf
    <2> QED BY <1>2, <2>1 DEF Woken, SemaOf, DownLabel
  <1> QED BY <1>2, <1>3, <1>4, FS_EmptySet DEF WakeInv

LEMMA KernelStepWakes ==
  ASSUME TypeInv, TypeInv', ListInv, WakeInv, NEW t \in Thread, KernelStep(t)
  PROVE  WakeInv'
  <1> USE SynchAssumption
      DEF At, Goto, CreateLabel, LockLabel, WaitLabel, DownLabel, FarFromSleep
  <1>1. TypeOK /\ CallOK(t) /\ Thread \subseteq AnySema /\ Lock \subseteq AnySema
        /\ \A s \in AnySema : value[s] \in Nat
    BY DEF TypeInv, TypeOK, AnySema
  <1>2. CASE SemaDownLoop(t)
    <2>1. SemaOf(t) \in AnySema /\ SemaDown(t, SemaOf(t), DownThen(pc[t]), pc[t])
      BY <1>1, <1>2 DEF SemaDownLoop, SemaOf, AnySema, CallOK, TypeOK
    <2>2. pc[t] \in DownLabel /\ t = current /\ DownThen(pc[t]) \in Label \ DownLabel
      BY <1>2 DEF SemaDownLoop, DownThen, Label
    <2>3. \A u \in Thread \ {t} : arg'[u] = arg[u]
      BY <1>1, <1>2 DEF SemaDownLoop, TypeOK
    <2>4. pc'[t] = pc[t] => SemaOf(t)' = SemaOf(t)
      BY <1>1, <1>2, <2>2 DEF SemaDownLoop, SemaOf, TypeOK
    <2> QED BY <2>1, <2>2, <2>3, <2>4, WakeDown
  <1>3. CASE LockSetHolder(t)
    <2>1. \A u \in Thread : FarFromSleep(u)
      BY <1>1, <1>3 DEF LockSetHolder, TypeOK
    <2> QED BY <1>1, <1>3, <2>1, WakePlain DEF LockSetHolder
  <1>4. CASE LockReleaseUp(t)
    <2>1. \A u \in Thread : FarFromSleep(u)
      BY <1>1, <1>4 DEF LockReleaseUp, TypeOK
    <2> QED BY <1>1, <1>4, <2>1, WakeUp DEF LockReleaseUp, CallOK
  <1>5. CASE WaitClearHolder(t)
    <2>1. \A u \in Thread : FarFromSleep(u)
      BY <1>1, <1>5 DEF WaitClearHolder, ClearHolder, TypeOK
    <2> QED BY <1>1, <1>5, <2>1, WakePlain DEF WaitClearHolder, ClearHolder
  <1>6. CASE WaitUnlock(t)
    <2>1. \A u \in Thread : FarFromSleep(u)
      BY <1>1, <1>6 DEF WaitUnlock, TypeOK
    <2> QED BY <1>1, <1>6, <2>1, WakeUp DEF WaitUnlock, CallOK
  <1>7. CASE WaitDown(t)
    <2>1. pc'[t] = "wait_down" => SemaOf(t)' = t
      BY DEF SemaOf
    <2> QED BY <1>1, <1>7, <2>1, WakeDown DEF WaitDown, Label
  <1>8. CASE Relock(t)
    <2>1. pc'[t] = "relock_down" => SemaOf(t)' = arg[t]
      BY <1>8 DEF SemaOf, Relock
    <2> QED BY <1>1, <1>8, <2>1, WakeDown DEF Relock, Label, CallOK
  <1>9. CASE SignalUp(t)
    <2>1. \A u \in Thread : FarFromSleep(u)
      BY <1>1, <1>9 DEF SignalUp, TypeOK
    <2> QED BY <1>1, <1>9, <2>1, WakeUp DEF SignalUp, CallOK
  <1>10. CASE BroadcastNext(t)
    <2>1. \A u \in Thread : FarFromSleep(u)
      BY <1>1, <1>10 DEF BroadcastNext, PopWaiter, TypeOK
    <2> QED BY <1>1, <1>10, <2>1, WakePlain DEF BroadcastNext, PopWaiter
  <1>11. CASE BroadcastDone(t)
    <2>1. \A u \in Thread : FarFromSleep(u)
      BY <1>1, <1>11 DEF BroadcastDone, TypeOK
    <2> QED BY <1>1, <1>11, <2>1, WakePlain DEF BroadcastDone, syncVars
  <1>12. CASE TidAcquire(t)
    <2>1. pc'[t] = "lock_down" => SemaOf(t)' = TidLock
      BY <1>1, <1>12 DEF SemaOf, TidAcquire, CallOK
    <2> QED BY <1>1, <1>12, <2>1, WakeDown DEF TidAcquire, Label
  <1>13. CASE TidRead(t) \/ TidWrite(t)
    <2>1. \A u \in Thread : FarFromSleep(u)
      BY <1>1, <1>13 DEF TidRead, TidWrite, TypeOK
    <2> QED BY <1>1, <1>13, <2>1, WakePlain DEF TidRead, TidWrite, syncVars
  <1>14. CASE TidRelease(t)
    <2>1. \A u \in Thread : FarFromSleep(u)
      BY <1>1, <1>14 DEF TidRelease, ClearHolder, TypeOK
    <2> QED BY <1>1, <1>14, <2>1, WakePlain DEF TidRelease, ClearHolder
  <1>15. CASE CreateUnblock(t)
    <2>1. pc[t] = "unblock" /\ peer[t] \in Thread /\ pc[peer[t]] = "none"
      BY <1>15, CreatingFacts DEF CreateUnblock, Creating
    <2>2. \A u \in Thread : FarFromSleep(u)
      BY <1>1, <1>15, <2>1 DEF CreateUnblock, TypeOK
    <2> QED BY <1>1, <1>15, <2>2, WakePlain DEF CreateUnblock, syncVars
  <1> QED
    BY <1>2, <1>3, <1>4, <1>5, <1>6, <1>7, <1>8, <1>9, <1>10, <1>11, <1>12,
       <1>13, <1>14, <1>15 DEF KernelStep

LEMMA CallWakes ==
  ASSUME TypeInv, TypeInv', ListInv, WakeInv, NEW t \in Thread, Call(t)
  PROVE  WakeInv'
  <1> USE SynchAssumption DEF At, Goto, DownLabel, FarFromSleep
  <1>1. TypeOK /\ Sema \subseteq AnySema /\ Lock \subseteq AnySema
        /\ value \in [AnySema -> Nat]
    BY DEF TypeInv, TypeOK, AnySema
  <1>2. ASSUME NEW s \in Sema, CallSemaDown(t, s)  PROVE WakeInv'
    <2>1. /\ pc'[t] = "sema_down" => SemaOf(t)' = s
          /\ \A u \in Thread \ {t} : arg'[u] = arg[u]
      BY <1>1, <1>2 DEF CallSemaDown, SemaOf, TypeOK
    <2> QED BY <1>1, <1>2, <2>1, WakeDown DEF CallSemaDown, Label
  <1>3. ASSUME NEW s \in Sema, CallSemaTryDown(t, s)  PROVE WakeInv'
    <2>1. \A r \in AnySema : waiters'[r] = waiters[r] /\ value'[r] <= value[r]
      <3>1. value[s] - 1 <= value[s] /\ \A n \in Nat : n <= n
        BY <1>1
      <3> QED BY <1>1, <1>3, <3>1 DEF CallSemaTryDown
    <2> QED BY <1>3, <2>1, WakePlain DEF CallSemaTryDown, callVars
  <1>4. ASSUME NEW s \in Sema, CallSemaUp(t, s)  PROVE WakeInv'
    BY <1>1, <1>4, WakeUp DEF CallSemaUp, callVars
  <1>5. ASSUME NEW l \in Lock, LockAcquire(t, l)  PROVE WakeInv'
    <2>1. /\ pc'[t] = "lock_down" => SemaOf(t)' = l
          /\ \A u \in Thread \ {t} : arg'[u] = arg[u]
      BY <1>1, <1>5 DEF LockAcquire, SemaOf, TypeOK
    <2> QED BY <1>1, <1>5, <2>1, WakeDown DEF LockAcquire, Label
  <1>6. ASSUME NEW l \in Lock, LockTryAcquire(t, l)  PROVE WakeInv'
    <2>1. \A r \in AnySema : waiters'[r] = waiters[r] /\ value'[r] <= value[r]
      <3>1. value[l] - 1 <= value[l] /\ \A n \in Nat : n <= n
        BY <1>1
      <3> QED BY <1>1, <1>6, <3>1 DEF LockTryAcquire
    <2>2. \A u \in Thread : FarFromSleep(u)
      BY <1>1, <1>6 DEF LockTryAcquire, TypeOK
    <2> QED BY <2>1, <2>2, WakePlain
  <1>7. ASSUME NEW l \in Lock, LockRelease(t, l)  PROVE WakeInv'
    <2>1. \A u \in Thread : FarFromSleep(u)
      BY <1>1, <1>7 DEF LockRelease, ClearHolder, TypeOK
    <2> QED BY <1>1, <1>7, <2>1, WakePlain DEF LockRelease, ClearHolder
  <1>8. ASSUME NEW c \in Cond, CondWait(t, c)  PROVE WakeInv'
    BY <1>8, WakeCondWait
  <1>9. ASSUME NEW c \in Cond, CondSignal(t, c) \/ CondBroadcast(t, c)
        PROVE  WakeInv'
    <2>1. \A u \in Thread : FarFromSleep(u)
      BY <1>1, <1>9 DEF CondSignal, PopWaiter, CondBroadcast, TypeOK
    <2> QED BY <1>1, <1>9, <2>1, WakePlain DEF CondSignal, PopWaiter, CondBroadcast, syncVars
  <1>10. ASSUME NEW u \in Thread, ThreadCreate(t, u)  PROVE WakeInv'
    <2>1. \A v \in Thread : FarFromSleep(v)
      BY <1>1, <1>10 DEF ThreadCreate, TypeOK
    <2> QED BY <1>1, <1>10, <2>1, WakePlain DEF ThreadCreate, syncVars
  <1>11. CASE CallYield(t) \/ CallExit(t)
    <2>1. \A v \in Thread : FarFromSleep(v)
      BY <1>1, <1>11 DEF CallYield, CallExit, TypeOK, callVars
    <2> QED BY <1>1, <1>11, <2>1, WakePlain DEF CallYield, CallExit, syncVars
  <1> QED
    BY <1>2, <1>3, <1>4, <1>5, <1>6, <1>7, <1>8, <1>9, <1>10, <1>11 DEF Call

LEMMA OutsideWakes ==
  ASSUME TypeInv, TypeInv', ListInv, WakeInv,
         TimerTick \/ (\E s \in IntrSema : DeviceUp(s)) \/ BootStep
  PROVE  WakeInv'
  <1> USE ThreadAssumption, SynchAssumption DEF At, Goto, DownLabel, FarFromSleep
  <1>1. TypeOK /\ \A s \in AnySema : value[s] \in Nat
    BY DEF TypeInv, TypeOK
  <1>2. ASSUME pc' = AwakenIdle(pc), arg' = arg
        PROVE  \A u \in Thread : FarFromSleep(u)
    BY <1>1, <1>2 DEF AwakenIdle, TypeOK
  <1>3. CASE TimerTick
    BY <1>1, <1>2, <1>3, WakePlain DEF TimerTick, syncVars
  <1>4. ASSUME NEW s \in IntrSema, DeviceUp(s)  PROVE WakeInv'
    BY <1>2, <1>4, WakeUp DEF DeviceUp, AnySema
  <1>5. CASE BootCreateIdle
    <2>1. pc[Main] = "boot_create" /\ pc[Idle] = "none"
      BY <1>5 DEF BootCreateIdle, TypeInv, BootOK, ChildOK
    <2>2. \A u \in Thread : FarFromSleep(u)
      BY <1>1, <1>5, <2>1 DEF BootCreateIdle, TypeOK
    <2> QED BY <1>1, <1>5, <2>2, WakePlain DEF BootCreateIdle, syncVars
  <1>6. CASE BootEnable
    <2>1. \A u \in Thread : FarFromSleep(u)
      BY <1>1, <1>6 DEF BootEnable, TypeOK
    <2> QED BY <1>1, <1>6, <2>1, WakePlain DEF BootEnable, syncVars
  <1>7. CASE BootWait
    <2>1. /\ pc'[Main] = "sema_down" => SemaOf(Main)' = IdleStarted
          /\ \A u \in Thread \ {Main} : arg'[u] = arg[u]
      BY <1>1, <1>7 DEF BootWait, SemaOf, TypeOK
    <2> QED BY <1>1, <1>7, <2>1, WakeDown DEF BootWait, Label, AnySema
  <1>8. CASE IdleStart \/ IdleBlock
    <2>1. \A u \in Thread : FarFromSleep(u)
      BY <1>1, <1>8 DEF IdleStart, IdleBlock, TypeOK
    <2> QED BY <1>1, <1>8, <2>1, WakePlain DEF IdleStart, IdleBlock, syncVars
  <1>9. CASE IdleUp
    <2>1. \A u \in Thread : FarFromSleep(u)
      BY <1>1, <1>9 DEF IdleUp, TypeOK
    <2> QED BY <1>9, <2>1, WakeUp DEF IdleUp, AnySema
  <1> QED BY <1>3, <1>4, <1>5, <1>6, <1>7, <1>8, <1>9 DEF BootStep

LEMMA WakeInvInit == Init => WakeInv
  <1> SUFFICES ASSUME Init  PROVE WakeInv
    OBVIOUS
  <1> USE ThreadAssumption DEF Init
  <1>1. \A s \in AnySema : waiters[s] = <<>> /\ Woken(s) = {}
    BY DEF Woken, DownLabel
  <1> QED BY <1>1, FS_EmptySet DEF WakeInv

LEMMA WakeInvStep ==
  TypeInv /\ TypeInv' /\ ListInv /\ WakeInv /\ [Next]_vars => WakeInv'
  <1> SUFFICES ASSUME TypeInv, TypeInv', ListInv, WakeInv, [Next]_vars
               PROVE  WakeInv'
    OBVIOUS
  <1>1. CASE Next
    BY <1>1, OutsideWakes, KernelStepWakes, CallWakes DEF Next
  <1>2. CASE UNCHANGED vars
    <2>1. /\ \A u \in Thread : FarFromSleep(u)
          /\ waiters' = waiters /\ value' = value
      BY <1>2 DEF vars, syncVars, callVars, FarFromSleep
    <2>2. \A s \in AnySema : value'[s] <= value[s]
      BY <2>1 DEF TypeInv, TypeOK
    <2> QED BY <2>1, <2>2, WakePlain
  <1> QED BY <1>1, <1>2

\* No wake-up is lost: while threads sleep on a semaphore every unit of it
\* has a woken thread on its way, and a sleeping waiter of a condition can
\* still be signalled or has been.
THEOREM WakeupsKept == Spec => []NoWakeupLost
  <1>1. Spec => []WakeInv
    BY WakeInvInit, WakeInvStep, TypeInvariant, ListInvariant, PTL DEF Spec
  <1>2. WakeInv => WakeupsCoverValue
    BY DEF WakeInv, WakeupsCoverValue
  <1>3. TypeInv /\ CondInv /\ WakeInv => NoWakeupLost
    BY <1>2, SignalsKept DEF NoWakeupLost
  <1> QED BY <1>1, <1>3, TypeInvariant, CondInvariant, PTL

-----------------------------------------------------------------------------
(* The refinement of Monitor *)

LeftLabel == {"wait_call", "wait_down"}
HoldLabel == {"wait_unlock", "wait_up"}

(***************************************************************************)
(* What the mapping relies on: who broadcasts has the condition's lock;    *)
(* who is in a condition's list waits with its lock, and has left it       *)
(* unless it is the last of the list; who is being signalled has left it.  *)
(***************************************************************************)
MonInv ==
    /\ \A u \in Thread :
          pc[u] \in {"bcast", "bcast_up"} => LockOf[arg[u]] \in held[u]
    /\ \A c \in Cond : \A t \in Elems(cond_waiters[c]) : arg[t] = LockOf[c]
    /\ \A u \in Thread : pc[u] \in SignalLabel => pc[peer[u]] \in LeftLabel
    /\ \A c \in Cond : \A i \in 1..(Len(cond_waiters[c]) - 1) :
          pc[cond_waiters[c][i]] \in LeftLabel
    /\ \A t \in Thread : pc[t] \in HoldLabel => Listed(t)

\* A listed thread is in cond_wait().
LEMMA ListedFacts ==
  ASSUME TypeInv, CondInv, NEW c \in Cond, NEW t \in Elems(cond_waiters[c])
  PROVE  t \in Thread /\ Waits(t) /\ pc[t] \in WaitingLabel
  <1>1. t \in Thread
    BY DEF TypeInv, TypeOK, Elems
  <1>2. Listed(t)
    BY DEF Listed
  <1> QED BY <1>1, <1>2 DEF CondInv, Waits

\* A step that leaves the lists of the conditions alone.
LEMMA MonKept ==
  ASSUME TypeInv, CondInv, MonInv, cond_waiters' = cond_waiters,
         \A u \in Thread :
            /\ pc'[u] \in {"bcast", "bcast_up"} =>
                  \/ /\ pc[u] \in {"bcast", "bcast_up"}
                     /\ arg'[u] = arg[u] /\ held'[u] = held[u]
                  \/ LockOf[arg'[u]] \in held'[u]
            /\ pc[u] \in WaitingLabel => arg'[u] = arg[u]
            /\ pc'[u] \in SignalLabel => pc[u] \in SignalLabel /\ peer'[u] = peer[u]
            /\ Waits(u) /\ pc[u] \in LeftLabel => pc'[u] \in LeftLabel
            /\ pc'[u] \in HoldLabel => pc[u] \in HoldLabel
  PROVE  MonInv'
  <1>1. \A u \in Thread :
          pc'[u] \in {"bcast", "bcast_up"} => LockOf[arg'[u]] \in held'[u]
    BY DEF MonInv
  <1>2. \A c \in Cond : \A t \in Elems(cond_waiters[c]) : arg'[t] = LockOf[c]
    BY ListedFacts DEF MonInv
  <1>3. ASSUME NEW u \in Thread, pc'[u] \in SignalLabel
        PROVE  pc'[peer'[u]] \in LeftLabel
    <2>1. pc[u] \in SignalLabel /\ peer'[u] = peer[u] /\ peer[u] \in Thread
      BY <1>3 DEF TypeInv, CallOK, SignalLabel
    <2>2. Signalled(peer[u]) /\ pc[peer[u]] \in LeftLabel
      BY <2>1 DEF Signalled, MonInv
    <2>3. Waits(peer[u])
      BY <2>1, <2>2 DEF CondInv
    <2> QED BY <2>1, <2>2, <2>3
  <1>4. ASSUME NEW c \in Cond, NEW i \in 1..(Len(cond_waiters[c]) - 1)
        PROVE  pc'[cond_waiters[c][i]] \in LeftLabel
    <2>1. cond_waiters[c] \in Seq(Thread)
      BY DEF TypeInv, TypeOK
    <2>2. cond_waiters[c][i] \in Elems(cond_waiters[c])
      BY <2>1 DEF Elems
    <2> QED BY <2>2, ListedFacts DEF MonInv
  <1>5. \A t \in Thread : pc'[t] \in HoldLabel => Listed(t)'
    BY DEF MonInv, Listed
  <1> QED BY <1>1, <1>2, <1>3, <1>4, <1>5 DEF MonInv

\* The same when the call of t alone moves, and not into a critical part.
LEMMA MonKeptOwn ==
  ASSUME TypeInv, CondInv, MonInv, cond_waiters' = cond_waiters, NEW t \in Thread,
         \A u \in Thread \ {t} :
            /\ pc'[u] = pc[u] /\ peer'[u] = peer[u]
            /\ arg'[u] = arg[u] /\ held'[u] = held[u],
         pc[t] \notin WaitingLabel,
         pc'[t] \notin SignalLabel \cup HoldLabel,
         pc'[t] = "bcast" => LockOf[arg'[t]] \in held'[t]
  PROVE  MonInv'
  BY MonKept DEF WaitingLabel, LeftLabel, SignalLabel, HoldLabel

\* sema_down() elsewhere.
LEMMA MonDown ==
  ASSUME TypeInv, CondInv, MonInv, NEW t \in Thread, NEW s,
         NEW done, NEW asleep, SemaDown(t, s, done, asleep),
         pc[t] \notin WaitingLabel,
         {done, asleep} \cap (SignalLabel \cup HoldLabel \cup {"bcast"}) = {},
         \A u \in Thread \ {t} : arg'[u] = arg[u],
         UNCHANGED <<cond_waiters, peer, held>>
  PROVE  MonInv'
  <1>1. pc'[t] \in {done, asleep} /\ \A u \in Thread \ {t} : pc'[u] = pc[u]
    BY DEF SemaDown, Goto, TypeInv, TypeOK
  <1> QED BY <1>1, MonKeptOwn

\* sema_down(&waiter.semaphore).
LEMMA MonOwnDown ==
  ASSUME TypeInv, CondInv, MonInv, NEW t \in Thread, pc[t] \in LeftLabel,
         SemaDown(t, t, "relock", "wait_down"), arg'[t] = arg[t],
         \A u \in Thread \ {t} : arg'[u] = arg[u],
         UNCHANGED <<cond_waiters, peer, held>>
  PROVE  MonInv'
  <1>1. /\ \/ value[t] > 0 /\ pc'[t] = "relock"
           \/ value[t] = 0 /\ pc'[t] = "wait_down"
        /\ \A u \in Thread \ {t} : pc'[u] = pc[u]
    BY DEF SemaDown, Goto, TypeInv, TypeOK
  <1>2. Waits(t) => pc'[t] \in LeftLabel
    BY <1>1 DEF Waits, LeftLabel
  <1>3. pc'[t] \notin SignalLabel \cup HoldLabel \cup {"bcast", "bcast_up"}
    BY <1>1 DEF SignalLabel, HoldLabel
  <1> QED BY <1>1, <1>2, <1>3, MonKept

\* Whoever relies on the lock of c finds that everybody in the list has left.
LEMMA AllHaveLeft ==
  ASSUME TypeInv, LockInv, CondInv, MonInv, NEW t \in Thread, NEW c \in Cond,
         LockOf[c] \in held[t], pc[t] \notin WaitingLabel,
         NEW v \in Elems(cond_waiters[c])
  PROVE  pc[v] \in LeftLabel /\ v # t
  <1>1. v \in Thread /\ pc[v] \in WaitingLabel /\ arg[v] = LockOf[c]
    BY ListedFacts DEF MonInv
  <1>2. LockOf[c] \in Lock /\ Owns(t, LockOf[c])
    BY SynchAssumption DEF Owns
  <1>3. pc[v] \in HoldLabel => Owns(v, LockOf[c])
    BY <1>1 DEF TypeInv, CallOK, Owns, HoldLabel
  <1>4. pc[v] \in HoldLabel => v = t
    BY <1>1, <1>2, <1>3 DEF LockInv, MutualExclusion
  <1> QED BY <1>1, <1>4 DEF WaitingLabel, HoldLabel, LeftLabel

LEMMA MonPopWaiter ==
  ASSUME TypeInv, LockInv, CondInv, MonInv, NEW t \in Thread, NEW c \in Cond,
         NEW label \in SignalLabel, PopWaiter(t, c, label), LockOf[c] \in held[t],
         pc[t] \notin WaitingLabel \cup SignalLabel,
         label = "bcast_up" => pc[t] = "bcast", arg' = arg
  PROVE  MonInv'
  <1>1. TypeOK /\ cond_waiters[c] \in Seq(Thread) /\ cond_waiters[c] # <<>>
        /\ NoRepeats(cond_waiters[c])
    BY DEF TypeInv, TypeOK, PopWaiter, CondInv
  <1>2. PICK v \in Thread : /\ v = Head(cond_waiters[c])
                            /\ v \in Elems(cond_waiters[c])
                            /\ Elems(Tail(cond_waiters[c])) = Elems(cond_waiters[c]) \ {v}
    BY <1>1, ElemsTail, NoRepeatsTail
  <1>3. /\ pc'[t] = label /\ \A u \in Thread \ {t} : pc'[u] = pc[u]
        /\ peer'[t] = v /\ \A u \in Thread \ {t} : peer'[u] = peer[u]
        /\ held' = held
        /\ cond_waiters'[c] = Tail(cond_waiters[c])
        /\ \A d \in Cond \ {c} : cond_waiters'[d] = cond_waiters[d]
    BY <1>1, <1>2 DEF PopWaiter, Goto, TypeOK
  <1>4. \A w \in Elems(cond_waiters[c]) :
          w \in Thread /\ pc[w] \in LeftLabel /\ pc'[w] \in LeftLabel
    BY <1>3, AllHaveLeft, ListedFacts
  <1>5. \A u \in Thread :
          pc'[u] \in {"bcast", "bcast_up"} => LockOf[arg'[u]] \in held'[u]
    BY <1>3 DEF MonInv, SignalLabel
  <1>6. \A d \in Cond : \A w \in Elems(cond_waiters'[d]) : arg'[w] = LockOf[d]
    BY <1>2, <1>3 DEF MonInv
  <1>7. \A u \in Thread : pc'[u] \in SignalLabel => pc'[peer'[u]] \in LeftLabel
    <2>1. \A u \in Thread \ {t} : pc[u] \in SignalLabel =>
             peer[u] \in Thread \ {t} /\ pc[peer[u]] \in LeftLabel
      BY DEF TypeInv, CallOK, SignalLabel, MonInv, WaitingLabel, LeftLabel
    <2> QED BY <1>2, <1>3, <1>4, <2>1
  <1>8. ASSUME NEW d \in Cond, NEW i \in 1..(Len(cond_waiters'[d]) - 1)
        PROVE  pc'[cond_waiters'[d][i]] \in LeftLabel
    <2>1. CASE d = c
      <3>1. Elems(Tail(cond_waiters[c])) \subseteq Elems(cond_waiters[c])
        BY <1>2
      <3>2. Tail(cond_waiters[c]) \in Seq(Thread)
        BY <1>1, ElemsTail
      <3>3. i \in DOMAIN Tail(cond_waiters[c])
        <4>1. i \in 1..(Len(Tail(cond_waiters[c])) - 1)
          BY <1>3, <1>8, <2>1
        <4> QED BY <3>2, <4>1
      <3>4. Tail(cond_waiters[c])[i] \in Elems(cond_waiters[c])
        BY <3>1, <3>3 DEF Elems
      <3> QED BY <1>3, <1>4, <2>1, <3>4
    <2>2. CASE d # c
      <3>1. i \in 1..(Len(cond_waiters[d]) - 1) /\ cond_waiters[d] \in Seq(Thread)
        BY <1>1, <1>3, <1>8, <2>2 DEF TypeOK
      <3>2. pc[cond_waiters[d][i]] \in LeftLabel /\ cond_waiters[d][i] \in Thread
        BY <3>1 DEF MonInv
      <3>3. cond_waiters[d][i] # t
        BY <3>2 DEF WaitingLabel, LeftLabel
      <3> QED BY <1>3, <2>2, <3>2, <3>3
    <2> QED BY <2>1, <2>2
  <1>9. ASSUME NEW w \in Thread, pc'[w] \in HoldLabel  PROVE Listed(w)'
    <2>1. w # t
      BY <1>3, <1>9 DEF HoldLabel, SignalLabel
    <2>2. Listed(w) /\ w \notin Elems(cond_waiters[c])
      BY <1>3, <1>4, <1>9, <2>1 DEF MonInv, HoldLabel, LeftLabel
    <2> QED BY <1>3, <2>2 DEF Listed
  <1> QED BY <1>5, <1>6, <1>7, <1>8, <1>9 DEF MonInv

LEMMA MonCondWait ==
  ASSUME TypeInv, LockInv, CondInv, MonInv, NEW t \in Thread, NEW c \in Cond,
         CondWait(t, c)
  PROVE  MonInv'
  <1>1. TypeOK /\ pc[t] = "run" /\ cond_waiters[c] \in Seq(Thread)
        /\ LockOf[c] \in held[t]
    BY DEF TypeInv, TypeOK, CondWait, At
  <1>2. /\ pc'[t] = "wait_unlock" /\ arg'[t] = LockOf[c]
        /\ \A u \in Thread \ {t} : pc'[u] = pc[u] /\ arg'[u] = arg[u]
        /\ peer' = peer /\ held' = held
        /\ cond_waiters'[c] = Append(cond_waiters[c], t)
        /\ \A d \in Cond \ {c} : cond_waiters'[d] = cond_waiters[d]
    BY <1>1 DEF CondWait, Goto, TypeOK
  <1>3. Elems(cond_waiters'[c]) = Elems(cond_waiters[c]) \cup {t}
    BY <1>1, <1>2, ElemsAppend
  <1>4. \A d \in Cond : \A w \in Elems(cond_waiters[d]) : w # t /\ w \in Thread
    BY <1>1, ListedFacts DEF WaitingLabel
  <1>5. \A u \in Thread :
          pc'[u] \in {"bcast", "bcast_up"} => LockOf[arg'[u]] \in held'[u]
    BY <1>2 DEF MonInv
  <1>6. \A d \in Cond : \A w \in Elems(cond_waiters'[d]) : arg'[w] = LockOf[d]
    BY <1>2, <1>3, <1>4 DEF MonInv
  <1>7. \A u \in Thread : pc'[u] \in SignalLabel => pc'[peer'[u]] \in LeftLabel
    <2>1. \A u \in Thread : pc[u] \in SignalLabel =>
             peer[u] \in Thread \ {t} /\ pc[peer[u]] \in LeftLabel
      BY <1>1 DEF TypeInv, CallOK, SignalLabel, MonInv, LeftLabel
    <2> QED BY <1>2, <2>1 DEF SignalLabel
  <1>8. ASSUME NEW d \in Cond, NEW i \in 1..(Len(cond_waiters'[d]) - 1)
        PROVE  pc'[cond_waiters'[d][i]] \in LeftLabel
    <2>1. CASE d = c
      <3>1. /\ i \in DOMAIN cond_waiters[c]
            /\ cond_waiters'[d][i] = cond_waiters[c][i]
        BY <1>1, <1>2, <1>8, <2>1
      <3>2. cond_waiters[c][i] \in Elems(cond_waiters[c])
        BY <3>1 DEF Elems
      <3>3. pc[cond_waiters[c][i]] \in LeftLabel
        BY <1>1, <3>2, AllHaveLeft DEF WaitingLabel
      <3> QED BY <1>2, <1>4, <3>1, <3>2, <3>3
    <2>2. CASE d # c
      <3>1. i \in 1..(Len(cond_waiters[d]) - 1) /\ cond_waiters[d] \in Seq(Thread)
        BY <1>1, <1>2, <1>8, <2>2 DEF TypeOK
      <3>2. pc[cond_waiters[d][i]] \in LeftLabel /\ cond_waiters[d][i] \in Thread
        BY <3>1 DEF MonInv
      <3> QED BY <1>1, <1>2, <2>2, <3>2 DEF LeftLabel
    <2> QED BY <2>1, <2>2
  <1>9. \A w \in Thread : pc'[w] \in HoldLabel => Listed(w)'
    <2>1. Listed(t)'
      BY <1>3 DEF Listed
    <2>2. ASSUME NEW w \in Thread \ {t}, Listed(w)  PROVE Listed(w)'
      BY <1>2, <1>3, <2>2 DEF Listed
    <2> QED BY <1>2, <2>1, <2>2 DEF MonInv
  <1> QED BY <1>5, <1>6, <1>7, <1>8, <1>9 DEF MonInv

LEMMA KernelStepMon ==
  ASSUME TypeInv, LockInv, CondInv, MonInv, NEW t \in Thread, KernelStep(t)
  PROVE  MonInv'
  <1> USE SynchAssumption
      DEF At, Goto, WaitingLabel, SignalLabel, HoldLabel, LeftLabel
  <1>1. TypeOK /\ CallOK(t)
    BY DEF TypeInv
  <1>2. CASE SemaDownLoop(t)
    <2>1. /\ pc[t] \in DownLabel /\ SemaDown(t, SemaOf(t), DownThen(pc[t]), pc[t])
          /\ UNCHANGED <<cond_waiters, peer, held>>
          /\ \A u \in Thread \ {t} : arg'[u] = arg[u]
      BY <1>1, <1>2 DEF SemaDownLoop, SemaOf, TypeOK
    <2>2. CASE pc[t] = "wait_down"
      <3>1. SemaDown(t, t, "relock", "wait_down")
        BY <2>1, <2>2 DEF SemaOf, DownThen
      <3>2. arg'[t] = arg[t]
        BY <1>1, <1>2, <2>2, <3>1 DEF SemaDownLoop, SemaDown, TypeOK
      <3> QED BY <2>1, <2>2, <3>1, <3>2, MonOwnDown
    <2>3. CASE pc[t] # "wait_down"
      <3>1. /\ pc[t] \notin WaitingLabel
            /\ {DownThen(pc[t]), pc[t]}
                  \cap (SignalLabel \cup HoldLabel \cup {"bcast"}) = {}
        BY <2>1, <2>3 DEF DownLabel, DownThen
      <3> QED BY <2>1, <3>1, MonDown
    <2> QED BY <2>2, <2>3
  <1>3. CASE LockSetHolder(t)
    <2>1. /\ pc[t] \in {"lock_set", "relock_set"} /\ pc'[t] \in {"run", "tid"}
          /\ UNCHANGED <<cond_waiters, peer>>
          /\ \A u \in Thread \ {t} :
                pc'[u] = pc[u] /\ arg'[u] = arg[u] /\ held'[u] = held[u]
      BY <1>1, <1>3 DEF LockSetHolder, TypeOK
    <2> QED BY <2>1, MonKeptOwn
  <1>4. CASE LockReleaseUp(t)
    BY <1>1, <1>4, MonKeptOwn DEF LockReleaseUp, TypeOK
  <1>5. CASE WaitClearHolder(t)
    <2>1. /\ pc[t] = "wait_unlock" /\ pc'[t] = "wait_up"
          /\ arg'[t] = arg[t] /\ UNCHANGED <<cond_waiters, peer>>
          /\ \A u \in Thread \ {t} :
                pc'[u] = pc[u] /\ arg'[u] = arg[u] /\ held'[u] = held[u]
      BY <1>1, <1>5 DEF WaitClearHolder, ClearHolder, TypeOK
    <2> QED BY <2>1, MonKept
  <1>6. CASE WaitUnlock(t)
    BY <1>1, <1>6, MonKept DEF WaitUnlock, TypeOK
  <1>7. CASE WaitDown(t)
    BY <1>7, MonOwnDown DEF WaitDown
  <1>8. CASE Relock(t)
    BY <1>8, MonDown DEF Relock
  <1>9. CASE SignalUp(t)
    BY <1>1, <1>9, MonKept DEF SignalUp, TypeOK
  <1>10. CASE BroadcastNext(t)
    <2>1. LockOf[arg[t]] \in held[t] /\ arg[t] \in Cond
      BY <1>1, <1>10 DEF BroadcastNext, MonInv, CallOK
    <2> QED BY <1>10, <2>1, MonPopWaiter DEF BroadcastNext
  <1>11. CASE BroadcastDone(t)
    BY <1>1, <1>11, MonKeptOwn DEF BroadcastDone, TypeOK, syncVars
  <1>12. CASE TidAcquire(t)
    BY <1>12, MonDown DEF TidAcquire
  <1>13. CASE TidRead(t)
    BY <1>1, <1>13, MonKeptOwn DEF TidRead, TypeOK, syncVars
  <1>14. CASE TidWrite(t)
    BY <1>1, <1>14, MonKeptOwn DEF TidWrite, TypeOK, syncVars
  <1>15. CASE TidRelease(t)
    BY <1>1, <1>15, MonKeptOwn DEF TidRelease, ClearHolder, TypeOK
  <1>16. CASE CreateUnblock(t)
    <2>1. pc[t] = "unblock" /\ peer[t] \in Thread /\ pc[peer[t]] = "none"
      BY <1>16, CreatingFacts DEF CreateUnblock, Creating, CreateLabel
    <2>2. /\ \A u \in Thread \ {t, peer[t]} : pc'[u] = pc[u] /\ peer'[u] = peer[u]
          /\ pc'[t] = "run" /\ pc'[peer[t]] = "run"
          /\ UNCHANGED <<cond_waiters, arg, held>>
      BY <1>1, <1>16, <2>1 DEF CreateUnblock, TypeOK, syncVars
    <2> QED BY <2>1, <2>2, MonKept
  <1> QED
    BY <1>2, <1>3, <1>4, <1>5, <1>6, <1>7, <1>8, <1>9, <1>10, <1>11, <1>12,
       <1>13, <1>14, <1>15, <1>16 DEF KernelStep

LEMMA CallMon ==
  ASSUME TypeInv, LockInv, CondInv, MonInv, NEW t \in Thread, Call(t)
  PROVE  MonInv'
  <1> USE DEF At, Goto, WaitingLabel, SignalLabel, HoldLabel
  <1>1. TypeOK
    BY DEF TypeInv
  <1>2. ASSUME NEW s \in Sema, CallSemaDown(t, s)  PROVE MonInv'
    BY <1>1, <1>2, MonDown DEF CallSemaDown, TypeOK
  <1>3. ASSUME NEW s \in Sema, CallSemaTryDown(t, s) \/ CallSemaUp(t, s)
        PROVE  MonInv'
    BY <1>3, MonKeptOwn DEF CallSemaTryDown, CallSemaUp, callVars
  <1>4. ASSUME NEW l \in Lock, LockAcquire(t, l)  PROVE MonInv'
    BY <1>1, <1>4, MonDown DEF LockAcquire, TypeOK
  <1>5. ASSUME NEW l \in Lock, LockTryAcquire(t, l)  PROVE MonInv'
    BY <1>1, <1>5, MonKeptOwn DEF LockTryAcquire, TypeOK
  <1>6. ASSUME NEW l \in Lock, LockRelease(t, l)  PROVE MonInv'
    BY <1>1, <1>6, MonKeptOwn DEF LockRelease, ClearHolder, TypeOK
  <1>7. ASSUME NEW c \in Cond, CondWait(t, c)  PROVE MonInv'
    BY <1>7, MonCondWait
  <1>8. ASSUME NEW c \in Cond, CondSignal(t, c)  PROVE MonInv'
    BY <1>8, MonPopWaiter DEF CondSignal
  <1>9. ASSUME NEW c \in Cond, CondBroadcast(t, c)  PROVE MonInv'
    BY <1>1, <1>9, MonKeptOwn DEF CondBroadcast, TypeOK, syncVars
  <1>10. ASSUME NEW u \in Thread, ThreadCreate(t, u)  PROVE MonInv'
    BY <1>1, <1>10, MonKeptOwn DEF ThreadCreate, TypeOK, syncVars
  <1>11. CASE CallYield(t)
    BY <1>11, MonKeptOwn DEF CallYield, callVars, syncVars
  <1>12. CASE CallExit(t)
    BY <1>1, <1>12, MonKeptOwn DEF CallExit, TypeOK, syncVars
  <1> QED
    BY <1>2, <1>3, <1>4, <1>5, <1>6, <1>7, <1>8, <1>9, <1>10, <1>11, <1>12 DEF Call

\* What an interrupt or a step of boot does to the calls.
LEMMA OutsideCalls ==
  ASSUME TypeInv,
         TimerTick \/ (\E s \in IntrSema : DeviceUp(s)) \/ BootStep
  PROVE  /\ UNCHANGED <<cond_waiters, peer, held>>
         /\ \A u \in Thread :
               \/ pc'[u] = pc[u] /\ arg'[u] = arg[u]
               \/ {pc[u], pc'[u]} \subseteq
                     IdleLabel \cup {"run", "sema_down", "boot_create",
                                     "boot_enable", "boot_down"}
  <1> USE ThreadAssumption, SynchAssumption DEF At, Goto, IdleLabel
  <1>1. TypeOK /\ pc[Idle] \in IdleLabel
    BY DEF TypeInv, BootOK
  <1>2. CASE TimerTick \/ \E s \in IntrSema : DeviceUp(s)
    BY <1>1, <1>2 DEF TimerTick, DeviceUp, AwakenIdle, TypeOK, syncVars
  <1>3. CASE BootCreateIdle
    BY <1>1, <1>3 DEF BootCreateIdle, TypeOK, syncVars
  <1>4. CASE BootEnable
    BY <1>1, <1>4 DEF BootEnable, TypeOK, syncVars
  <1>5. CASE BootWait
    BY <1>1, <1>5 DEF BootWait, SemaDown, TypeOK
  <1>6. CASE IdleStart \/ IdleUp \/ IdleBlock
    BY <1>1, <1>6 DEF IdleStart, IdleUp, IdleBlock, TypeOK, syncVars
  <1> QED BY <1>2, <1>3, <1>4, <1>5, <1>6 DEF BootStep

LEMMA OutsideMon ==
  ASSUME TypeInv, CondInv, MonInv,
         TimerTick \/ (\E s \in IntrSema : DeviceUp(s)) \/ BootStep
  PROVE  MonInv'
  BY OutsideCalls, MonKept
     DEF WaitingLabel, SignalLabel, HoldLabel, LeftLabel, IdleLabel

LEMMA MonInvInit == Init => MonInv
  <1> SUFFICES ASSUME Init  PROVE MonInv
    OBVIOUS
  <1>1. \A t \in Thread : pc[t] \in {"boot_create", "none"}
    BY ThreadAssumption DEF Init
  <1>2. \A c \in Cond : cond_waiters[c] = <<>> /\ Elems(cond_waiters[c]) = {}
    BY DEF Init, Elems
  <1> QED BY <1>1, <1>2 DEF MonInv, SignalLabel, HoldLabel

LEMMA MonInvStep ==
  TypeInv /\ LockInv /\ CondInv /\ MonInv /\ [Next]_vars => MonInv'
  <1> SUFFICES ASSUME TypeInv, LockInv, CondInv, MonInv, [Next]_vars  PROVE MonInv'
    OBVIOUS
  <1>1. CASE Next
    BY <1>1, OutsideMon, KernelStepMon, CallMon DEF Next
  <1>2. CASE UNCHANGED vars
    BY <1>2, MonKept DEF vars, syncVars, callVars
  <1> QED BY <1>1, <1>2

LEMMA LockInvariant == Spec => []LockInv
  BY LockInvInit, LockInvStep, TypeInvariant, PTL DEF Spec

LEMMA MonInvariant == Spec => []MonInv
  BY MonInvInit, MonInvStep, TypeInvariant, LockInvariant, CondInvariant, PTL
     DEF Spec

-----------------------------------------------------------------------------
(* Every step is a step of Monitor, or changes nothing that Monitor sees *)

ReclaimLabel == {"wait_call", "wait_down", "relock", "relock_down"}

SameUnits == \A s \in Sema : value'[s] = value[s]
SameOwners == \A l \in Lock : OwnerOf(l)' = OwnerOf(l)
SameWaiting == \A c \in Cond : WaitingOn(c)' = WaitingOn(c)
SameReclaim == \A t \in Thread : ToReclaim(t)' = ToReclaim(t)

\* Only the call of t moves.
OnlyMoves(t) ==
    \A u \in Thread \ {t} :
        pc'[u] = pc[u] /\ arg'[u] = arg[u] /\ held'[u] = held[u]

MonStutter == UNCHANGED M!vars

LEMMA NothingSeen ==
  ASSUME SameUnits, SameOwners, SameWaiting, SameReclaim
  PROVE  MonStutter
  BY DEF MonStutter, M!vars, SameUnits, SameOwners, SameWaiting, SameReclaim

(* The owners *)

OwnersNamed ==
    \A l \in Lock :
       /\ \A t \in Thread : Owns(t, l) => OwnerOf(l) = t
       /\ (\A t \in Thread : ~Owns(t, l)) => OwnerOf(l) = NULL

LEMMA OwnerIs == LockInv => OwnersNamed
  <1> SUFFICES ASSUME MutualExclusion, NEW l \in Lock
               PROVE  /\ \A t \in Thread : Owns(t, l) => OwnerOf(l) = t
                      /\ (\A t \in Thread : ~Owns(t, l)) => OwnerOf(l) = NULL
    BY DEF OwnersNamed, LockInv
  <1>1. ASSUME NEW t \in Thread, Owns(t, l)  PROVE OwnerOf(l) = t
    BY <1>1 DEF MutualExclusion, OwnerOf
  <1>2. ASSUME \A t \in Thread : ~Owns(t, l)  PROVE OwnerOf(l) = NULL
    BY <1>2 DEF OwnerOf
  <1> QED BY <1>1, <1>2

LEMMA OwnerIsPrime == LockInv' => OwnersNamed'
  BY OwnerIs, PTL

LEMMA OwnersKept ==
  ASSUME LockInv, LockInv',
         \A u \in Thread, l \in Lock : Owns(u, l)' <=> Owns(u, l)
  PROVE  SameOwners
  BY OwnerIs, OwnerIsPrime DEF OwnersNamed, SameOwners

LEMMA OwnerTaken ==
  ASSUME LockInv, LockInv', NEW t \in Thread, NEW l \in Lock, value[l] > 0,
         \A u \in Thread, k \in Lock :
            Owns(u, k)' <=> Owns(u, k) \/ (u = t /\ k = l)
  PROVE  /\ OwnerOf(l) = NULL /\ OwnerOf(l)' = t
         /\ \A k \in Lock \ {l} : OwnerOf(k)' = OwnerOf(k)
  <1>1. \A u \in Thread : ~Owns(u, l)
    BY DEF LockInv, MutualExclusion
  <1> QED BY <1>1, OwnerIs, OwnerIsPrime DEF OwnersNamed

LEMMA OwnerGiven ==
  ASSUME LockInv, LockInv', NEW t \in Thread, NEW l \in Lock, Owns(t, l),
         \A u \in Thread, k \in Lock :
            Owns(u, k)' <=> Owns(u, k) /\ ~(u = t /\ k = l)
  PROVE  /\ OwnerOf(l) = t /\ OwnerOf(l)' = NULL
         /\ \A k \in Lock \ {l} : OwnerOf(k)' = OwnerOf(k)
  <1>1. \A u \in Thread : ~Owns(u, l)'
    BY DEF LockInv, MutualExclusion
  <1> QED BY <1>1, OwnerIs, OwnerIsPrime DEF OwnersNamed

\* Steps that move no unit of a lock.
LEMMA OwnsKept ==
  ASSUME NEW t \in Thread, OnlyMoves(t),
         \/ held'[t] = held[t] /\ {pc[t], pc'[t]} \cap UnitLabel = {}
         \/ /\ arg[t] \in Lock /\ arg'[t] = arg[t] /\ held'[t] = held[t]
            /\ {pc[t], pc'[t]} \subseteq UnitLabel
  PROVE  \A u \in Thread, l \in Lock : Owns(u, l)' <=> Owns(u, l)
  BY OwnsDef, OwnsDefPrime DEF OnlyMoves

(* The waiting threads *)

LEMMA WaitingKept ==
  ASSUME TypeInv, cond_waiters' = cond_waiters,
         \A u \in Thread : pc'[u] \in HoldLabel <=> pc[u] \in HoldLabel
  PROVE  SameWaiting
  <1> SUFFICES ASSUME NEW c \in Cond  PROVE WaitingOn(c)' = WaitingOn(c)
    BY DEF SameWaiting
  <1>1. CASE cond_waiters[c] = <<>>
    BY <1>1 DEF WaitingOn
  <1>2. CASE cond_waiters[c] # <<>>
    <2>1. cond_waiters[c][Len(cond_waiters[c])] \in Thread
      BY <1>2 DEF TypeInv, TypeOK
    <2> QED BY <1>2, <2>1 DEF WaitingOn, StillHolds, HoldLabel
  <1> QED BY <1>1, <1>2

LEMMA ReclaimKept ==
  ASSUME cond_waiters' = cond_waiters,
         \A u \in Thread : pc'[u] \in ReclaimLabel <=> pc[u] \in ReclaimLabel,
         \A u \in Thread : pc[u] \in ReclaimLabel => arg'[u] = arg[u]
  PROVE  SameReclaim
  BY DEF SameReclaim, ToReclaim, ReclaimLabel

\* The usual case: only t's call moves, and not in cond_wait().
LEMMA WaitingApart ==
  ASSUME TypeInv, NEW t \in Thread, OnlyMoves(t), cond_waiters' = cond_waiters,
         {pc[t], pc'[t]} \cap (HoldLabel \cup ReclaimLabel) = {}
  PROVE  SameWaiting /\ SameReclaim /\ ToReclaim(t) = NULL
  <1>1. SameWaiting
    BY WaitingKept DEF OnlyMoves
  <1>2. SameReclaim
    BY ReclaimKept DEF OnlyMoves
  <1>3. ToReclaim(t) = NULL
    BY DEF ToReclaim, ReclaimLabel
  <1> QED BY <1>1, <1>2, <1>3

(* P and V *)

LEMMA DownIsP ==
  ASSUME NEW s \in Sema, value \in [AnySema -> Nat], value[s] > 0,
         value' = [value EXCEPT ![s] = @ - 1],
         SameOwners, SameWaiting, SameReclaim
  PROVE  M!P(s)
  <1>1. \A r \in Sema : value'[r] = IF r = s THEN value[s] - 1 ELSE value[r]
    BY DEF AnySema
  <1> QED BY <1>1 DEF M!P, SameOwners, SameWaiting, SameReclaim

LEMMA UpIsV ==
  ASSUME NEW s \in Sema, value \in [AnySema -> Nat],
         value' = [value EXCEPT ![s] = @ + 1],
         SameOwners, SameWaiting, SameReclaim
  PROVE  M!V(s)
  <1>1. \A r \in Sema : value'[r] = IF r = s THEN value[s] + 1 ELSE value[r]
    BY DEF AnySema
  <1> QED BY <1>1 DEF M!V, SameOwners, SameWaiting, SameReclaim

\* sema_down() of a plain semaphore, by a thread that has nothing to do with
\* locks or conditions.
LEMMA PlainDown ==
  ASSUME TypeInv, LockInv, LockInv', NEW t \in Thread, NEW s \in Sema,
         NEW done, NEW asleep, SemaDown(t, s, done, asleep),
         {pc[t], done, asleep} \cap (UnitLabel \cup HoldLabel \cup ReclaimLabel) = {},
         \A u \in Thread \ {t} : arg'[u] = arg[u],
         UNCHANGED <<cond_waiters, held>>
  PROVE  M!P(s) \/ MonStutter
  <1>1. value \in [AnySema -> Nat] /\ pc \in [Thread -> Label]
    BY DEF TypeInv, TypeOK
  <1>2. OnlyMoves(t) /\ pc'[t] \in {done, asleep}
    BY <1>1 DEF SemaDown, Goto, OnlyMoves
  <1>3. SameOwners
    BY <1>2, OwnsKept, OwnersKept
  <1>4. SameWaiting /\ SameReclaim
    BY <1>2, WaitingApart
  <1>5. CASE value[s] > 0 /\ value' = [value EXCEPT ![s] = @ - 1]
    BY <1>1, <1>3, <1>4, <1>5, DownIsP
  <1>6. CASE value' = value
    BY <1>3, <1>4, <1>6, NothingSeen DEF SameUnits
  <1> QED BY <1>5, <1>6 DEF SemaDown

(* The locks *)

\* t gets the unit of l.
LEMMA TakesUnit ==
  ASSUME TypeInv, LockInv, LockInv', NEW t \in Thread, NEW l \in Lock,
         value[l] > 0, value' = [value EXCEPT ![l] = @ - 1],
         pc[t] \notin UnitLabel, pc'[t] \in UnitLabel, arg'[t] = l,
         held'[t] = held[t], OnlyMoves(t)
  PROVE  /\ SameUnits
         /\ OwnerOf(l) = NULL /\ OwnerOf(l)' = t
         /\ \A k \in Lock \ {l} : OwnerOf(k)' = OwnerOf(k)
  <1>1. \A u \in Thread, k \in Lock :
          Owns(u, k)' <=> Owns(u, k) \/ (u = t /\ k = l)
    BY OwnsDef, OwnsDefPrime DEF OnlyMoves
  <1>2. SameUnits
    BY SynchAssumption DEF SameUnits, TypeInv, TypeOK, AnySema
  <1> QED BY <1>1, <1>2, OwnerTaken

LEMMA TakeIsAcquire ==
  ASSUME TypeInv, LockInv, LockInv', NEW t \in Thread, NEW l \in Lock,
         value[l] > 0, value' = [value EXCEPT ![l] = @ - 1],
         pc[t] \notin UnitLabel \cup HoldLabel \cup ReclaimLabel,
         pc'[t] = "lock_set", arg'[t] = l,
         UNCHANGED <<held, cond_waiters>>, OnlyMoves(t)
  PROVE  M!Acquire(t, l)
  <1>1. "lock_set" \in UnitLabel /\ "lock_set" \notin HoldLabel \cup ReclaimLabel
    BY DEF UnitLabel, HalfLabel, HoldLabel, ReclaimLabel
  <1>2. SameWaiting /\ SameReclaim /\ ToReclaim(t) = NULL
    BY <1>1, WaitingApart
  <1>3. /\ SameUnits
        /\ OwnerOf(l) = NULL /\ OwnerOf(l)' = t
        /\ \A k \in Lock \ {l} : OwnerOf(k)' = OwnerOf(k)
    BY <1>1, TakesUnit
  <1> QED BY <1>2, <1>3 DEF M!Acquire, SameUnits, SameWaiting, SameReclaim

\* lock_acquire() by t.
LEMMA LockDown ==
  ASSUME TypeInv, LockInv, LockInv', NEW t \in Thread, NEW l \in Lock,
         NEW asleep, SemaDown(t, l, "lock_set", asleep),
         {pc[t], asleep} \cap (UnitLabel \cup HoldLabel \cup ReclaimLabel) = {},
         arg'[t] = l, \A u \in Thread \ {t} : arg'[u] = arg[u],
         UNCHANGED <<cond_waiters, held>>
  PROVE  M!Acquire(t, l) \/ MonStutter
  <1>1. value \in [AnySema -> Nat] /\ pc \in [Thread -> Label]
    BY DEF TypeInv, TypeOK
  <1>2. OnlyMoves(t)
    BY <1>1 DEF SemaDown, Goto, OnlyMoves
  <1>3. CASE /\ value[l] > 0 /\ value' = [value EXCEPT ![l] = @ - 1]
             /\ Goto(t, "lock_set")
    <2>1. pc'[t] = "lock_set"
      BY <1>1, <1>3 DEF Goto
    <2> QED BY <1>2, <1>3, <2>1, TakeIsAcquire
  <1>4. CASE value' = value /\ Goto(t, asleep)
    <2>1. pc'[t] = asleep
      BY <1>1, <1>4 DEF Goto
    <2>2. SameOwners
      BY <1>2, <2>1, OwnsKept, OwnersKept
    <2>3. SameWaiting /\ SameReclaim
      BY <1>2, <2>1, WaitingApart
    <2> QED BY <1>4, <2>2, <2>3, NothingSeen DEF SameUnits
  <1> QED BY <1>3, <1>4 DEF SemaDown

\* The first half of lock_release(): nobody sees it.
LEMMA ClearIsSilent ==
  ASSUME TypeInv, LockInv, LockInv', NEW t \in Thread, NEW l \in Lock,
         NEW label \in {"lock_up", "wait_up"}, ClearHolder(t, l, label),
         InCritical(t, l), pc[t] \in UnitLabel => arg[t] = l
  PROVE  SameOwners
  <1>1. TypeOK
    BY DEF TypeInv
  <1>2. /\ OnlyMoves(t) /\ held'[t] = held[t] \ {l}
        /\ pc'[t] = label /\ arg'[t] = l
    BY <1>1 DEF ClearHolder, Goto, OnlyMoves, TypeOK
  <1>3. Owns(t, l) /\ label \in UnitLabel
    BY CriticalOwns DEF UnitLabel, HalfLabel
  <1>4. \A u \in Thread, k \in Lock : Owns(u, k)' <=> Owns(u, k)
    BY <1>2, <1>3, OwnsDef, OwnsDefPrime DEF OnlyMoves
  <1> QED BY <1>4, OwnersKept

\* The second half: t gives the unit of l back.
LEMMA GivesUnit ==
  ASSUME TypeInv, LockInv, LockInv', NEW t \in Thread, NEW l \in Lock,
         pc[t] \in {"lock_up", "wait_up"}, arg[t] = l, SemaUp(l),
         pc'[t] \notin UnitLabel, held' = held, OnlyMoves(t)
  PROVE  /\ SameUnits
         /\ OwnerOf(l) = t /\ OwnerOf(l)' = NULL
         /\ \A k \in Lock \ {l} : OwnerOf(k)' = OwnerOf(k)
  <1>1. /\ l \notin held[t] /\ Owns(t, l) /\ pc[t] \in UnitLabel
    BY DEF LockInv, OwnsOnce, HalfLabel, UnitLabel, Owns
  <1>2. \A u \in Thread, k \in Lock :
          Owns(u, k)' <=> Owns(u, k) /\ ~(u = t /\ k = l)
    BY <1>1, OwnsDef, OwnsDefPrime DEF OnlyMoves
  <1>3. SameUnits
    BY SynchAssumption DEF SameUnits, SemaUp, TypeInv, TypeOK, AnySema
  <1> QED BY <1>1, <1>2, <1>3, OwnerGiven

LEMMA LockReleaseUpIsRelease ==
  ASSUME TypeInv, LockInv, LockInv', NEW t \in Thread, LockReleaseUp(t)
  PROVE  \E l \in Lock : M!Release(t, l)
  <1>1. /\ arg[t] \in Lock /\ pc[t] = "lock_up" /\ SemaUp(arg[t])
        /\ pc'[t] \in {"run", "unblock"} /\ OnlyMoves(t)
        /\ UNCHANGED <<held, cond_waiters>>
    BY DEF LockReleaseUp, At, Goto, TypeInv, TypeOK, CallOK, LockLabel, OnlyMoves
  <1>2. /\ {pc[t], pc'[t]} \cap (HoldLabel \cup ReclaimLabel) = {}
        /\ pc'[t] \notin UnitLabel
    BY <1>1 DEF HoldLabel, ReclaimLabel, UnitLabel, HalfLabel, TidLabel
  <1>3. SameWaiting /\ SameReclaim
    BY <1>1, <1>2, WaitingApart
  <1>4. PICK l \in Lock : l = arg[t]
    BY <1>1
  <1>5. /\ SameUnits
        /\ OwnerOf(l) = t /\ OwnerOf(l)' = NULL
        /\ \A k \in Lock \ {l} : OwnerOf(k)' = OwnerOf(k)
    BY <1>1, <1>2, <1>4, GivesUnit
  <1>6. M!Release(t, l)
    BY <1>3, <1>5 DEF M!Release, SameUnits, SameWaiting, SameReclaim
  <1> QED BY <1>6

(* The conditions *)

\* The last of a list, and the rest of it.
LEMMA LastOfList ==
  ASSUME TypeInv, CondInv, MonInv, NEW t \in Thread, NEW c \in Cond,
         t \in Elems(cond_waiters[c]), pc[t] \in HoldLabel
  PROVE  /\ cond_waiters[c] # <<>>
         /\ cond_waiters[c][Len(cond_waiters[c])] = t
  <1>1. cond_waiters[c] \in Seq(Thread)
    BY DEF TypeInv, TypeOK
  <1>2. PICK i \in 1..Len(cond_waiters[c]) : cond_waiters[c][i] = t
    BY <1>1 DEF Elems
  <1>3. ~(i \in 1..(Len(cond_waiters[c]) - 1))
    BY <1>2 DEF MonInv, HoldLabel, LeftLabel
  <1>4. i = Len(cond_waiters[c]) /\ cond_waiters[c] # <<>>
    BY <1>1, <1>2, <1>3
  <1> QED BY <1>2, <1>4

LEMMA SeqLast ==
  ASSUME NEW S, NEW q \in Seq(S), q # <<>>
  PROVE  Append(SubSeq(q, 1, Len(q) - 1), q[Len(q)]) = q
  OBVIOUS

\* lock_release() in cond_wait() ends: "Atomically releases LOCK and waits
\* for COND" happens here.
LEMMA WaitUnlockIsWait ==
  ASSUME TypeInv, LockInv, LockInv', CondInv, MonInv, NEW t \in Thread,
         WaitUnlock(t)
  PROVE  \E c \in Cond : M!Wait(t, c)
  <1>1. /\ arg[t] \in Lock /\ pc[t] = "wait_up" /\ SemaUp(arg[t])
        /\ pc'[t] = "wait_call" /\ OnlyMoves(t) /\ arg' = arg
        /\ UNCHANGED <<held, cond_waiters>>
    BY DEF WaitUnlock, At, Goto, TypeInv, TypeOK, CallOK, WaitLabel, OnlyMoves
  <1>2. PICK c \in Cond : t \in Elems(cond_waiters[c])
    BY <1>1 DEF MonInv, HoldLabel, Listed
  <1>3. LockOf[c] = arg[t]
    BY <1>2 DEF MonInv
  <1>4. /\ SameUnits
        /\ OwnerOf(LockOf[c]) = t /\ OwnerOf(LockOf[c])' = NULL
        /\ \A k \in Lock \ {LockOf[c]} : OwnerOf(k)' = OwnerOf(k)
    <2>1. PICK l \in Lock : l = arg[t]
      BY <1>1
    <2>2. pc'[t] \notin UnitLabel
      BY <1>1 DEF UnitLabel, HalfLabel, TidLabel
    <2>3. /\ SameUnits
          /\ OwnerOf(l) = t /\ OwnerOf(l)' = NULL
          /\ \A k \in Lock \ {l} : OwnerOf(k)' = OwnerOf(k)
      BY <1>1, <2>1, <2>2, GivesUnit
    <2>4. l = LockOf[c]
      BY <1>3, <2>1
    <2> QED BY <2>3, <2>4
  <1>5. SameReclaim
    <2>1. ToReclaim(t) = NULL /\ ToReclaim(t)' = NULL
      BY <1>1, <1>2 DEF ToReclaim
    <2>2. \A u \in Thread \ {t} : ToReclaim(u)' = ToReclaim(u)
      BY <1>1 DEF ToReclaim, OnlyMoves
    <2> QED BY <2>1, <2>2 DEF SameReclaim
  <1>6. cond_waiters[c] \in Seq(Thread) /\ cond_waiters[c] # <<>>
        /\ cond_waiters[c][Len(cond_waiters[c])] = t
    BY <1>1, <1>2, LastOfList DEF TypeInv, TypeOK, HoldLabel
  <1>7. WaitingOn(c)' = Append(WaitingOn(c), t)
    <2>1. WaitingOn(c) = SubSeq(cond_waiters[c], 1, Len(cond_waiters[c]) - 1)
      BY <1>1, <1>6 DEF WaitingOn, StillHolds
    <2>2. WaitingOn(c)' = cond_waiters[c]
      BY <1>1, <1>6 DEF WaitingOn, StillHolds
    <2> QED BY <1>6, <2>1, <2>2, SeqLast
  <1>8. \A d \in Cond \ {c} : WaitingOn(d)' = WaitingOn(d)
    <2> SUFFICES ASSUME NEW d \in Cond \ {c}  PROVE WaitingOn(d)' = WaitingOn(d)
      OBVIOUS
    <2>1. t \notin Elems(cond_waiters[d])
      BY <1>2 DEF CondInv
    <2>2. CASE cond_waiters[d] = <<>>
      BY <1>1, <2>2 DEF WaitingOn
    <2>3. CASE cond_waiters[d] # <<>>
      <3>1. cond_waiters[d][Len(cond_waiters[d])] \in Elems(cond_waiters[d])
            /\ Elems(cond_waiters[d]) \subseteq Thread
        BY <2>3 DEF TypeInv, TypeOK, Elems
      <3>2. pc'[cond_waiters[d][Len(cond_waiters[d])]]
               = pc[cond_waiters[d][Len(cond_waiters[d])]]
        BY <1>1, <2>1, <3>1 DEF OnlyMoves
      <3> QED BY <1>1, <2>3, <3>2 DEF WaitingOn, StillHolds
    <2> QED BY <2>2, <2>3
  <1>9. M!Wait(t, c)
    BY <1>4, <1>5, <1>7, <1>8, SynchAssumption DEF M!Wait, SameUnits, SameReclaim
  <1> QED BY <1>9

\* When nobody in the list of c is on the way out of the lock.
LEMMA WaitingIsList ==
  ASSUME TypeInv, NEW c \in Cond,
         \A w \in Elems(cond_waiters[c]) : pc[w] \notin HoldLabel
  PROVE  WaitingOn(c) = cond_waiters[c]
  <1>1. CASE cond_waiters[c] = <<>>
    BY <1>1 DEF WaitingOn
  <1>2. CASE cond_waiters[c] # <<>>
    <2>1. cond_waiters[c][Len(cond_waiters[c])] \in Elems(cond_waiters[c])
      BY <1>2 DEF TypeInv, TypeOK, Elems
    <2> QED BY <1>2, <2>1 DEF WaitingOn, StillHolds, HoldLabel
  <1> QED BY <1>1, <1>2

\* A condition whose list and whose waiters are left alone.
LEMMA WaitingSame ==
  ASSUME TypeInv, NEW c \in Cond, cond_waiters'[c] = cond_waiters[c],
         \A w \in Elems(cond_waiters[c]) : pc'[w] = pc[w]
  PROVE  WaitingOn(c)' = WaitingOn(c)
  <1>1. CASE cond_waiters[c] = <<>>
    BY <1>1 DEF WaitingOn
  <1>2. CASE cond_waiters[c] # <<>>
    <2>1. cond_waiters[c][Len(cond_waiters[c])] \in Elems(cond_waiters[c])
      BY <1>2 DEF TypeInv, TypeOK, Elems
    <2> QED BY <1>2, <2>1 DEF WaitingOn, StillHolds
  <1> QED BY <1>1, <1>2

LEMMA CondWaitIsSilent ==
  ASSUME TypeInv, LockInv, LockInv', CondInv, CondInv', MonInv, NEW t \in Thread,
         NEW c \in Cond, TypeInv', CondWait(t, c)
  PROVE  MonStutter
  <1>1. TypeOK /\ pc[t] = "run" /\ cond_waiters[c] \in Seq(Thread)
        /\ LockOf[c] \in held[t]
    BY DEF TypeInv, TypeOK, CondWait, At
  <1>2. /\ pc'[t] = "wait_unlock" /\ held' = held /\ OnlyMoves(t)
        /\ cond_waiters'[c] = Append(cond_waiters[c], t)
        /\ \A d \in Cond \ {c} : cond_waiters'[d] = cond_waiters[d]
    BY <1>1 DEF CondWait, Goto, TypeOK, OnlyMoves
  <1>3. SameUnits
    BY <1>1, SynchAssumption DEF CondWait, SameUnits, TypeOK, AnySema
  <1>4. SameOwners
    <2>1. {pc[t], pc'[t]} \cap UnitLabel = {}
      BY <1>1, <1>2 DEF UnitLabel, HalfLabel, TidLabel
    <2> QED BY <1>2, <2>1, OwnsKept, OwnersKept
  <1>5. \A w \in Elems(cond_waiters[c]) : pc[w] \notin HoldLabel
    BY <1>1, AllHaveLeft DEF WaitingLabel, LeftLabel, HoldLabel
  <1>6. WaitingOn(c)' = WaitingOn(c)
    <2>1. /\ Append(cond_waiters[c], t) # <<>>
          /\ Len(Append(cond_waiters[c], t)) = Len(cond_waiters[c]) + 1
          /\ Append(cond_waiters[c], t)[Len(cond_waiters[c]) + 1] = t
          /\ SubSeq(Append(cond_waiters[c], t), 1, Len(cond_waiters[c]))
                = cond_waiters[c]
          /\ (Len(cond_waiters[c]) + 1) - 1 = Len(cond_waiters[c])
      BY <1>1
    <2>2. WaitingOn(c)' = cond_waiters[c]
      BY <1>2, <2>1 DEF WaitingOn, StillHolds
    <2> QED BY <1>5, <2>2, WaitingIsList
  <1>7. \A d \in Cond \ {c} : WaitingOn(d)' = WaitingOn(d)
    <2>1. \A d \in Cond : \A w \in Elems(cond_waiters[d]) : w \in Thread \ {t}
      BY <1>1, ListedFacts DEF WaitingLabel
    <2> QED BY <1>2, <2>1, WaitingSame DEF OnlyMoves
  <1>8. SameReclaim
    <2>1. ToReclaim(t) = NULL /\ ToReclaim(t)' = NULL
      BY <1>1, <1>2 DEF ToReclaim
    <2>2. ASSUME NEW u \in Thread \ {t}  PROVE ToReclaim(u)' = ToReclaim(u)
      <3>1. Elems(cond_waiters'[c]) = Elems(cond_waiters[c]) \cup {t}
        BY <1>1, <1>2, ElemsAppend
      <3>2. (\A d \in Cond : u \notin Elems(cond_waiters'[d]))
               <=> (\A d \in Cond : u \notin Elems(cond_waiters[d]))
        BY <1>2, <3>1
      <3> QED BY <1>2, <3>2 DEF ToReclaim, OnlyMoves
    <2> QED BY <2>1, <2>2 DEF SameReclaim
  <1>9. SameWaiting
    BY <1>6, <1>7 DEF SameWaiting
  <1> QED BY <1>3, <1>4, <1>8, <1>9, NothingSeen

\* A signal goes to the waiter that has waited longest, and all who are in
\* the list have given up the lock by then.
LEMMA PopWaiterIsSignal ==
  ASSUME TypeInv, LockInv, LockInv', CondInv, MonInv, TypeInv', NEW t \in Thread,
         NEW c \in Cond, NEW label \in SignalLabel, PopWaiter(t, c, label),
         LockOf[c] \in held[t], pc[t] \in {"run", "bcast"}, arg' = arg
  PROVE  M!Signal(t, c)
  <1>1. TypeOK /\ cond_waiters[c] \in Seq(Thread) /\ cond_waiters[c] # <<>>
        /\ NoRepeats(cond_waiters[c])
    BY DEF TypeInv, TypeOK, PopWaiter, CondInv
  <1>2. PICK v \in Thread : /\ v = Head(cond_waiters[c])
                            /\ v \in Elems(cond_waiters[c])
                            /\ Elems(Tail(cond_waiters[c])) = Elems(cond_waiters[c]) \ {v}
    BY <1>1, ElemsTail, NoRepeatsTail
  <1>3. /\ pc'[t] = label /\ OnlyMoves(t) /\ held' = held
        /\ value' = value
        /\ cond_waiters'[c] = Tail(cond_waiters[c])
        /\ \A d \in Cond \ {c} : cond_waiters'[d] = cond_waiters[d]
    BY <1>1 DEF PopWaiter, Goto, TypeOK, OnlyMoves
  <1>4. \A w \in Elems(cond_waiters[c]) :
          w \in Thread \ {t} /\ pc[w] \in LeftLabel /\ pc'[w] \in LeftLabel
    BY <1>3, AllHaveLeft, ListedFacts DEF OnlyMoves, WaitingLabel
  <1>5. SameOwners
    <2>1. {pc[t], pc'[t]} \cap UnitLabel = {}
      BY <1>3 DEF UnitLabel, HalfLabel, TidLabel, SignalLabel
    <2> QED BY <1>3, <2>1, OwnsKept, OwnersKept
  <1>6. WaitingOn(c) = cond_waiters[c]
    BY <1>4, WaitingIsList DEF LeftLabel, HoldLabel
  <1>7. WaitingOn(c)' = Tail(cond_waiters[c])
    <2>1. CASE Tail(cond_waiters[c]) = <<>>
      BY <1>3, <2>1 DEF WaitingOn
    <2>2. CASE Tail(cond_waiters[c]) # <<>>
      <3>1. /\ Tail(cond_waiters[c]) \in Seq(Thread)
            /\ Elems(Tail(cond_waiters[c])) \subseteq Elems(cond_waiters[c])
        BY <1>1, <1>2, ElemsTail
      <3>2. Len(Tail(cond_waiters[c])) \in DOMAIN Tail(cond_waiters[c])
        BY <2>2, <3>1
      <3>3. Tail(cond_waiters[c])[Len(Tail(cond_waiters[c]))]
               \in Elems(cond_waiters[c])
        BY <3>1, <3>2 DEF Elems
      <3>4. pc'[Tail(cond_waiters[c])[Len(Tail(cond_waiters[c]))]] \in LeftLabel
        BY <1>4, <3>3
      <3> QED BY <1>3, <3>4 DEF WaitingOn, StillHolds, LeftLabel
    <2> QED BY <2>1, <2>2
  <1>8. \A d \in Cond \ {c} : WaitingOn(d)' = WaitingOn(d)
    <2>1. \A d \in Cond : \A w \in Elems(cond_waiters[d]) : w \in Thread \ {t}
      BY ListedFacts DEF WaitingLabel
    <2> QED BY <1>3, <2>1, WaitingSame DEF OnlyMoves
  <1>9. ToReclaim(v)' = LockOf[c]
    <2>1. v # t /\ pc'[v] \in LeftLabel /\ arg'[v] = LockOf[c]
      BY <1>2, <1>4 DEF MonInv
    <2>2. \A d \in Cond : v \notin Elems(cond_waiters'[d])
      BY <1>2, <1>3 DEF CondInv
    <2> QED BY <2>1, <2>2 DEF ToReclaim, LeftLabel
  <1>10. \A u \in Thread \ {v} : ToReclaim(u)' = ToReclaim(u)
    <2>1. ToReclaim(t) = NULL /\ ToReclaim(t)' = NULL
      BY <1>3 DEF ToReclaim, SignalLabel
    <2>2. ASSUME NEW u \in Thread \ {v, t}  PROVE ToReclaim(u)' = ToReclaim(u)
      <3>1. (\A d \in Cond : u \notin Elems(cond_waiters'[d]))
               <=> (\A d \in Cond : u \notin Elems(cond_waiters[d]))
        BY <1>2, <1>3
      <3> QED BY <1>3, <3>1 DEF ToReclaim, OnlyMoves
    <2> QED BY <2>1, <2>2
  <1>11. OwnerOf(LockOf[c]) = t /\ LockOf[c] \in Lock
    BY OwnerIs, SynchAssumption DEF OwnersNamed, Owns
  <1> QED
    BY <1>1, <1>2, <1>3, <1>5, <1>6, <1>7, <1>8, <1>9, <1>10, <1>11
       DEF M!Signal, SameOwners

\* A waiter that was signalled is in no list.
LEMMA SignalledIsOut ==
  ASSUME CondInv, NEW t \in Thread, pc[t] \in {"relock", "relock_down"}
  PROVE  ToReclaim(t) = arg[t] /\ \A c \in Cond : t \notin Elems(cond_waiters[c])
  <1>1. ~Listed(t)
    BY DEF CondInv, Waits, WaitingLabel
  <1> QED BY <1>1 DEF Listed, ToReclaim

\* Mesa style: it takes the lock again, in competition with everybody else.
LEMMA RelockIsReacquire ==
  ASSUME TypeInv, LockInv, LockInv', CondInv, NEW t \in Thread,
         pc[t] \in {"relock", "relock_down"}, arg[t] \in Lock,
         SemaDown(t, arg[t], "relock_set", "relock_down"), arg'[t] = arg[t],
         \A u \in Thread \ {t} : arg'[u] = arg[u],
         UNCHANGED <<cond_waiters, held>>
  PROVE  M!Reacquire(t) \/ MonStutter
  <1>1. value \in [AnySema -> Nat] /\ pc \in [Thread -> Label]
    BY DEF TypeInv, TypeOK
  <1>2. OnlyMoves(t) /\ pc'[t] \in {"relock_set", "relock_down"}
    BY <1>1 DEF SemaDown, Goto, OnlyMoves
  <1>3. SameWaiting
    BY <1>2, WaitingKept DEF OnlyMoves, HoldLabel
  <1>4. PICK l \in Lock : l = arg[t]
    OBVIOUS
  <1>5. ToReclaim(t) = l
    BY <1>4, SignalledIsOut
  <1>6. CASE /\ value[l] > 0 /\ value' = [value EXCEPT ![l] = @ - 1]
             /\ Goto(t, "relock_set")
    <2>1. pc'[t] = "relock_set"
      BY <1>1, <1>6 DEF Goto
    <2>2. pc'[t] \in UnitLabel /\ pc[t] \notin UnitLabel
      BY <2>1 DEF UnitLabel, HalfLabel, TidLabel
    <2>3. /\ SameUnits
          /\ OwnerOf(l) = NULL /\ OwnerOf(l)' = t
          /\ \A k \in Lock \ {l} : OwnerOf(k)' = OwnerOf(k)
      BY <1>2, <1>4, <1>6, <2>2, TakesUnit
    <2>4. ToReclaim(t)' = NULL
      BY <2>1 DEF ToReclaim
    <2>5. \A u \in Thread \ {t} : ToReclaim(u)' = ToReclaim(u)
      BY <1>2 DEF ToReclaim, OnlyMoves
    <2>6. l # NULL
      BY <1>4, SynchAssumption
    <2>7. M!Reacquire(t)
      BY <1>3, <1>5, <2>3, <2>4, <2>5, <2>6
         DEF M!Reacquire, SameUnits, SameWaiting
    <2> QED BY <2>7
  <1>7. CASE value' = value /\ Goto(t, "relock_down")
    <2>1. pc'[t] = "relock_down"
      BY <1>1, <1>7 DEF Goto
    <2>2. SameOwners
      BY <1>2, <2>1, OwnsKept, OwnersKept
         DEF UnitLabel, HalfLabel, TidLabel
    <2>3. SameReclaim
      BY <1>2, <2>1, ReclaimKept DEF OnlyMoves, ReclaimLabel
    <2> QED BY <1>3, <1>7, <2>2, <2>3, NothingSeen DEF SameUnits
  <1> QED BY <1>4, <1>6, <1>7 DEF SemaDown

\* Before it does so, it gets past sema_down(&waiter.semaphore).
LEMMA OwnDownIsSilent ==
  ASSUME TypeInv, LockInv, LockInv', NEW t \in Thread,
         pc[t] \in {"wait_call", "wait_down"},
         SemaDown(t, t, "relock", "wait_down"), arg' = arg,
         UNCHANGED <<cond_waiters, held>>
  PROVE  MonStutter
  <1>1. value \in [AnySema -> Nat] /\ pc \in [Thread -> Label]
    BY DEF TypeInv, TypeOK
  <1>2. OnlyMoves(t) /\ pc'[t] \in {"relock", "wait_down"}
    BY <1>1 DEF SemaDown, Goto, OnlyMoves
  <1>3. SameWaiting
    BY <1>2, WaitingKept DEF OnlyMoves, HoldLabel
  <1>4. SameReclaim
    BY <1>2, ReclaimKept DEF OnlyMoves, ReclaimLabel
  <1>5. SameOwners
    <2>1. {pc[t], pc'[t]} \cap UnitLabel = {}
      BY <1>2 DEF UnitLabel, HalfLabel, TidLabel
    <2> QED BY <1>2, <2>1, OwnsKept, OwnersKept
  <1>6. SameUnits
    BY <1>1, SynchAssumption DEF SemaDown, SameUnits, AnySema
  <1> QED BY <1>3, <1>4, <1>5, <1>6, NothingSeen

\* A step of t outside locks and conditions that leaves the semaphores alone.
LEMMA PlainIsSilent ==
  ASSUME TypeInv, LockInv, LockInv', NEW t \in Thread, OnlyMoves(t),
         {pc[t], pc'[t]} \cap (UnitLabel \cup HoldLabel \cup ReclaimLabel) = {},
         SameUnits, UNCHANGED <<cond_waiters, held>>
  PROVE  MonStutter
  <1>1. SameOwners
    BY OwnsKept, OwnersKept
  <1>2. SameWaiting /\ SameReclaim
    BY WaitingApart
  <1> QED BY <1>1, <1>2, NothingSeen

\* The same inside allocate_tid().
LEMMA TidIsSilent ==
  ASSUME TypeInv, LockInv, LockInv', NEW t \in Thread, OnlyMoves(t),
         {pc[t], pc'[t]} \subseteq TidLabel, arg' = arg,
         SameUnits, UNCHANGED <<cond_waiters, held>>
  PROVE  MonStutter
  <1>1. /\ {pc[t], pc'[t]} \subseteq UnitLabel
        /\ {pc[t], pc'[t]} \cap (HoldLabel \cup ReclaimLabel) = {}
    BY DEF TidLabel, UnitLabel, HoldLabel, ReclaimLabel
  <1>2. arg[t] \in Lock
    BY SynchAssumption DEF TypeInv, CallOK, TidLabel
  <1>3. SameOwners
    BY <1>1, <1>2, OwnsKept, OwnersKept
  <1>4. SameWaiting /\ SameReclaim
    BY <1>1, WaitingApart
  <1> QED BY <1>3, <1>4, NothingSeen

\* sema_up() of a plain semaphore, by a thread or by an interrupt.
LEMMA PlainUp ==
  ASSUME TypeInv, LockInv, LockInv', NEW s \in Sema, SemaUp(s),
         SameOwners, SameWaiting, SameReclaim
  PROVE  M!V(s)
  BY UpIsV DEF SemaUp, TypeInv, TypeOK

LEMMA SetHolderIsSilent ==
  ASSUME TypeInv, LockInv, LockInv', NEW t \in Thread, LockSetHolder(t)
  PROVE  MonStutter
  <1>1. TypeOK /\ CallOK(t) /\ pc[t] \in {"lock_set", "relock_set"}
    BY DEF TypeInv, LockSetHolder
  <1>2. arg[t] \in Lock
    BY <1>1 DEF CallOK, LockLabel, WaitLabel
  <1>3. /\ OnlyMoves(t) /\ UNCHANGED <<value, cond_waiters>>
        /\ \/ held'[t] = held[t] \cup {arg[t]} /\ pc'[t] = "run"
           \/ held'[t] = held[t] /\ pc'[t] = "tid" /\ arg'[t] = arg[t]
    BY <1>1 DEF LockSetHolder, Goto, TypeOK, OnlyMoves
  <1>4. \A u \in Thread, l \in Lock : Owns(u, l)' <=> Owns(u, l)
    BY <1>1, <1>2, <1>3, OwnsDef, OwnsDefPrime
       DEF OnlyMoves, UnitLabel, HalfLabel, TidLabel
  <1>5. {pc[t], pc'[t]} \cap (HoldLabel \cup ReclaimLabel) = {}
    BY <1>1, <1>3 DEF HoldLabel, ReclaimLabel
  <1>6. SameOwners /\ SameWaiting /\ SameReclaim
    BY <1>3, <1>4, <1>5, OwnersKept, WaitingApart
  <1> QED BY <1>3, <1>6, NothingSeen DEF SameUnits

LEMMA SignalUpIsSilent ==
  ASSUME TypeInv, LockInv, LockInv', NEW t \in Thread, SignalUp(t)
  PROVE  MonStutter
  <1>1. TypeOK /\ peer[t] \in Thread /\ pc[t] \in SignalLabel
    BY DEF TypeInv, CallOK, SignalUp, SignalLabel
  <1>2. /\ OnlyMoves(t) /\ UNCHANGED <<cond_waiters, held>>
        /\ pc'[t] \in {"run", "bcast"}
    BY <1>1 DEF SignalUp, Goto, TypeOK, OnlyMoves
  <1>3. SameUnits
    BY <1>1, SynchAssumption DEF SignalUp, SemaUp, SameUnits, TypeOK, AnySema
  <1>4. {pc[t], pc'[t]} \cap (UnitLabel \cup HoldLabel \cup ReclaimLabel) = {}
    BY <1>1, <1>2
       DEF SignalLabel, UnitLabel, HalfLabel, TidLabel, HoldLabel, ReclaimLabel
  <1> QED BY <1>2, <1>3, <1>4, PlainIsSilent

LEMMA WaitClearIsSilent ==
  ASSUME TypeInv, LockInv, LockInv', NEW t \in Thread, WaitClearHolder(t)
  PROVE  MonStutter
  <1>1. /\ TypeOK /\ pc[t] = "wait_unlock"
        /\ arg[t] \in Lock /\ InCritical(t, arg[t])
        /\ ClearHolder(t, arg[t], "wait_up")
    BY DEF TypeInv, CallOK, WaitClearHolder, At, WaitLabel, InCritical
  <1>2. SameOwners
    BY <1>1, ClearIsSilent
  <1>3. pc'[t] = "wait_up" /\ OnlyMoves(t) /\ UNCHANGED <<value, cond_waiters>>
    BY <1>1 DEF ClearHolder, Goto, TypeOK, OnlyMoves
  <1>4. SameWaiting
    BY <1>1, <1>3, WaitingKept DEF OnlyMoves, HoldLabel
  <1>5. SameReclaim
    BY <1>1, <1>3, ReclaimKept DEF OnlyMoves, ReclaimLabel
  <1> QED BY <1>2, <1>3, <1>4, <1>5, NothingSeen DEF SameUnits

\* lock_release() by a thread that does not wait.
LEMMA ReleaseIsSilent ==
  ASSUME TypeInv, LockInv, LockInv', NEW t \in Thread, NEW l \in Lock,
         ClearHolder(t, l, "lock_up"), InCritical(t, l),
         pc[t] \in {"run", "tid_release"}, pc[t] = "tid_release" => l = TidLock
  PROVE  MonStutter
  <1>1. TypeOK /\ (pc[t] \in UnitLabel => arg[t] = l)
    BY DEF TypeInv, CallOK, UnitLabel, HalfLabel, TidLabel
  <1>2. SameOwners
    BY <1>1, ClearIsSilent
  <1>3. pc'[t] = "lock_up" /\ OnlyMoves(t) /\ UNCHANGED <<value, cond_waiters>>
    BY <1>1 DEF ClearHolder, Goto, TypeOK, OnlyMoves
  <1>4. {pc[t], pc'[t]} \cap (HoldLabel \cup ReclaimLabel) = {}
    BY <1>3 DEF HoldLabel, ReclaimLabel
  <1>5. SameWaiting /\ SameReclaim
    BY <1>3, <1>4, WaitingApart
  <1> QED BY <1>2, <1>3, <1>5, NothingSeen DEF SameUnits

LEMMA KernelStepMonitor ==
  ASSUME TypeInv, TypeInv', LockInv, LockInv', CondInv, CondInv', MonInv,
         NEW t \in Thread, KernelStep(t)
  PROVE  M!Next \/ MonStutter
  <1> USE SynchAssumption DEF M!Next
  <1>0. TypeOK /\ CallOK(t)
    BY DEF TypeInv
  <1> DEFINE Far == UnitLabel \cup HoldLabel \cup ReclaimLabel
  <1>2. CASE SemaDownLoop(t)
    <2>1. /\ pc[t] \in DownLabel /\ SemaDown(t, SemaOf(t), DownThen(pc[t]), pc[t])
          /\ UNCHANGED <<cond_waiters, held>>
          /\ arg' = [arg EXCEPT ![t] = IF pc'[t] = "run" THEN NULL ELSE @]
      BY <1>2 DEF SemaDownLoop, SemaOf
    <2>2. \A u \in Thread \ {t} : arg'[u] = arg[u]
      BY <1>0, <2>1 DEF TypeOK
    <2>3. pc[t] # "sema_down" => arg'[t] = arg[t] /\ arg' = arg
      <3>1. pc[t] # "sema_down" => pc'[t] # "run"
        BY <1>0, <2>1 DEF SemaDown, Goto, TypeOK, DownLabel, DownThen
      <3> QED BY <1>0, <2>1, <3>1 DEF TypeOK
    <2>4. CASE pc[t] = "sema_down"
      <3>1. arg[t] \in Sema /\ SemaDown(t, arg[t], "run", "sema_down")
        BY <1>0, <2>1, <2>4 DEF SemaOf, DownThen, CallOK
      <3>2. {pc[t], "run", "sema_down"} \cap Far = {}
        BY <2>4 DEF UnitLabel, HalfLabel, TidLabel, HoldLabel, ReclaimLabel
      <3>3. PICK s \in Sema : s = arg[t]
        BY <3>1
      <3>4. M!P(s) \/ MonStutter
        BY <2>1, <2>2, <3>1, <3>2, <3>3, PlainDown
      <3> QED BY <3>4
    <2>5. CASE pc[t] = "lock_down"
      <3>1. arg[t] \in Lock /\ SemaDown(t, arg[t], "lock_set", "lock_down")
        BY <1>0, <2>1, <2>5 DEF SemaOf, DownThen, CallOK, LockLabel
      <3>2. {pc[t], "lock_down"} \cap Far = {}
        BY <2>5 DEF UnitLabel, HalfLabel, TidLabel, HoldLabel, ReclaimLabel
      <3>3. PICK l \in Lock : l = arg[t]
        BY <3>1
      <3>4. M!Acquire(t, l) \/ MonStutter
        BY <2>1, <2>2, <2>3, <2>5, <3>1, <3>2, <3>3, LockDown
      <3> QED BY <3>4
    <2>6. CASE pc[t] = "wait_down"
      <3>1. SemaDown(t, t, "relock", "wait_down")
        BY <2>1, <2>6 DEF SemaOf, DownThen
      <3> QED BY <2>1, <2>3, <2>6, <3>1, OwnDownIsSilent
    <2>7. CASE pc[t] = "relock_down"
      <3>1. arg[t] \in Lock /\ SemaDown(t, arg[t], "relock_set", "relock_down")
        BY <1>0, <2>1, <2>7 DEF SemaOf, DownThen, CallOK, WaitLabel
      <3>2. M!Reacquire(t) \/ MonStutter
        BY <2>1, <2>2, <2>3, <2>7, <3>1, RelockIsReacquire
      <3> QED BY <3>2
    <2> QED BY <2>1, <2>4, <2>5, <2>6, <2>7 DEF DownLabel
  <1>3. CASE LockSetHolder(t)
    BY <1>3, SetHolderIsSilent
  <1>4. CASE LockReleaseUp(t)
    BY <1>4, LockReleaseUpIsRelease
  <1>5. CASE WaitClearHolder(t)
    BY <1>5, WaitClearIsSilent
  <1>6. CASE WaitUnlock(t)
    BY <1>6, WaitUnlockIsWait
  <1>7. CASE WaitDown(t)
    BY <1>7, OwnDownIsSilent DEF WaitDown, At
  <1>8. CASE Relock(t)
    <2>1. arg[t] \in Lock /\ pc[t] = "relock"
      BY <1>0, <1>8 DEF Relock, At, CallOK, WaitLabel
    <2>2. M!Reacquire(t) \/ MonStutter
      BY <1>8, <2>1, RelockIsReacquire DEF Relock
    <2> QED BY <2>2
  <1>9. CASE SignalUp(t)
    BY <1>9, SignalUpIsSilent
  <1>10. CASE BroadcastNext(t)
    <2>1. PICK c \in Cond : c = arg[t]
      BY <1>0, <1>10 DEF BroadcastNext, At, CallOK
    <2>2. LockOf[c] \in held[t] /\ pc[t] = "bcast"
      BY <1>10, <2>1 DEF BroadcastNext, At, MonInv
    <2>3. M!Signal(t, c)
      BY <1>10, <2>1, <2>2, PopWaiterIsSignal DEF BroadcastNext, SignalLabel
    <2> QED BY <2>3
  <1>11. CASE BroadcastDone(t)
    <2>1. /\ OnlyMoves(t) /\ SameUnits /\ UNCHANGED <<cond_waiters, held>>
          /\ pc[t] = "bcast" /\ pc'[t] = "run"
      BY <1>0, <1>11 DEF BroadcastDone, At, Goto, TypeOK, OnlyMoves, SameUnits, syncVars
    <2>2. {pc[t], pc'[t]} \cap Far = {}
      BY <2>1 DEF UnitLabel, HalfLabel, TidLabel, HoldLabel, ReclaimLabel
    <2> QED BY <2>1, <2>2, PlainIsSilent
  <1>12. CASE TidAcquire(t)
    <2>1. pc[t] = "create" /\ arg[t] = TidLock /\ arg' = arg
      BY <1>0, <1>12 DEF TidAcquire, At, CallOK
    <2>2. {pc[t], "lock_down"} \cap Far = {}
      BY <2>1 DEF UnitLabel, HalfLabel, TidLabel, HoldLabel, ReclaimLabel
    <2>3. M!Acquire(t, TidLock) \/ MonStutter
      BY <1>12, <2>1, <2>2, LockDown DEF TidAcquire
    <2> QED BY <2>3
  <1>13. CASE TidRead(t)
    <2>1. /\ OnlyMoves(t) /\ SameUnits /\ UNCHANGED <<cond_waiters, held, arg>>
          /\ {pc[t], pc'[t]} \subseteq TidLabel
      BY <1>0, <1>13 DEF TidRead, At, Goto, TypeOK, OnlyMoves, SameUnits, syncVars, TidLabel
    <2> QED BY <2>1, TidIsSilent
  <1>14. CASE TidWrite(t)
    <2>1. /\ OnlyMoves(t) /\ SameUnits /\ UNCHANGED <<cond_waiters, held, arg>>
          /\ {pc[t], pc'[t]} \subseteq TidLabel
      BY <1>0, <1>14 DEF TidWrite, At, Goto, TypeOK, OnlyMoves, SameUnits, syncVars, TidLabel
    <2> QED BY <2>1, TidIsSilent
  <1>15. CASE TidRelease(t)
    BY <1>15, ReleaseIsSilent DEF TidRelease, At, InCritical
  <1>16. CASE CreateUnblock(t)
    <2>1. pc[t] = "unblock" /\ peer[t] \in Thread /\ pc[peer[t]] = "none"
      BY <1>16, CreatingFacts DEF CreateUnblock, At, Creating, CreateLabel
    <2>2. /\ \A u \in Thread \ {t, peer[t]} : pc'[u] = pc[u]
          /\ pc'[t] = "run" /\ pc'[peer[t]] = "run"
          /\ UNCHANGED <<value, cond_waiters, arg, held>>
      BY <1>0, <1>16, <2>1 DEF CreateUnblock, TypeOK, syncVars
    <2>3. \A u \in Thread, l \in Lock : Owns(u, l)' <=> Owns(u, l)
      BY <2>1, <2>2, OwnsDef, OwnsDefPrime DEF UnitLabel, HalfLabel, TidLabel
    <2>4. SameOwners
      BY <2>3, OwnersKept
    <2>5. SameWaiting
      BY <2>1, <2>2, WaitingKept DEF HoldLabel
    <2>6. SameReclaim
      BY <2>1, <2>2, ReclaimKept DEF ReclaimLabel
    <2> QED BY <2>2, <2>4, <2>5, <2>6, NothingSeen DEF SameUnits
  <1> QED
    BY <1>2, <1>3, <1>4, <1>5, <1>6, <1>7, <1>8, <1>9, <1>10, <1>11, <1>12,
       <1>13, <1>14, <1>15, <1>16 DEF KernelStep

LEMMA CallMonitor ==
  ASSUME TypeInv, TypeInv', LockInv, LockInv', CondInv, CondInv', MonInv,
         NEW t \in Thread, Call(t)
  PROVE  M!Next \/ MonStutter
  <1> USE DEF M!Next, At
  <1>0. TypeOK /\ pc[t] = "run"
    BY DEF TypeInv, Call, CallSemaDown, CallSemaTryDown, CallSemaUp, LockAcquire,
           LockTryAcquire, LockRelease, CondWait, CondSignal, CondBroadcast,
           ThreadCreate, CallYield, CallExit
  <1>1. {"run", "sema_down", "lock_down", "bcast", "create", "none"}
           \cap (UnitLabel \cup HoldLabel \cup ReclaimLabel) = {}
    BY DEF UnitLabel, HalfLabel, TidLabel, HoldLabel, ReclaimLabel
  <1>2. ASSUME NEW s \in Sema, CallSemaDown(t, s)  PROVE M!Next \/ MonStutter
    <2>1. \A u \in Thread \ {t} : arg'[u] = arg[u]
      BY <1>0, <1>2 DEF CallSemaDown, TypeOK
    <2>2. M!P(s) \/ MonStutter
      BY <1>0, <1>1, <1>2, <2>1, PlainDown DEF CallSemaDown
    <2> QED BY <2>2
  <1>3. ASSUME NEW s \in Sema, CallSemaTryDown(t, s) \/ CallSemaUp(t, s)
        PROVE  M!Next \/ MonStutter
    <2>1. OnlyMoves(t) /\ UNCHANGED <<cond_waiters, held>> /\ pc'[t] = pc[t]
      BY <1>3 DEF CallSemaTryDown, CallSemaUp, callVars, OnlyMoves
    <2>2. SameOwners /\ SameWaiting /\ SameReclaim
      BY <1>0, <1>1, <2>1, OwnsKept, OwnersKept, WaitingApart
    <2>3. CASE CallSemaTryDown(t, s)
      <3>1. M!P(s)
        BY <1>0, <2>2, <2>3, DownIsP DEF CallSemaTryDown, TypeOK
      <3> QED BY <3>1
    <2>4. CASE CallSemaUp(t, s)
      <3>1. M!V(s)
        BY <2>2, <2>4, PlainUp DEF CallSemaUp
      <3> QED BY <3>1
    <2> QED BY <1>3, <2>3, <2>4
  <1>4. ASSUME NEW l \in Lock, LockAcquire(t, l)  PROVE M!Next \/ MonStutter
    <2>1. arg'[t] = l /\ \A u \in Thread \ {t} : arg'[u] = arg[u]
      BY <1>0, <1>4 DEF LockAcquire, TypeOK
    <2>2. M!Acquire(t, l) \/ MonStutter
      BY <1>0, <1>1, <1>4, <2>1, LockDown DEF LockAcquire
    <2> QED BY <2>2
  <1>5. ASSUME NEW l \in Lock, LockTryAcquire(t, l)  PROVE M!Next \/ MonStutter
    <2>1. pc'[t] = "lock_set" /\ arg'[t] = l /\ OnlyMoves(t)
      BY <1>0, <1>5 DEF LockTryAcquire, Goto, TypeOK, OnlyMoves
    <2>2. M!Acquire(t, l)
      BY <1>0, <1>1, <1>5, <2>1, TakeIsAcquire DEF LockTryAcquire
    <2> QED BY <2>2
  <1>6. ASSUME NEW l \in Lock, LockRelease(t, l)  PROVE MonStutter
    BY <1>6, ReleaseIsSilent DEF LockRelease, InCritical
  <1>7. ASSUME NEW c \in Cond, CondWait(t, c)  PROVE MonStutter
    BY <1>7, CondWaitIsSilent
  <1>8. ASSUME NEW c \in Cond, CondSignal(t, c)  PROVE M!Next \/ MonStutter
    <2>1. M!Signal(t, c)
      BY <1>0, <1>8, PopWaiterIsSignal DEF CondSignal, SignalLabel
    <2> QED BY <2>1
  <1>9. ASSUME NEW c \in Cond, CondBroadcast(t, c)  PROVE MonStutter
    <2>1. /\ OnlyMoves(t) /\ SameUnits /\ UNCHANGED <<cond_waiters, held>>
          /\ pc'[t] = "bcast"
      BY <1>0, <1>9 DEF CondBroadcast, Goto, TypeOK, OnlyMoves, SameUnits, syncVars
    <2> QED BY <1>0, <1>1, <2>1, PlainIsSilent
  <1>10. ASSUME NEW u \in Thread, ThreadCreate(t, u)  PROVE MonStutter
    <2>1. /\ OnlyMoves(t) /\ SameUnits /\ UNCHANGED <<cond_waiters, held>>
          /\ pc'[t] = "create"
      BY <1>0, <1>10 DEF ThreadCreate, Goto, TypeOK, OnlyMoves, SameUnits, syncVars
    <2> QED BY <1>0, <1>1, <2>1, PlainIsSilent
  <1>11. ASSUME CallYield(t)  PROVE MonStutter
    BY <1>0, <1>1, <1>11, PlainIsSilent
       DEF CallYield, callVars, syncVars, OnlyMoves, SameUnits
  <1>12. ASSUME CallExit(t)  PROVE MonStutter
    <2>1. /\ OnlyMoves(t) /\ SameUnits /\ UNCHANGED <<cond_waiters, held>>
          /\ pc'[t] = "none"
      BY <1>0, <1>12 DEF CallExit, Goto, TypeOK, OnlyMoves, SameUnits, syncVars
    <2> QED BY <1>0, <1>1, <2>1, PlainIsSilent
  <1> HIDE DEF M!Next
  <1> QED
    BY <1>2, <1>3, <1>4, <1>5, <1>6, <1>7, <1>8, <1>9, <1>10, <1>11, <1>12 DEF Call

\* Interrupts and boot only ever up or down a plain semaphore.
LEMMA OutsideMonitor ==
  ASSUME TypeInv, LockInv, LockInv',
         TimerTick \/ (\E s \in IntrSema : DeviceUp(s)) \/ BootStep
  PROVE  M!Next \/ MonStutter
  <1> USE SynchAssumption, ThreadAssumption DEF M!Next
  <1>1. /\ UNCHANGED <<cond_waiters, held>>
        /\ \A u \in Thread :
              \/ pc'[u] = pc[u] /\ arg'[u] = arg[u]
              \/ {pc[u], pc'[u]} \cap (UnitLabel \cup HoldLabel \cup ReclaimLabel) = {}
    BY OutsideCalls
       DEF IdleLabel, UnitLabel, HalfLabel, TidLabel, HoldLabel, ReclaimLabel
  <1>2. \A u \in Thread, l \in Lock : Owns(u, l)' <=> Owns(u, l)
    BY <1>1, OwnsDef, OwnsDefPrime
  <1>3. SameOwners
    BY <1>2, OwnersKept
  <1>4. SameWaiting
    BY <1>1, WaitingKept
  <1>5. SameReclaim
    BY <1>1, ReclaimKept
  <1>6. TypeOK
    BY DEF TypeInv
  <1>7. ASSUME NEW s \in Sema, SemaUp(s)  PROVE M!Next
    <2>1. M!V(s)
      BY <1>3, <1>4, <1>5, <1>7, PlainUp
    <2> QED BY <2>1
  <1>8. CASE BootWait
    <2>1. CASE value[IdleStarted] > 0 /\ value' = [value EXCEPT ![IdleStarted] = @ - 1]
      <3>1. M!P(IdleStarted)
        BY <1>3, <1>4, <1>5, <1>6, <2>1, DownIsP DEF TypeOK
      <3> QED BY <3>1
    <2>2. CASE value' = value
      BY <1>3, <1>4, <1>5, <2>2, NothingSeen DEF SameUnits
    <2> QED BY <1>8, <2>1, <2>2 DEF BootWait, SemaDown
  <1>9. CASE TimerTick \/ BootCreateIdle \/ BootEnable \/ IdleStart \/ IdleBlock
    <2>1. SameUnits
      BY <1>9 DEF TimerTick, BootCreateIdle, BootEnable, IdleStart, IdleBlock,
                  SameUnits, syncVars
    <2> QED BY <1>3, <1>4, <1>5, <2>1, NothingSeen
  <1> HIDE DEF M!Next
  <1> QED BY <1>7, <1>8, <1>9 DEF BootStep, DeviceUp, IdleUp

LEMMA InitMonitor == Init => M!Init
  <1> SUFFICES ASSUME Init  PROVE M!Init
    OBVIOUS
  <1> USE ThreadAssumption, SynchAssumption DEF Init
  <1>1. \A l \in Lock : OwnerOf(l) = NULL
    BY DEF OwnerOf, Owns
  <1>2. \A c \in Cond : WaitingOn(c) = <<>>
    BY DEF WaitingOn
  <1>3. \A t \in Thread : ToReclaim(t) = NULL
    BY DEF ToReclaim
  <1>4. \A s \in Sema : value[s] = 0
    BY DEF AnySema
  <1> QED BY <1>1, <1>2, <1>3, <1>4 DEF M!Init

LEMMA StepMonitor ==
  /\ TypeInv /\ TypeInv' /\ LockInv /\ LockInv' /\ CondInv /\ CondInv' /\ MonInv
  /\ [Next]_vars
  => [M!Next]_(M!vars)
  <1> SUFFICES ASSUME TypeInv, TypeInv', LockInv, LockInv', CondInv, CondInv',
                      MonInv, [Next]_vars
               PROVE  M!Next \/ MonStutter
    BY DEF MonStutter
  <1>1. CASE Next
    BY <1>1, OutsideMonitor, KernelStepMonitor, CallMonitor DEF Next
  <1>2. CASE UNCHANGED vars
    <2>1. \A u \in Thread, l \in Lock : Owns(u, l)' <=> Owns(u, l)
      BY <1>2 DEF vars, callVars, Owns
    <2>2. SameOwners
      BY <2>1, OwnersKept
    <2>3. SameWaiting /\ SameReclaim
      BY <1>2, WaitingKept, ReclaimKept DEF vars, callVars, syncVars
    <2> QED BY <1>2, <2>2, <2>3, NothingSeen DEF vars, syncVars, SameUnits
  <1> QED BY <1>1, <1>2

\* The preemptible steps of synch.c implement the atomic operations of
\* Monitor: in particular cond_wait() releases the lock and starts to wait in
\* one indivisible step, as every other thread sees it.
THEOREM SynchImplementsMonitor == Spec => ImplementsMonitor
  BY InitMonitor, StepMonitor, TypeInvariant, LockInvariant, CondInvariant,
     MonInvariant, PTL DEF Spec, ImplementsMonitor, M!Spec
=============================================================================
