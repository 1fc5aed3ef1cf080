---------------------------- MODULE MallocProofs ----------------------------
(***************************************************************************)
(* Theorems about Malloc, for any threads, descriptors, sizes of the pools *)
(* and of the requests.                                                    *)
(***************************************************************************)
EXTENDS Malloc, FiniteSetTheorems, SequenceTheorems, TLAPS

-----------------------------------------------------------------------------
(* The inductive invariant *)

\* The registers of palloc.c, by label.
Idle == {"idle", "desc_lock", "pop", "return", "free_lock", "push"}
Fresh(t) ==
    pool[t] = "kernel" /\ cnt[t] = 0 /\ idx[t] = 0 /\ bit[t] = 0 /\ pages[t] = NULL
InPool(page, n) == \E p \in Pool : Base(p) <= page /\ page + n <= Base(p) + Size(p)

RegOK(t) ==
    /\ pc[t] \in Idle => Fresh(t)
    /\ pc[t] \notin Idle => cnt[t] >= 1
    /\ pc[t] # "got" => pages[t] = NULL
    /\ pc[t] = "pool_lock" => idx[t] = 0 /\ bit[t] = 0
    /\ pc[t] = "scan" /\ bit[t] > 0 => idx[t] + cnt[t] <= Size(pool[t])
    /\ pc[t] \in {"flip", "clear"} => idx[t] + cnt[t] <= Size(pool[t])
    /\ pc[t] = "got" =>
          /\ pool[t] = "kernel" /\ idx[t] = 0 /\ bit[t] = 0
          /\ pages[t] # NULL => InPool(pages[t], cnt[t])

\* What the scan has found clear stays clear until it is set, since nobody
\* else sets bits of this pool.
Seen(t) ==
    CASE pc[t] = "scan" -> 0..(bit[t] - 1)
      [] pc[t] = "flip" -> bit[t]..(cnt[t] - 1)
      [] OTHER -> {}
ClearOK(t) == \A k \in Seen(t) : ~used_map[pool[t]][idx[t] + k]

Scanning == {"scan", "flip"}
InDesc == {"pop", "pool_lock", "scan", "flip", "got", "push", "clear"}
LockOK ==
    /\ \A t \in Thread, p \in Pool :
          pool_lock[p] = t <=> pc[t] \in Scanning /\ pool[t] = p
    /\ \A t \in Thread, d \in Desc :
          desc_lock[d] = t <=> pc[t] \in InDesc /\ req[t] = d

\* What a call is for, and what it holds.
Asking == {"pool_lock", "scan", "flip", "got"}
ReqOK(t) ==
    /\ pc[t] = "idle" => req[t] = NULL
    /\ pc[t] \in {"desc_lock", "pop", "free_lock", "push"} => req[t] \in Desc
    /\ pc[t] \in Asking => req[t] \in Desc \cup {"big", "pages"}
    /\ pc[t] = "clear" => req[t] \in Desc \cup {"pages"}
    /\ pc[t] \in Asking /\ req[t] \in Desc => cnt[t] = 1 /\ free_list[req[t]] = <<>>
    /\ pc[t] = "pop" => free_list[req[t]] # <<>>
    /\ pc[t] \in {"idle", "free_lock", "push", "clear"} => old[t] = NULL
    /\ pc[t] \notin {"return", "free_lock", "push", "clear"} => piece[t] = NULL

OldOK == \A t \in Thread : old[t] # NULL =>
    /\ old[t] \in allocated /\ old[t].kind # "pages"
    /\ \A u \in Thread \ {t} : old[u] # old[t]

\* The pages of a caller are of one pool.
CallersOK == \A x \in allocated :
    x.kind # "block" => x.n \in 1..MaxPages /\ InPool(x.page, x.n)

\* A block on a list, or on its way to one, is a block of an arena of this
\* descriptor, and nobody else's.
Leaves(t) == pc[t] \in {"free_lock", "push"}
BlockOn(x, d) == x.page \in Page /\ arena[x.page].desc = d /\ x \in BlocksOf(x.page, d)
ListsOK == \A d \in Desc : \A x \in Elems(free_list[d]) : BlockOn(x, d)
LeavesOK == \A t \in Thread : Leaves(t) =>
    /\ piece[t] # NULL
    /\ BlockOn(piece[t], req[t])
    /\ piece[t] \notin allocated
    /\ \A d \in Desc : piece[t] \notin Elems(free_list[d])
    /\ \A u \in Thread \ {t} : Leaves(u) => piece[u] # piece[t]

\* The scan has not passed a group that was free from the beginning.
LackOK(t) ==
    /\ pc[t] = "scan" /\ ~lacked[t] =>
          \E i \in idx[t]..(Size(pool[t]) - cnt[t]) : FreeRun(pool[t], cnt[t], i)
    /\ pc[t] = "got" /\ pages[t] = NULL => lacked[t]
    /\ pc[t] = "return" /\ piece[t] = NULL => lacked[t]

RegsInv == MallocTypeOK /\ LockOK /\ \A t \in Thread : RegOK(t)
CallInv == OldOK /\ \A t \in Thread : ReqOK(t)
MapInv == \A t \in Thread : ClearOK(t) /\ LackOK(t)
PageInv == NothingTwice /\ UsedMapRight /\ CallersOK
BlockInv == ListsOK /\ LeavesOK /\ ArenasRight
MInv == RegsInv /\ CallInv /\ MapInv /\ PageInv /\ BlockInv

-----------------------------------------------------------------------------
(* The pools *)

\* The pools do not overlap and end with the pages there are.
LEMMA Layout ==
    /\ FreePages \in Nat /\ UserPages \in 0..FreePages
    /\ \A p \in Pool : /\ Base(p) \in Nat /\ Size(p) \in Nat /\ Start(p) \in Nat
                       /\ Start(p) <= Base(p) /\ Base(p) + Size(p) = Start(p) + Count(p)
    /\ Start("kernel") + Count("kernel") = Start("user")
    /\ Start("user") + Count("user") = FreePages
  <1>1. FreePages \in Nat /\ UserLimit \in Nat /\ FreePages \div 2 \in Nat
    BY PoolsFit, SMT
  <1>2. FreePages \div 2 <= FreePages
    BY <1>1, SMT
  <1>3. UserPages \in {FreePages \div 2, UserLimit} /\ UserPages <= FreePages \div 2
    <2> DEFINE a == FreePages \div 2
               S == {a, UserLimit}
               m == IF a <= UserLimit THEN a ELSE UserLimit
    <2>1. m \in S /\ \A y \in S : m <= y
      BY <1>1
    <2>2. Min(S) \in S /\ \A y \in S : Min(S) <= y
      BY <2>1, Zenon DEF Min
    <2> QED BY <2>2 DEF UserPages
  <1>4. UserPages \in 0..FreePages
    BY <1>1, <1>2, <1>3
  <1>5. \A n \in Nat : MapPages(n) \in Nat
    <2> TAKE n \in Nat
    <2>1. DivRoundUp(n, 32) \in Nat
      BY SMT DEF DivRoundUp
    <2> DEFINE words == DivRoundUp(n, 32)
    <2>2. (8 + 4 * words + 4096 - 1) \div 4096 \in Nat
      <3> HIDE DEF words
      <3> QED BY <2>1, SMT DEF words
    <2> QED BY <2>2 DEF MapPages, DivRoundUp
  <1>6. \A p \in Pool : Count(p) \in Nat /\ Start(p) \in Nat
    BY <1>1, <1>4 DEF Count, Start
  <1>7. \A p \in Pool : MapPages(Count(p)) \in Nat /\ MapPages(Count(p)) <= Count(p)
    BY <1>5, <1>6, PoolsFit
  <1>8. \A p \in Pool : /\ Base(p) \in Nat /\ Size(p) \in Nat /\ Start(p) <= Base(p)
                        /\ Base(p) + Size(p) = Start(p) + Count(p)
    BY <1>6, <1>7 DEF Base, Size
  <1> QED BY <1>1, <1>4, <1>6, <1>8 DEF Count, Start

LEMMA PoolRange ==
  /\ \A p \in Pool : Base(p) \in Nat /\ Size(p) \in Nat /\ Base(p) + Size(p) <= FreePages
  /\ Base("kernel") + Size("kernel") <= Base("user")
  /\ FreePages \in Nat
  BY Layout DEF Count, Start, Pool

\* A page is one of one pool only, at one place.
LEMMA OnePlace ==
  ASSUME NEW p \in Pool, NEW q \in Pool, NEW i \in 0..(Size(p) - 1), NEW j \in 0..(Size(q) - 1),
         Base(p) + i = Base(q) + j
  PROVE  p = q /\ i = j
  BY PoolRange DEF Pool

\* page_from_pool() finds the pool that pages were taken from.
LEMMA PoolFound ==
  ASSUME NEW page \in Nat, NEW n \in Nat \ {0}, InPool(page, n)
  PROVE  LET p == IF FromPool("kernel", page) THEN "kernel" ELSE "user" IN
         /\ Base(p) <= page /\ page + n <= Base(p) + Size(p)
         /\ page - Base(p) \in 0..Size(p)
  BY PoolRange DEF InPool, FromPool, Pool

-----------------------------------------------------------------------------
(* Registers and locks *)

regsOf(t) == <<pc[t], req[t], piece[t], old[t], pool[t], cnt[t], idx[t], bit[t],
               pages[t], lacked[t]>>
OthersStay(t) == \A u \in Thread \ {t} :
    /\ pc'[u] = pc[u] /\ req'[u] = req[u] /\ piece'[u] = piece[u] /\ old'[u] = old[u]
    /\ pool'[u] = pool[u] /\ cnt'[u] = cnt[u] /\ idx'[u] = idx[u] /\ bit'[u] = bit[u]
    /\ pages'[u] = pages[u] /\ lacked'[u] = lacked[u]

RegsStep(t) == OthersStay(t) /\ RegsTypeOK' /\ RegOK(t)' /\ LockOK'

LEMMA NullApart == NULL \notin Thread /\ NULL \notin Page /\ NULL \notin Piece /\ NULL \notin Desc
  BY NamesApart

LEMMA CallMallocRegs ==
  ASSUME RegsInv, CallInv, NEW t \in Thread, NEW o \in Piece \cup {NULL}, CallMalloc(t, o)
  PROVE  RegsStep(t)
  <1> USE OnePage, NamesApart DEF RegsInv, CallInv, MallocTypeOK, RegsTypeOK, CallMalloc, At, Goto, AskPages, poolVars, pageRegs,
          mallocVars
  <1>1. Fresh(t) /\ pc[t] = "idle"
    BY DEF RegOK, Idle
  <1>2. OthersStay(t)
    BY DEF OthersStay
  <1>3. RegsTypeOK'
    BY <1>1 DEF Pool, Fresh
  <1>4. RegOK(t)'
    BY <1>1 DEF RegOK, Idle, Fresh
  <1>5. LockOK'
    <2>1. /\ UNCHANGED <<pool_lock, desc_lock>> /\ pc'[t] \in {"desc_lock", "pool_lock"}
          /\ pc'[t] = "pool_lock" => req'[t] = "big"
      OBVIOUS
    <2>2. \A d \in Desc : d # "big"
      OBVIOUS
    <2> QED BY <1>1, <1>2, <2>1, <2>2 DEF LockOK, Scanning, InDesc, OthersStay
  <1> QED BY <1>2, <1>3, <1>4, <1>5 DEF RegsStep

LEMMA CallGetPagesRegs ==
  ASSUME RegsInv, CallInv, NEW t \in Thread, CallGetPages(t)
  PROVE  RegsStep(t)
  <1> USE OnePage, NamesApart DEF RegsInv, CallInv, MallocTypeOK, RegsTypeOK, CallGetPages, At, Goto, AskPages, poolVars, pageRegs,
          mallocVars
  <1>1. Fresh(t) /\ pc[t] = "idle"
    BY DEF RegOK, Idle
  <1>2. OthersStay(t)
    BY DEF OthersStay
  <1>3. RegsTypeOK'
    BY <1>1, PoolRange DEF Fresh
  <1>4. RegOK(t)'
    BY <1>1 DEF RegOK, Idle, Fresh
  <1>5. LockOK'
    BY <1>1 DEF LockOK, Scanning, InDesc, ReqOK
  <1> QED BY <1>2, <1>3, <1>4, <1>5 DEF RegsStep

LEMMA PoolLockRegs ==
  ASSUME RegsInv, CallInv, NEW t \in Thread, PoolLock(t)
  PROVE  RegsStep(t)
  <1> USE NamesApart DEF RegsInv, CallInv, MallocTypeOK, RegsTypeOK, PoolLock, At, Goto, LockPool, regs
  <1>2. OthersStay(t)
    BY DEF OthersStay
  <1>3. RegsTypeOK'
    <2>1. lacked' \in [Thread -> BOOLEAN]
      OBVIOUS
    <2> QED BY <2>1
  <1>4. RegOK(t)'
    BY DEF RegOK, Idle
  <1>5. LockOK'
    BY DEF LockOK, Scanning, InDesc, ReqOK, mallocVars, MemoryTypeOK
  <1> QED BY <1>2, <1>3, <1>4, <1>5 DEF RegsStep

LEMMA ScanRegs ==
  ASSUME RegsInv, CallInv, NEW t \in Thread, Scan(t)
  PROVE  RegsStep(t)
  <1> USE NamesApart DEF RegsInv, CallInv, MallocTypeOK, RegsTypeOK, Scan, At, ScanBit, ScanFound, ScanIsOver, regs, poolVars
  <1>1. /\ cnt[t] >= 1 /\ cnt[t] \in Nat /\ idx[t] \in Nat /\ bit[t] \in Nat /\ bit[t] < cnt[t]
        /\ Size(pool[t]) \in Nat /\ idx[t] + cnt[t] <= Size(pool[t])
    BY PoolRange DEF RegOK, Idle
  <1>2. OthersStay(t)
    BY DEF OthersStay
  <1>3. RegsTypeOK'
    BY <1>1
  <1>4. RegOK(t)'
    BY <1>1 DEF RegOK, Idle
  <1>5. LockOK'
    BY DEF LockOK, Scanning, InDesc, ReqOK, mallocVars
  <1> QED BY <1>2, <1>3, <1>4, <1>5 DEF RegsStep

LEMMA ScanFailRegs ==
  ASSUME RegsInv, CallInv, NEW t \in Thread, ScanFail(t)
  PROVE  RegsStep(t)
  <1> USE NamesApart DEF RegsInv, CallInv, MallocTypeOK, RegsTypeOK, ScanFail, At, Goto, UnlockPool, regs
  <1>2. OthersStay(t)
    BY DEF OthersStay
  <1>3. RegsTypeOK'
    <2>1. lacked' \in [Thread -> BOOLEAN]
      OBVIOUS
    <2>2. Size("kernel") \in Nat
      BY PoolRange DEF Pool
    <2> QED BY <2>1, <2>2 DEF Pool
  <1>4. RegOK(t)'
    BY DEF RegOK, Idle
  <1>5. LockOK'
    BY DEF LockOK, Scanning, InDesc, ReqOK, mallocVars, MemoryTypeOK
  <1> QED BY <1>2, <1>3, <1>4, <1>5 DEF RegsStep

LEMMA ScanSucceedRegs ==
  ASSUME RegsInv, CallInv, NEW t \in Thread, ScanSucceed(t)
  PROVE  RegsStep(t)
  <1> USE NamesApart DEF RegsInv, CallInv, MallocTypeOK, RegsTypeOK, ScanSucceed, At, Goto, ScanFound, regs, poolVars
  <1>1. cnt[t] >= 1 /\ cnt[t] \in Nat /\ bit[t] = cnt[t] /\ idx[t] + cnt[t] <= Size(pool[t])
    BY DEF RegOK, Idle
  <1>2. OthersStay(t)
    BY DEF OthersStay
  <1>3. RegsTypeOK'
    BY <1>1
  <1>4. RegOK(t)'
    BY <1>1 DEF RegOK, Idle
  <1>5. LockOK'
    BY DEF LockOK, Scanning, InDesc, ReqOK, mallocVars
  <1> QED BY <1>2, <1>3, <1>4, <1>5 DEF RegsStep

LEMMA FlipBitRegs ==
  ASSUME RegsInv, CallInv, NEW t \in Thread, NEW value, pc[t] \in {"flip", "clear"}, bit[t] < cnt[t],
         SetBit(t, value), UNCHANGED <<mallocVars, pc, regs>>
  PROVE  RegsStep(t)
  <1> USE NamesApart DEF RegsInv, CallInv, MallocTypeOK, RegsTypeOK, SetBit, regs
  <1>2. OthersStay(t)
    BY DEF OthersStay
  <1>3. RegsTypeOK'
    OBVIOUS
  <1>4. RegOK(t)'
    BY DEF RegOK, Idle
  <1>5. LockOK'
    BY DEF LockOK, Scanning, InDesc, ReqOK, mallocVars
  <1> QED BY <1>2, <1>3, <1>4, <1>5 DEF RegsStep

LEMMA FlipEndRegs ==
  ASSUME RegsInv, CallInv, NEW t \in Thread, pc[t] = "flip", UnlockPool(t, TRUE), Goto(t, "got"),
         UNCHANGED <<mallocVars, regs>>
  PROVE  /\ RegsStep(t)
         /\ pages'[t] = Base(pool[t]) + idx[t] /\ cnt'[t] = cnt[t]
  <1> USE NamesApart DEF RegsInv, CallInv, MallocTypeOK, RegsTypeOK, Goto, UnlockPool, regs
  <1>1. /\ cnt[t] >= 1 /\ cnt[t] \in Nat /\ idx[t] \in Nat /\ idx[t] + cnt[t] <= Size(pool[t])
        /\ Base(pool[t]) \in Nat /\ Size(pool[t]) \in Nat
        /\ Base(pool[t]) + Size(pool[t]) <= FreePages /\ FreePages \in Nat
    BY PoolRange DEF RegOK, Idle
  <1>2. OthersStay(t)
    BY DEF OthersStay
  <1>3. Base(pool[t]) + idx[t] \in Page
    BY <1>1 DEF Page
  <1>4. RegsTypeOK'
    <2>1. lacked' \in [Thread -> BOOLEAN]
      OBVIOUS
    <2>2. Size("kernel") \in Nat
      BY PoolRange DEF Pool
    <2> QED BY <2>1, <2>2, <1>3 DEF Pool
  <1>5. pages'[t] = Base(pool[t]) + idx[t] /\ cnt'[t] = cnt[t]
    OBVIOUS
  <1>6. InPool(pages'[t], cnt[t])
    BY <1>1, <1>5 DEF InPool
  <1>7. RegOK(t)'
    BY <1>1, <1>5, <1>6 DEF RegOK, Idle, InPool
  <1>8. LockOK'
    BY DEF LockOK, Scanning, InDesc, ReqOK, mallocVars, MemoryTypeOK
  <1> QED BY <1>2, <1>4, <1>5, <1>7, <1>8 DEF RegsStep

\* What the arena of something allocated says of it.
LEMMA Freed ==
  ASSUME MInv, NEW x \in allocated
  PROVE  /\ x \in Piece
         /\ x.kind = "block" =>
               /\ arena[x.page].desc \in Desc /\ arena[x.page].desc # NULL
               /\ BlockOn(x, arena[x.page].desc)
         /\ x.kind # "block" =>
               /\ x.kind = "pages" \/ arena[x.page].desc = NULL
               /\ PagesToFree(x) = x.n /\ x.n \in 1..MaxPages /\ InPool(x.page, x.n)
               /\ x.page \in Nat /\ PagesOf(x) = x.page..(x.page + x.n - 1)
  <1>1. x \in Piece /\ x.page \in Page /\ x.kind \in {"block", "big", "pages"}
    BY DEF MInv, RegsInv, MallocTypeOK, MemoryTypeOK, Piece
  <1>2. CASE x.kind = "block"
    <2>1. x.page \in ArenaPages /\ x \in BlocksOf(x.page, arena[x.page].desc)
      BY <1>2 DEF MInv, PageInv, NothingTwice
    <2>2. arena[x.page].desc \in Desc
      BY <2>1 DEF ArenaPages
    <2> QED BY <1>1, <1>2, <2>1, <2>2, NullApart DEF BlockOn
  <1>3. CASE x.kind # "block"
    <2>1. x.n \in 1..MaxPages /\ InPool(x.page, x.n)
      BY <1>3 DEF MInv, PageInv, CallersOK
    <2>2. x.kind = "big" => arena[x.page] = [desc |-> NULL, free_cnt |-> x.n]
      BY DEF MInv, BlockInv, ArenasRight
    <2> QED BY <1>1, <1>3, <2>1, <2>2, PoolRange DEF PagesToFree, PagesOf, Page
  <1> QED BY <1>2, <1>3

\* An arena is a page of one of the pools.
LEMMA ArenaInPool ==
  ASSUME MInv, NEW page \in ArenaPages
  PROVE  InPool(page, 1) /\ page \in Nat
  <1>1. page \in UNION {{Base(p) + i : i \in {j \in DOMAIN used_map[p] : used_map[p][j]}} : p \in Pool}
    BY DEF MInv, PageInv, UsedMapRight
  <1>2. PICK p \in Pool : \E i \in DOMAIN used_map[p] : page = Base(p) + i
    BY <1>1
  <1>3. PICK i \in DOMAIN used_map[p] : page = Base(p) + i
    BY <1>2
  <1>4. i \in 0..(Size(p) - 1)
    BY <1>3 DEF MInv, RegsInv, MallocTypeOK, MemoryTypeOK
  <1> QED BY <1>3, <1>4, PoolRange DEF InPool

\* The block at the head of a descriptor's free list.
LEMMA FirstBlock ==
  ASSUME MInv, NEW d \in Desc, free_list[d] # <<>>
  PROVE  /\ Head(free_list[d]) \in Elems(free_list[d]) /\ Head(free_list[d]) \in Piece
         /\ Tail(free_list[d]) \in Seq(Piece)
         /\ BlockOn(Head(free_list[d]), d)
  <1>1. free_list[d] \in Seq(Piece)
    BY DEF MInv, RegsInv, MallocTypeOK, MemoryTypeOK
  <1>2. /\ Head(free_list[d]) \in Piece /\ Tail(free_list[d]) \in Seq(Piece)
        /\ Head(free_list[d]) = free_list[d][1] /\ 1 \in DOMAIN free_list[d]
    BY <1>1
  <1> QED BY <1>2 DEF Elems, MInv, BlockInv, ListsOK

-----------------------------------------------------------------------------
LEMMA MallocLockRegs ==
  ASSUME RegsInv, CallInv, NEW t \in Thread, MallocLock(t)
  PROVE  RegsStep(t)
  <1> USE NamesApart, OnePage DEF RegsInv, CallInv, MallocTypeOK, RegsTypeOK, MallocLock, At, Goto, regs,
          AskPages, poolVars, pageRegs
  <1>1. Fresh(t) /\ req[t] \in Desc
    BY DEF RegOK, Idle, ReqOK
  <1>2. OthersStay(t)
    BY DEF OthersStay
  <1>3. RegsTypeOK'
    <2>1. CASE free_list[req[t]] = <<>>
      <3>1. /\ pc' = [pc EXCEPT ![t] = "pool_lock"] /\ cnt' = [cnt EXCEPT ![t] = 1]
            /\ pool' = [pool EXCEPT ![t] = "kernel"]
            /\ UNCHANGED <<req, piece, old, idx, bit, pages, lacked>>
        BY <2>1
      <3>2. Size("kernel") \in Nat
        BY PoolRange DEF Pool
      <3> HIDE DEF MallocLock
      <3> QED BY <1>1, <3>1, <3>2 DEF Fresh, Pool
    <2>2. CASE free_list[req[t]] # <<>>
      BY <1>1, <2>2 DEF Fresh, Pool
    <2> QED BY <2>1, <2>2
  <1>4. RegOK(t)'
    BY <1>1 DEF RegOK, Idle, Fresh
  <1>5. LockOK'
    <2>1. pc'[t] \in {"pool_lock", "pop"} /\ UNCHANGED <<pool_lock, req>> /\ pc[t] = "desc_lock"
      OBVIOUS
    <2>2. \A e \in Desc : desc_lock'[e] = IF e = req[t] THEN t ELSE desc_lock[e]
      BY DEF MemoryTypeOK
    <2>3. \A u \in Thread, p \in Pool : (pool_lock[p] = u <=> pc[u] \in Scanning /\ pool[u] = p)'
      <3> SUFFICES ASSUME NEW u \in Thread, NEW p \in Pool
                   PROVE  pool_lock[p] = u <=> pc'[u] \in Scanning /\ pool'[u] = p
        BY <2>1, Zenon
      <3>1. pool_lock[p] = u <=> pc[u] \in Scanning /\ pool[u] = p
        BY DEF LockOK
      <3>2. pc[t] \notin Scanning /\ pc'[t] \notin Scanning
        BY <2>1 DEF Scanning
      <3> HIDE DEF MallocLock
      <3> QED BY <1>2, <3>1, <3>2 DEF OthersStay
    <2>4. \A u \in Thread, e \in Desc : (desc_lock[e] = u <=> pc[u] \in InDesc /\ req[u] = e)'
      BY <1>1, <1>2, <2>1, <2>2 DEF LockOK, OthersStay, InDesc
    <2> QED BY <2>3, <2>4 DEF LockOK
  <1> QED BY <1>2, <1>3, <1>4, <1>5 DEF RegsStep

\* The descriptor's lock is released and nothing else that LockOK is about.
LEMMA DescReleased ==
  ASSUME RegsInv, NEW t \in Thread, NEW d \in Desc, OthersStay(t), UNCHANGED pool_lock, req[t] = d, pc[t] \in InDesc,
         pc[t] \notin Scanning, pc'[t] \notin InDesc,
         desc_lock' = [desc_lock EXCEPT ![d] = NULL]
  PROVE  LockOK'
  <1>0. pc'[t] \notin Scanning
    BY DEF Scanning, InDesc
  <1>1. \A u \in Thread, p \in Pool : (pool_lock[p] = u <=> pc[u] \in Scanning /\ pool[u] = p)'
    <2> SUFFICES ASSUME NEW u \in Thread, NEW p \in Pool
                 PROVE  pool_lock[p] = u <=> pc'[u] \in Scanning /\ pool'[u] = p
      BY Zenon
    <2>1. pool_lock[p] = u <=> pc[u] \in Scanning /\ pool[u] = p
      BY DEF RegsInv, LockOK
    <2> QED BY <1>0, <2>1 DEF OthersStay
  <1>2. \A e \in Desc : desc_lock'[e] = IF e = d THEN NULL ELSE desc_lock[e]
    BY DEF RegsInv, MallocTypeOK, MemoryTypeOK
  <1>3. desc_lock[d] = t
    BY DEF RegsInv, LockOK
  <1>4. \A u \in Thread, e \in Desc : (desc_lock[e] = u <=> pc[u] \in InDesc /\ req[u] = e)'
    BY <1>2, <1>3, NullApart DEF RegsInv, LockOK, OthersStay
  <1> QED BY <1>1, <1>4 DEF LockOK

LEMMA MallocPopRegs ==
  ASSUME MInv, NEW t \in Thread, MallocPop(t)
  PROVE  RegsStep(t)
  <1> USE NamesApart DEF RegsInv, CallInv, MallocTypeOK, RegsTypeOK, MallocPop, TakeFirst, At, Goto, poolVars, pageRegs
  <1>0. RegsInv /\ CallInv
    BY DEF MInv
  <1>1. Fresh(t) /\ req[t] \in Desc /\ free_list[req[t]] # <<>>
    BY <1>0 DEF RegOK, Idle, ReqOK
  <1>2. OthersStay(t)
    BY <1>0 DEF OthersStay
  <1>3. RegsTypeOK'
    BY <1>0, <1>1, FirstBlock
  <1>4. RegOK(t)'
    BY <1>0, <1>1 DEF RegOK, Idle, Fresh
  <1>5. LockOK'
    BY <1>0, <1>1, <1>2, DescReleased DEF InDesc, Scanning
  <1> QED BY <1>2, <1>3, <1>4, <1>5 DEF RegsStep

\* The blocks of a new arena.
LEMMA NewBlocks ==
  ASSUME NEW d \in Desc, NEW page \in Page
  PROVE  LET blocks == [i \in 1..blocks_per_arena[d] |-> Block(page, i)] IN
         /\ blocks \in Seq(Piece) /\ Len(blocks) = blocks_per_arena[d] /\ blocks # <<>>
         /\ Head(blocks) = Block(page, 1) /\ Block(page, 1) \in Piece
         /\ Elems(blocks) = BlocksOf(page, d)
         /\ Tail(blocks) \in Seq(Piece)
  <1> DEFINE blocks == [i \in 1..blocks_per_arena[d] |-> Block(page, i)]
  <1>1. blocks_per_arena[d] \in Nat \ {0}
    BY BlocksFit
  <1>2. \A i \in 1..blocks_per_arena[d] : Block(page, i) \in Piece
    BY <1>1 DEF Block, Piece
  <1>3. blocks \in Seq(Piece) /\ Len(blocks) = blocks_per_arena[d]
    BY <1>1, <1>2
  <1>4. blocks[1] = Block(page, 1) /\ DOMAIN blocks = 1..blocks_per_arena[d] /\ blocks # <<>>
    BY <1>1, <1>3
  <1>5. Elems(blocks) = BlocksOf(page, d)
    BY DEF Elems, BlocksOf
  <1>6. Head(blocks) = blocks[1] /\ Tail(blocks) \in Seq(Piece)
    <2> HIDE DEF blocks
    <2> QED BY <1>3, <1>4
  <1> QED BY <1>1, <1>2, <1>3, <1>4, <1>5, <1>6

LEMMA NewArenaRegs ==
  ASSUME MInv, NEW t \in Thread, NewArena(t)
  PROVE  RegsStep(t)
  <1> USE NamesApart DEF RegsInv, CallInv, MallocTypeOK, RegsTypeOK, NewArena, TakeFirst, KeepLacked, At, Goto, poolVars
  <1>0. RegsInv /\ CallInv
    BY DEF MInv
  <1>1. req[t] \in Desc /\ pool[t] = "kernel" /\ idx[t] = 0 /\ bit[t] = 0
    BY <1>0 DEF RegOK
  <1>2. OthersStay(t)
    BY <1>0 DEF OthersStay
  <1>3. RegsTypeOK'
    <2>1. piece' \in [Thread -> Piece \cup {NULL}]
      <3>1. pages[t] # NULL => pages[t] \in Page
        BY <1>0
      <3>2. CASE pages[t] = NULL
        BY <1>0, <3>2
      <3>3. CASE pages[t] # NULL
        <4> DEFINE x == Head([i \in 1..blocks_per_arena[req[t]] |-> Block(pages[t], i)])
        <4>1. x \in Piece
          BY <3>1, <3>3, <1>1, NewBlocks
        <4>2. piece' = [piece EXCEPT ![t] = x]
          BY <3>3
        <4> HIDE DEF x
        <4> QED BY <1>0, <4>1, <4>2
      <3> QED BY <3>2, <3>3
    <2>2. /\ pc' = [pc EXCEPT ![t] = "return"] /\ cnt' = [cnt EXCEPT ![t] = 0]
          /\ pages' = [pages EXCEPT ![t] = NULL] /\ UNCHANGED <<req, old, pool, idx, bit, lacked>>
      OBVIOUS
    <2> QED BY <1>0, <1>1, <2>1, <2>2, OnePage
  <1>4. pc'[t] = "return"
    BY <1>0
  <1>5. RegOK(t)'
    BY <1>0, <1>1, <1>4 DEF RegOK, Idle, Fresh
  <1>6. desc_lock' = [desc_lock EXCEPT ![req[t]] = NULL] /\ UNCHANGED pool_lock
    OBVIOUS
  <1>7. LockOK'
    BY <1>0, <1>1, <1>2, <1>4, <1>6, DescReleased DEF InDesc, Scanning
  <1> QED BY <1>2, <1>3, <1>5, <1>7 DEF RegsStep

LEMMA GotPagesRegs ==
  ASSUME MInv, NEW t \in Thread, GotPages(t)
  PROVE  /\ RegsStep(t)
         /\ req[t] \in {"big", "pages"}
         /\ pages[t] # NULL => /\ [kind |-> req[t], page |-> pages[t], n |-> cnt[t]] \in Piece
                               /\ InPool(pages[t], cnt[t]) /\ cnt[t] \in 1..MaxPages
  <1> USE NamesApart DEF RegsInv, CallInv, MallocTypeOK, RegsTypeOK, GotPages, KeepLacked, At, Goto, poolVars
  <1>0. RegsInv /\ CallInv
    BY DEF MInv
  <1>1. /\ req[t] \in {"big", "pages"} /\ pool[t] = "kernel" /\ idx[t] = 0 /\ bit[t] = 0 /\ cnt[t] >= 1
        /\ pages[t] # NULL => InPool(pages[t], cnt[t])
    BY <1>0 DEF RegOK, ReqOK, Asking, Idle
  <1>2. OthersStay(t)
    BY <1>0 DEF OthersStay
  <1>3. pages[t] # NULL => /\ [kind |-> req[t], page |-> pages[t], n |-> cnt[t]] \in Piece
                           /\ cnt[t] \in 1..MaxPages
    BY <1>0, <1>1, OnePage DEF Piece
  <1>4. RegsTypeOK'
    <2>1. piece' \in [Thread -> Piece \cup {NULL}]
      BY <1>0, <1>3
    <2>2. /\ pc' = [pc EXCEPT ![t] = "return"] /\ cnt' = [cnt EXCEPT ![t] = 0]
          /\ pages' = [pages EXCEPT ![t] = NULL] /\ UNCHANGED <<req, old, pool, idx, bit, lacked>>
      OBVIOUS
    <2> QED BY <1>0, <1>1, <2>1, <2>2, OnePage
  <1>5. RegOK(t)'
    BY <1>0, <1>1 DEF RegOK, Idle, Fresh
  <1>6. LockOK'
    BY <1>0, <1>1, <1>2 DEF LockOK, InDesc, Scanning, OthersStay
  <1> QED BY <1>1, <1>2, <1>3, <1>4, <1>5, <1>6 DEF RegsStep

LEMMA ReturnEndRegs ==
  ASSUME MInv, NEW t \in Thread, pc[t] = "return", Goto(t, "idle"), ForgetPages(t),
         req' = [req EXCEPT ![t] = NULL], piece' = [piece EXCEPT ![t] = NULL], old' = [old EXCEPT ![t] = NULL],
         UNCHANGED <<mallocVars, poolVars>>
  PROVE  RegsStep(t)
  <1> USE NamesApart DEF RegsInv, CallInv, MallocTypeOK, RegsTypeOK, Goto, ForgetPages, poolVars, mallocVars
  <1>0. RegsInv /\ CallInv
    BY DEF MInv
  <1>2. OthersStay(t)
    BY <1>0 DEF OthersStay
  <1>3. RegsTypeOK'
    <2>1. Size("kernel") \in Nat
      BY PoolRange DEF Pool
    <2> QED BY <1>0, <2>1, OnePage DEF Pool
  <1>4. RegOK(t)'
    BY <1>0 DEF RegOK, Idle, Fresh
  <1>5. LockOK'
    BY <1>0, <1>2 DEF LockOK, InDesc, Scanning, OthersStay
  <1> QED BY <1>2, <1>3, <1>4, <1>5 DEF RegsStep

\* What free() does first, with a block and with pages.
FreeBlock(t, x) ==
    /\ x.kind = "block"
    /\ req' = [req EXCEPT ![t] = arena[x.page].desc]
    /\ piece' = [piece EXCEPT ![t] = x]
    /\ Goto(t, "free_lock")
    /\ ForgetPages(t)
    /\ UNCHANGED <<arena, poolVars>>
FreeGroup(t, x) ==
    /\ x.kind # "block"
    /\ arena' = [p \in Page |-> IF p \in PagesOf(x) THEN Junk ELSE arena[p]]
    /\ req' = [req EXCEPT ![t] = "pages"]
    /\ piece' = [piece EXCEPT ![t] = NULL]
    /\ GivePages(t, x.page, x.n)
    /\ Goto(t, "clear")
BothFree(t, x) ==
    /\ allocated' = allocated \ {x}
    /\ old' = [old EXCEPT ![t] = NULL]
    /\ UNCHANGED <<free_list, desc_lock>>

LEMMA BeginFreeIs ==
  ASSUME MInv, NEW t \in Thread, NEW x \in allocated, BeginFree(t, x)
  PROVE  BothFree(t, x) /\ (FreeBlock(t, x) \/ FreeGroup(t, x))
  <1>1. BothFree(t, x)
    BY DEF BeginFree, BothFree
  <1>2. CASE x.kind = "block"
    <2>1. x.kind # "pages" /\ arena[x.page].desc # NULL
      BY <1>2, Freed
    <2>2. FreeBlock(t, x)
      BY <1>2, <2>1 DEF BeginFree, FreeBlock
    <2> QED BY <1>1, <2>2
  <1>3. CASE x.kind # "block"
    <2>1. ~(x.kind # "pages" /\ arena[x.page].desc # NULL)
      BY <1>3, Freed
    <2>2. PagesToFree(x) = x.n /\ PagesOf(x) = x.page..(x.page + x.n - 1)
      BY <1>3, Freed
    <2>3. FreeGroup(t, x)
      BY <1>3, <2>1, <2>2, Zenon DEF BeginFree, FreeGroup
    <2> QED BY <1>1, <2>3
  <1> QED BY <1>2, <1>3

LEMMA FreeBlockRegs ==
  ASSUME MInv, NEW t \in Thread, NEW x \in allocated, pc[t] \in {"idle", "return"}, BothFree(t, x), FreeBlock(t, x)
  PROVE  RegsStep(t)
  <1> USE NamesApart DEF RegsInv, CallInv, MallocTypeOK, RegsTypeOK, BothFree, FreeBlock, Goto, ForgetPages, poolVars
  <1>0. RegsInv /\ CallInv
    BY DEF MInv
  <1>1. x \in Piece /\ arena[x.page].desc \in Desc
    BY Freed
  <1>2. OthersStay(t)
    BY <1>0 DEF OthersStay
  <1>3. RegsTypeOK'
    <2>1. Size("kernel") \in Nat
      BY PoolRange DEF Pool
    <2>2. /\ pc' = [pc EXCEPT ![t] = "free_lock"] /\ cnt' = [cnt EXCEPT ![t] = 0]
          /\ req' = [req EXCEPT ![t] = arena[x.page].desc] /\ piece' = [piece EXCEPT ![t] = x]
          /\ old' = [old EXCEPT ![t] = NULL]
      OBVIOUS
    <2> QED BY <1>0, <1>1, <2>1, <2>2, OnePage DEF Pool
  <1>4. RegOK(t)'
    BY <1>0 DEF RegOK, Idle, Fresh
  <1>5. LockOK'
    BY <1>0, <1>2 DEF LockOK, InDesc, Scanning, OthersStay
  <1> QED BY <1>2, <1>3, <1>4, <1>5 DEF RegsStep

\* palloc_free_multiple() finds the pool and the place in it.
LEMMA Given ==
  ASSUME RegsInv, NEW t \in Thread, NEW page \in Nat, NEW n \in 1..MaxPages, InPool(page, n), GivePages(t, page, n)
  PROVE  \E p \in Pool :
            /\ pool' = [pool EXCEPT ![t] = p] /\ idx' = [idx EXCEPT ![t] = page - Base(p)]
            /\ cnt' = [cnt EXCEPT ![t] = n] /\ bit' = [bit EXCEPT ![t] = 0]
            /\ pages' = [pages EXCEPT ![t] = NULL] /\ lacked' = [lacked EXCEPT ![t] = FALSE]
            /\ UNCHANGED poolVars
            /\ page - Base(p) \in Nat /\ page - Base(p) + n <= Size(p) /\ Base(p) \in Nat /\ Size(p) \in Nat
  <1> DEFINE p == IF FromPool("kernel", page) THEN "kernel" ELSE "user"
  <1>1. p \in Pool
    BY DEF Pool
  <1>2. Base(p) <= page /\ page + n <= Base(p) + Size(p) /\ Base(p) \in Nat /\ Size(p) \in Nat
    BY <1>1, PoolFound, PoolRange, OnePage
  <1>3. page - Base(p) \in Nat /\ page - Base(p) + n <= Size(p)
    BY <1>2, OnePage
  <1>4. /\ pool' = [pool EXCEPT ![t] = p] /\ idx' = [idx EXCEPT ![t] = page - Base(p)]
        /\ cnt' = [cnt EXCEPT ![t] = n] /\ bit' = [bit EXCEPT ![t] = 0]
        /\ pages' = [pages EXCEPT ![t] = NULL] /\ lacked' = [lacked EXCEPT ![t] = FALSE]
        /\ UNCHANGED poolVars
    BY DEF GivePages
  <1> HIDE DEF p
  <1> QED BY <1>1, <1>2, <1>3, <1>4

LEMMA GivenRegs ==
  ASSUME RegsInv, NEW t \in Thread, NEW page \in Nat, NEW n \in 1..MaxPages, InPool(page, n), GivePages(t, page, n),
         Goto(t, "clear")
  PROVE  /\ pool' \in [Thread -> Pool] /\ cnt' \in [Thread -> 0..MaxPages] /\ idx' \in [Thread -> Nat]
         /\ bit' \in [Thread -> Nat] /\ pages' \in [Thread -> Page \cup {NULL}] /\ lacked' \in [Thread -> BOOLEAN]
         /\ pc' = [pc EXCEPT ![t] = "clear"]
         /\ \A u \in Thread : idx'[u] <= Size(pool'[u]) /\ bit'[u] <= cnt'[u]
         /\ RegOK(t)'
         /\ UNCHANGED poolVars
         /\ \A u \in Thread \ {t} :
              /\ pool'[u] = pool[u] /\ cnt'[u] = cnt[u] /\ idx'[u] = idx[u] /\ bit'[u] = bit[u]
              /\ pages'[u] = pages[u] /\ lacked'[u] = lacked[u]
         /\ cnt'[t] = n /\ bit'[t] = 0 /\ Base(pool'[t]) + idx'[t] = page
  <1> USE DEF RegsInv, MallocTypeOK, RegsTypeOK
  <1>1. PICK p \in Pool :
            /\ pool' = [pool EXCEPT ![t] = p] /\ idx' = [idx EXCEPT ![t] = page - Base(p)]
            /\ cnt' = [cnt EXCEPT ![t] = n] /\ bit' = [bit EXCEPT ![t] = 0]
            /\ pages' = [pages EXCEPT ![t] = NULL] /\ lacked' = [lacked EXCEPT ![t] = FALSE]
            /\ UNCHANGED poolVars
            /\ page - Base(p) \in Nat /\ page - Base(p) + n <= Size(p) /\ Base(p) \in Nat /\ Size(p) \in Nat
    BY Given, Zenon
  <1>2. n \in Nat /\ n >= 1 /\ n \in 0..MaxPages
    BY OnePage
  <1>3. /\ pool' \in [Thread -> Pool] /\ cnt' \in [Thread -> 0..MaxPages] /\ idx' \in [Thread -> Nat]
        /\ bit' \in [Thread -> Nat] /\ pages' \in [Thread -> Page \cup {NULL}]
    BY <1>1, <1>2
  <1>4. lacked' \in [Thread -> BOOLEAN]
    BY <1>1
  <1>5. pc' = [pc EXCEPT ![t] = "clear"]
    BY DEF Goto
  <1>6. cnt'[t] = n /\ bit'[t] = 0 /\ idx'[t] = page - Base(p) /\ pool'[t] = p /\ pages'[t] = NULL /\ pc'[t] = "clear"
    BY <1>1, <1>5
  <1>7. \A u \in Thread \ {t} :
              /\ pool'[u] = pool[u] /\ cnt'[u] = cnt[u] /\ idx'[u] = idx[u] /\ bit'[u] = bit[u]
              /\ pages'[u] = pages[u] /\ lacked'[u] = lacked[u]
    BY <1>1
  <1>8. \A u \in Thread : idx'[u] <= Size(pool'[u]) /\ bit'[u] <= cnt'[u]
    BY <1>1, <1>2, <1>6, <1>7
  <1>9. RegOK(t)'
    BY <1>1, <1>2, <1>6 DEF RegOK, Idle
  <1> QED BY <1>1, <1>3, <1>4, <1>5, <1>6, <1>7, <1>8, <1>9

LEMMA FreeGroupRegs ==
  ASSUME MInv, NEW t \in Thread, NEW x \in allocated, pc[t] \in {"idle", "return"}, BothFree(t, x), FreeGroup(t, x)
  PROVE  RegsStep(t) /\ cnt'[t] = x.n /\ bit'[t] = 0 /\ Base(pool'[t]) + idx'[t] = x.page
  <1> USE DEF RegsInv, CallInv, MallocTypeOK, RegsTypeOK, BothFree, FreeGroup
  <1>0. RegsInv /\ CallInv
    BY DEF MInv
  <1>1. x.page \in Nat /\ x.n \in 1..MaxPages /\ InPool(x.page, x.n)
    BY Freed
  <1> DEFINE n == x.n
             page == x.page
  <1>2. page \in Nat /\ n \in 1..MaxPages /\ InPool(page, n) /\ GivePages(t, page, n) /\ Goto(t, "clear")
    BY <1>1
  <1>3. /\ pool' \in [Thread -> Pool] /\ cnt' \in [Thread -> 0..MaxPages] /\ idx' \in [Thread -> Nat]
        /\ bit' \in [Thread -> Nat] /\ pages' \in [Thread -> Page \cup {NULL}] /\ lacked' \in [Thread -> BOOLEAN]
        /\ pc' = [pc EXCEPT ![t] = "clear"]
        /\ \A u \in Thread : idx'[u] <= Size(pool'[u]) /\ bit'[u] <= cnt'[u]
        /\ RegOK(t)'
        /\ UNCHANGED poolVars
        /\ \A u \in Thread \ {t} :
              /\ pool'[u] = pool[u] /\ cnt'[u] = cnt[u] /\ idx'[u] = idx[u] /\ bit'[u] = bit[u]
              /\ pages'[u] = pages[u] /\ lacked'[u] = lacked[u]
        /\ cnt'[t] = n /\ bit'[t] = 0 /\ Base(pool'[t]) + idx'[t] = page
    <2> HIDE DEF n, page, FreeGroup
    <2> QED BY <1>0, <1>2, GivenRegs
  <1>4. OthersStay(t)
    BY <1>0, <1>3 DEF OthersStay
  <1>5. req' = [req EXCEPT ![t] = "pages"] /\ piece' = [piece EXCEPT ![t] = NULL] /\ old' = [old EXCEPT ![t] = NULL]
    OBVIOUS
  <1>6. RegsTypeOK'
    BY <1>0, <1>3, <1>5
  <1>7. LockOK'
    <2>1. pc'[t] = "clear" /\ req'[t] = "pages" /\ "pages" \notin Desc
      BY <1>0, <1>3, <1>5, NamesApart
    <2>2. UNCHANGED <<pool_lock, desc_lock>>
      BY <1>3 DEF poolVars
    <2> QED BY <1>0, <1>4, <2>1, <2>2 DEF LockOK, InDesc, Scanning, OthersStay
  <1> QED BY <1>3, <1>4, <1>6, <1>7 DEF RegsStep

LEMMA FreeLockRegs ==
  ASSUME RegsInv, CallInv, NEW t \in Thread, FreeLock(t)
  PROVE  RegsStep(t)
  <1> USE DEF RegsInv, CallInv, MallocTypeOK, RegsTypeOK, FreeLock, At, Goto, regs, poolVars, pageRegs
  <1>1. Fresh(t) /\ req[t] \in Desc
    BY DEF RegOK, Idle, ReqOK
  <1>2. OthersStay(t)
    BY DEF OthersStay
  <1>3. RegsTypeOK'
    OBVIOUS
  <1>4. RegOK(t)'
    BY <1>1 DEF RegOK, Idle, Fresh
  <1>5. LockOK'
    <2>1. pc[t] = "free_lock" /\ pc'[t] = "push" /\ UNCHANGED <<pool_lock, req, pool>>
      OBVIOUS
    <2>2. \A e \in Desc : desc_lock'[e] = IF e = req[t] THEN t ELSE desc_lock[e]
      BY DEF MemoryTypeOK
    <2>3. \A u \in Thread, p \in Pool : (pool_lock[p] = u <=> pc[u] \in Scanning /\ pool[u] = p)'
      BY <1>2, <2>1 DEF LockOK, Scanning, OthersStay
    <2>4. \A u \in Thread, e \in Desc : (desc_lock[e] = u <=> pc[u] \in InDesc /\ req[u] = e)'
      BY <1>1, <1>2, <2>1, <2>2, NamesApart DEF LockOK, OthersStay, InDesc
    <2> QED BY <2>3, <2>4 DEF LockOK
  <1> QED BY <1>2, <1>3, <1>4, <1>5 DEF RegsStep

\* free() ends.
LEMMA EndFreeLocks ==
  ASSUME RegsInv, NEW t \in Thread, pc[t] \in {"push", "clear"}, EndFree(t), UNCHANGED pool_lock, OthersStay(t)
  PROVE  LockOK'
  <1>1. pc'[t] = "idle"
    BY DEF EndFree, Goto, RegsInv, MallocTypeOK, RegsTypeOK
  <1>2. \A u \in Thread, p \in Pool : (pool_lock[p] = u <=> pc[u] \in Scanning /\ pool[u] = p)'
    BY <1>1 DEF LockOK, Scanning, OthersStay, RegsInv
  <1>3. \A d \in Desc : desc_lock'[d] = IF d = req[t] THEN NULL ELSE desc_lock[d]
    BY DEF EndFree
  <1>4. \A u \in Thread, d \in Desc : desc_lock[d] = u <=> pc[u] \in InDesc /\ req[u] = d
    BY DEF RegsInv, LockOK
  <1>5. pc[t] \in InDesc /\ pc'[t] \notin InDesc
    BY <1>1 DEF InDesc
  <1>6. \A u \in Thread, d \in Desc : (desc_lock[d] = u <=> pc[u] \in InDesc /\ req[u] = d)'
    <2> SUFFICES ASSUME NEW u \in Thread, NEW d \in Desc
                 PROVE  desc_lock'[d] = u <=> pc'[u] \in InDesc /\ req'[u] = d
      BY Zenon
    <2>1. CASE u = t
      BY <1>3, <1>4, <1>5, <2>1, NullApart
    <2>2. CASE u # t
      BY <1>3, <1>4, <1>5, <2>2, NullApart DEF OthersStay
    <2> QED BY <2>1, <2>2
  <1> QED BY <1>2, <1>6 DEF LockOK

LEMMA FreePushRegs ==
  ASSUME MInv, NEW t \in Thread, pc[t] = "push", EndFree(t), UNCHANGED <<poolVars, pageRegs>>
  PROVE  RegsStep(t)
  <1> USE DEF RegsInv, CallInv, MallocTypeOK, RegsTypeOK, EndFree, Goto, poolVars, pageRegs
  <1>0. RegsInv /\ CallInv
    BY DEF MInv
  <1>1. Fresh(t) /\ req[t] \in Desc
    BY <1>0 DEF RegOK, Idle, ReqOK
  <1>2. OthersStay(t)
    BY <1>0 DEF OthersStay
  <1>3. RegsTypeOK'
    BY <1>0
  <1>4. RegOK(t)'
    BY <1>0, <1>1 DEF RegOK, Idle, Fresh
  <1>5. LockOK'
    BY <1>0, <1>2, EndFreeLocks
  <1> QED BY <1>2, <1>3, <1>4, <1>5 DEF RegsStep

\* The last block of an arena comes back, and the page goes.
LEMMA PageGoesRegs ==
  ASSUME MInv, NEW t \in Thread, pc[t] = "push", NEW page \in Nat, InPool(page, 1), GivePages(t, page, 1), Goto(t, "clear"),
         UNCHANGED <<desc_lock, regs>>
  PROVE  RegsStep(t) /\ cnt'[t] = 1 /\ bit'[t] = 0 /\ Base(pool'[t]) + idx'[t] = page
  <1> USE DEF RegsInv, CallInv, MallocTypeOK, RegsTypeOK, regs
  <1>0. RegsInv /\ CallInv /\ 1 \in 1..MaxPages
    BY OnePage DEF MInv
  <1>3. /\ pool' \in [Thread -> Pool] /\ cnt' \in [Thread -> 0..MaxPages] /\ idx' \in [Thread -> Nat]
        /\ bit' \in [Thread -> Nat] /\ pages' \in [Thread -> Page \cup {NULL}] /\ lacked' \in [Thread -> BOOLEAN]
        /\ pc' = [pc EXCEPT ![t] = "clear"]
        /\ \A u \in Thread : idx'[u] <= Size(pool'[u]) /\ bit'[u] <= cnt'[u]
        /\ RegOK(t)'
        /\ UNCHANGED poolVars
        /\ \A u \in Thread \ {t} :
              /\ pool'[u] = pool[u] /\ cnt'[u] = cnt[u] /\ idx'[u] = idx[u] /\ bit'[u] = bit[u]
              /\ pages'[u] = pages[u] /\ lacked'[u] = lacked[u]
        /\ cnt'[t] = 1 /\ bit'[t] = 0 /\ Base(pool'[t]) + idx'[t] = page
    BY <1>0, GivenRegs
  <1>4. OthersStay(t)
    BY <1>0, <1>3 DEF OthersStay
  <1>6. RegsTypeOK'
    BY <1>0, <1>3
  <1>7. LockOK'
    <2>1. pc'[t] = "clear" /\ UNCHANGED <<pool_lock, req>>
      BY <1>0, <1>3 DEF poolVars
    <2> QED BY <1>0, <1>4, <2>1 DEF LockOK, InDesc, Scanning, OthersStay
  <1> QED BY <1>3, <1>4, <1>6, <1>7 DEF RegsStep

LEMMA ClearEndRegs ==
  ASSUME MInv, NEW t \in Thread, pc[t] = "clear", EndFree(t), ForgetPages(t), UNCHANGED <<free_list, arena, allocated, poolVars>>
  PROVE  RegsStep(t)
  <1> USE DEF RegsInv, CallInv, MallocTypeOK, RegsTypeOK, EndFree, Goto, poolVars, ForgetPages
  <1>0. RegsInv /\ CallInv
    BY DEF MInv
  <1>2. OthersStay(t)
    BY <1>0 DEF OthersStay
  <1>3. RegsTypeOK'
    <2>1. Size("kernel") \in Nat
      BY PoolRange DEF Pool
    <2> QED BY <1>0, <2>1, OnePage DEF Pool
  <1>4. RegOK(t)'
    BY <1>0 DEF RegOK, Idle, Fresh
  <1>5. LockOK'
    BY <1>0, <1>2, EndFreeLocks
  <1> QED BY <1>2, <1>3, <1>4, <1>5 DEF RegsStep

-----------------------------------------------------------------------------
(* Calls *)

\* Nobody touches a free list but the holder of the descriptor's lock.
ListsOfOthers(t) == \A d \in Desc : free_list'[d] = free_list[d] \/ desc_lock[d] = t

LEMMA CallKept ==
  ASSUME RegsInv, CallInv, NEW t \in Thread, OthersStay(t), ListsOfOthers(t), ReqOK(t)',
         \A u \in Thread \ {t} : old[u] # NULL => old[u] \in allocated',
         old'[t] # NULL => /\ old'[t] \in allocated' /\ old'[t].kind # "pages"
                           /\ \A u \in Thread \ {t} : old[u] # old'[t]
  PROVE  CallInv'
  <1>1. \A u \in Thread : ReqOK(u)'
    <2> SUFFICES ASSUME NEW u \in Thread, u # t  PROVE ReqOK(u)'
      BY Zenon
    <2>1. ReqOK(u)
      BY DEF CallInv
    <2>2. \A d \in Desc : pc[u] \in InDesc /\ req[u] = d => desc_lock[d] = u
      BY DEF RegsInv, LockOK
    <2>3. pc[u] \in Asking \cup {"pop"} /\ req[u] \in Desc => free_list'[req[u]] = free_list[req[u]]
      BY <2>2 DEF ListsOfOthers, Asking, InDesc
    <2>4. /\ pc'[u] = pc[u] /\ req'[u] = req[u] /\ piece'[u] = piece[u] /\ old'[u] = old[u]
          /\ cnt'[u] = cnt[u]
      BY DEF OthersStay
    <2>5. pc[u] = "pop" => req[u] \in Desc
      BY <2>1 DEF ReqOK
    <2> QED BY <2>1, <2>3, <2>4, <2>5 DEF ReqOK
  <1>2. OldOK'
    <2> SUFFICES ASSUME NEW u \in Thread, old'[u] # NULL
                 PROVE  /\ old'[u] \in allocated' /\ old'[u].kind # "pages"
                        /\ \A w \in Thread \ {u} : old'[w] # old'[u]
      BY Zenon DEF OldOK
    <2>1. OldOK
      BY DEF CallInv
    <2>2. \A w \in Thread \ {t} : old'[w] = old[w]
      BY DEF OthersStay
    <2>3. CASE u = t
      BY <2>2, <2>3
    <2>4. CASE u # t
      BY <2>1, <2>2, <2>4 DEF OldOK
    <2> QED BY <2>3, <2>4
  <1> QED BY <1>1, <1>2 DEF CallInv

\* Steps that neither allocate nor free.
LEMMA CallKeptSame ==
  ASSUME RegsInv, CallInv, NEW t \in Thread, OthersStay(t), ListsOfOthers(t), ReqOK(t)', UNCHANGED allocated,
         old'[t] \in {old[t], NULL}
  PROVE  CallInv'
  <1>1. OldOK
    BY DEF CallInv
  <1>2. \A u \in Thread \ {t} : old[u] # NULL => old[u] \in allocated'
    BY <1>1 DEF OldOK
  <1>3. old'[t] # NULL => /\ old'[t] \in allocated' /\ old'[t].kind # "pages"
                          /\ \A u \in Thread \ {t} : old[u] # old'[t]
    BY <1>1 DEF OldOK
  <1> QED BY <1>2, <1>3, CallKept

LEMMA CallMallocCall ==
  ASSUME RegsInv, CallInv, NEW t \in Thread, NEW o \in Piece \cup {NULL}, CallMalloc(t, o),
         o # NULL => Mine(o) /\ o.kind # "pages"
  PROVE  CallInv'
  <1>1. RegsStep(t)
    BY CallMallocRegs
  <1>2. UNCHANGED mallocVars /\ old'[t] = o /\ pc[t] = "idle"
    BY DEF CallMalloc, At, RegsInv, MallocTypeOK, RegsTypeOK
  <1>3. ReqOK(t)'
    <2>1. piece[t] = NULL /\ piece' = piece
      BY <1>2 DEF CallInv, ReqOK, CallMalloc
    <2>2. \/ pc'[t] = "desc_lock" /\ req'[t] \in Desc
          \/ pc'[t] = "pool_lock" /\ req'[t] = "big"
      BY DEF CallMalloc, Goto, RegsInv, MallocTypeOK, RegsTypeOK
    <2> QED BY <2>1, <2>2, NamesApart DEF ReqOK, Asking
  <1>4. old'[t] # NULL => /\ old'[t] \in allocated' /\ old'[t].kind # "pages"
                          /\ \A u \in Thread \ {t} : old[u] # old'[t]
    BY <1>2 DEF Mine, mallocVars
  <1>5. \A u \in Thread \ {t} : old[u] # NULL => old[u] \in allocated'
    BY <1>2 DEF CallInv, OldOK, mallocVars
  <1>6. ListsOfOthers(t)
    BY <1>2 DEF ListsOfOthers, mallocVars
  <1> QED BY <1>1, <1>3, <1>4, <1>5, <1>6, CallKept DEF RegsStep

LEMMA CallGetPagesCall ==
  ASSUME RegsInv, CallInv, NEW t \in Thread, CallGetPages(t)
  PROVE  CallInv'
  <1>1. RegsStep(t)
    BY CallGetPagesRegs
  <1>2. UNCHANGED <<mallocVars, piece, old>> /\ pc[t] = "idle" /\ pc'[t] = "pool_lock" /\ req'[t] = "pages"
    BY DEF CallGetPages, At, Goto, RegsInv, MallocTypeOK, RegsTypeOK
  <1>3. ReqOK(t)'
    BY <1>2, NamesApart DEF CallInv, ReqOK, Asking
  <1> QED BY <1>1, <1>2, <1>3, CallKeptSame DEF RegsStep, ListsOfOthers, mallocVars

\* Steps inside palloc_get_multiple().
LEMMA AskingCall ==
  ASSUME RegsInv, CallInv, NEW t \in Thread, OthersStay(t), UNCHANGED <<mallocVars, regs>>,
         (pc[t] \in Asking /\ pc'[t] \in Asking) \/ (pc[t] = "clear" /\ pc'[t] = "clear"), cnt'[t] = cnt[t]
  PROVE  CallInv'
  <1>1. ReqOK(t)
    BY DEF CallInv
  <1>2. ReqOK(t)'
    BY <1>1 DEF ReqOK, Asking, regs, mallocVars
  <1> QED BY <1>2, CallKeptSame DEF ListsOfOthers, mallocVars, regs

LEMMA MallocLockCall ==
  ASSUME RegsInv, CallInv, NEW t \in Thread, MallocLock(t)
  PROVE  CallInv'
  <1>1. RegsStep(t)
    BY MallocLockRegs
  <1>2. ReqOK(t) /\ pc[t] = "desc_lock"
    BY DEF CallInv, MallocLock, At
  <1>3. /\ UNCHANGED <<free_list, arena, allocated, regs>>
        /\ \/ pc'[t] = "pool_lock" /\ cnt'[t] = 1 /\ free_list[req[t]] = <<>>
           \/ pc'[t] = "pop" /\ free_list[req[t]] # <<>>
    BY DEF MallocLock, Goto, AskPages, RegsInv, MallocTypeOK, RegsTypeOK
  <1>4. ReqOK(t)'
    BY <1>2, <1>3 DEF ReqOK, Asking, regs
  <1> QED BY <1>1, <1>3, <1>4, CallKeptSame DEF RegsStep, ListsOfOthers, regs

\* malloc() is about to return.
LEMMA ReturnCall ==
  ASSUME RegsInv, CallInv, NEW t \in Thread, OthersStay(t), ListsOfOthers(t), pc'[t] = "return", UNCHANGED old,
         allocated \subseteq allocated'
  PROVE  CallInv'
  <1>1. ReqOK(t)'
    BY DEF ReqOK, Asking
  <1>2. OldOK
    BY DEF CallInv
  <1>3. \A u \in Thread \ {t} : old[u] # NULL => old[u] \in allocated'
    BY <1>2 DEF OldOK
  <1>4. old'[t] # NULL => /\ old'[t] \in allocated' /\ old'[t].kind # "pages"
                          /\ \A u \in Thread \ {t} : old[u] # old'[t]
    BY <1>2 DEF OldOK
  <1> QED BY <1>1, <1>3, <1>4, CallKept

LEMMA MallocPopCall ==
  ASSUME MInv, NEW t \in Thread, MallocPop(t)
  PROVE  CallInv'
  <1>0. RegsInv /\ CallInv
    BY DEF MInv
  <1>1. RegsStep(t)
    BY MallocPopRegs
  <1>2. desc_lock[req[t]] = t
    BY <1>0 DEF RegsInv, LockOK, InDesc, MallocPop, At, CallInv, ReqOK
  <1>3. ListsOfOthers(t)
    BY <1>0, <1>2 DEF ListsOfOthers, MallocPop, TakeFirst, RegsInv, MallocTypeOK, MemoryTypeOK
  <1>4. pc'[t] = "return" /\ UNCHANGED old /\ allocated \subseteq allocated'
    BY <1>0 DEF MallocPop, TakeFirst, Goto, RegsInv, MallocTypeOK, RegsTypeOK
  <1> QED BY <1>0, <1>1, <1>3, <1>4, ReturnCall DEF RegsStep

LEMMA NewArenaCall ==
  ASSUME MInv, NEW t \in Thread, NewArena(t)
  PROVE  CallInv'
  <1>0. RegsInv /\ CallInv
    BY DEF MInv
  <1>1. RegsStep(t)
    BY NewArenaRegs
  <1>2. desc_lock[req[t]] = t
    BY <1>0 DEF RegsInv, LockOK, InDesc, NewArena, At
  <1>3. ListsOfOthers(t)
    BY <1>0, <1>2 DEF ListsOfOthers, NewArena, TakeFirst, RegsInv, MallocTypeOK, MemoryTypeOK
  <1>4. pc'[t] = "return" /\ UNCHANGED old /\ allocated \subseteq allocated'
    BY <1>0 DEF NewArena, TakeFirst, Goto, RegsInv, MallocTypeOK, RegsTypeOK
  <1> QED BY <1>0, <1>1, <1>3, <1>4, ReturnCall DEF RegsStep

LEMMA GotPagesCall ==
  ASSUME MInv, NEW t \in Thread, GotPages(t)
  PROVE  CallInv'
  <1>0. RegsInv /\ CallInv
    BY DEF MInv
  <1>1. RegsStep(t)
    BY GotPagesRegs
  <1>2. ListsOfOthers(t)
    BY DEF ListsOfOthers, GotPages
  <1>3. pc'[t] = "return" /\ UNCHANGED old /\ allocated \subseteq allocated'
    BY <1>0 DEF GotPages, Goto, RegsInv, MallocTypeOK, RegsTypeOK
  <1> QED BY <1>0, <1>1, <1>2, <1>3, ReturnCall DEF RegsStep

\* A call ends.
LEMMA EndCall ==
  ASSUME RegsInv, CallInv, NEW t \in Thread, OthersStay(t), ListsOfOthers(t), pc'[t] = "idle", UNCHANGED allocated,
         req'[t] = NULL, piece'[t] = NULL, old'[t] = NULL
  PROVE  CallInv'
  <1>1. ReqOK(t)'
    BY DEF ReqOK, Asking
  <1> QED BY <1>1, CallKeptSame

\* free() begins with something that no realloc() of another thread is about.
LEMMA BeginFreeCall ==
  ASSUME MInv, NEW t \in Thread, NEW x \in allocated, BothFree(t, x), FreeBlock(t, x) \/ FreeGroup(t, x), RegsStep(t),
         \A u \in Thread \ {t} : old[u] # x
  PROVE  CallInv'
  <1>0. RegsInv /\ CallInv
    BY DEF MInv
  <1>1. old'[t] = NULL
    BY <1>0 DEF BothFree, RegsInv, MallocTypeOK, RegsTypeOK
  <1>2. \A u \in Thread \ {t} : old[u] # NULL => old[u] \in allocated'
    BY <1>0 DEF BothFree, CallInv, OldOK
  <1>3. ListsOfOthers(t)
    BY DEF ListsOfOthers, BothFree
  <1>4. ReqOK(t)'
    <2>1. CASE FreeBlock(t, x)
      <3>1. pc'[t] = "free_lock" /\ req'[t] = arena[x.page].desc /\ req'[t] \in Desc
        BY <1>0, <2>1, Freed DEF FreeBlock, Goto, RegsInv, MallocTypeOK, RegsTypeOK
      <3> QED BY <1>1, <3>1 DEF ReqOK, Asking
    <2>2. CASE FreeGroup(t, x)
      <3>1. pc'[t] = "clear" /\ req'[t] = "pages"
        BY <1>0, <2>2 DEF FreeGroup, Goto, RegsInv, MallocTypeOK, RegsTypeOK
      <3> QED BY <1>1, <3>1 DEF ReqOK, Asking
    <2> QED BY <2>1, <2>2
  <1> QED BY <1>0, <1>1, <1>2, <1>3, <1>4, CallKept DEF RegsStep

LEMMA FreeLockCall ==
  ASSUME RegsInv, CallInv, NEW t \in Thread, FreeLock(t)
  PROVE  CallInv'
  <1>1. RegsStep(t)
    BY FreeLockRegs
  <1>2. ReqOK(t) /\ pc[t] = "free_lock" /\ pc'[t] = "push"
    BY DEF CallInv, FreeLock, At, Goto, RegsInv, MallocTypeOK, RegsTypeOK
  <1>3. UNCHANGED <<free_list, arena, allocated, regs>>
    BY DEF FreeLock
  <1>4. ReqOK(t)'
    BY <1>2, <1>3 DEF ReqOK, Asking, regs
  <1> QED BY <1>1, <1>3, <1>4, CallKeptSame DEF RegsStep, ListsOfOthers, regs

LEMMA FreePushCall ==
  ASSUME MInv, NEW t \in Thread, FreePush(t), RegsStep(t)
  PROVE  CallInv'
  <1>0. RegsInv /\ CallInv /\ ReqOK(t) /\ pc[t] = "push" /\ old[t] = NULL
    BY DEF MInv, CallInv, FreePush, At, ReqOK
  <1>1. desc_lock[req[t]] = t
    BY <1>0 DEF RegsInv, LockOK, InDesc, ReqOK
  <1>2. ListsOfOthers(t) /\ UNCHANGED allocated
    BY <1>0, <1>1 DEF ListsOfOthers, FreePush, RegsInv, MallocTypeOK, MemoryTypeOK
  <1>3. \/ pc'[t] = "clear" /\ UNCHANGED regs
        \/ pc'[t] = "idle" /\ req'[t] = NULL /\ piece'[t] = NULL /\ UNCHANGED old
    BY <1>0 DEF FreePush, EndFree, Goto, RegsInv, MallocTypeOK, RegsTypeOK
  <1>4. ReqOK(t)' /\ old'[t] = old[t]
    BY <1>0, <1>3 DEF ReqOK, Asking, regs
  <1> QED BY <1>0, <1>2, <1>4, CallKeptSame DEF RegsStep

LEMMA ClearEndCall ==
  ASSUME MInv, NEW t \in Thread, pc[t] = "clear", EndFree(t), ForgetPages(t), UNCHANGED <<free_list, arena, allocated, poolVars>>
  PROVE  CallInv'
  <1>0. RegsInv /\ CallInv /\ ReqOK(t) /\ old[t] = NULL
    BY DEF MInv, CallInv, ReqOK
  <1>1. RegsStep(t)
    BY ClearEndRegs
  <1>2. pc'[t] = "idle" /\ req'[t] = NULL /\ piece'[t] = NULL /\ old'[t] = NULL
    BY <1>0 DEF EndFree, Goto, RegsInv, MallocTypeOK, RegsTypeOK
  <1> QED BY <1>0, <1>1, <1>2, EndCall DEF RegsStep, ListsOfOthers

-----------------------------------------------------------------------------
(* Scans *)

\* Who has not the lock of a pool only clears bits of it.
OnlyClears(t) == \A p \in Pool : \A i \in 0..(Size(p) - 1) :
    used_map'[p][i] => used_map[p][i] \/ pool_lock[p] = t

\* What a thread has seen, and what it may still find, is in the map.
LEMMA InMap ==
  ASSUME RegsInv, NEW t \in Thread
  PROVE  /\ pool[t] \in Pool /\ idx[t] \in Nat /\ bit[t] \in Nat /\ cnt[t] \in Nat /\ bit[t] <= cnt[t]
         /\ Size(pool[t]) \in Nat
         /\ \A k \in Seen(t) : k \in Nat /\ idx[t] + k \in 0..(Size(pool[t]) - 1)
         /\ \A i \in idx[t]..(Size(pool[t]) - cnt[t]) : \A k \in 0..(cnt[t] - 1) :
               i + k \in 0..(Size(pool[t]) - 1)
  <1>1. /\ pool[t] \in Pool /\ idx[t] \in Nat /\ bit[t] \in Nat /\ cnt[t] \in Nat /\ bit[t] <= cnt[t]
    BY OnePage DEF RegsInv, MallocTypeOK, RegsTypeOK
  <1>2. Size(pool[t]) \in Nat
    BY <1>1, PoolRange
  <1>3. RegOK(t)
    BY DEF RegsInv
  <1>4. \A k \in Seen(t) : k \in Nat /\ idx[t] + k \in 0..(Size(pool[t]) - 1)
    <2>1. CASE pc[t] = "scan"
      <3>1. Seen(t) = 0..(bit[t] - 1)
        BY <2>1 DEF Seen
      <3> QED BY <1>1, <1>2, <1>3, <2>1, <3>1 DEF RegOK
    <2>2. CASE pc[t] = "flip"
      <3>1. Seen(t) = bit[t]..(cnt[t] - 1)
        BY <2>2 DEF Seen
      <3> QED BY <1>1, <1>2, <1>3, <2>2, <3>1 DEF RegOK
    <2>3. CASE pc[t] \notin {"scan", "flip"}
      BY <2>3 DEF Seen
    <2> QED BY <2>1, <2>2, <2>3
  <1> QED BY <1>1, <1>2, <1>4

LEMMA MapKept ==
  ASSUME RegsInv, MapInv, NEW t \in Thread, OthersStay(t), OnlyClears(t), ClearOK(t)', LackOK(t)'
  PROVE  MapInv'
  <1> SUFFICES ASSUME NEW u \in Thread, u # t  PROVE ClearOK(u)' /\ LackOK(u)'
    BY Zenon DEF MapInv
  <1>1. ClearOK(u) /\ LackOK(u)
    BY DEF MapInv
  <1>2. /\ pc'[u] = pc[u] /\ pool'[u] = pool[u] /\ idx'[u] = idx[u] /\ bit'[u] = bit[u] /\ cnt'[u] = cnt[u]
        /\ pages'[u] = pages[u] /\ piece'[u] = piece[u] /\ lacked'[u] = lacked[u]
    BY DEF OthersStay
  <1>3. Seen(u)' = Seen(u)
    BY <1>2 DEF Seen
  <1>4. pc[u] \in {"scan", "flip"} => pool_lock[pool[u]] = u
    BY InMap DEF RegsInv, LockOK, Scanning
  <1>5. \A i \in 0..(Size(pool[u]) - 1) :
           pc[u] \in {"scan", "flip"} /\ ~used_map[pool[u]][i] => ~used_map'[pool[u]][i]
    BY <1>4, InMap DEF OnlyClears
  <1>6. ClearOK(u)'
    <2> SUFFICES ASSUME NEW k \in Seen(u)  PROVE ~used_map'[pool[u]][idx[u] + k]
      BY <1>2, <1>3, Zenon DEF ClearOK
    <2>1. pc[u] \in {"scan", "flip"}
      BY DEF Seen
    <2>2. idx[u] + k \in 0..(Size(pool[u]) - 1)
      BY InMap
    <2>3. ~used_map[pool[u]][idx[u] + k]
      BY <1>1 DEF ClearOK
    <2> QED BY <1>5, <2>1, <2>2, <2>3
  <1>7. LackOK(u)'
    <2>1. ASSUME pc[u] = "scan", ~lacked[u]
          PROVE  \E i \in idx[u]..(Size(pool[u]) - cnt[u]) : FreeRun(pool[u], cnt[u], i)'
      <3>1. PICK i \in idx[u]..(Size(pool[u]) - cnt[u]) : FreeRun(pool[u], cnt[u], i)
        BY <1>1, <2>1 DEF LackOK
      <3>2. \A k \in 0..(cnt[u] - 1) : i + k \in 0..(Size(pool[u]) - 1)
        BY InMap
      <3>3. \A k \in 0..(cnt[u] - 1) : ~used_map'[pool[u]][i + k]
        BY <1>5, <2>1, <3>1, <3>2 DEF FreeRun
      <3>4. FreeRun(pool[u], cnt[u], i)'
        BY <1>2, <3>3 DEF FreeRun
      <3> QED BY <3>4
    <2> QED BY <1>1, <1>2, <2>1 DEF LackOK, FreeRun
  <1> QED BY <1>6, <1>7

\* Steps outside a scan.
LEMMA MapQuiet ==
  ASSUME RegsInv, MapInv, NEW t \in Thread, OthersStay(t), OnlyClears(t),
         pc'[t] \notin {"scan", "flip", "got", "return"}
  PROVE  MapInv'
  <1>1. ClearOK(t)'
    BY DEF ClearOK, Seen
  <1>2. LackOK(t)'
    BY DEF LackOK
  <1> QED BY <1>1, <1>2, MapKept

\* The call of malloc() is about to return: with a block, or knowing why not.
LEMMA MapReturn ==
  ASSUME RegsInv, MapInv, NEW t \in Thread, OthersStay(t), UNCHANGED used_map, pc'[t] = "return",
         piece'[t] # NULL \/ (pc[t] = "got" /\ pages[t] = NULL /\ lacked'[t] = lacked[t])
  PROVE  MapInv'
  <1>1. ClearOK(t)'
    BY DEF ClearOK, Seen
  <1>2. pc[t] = "got" /\ pages[t] = NULL => lacked[t]
    BY DEF MapInv, LackOK
  <1>3. LackOK(t)'
    BY <1>2 DEF LackOK
  <1> QED BY <1>1, <1>3, MapKept DEF OnlyClears

LEMMA PoolLockMap ==
  ASSUME RegsInv, CallInv, MapInv, NEW t \in Thread, PoolLock(t)
  PROVE  MapInv'
  <1>1. RegsStep(t)
    BY PoolLockRegs
  <1>2. /\ UNCHANGED <<used_map, pool, cnt, idx, bit, pages>> /\ pc'[t] = "scan" /\ idx[t] = 0 /\ bit[t] = 0
        /\ lacked'[t] = \A i \in 0..(Size(pool[t]) - cnt[t]) : ~FreeRun(pool[t], cnt[t], i)
    BY DEF PoolLock, LockPool, At, Goto, RegsInv, MallocTypeOK, RegsTypeOK, RegOK
  <1>3. ClearOK(t)'
    BY <1>2 DEF ClearOK, Seen
  <1>4. ~lacked'[t] => \E i \in 0..(Size(pool[t]) - cnt[t]) : FreeRun(pool[t], cnt[t], i)
    BY <1>2
  <1>5. ASSUME ~lacked'[t]
        PROVE  \E i \in 0..(Size(pool[t]) - cnt[t]) : FreeRun(pool[t], cnt[t], i)'
    <2>1. PICK i \in 0..(Size(pool[t]) - cnt[t]) : FreeRun(pool[t], cnt[t], i)
      BY <1>4, <1>5
    <2>2. FreeRun(pool[t], cnt[t], i)'
      BY <1>2, <2>1 DEF FreeRun
    <2> QED BY <2>2
  <1>6. LackOK(t)'
    BY <1>2, <1>5 DEF LackOK, FreeRun
  <1> QED BY <1>1, <1>2, <1>3, <1>6, MapKept DEF RegsStep, OnlyClears

LEMMA ScanMap ==
  ASSUME RegsInv, CallInv, MapInv, NEW t \in Thread, Scan(t)
  PROVE  MapInv'
  <1>1. RegsStep(t)
    BY ScanRegs
  <1>2. pc[t] = "scan" /\ UNCHANGED <<pc, used_map, pool, cnt, pages, lacked>> /\ bit[t] # cnt[t]
    BY DEF Scan, At, ScanBit, ScanFound, poolVars
  <1>3. /\ pool[t] \in Pool /\ idx[t] \in Nat /\ bit[t] \in Nat /\ cnt[t] \in Nat /\ bit[t] < cnt[t]
        /\ Size(pool[t]) \in Nat
    BY <1>2, InMap
  <1>4. ClearOK(t) /\ LackOK(t) /\ Seen(t) = 0..(bit[t] - 1) /\ Seen(t)' = 0..(bit'[t] - 1)
    BY <1>2 DEF MapInv, Seen
  <1>5. CASE used_map[pool[t]][idx[t] + bit[t]]
    <2>1. idx'[t] = idx[t] + 1 /\ bit'[t] = 0
      BY <1>5 DEF Scan, ScanBit, RegsInv, MallocTypeOK, RegsTypeOK
    <2>2. ClearOK(t)'
      BY <1>4, <2>1 DEF ClearOK
    <2>3. ASSUME ~lacked[t]
          PROVE  \E i \in (idx[t] + 1)..(Size(pool[t]) - cnt[t]) : FreeRun(pool[t], cnt[t], i)
      <3>1. PICK i \in idx[t]..(Size(pool[t]) - cnt[t]) : FreeRun(pool[t], cnt[t], i)
        BY <1>2, <1>4, <2>3 DEF LackOK
      <3>2. i # idx[t]
        BY <1>3, <1>5, <3>1 DEF FreeRun
      <3> QED BY <1>3, <3>1, <3>2
    <2>4. LackOK(t)'
      BY <1>2, <2>1, <2>3 DEF LackOK, FreeRun
    <2> QED BY <1>1, <1>2, <2>2, <2>4, MapKept DEF RegsStep, OnlyClears
  <1>6. CASE ~used_map[pool[t]][idx[t] + bit[t]]
    <2>1. idx'[t] = idx[t] /\ bit'[t] = bit[t] + 1
      BY <1>6 DEF Scan, ScanBit, RegsInv, MallocTypeOK, RegsTypeOK
    <2>2. \A k \in 0..bit[t] : ~used_map[pool[t]][idx[t] + k]
      <3> TAKE k \in 0..bit[t]
      <3>1. k \in 0..(bit[t] - 1) \/ k = bit[t]
        BY <1>3
      <3> QED BY <1>4, <1>6, <3>1 DEF ClearOK
    <2>3. Seen(t)' = 0..bit[t]
      BY <1>3, <1>4, <2>1
    <2>4. ClearOK(t)'
      BY <1>2, <2>1, <2>2, <2>3 DEF ClearOK
    <2>5. LackOK(t)'
      BY <1>2, <1>4, <2>1 DEF LackOK, FreeRun
    <2> QED BY <1>1, <1>2, <2>4, <2>5, MapKept DEF RegsStep, OnlyClears
  <1> QED BY <1>5, <1>6

LEMMA ScanFailMap ==
  ASSUME RegsInv, CallInv, MapInv, NEW t \in Thread, ScanFail(t)
  PROVE  MapInv'
  <1>1. RegsStep(t)
    BY ScanFailRegs
  <1>2. pc[t] = "scan" /\ UNCHANGED used_map /\ idx[t] + cnt[t] > Size(pool[t]) /\ pc'[t] = "got"
    BY DEF ScanFail, At, Goto, UnlockPool, ScanIsOver, RegsInv, MallocTypeOK, RegsTypeOK
  <1>3. LackOK(t)
    BY DEF MapInv
  <1>4. lacked[t]
    BY <1>2, <1>3, InMap DEF LackOK
  <1>5. lacked'[t] = lacked[t]
    BY <1>4 DEF ScanFail, UnlockPool, RegsInv, MallocTypeOK, RegsTypeOK
  <1>6. ClearOK(t)' /\ LackOK(t)'
    BY <1>2, <1>4, <1>5 DEF ClearOK, Seen, LackOK
  <1> QED BY <1>1, <1>2, <1>6, MapKept DEF RegsStep, OnlyClears

LEMMA ScanSucceedMap ==
  ASSUME RegsInv, CallInv, MapInv, NEW t \in Thread, ScanSucceed(t)
  PROVE  MapInv'
  <1>1. RegsStep(t)
    BY ScanSucceedRegs
  <1>2. /\ pc[t] = "scan" /\ UNCHANGED <<used_map, pool, cnt, idx>> /\ bit[t] = cnt[t]
        /\ pc'[t] = "flip" /\ bit'[t] = 0
    BY DEF ScanSucceed, At, Goto, ScanFound, poolVars, RegsInv, MallocTypeOK, RegsTypeOK
  <1>3. ClearOK(t) /\ Seen(t) = 0..(cnt[t] - 1) /\ Seen(t)' = 0..(cnt[t] - 1)
    BY <1>2 DEF MapInv, Seen
  <1>4. ClearOK(t)' /\ LackOK(t)'
    BY <1>2, <1>3 DEF ClearOK, LackOK
  <1> QED BY <1>1, <1>2, <1>4, MapKept DEF RegsStep, OnlyClears

\* The one bit that changes.
LEMMA BitSet ==
  ASSUME RegsInv, NEW t \in Thread, NEW value \in BOOLEAN, SetBit(t, value), pc[t] \in {"flip", "clear"}, bit[t] < cnt[t]
  PROVE  /\ idx[t] + bit[t] \in 0..(Size(pool[t]) - 1)
         /\ used_map'[pool[t]][idx[t] + bit[t]] = value
         /\ \A p \in Pool : \A i \in 0..(Size(p) - 1) :
               ~(p = pool[t] /\ i = idx[t] + bit[t]) => used_map'[p][i] = used_map[p][i]
         /\ used_map' \in [Pool -> UNION {[0..(Size(p) - 1) -> BOOLEAN] : p \in Pool}]
         /\ \A p \in Pool : used_map'[p] \in [0..(Size(p) - 1) -> BOOLEAN]
         /\ bit'[t] = bit[t] + 1
  <1> DEFINE q == pool[t]
             j == idx[t] + bit[t]
  <1>1. q \in Pool /\ j \in 0..(Size(q) - 1)
    <2>1. RegOK(t)
      BY DEF RegsInv
    <2> QED BY <2>1, InMap DEF RegOK
  <1>2. /\ used_map \in [Pool -> UNION {[0..(Size(p) - 1) -> BOOLEAN] : p \in Pool}]
        /\ \A p \in Pool : used_map[p] \in [0..(Size(p) - 1) -> BOOLEAN]
    BY DEF RegsInv, MallocTypeOK, MemoryTypeOK
  <1>3. used_map' = [used_map EXCEPT ![q][j] = value]
    BY DEF SetBit
  <1>4. bit'[t] = bit[t] + 1
    BY DEF SetBit, RegsInv, MallocTypeOK, RegsTypeOK
  <1> HIDE DEF q, j
  <1>5. used_map' = [used_map EXCEPT ![q] = [used_map[q] EXCEPT ![j] = value]]
    BY <1>3
  <1>6. [used_map[q] EXCEPT ![j] = value] \in [0..(Size(q) - 1) -> BOOLEAN]
    BY <1>1, <1>2
  <1>7. \A p \in Pool : used_map'[p] = IF p = q THEN [used_map[q] EXCEPT ![j] = value] ELSE used_map[p]
    BY <1>1, <1>2, <1>5
  <1>8. \A p \in Pool : used_map'[p] \in [0..(Size(p) - 1) -> BOOLEAN]
    BY <1>2, <1>6, <1>7
  <1>9. DOMAIN used_map' = Pool /\ used_map' = [p \in Pool |-> used_map'[p]]
    BY <1>2, <1>5
  <1>10. used_map' \in [Pool -> UNION {[0..(Size(p) - 1) -> BOOLEAN] : p \in Pool}]
    BY <1>8, <1>9
  <1>11. used_map'[q][j] = value
    BY <1>1, <1>2, <1>7
  <1>12. \A p \in Pool : \A i \in 0..(Size(p) - 1) : ~(p = q /\ i = j) => used_map'[p][i] = used_map[p][i]
    BY <1>1, <1>2, <1>7
  <1> QED BY <1>1, <1>4, <1>8, <1>10, <1>11, <1>12 DEF q, j

LEMMA FlipBitMap ==
  ASSUME RegsInv, CallInv, MapInv, NEW t \in Thread, pc[t] = "flip", bit[t] < cnt[t],
         SetBit(t, TRUE), UNCHANGED <<mallocVars, pc, regs>>
  PROVE  MapInv'
  <1>0. TRUE \in BOOLEAN /\ pc[t] \in {"flip", "clear"}
    OBVIOUS
  <1>1. RegsStep(t)
    <2> DEFINE value == TRUE
    <2>1. SetBit(t, value)
      OBVIOUS
    <2> HIDE DEF value
    <2> QED BY <1>0, <2>1, FlipBitRegs
  <1>9. /\ used_map'[pool[t]][idx[t] + bit[t]] = TRUE
        /\ \A p \in Pool : \A i \in 0..(Size(p) - 1) :
               ~(p = pool[t] /\ i = idx[t] + bit[t]) => used_map'[p][i] = used_map[p][i]
        /\ bit'[t] = bit[t] + 1
    BY <1>0, BitSet
  <1>2. UNCHANGED <<pool, cnt, idx>>
    BY DEF SetBit
  <1>3. pool_lock[pool[t]] = t
    BY InMap DEF RegsInv, LockOK, Scanning
  <1>4. OnlyClears(t)
    <2> SUFFICES ASSUME NEW p \in Pool, NEW i \in 0..(Size(p) - 1), p # pool[t]
                 PROVE  used_map'[p][i] => used_map[p][i]
      BY <1>3, Zenon DEF OnlyClears
    <2> QED BY <1>9
  <1>5. ClearOK(t) /\ Seen(t) = bit[t]..(cnt[t] - 1) /\ Seen(t)' = (bit[t] + 1)..(cnt[t] - 1)
    BY <1>2, <1>9 DEF MapInv, Seen
  <1>6. ClearOK(t)'
    <2> SUFFICES ASSUME NEW k \in (bit[t] + 1)..(cnt[t] - 1)  PROVE ~used_map'[pool[t]][idx[t] + k]
      BY <1>2, <1>5, Zenon DEF ClearOK
    <2>1. k \in Seen(t) /\ idx[t] + k # idx[t] + bit[t] /\ idx[t] + k \in 0..(Size(pool[t]) - 1)
      BY <1>5, InMap
    <2>2. ~used_map[pool[t]][idx[t] + k]
      BY <1>5, <2>1 DEF ClearOK
    <2>3. pool[t] \in Pool
      BY InMap
    <2> QED BY <2>1, <2>2, <2>3, <1>9
  <1>7. LackOK(t)'
    BY DEF LackOK
  <1> QED BY <1>1, <1>4, <1>6, <1>7, MapKept DEF RegsStep

LEMMA FlipEndMap ==
  ASSUME RegsInv, CallInv, MapInv, NEW t \in Thread, pc[t] = "flip", UnlockPool(t, TRUE), Goto(t, "got"),
         UNCHANGED <<mallocVars, regs>>
  PROVE  MapInv'
  <1>1. RegsStep(t) /\ pages'[t] = Base(pool[t]) + idx[t]
    BY FlipEndRegs
  <1>2. pages'[t] # NULL
    <2>1. Base(pool[t]) + idx[t] \in Nat /\ RegOK(t) /\ idx[t] + cnt[t] <= Size(pool[t]) /\ cnt[t] >= 1
      BY InMap, PoolRange DEF RegsInv, RegOK, Idle
    <2>2. Base(pool[t]) + idx[t] \in Page
      BY <2>1, InMap, PoolRange DEF Page
    <2> QED BY <1>1, <2>2, NullApart
  <1>3. pc'[t] = "got" /\ UNCHANGED used_map
    BY DEF Goto, UnlockPool, RegsInv, MallocTypeOK, RegsTypeOK
  <1>4. ClearOK(t)' /\ LackOK(t)'
    BY <1>2, <1>3 DEF ClearOK, Seen, LackOK
  <1> QED BY <1>1, <1>3, <1>4, MapKept DEF RegsStep, OnlyClears

LEMMA ClearBitMap ==
  ASSUME RegsInv, CallInv, MapInv, NEW t \in Thread, pc[t] = "clear", bit[t] < cnt[t],
         SetBit(t, FALSE), UNCHANGED <<mallocVars, pc, regs>>
  PROVE  MapInv'
  <1>0. FALSE \in BOOLEAN /\ pc[t] \in {"flip", "clear"}
    OBVIOUS
  <1>1. RegsStep(t)
    <2> DEFINE value == FALSE
    <2>1. SetBit(t, value)
      OBVIOUS
    <2> HIDE DEF value
    <2> QED BY <1>0, <2>1, FlipBitRegs
  <1>9. /\ used_map'[pool[t]][idx[t] + bit[t]] = FALSE
        /\ \A p \in Pool : \A i \in 0..(Size(p) - 1) :
               ~(p = pool[t] /\ i = idx[t] + bit[t]) => used_map'[p][i] = used_map[p][i]
        /\ bit'[t] = bit[t] + 1
    BY <1>0, BitSet
  <1>2. OnlyClears(t)
    <2> SUFFICES ASSUME NEW p \in Pool, NEW i \in 0..(Size(p) - 1), used_map'[p][i]
                 PROVE  used_map[p][i]
      BY Zenon DEF OnlyClears
    <2>1. ~(p = pool[t] /\ i = idx[t] + bit[t])
      BY <1>9
    <2> QED BY <2>1, <1>9
  <1> QED BY <1>1, <1>2, MapQuiet DEF RegsStep

-----------------------------------------------------------------------------
(* Who has which page.  The pages of callers, the arenas and those that    *)
(* threads are handing over do not overlap, and make up the pages in use.  *)

Transit == [t \in Thread |-> InTransit(t)]
Apart(all, arenas, transit) ==
    /\ \A x \in all : /\ \A y \in all \ {x} : PagesOf(x) \cap PagesOf(y) = {}
                      /\ PagesOf(x) \cap arenas = {}
    /\ \A t \in Thread : /\ transit[t] \cap arenas = {}
                         /\ \A x \in all : transit[t] \cap PagesOf(x) = {}
                         /\ \A u \in Thread \ {t} : transit[t] \cap transit[u] = {}
Covered(all, arenas, transit) ==
    arenas \cup (UNION {PagesOf(x) : x \in all}) \cup (UNION {transit[t] : t \in Thread})
Only(tr, tr2, t, set) == \A u \in Thread : tr2[u] = IF u = t THEN set ELSE tr[u]

LEMMA InCovered ==
  ASSUME NEW all, NEW arenas, NEW tr, NEW page
  PROVE  page \in Covered(all, arenas, tr) <=>
            page \in arenas \/ (\E x \in all : page \in PagesOf(x)) \/ (\E t \in Thread : page \in tr[t])
  <1> DEFINE A == UNION {PagesOf(x) : x \in all}
             B == UNION {tr[t] : t \in Thread}
  <1>1. page \in A <=> \E x \in all : page \in PagesOf(x)
    OBVIOUS
  <1>2. page \in B <=> \E t \in Thread : page \in tr[t]
    OBVIOUS
  <1>3. Covered(all, arenas, tr) = arenas \cup A \cup B
    BY DEF Covered
  <1> HIDE DEF A, B
  <1> QED BY <1>1, <1>2, <1>3

\* Pages go from a thread to a caller and back.
LEMMA ToCaller ==
  ASSUME NEW all, NEW arenas, NEW tr, NEW tr2, NEW t \in Thread, NEW x, Apart(all, arenas, tr), tr[t] = PagesOf(x),
         Only(tr, tr2, t, {})
  PROVE  /\ Apart(all \cup {x}, arenas, tr2)
         /\ Covered(all \cup {x}, arenas, tr2) = Covered(all, arenas, tr)
  <1>1. Apart(all \cup {x}, arenas, tr2)
    BY DEF Apart, Only
  <1>2. Covered(all \cup {x}, arenas, tr2) = Covered(all, arenas, tr)
    <2> SUFFICES ASSUME NEW q  PROVE q \in Covered(all \cup {x}, arenas, tr2) <=> q \in Covered(all, arenas, tr)
      BY Zenon
    <2> QED BY InCovered DEF Apart, Only
  <1> QED BY <1>1, <1>2

LEMMA FromCaller ==
  ASSUME NEW all, NEW arenas, NEW tr, NEW tr2, NEW t \in Thread, NEW x \in all, Apart(all, arenas, tr), tr[t] = {},
         Only(tr, tr2, t, PagesOf(x))
  PROVE  /\ Apart(all \ {x}, arenas, tr2)
         /\ Covered(all \ {x}, arenas, tr2) = Covered(all, arenas, tr)
  <1>1. Apart(all \ {x}, arenas, tr2)
    BY DEF Apart, Only
  <1>2. Covered(all \ {x}, arenas, tr2) = Covered(all, arenas, tr)
    <2> SUFFICES ASSUME NEW q  PROVE q \in Covered(all \ {x}, arenas, tr2) <=> q \in Covered(all, arenas, tr)
      BY Zenon
    <2> QED BY InCovered DEF Apart, Only
  <1> QED BY <1>1, <1>2

\* A page becomes an arena, and stops being one.
LEMMA ToArena ==
  ASSUME NEW all, NEW arenas, NEW tr, NEW tr2, NEW t \in Thread, NEW page, Apart(all, arenas, tr), tr[t] = {page},
         Only(tr, tr2, t, {})
  PROVE  /\ Apart(all, arenas \cup {page}, tr2)
         /\ Covered(all, arenas \cup {page}, tr2) = Covered(all, arenas, tr)
  <1>1. Apart(all, arenas \cup {page}, tr2)
    BY DEF Apart, Only
  <1>2. Covered(all, arenas \cup {page}, tr2) = Covered(all, arenas, tr)
    <2> SUFFICES ASSUME NEW q  PROVE q \in Covered(all, arenas \cup {page}, tr2) <=> q \in Covered(all, arenas, tr)
      BY Zenon
    <2> QED BY InCovered DEF Apart, Only
  <1> QED BY <1>1, <1>2

LEMMA FromArena ==
  ASSUME NEW all, NEW arenas, NEW tr, NEW tr2, NEW t \in Thread, NEW page \in arenas, Apart(all, arenas, tr), tr[t] = {},
         Only(tr, tr2, t, {page})
  PROVE  /\ Apart(all, arenas \ {page}, tr2)
         /\ Covered(all, arenas \ {page}, tr2) = Covered(all, arenas, tr)
  <1>1. Apart(all, arenas \ {page}, tr2)
    BY DEF Apart, Only
  <1>2. Covered(all, arenas \ {page}, tr2) = Covered(all, arenas, tr)
    <2> SUFFICES ASSUME NEW q  PROVE q \in Covered(all, arenas \ {page}, tr2) <=> q \in Covered(all, arenas, tr)
      BY Zenon
    <2> QED BY InCovered DEF Apart, Only
  <1> QED BY <1>1, <1>2

\* A bit is set, and cleared.
LEMMA OneMore ==
  ASSUME NEW all, NEW arenas, NEW tr, NEW tr2, NEW t \in Thread, NEW page, Apart(all, arenas, tr),
         page \notin Covered(all, arenas, tr),
         Only(tr, tr2, t, tr[t] \cup {page})
  PROVE  /\ Apart(all, arenas, tr2)
         /\ Covered(all, arenas, tr2) = Covered(all, arenas, tr) \cup {page}
  <1>1. Apart(all, arenas, tr2)
    BY InCovered DEF Apart, Only
  <1>2. Covered(all, arenas, tr2) = Covered(all, arenas, tr) \cup {page}
    <2> SUFFICES ASSUME NEW q  PROVE q \in Covered(all, arenas, tr2) <=> q \in Covered(all, arenas, tr) \cup {page}
      BY Zenon
    <2> QED BY InCovered DEF Apart, Only
  <1> QED BY <1>1, <1>2

LEMMA OneLess ==
  ASSUME NEW all, NEW arenas, NEW tr, NEW tr2, NEW t \in Thread, NEW page, page \in tr[t], Apart(all, arenas, tr),
         NEW rest, rest = tr[t] \ {page},
         Only(tr, tr2, t, rest)
  PROVE  /\ Apart(all, arenas, tr2)
         /\ Covered(all, arenas, tr2) = Covered(all, arenas, tr) \ {page}
  <1>1. Apart(all, arenas, tr2)
    BY DEF Apart, Only
  <1>2. Covered(all, arenas, tr2) = Covered(all, arenas, tr) \ {page}
    <2> SUFFICES ASSUME NEW q  PROVE q \in Covered(all, arenas, tr2) <=> q \in Covered(all, arenas, tr) \ {page}
      BY Zenon
    <2> QED BY InCovered DEF Apart, Only
  <1> QED BY <1>1, <1>2

\* A block has no pages of its own.
LEMMA BlockHasNone ==
  ASSUME NEW all, NEW arenas, NEW tr, NEW x, PagesOf(x) = {}, Apart(all, arenas, tr)
  PROVE  /\ Apart(all \cup {x}, arenas, tr) /\ Covered(all \cup {x}, arenas, tr) = Covered(all, arenas, tr)
         /\ Apart(all \ {x}, arenas, tr) /\ Covered(all \ {x}, arenas, tr) = Covered(all, arenas, tr)
  <1>1. Apart(all \cup {x}, arenas, tr) /\ Apart(all \ {x}, arenas, tr)
    BY DEF Apart, Only
  <1>2. Covered(all \cup {x}, arenas, tr) = Covered(all, arenas, tr)
    <2> SUFFICES ASSUME NEW q  PROVE q \in Covered(all \cup {x}, arenas, tr) <=> q \in Covered(all, arenas, tr)
      BY Zenon
    <2> QED BY InCovered DEF Apart, Only
  <1>3. Covered(all \ {x}, arenas, tr) = Covered(all, arenas, tr)
    <2> SUFFICES ASSUME NEW q  PROVE q \in Covered(all \ {x}, arenas, tr) <=> q \in Covered(all, arenas, tr)
      BY Zenon
    <2> QED BY InCovered DEF Apart, Only
  <1> QED BY <1>1, <1>2, <1>3
-----------------------------------------------------------------------------
(* The pages in use *)

UsedPages ==
    UNION {{Base(p) + i : i \in {j \in DOMAIN used_map[p] : used_map[p][j]}} : p \in Pool}
MapTyped == \A p \in Pool : used_map[p] \in [0..(Size(p) - 1) -> BOOLEAN]
PagesInv ==
    /\ Apart(allocated, ArenaPages, Transit)
    /\ UsedPages = Covered(allocated, ArenaPages, Transit)
BlocksApart == \A x \in allocated : x.kind = "block" =>
    /\ x.page \in ArenaPages
    /\ x \in BlocksOf(x.page, arena[x.page].desc)
    /\ \A d \in Desc : x \notin Elems(free_list[d])

UsedBits == \A page : page \in UsedPages <=>
               \E p \in Pool : \E i \in 0..(Size(p) - 1) : used_map[p][i] /\ page = Base(p) + i

LEMMA UsedIs == MapTyped => UsedBits
  <1> SUFFICES ASSUME MapTyped, NEW page
               PROVE  page \in UsedPages <=>
                         \E p \in Pool : \E i \in 0..(Size(p) - 1) : used_map[p][i] /\ page = Base(p) + i
    BY Zenon DEF UsedBits
  <1> DEFINE of(p) == {Base(p) + i : i \in {j \in DOMAIN used_map[p] : used_map[p][j]}}
  <1>1. ASSUME NEW p \in Pool
        PROVE  page \in of(p) <=> \E i \in 0..(Size(p) - 1) : used_map[p][i] /\ page = Base(p) + i
    <2>1. DOMAIN used_map[p] = 0..(Size(p) - 1)
      BY DEF MapTyped
    <2> QED BY <2>1
  <1>2. page \in UsedPages <=> \E p \in Pool : page \in of(p)
    BY DEF UsedPages
  <1> HIDE DEF of
  <1> QED BY <1>1, <1>2

LEMMA PageParts == PageInv <=> PagesInv /\ BlocksApart /\ CallersOK
  <1>1. \A t \in Thread : Transit[t] = InTransit(t)
    BY DEF Transit
  <1>2. NothingTwice <=> Apart(allocated, ArenaPages, Transit) /\ BlocksApart
    BY <1>1 DEF NothingTwice, Apart, BlocksApart
  <1>3. UNION {InTransit(t) : t \in Thread} = UNION {Transit[t] : t \in Thread}
    BY <1>1
  <1>4. UsedMapRight <=> UsedPages = Covered(allocated, ArenaPages, Transit)
    BY <1>3 DEF UsedMapRight, UsedPages, Covered
  <1> QED BY <1>2, <1>4 DEF PageInv, PagesInv

\* The others' pages stay on their way.
LEMMA TransitStays ==
  ASSUME NEW t \in Thread, OthersStay(t)
  PROVE  Only(Transit, Transit', t, InTransit(t)')
  <1>1. \A u \in Thread : Transit'[u] = InTransit(u)'
    BY DEF Transit
  <1>2. \A u \in Thread \ {t} : InTransit(u)' = InTransit(u)
    BY DEF InTransit, OthersStay, At
  <1>3. \A u \in Thread : Transit[u] = InTransit(u)
    BY DEF Transit
  <1> QED BY <1>1, <1>2, <1>3 DEF Only

LEMMA PagesQuiet ==
  ASSUME PagesInv, NEW t \in Thread, OthersStay(t), UNCHANGED <<used_map, allocated>>, ArenaPages' = ArenaPages,
         InTransit(t)' = InTransit(t)
  PROVE  PagesInv'
  <1>1. Transit' = Transit
    <2>1. \A u \in Thread : Transit'[u] = Transit[u]
      BY TransitStays DEF Only, Transit
    <2> QED BY <2>1 DEF Transit
  <1>2. UsedPages' = UsedPages
    BY DEF UsedPages
  <1> QED BY <1>1, <1>2 DEF PagesInv

\* Where the bit of a page is.
LEMMA OneBit ==
  ASSUME RegsInv, NEW t \in Thread, NEW value \in BOOLEAN, SetBit(t, value), pc[t] \in {"flip", "clear"}, bit[t] < cnt[t]
  PROVE  LET page == Base(pool[t]) + idx[t] + bit[t] IN
         /\ value => UsedPages' = UsedPages \cup {page}
         /\ ~value => UsedPages' = UsedPages \ {page}
         /\ page \in UsedPages <=> used_map[pool[t]][idx[t] + bit[t]]
  <1> DEFINE q == pool[t]
             j == idx[t] + bit[t]
             page == Base(q) + j
  <1>1. /\ q \in Pool /\ j \in 0..(Size(q) - 1) /\ Base(q) \in Nat /\ Size(q) \in Nat
        /\ used_map'[q][j] = value
        /\ \A p \in Pool : \A i \in 0..(Size(p) - 1) :
              ~(p = q /\ i = j) => used_map'[p][i] = used_map[p][i]
    BY BitSet, InMap, PoolRange
  <1>2. MapTyped /\ MapTyped'
    BY BitSet DEF RegsInv, MallocTypeOK, MemoryTypeOK, MapTyped
  <1>3. idx[t] \in Nat /\ bit[t] \in Nat /\ page = Base(pool[t]) + idx[t] + bit[t]
    BY <1>1, InMap
  <1> HIDE DEF q, j
  <1>4. \A x : x \in UsedPages <=> \E p \in Pool : \E i \in 0..(Size(p) - 1) : used_map[p][i] /\ x = Base(p) + i
    BY <1>2, UsedIs DEF UsedBits
  <1>5. \A x : x \in UsedPages' <=> \E p \in Pool : \E i \in 0..(Size(p) - 1) : used_map'[p][i] /\ x = Base(p) + i
    <2>1. UsedBits'
      BY <1>2, UsedIs, PTL
    <2> QED BY <2>1, Zenon DEF UsedBits
  <1>6. \A p \in Pool : \A i \in 0..(Size(p) - 1) : page = Base(p) + i => p = q /\ i = j
    BY <1>1, OnePlace
  <1>7. \A x : x # page => (x \in UsedPages' <=> x \in UsedPages)
    <2> SUFFICES ASSUME NEW x, x # page  PROVE x \in UsedPages' <=> x \in UsedPages
      BY Zenon
    <2>1. \A p \in Pool : \A i \in 0..(Size(p) - 1) : x = Base(p) + i => used_map'[p][i] = used_map[p][i]
      BY <1>1
    <2> QED BY <1>4, <1>5, <2>1
  <1>8. page \in UsedPages' <=> value
    BY <1>1, <1>5, <1>6
  <1>9. page \in UsedPages <=> used_map[q][j]
    BY <1>1, <1>4, <1>6
  <1> HIDE DEF page
  <1>10. value => UsedPages' = UsedPages \cup {page}
    BY <1>7, <1>8
  <1>11. ~value => UsedPages' = UsedPages \ {page}
    BY <1>7, <1>8
  <1> QED BY <1>3, <1>9, <1>10, <1>11 DEF q, j

\* What is on its way, by label.
LEMMA TransitIs ==
  \A t \in Thread :
    /\ pc[t] \notin {"flip", "clear", "got"} => InTransit(t) = {}
    /\ pc[t] = "flip" => InTransit(t) = (Base(pool[t]) + idx[t])..(Base(pool[t]) + idx[t] + bit[t] - 1)
    /\ pc[t] = "clear" =>
          InTransit(t) = (Base(pool[t]) + idx[t] + bit[t])..(Base(pool[t]) + idx[t] + cnt[t] - 1)
    /\ pc[t] = "got" => InTransit(t) = IF pages[t] # NULL THEN pages[t]..(pages[t] + cnt[t] - 1) ELSE {}
  BY DEF InTransit, At

\* Steps that hand over nothing, or only change the label under which it is done.
LEMMA PagesStay ==
  ASSUME PagesInv, NEW t \in Thread, OthersStay(t), UNCHANGED <<used_map, allocated>>, ArenaPages' = ArenaPages,
         pc[t] \notin {"flip", "clear"}, pc'[t] \notin {"flip", "clear", "got"},
         pc[t] = "got" => pages[t] = NULL
  PROVE  PagesInv'
  <1>1. InTransit(t) = {}
    BY TransitIs
  <1>2. InTransit(t)' = {}
    BY DEF InTransit, At
  <1> QED BY <1>1, <1>2, PagesQuiet

LEMMA ScanFailPages ==
  ASSUME RegsInv, CallInv, PagesInv, NEW t \in Thread, ScanFail(t)
  PROVE  PagesInv'
  <1>1. OthersStay(t)
    BY ScanFailRegs DEF RegsStep
  <1>2. /\ pc[t] = "scan" /\ pc'[t] = "got" /\ pages'[t] = NULL
        /\ UNCHANGED <<used_map, allocated, arena>>
    BY DEF ScanFail, At, Goto, UnlockPool, RegsInv, MallocTypeOK, RegsTypeOK, mallocVars
  <1>3. InTransit(t) = {}
    BY <1>2, TransitIs
  <1>4. InTransit(t)' = {}
    BY <1>2 DEF InTransit, At
  <1> QED BY <1>1, <1>2, <1>3, <1>4, PagesQuiet DEF ArenaPages

LEMMA ScanSucceedPages ==
  ASSUME RegsInv, CallInv, PagesInv, NEW t \in Thread, ScanSucceed(t)
  PROVE  PagesInv'
  <1>1. OthersStay(t)
    BY ScanSucceedRegs DEF RegsStep
  <1>2. /\ pc[t] = "scan" /\ pc'[t] = "flip" /\ bit'[t] = 0
        /\ UNCHANGED <<used_map, allocated, arena, pool, idx>>
    BY DEF ScanSucceed, At, Goto, RegsInv, MallocTypeOK, RegsTypeOK, mallocVars, poolVars
  <1>3. InTransit(t) = {}
    BY <1>2, TransitIs
  <1>4. InTransit(t)' = (Base(pool[t]) + idx[t])..(Base(pool[t]) + idx[t] + 0 - 1)
    BY <1>2 DEF InTransit, At
  <1>5. InTransit(t)' = {}
    BY <1>4, InMap, PoolRange
  <1> QED BY <1>1, <1>2, <1>3, <1>5, PagesQuiet DEF ArenaPages

LEMMA FlipBitPages ==
  ASSUME RegsInv, CallInv, MapInv, PagesInv, NEW t \in Thread, pc[t] = "flip", bit[t] < cnt[t],
         SetBit(t, TRUE), UNCHANGED <<mallocVars, pc, regs>>
  PROVE  PagesInv'
  <1> DEFINE first == Base(pool[t]) + idx[t]
             page == first + bit[t]
  <1>1. OthersStay(t) /\ UsedPages' = UsedPages \cup {page} /\ (page \in UsedPages <=> used_map[pool[t]][idx[t] + bit[t]])
        /\ bit'[t] = bit[t] + 1
    <2> DEFINE value == TRUE
    <2>1. SetBit(t, value) /\ value \in BOOLEAN /\ pc[t] \in {"flip", "clear"}
      OBVIOUS
    <2>5. value
      OBVIOUS
    <2> HIDE DEF value
    <2>2. OthersStay(t)
      <3>1. RegsStep(t)
        BY <2>1, FlipBitRegs
      <3> QED BY <3>1 DEF RegsStep
    <2>4. bit'[t] = bit[t] + 1
      BY <2>1, BitSet
    <2>3. /\ UsedPages' = UsedPages \cup {page}
          /\ page \in UsedPages <=> used_map[pool[t]][idx[t] + bit[t]]
      BY <2>1, <2>5, OneBit
    <2> QED BY <2>2, <2>3, <2>4
  <1>2. /\ UNCHANGED <<allocated, arena, pool, idx, pc>> /\ first \in Nat /\ bit[t] \in Nat
    BY InMap, PoolRange DEF SetBit, mallocVars
  <1>3. page \notin UsedPages
    <2>1. bit[t] \in Seen(t)
      BY InMap DEF Seen
    <2>2. ~used_map[pool[t]][idx[t] + bit[t]]
      BY <2>1 DEF MapInv, ClearOK
    <2> QED BY <1>1, <2>2
  <1>4. Transit[t] = first..(page - 1)
    <2>1. InTransit(t) = (Base(pool[t]) + idx[t])..(Base(pool[t]) + idx[t] + bit[t] - 1)
      BY TransitIs
    <2> QED BY <1>2, <2>1 DEF Transit
  <1>5. InTransit(t)' = first..(first + bit'[t] - 1)
    BY <1>2 DEF InTransit, At
  <1> HIDE DEF first
  <1>6. InTransit(t)' = Transit[t] \cup {page}
    BY <1>1, <1>2, <1>4, <1>5
  <1>7. Only(Transit, Transit', t, Transit[t] \cup {page})
    BY <1>1, <1>6, TransitStays
  <1> HIDE DEF page
  <1>8. page \notin Covered(allocated, ArenaPages, Transit)
    BY <1>3 DEF PagesInv
  <1>20. Apart(allocated, ArenaPages, Transit)
    BY DEF PagesInv
  <1>9. /\ Apart(allocated, ArenaPages, Transit')
        /\ Covered(allocated, ArenaPages, Transit') = Covered(allocated, ArenaPages, Transit) \cup {page}
    BY <1>20, <1>7, <1>8, OneMore
  <1> QED BY <1>1, <1>2, <1>9 DEF PagesInv, ArenaPages

LEMMA ClearBitPages ==
  ASSUME RegsInv, CallInv, PagesInv, NEW t \in Thread, pc[t] = "clear", bit[t] < cnt[t],
         SetBit(t, FALSE), UNCHANGED <<mallocVars, pc, regs>>
  PROVE  PagesInv'
  <1> DEFINE first == Base(pool[t]) + idx[t]
             page == first + bit[t]
  <1>1. OthersStay(t) /\ UsedPages' = UsedPages \ {page} /\ bit'[t] = bit[t] + 1
    <2> DEFINE value == FALSE
    <2>1. SetBit(t, value) /\ value \in BOOLEAN /\ pc[t] \in {"flip", "clear"} /\ ~value
      OBVIOUS
    <2> HIDE DEF value
    <2> QED BY <2>1, FlipBitRegs, OneBit, BitSet DEF RegsStep
  <1>2. /\ UNCHANGED <<allocated, arena, pool, idx, cnt, pc>> /\ first \in Nat /\ bit[t] \in Nat /\ cnt[t] \in Nat
    BY InMap, PoolRange DEF SetBit, mallocVars
  <1>4. Transit[t] = page..(first + cnt[t] - 1)
    BY TransitIs DEF Transit
  <1>5. InTransit(t)' = (first + bit'[t])..(first + cnt[t] - 1)
    BY <1>2 DEF InTransit, At
  <1> HIDE DEF first
  <1>6. InTransit(t)' = Transit[t] \ {page} /\ page \in Transit[t]
    BY <1>1, <1>2, <1>4, <1>5
  <1>7. Only(Transit, Transit', t, Transit[t] \ {page})
    BY <1>1, <1>6, TransitStays
  <1> HIDE DEF page
  <1>21. page \in Transit[t]
    BY <1>6
  <1>20. Apart(allocated, ArenaPages, Transit)
    BY DEF PagesInv
  <1> DEFINE rest == Transit[t] \ {page}
  <1>22. rest = Transit[t] \ {page} /\ Only(Transit, Transit', t, rest)
    BY <1>7
  <1> HIDE DEF rest
  <1>9. /\ Apart(allocated, ArenaPages, Transit')
        /\ Covered(allocated, ArenaPages, Transit') = Covered(allocated, ArenaPages, Transit) \ {page}
    BY <1>20, <1>21, <1>22, OneLess
  <1> QED BY <1>1, <1>2, <1>9 DEF PagesInv, ArenaPages

LEMMA FlipEndPages ==
  ASSUME RegsInv, CallInv, PagesInv, NEW t \in Thread, pc[t] = "flip", ~(bit[t] < cnt[t]), UnlockPool(t, TRUE), Goto(t, "got"),
         UNCHANGED <<mallocVars, regs>>
  PROVE  PagesInv'
  <1> DEFINE first == Base(pool[t]) + idx[t]
  <1>1. OthersStay(t) /\ pages'[t] = first /\ cnt'[t] = cnt[t] /\ RegOK(t)
    BY FlipEndRegs DEF RegsStep, RegsInv
  <1>2. bit[t] = cnt[t] /\ first \in Nat /\ first \in Page
    BY <1>1, InMap, PoolRange DEF RegOK, Idle, Page
  <1>3. pc'[t] = "got" /\ UNCHANGED <<used_map, allocated, arena>>
    BY DEF Goto, UnlockPool, RegsInv, MallocTypeOK, RegsTypeOK, mallocVars
  <1>4. InTransit(t) = first..(first + bit[t] - 1)
    BY TransitIs
  <1>5. InTransit(t)' = pages'[t]..(pages'[t] + cnt'[t] - 1)
    BY <1>1, <1>2, <1>3, NullApart DEF InTransit, At
  <1>6. InTransit(t)' = InTransit(t)
    BY <1>1, <1>2, <1>4, <1>5
  <1> QED BY <1>1, <1>3, <1>6, PagesQuiet DEF ArenaPages

\* The pages become the caller's.
LEMMA GotPagesPages ==
  ASSUME MInv, PagesInv, NEW t \in Thread, GotPages(t), pages[t] # NULL
  PROVE  /\ PagesInv' /\ ArenaPages' = ArenaPages
         /\ pages[t] \notin ArenaPages
         /\ \A y \in allocated : y.kind = "big" => y.page # pages[t]
  <1> DEFINE x == [kind |-> req[t], page |-> pages[t], n |-> cnt[t]]
  <1>0. RegsInv /\ CallInv
    BY DEF MInv
  <1>1. /\ OthersStay(t) /\ x \in Piece /\ cnt[t] \in 1..MaxPages /\ req[t] \in {"big", "pages"}
        /\ pages[t] \in Nat
    BY GotPagesRegs, <1>0 DEF RegsStep, RegsInv, MallocTypeOK, RegsTypeOK, Page
  <1>2. /\ pc[t] = "got" /\ pc'[t] = "return" /\ allocated' = allocated \cup {x} /\ UNCHANGED used_map
        /\ arena' = IF req[t] = "big" THEN [arena EXCEPT ![pages[t]] = [desc |-> NULL, free_cnt |-> cnt[t]]] ELSE arena
    BY <1>0 DEF GotPages, At, Goto, KeepLacked, RegsInv, MallocTypeOK, RegsTypeOK, poolVars
  <1>3. Transit[t] = pages[t]..(pages[t] + cnt[t] - 1) /\ PagesOf(x) = pages[t]..(pages[t] + cnt[t] - 1)
    BY <1>1, <1>2, TransitIs DEF Transit, PagesOf
  <1>4. pages[t] \in Transit[t]
    BY <1>1, <1>3, OnePage
  <1>5. pages[t] \notin ArenaPages
    BY <1>4 DEF PagesInv, Apart
  <1>6. \A y \in allocated : y.kind = "big" => y.page # pages[t]
    <2> SUFFICES ASSUME NEW y \in allocated, y.kind = "big", y.page = pages[t]  PROVE FALSE
      OBVIOUS
    <2>1. y.page \in PagesOf(y)
      BY Freed, OnePage
    <2> QED BY <1>4, <2>1 DEF PagesInv, Apart
  <1>7. ArenaPages' = ArenaPages
    BY <1>0, <1>2, <1>5, NullApart DEF ArenaPages, RegsInv, MallocTypeOK, MemoryTypeOK
  <1>8. InTransit(t)' = {}
    BY <1>2 DEF InTransit, At
  <1>9. Only(Transit, Transit', t, {})
    BY <1>1, <1>8, TransitStays
  <1>10. Transit[t] = PagesOf(x)
    BY <1>3
  <1> HIDE DEF x
  <1>20. Apart(allocated, ArenaPages, Transit)
    BY DEF PagesInv
  <1>11. /\ Apart(allocated \cup {x}, ArenaPages, Transit')
         /\ Covered(allocated \cup {x}, ArenaPages, Transit') = Covered(allocated, ArenaPages, Transit)
    BY <1>20, <1>9, <1>10, ToCaller
  <1>12. PagesInv'
    <2>1. UsedPages' = UsedPages
      BY <1>2 DEF UsedPages
    <2> QED BY <1>2, <1>7, <1>11, <2>1 DEF PagesInv
  <1> QED BY <1>5, <1>6, <1>7, <1>12
-----------------------------------------------------------------------------
(* Free lists: sequences in which nothing is twice *)

Once(s) == \A i, j \in DOMAIN s : s[i] = s[j] => i = j

LEMMA OnceIs ==
  ASSUME NEW S, NEW s \in Seq(S)
  PROVE  /\ IsFiniteSet(Elems(s)) /\ Elems(s) \subseteq S
         /\ Cardinality(Elems(s)) = Len(s) <=> Once(s)
  <1>1. /\ s \in [1..Len(s) -> Elems(s)] /\ Len(s) \in Nat /\ DOMAIN s = 1..Len(s)
        /\ \A x \in Elems(s) : \E i \in 1..Len(s) : s[i] = x
        /\ Elems(s) \subseteq S
    BY DEF Elems
  <1>2. s \in Surjection(1..Len(s), Elems(s))
    BY <1>1 DEF Surjection
  <1>3. IsFiniteSet(1..Len(s)) /\ Cardinality(1..Len(s)) = Len(s)
    <2> DEFINE m == Len(s)
    <2>1. m \in Nat
      BY <1>1
    <2> HIDE DEF m
    <2>2. IsFiniteSet(1..m) /\ Cardinality(1..m) = m
      BY <2>1, FS_Interval
    <2> QED BY <2>2 DEF m
  <1>4. IsFiniteSet(Elems(s)) /\ (Cardinality(Elems(s)) = Cardinality(1..Len(s)) <=> s \in Injection(1..Len(s), Elems(s)))
    BY <1>2, <1>3, FS_Surjection
  <1>5. s \in Injection(1..Len(s), Elems(s)) <=> Once(s)
    BY <1>1 DEF Injection, IsInjective, Once
  <1> QED BY <1>1, <1>3, <1>4, <1>5

LEMMA OnceTail ==
  ASSUME NEW S, NEW s \in Seq(S), s # <<>>, Once(s)
  PROVE  /\ Once(Tail(s)) /\ Tail(s) \in Seq(S)
         /\ Head(s) \in S /\ Head(s) \in Elems(s)
         /\ Elems(Tail(s)) = Elems(s) \ {Head(s)}
  <1> DEFINE r == Tail(s)
  <1>1. /\ Len(s) > 0 /\ Len(r) = Len(s) - 1 /\ Head(s) = s[1] /\ r \in Seq(S) /\ Head(s) \in S
        /\ DOMAIN r = 1..Len(r) /\ \A i \in 1..Len(r) : r[i] = s[i + 1]
        /\ Len(s) \in Nat /\ DOMAIN s = 1..Len(s)
    OBVIOUS
  <1>2. \A i \in 1..Len(r) : i + 1 \in DOMAIN s /\ i + 1 # 1 /\ 1 \in DOMAIN s
    BY <1>1
  <1>3. \A i \in DOMAIN s : i = 1 \/ (i - 1 \in 1..Len(r) /\ (i - 1) + 1 = i)
    BY <1>1
  <1> HIDE DEF r
  <1>4. Once(r)
    <2> SUFFICES ASSUME NEW i \in DOMAIN r, NEW j \in DOMAIN r, r[i] = r[j]  PROVE i = j
      BY Zenon DEF Once
    <2>1. i \in Nat /\ j \in Nat /\ s[i + 1] = s[j + 1] /\ i + 1 \in DOMAIN s /\ j + 1 \in DOMAIN s
      BY <1>1, <1>2
    <2>2. i + 1 = j + 1
      BY <2>1 DEF Once
    <2> QED BY <2>1, <2>2
  <1>5. \A x : x \in Elems(r) <=> x \in Elems(s) /\ x # Head(s)
    <2>1. ASSUME NEW i \in DOMAIN r  PROVE r[i] \in Elems(s) /\ r[i] # Head(s)
      BY <1>1, <1>2, <2>1 DEF Once, Elems
    <2>2. ASSUME NEW i \in DOMAIN s, s[i] # Head(s)  PROVE s[i] \in Elems(r)
      <3>1. i - 1 \in DOMAIN r /\ r[i - 1] = s[i]
        BY <1>1, <1>3, <2>2
      <3> QED BY <3>1 DEF Elems
    <2> QED BY <2>1, <2>2 DEF Elems
  <1> QED BY <1>1, <1>2, <1>4, <1>5 DEF r, Elems

LEMMA OnceCons ==
  ASSUME NEW S, NEW s \in Seq(S), NEW x \in S, x \notin Elems(s), Once(s)
  PROVE  /\ <<x>> \o s \in Seq(S) /\ Once(<<x>> \o s)
         /\ Elems(<<x>> \o s) = Elems(s) \cup {x}
  <1> DEFINE r == <<x>> \o s
  <1>1. /\ r \in Seq(S) /\ Len(r) = Len(s) + 1 /\ Len(s) \in Nat /\ DOMAIN s = 1..Len(s) /\ DOMAIN r = 1..(Len(s) + 1)
        /\ r[1] = x /\ \A i \in 1..Len(s) : r[i + 1] = s[i]
    OBVIOUS
  <1>2. \A i \in DOMAIN r : i = 1 \/ (i - 1 \in DOMAIN s /\ (i - 1) + 1 = i /\ r[i] = s[i - 1])
    <2> TAKE i \in DOMAIN r
    <2>1. i = 1 \/ (i - 1 \in 1..Len(s) /\ (i - 1) + 1 = i)
      BY <1>1
    <2> QED BY <1>1, <2>1
  <1> HIDE DEF r
  <1>3. \A i \in DOMAIN s : s[i] # x /\ i + 1 \in DOMAIN r /\ r[i + 1] = s[i]
    BY <1>1 DEF Elems
  <1>4. Once(r)
    <2> SUFFICES ASSUME NEW i \in DOMAIN r, NEW j \in DOMAIN r, r[i] = r[j]  PROVE i = j
      BY Zenon DEF Once
    <2>1. CASE i = 1
      BY <1>1, <1>2, <1>3, <2>1
    <2>2. CASE j = 1
      BY <1>1, <1>2, <1>3, <2>2
    <2>3. CASE i # 1 /\ j # 1
      <3>1. i - 1 = j - 1
        BY <1>2, <2>3 DEF Once
      <3> QED BY <1>1, <3>1
    <2> QED BY <2>1, <2>2, <2>3
  <1>5. 1 \in DOMAIN r
    BY <1>1
  <1>6. \A y : y \in Elems(r) <=> y \in Elems(s) \/ y = x
    BY <1>1, <1>2, <1>3, <1>5 DEF Elems
  <1>7. Elems(r) = Elems(s) \cup {x}
    BY <1>6
  <1> QED BY <1>1, <1>4, <1>7 DEF r

\* list_remove() of the blocks of an arena leaves the others.
LEMMA WithoutIs ==
  ASSUME NEW S, NEW s \in Seq(S), NEW gone, Once(s)
  PROVE  /\ Without(s, gone) \in Seq(S) /\ Once(Without(s, gone))
         /\ Elems(Without(s, gone)) = Elems(s) \ gone
  <1> DEFINE kept == {i \in DOMAIN s : s[i] \notin gone}
             below(i) == {j \in kept : j <= i}
             Rank(i) == Cardinality(below(i))
             n == Cardinality(kept)
             f == [i \in kept |-> Rank(i)]
  <1>1. Len(s) \in Nat /\ DOMAIN s = 1..Len(s) /\ kept \subseteq 1..Len(s)
    OBVIOUS
  <1>2. IsFiniteSet(kept) /\ n \in Nat
    <2> HIDE DEF kept
    <2>1. IsFiniteSet(1..Len(s))
      BY <1>1, FS_Interval
    <2>2. IsFiniteSet(kept)
      BY <1>1, <2>1, FS_Subset
    <2> QED BY <2>2, FS_CardinalityType
  <1>3. \A i \in kept : IsFiniteSet(below(i)) /\ Rank(i) \in 1..n /\ i \in below(i)
    <2> TAKE i \in kept
    <2>1. below(i) \in SUBSET kept /\ i \in below(i)
      BY <1>1
    <2> HIDE DEF kept, below
    <2>2. IsFiniteSet(below(i)) /\ Rank(i) <= n
      BY <1>2, <2>1, FS_Subset
    <2>3. Rank(i) \in Nat /\ Rank(i) # 0
      BY <2>1, <2>2, FS_CardinalityType, FS_EmptySet
    <2> QED BY <1>2, <2>1, <2>2, <2>3
  <1>4. ASSUME NEW i \in kept, NEW j \in kept, i < j  PROVE Rank(i) # Rank(j)
    <2>0. i \in Nat /\ j \in Nat /\ kept \subseteq Nat
      BY <1>1
    <2>1. below(i) \in SUBSET below(j) /\ j \notin below(i) /\ j \in below(j) /\ IsFiniteSet(below(j))
      <3> HIDE DEF kept
      <3>1. \A k \in below(i) : k \in kept /\ k <= i /\ k \in Nat
        BY <2>0
      <3>2. \A k \in below(i) : k <= j /\ k # j
        BY <1>4, <2>0, <3>1
      <3>3. \A k \in below(i) : k \in below(j)
        BY <3>1, <3>2
      <3> HIDE DEF below
      <3> QED BY <1>3, <3>2, <3>3
    <2> HIDE DEF kept, below
    <2> QED BY <2>1, FS_Subset
  <1>5. f \in Injection(kept, 1..n)
    <2>1. f \in [kept -> 1..n]
      BY <1>3
    <2>2. ASSUME NEW i \in kept, NEW j \in kept, f[i] = f[j]  PROVE i = j
      <3>1. i \in Nat /\ j \in Nat /\ Rank(i) = Rank(j)
        BY <1>1, <2>2
      <3> HIDE DEF Rank, kept
      <3> QED BY <1>4, <3>1
    <2> HIDE DEF f, n, kept
    <2> QED BY <2>1, <2>2 DEF Injection, IsInjective
  <1>6. f \in Surjection(kept, 1..n)
    <2> HIDE DEF f, kept
    <2>1. IsFiniteSet(1..n) /\ Cardinality(1..n) = n
      BY <1>2, FS_Interval
    <2> QED BY <1>5, <2>1, FS_Injection
  <1>7. \A k \in 1..n : \E i \in kept : Rank(i) = k
    <2>1. \A k \in 1..n : \E i \in kept : f[i] = k
      <3> HIDE DEF f, kept
      <3> QED BY <1>6 DEF Surjection
    <2>2. \A i \in kept : f[i] = Rank(i)
      OBVIOUS
    <2> HIDE DEF f, kept, Rank
    <2> QED BY <2>1, <2>2
  <1> DEFINE at(k) == CHOOSE i \in kept : Rank(i) = k
             r == [k \in 1..n |-> s[at(k)]]
  <1>8. r = Without(s, gone)
    BY DEF Without
  <1>9. \A k \in 1..n : at(k) \in kept /\ Rank(at(k)) = k
    <2> HIDE DEF kept, Rank, n
    <2> QED BY <1>7
  <1>10. \A i \in kept : \E k \in 1..n : at(k) = i
    <2> TAKE i \in kept
    <2> DEFINE k == Rank(i)
    <2>1. k \in 1..n
      BY <1>3
    <2>2. at(k) \in kept /\ Rank(at(k)) = Rank(i)
      BY <1>9, <2>1
    <2>3. at(k) = i
      <3>1. at(k) \in Nat /\ i \in Nat
        BY <1>1, <2>2
      <3> HIDE DEF kept, Rank, at
      <3> QED BY <1>4, <2>2, <3>1
    <2> HIDE DEF k, at, kept, n
    <2> QED BY <2>1, <2>3
  <1> HIDE DEF at, Rank, n
  <1>11. /\ \A i \in kept : i \in DOMAIN s /\ s[i] \in S /\ s[i] \notin gone
         /\ \A i \in DOMAIN s : s[i] \notin gone => i \in kept
    OBVIOUS
  <1> HIDE DEF kept, below
  <1>12. r \in Seq(S) /\ DOMAIN r = 1..n /\ \A k \in 1..n : r[k] = s[at(k)]
    BY <1>2, <1>9, <1>11
  <1> HIDE DEF r
  <1>13. Once(r)
    BY <1>9, <1>11, <1>12 DEF Once
  <1>14. \A x : x \in Elems(r) <=> x \in Elems(s) /\ x \notin gone
    BY <1>9, <1>10, <1>11, <1>12 DEF Elems
  <1>15. Elems(r) = Elems(s) \ gone
    BY <1>14
  <1> QED BY <1>8, <1>12, <1>13, <1>15
-----------------------------------------------------------------------------
(* Steps that change the free lists *)

LEMMA BlocksDiffer ==
  \A p, q \in Page, i, j \in Nat : Block(p, i) = Block(q, j) => p = q /\ i = j
  BY DEF Block

LEMMA BlockPages == \A p \in Page, i \in Nat : PagesOf(Block(p, i)) = {} /\ Block(p, i).page = p /\ Block(p, i).kind = "block"
  BY DEF Block, PagesOf

\* A block list of a descriptor has blocks only.
LEMMA BlockIs ==
  ASSUME NEW page \in Page, NEW d \in Desc, NEW x \in BlocksOf(page, d)
  PROVE  x.kind = "block" /\ x.page = page /\ x \in Piece /\ PagesOf(x) = {}
  <1>1. PICK i \in 1..blocks_per_arena[d] : x = Block(page, i)
    BY DEF BlocksOf
  <1>2. i \in Nat
    BY BlocksFit
  <1> QED BY <1>1, <1>2 DEF Block, PagesOf, Piece

\* Blocks of two pages are different ones.
LEMMA PagesDiffer ==
  ASSUME NEW p \in Page, NEW q \in Page, NEW d \in Desc, NEW e \in Desc, p # q
  PROVE  BlocksOf(p, d) \cap BlocksOf(q, e) = {}
  <1>1. \A x : ~(x \in BlocksOf(p, d) /\ x \in BlocksOf(q, e))
    BY BlockIs
  <1> QED BY <1>1

LEMMA BlocksCounted ==
  ASSUME NEW d \in Desc, NEW page \in Page
  PROVE  /\ IsFiniteSet(BlocksOf(page, d)) /\ Cardinality(BlocksOf(page, d)) = blocks_per_arena[d]
         /\ blocks_per_arena[d] \in Nat /\ blocks_per_arena[d] >= 1
         /\ Block(page, 1) \in BlocksOf(page, d)
         /\ Once([i \in 1..blocks_per_arena[d] |-> Block(page, i)])
  <1> DEFINE n == blocks_per_arena[d]
             blocks == [i \in 1..n |-> Block(page, i)]
  <1>1. n \in Nat /\ n >= 1
    BY BlocksFit
  <1>2. blocks \in Seq(Piece) /\ Len(blocks) = n /\ Elems(blocks) = BlocksOf(page, d)
    BY NewBlocks
  <1>3. Once(blocks)
    <2>1. \A i \in 1..n : blocks[i] = Block(page, i) /\ i \in Nat
      BY <1>1
    <2>2. DOMAIN blocks = 1..n
      OBVIOUS
    <2> HIDE DEF blocks
    <2> QED BY <2>1, <2>2, BlocksDiffer DEF Once
  <1>4. Block(page, 1) \in BlocksOf(page, d)
    BY <1>1 DEF BlocksOf
  <1>5. IsFiniteSet(Elems(blocks)) /\ Cardinality(Elems(blocks)) = Len(blocks)
    <2> HIDE DEF blocks
    <2> QED BY <1>2, <1>3, OnceIs
  <1> QED BY <1>1, <1>2, <1>3, <1>4, <1>5

ListsOnce == \A d \in Desc : Once(free_list[d])

LEMMA ListsAreOnce ==
  ASSUME MInv  PROVE ListsOnce
  <1> SUFFICES ASSUME NEW d \in Desc  PROVE Once(free_list[d])
    BY Zenon DEF ListsOnce
  <1>1. free_list[d] \in Seq(Piece)
    BY DEF MInv, RegsInv, MallocTypeOK, MemoryTypeOK
  <1>2. Cardinality(Elems(free_list[d])) = Len(free_list[d])
    BY DEF MInv, BlockInv, ArenasRight
  <1> QED BY <1>1, <1>2, OnceIs

\* The list of one descriptor changes.
ListBecomes(d, set) ==
    /\ free_list' \in [Desc -> Seq(Piece)]
    /\ Once(free_list'[d]) /\ Elems(free_list'[d]) = set
    /\ \A e \in Desc \ {d} : free_list'[e] = free_list[e]

LEMMA ListIs ==
  ASSUME MInv, NEW d \in Desc, NEW s \in Seq(Piece), Once(s), free_list' = [free_list EXCEPT ![d] = s]
  PROVE  ListBecomes(d, Elems(s))
  <1>1. free_list \in [Desc -> Seq(Piece)]
    BY DEF MInv, RegsInv, MallocTypeOK, MemoryTypeOK
  <1>2. free_list' \in [Desc -> Seq(Piece)] /\ free_list'[d] = s /\ \A e \in Desc \ {d} : free_list'[e] = free_list[e]
    BY <1>1
  <1> QED BY <1>2 DEF ListBecomes

\* The header of one arena changes.
ArenaBecomes(page, header) ==
    /\ arena' \in [Page -> [desc : Desc \cup {NULL, "junk"}, free_cnt : Nat]]
    /\ arena'[page] = header
    /\ \A p \in Page \ {page} : arena'[p] = arena[p]

LEMMA ArenaIs ==
  ASSUME MInv, NEW page \in Page, NEW header \in [desc : Desc \cup {NULL, "junk"}, free_cnt : Nat],
         arena' = [arena EXCEPT ![page] = header]
  PROVE  ArenaBecomes(page, header)
  BY DEF MInv, RegsInv, MallocTypeOK, MemoryTypeOK, ArenaBecomes

LEMMA NewArenaIs ==
  ASSUME MInv, NEW t \in Thread, NewArena(t), pages[t] # NULL
  PROVE  LET d == req[t]  page == pages[t] IN
         /\ d \in Desc /\ page \in Page /\ cnt[t] = 1 /\ Elems(free_list[d]) = {}
         /\ pc[t] = "got" /\ pc'[t] = "return" /\ UNCHANGED used_map
         /\ allocated' = allocated \cup {Block(page, 1)}
         /\ ListBecomes(d, BlocksOf(page, d) \ {Block(page, 1)})
         /\ ArenaBecomes(page, [desc |-> d, free_cnt |-> blocks_per_arena[d] - 1])
  <1> DEFINE d == req[t]
             page == pages[t]
             n == blocks_per_arena[d]
             blocks == [i \in 1..n |-> Block(page, i)]
  <1>1. d \in Desc /\ page \in Page /\ pc[t] = "got" /\ pc'[t] = "return" /\ UNCHANGED used_map
    BY DEF NewArena, TakeFirst, At, Goto, KeepLacked, poolVars, MInv, RegsInv, MallocTypeOK, RegsTypeOK
  <1>2. cnt[t] = 1 /\ free_list[d] = <<>>
    BY <1>1 DEF MInv, CallInv, ReqOK, Asking
  <1>3. n \in Nat /\ n >= 1 /\ Once(blocks)
    BY <1>1, BlocksCounted
  <1>4. /\ blocks \in Seq(Piece) /\ blocks # <<>> /\ Head(blocks) = Block(page, 1) /\ Elems(blocks) = BlocksOf(page, d)
    BY <1>1, NewBlocks
  <1>5. Block(page, 1).page = page
    BY <1>1, BlockPages
  <1>6. /\ free_list' = [free_list EXCEPT ![d] = Tail(blocks)]
        /\ allocated' = allocated \cup {Head(blocks)}
        /\ arena' = [[arena EXCEPT ![page] = [desc |-> d, free_cnt |-> n]] EXCEPT ![Head(blocks).page].free_cnt = @ - 1]
    BY <1>1 DEF NewArena, TakeFirst
  <1> HIDE DEF blocks, n, d, page
  <1>7. Tail(blocks) \in Seq(Piece) /\ Once(Tail(blocks)) /\ Elems(Tail(blocks)) = BlocksOf(page, d) \ {Block(page, 1)}
    BY <1>3, <1>4, OnceTail
  <1>8. ListBecomes(d, BlocksOf(page, d) \ {Block(page, 1)})
    BY <1>1, <1>6, <1>7, ListIs
  <1>9. arena' = [arena EXCEPT ![page] = [desc |-> d, free_cnt |-> n - 1]]
    <2>1. arena' = [[arena EXCEPT ![page] = [desc |-> d, free_cnt |-> n]] EXCEPT ![page].free_cnt = @ - 1]
      BY <1>4, <1>5, <1>6
    <2>2. DOMAIN arena = Page
      BY DEF MInv, RegsInv, MallocTypeOK, MemoryTypeOK
    <2> DEFINE first == [desc |-> d, free_cnt |-> n]
               last == [desc |-> d, free_cnt |-> n - 1]
               mid == [arena EXCEPT ![page] = first]
    <2>3. [first EXCEPT !.free_cnt = @ - 1] = last
      OBVIOUS
    <2>4. mid[page] = first /\ DOMAIN mid = Page /\ \A p \in Page \ {page} : mid[p] = arena[p]
      <3> HIDE DEF first
      <3> QED BY <1>1, <2>2
    <2>5. arena' = [mid EXCEPT ![page] = [mid[page] EXCEPT !.free_cnt = @ - 1]]
      BY <2>1
    <2> HIDE DEF first, last, mid
    <2>6. arena' = [mid EXCEPT ![page] = last]
      BY <2>3, <2>4, <2>5
    <2>7. arena' = [arena EXCEPT ![page] = last]
      BY <1>1, <2>2, <2>4, <2>6
    <2> QED BY <2>7 DEF last
  <1>10. [desc |-> d, free_cnt |-> n - 1] \in [desc : Desc \cup {NULL, "junk"}, free_cnt : Nat]
    BY <1>1, <1>3
  <1>11. ArenaBecomes(page, [desc |-> d, free_cnt |-> n - 1])
    BY <1>1, <1>9, <1>10, ArenaIs
  <1>12. Elems(free_list[d]) = {}
    BY <1>2 DEF Elems
  <1>13. allocated' = allocated \cup {Block(page, 1)}
    BY <1>4, <1>6
  <1> QED BY <1>1, <1>2, <1>8, <1>11, <1>12, <1>13 DEF d, page, n

\* The count of an arena is that of its blocks on the list.
LEMMA CountIs ==
  ASSUME MInv, NEW d \in Desc, NEW x, BlockOn(x, d)
  PROVE  /\ x.page \in ArenaPages /\ arena[x.page] = [desc |-> d, free_cnt |-> arena[x.page].free_cnt]
         /\ x.kind = "block" /\ x \in Piece /\ PagesOf(x) = {}
         /\ arena[x.page].free_cnt \in Nat
         /\ arena[x.page].free_cnt = Cardinality(BlocksOf(x.page, d) \cap Elems(free_list[d]))
         /\ arena[x.page].free_cnt < blocks_per_arena[d]
  <1>1. x.page \in Page /\ arena[x.page].desc = d /\ x \in BlocksOf(x.page, d)
    BY DEF BlockOn
  <1>2. x.kind = "block" /\ x \in Piece /\ PagesOf(x) = {}
    BY <1>1, BlockIs
  <1>3. x.page \in ArenaPages
    BY <1>1 DEF ArenaPages
  <1>4. arena[x.page] \in [desc : Desc \cup {NULL, "junk"}, free_cnt : Nat]
    BY <1>1 DEF MInv, RegsInv, MallocTypeOK, MemoryTypeOK
  <1>5. /\ arena[x.page].free_cnt = Cardinality(BlocksOf(x.page, d) \cap Elems(free_list[d]))
        /\ arena[x.page].free_cnt < blocks_per_arena[d]
    BY <1>1, <1>3 DEF MInv, BlockInv, ArenasRight
  <1> QED BY <1>1, <1>2, <1>3, <1>4, <1>5

LEMMA MallocPopIs ==
  ASSUME MInv, NEW t \in Thread, MallocPop(t)
  PROVE  LET d == req[t]  x == Head(free_list[d]) IN
         /\ d \in Desc /\ BlockOn(x, d) /\ x \in Elems(free_list[d])
         /\ pc[t] = "pop" /\ pc'[t] = "return" /\ UNCHANGED used_map
         /\ allocated' = allocated \cup {x}
         /\ arena[x.page].free_cnt >= 1
         /\ ListBecomes(d, Elems(free_list[d]) \ {x})
         /\ ArenaBecomes(x.page, [desc |-> d, free_cnt |-> arena[x.page].free_cnt - 1])
  <1> DEFINE d == req[t]
             s == free_list[d]
             x == Head(s)
             n == arena[x.page].free_cnt
  <1>1. d \in Desc /\ s # <<>> /\ pc[t] = "pop" /\ pc'[t] = "return" /\ UNCHANGED used_map
    BY DEF MallocPop, TakeFirst, At, Goto, poolVars, MInv, RegsInv, MallocTypeOK, RegsTypeOK, CallInv, ReqOK
  <1>2. /\ free_list' = [free_list EXCEPT ![d] = Tail(s)]
        /\ allocated' = allocated \cup {x}
        /\ arena' = [arena EXCEPT ![x.page].free_cnt = @ - 1]
    BY DEF MallocPop, TakeFirst
  <1>3. s \in Seq(Piece) /\ Once(s)
    BY <1>1, ListsAreOnce DEF ListsOnce, MInv, RegsInv, MallocTypeOK, MemoryTypeOK
  <1>4. BlockOn(x, d) /\ x \in Elems(s)
    BY <1>1, FirstBlock
  <1> HIDE DEF x, s, d
  <1>5. Tail(s) \in Seq(Piece) /\ Once(Tail(s)) /\ Elems(Tail(s)) = Elems(s) \ {x}
    BY <1>1, <1>3, OnceTail DEF x
  <1>6. ListBecomes(d, Elems(s) \ {x})
    BY <1>1, <1>2, <1>5, ListIs
  <1>7. /\ x.page \in Page /\ arena[x.page] = [desc |-> d, free_cnt |-> n] /\ n \in Nat
        /\ n = Cardinality(BlocksOf(x.page, d) \cap Elems(s)) /\ x \in BlocksOf(x.page, d)
    BY <1>1, <1>4, CountIs DEF BlockOn, s
  <1>8. n >= 1
    <2> HIDE DEF n
    <2>1. IsFiniteSet(BlocksOf(x.page, d))
      BY <1>1, <1>7, BlocksCounted
    <2>2. IsFiniteSet(BlocksOf(x.page, d) \cap Elems(s)) /\ x \in BlocksOf(x.page, d) \cap Elems(s)
      BY <1>4, <1>7, <2>1, FS_Subset
    <2>3. n # 0
      BY <1>7, <2>2, FS_EmptySet
    <2> QED BY <1>7, <2>3
  <1>9. arena' = [arena EXCEPT ![x.page] = [desc |-> d, free_cnt |-> n - 1]]
    <2>1. DOMAIN arena = Page
      BY DEF MInv, RegsInv, MallocTypeOK, MemoryTypeOK
    <2>2. [arena[x.page] EXCEPT !.free_cnt = @ - 1] = [desc |-> d, free_cnt |-> n - 1]
      <3> HIDE DEF n
      <3> QED BY <1>7
    <2> HIDE DEF n
    <2> QED BY <1>2, <1>7, <2>1, <2>2
  <1>10. ArenaBecomes(x.page, [desc |-> d, free_cnt |-> n - 1])
    <2>1. [desc |-> d, free_cnt |-> n - 1] \in [desc : Desc \cup {NULL, "junk"}, free_cnt : Nat]
      BY <1>1, <1>7, <1>8
    <2> QED BY <1>7, <1>9, <2>1, ArenaIs
  <1> QED BY <1>1, <1>2, <1>4, <1>6, <1>8, <1>10 DEF x, s, d, n

\* The block that free() is about to put on the list.
LEMMA LeavingIs ==
  ASSUME MInv, NEW t \in Thread, pc[t] = "push"
  PROVE  LET d == req[t]  x == piece[t] IN
         /\ d \in Desc /\ BlockOn(x, d) /\ x \notin allocated
         /\ \A e \in Desc : x \notin Elems(free_list[e])
         /\ \A u \in Thread \ {t} : Leaves(u) => piece[u] # x
         /\ free_list[d] \in Seq(Piece)
         /\ <<x>> \o free_list[d] \in Seq(Piece) /\ Once(<<x>> \o free_list[d])
         /\ Elems(<<x>> \o free_list[d]) = Elems(free_list[d]) \cup {x}
  <1> DEFINE d == req[t]
             x == piece[t]
             s == free_list[d]
  <1>1. Leaves(t) /\ d \in Desc
    BY DEF Leaves, MInv, CallInv, ReqOK
  <1>2. /\ BlockOn(x, d) /\ x \notin allocated /\ \A e \in Desc : x \notin Elems(free_list[e])
        /\ \A u \in Thread \ {t} : Leaves(u) => piece[u] # x
    BY <1>1 DEF MInv, BlockInv, LeavesOK
  <1>3. x \in Piece
    BY <1>1, <1>2, CountIs
  <1>4. s \in Seq(Piece) /\ Once(s) /\ x \notin Elems(s)
    BY <1>1, <1>2, ListsAreOnce DEF ListsOnce, MInv, RegsInv, MallocTypeOK, MemoryTypeOK
  <1> HIDE DEF x, s, d
  <1>5. <<x>> \o s \in Seq(Piece) /\ Once(<<x>> \o s) /\ Elems(<<x>> \o s) = Elems(s) \cup {x}
    BY <1>3, <1>4, OnceCons
  <1> QED BY <1>1, <1>2, <1>4, <1>5 DEF x, s, d

LEMMA PushIs ==
  ASSUME MInv, NEW t \in Thread, FreePush(t), ~Unused(arena[piece[t].page].free_cnt + 1, req[t])
  PROVE  LET d == req[t]  x == piece[t]  n == arena[x.page].free_cnt IN
         /\ pc[t] = "push" /\ EndFree(t) /\ UNCHANGED <<allocated, poolVars, pageRegs>>
         /\ n + 1 < blocks_per_arena[d]
         /\ ListBecomes(d, Elems(free_list[d]) \cup {x})
         /\ ArenaBecomes(x.page, [desc |-> d, free_cnt |-> n + 1])
  <1> DEFINE d == req[t]
             x == piece[t]
             s == <<x>> \o free_list[d]
             n == arena[x.page].free_cnt
  <1>1. pc[t] = "push" /\ EndFree(t) /\ UNCHANGED <<allocated, poolVars, pageRegs>>
    BY DEF FreePush, At
  <1>2. /\ free_list' = [free_list EXCEPT ![d] = s]
        /\ arena' = [arena EXCEPT ![x.page].free_cnt = n + 1]
    BY DEF FreePush
  <1>3. /\ d \in Desc /\ BlockOn(x, d) /\ s \in Seq(Piece) /\ Once(s) /\ Elems(s) = Elems(free_list[d]) \cup {x}
    BY <1>1, LeavingIs
  <1> HIDE DEF s, d, x
  <1>4. /\ n \in Nat /\ arena[x.page] = [desc |-> d, free_cnt |-> n] /\ x.page \in Page
        /\ n < blocks_per_arena[d]
    BY <1>3, CountIs DEF BlockOn
  <1>5. n + 1 < blocks_per_arena[d]
    BY <1>3, <1>4, BlocksFit DEF Unused, d, x
  <1>6. ListBecomes(d, Elems(free_list[d]) \cup {x})
    BY <1>2, <1>3, ListIs
  <1>7. arena' = [arena EXCEPT ![x.page] = [desc |-> d, free_cnt |-> n + 1]]
    <2>1. DOMAIN arena = Page
      BY DEF MInv, RegsInv, MallocTypeOK, MemoryTypeOK
    <2> HIDE DEF n
    <2>2. [arena[x.page] EXCEPT !.free_cnt = n + 1] = [desc |-> d, free_cnt |-> n + 1]
      BY <1>4
    <2> QED BY <1>2, <1>4, <2>1, <2>2
  <1>8. ArenaBecomes(x.page, [desc |-> d, free_cnt |-> n + 1])
    <2>1. [desc |-> d, free_cnt |-> n + 1] \in [desc : Desc \cup {NULL, "junk"}, free_cnt : Nat]
      BY <1>3, <1>4
    <2> QED BY <1>4, <1>7, <2>1, ArenaIs
  <1> QED BY <1>1, <1>5, <1>6, <1>8 DEF d, x, n

\* All the other blocks of the arena are on the list.
LEMMA PageGoesIs ==
  ASSUME MInv, NEW t \in Thread, FreePush(t), Unused(arena[piece[t].page].free_cnt + 1, req[t])
  PROVE  LET d == req[t]  x == piece[t]  page == x.page IN
         /\ pc[t] = "push" /\ GivePages(t, page, 1) /\ Goto(t, "clear")
         /\ UNCHANGED <<allocated, desc_lock, regs>>
         /\ page \in ArenaPages /\ page \in Page /\ d \in Desc
         /\ BlocksOf(page, d) \subseteq Elems(free_list[d]) \cup {x}
         /\ ListBecomes(d, Elems(free_list[d]) \ BlocksOf(page, d))
         /\ ArenaBecomes(page, Junk)
         /\ \A y \in allocated : y.kind = "block" => y.page # page
         /\ \A u \in Thread \ {t} : Leaves(u) => piece[u].page # page
  <1> DEFINE d == req[t]
             x == piece[t]
             page == x.page
             s == <<x>> \o free_list[d]
             gone == BlocksOf(page, d)
             n == arena[page].free_cnt
  <1>1. pc[t] = "push" /\ GivePages(t, page, 1) /\ Goto(t, "clear") /\ UNCHANGED <<allocated, desc_lock, regs>>
    BY DEF FreePush, At
  <1>2. /\ free_list' = [free_list EXCEPT ![d] = Without(s, gone)]
        /\ arena' = [arena EXCEPT ![page] = Junk]
        /\ n + 1 >= blocks_per_arena[d]
    BY DEF FreePush, Unused
  <1>3. /\ d \in Desc /\ BlockOn(x, d) /\ s \in Seq(Piece) /\ Once(s) /\ Elems(s) = Elems(free_list[d]) \cup {x}
        /\ x \notin allocated /\ \A e \in Desc : x \notin Elems(free_list[e])
        /\ \A u \in Thread \ {t} : Leaves(u) => piece[u] # x
    BY <1>1, LeavingIs
  <1>4. /\ n \in Nat /\ n = Cardinality(gone \cap Elems(free_list[d])) /\ page \in Page /\ page \in ArenaPages
        /\ arena[page].desc = d /\ x \in gone
    BY <1>3, CountIs DEF BlockOn
  <1>5. /\ IsFiniteSet(gone) /\ Cardinality(gone) = blocks_per_arena[d] /\ blocks_per_arena[d] \in Nat
    BY <1>3, <1>4, BlocksCounted
  <1> DEFINE free == gone \cap Elems(free_list[d])
  <1>6. gone \subseteq Elems(free_list[d]) \cup {x}
    <2>1. free \in SUBSET gone /\ x \notin free /\ free \cup {x} \in SUBSET gone
      BY <1>3, <1>4
    <2> HIDE DEF free, n, gone, s
    <2>2. IsFiniteSet(free)
      BY <1>5, <2>1, FS_Subset
    <2>3. Cardinality(free \cup {x}) = n + 1 /\ IsFiniteSet(free \cup {x})
      <3>1. n = Cardinality(free)
        BY <1>4 DEF free
      <3> QED BY <2>1, <2>2, <3>1, FS_AddElement
    <2>4. Cardinality(free \cup {x}) <= Cardinality(gone)
      BY <1>5, <2>1, FS_Subset
    <2>5. Cardinality(gone) = Cardinality(free \cup {x})
      BY <1>2, <1>4, <1>5, <2>3, <2>4
    <2>6. gone = free \cup {x}
      BY <1>5, <2>1, <2>5, FS_Subset
    <2> QED BY <2>6 DEF free
  <1>7. ListBecomes(d, Elems(free_list[d]) \ gone)
    <2> HIDE DEF s, gone
    <2>1. Without(s, gone) \in Seq(Piece) /\ Once(Without(s, gone)) /\ Elems(Without(s, gone)) = Elems(s) \ gone
      BY <1>3, WithoutIs
    <2>2. Elems(s) \ gone = Elems(free_list[d]) \ gone
      BY <1>3, <1>4
    <2> DEFINE rest == Without(s, gone)
    <2>3. rest \in Seq(Piece) /\ Once(rest) /\ Elems(rest) = Elems(free_list[d]) \ gone
          /\ free_list' = [free_list EXCEPT ![d] = rest]
      BY <1>2, <2>1, <2>2
    <2> HIDE DEF rest, d
    <2>4. ListBecomes(d, Elems(rest))
      BY <1>3, <2>3, ListIs
    <2> QED BY <2>3, <2>4
  <1>8. ArenaBecomes(page, Junk)
    <2>1. Junk \in [desc : Desc \cup {NULL, "junk"}, free_cnt : Nat]
      BY DEF Junk
    <2> QED BY <1>2, <1>4, <2>1, ArenaIs
  <1>9. \A y \in allocated : y.kind = "block" => y.page # page
    <2> SUFFICES ASSUME NEW y \in allocated, y.kind = "block", y.page = page  PROVE FALSE
      OBVIOUS
    <2>1. y \in gone /\ y \notin Elems(free_list[d])
      BY <1>3, <1>4 DEF MInv, PageInv, NothingTwice
    <2> QED BY <1>3, <1>6, <2>1
  <1>10. \A u \in Thread \ {t} : Leaves(u) => piece[u].page # page
    <2> SUFFICES ASSUME NEW u \in Thread \ {t}, Leaves(u), piece[u].page = page  PROVE FALSE
      OBVIOUS
    <2>1. BlockOn(piece[u], req[u]) /\ piece[u] \notin Elems(free_list[d]) /\ piece[u] # x
      BY <1>3 DEF MInv, BlockInv, LeavesOK
    <2>2. piece[u] \in gone
      BY <1>4, <2>1 DEF BlockOn
    <2> QED BY <1>6, <2>1, <2>2
  <1> QED BY <1>1, <1>3, <1>4, <1>6, <1>7, <1>8, <1>9, <1>10

-----------------------------------------------------------------------------
(* The pages of arenas, and what free() takes back *)

\* A change of one header.
LEMMA ArenaPagesAre ==
  ASSUME NEW page \in Page, NEW header, ArenaBecomes(page, header)
  PROVE  ArenaPages' = IF header.desc \in Desc THEN ArenaPages \cup {page} ELSE ArenaPages \ {page}
  BY DEF ArenaBecomes, ArenaPages

LEMMA NewArenaPages ==
  ASSUME MInv, PagesInv, NEW t \in Thread, NewArena(t), pages[t] # NULL
  PROVE  PagesInv' /\ pages[t] \notin ArenaPages
  <1> DEFINE page == pages[t]
             d == req[t]
             x == Block(page, 1)
  <1>1. /\ d \in Desc /\ page \in Page /\ cnt[t] = 1 /\ pc[t] = "got" /\ pc'[t] = "return" /\ UNCHANGED used_map
        /\ allocated' = allocated \cup {x}
        /\ ArenaBecomes(page, [desc |-> d, free_cnt |-> blocks_per_arena[d] - 1])
    BY NewArenaIs
  <1>2. OthersStay(t)
    BY NewArenaRegs DEF RegsStep
  <1>3. Transit[t] = {page}
    <2>1. InTransit(t) = page..(page + 1 - 1) /\ page \in Nat
      BY <1>1, TransitIs DEF Page
    <2> QED BY <2>1 DEF Transit
  <1>4. InTransit(t)' = {}
    BY <1>1 DEF InTransit, At
  <1>5. PagesOf(x) = {}
    BY <1>1, BlockPages
  <1>6. ArenaPages' = ArenaPages \cup {page}
    <2>1. [desc |-> d, free_cnt |-> blocks_per_arena[d] - 1].desc \in Desc
      BY <1>1
    <2> QED BY <1>1, <2>1, ArenaPagesAre
  <1>7. UsedPages' = UsedPages
    BY <1>1 DEF UsedPages
  <1> HIDE DEF page, d, x
  <1>8. Only(Transit, Transit', t, {})
    BY <1>2, <1>4, TransitStays
  <1>9. Apart(allocated, ArenaPages, Transit)
    BY DEF PagesInv
  <1>10. /\ Apart(allocated, ArenaPages \cup {page}, Transit')
         /\ Covered(allocated, ArenaPages \cup {page}, Transit') = Covered(allocated, ArenaPages, Transit)
    BY <1>3, <1>8, <1>9, ToArena
  <1>11. /\ Apart(allocated \cup {x}, ArenaPages \cup {page}, Transit')
         /\ Covered(allocated \cup {x}, ArenaPages \cup {page}, Transit') = Covered(allocated, ArenaPages, Transit)
    BY <1>5, <1>10, BlockHasNone
  <1>12. PagesInv'
    BY <1>1, <1>6, <1>7, <1>11 DEF PagesInv
  <1>13. page \notin ArenaPages
    BY <1>3 DEF PagesInv, Apart
  <1> QED BY <1>12, <1>13 DEF page

\* A block is given or taken back: no page changes hands.
LEMMA BlockPagesStay ==
  ASSUME PagesInv, NEW t \in Thread, NEW x, PagesOf(x) = {}, OthersStay(t), UNCHANGED used_map, ArenaPages' = ArenaPages,
         pc[t] \notin {"flip", "clear", "got"}, pc'[t] \notin {"flip", "clear", "got"},
         allocated' \in {allocated \cup {x}, allocated \ {x}}
  PROVE  PagesInv'
  <1>1. InTransit(t) = {}
    BY TransitIs
  <1>2. InTransit(t)' = {}
    BY DEF InTransit, At
  <1>3. Transit' = Transit
    <2>1. \A u \in Thread : Transit'[u] = Transit[u]
      BY <1>1, <1>2, TransitStays DEF Only, Transit
    <2> QED BY <2>1 DEF Transit
  <1>4. UsedPages' = UsedPages
    BY DEF UsedPages
  <1>5. /\ Apart(allocated', ArenaPages, Transit)
        /\ Covered(allocated', ArenaPages, Transit) = Covered(allocated, ArenaPages, Transit)
    BY BlockHasNone DEF PagesInv
  <1> QED BY <1>3, <1>4, <1>5 DEF PagesInv

LEMMA FreeGroupPages ==
  ASSUME MInv, PagesInv, NEW t \in Thread, NEW x \in allocated, pc[t] \in {"idle", "return"}, BothFree(t, x), FreeGroup(t, x)
  PROVE  /\ PagesInv' /\ ArenaPages' = ArenaPages
         /\ arena' \in [Page -> [desc : Desc \cup {NULL, "junk"}, free_cnt : Nat]]
         /\ \A p \in ArenaPages : arena'[p] = arena[p]
         /\ \A y \in allocated \ {x} : y.kind = "big" => arena'[y.page] = arena[y.page]
  <1>1. /\ RegsStep(t) /\ cnt'[t] = x.n /\ bit'[t] = 0 /\ Base(pool'[t]) + idx'[t] = x.page
    BY FreeGroupRegs
  <1>2. /\ x.page \in Nat /\ x.n \in 1..MaxPages /\ PagesOf(x) = x.page..(x.page + x.n - 1) /\ x \in Piece
    BY Freed DEF FreeGroup
  <1>3. /\ OthersStay(t) /\ allocated' = allocated \ {x} /\ pc'[t] = "clear" /\ UNCHANGED used_map
        /\ arena' = [p \in Page |-> IF p \in PagesOf(x) THEN Junk ELSE arena[p]]
    BY <1>1 DEF RegsStep, BothFree, FreeGroup, GivePages, poolVars, Goto, MInv, RegsInv, MallocTypeOK, RegsTypeOK
  <1>4. InTransit(t)' = (Base(pool'[t]) + idx'[t] + bit'[t])..(Base(pool'[t]) + idx'[t] + cnt'[t] - 1)
    BY <1>3 DEF InTransit, At
  <1>5. InTransit(t)' = PagesOf(x)
    <2>1. Base(pool'[t]) \in Nat /\ idx'[t] \in Nat /\ x.n \in Nat
      BY <1>1, <1>2, PoolRange DEF RegsStep, RegsTypeOK
    <2> DEFINE b == Base(pool'[t])
               i == idx'[t]
    <2>2. b \in Nat /\ i \in Nat /\ b + i = x.page /\ InTransit(t)' = (b + i + 0)..(b + i + x.n - 1)
      BY <1>1, <1>4, <2>1
    <2> HIDE DEF b, i
    <2> QED BY <1>2, <2>1, <2>2
  <1>6. Transit[t] = {}
    <2>1. InTransit(t) = {}
      BY TransitIs
    <2> QED BY <2>1 DEF Transit
  <1>7. Apart(allocated, ArenaPages, Transit)
    BY DEF PagesInv
  <1>8. PagesOf(x) \cap ArenaPages = {}
    BY <1>7 DEF Apart
  <1>9. \A p \in Page : arena'[p] = IF p \in PagesOf(x) THEN Junk ELSE arena[p]
    BY <1>3
  <1>10. Junk.desc \notin Desc /\ Junk \in [desc : Desc \cup {NULL, "junk"}, free_cnt : Nat]
    BY NamesApart DEF Junk
  <1>11. ArenaPages' = ArenaPages
    BY <1>8, <1>9, <1>10 DEF ArenaPages
  <1>12. arena' \in [Page -> [desc : Desc \cup {NULL, "junk"}, free_cnt : Nat]]
    BY <1>3, <1>10 DEF MInv, RegsInv, MallocTypeOK, MemoryTypeOK
  <1>13. Only(Transit, Transit', t, PagesOf(x))
    BY <1>3, <1>5, TransitStays
  <1>14. /\ Apart(allocated \ {x}, ArenaPages, Transit')
         /\ Covered(allocated \ {x}, ArenaPages, Transit') = Covered(allocated, ArenaPages, Transit)
    BY <1>6, <1>7, <1>13, FromCaller
  <1>15. UsedPages' = UsedPages
    BY <1>3 DEF UsedPages
  <1>16. PagesInv'
    BY <1>3, <1>11, <1>14, <1>15 DEF PagesInv
  <1>17. \A p \in ArenaPages : arena'[p] = arena[p]
    BY <1>8, <1>9 DEF ArenaPages
  <1>18. \A y \in allocated \ {x} : y.kind = "big" => arena'[y.page] = arena[y.page]
    <2> SUFFICES ASSUME NEW y \in allocated \ {x}, y.kind = "big"  PROVE arena'[y.page] = arena[y.page]
      OBVIOUS
    <2>1. y.page \in PagesOf(y) /\ y.page \in Page
      BY Freed, OnePage DEF Piece
    <2>2. y.page \notin PagesOf(x)
      BY <1>7, <2>1 DEF Apart
    <2> QED BY <1>9, <2>1, <2>2
  <1> QED BY <1>11, <1>12, <1>16, <1>17, <1>18

LEMMA PageGoesPages ==
  ASSUME MInv, PagesInv, NEW t \in Thread, FreePush(t), Unused(arena[piece[t].page].free_cnt + 1, req[t])
  PROVE  PagesInv' /\ RegsStep(t)
  <1> DEFINE page == piece[t].page
  <1>1. /\ pc[t] = "push" /\ GivePages(t, page, 1) /\ Goto(t, "clear") /\ UNCHANGED <<allocated, desc_lock, regs>>
        /\ page \in ArenaPages /\ page \in Page /\ ArenaBecomes(page, Junk)
    BY PageGoesIs
  <1>2. InPool(page, 1) /\ page \in Nat
    BY <1>1, ArenaInPool
  <1> HIDE DEF page
  <1>3. RegsStep(t) /\ cnt'[t] = 1 /\ bit'[t] = 0 /\ Base(pool'[t]) + idx'[t] = page
    BY <1>1, <1>2, PageGoesRegs
  <1>4. pc'[t] = "clear" /\ UNCHANGED used_map
    BY <1>1 DEF GivePages, poolVars, Goto, MInv, RegsInv, MallocTypeOK, RegsTypeOK
  <1>5. InTransit(t)' = {page}
    <2>1. InTransit(t)' = (Base(pool'[t]) + idx'[t] + bit'[t])..(Base(pool'[t]) + idx'[t] + cnt'[t] - 1)
      BY <1>4 DEF InTransit, At
    <2> DEFINE b == Base(pool'[t])
               i == idx'[t]
    <2>2. b \in Nat /\ i \in Nat /\ b + i = page /\ InTransit(t)' = (b + i + 0)..(b + i + 1 - 1)
      BY <1>3, <2>1, PoolRange DEF RegsStep, RegsTypeOK
    <2> HIDE DEF b, i
    <2> QED BY <2>2
  <1>6. Transit[t] = {}
    <2>1. InTransit(t) = {}
      BY <1>1, TransitIs
    <2> QED BY <2>1 DEF Transit
  <1>7. Apart(allocated, ArenaPages, Transit)
    BY DEF PagesInv
  <1>8. ArenaPages' = ArenaPages \ {page}
    <2>1. Junk.desc \notin Desc
      BY NamesApart DEF Junk
    <2> QED BY <1>1, <2>1, ArenaPagesAre
  <1>9. Only(Transit, Transit', t, {page})
    BY <1>3, <1>5, TransitStays DEF RegsStep
  <1>10. /\ Apart(allocated, ArenaPages \ {page}, Transit')
         /\ Covered(allocated, ArenaPages \ {page}, Transit') = Covered(allocated, ArenaPages, Transit)
    BY <1>1, <1>6, <1>7, <1>9, FromArena
  <1>11. UsedPages' = UsedPages
    BY <1>4 DEF UsedPages
  <1> QED BY <1>1, <1>3, <1>8, <1>10, <1>11 DEF PagesInv
-----------------------------------------------------------------------------
(* Blocks *)

ArenaOK(page) ==
    LET d == arena[page].desc
        free == BlocksOf(page, d) \cap Elems(free_list[d])
    IN /\ arena[page].free_cnt = Cardinality(free)
       /\ arena[page].free_cnt < blocks_per_arena[d]
       /\ BlocksOf(page, d) \ free \subseteq allocated \cup Leaving
BigOK == \A x \in allocated : x.kind = "big" => arena[x.page] = [desc |-> NULL, free_cnt |-> x.n]
ListsTyped == free_list \in [Desc -> Seq(Piece)]
BlocksInv ==
    /\ BlocksApart /\ ListsOK /\ LeavesOK /\ ListsOnce /\ BigOK
    /\ \A page \in ArenaPages : ArenaOK(page)

LEMMA BlockParts == ListsTyped => (BlocksInv <=> BlocksApart /\ BlockInv)
  <1> SUFFICES ASSUME ListsTyped  PROVE BlocksInv <=> BlocksApart /\ BlockInv
    OBVIOUS
  <1>1. \A d \in Desc : Once(free_list[d]) <=> Cardinality(Elems(free_list[d])) = Len(free_list[d])
    <2> TAKE d \in Desc
    <2>1. free_list[d] \in Seq(Piece)
      BY DEF ListsTyped
    <2> QED BY <2>1, OnceIs
  <1>2. ListsOK => \A d \in Desc : \A x \in Elems(free_list[d]) : arena[x.page].desc = d
    BY DEF ListsOK, BlockOn
  <1>3. ListsOK => (ArenasRight <=> ListsOnce /\ BigOK /\ \A page \in ArenaPages : ArenaOK(page))
    BY <1>1, <1>2, Zenon DEF ArenasRight, ListsOnce, BigOK, ArenaOK
  <1> QED BY <1>3 DEF BlocksInv, BlockInv

LeavesSame == \A u \in Thread :
    /\ Leaves(u)' <=> Leaves(u)
    /\ Leaves(u) => piece'[u] = piece[u] /\ req'[u] = req[u]

LEMMA LeavingIsOf == Leaving = {piece[u] : u \in {v \in Thread : Leaves(v)}}
  BY DEF Leaving, Leaves

\* A step that is not about blocks.
LEMMA BlocksSame ==
  ASSUME BlocksInv, CallInv, ArenaPages' = ArenaPages, \A p \in ArenaPages : arena'[p] = arena[p], UNCHANGED free_list,
         \A y : y.kind = "block" => (y \in allocated' <=> y \in allocated), BigOK', LeavesSame
  PROVE  BlocksInv'
  <1>1. \A p, d : BlockOn(p, d) /\ d \in Desc => p.page \in ArenaPages
    BY DEF BlockOn, ArenaPages
  <1>2. \A x, d : BlockOn(x, d) /\ d \in Desc => BlockOn(x, d)'
    BY <1>1 DEF BlockOn
  <1>3. Leaving' = Leaving
    <2>1. Leaving' = {piece'[u] : u \in {v \in Thread : Leaves(v)'}}
      BY DEF Leaving, Leaves
    <2> QED BY <2>1, LeavingIsOf DEF LeavesSame
  <1>4. ListsOK'
    BY <1>2 DEF BlocksInv, ListsOK
  <1>5. BlocksApart'
    BY DEF BlocksInv, BlocksApart
  <1>6. ListsOnce'
    BY DEF BlocksInv, ListsOnce
  <1>7. \A t \in Thread : Leaves(t) => req[t] \in Desc /\ piece[t].kind = "block"
    <2> SUFFICES ASSUME NEW t \in Thread, Leaves(t)  PROVE req[t] \in Desc /\ piece[t].kind = "block"
      OBVIOUS
    <2>1. BlockOn(piece[t], req[t]) /\ req[t] \in Desc
      BY DEF BlocksInv, LeavesOK, CallInv, ReqOK, Leaves
    <2> QED BY <2>1, BlockIs DEF BlockOn
  <1>8. LeavesOK'
    BY <1>2, <1>7 DEF BlocksInv, LeavesOK, LeavesSame
  <1>9. ASSUME NEW p \in ArenaPages  PROVE ArenaOK(p)'
    <2>1. arena'[p] = arena[p] /\ ArenaOK(p) /\ arena[p].desc \in Desc /\ p \in Page
      BY DEF BlocksInv, ArenaPages
    <2>2. \A y \in BlocksOf(p, arena[p].desc) : y \in allocated' <=> y \in allocated
      BY <2>1, BlockIs
    <2> QED BY <1>3, <2>1, <2>2 DEF ArenaOK
  <1> QED BY <1>4, <1>5, <1>6, <1>8, <1>9 DEF BlocksInv

\* A step that is about blocks of one page.
BlocksElsewhere(page) ==
    /\ \A p \in Page \ {page} : arena'[p] = arena[p]
    /\ \A y : y.page # page =>
          /\ \A d \in Desc : y \in Elems(free_list'[d]) <=> y \in Elems(free_list[d])
          /\ y \in allocated' <=> y \in allocated
    /\ \A u \in Thread : piece'[u].page # page =>
          (Leaves(u)' => Leaves(u) /\ piece'[u] = piece[u] /\ req'[u] = req[u])
    /\ \A u \in Thread : Leaves(u) /\ piece[u].page # page => Leaves(u)' /\ piece'[u] = piece[u]
    /\ \A y \in allocated \cup allocated' : y.page = page => y.kind # "big"

BlocksHere(page) ==
    /\ page \in ArenaPages => ArenaOK(page)
    /\ \A x \in allocated : x.kind = "block" /\ x.page = page =>
          /\ page \in ArenaPages /\ x \in BlocksOf(page, arena[page].desc)
          /\ \A d \in Desc : x \notin Elems(free_list[d])
    /\ \A d \in Desc : \A x \in Elems(free_list[d]) : x.page = page => BlockOn(x, d)
    /\ \A t \in Thread : Leaves(t) /\ piece[t].page = page =>
          /\ piece[t] # NULL
          /\ BlockOn(piece[t], req[t])
          /\ piece[t] \notin allocated
          /\ \A d \in Desc : piece[t] \notin Elems(free_list[d])
          /\ \A u \in Thread \ {t} : Leaves(u) => piece[u] # piece[t]

LEMMA BlocksOfOne ==
  ASSUME BlocksInv, allocated \subseteq Piece, NEW page \in Page, BlocksElsewhere(page), BlocksHere(page)', ListsOnce'
  PROVE  BlocksInv'
  <1>1. \A p \in Page \ {page} : arena'[p] = arena[p] /\ (p \in ArenaPages' <=> p \in ArenaPages)
    BY DEF BlocksElsewhere, ArenaPages
  <1>2. \A x, d : x.page # page => (BlockOn(x, d)' <=> BlockOn(x, d))
    BY <1>1 DEF BlockOn
  <1>3. \A y : y.page # page =>
          /\ \A d \in Desc : y \in Elems(free_list'[d]) <=> y \in Elems(free_list[d])
          /\ y \in allocated' <=> y \in allocated
    BY DEF BlocksElsewhere
  <1>4. BlocksApart'
    <2> SUFFICES ASSUME NEW x \in allocated', x.kind = "block"
                 PROVE  /\ x.page \in ArenaPages' /\ x \in BlocksOf(x.page, arena'[x.page].desc)
                        /\ \A d \in Desc : x \notin Elems(free_list'[d])
      BY DEF BlocksApart
    <2>1. CASE x.page = page
      BY <2>1 DEF BlocksHere
    <2>2. CASE x.page # page
      <3>1. /\ x.page \in ArenaPages /\ x \in BlocksOf(x.page, arena[x.page].desc)
            /\ \A d \in Desc : x \notin Elems(free_list[d])
        BY <1>3, <2>2 DEF BlocksInv, BlocksApart
      <3>2. x.page \in Page
        BY <3>1 DEF ArenaPages
      <3> QED BY <1>1, <1>3, <2>2, <3>1, <3>2
    <2> QED BY <2>1, <2>2
  <1>5. ListsOK'
    <2> SUFFICES ASSUME NEW d \in Desc, NEW x \in Elems(free_list'[d])  PROVE BlockOn(x, d)'
      BY DEF ListsOK
    <2>1. CASE x.page = page
      BY <2>1 DEF BlocksHere
    <2>2. CASE x.page # page
      BY <1>2, <1>3, <2>2 DEF BlocksInv, ListsOK
    <2> QED BY <2>1, <2>2
  <1>6. LeavesOK'
    <2> SUFFICES ASSUME NEW t \in Thread, Leaves(t)'
                 PROVE  /\ piece'[t] # NULL /\ BlockOn(piece[t], req[t])' /\ piece'[t] \notin allocated'
                        /\ \A d \in Desc : piece'[t] \notin Elems(free_list'[d])
                        /\ \A u \in Thread \ {t} : Leaves(u)' => piece'[u] # piece'[t]
      BY DEF LeavesOK
    <2>1. CASE piece'[t].page = page
      BY <2>1 DEF BlocksHere
    <2>2. CASE piece'[t].page # page
      <3>1. Leaves(t) /\ piece'[t] = piece[t] /\ req'[t] = req[t]
        BY <2>2 DEF BlocksElsewhere
      <3>2. /\ piece[t] # NULL /\ BlockOn(piece[t], req[t]) /\ piece[t] \notin allocated
            /\ \A d \in Desc : piece[t] \notin Elems(free_list[d])
            /\ \A u \in Thread \ {t} : Leaves(u) => piece[u] # piece[t]
        BY <3>1 DEF BlocksInv, LeavesOK
      <3>3. BlockOn(piece[t], req[t])'
        BY <1>1, <2>2, <3>1, <3>2 DEF BlockOn
      <3>4. \A u \in Thread \ {t} : Leaves(u)' => piece'[u] # piece'[t]
        <4> SUFFICES ASSUME NEW u \in Thread \ {t}, Leaves(u)', piece'[u] = piece'[t]  PROVE FALSE
          OBVIOUS
        <4>1. Leaves(u) /\ piece'[u] = piece[u]
          BY <2>2 DEF BlocksElsewhere
        <4> QED BY <3>1, <3>2, <4>1
      <3> QED BY <1>3, <2>2, <3>1, <3>2, <3>3, <3>4
    <2> QED BY <2>1, <2>2
  <1>7. BigOK'
    <2> SUFFICES ASSUME NEW x \in allocated', x.kind = "big"
                 PROVE  arena'[x.page] = [desc |-> NULL, free_cnt |-> x.n]
      BY DEF BigOK
    <2>1. x.page # page
      BY DEF BlocksElsewhere
    <2>2. x \in allocated /\ arena[x.page] = [desc |-> NULL, free_cnt |-> x.n]
      BY <1>3, <2>1 DEF BlocksInv, BigOK
    <2>3. x.page \in Page
      BY <2>2 DEF Piece
    <2> QED BY <1>1, <2>1, <2>2, <2>3
  <1>8. ASSUME NEW p \in ArenaPages'  PROVE ArenaOK(p)'
    <2>1. CASE p = page
      BY <2>1 DEF BlocksHere
    <2>2. CASE p # page
      <3>1. p \in ArenaPages /\ arena'[p] = arena[p] /\ ArenaOK(p)
        BY <1>1, <2>2 DEF BlocksInv, ArenaPages
      <3> DEFINE d == arena[p].desc
                 blocks == BlocksOf(p, d)
      <3>2. d \in Desc /\ p \in Page /\ arena'[p].desc = d /\ arena'[p].free_cnt = arena[p].free_cnt
        BY <3>1 DEF ArenaPages
      <3>3. \A y \in blocks : y.page # page
        BY <2>2, <3>2, BlockIs
      <3>4. blocks \cap Elems(free_list'[d]) = blocks \cap Elems(free_list[d])
        BY <1>3, <3>2, <3>3
      <3>5. \A y \in blocks : y \in allocated \cup Leaving => y \in allocated' \cup Leaving'
        <4> SUFFICES ASSUME NEW y \in blocks, y \in Leaving  PROVE y \in Leaving'
          BY <1>3, <3>3
        <4>1. PICK u \in Thread : Leaves(u) /\ y = piece[u]
          BY LeavingIsOf
        <4>2. Leaves(u)' /\ piece'[u] = y
          BY <3>3, <4>1 DEF BlocksElsewhere
        <4> QED BY <4>2 DEF Leaving, Leaves
      <3>6. /\ arena[p].free_cnt = Cardinality(blocks \cap Elems(free_list[d]))
            /\ arena[p].free_cnt < blocks_per_arena[d]
            /\ blocks \ (blocks \cap Elems(free_list[d])) \subseteq allocated \cup Leaving
        BY <3>1 DEF ArenaOK
      <3>7. blocks \ (blocks \cap Elems(free_list[d])) \subseteq allocated' \cup Leaving'
        BY <3>5, <3>6
      <3> HIDE DEF blocks
      <3>8. /\ arena'[p].free_cnt = Cardinality(blocks \cap Elems(free_list'[d]))
            /\ arena'[p].free_cnt < blocks_per_arena[d]
            /\ blocks \ (blocks \cap Elems(free_list'[d])) \subseteq allocated' \cup Leaving'
        BY <3>2, <3>4, <3>6, <3>7
      <3> QED BY <3>2, <3>8 DEF ArenaOK, blocks
    <2> QED BY <2>1, <2>2
  <1> QED BY <1>4, <1>5, <1>6, <1>7, <1>8 DEF BlocksInv

\* What is known of blocks before a step.
LEMMA BlocksBefore ==
  ASSUME MInv
  PROVE  /\ BlocksInv /\ PagesInv /\ CallInv /\ CallersOK /\ allocated \subseteq Piece
         /\ \A x \in Piece : x.page \in Page
         /\ arena \in [Page -> [desc : Desc \cup {NULL, "junk"}, free_cnt : Nat]]
         /\ \A y \in allocated : y.kind # "block" => y.page \notin ArenaPages
  <1>1. ListsTyped
    BY DEF MInv, RegsInv, MallocTypeOK, MemoryTypeOK, ListsTyped
  <1>2. BlocksInv /\ PagesInv /\ CallersOK
    BY <1>1, PageParts, BlockParts DEF MInv
  <1>3. allocated \subseteq Piece /\ arena \in [Page -> [desc : Desc \cup {NULL, "junk"}, free_cnt : Nat]]
    BY DEF MInv, RegsInv, MallocTypeOK, MemoryTypeOK
  <1>4. \A y \in allocated : y.kind # "block" => y.page \notin ArenaPages
    <2> SUFFICES ASSUME NEW y \in allocated, y.kind # "block"  PROVE y.page \notin ArenaPages
      OBVIOUS
    <2>1. y.page \in PagesOf(y)
      BY Freed, OnePage
    <2> QED BY <2>1 DEF MInv, PageInv, NothingTwice
  <1>5. \A x \in Piece : x.page \in Page
    BY DEF Piece
  <1> QED BY <1>2, <1>3, <1>4, <1>5 DEF MInv

LEMMA BlocksQuiet ==
  ASSUME BlocksInv, CallInv, NEW t \in Thread, OthersStay(t), UNCHANGED <<arena, free_list, allocated>>,
         \/ ~Leaves(t) /\ ~Leaves(t)'
         \/ Leaves(t) /\ Leaves(t)' /\ UNCHANGED <<piece, req>>
  PROVE  BlocksInv'
  <1>1. LeavesSame
    <2> SUFFICES ASSUME NEW u \in Thread
                 PROVE  /\ Leaves(u)' <=> Leaves(u)
                        /\ Leaves(u) => piece'[u] = piece[u] /\ req'[u] = req[u]
      BY Zenon DEF LeavesSame
    <2>1. CASE u = t
      BY <2>1
    <2>2. CASE u # t
      BY <2>2 DEF OthersStay, Leaves
    <2> QED BY <2>1, <2>2
  <1>2. ArenaPages' = ArenaPages /\ BigOK'
    BY DEF ArenaPages, BlocksInv, BigOK
  <1> QED BY <1>1, <1>2, BlocksSame

LEMMA LeavesSameIs ==
  ASSUME NEW t \in Thread, OthersStay(t), ~Leaves(t), ~Leaves(t)'
  PROVE  LeavesSame
  BY DEF LeavesSame, OthersStay, Leaves

LEMMA GotPagesBlocks ==
  ASSUME MInv, NEW t \in Thread, GotPages(t), pages[t] # NULL
  PROVE  BlocksInv' /\ arena' \in [Page -> [desc : Desc \cup {NULL, "junk"}, free_cnt : Nat]]
  <1> DEFINE page == pages[t]
             x == [kind |-> req[t], page |-> page, n |-> cnt[t]]
  <1>1. BlocksInv /\ CallInv /\ arena \in [Page -> [desc : Desc \cup {NULL, "junk"}, free_cnt : Nat]] /\ PagesInv
        /\ allocated \subseteq Piece
    BY BlocksBefore
  <1>2. /\ ArenaPages' = ArenaPages /\ page \notin ArenaPages
        /\ \A y \in allocated : y.kind = "big" => y.page # page
    BY <1>1, GotPagesPages
  <1>3. /\ RegsStep(t) /\ req[t] \in {"big", "pages"} /\ x \in Piece /\ cnt[t] \in 1..MaxPages
    BY GotPagesRegs
  <1>4. /\ pc[t] = "got" /\ pc'[t] = "return" /\ allocated' = allocated \cup {x} /\ UNCHANGED free_list
        /\ arena' = IF req[t] = "big" THEN [arena EXCEPT ![page] = [desc |-> NULL, free_cnt |-> cnt[t]]] ELSE arena
    BY DEF GotPages, At, Goto, MInv, RegsInv, MallocTypeOK, RegsTypeOK
  <1>5. LeavesSame
    BY <1>3, <1>4, LeavesSameIs DEF RegsStep, Leaves
  <1>6. page \in Page /\ x.kind = req[t] /\ x.page = page /\ x.n = cnt[t] /\ cnt[t] \in Nat
    BY <1>3, OnePage DEF Piece
  <1> HIDE DEF x, page
  <1>7. arena' \in [Page -> [desc : Desc \cup {NULL, "junk"}, free_cnt : Nat]]
    BY <1>1, <1>4, <1>6
  <1>8. \A p \in Page \ {page} : arena'[p] = arena[p]
    BY <1>1, <1>4
  <1>9. \A p \in ArenaPages : arena'[p] = arena[p]
    BY <1>2, <1>8 DEF ArenaPages
  <1>10. \A y : y.kind = "block" => (y \in allocated' <=> y \in allocated)
    BY <1>3, <1>4, <1>6
  <1>11. BigOK'
    <2> SUFFICES ASSUME NEW y \in allocated', y.kind = "big"
                 PROVE  arena'[y.page] = [desc |-> NULL, free_cnt |-> y.n]
      BY DEF BigOK
    <2>1. CASE y = x
      BY <1>1, <1>4, <1>6, <2>1
    <2>2. CASE y # x
      <3>1. y \in allocated /\ y.page # page /\ y.page \in Page
        BY <1>1, <1>2, <1>4, <2>2 DEF Piece
      <3> QED BY <1>1, <1>8, <3>1 DEF BlocksInv, BigOK
    <2> QED BY <2>1, <2>2
  <1>12. BlocksInv'
    BY <1>1, <1>2, <1>4, <1>5, <1>9, <1>10, <1>11, BlocksSame
  <1> QED BY <1>7, <1>12

LEMMA FreeGroupBlocks ==
  ASSUME MInv, NEW t \in Thread, NEW x \in allocated, pc[t] \in {"idle", "return"}, BothFree(t, x), FreeGroup(t, x)
  PROVE  BlocksInv'
  <1>1. BlocksInv /\ CallInv /\ PagesInv
    BY BlocksBefore
  <1>2. /\ ArenaPages' = ArenaPages
        /\ \A p \in ArenaPages : arena'[p] = arena[p]
        /\ \A y \in allocated \ {x} : y.kind = "big" => arena'[y.page] = arena[y.page]
    BY <1>1, FreeGroupPages
  <1>3. x.kind # "block" /\ allocated' = allocated \ {x} /\ UNCHANGED free_list /\ pc'[t] = "clear"
    BY DEF BothFree, FreeGroup, Goto, MInv, RegsInv, MallocTypeOK, RegsTypeOK
  <1>4. LeavesSame
    <2>1. OthersStay(t)
      BY FreeGroupRegs DEF RegsStep
    <2> QED BY <1>3, <2>1, LeavesSameIs DEF Leaves
  <1>5. BigOK'
    BY <1>1, <1>2, <1>3 DEF BlocksInv, BigOK
  <1>6. \A y : y.kind = "block" => (y \in allocated' <=> y \in allocated)
    BY <1>3
  <1> QED BY <1>1, <1>2, <1>3, <1>4, <1>5, <1>6, BlocksSame

\* The other lists stay, and the list of d has blocks of one page more or less.
LEMMA ListsElsewhere ==
  ASSUME NEW d \in Desc, NEW set, NEW page, ListBecomes(d, set), ListsOnce,
         \A y : y.page # page => (y \in set <=> y \in Elems(free_list[d]))
  PROVE  /\ \A y : y.page # page =>
               \A e \in Desc : y \in Elems(free_list'[e]) <=> y \in Elems(free_list[e])
         /\ ListsOnce'
         /\ \A e \in Desc : Elems(free_list'[e]) = IF e = d THEN set ELSE Elems(free_list[e])
  <1>1. \A e \in Desc : Elems(free_list'[e]) = IF e = d THEN set ELSE Elems(free_list[e])
    BY DEF ListBecomes
  <1>2. ListsOnce'
    BY DEF ListsOnce, ListBecomes
  <1> QED BY <1>1, <1>2

LEMMA BlockTaken ==
  ASSUME MInv, NEW t \in Thread, NEW d \in Desc, NEW x, NEW n, BlockOn(x, d), x \in Elems(free_list[d]),
         n = arena[x.page].free_cnt, pc[t] = "pop", pc'[t] = "return", OthersStay(t), allocated' = allocated \cup {x},
         ListBecomes(d, Elems(free_list[d]) \ {x}), ArenaBecomes(x.page, [desc |-> d, free_cnt |-> n - 1])
  PROVE  BlocksInv'
  <1> DEFINE page == x.page
             blocks == BlocksOf(page, d)
             was == Elems(free_list[d])
  <1>1. /\ d \in Desc /\ BlockOn(x, d) /\ x \in was /\ pc[t] = "pop" /\ pc'[t] = "return"
        /\ allocated' = allocated \cup {x}
        /\ ListBecomes(d, was \ {x})
        /\ ArenaBecomes(page, [desc |-> d, free_cnt |-> n - 1])
    OBVIOUS
  <1>2. BlocksInv /\ allocated \subseteq Piece /\ \A y \in allocated : y.kind # "block" => y.page \notin ArenaPages
    BY BlocksBefore
  <1>3. /\ page \in ArenaPages /\ x.kind = "block" /\ n \in Nat /\ n = Cardinality(blocks \cap was)
        /\ n < blocks_per_arena[d] /\ page \in Page /\ x \in blocks /\ arena[page].desc = d
    BY <1>1, CountIs DEF BlockOn
  <1>4. LeavesSame
    BY <1>1, LeavesSameIs DEF Leaves
  <1>5. /\ \A y : y.page # page =>
               \A e \in Desc : y \in Elems(free_list'[e]) <=> y \in Elems(free_list[e])
        /\ ListsOnce'
        /\ \A e \in Desc : Elems(free_list'[e]) = IF e = d THEN was \ {x} ELSE Elems(free_list[e])
    <2>1. \A y : y.page # page => (y \in was \ {x} <=> y \in Elems(free_list[d]))
      OBVIOUS
    <2>2. ListsOnce
      BY <1>2 DEF BlocksInv
    <2> HIDE DEF page
    <2> QED BY <1>1, <2>1, <2>2, ListsElsewhere
  <1>6. BlocksElsewhere(page)
    <2>1. \A p \in Page \ {page} : arena'[p] = arena[p]
      BY <1>1 DEF ArenaBecomes
    <2>2. \A y \in allocated \cup allocated' : y.page = page => y.kind # "big"
      BY <1>1, <1>2, <1>3
    <2>3. \A y : y.page # page => (y \in allocated' <=> y \in allocated)
      BY <1>1
    <2> QED BY <1>4, <1>5, <2>1, <2>2, <2>3 DEF BlocksElsewhere, LeavesSame
  <1>7. arena'[page] = [desc |-> d, free_cnt |-> n - 1] /\ page \in ArenaPages'
    BY <1>1, <1>3 DEF ArenaBecomes, ArenaPages
  <1>8. ArenaOK(page)'
    <2>1. blocks \cap (was \ {x}) = (blocks \cap was) \ {x} /\ x \in blocks \cap was
      BY <1>1, <1>3
    <2> DEFINE free == blocks \cap was
    <2>2. IsFiniteSet(free)
      <3>1. IsFiniteSet(blocks) /\ free \in SUBSET blocks
        BY <1>1, <1>3, BlocksCounted
      <3> HIDE DEF blocks, free
      <3> QED BY <3>1, FS_Subset
    <2>3. Cardinality(free \ {x}) = n - 1
      <3>1. x \in free /\ n = Cardinality(free)
        BY <1>3, <2>1
      <3> HIDE DEF free
      <3>2. Cardinality(free \ {x}) = IF x \in free THEN Cardinality(free) - 1 ELSE Cardinality(free)
        BY <2>2, FS_RemoveElement
      <3> QED BY <3>1, <3>2
    <2>4. blocks \ (blocks \cap was) \subseteq allocated \cup Leaving
      BY <1>2, <1>3 DEF BlocksInv, ArenaOK
    <2>5. Leaving' = Leaving
      <3>1. Leaving' = {piece'[u] : u \in {v \in Thread : Leaves(v)'}}
        BY DEF Leaving, Leaves
      <3> QED BY <1>4, <3>1, LeavingIsOf DEF LeavesSame
    <2>6. blocks \ (blocks \cap (was \ {x})) \subseteq allocated' \cup Leaving'
      BY <1>1, <2>4, <2>5
    <2>7. Elems(free_list'[d]) = was \ {x} /\ d \in Desc
      BY <1>1, <1>5
    <2>8. arena'[page].desc = d /\ arena'[page].free_cnt = n - 1
      BY <1>7
    <2> HIDE DEF blocks, was, page
    <2>9. Cardinality(blocks \cap (was \ {x})) = n - 1 /\ n - 1 < blocks_per_arena[d]
      <3>1. blocks_per_arena[d] \in Nat /\ n - 1 < blocks_per_arena[d]
        BY <1>3, BlocksFit
      <3>2. Cardinality(blocks \cap (was \ {x})) = n - 1
        BY <2>1, <2>3, Zenon DEF free
      <3> QED BY <3>1, <3>2
    <2> QED BY <2>6, <2>7, <2>8, <2>9 DEF ArenaOK, blocks
  <1>9. BlocksHere(page)'
    <2>1. \A y \in allocated' : y.kind = "block" /\ y.page = page =>
             /\ y \in BlocksOf(page, arena'[page].desc)
             /\ \A e \in Desc : y \notin Elems(free_list'[e])
      <3> SUFFICES ASSUME NEW y \in allocated', y.kind = "block", y.page = page
                   PROVE  y \in blocks /\ \A e \in Desc : y \notin Elems(free_list'[e])
        BY <1>7
      <3>1. CASE y = x
        <4>1. \A e \in Desc \ {d} : x \notin Elems(free_list[e])
          <5> SUFFICES ASSUME NEW e \in Desc \ {d}, x \in Elems(free_list[e])  PROVE FALSE
            OBVIOUS
          <5> QED BY <1>3 DEF BlocksInv, ListsOK, BlockOn, MInv, BlockInv
        <4> QED BY <1>3, <1>5, <3>1, <4>1
      <3>2. CASE y # x
        <4>1. y \in allocated
          BY <1>1, <3>2
        <4>2. y \in blocks /\ \A e \in Desc : y \notin Elems(free_list[e])
          BY <1>2, <1>3, <4>1 DEF BlocksInv, BlocksApart
        <4> QED BY <1>5, <4>2
      <3> QED BY <3>1, <3>2
    <2>2. \A e \in Desc : \A y \in Elems(free_list'[e]) : y.page = page => BlockOn(y, e)'
      <3> SUFFICES ASSUME NEW e \in Desc, NEW y \in Elems(free_list'[e]), y.page = page  PROVE BlockOn(y, e)'
        OBVIOUS
      <3>1. y \in Elems(free_list[e])
        BY <1>5
      <3>2. BlockOn(y, e)
        BY <1>2, <3>1 DEF BlocksInv, ListsOK
      <3>3. arena'[page].desc = arena[page].desc
        BY <1>3, <1>7
      <3> QED BY <3>2, <3>3 DEF BlockOn
    <2>3. \A u \in Thread : Leaves(u)' /\ piece'[u].page = page =>
             /\ piece'[u] # NULL /\ BlockOn(piece[u], req[u])' /\ piece'[u] \notin allocated'
             /\ \A e \in Desc : piece'[u] \notin Elems(free_list'[e])
             /\ \A v \in Thread \ {u} : Leaves(v)' => piece'[v] # piece'[u]
      <3> SUFFICES ASSUME NEW u \in Thread, Leaves(u)', piece'[u].page = page
                   PROVE  /\ piece'[u] # NULL /\ BlockOn(piece[u], req[u])' /\ piece'[u] \notin allocated'
                          /\ \A e \in Desc : piece'[u] \notin Elems(free_list'[e])
                          /\ \A v \in Thread \ {u} : Leaves(v)' => piece'[v] # piece'[u]
        OBVIOUS
      <3>1. Leaves(u) /\ piece'[u] = piece[u] /\ req'[u] = req[u]
        BY <1>4 DEF LeavesSame
      <3>2. /\ piece[u] # NULL /\ BlockOn(piece[u], req[u]) /\ piece[u] \notin allocated
            /\ \A e \in Desc : piece[u] \notin Elems(free_list[e])
            /\ \A v \in Thread \ {u} : Leaves(v) => piece[v] # piece[u]
        BY <1>2, <3>1 DEF BlocksInv, LeavesOK
      <3>3. piece[u] # x
        BY <1>1, <3>2
      <3>4. arena'[page].desc = arena[page].desc
        BY <1>3, <1>7
      <3>5. BlockOn(piece[u], req[u])'
        BY <3>1, <3>2, <3>4 DEF BlockOn
      <3>6. \A v \in Thread \ {u} : Leaves(v)' => piece'[v] # piece'[u]
        BY <1>4, <3>1, <3>2 DEF LeavesSame
      <3>7. \A e \in Desc : piece[u] \notin Elems(free_list'[e])
        BY <1>5, <3>2
      <3> QED BY <1>1, <3>1, <3>2, <3>3, <3>5, <3>6, <3>7
    <2> HIDE DEF page
    <2> QED BY <1>7, <1>8, <2>1, <2>2, <2>3 DEF BlocksHere
  <1> QED BY <1>2, <1>3, <1>5, <1>6, <1>9, BlocksOfOne

LEMMA MallocPopBlocks ==
  ASSUME MInv, NEW t \in Thread, MallocPop(t)
  PROVE  BlocksInv'
  <1>1. PICK d, x, n : d = req[t] /\ x = Head(free_list[d]) /\ n = arena[x.page].free_cnt
    OBVIOUS
  <1>2. /\ d \in Desc /\ BlockOn(x, d) /\ x \in Elems(free_list[d]) /\ pc[t] = "pop" /\ pc'[t] = "return"
        /\ allocated' = allocated \cup {x}
        /\ ListBecomes(d, Elems(free_list[d]) \ {x})
        /\ ArenaBecomes(x.page, [desc |-> d, free_cnt |-> n - 1])
    BY <1>1, MallocPopIs
  <1>3. OthersStay(t)
    BY MallocPopRegs DEF RegsStep
  <1> QED BY <1>1, <1>2, <1>3, BlockTaken

\* A page becomes an arena of which the first block is given away.
LEMMA ArenaMade ==
  ASSUME MInv, NEW t \in Thread, NEW d \in Desc, NEW page \in Page, NEW x, x = Block(page, 1),
         page \notin ArenaPages, \A y \in allocated : y.kind = "big" => y.page # page,
         pc[t] = "got", pc'[t] = "return", OthersStay(t), allocated' = allocated \cup {x}, Elems(free_list[d]) = {},
         ListBecomes(d, BlocksOf(page, d) \ {x}), ArenaBecomes(page, [desc |-> d, free_cnt |-> blocks_per_arena[d] - 1])
  PROVE  BlocksInv'
  <1> DEFINE blocks == BlocksOf(page, d)
             header == [desc |-> d, free_cnt |-> blocks_per_arena[d] - 1]
  <1>1. BlocksInv /\ allocated \subseteq Piece
    BY BlocksBefore
  <1>2. /\ IsFiniteSet(blocks) /\ Cardinality(blocks) = blocks_per_arena[d] /\ blocks_per_arena[d] \in Nat
        /\ x \in blocks
    BY BlocksCounted
  <1>3. x.kind = "block" /\ x.page = page /\ \A y \in blocks : y.page = page /\ y.kind = "block"
    BY <1>2, BlockIs
  <1>4. LeavesSame
    BY LeavesSameIs DEF Leaves
  <1>5. \A e \in Desc : \A y \in Elems(free_list[e]) : y.page # page
    <2> SUFFICES ASSUME NEW e \in Desc, NEW y \in Elems(free_list[e]), y.page = page  PROVE FALSE
      OBVIOUS
    <2>1. BlockOn(y, e)
      BY <1>1 DEF BlocksInv, ListsOK
    <2> QED BY <2>1 DEF BlockOn, ArenaPages
  <1>6. \A u \in Thread : Leaves(u) => piece[u].page # page
    <2> SUFFICES ASSUME NEW u \in Thread, Leaves(u), piece[u].page = page  PROVE FALSE
      OBVIOUS
    <2>1. BlockOn(piece[u], req[u])
      BY <1>1 DEF BlocksInv, LeavesOK
    <2>2. req[u] \in Desc
      BY DEF MInv, CallInv, ReqOK, Leaves
    <2> QED BY <2>1, <2>2 DEF BlockOn, ArenaPages
  <1>7. \A y \in allocated : y.kind = "block" => y.page # page
    BY <1>1 DEF BlocksInv, BlocksApart
  <1>8. \A e \in Desc : Elems(free_list'[e]) = IF e = d THEN blocks \ {x} ELSE Elems(free_list[e])
    BY DEF ListBecomes
  <1>9. ListsOnce'
    BY <1>1 DEF BlocksInv, ListsOnce, ListBecomes
  <1>10. arena'[page] = header /\ page \in ArenaPages' /\ \A p \in Page \ {page} : arena'[p] = arena[p]
    BY DEF ArenaBecomes, ArenaPages
  <1>11. BlocksElsewhere(page)
    <2>1. \A y : y.page # page => \A e \in Desc : y \in Elems(free_list'[e]) <=> y \in Elems(free_list[e])
      BY <1>3, <1>8
    <2>2. \A y : y.page # page => (y \in allocated' <=> y \in allocated)
      BY <1>3
    <2>3. \A y \in allocated \cup allocated' : y.page = page => y.kind # "big"
      BY <1>3
    <2> QED BY <1>4, <1>10, <2>1, <2>2, <2>3 DEF BlocksElsewhere, LeavesSame
  <1> HIDE DEF blocks, header
  <1>12. ArenaOK(page)'
    <2>1. Cardinality(blocks \ {x}) = IF x \in blocks THEN Cardinality(blocks) - 1 ELSE Cardinality(blocks)
      BY <1>2, FS_RemoveElement
    <2>2. blocks \cap (blocks \ {x}) = blocks \ {x} /\ blocks \ (blocks \ {x}) \subseteq {x}
      OBVIOUS
    <2>3. Cardinality(blocks \cap (blocks \ {x})) = blocks_per_arena[d] - 1
          /\ blocks_per_arena[d] - 1 < blocks_per_arena[d]
      <3>1. Cardinality(blocks \ {x}) = blocks_per_arena[d] - 1
        BY <1>2, <2>1
      <3>2. blocks_per_arena[d] - 1 < blocks_per_arena[d]
        BY <1>2
      <3> QED BY <2>2, <3>1, <3>2, Zenon
    <2>4. arena'[page].desc = d /\ arena'[page].free_cnt = blocks_per_arena[d] - 1
      BY <1>10 DEF header
    <2>5. Elems(free_list'[d]) = blocks \ {x}
      BY <1>8
    <2> QED BY <2>2, <2>3, <2>4, <2>5 DEF ArenaOK, blocks
  <1>13. BlocksHere(page)'
    <2>1. arena'[page].desc = d
      BY <1>10 DEF header
    <2>2. \A y \in allocated' : y.kind = "block" /\ y.page = page =>
             /\ y \in BlocksOf(page, arena'[page].desc)
             /\ \A e \in Desc : y \notin Elems(free_list'[e])
      <3> SUFFICES ASSUME NEW y \in allocated', y.kind = "block", y.page = page
                   PROVE  y \in blocks /\ \A e \in Desc : y \notin Elems(free_list'[e])
        BY <2>1 DEF blocks
      <3>1. y = x
        BY <1>7
      <3> QED BY <1>2, <1>3, <1>5, <1>8, <3>1
    <2>3. \A e \in Desc : \A y \in Elems(free_list'[e]) : y.page = page => BlockOn(y, e)'
      <3> SUFFICES ASSUME NEW e \in Desc, NEW y \in Elems(free_list'[e]), y.page = page  PROVE BlockOn(y, e)'
        OBVIOUS
      <3>1. e = d /\ y \in blocks
        BY <1>5, <1>8
      <3> QED BY <2>1, <3>1 DEF BlockOn, blocks
    <2>4. \A u \in Thread : Leaves(u)' => piece'[u].page # page
      BY <1>4, <1>6 DEF LeavesSame
    <2> QED BY <1>10, <1>12, <2>2, <2>3, <2>4 DEF BlocksHere
  <1> QED BY <1>1, <1>9, <1>11, <1>13, BlocksOfOne

LEMMA NewArenaBlocks ==
  ASSUME MInv, NEW t \in Thread, NewArena(t), pages[t] # NULL
  PROVE  BlocksInv'
  <1>1. PICK d, page, x : d = req[t] /\ page = pages[t] /\ x = Block(page, 1)
    OBVIOUS
  <1>2. /\ d \in Desc /\ page \in Page /\ cnt[t] = 1 /\ Elems(free_list[d]) = {}
        /\ pc[t] = "got" /\ pc'[t] = "return"
        /\ allocated' = allocated \cup {x}
        /\ ListBecomes(d, BlocksOf(page, d) \ {x})
        /\ ArenaBecomes(page, [desc |-> d, free_cnt |-> blocks_per_arena[d] - 1])
    BY <1>1, NewArenaIs
  <1>3. page \notin ArenaPages
    BY <1>1, BlocksBefore, NewArenaPages
  <1>4. \A y \in allocated : y.kind = "big" => y.page # page
    <2> SUFFICES ASSUME NEW y \in allocated, y.kind = "big", y.page = page  PROVE FALSE
      OBVIOUS
    <2>1. page \in PagesOf(y) /\ page \in Nat
      BY Freed, OnePage
    <2>2. page \in InTransit(t)
      BY <1>1, <1>2, <2>1, TransitIs, NullApart
    <2> QED BY <2>1, <2>2 DEF MInv, PageInv, NothingTwice
  <1>5. OthersStay(t)
    BY NewArenaRegs DEF RegsStep
  <1> QED BY <1>1, <1>2, <1>3, <1>4, <1>5, ArenaMade

\* A block is given back to free().
LEMMA BlockReturned ==
  ASSUME MInv, NEW t \in Thread, NEW x \in allocated, NEW page, NEW d, page = x.page, d = arena[page].desc,
         x.kind = "block", pc[t] \in {"idle", "return"}, pc'[t] = "free_lock", piece'[t] = x, req'[t] = d,
         OthersStay(t), allocated' = allocated \ {x}, UNCHANGED <<free_list, arena>>
  PROVE  BlocksInv'
  <1>1. /\ BlocksInv /\ allocated \subseteq Piece
        /\ \A y \in allocated : y.kind # "block" => y.page \notin ArenaPages
        /\ \A y \in Piece : y.page \in Page
    BY BlocksBefore
  <1>2. page \in Page /\ page \in ArenaPages /\ d \in Desc /\ BlockOn(x, d) /\ x # NULL /\ \A e \in Desc : x \notin Elems(free_list[e])
    BY <1>1, NullApart DEF BlocksInv, BlocksApart, ArenaPages, BlockOn
  <1>3. ~Leaves(t) /\ Leaves(t)'
    BY DEF Leaves
  <1>4. \A u \in Thread \ {t} : (Leaves(u)' <=> Leaves(u)) /\ piece'[u] = piece[u] /\ req'[u] = req[u]
    BY DEF OthersStay, Leaves
  <1>5. ListsOnce' /\ ArenaPages' = ArenaPages
    BY <1>1 DEF BlocksInv, ListsOnce, ArenaPages
  <1>6. BlocksElsewhere(page)
    <2>1. \A u \in Thread : piece'[u].page # page =>
              (Leaves(u)' => Leaves(u) /\ piece'[u] = piece[u] /\ req'[u] = req[u])
      <3> SUFFICES ASSUME NEW u \in Thread, piece'[u].page # page, Leaves(u)'
                   PROVE  Leaves(u) /\ piece'[u] = piece[u] /\ req'[u] = req[u]
        BY Zenon
      <3>1. u # t
        OBVIOUS
      <3> QED BY <1>4, <3>1
    <2>2. \A u \in Thread : Leaves(u) /\ piece[u].page # page => Leaves(u)' /\ piece'[u] = piece[u]
      BY <1>3, <1>4
    <2>3. \A y \in allocated \cup allocated' : y.page = page => y.kind # "big"
      BY <1>1, <1>2
    <2>4. \A y : y.page # page => (y \in allocated' <=> y \in allocated)
      OBVIOUS
    <2> QED BY <2>1, <2>2, <2>3, <2>4 DEF BlocksElsewhere
  <1>7. \A y \in allocated \cup Leaving : y \in allocated' \cup Leaving'
    <2> SUFFICES ASSUME NEW y \in allocated \cup Leaving  PROVE y \in allocated' \cup Leaving'
      OBVIOUS
    <2>1. Leaving' = {piece'[u] : u \in {v \in Thread : Leaves(v)'}}
      BY DEF Leaving, Leaves
    <2>2. x \in Leaving'
      BY <1>3, <2>1
    <2>3. \A u \in Thread : Leaves(u) => piece[u] \in Leaving'
      BY <1>3, <1>4, <2>1
    <2>4. y \in Leaving => y \in Leaving'
      BY <2>3, LeavingIsOf
    <2> QED BY <2>2, <2>4
  <1>8. ArenaOK(page)'
    BY <1>1, <1>2, <1>7 DEF BlocksInv, ArenaOK
  <1>9. BlocksHere(page)'
    <2>1. \A y \in allocated' : y.kind = "block" /\ y.page = page =>
             /\ page \in ArenaPages' /\ y \in BlocksOf(page, arena'[page].desc)
             /\ \A e \in Desc : y \notin Elems(free_list'[e])
      BY <1>1, <1>2, <1>5 DEF BlocksInv, BlocksApart
    <2>2. \A e \in Desc : \A y \in Elems(free_list'[e]) : y.page = page => BlockOn(y, e)'
      BY <1>1 DEF BlocksInv, ListsOK, BlockOn
    <2>3. \A u \in Thread : Leaves(u)' /\ piece'[u].page = page =>
             /\ piece'[u] # NULL /\ BlockOn(piece[u], req[u])' /\ piece'[u] \notin allocated'
             /\ \A e \in Desc : piece'[u] \notin Elems(free_list'[e])
             /\ \A v \in Thread \ {u} : Leaves(v)' => piece'[v] # piece'[u]
      <3> SUFFICES ASSUME NEW u \in Thread, Leaves(u)'
                   PROVE  /\ piece'[u] # NULL /\ BlockOn(piece[u], req[u])' /\ piece'[u] \notin allocated'
                          /\ \A e \in Desc : piece'[u] \notin Elems(free_list'[e])
                          /\ \A v \in Thread \ {u} : Leaves(v)' => piece'[v] # piece'[u]
        OBVIOUS
      <3>1. \A v \in Thread : Leaves(v) =>
              /\ piece[v] # NULL /\ BlockOn(piece[v], req[v]) /\ piece[v] \notin allocated
              /\ \A e \in Desc : piece[v] \notin Elems(free_list[e])
              /\ \A w \in Thread \ {v} : Leaves(w) => piece[w] # piece[v]
        BY <1>1 DEF BlocksInv, LeavesOK
      <3>2. CASE u = t
        <4>1. BlockOn(piece[t], req[t])'
          BY <1>2 DEF BlockOn
        <4>2. \A v \in Thread \ {t} : Leaves(v)' => piece'[v] # x
          BY <1>4, <3>1
        <4> QED BY <1>2, <3>2, <4>1, <4>2
      <3>3. CASE u # t
        <4>1. Leaves(u) /\ piece'[u] = piece[u] /\ req'[u] = req[u]
          BY <1>4, <3>3
        <4>2. BlockOn(piece[u], req[u])'
          BY <3>1, <4>1 DEF BlockOn
        <4>3. \A v \in Thread \ {u} : Leaves(v)' => piece'[v] # piece'[u]
          BY <1>4, <3>1, <4>1
        <4> QED BY <3>1, <4>1, <4>2, <4>3
      <3> QED BY <3>2, <3>3
    <2> QED BY <1>8, <2>1, <2>2, <2>3 DEF BlocksHere
  <1> QED BY <1>1, <1>2, <1>5, <1>6, <1>9, BlocksOfOne

LEMMA FreeBlockBlocks ==
  ASSUME MInv, NEW t \in Thread, NEW x \in allocated, pc[t] \in {"idle", "return"}, BothFree(t, x), FreeBlock(t, x)
  PROVE  BlocksInv'
  <1>1. PICK page, d : page = x.page /\ d = arena[page].desc
    OBVIOUS
  <1>2. OthersStay(t)
    BY FreeBlockRegs DEF RegsStep
  <1>3. /\ x.kind = "block" /\ pc'[t] = "free_lock" /\ piece'[t] = x /\ req'[t] = d
        /\ allocated' = allocated \ {x} /\ UNCHANGED <<free_list, arena>>
    BY <1>1 DEF BothFree, FreeBlock, Goto, MInv, RegsInv, MallocTypeOK, RegsTypeOK
  <1> QED BY <1>1, <1>2, <1>3, BlockReturned

\* A block goes on the list of its descriptor.
LEMMA BlockPushed ==
  ASSUME MInv, NEW t \in Thread, NEW d \in Desc, NEW x, NEW page, NEW n, page = x.page, x = piece[t], d = req[t],
         n = arena[page].free_cnt, n + 1 < blocks_per_arena[d], pc[t] = "push", pc'[t] = "idle", OthersStay(t),
         UNCHANGED allocated, ListBecomes(d, Elems(free_list[d]) \cup {x}),
         ArenaBecomes(page, [desc |-> d, free_cnt |-> n + 1])
  PROVE  BlocksInv'
  <1> DEFINE blocks == BlocksOf(page, d)
             was == Elems(free_list[d])
  <1>1. /\ BlocksInv /\ allocated \subseteq Piece
        /\ \A y \in allocated : y.kind # "block" => y.page \notin ArenaPages
    BY BlocksBefore
  <1>2. /\ BlockOn(x, d) /\ x \notin allocated /\ \A e \in Desc : x \notin Elems(free_list[e])
        /\ \A u \in Thread \ {t} : Leaves(u) => piece[u] # x
    BY LeavingIs
  <1>3. /\ page \in ArenaPages /\ x.kind = "block" /\ n \in Nat /\ n = Cardinality(blocks \cap was)
        /\ page \in Page /\ x \in blocks /\ arena[page].desc = d
    BY <1>2, CountIs DEF BlockOn
  <1>4. Leaves(t) /\ ~Leaves(t)' /\ \A u \in Thread \ {t} : (Leaves(u)' <=> Leaves(u)) /\ piece'[u] = piece[u] /\ req'[u] = req[u]
    BY DEF OthersStay, Leaves
  <1>5. \A e \in Desc : Elems(free_list'[e]) = IF e = d THEN was \cup {x} ELSE Elems(free_list[e])
    BY DEF ListBecomes
  <1>6. ListsOnce'
    BY <1>1 DEF BlocksInv, ListsOnce, ListBecomes
  <1>7. /\ arena'[page].desc = d /\ arena'[page].free_cnt = n + 1 /\ page \in ArenaPages'
        /\ \A p \in Page \ {page} : arena'[p] = arena[p]
    BY <1>3 DEF ArenaBecomes, ArenaPages
  <1>8. BlocksElsewhere(page)
    <2>1. \A u \in Thread : piece'[u].page # page =>
              (Leaves(u)' => Leaves(u) /\ piece'[u] = piece[u] /\ req'[u] = req[u])
      BY <1>4
    <2>2. \A u \in Thread : Leaves(u) /\ piece[u].page # page => Leaves(u)' /\ piece'[u] = piece[u]
      BY <1>4
    <2>3. \A y \in allocated \cup allocated' : y.page = page => y.kind # "big"
      BY <1>1, <1>3
    <2>4. \A y : y.page # page => \A e \in Desc : y \in Elems(free_list'[e]) <=> y \in Elems(free_list[e])
      BY <1>5
    <2> QED BY <1>7, <2>1, <2>2, <2>3, <2>4 DEF BlocksElsewhere
  <1>9. ArenaOK(page)'
    <2> DEFINE free == blocks \cap was
    <2>1. blocks \cap (was \cup {x}) = free \cup {x} /\ x \notin free /\ n = Cardinality(free)
      BY <1>2, <1>3
    <2>2. IsFiniteSet(free)
      <3>1. IsFiniteSet(blocks) /\ free \in SUBSET blocks
        BY <1>3, BlocksCounted
      <3> HIDE DEF blocks, free
      <3> QED BY <3>1, FS_Subset
    <2>3. Cardinality(free \cup {x}) = n + 1
      <3> HIDE DEF free
      <3>1. Cardinality(free \cup {x}) = IF x \in free THEN Cardinality(free) ELSE Cardinality(free) + 1
        BY <2>2, FS_AddElement
      <3> QED BY <2>1, <3>1
    <2>4. blocks \ free \subseteq allocated \cup Leaving
      BY <1>1, <1>3 DEF BlocksInv, ArenaOK
    <2>5. \A y \in Leaving : y = x \/ y \in Leaving'
      <3>1. Leaving' = {piece'[u] : u \in {v \in Thread : Leaves(v)'}}
        BY DEF Leaving, Leaves
      <3>2. \A u \in Thread : Leaves(u) => piece[u] = x \/ piece[u] \in Leaving'
        BY <1>4, <3>1
      <3> QED BY <3>2, LeavingIsOf
    <2>6. blocks \ (free \cup {x}) \subseteq allocated' \cup Leaving'
      BY <2>4, <2>5
    <2>7. Elems(free_list'[d]) = was \cup {x}
      BY <1>5
    <2> HIDE DEF blocks, was, free
    <2>8. blocks \cap Elems(free_list'[d]) = free \cup {x}
      BY <2>1, <2>7
    <2> QED BY <1>7, <2>3, <2>6, <2>8 DEF ArenaOK, blocks
  <1>10. BlocksHere(page)'
    <2>1. \A y \in allocated' : y.kind = "block" /\ y.page = page =>
             /\ y \in BlocksOf(page, arena'[page].desc)
             /\ \A e \in Desc : y \notin Elems(free_list'[e])
      <3> SUFFICES ASSUME NEW y \in allocated, y.kind = "block", y.page = page
                   PROVE  y \in blocks /\ \A e \in Desc : y \notin Elems(free_list'[e])
        BY <1>7
      <3>1. y # x
        BY <1>2
      <3>2. y \in blocks /\ \A e \in Desc : y \notin Elems(free_list[e])
        BY <1>1, <1>3 DEF BlocksInv, BlocksApart
      <3> QED BY <1>5, <3>1, <3>2
    <2>2. \A e \in Desc : \A y \in Elems(free_list'[e]) : y.page = page => BlockOn(y, e)'
      <3> SUFFICES ASSUME NEW e \in Desc, NEW y \in Elems(free_list'[e]), y.page = page  PROVE BlockOn(y, e)'
        OBVIOUS
      <3>1. BlockOn(y, e)
        <4>1. CASE y \in Elems(free_list[e])
          BY <1>1, <4>1 DEF BlocksInv, ListsOK
        <4>2. CASE y \notin Elems(free_list[e])
          BY <1>2, <1>5, <4>2
        <4> QED BY <4>1, <4>2
      <3> QED BY <1>3, <1>7, <3>1 DEF BlockOn
    <2>3. \A u \in Thread : Leaves(u)' /\ piece'[u].page = page =>
             /\ piece'[u] # NULL /\ BlockOn(piece[u], req[u])' /\ piece'[u] \notin allocated'
             /\ \A e \in Desc : piece'[u] \notin Elems(free_list'[e])
             /\ \A v \in Thread \ {u} : Leaves(v)' => piece'[v] # piece'[u]
      <3> SUFFICES ASSUME NEW u \in Thread, Leaves(u)', piece'[u].page = page
                   PROVE  /\ piece'[u] # NULL /\ BlockOn(piece[u], req[u])' /\ piece'[u] \notin allocated'
                          /\ \A e \in Desc : piece'[u] \notin Elems(free_list'[e])
                          /\ \A v \in Thread \ {u} : Leaves(v)' => piece'[v] # piece'[u]
        OBVIOUS
      <3>1. u # t /\ Leaves(u) /\ piece'[u] = piece[u] /\ req'[u] = req[u]
        BY <1>4
      <3>2. /\ piece[u] # NULL /\ BlockOn(piece[u], req[u]) /\ piece[u] \notin allocated
            /\ \A e \in Desc : piece[u] \notin Elems(free_list[e])
            /\ \A v \in Thread \ {u} : Leaves(v) => piece[v] # piece[u]
        BY <1>1, <3>1 DEF BlocksInv, LeavesOK
      <3>3. piece[u] # x
        BY <1>2, <3>1
      <3>4. BlockOn(piece[u], req[u])'
        BY <1>3, <1>7, <3>1, <3>2 DEF BlockOn
      <3>5. \A v \in Thread \ {u} : Leaves(v)' => piece'[v] # piece'[u]
        BY <1>4, <3>1, <3>2
      <3>6. \A e \in Desc : piece[u] \notin Elems(free_list'[e])
        BY <1>5, <3>2, <3>3
      <3> QED BY <3>1, <3>2, <3>4, <3>5, <3>6
    <2> QED BY <1>7, <1>9, <2>1, <2>2, <2>3 DEF BlocksHere
  <1> QED BY <1>1, <1>3, <1>6, <1>8, <1>10, BlocksOfOne

LEMMA PushBlocks ==
  ASSUME MInv, NEW t \in Thread, FreePush(t), ~Unused(arena[piece[t].page].free_cnt + 1, req[t])
  PROVE  BlocksInv'
  <1>1. PICK x, d, page, n : x = piece[t] /\ d = req[t] /\ page = x.page /\ n = arena[page].free_cnt
    OBVIOUS
  <1>2. /\ pc[t] = "push" /\ EndFree(t) /\ UNCHANGED <<allocated, poolVars, pageRegs>>
        /\ n + 1 < blocks_per_arena[d]
        /\ ListBecomes(d, Elems(free_list[d]) \cup {x})
        /\ ArenaBecomes(page, [desc |-> d, free_cnt |-> n + 1])
    BY <1>1, PushIs
  <1>3. d \in Desc
    BY <1>1, <1>2, LeavingIs
  <1>4. OthersStay(t)
    BY <1>2, FreePushRegs DEF RegsStep
  <1>5. pc'[t] = "idle"
    BY <1>2 DEF EndFree, Goto, MInv, RegsInv, MallocTypeOK, RegsTypeOK
  <1> QED BY <1>1, <1>2, <1>3, <1>4, <1>5, BlockPushed

\* A page that was an arena goes, with its blocks.
LEMMA ArenaGoes ==
  ASSUME MInv, NEW t \in Thread, NEW d \in Desc, NEW page \in Page, page \in ArenaPages, arena[page].desc = d,
         pc[t] = "push", piece[t].page = page,
         pc'[t] = "clear", OthersStay(t), UNCHANGED allocated, ListBecomes(d, Elems(free_list[d]) \ BlocksOf(page, d)),
         ArenaBecomes(page, Junk), \A y \in allocated : y.kind = "block" => y.page # page,
         \A u \in Thread \ {t} : Leaves(u) => piece[u].page # page
  PROVE  BlocksInv'
  <1>1. /\ BlocksInv /\ allocated \subseteq Piece
        /\ \A y \in allocated : y.kind # "block" => y.page \notin ArenaPages
    BY BlocksBefore
  <1>2. Leaves(t) /\ ~Leaves(t)' /\ \A u \in Thread \ {t} : (Leaves(u)' <=> Leaves(u)) /\ piece'[u] = piece[u] /\ req'[u] = req[u]
    BY DEF OthersStay, Leaves
  <1>3. \A e \in Desc : Elems(free_list'[e]) = IF e = d THEN Elems(free_list[d]) \ BlocksOf(page, d) ELSE Elems(free_list[e])
    BY DEF ListBecomes
  <1>4. \A y \in BlocksOf(page, d) : y.page = page
    BY BlockIs
  <1>5. \A e \in Desc : \A y \in Elems(free_list'[e]) : y.page # page
    <2> SUFFICES ASSUME NEW e \in Desc, NEW y \in Elems(free_list'[e]), y.page = page  PROVE FALSE
      OBVIOUS
    <2>1. BlockOn(y, e)
      BY <1>1, <1>3 DEF BlocksInv, ListsOK
    <2> QED BY <1>3, <2>1 DEF BlockOn
  <1>6. page \notin ArenaPages'
    BY NamesApart DEF ArenaBecomes, ArenaPages, Junk
  <1>7. BlocksElsewhere(page)
    <2>1. \A u \in Thread : piece'[u].page # page =>
              (Leaves(u)' => Leaves(u) /\ piece'[u] = piece[u] /\ req'[u] = req[u])
      BY <1>2
    <2>2. \A u \in Thread : Leaves(u) /\ piece[u].page # page => Leaves(u)' /\ piece'[u] = piece[u]
      BY <1>2
    <2>3. \A y \in allocated \cup allocated' : y.page = page => y.kind # "big"
      BY <1>1
    <2>4. \A y : y.page # page => \A e \in Desc : y \in Elems(free_list'[e]) <=> y \in Elems(free_list[e])
      BY <1>3, <1>4
    <2>5. \A p \in Page \ {page} : arena'[p] = arena[p]
      BY DEF ArenaBecomes
    <2> QED BY <2>1, <2>2, <2>3, <2>4, <2>5 DEF BlocksElsewhere
  <1>8. BlocksHere(page)'
    <2>1. \A u \in Thread : Leaves(u)' => piece'[u].page # page
      BY <1>2
    <2> QED BY <1>5, <1>6, <2>1 DEF BlocksHere
  <1>9. ListsOnce'
    BY <1>1 DEF BlocksInv, ListsOnce, ListBecomes
  <1> QED BY <1>1, <1>7, <1>8, <1>9, BlocksOfOne

LEMMA PageGoesBlocks ==
  ASSUME MInv, NEW t \in Thread, FreePush(t), Unused(arena[piece[t].page].free_cnt + 1, req[t])
  PROVE  BlocksInv'
  <1>1. PICK x, d, page : x = piece[t] /\ d = req[t] /\ page = x.page
    OBVIOUS
  <1>2. /\ pc[t] = "push" /\ GivePages(t, page, 1) /\ Goto(t, "clear")
        /\ UNCHANGED <<allocated, desc_lock, regs>>
        /\ page \in ArenaPages /\ page \in Page /\ d \in Desc
        /\ ListBecomes(d, Elems(free_list[d]) \ BlocksOf(page, d))
        /\ ArenaBecomes(page, Junk)
        /\ \A y \in allocated : y.kind = "block" => y.page # page
        /\ \A u \in Thread \ {t} : Leaves(u) => piece[u].page # page
    BY <1>1, PageGoesIs
  <1>3. OthersStay(t)
    BY BlocksBefore, PageGoesPages DEF RegsStep
  <1>4. pc'[t] = "clear"
    BY <1>2 DEF Goto, MInv, RegsInv, MallocTypeOK, RegsTypeOK
  <1>5. arena[page].desc = d
    BY <1>1, <1>2, LeavingIs DEF BlockOn
  <1> QED BY <1>1, <1>2, <1>3, <1>4, <1>5, ArenaGoes

-----------------------------------------------------------------------------
(* Every step keeps the invariant *)

MapsTyped == used_map \in [Pool -> UNION {[0..(Size(p) - 1) -> BOOLEAN] : p \in Pool}] /\ MapTyped
LocksTyped == pool_lock \in [Pool -> Thread \cup {NULL}] /\ desc_lock \in [Desc -> Thread \cup {NULL}]
ArenasTyped == arena \in [Page -> [desc : Desc \cup {NULL, "junk"}, free_cnt : Nat]]

LEMMA MemoryParts == MemoryTypeOK <=> MapsTyped /\ LocksTyped /\ ListsTyped /\ ArenasTyped /\ allocated \subseteq Piece
  BY DEF MemoryTypeOK, MapsTyped, MapTyped, LocksTyped, ListsTyped, ArenasTyped

\* What is known before a step, by name.
LEMMA Parts ==
  ASSUME MInv
  PROVE  /\ RegsInv /\ CallInv /\ MapInv /\ PagesInv /\ BlocksInv /\ CallersOK
         /\ MapsTyped /\ LocksTyped /\ ListsTyped /\ ArenasTyped /\ allocated \subseteq Piece
         /\ MemoryTypeOK /\ RegsTypeOK
  BY BlocksBefore, MemoryParts DEF MInv, RegsInv, MallocTypeOK

\* The conjuncts of the invariant after a step.
LEMMA Assemble ==
  ASSUME RegsInv, NEW t \in Thread, RegsStep(t), MapsTyped', LocksTyped', ListsTyped', ArenasTyped', (allocated \subseteq Piece)',
         CallInv', MapInv', PagesInv', BlocksInv', CallersOK'
  PROVE  MInv'
  <1>1. MemoryTypeOK'
    BY MemoryParts, PTL
  <1>2. \A u \in Thread : RegOK(u)'
    <2> SUFFICES ASSUME NEW u \in Thread \ {t}  PROVE RegOK(u)'
      BY DEF RegsStep
    <2>1. RegOK(u)
      BY DEF RegsInv
    <2>2. /\ pc'[u] = pc[u] /\ pool'[u] = pool[u] /\ cnt'[u] = cnt[u] /\ idx'[u] = idx[u] /\ bit'[u] = bit[u]
          /\ pages'[u] = pages[u]
      BY DEF RegsStep, OthersStay
    <2> QED BY <2>1, <2>2 DEF RegOK, Fresh, InPool
  <1>3. RegsInv'
    BY <1>1, <1>2 DEF RegsInv, RegsStep, MallocTypeOK
  <1>4. BlocksApart' /\ BlockInv'
    <2>1. ListsTyped /\ BlocksInv => BlocksApart /\ BlockInv
      BY BlockParts
    <2> QED BY <2>1, BlockParts, PTL
  <1>5. PageInv'
    BY <1>4, PageParts, PTL
  <1> QED BY <1>3, <1>4, <1>5 DEF MInv

\* A step that changes no list, no arena and nobody's possessions.
LEMMA KeptMemory ==
  ASSUME MInv, NEW t \in Thread, RegsStep(t), UNCHANGED <<free_list, arena, allocated>>, MapsTyped', LocksTyped',
         CallInv', MapInv', PagesInv',
         \/ ~Leaves(t) /\ ~Leaves(t)'
         \/ Leaves(t) /\ Leaves(t)' /\ UNCHANGED <<piece, req>>
  PROVE  MInv'
  <1>1. /\ RegsInv /\ CallInv /\ BlocksInv /\ CallersOK
        /\ ListsTyped /\ ArenasTyped /\ allocated \subseteq Piece
    BY Parts
  <1>2. BlocksInv'
    BY <1>1, BlocksQuiet DEF RegsStep
  <1>3. ListsTyped' /\ ArenasTyped' /\ (allocated \subseteq Piece)' /\ CallersOK'
    BY <1>1 DEF ListsTyped, ArenasTyped, CallersOK, InPool
  <1> QED BY <1>1, <1>2, <1>3, Assemble

\* A step after which no page is on its way that was not before.
LEMMA KeptMap ==
  ASSUME MInv, NEW t \in Thread, RegsStep(t), UNCHANGED <<free_list, arena, allocated, used_map>>, LocksTyped',
         CallInv', MapInv', InTransit(t)' = InTransit(t),
         \/ ~Leaves(t) /\ ~Leaves(t)'
         \/ Leaves(t) /\ Leaves(t)' /\ UNCHANGED <<piece, req>>
  PROVE  MInv'
  <1>1. PagesInv /\ MapsTyped
    BY Parts
  <1>2. MapsTyped' /\ ArenaPages' = ArenaPages
    BY <1>1 DEF MapsTyped, MapTyped, ArenaPages
  <1>3. PagesInv'
    BY <1>1, <1>2, PagesQuiet DEF RegsStep
  <1> QED BY <1>2, <1>3, KeptMemory

LEMMA NothingOnItsWay ==
  ASSUME NEW t \in Thread, pc[t] \notin {"flip", "clear", "got"}, pc'[t] \notin {"flip", "clear", "got"}
  PROVE  InTransit(t)' = InTransit(t)
  BY DEF InTransit, At

LEMMA SameMap ==
  ASSUME UNCHANGED used_map, NEW t \in Thread
  PROVE  OnlyClears(t)
  BY DEF OnlyClears

LEMMA CallMallocStep ==
  ASSUME MInv, NEW t \in Thread, NEW o \in Piece \cup {NULL}, CallMalloc(t, o), o # NULL => Mine(o) /\ o.kind # "pages"
  PROVE  MInv'
  <1>1. RegsInv /\ CallInv /\ MapInv /\ LocksTyped /\ RegsTypeOK
    BY Parts
  <1>2. RegsStep(t) /\ CallInv'
    BY <1>1, CallMallocRegs, CallMallocCall
  <1>3. UNCHANGED <<free_list, arena, allocated, used_map, pool_lock, desc_lock>>
    BY DEF CallMalloc, AskPages, mallocVars, poolVars
  <1>4. pc[t] = "idle" /\ pc'[t] \in {"desc_lock", "pool_lock"}
    BY <1>1 DEF CallMalloc, At, Goto, RegsTypeOK
  <1>5. LocksTyped'
    BY <1>1, <1>3 DEF LocksTyped
  <1>6. MapInv'
    BY <1>1, <1>2, <1>3, <1>4, SameMap, MapQuiet DEF RegsStep
  <1>7. InTransit(t)' = InTransit(t) /\ ~Leaves(t) /\ ~Leaves(t)'
    BY <1>4, NothingOnItsWay DEF Leaves
  <1> QED BY <1>2, <1>3, <1>5, <1>6, <1>7, KeptMap

LEMMA CallGetPagesStep ==
  ASSUME MInv, NEW t \in Thread, CallGetPages(t)
  PROVE  MInv'
  <1>1. RegsInv /\ CallInv /\ MapInv /\ LocksTyped /\ RegsTypeOK
    BY Parts
  <1>2. RegsStep(t) /\ CallInv'
    BY <1>1, CallGetPagesRegs, CallGetPagesCall
  <1>3. UNCHANGED <<free_list, arena, allocated, used_map, pool_lock, desc_lock>>
    BY DEF CallGetPages, AskPages, mallocVars, poolVars
  <1>4. pc[t] = "idle" /\ pc'[t] = "pool_lock"
    BY <1>1 DEF CallGetPages, At, Goto, RegsTypeOK
  <1>5. LocksTyped'
    BY <1>1, <1>3 DEF LocksTyped
  <1>6. MapInv'
    BY <1>1, <1>2, <1>3, <1>4, SameMap, MapQuiet DEF RegsStep
  <1>7. InTransit(t)' = InTransit(t) /\ ~Leaves(t) /\ ~Leaves(t)'
    BY <1>4, NothingOnItsWay DEF Leaves
  <1> QED BY <1>2, <1>3, <1>5, <1>6, <1>7, KeptMap

LEMMA PoolLockStep ==
  ASSUME MInv, NEW t \in Thread, PoolLock(t)
  PROVE  MInv'
  <1>1. RegsInv /\ CallInv /\ MapInv /\ LocksTyped /\ RegsTypeOK
    BY Parts
  <1>2. /\ UNCHANGED <<free_list, arena, allocated, used_map, mallocVars, regs, cnt>>
        /\ pool_lock' = [pool_lock EXCEPT ![pool[t]] = t]
    BY DEF PoolLock, LockPool, mallocVars
  <1>3. pc[t] = "pool_lock" /\ pc'[t] = "scan"
    BY <1>1 DEF PoolLock, At, Goto, RegsTypeOK
  <1>4. RegsStep(t) /\ MapInv'
    BY <1>1, PoolLockRegs, PoolLockMap
  <1>5. CallInv'
    <2>1. cnt'[t] = cnt[t] /\ OthersStay(t) /\ UNCHANGED <<mallocVars, regs>>
      BY <1>2, <1>4 DEF RegsStep
    <2>2. pc[t] \in Asking /\ pc'[t] \in Asking
      BY <1>3 DEF Asking
    <2> QED BY <1>1, <2>1, <2>2, AskingCall DEF mallocVars, regs
  <1>6. LocksTyped'
    BY <1>1, <1>2 DEF LocksTyped, mallocVars
  <1>7. InTransit(t)' = InTransit(t) /\ ~Leaves(t) /\ ~Leaves(t)'
    BY <1>3, NothingOnItsWay DEF Leaves
  <1> QED BY <1>2, <1>4, <1>5, <1>6, <1>7, KeptMap

LEMMA ScanStep ==
  ASSUME MInv, NEW t \in Thread, Scan(t)
  PROVE  MInv'
  <1>1. RegsInv /\ CallInv /\ MapInv /\ LocksTyped /\ RegsTypeOK
    BY Parts
  <1>2. UNCHANGED <<free_list, arena, allocated, used_map, pool_lock, mallocVars, regs, cnt, pc>> /\ pc[t] = "scan"
    BY DEF Scan, At, ScanBit, mallocVars, poolVars
  <1>4. RegsStep(t) /\ MapInv'
    BY <1>1, ScanRegs, ScanMap
  <1>5. CallInv'
    <2>1. cnt'[t] = cnt[t] /\ OthersStay(t) /\ UNCHANGED <<mallocVars, regs>>
      BY <1>2, <1>4 DEF RegsStep
    <2>2. pc[t] \in Asking /\ pc'[t] \in Asking
      BY <1>2 DEF Asking
    <2> QED BY <1>1, <2>1, <2>2, AskingCall DEF mallocVars, regs
  <1>6. LocksTyped'
    BY <1>1, <1>2 DEF LocksTyped, mallocVars
  <1>7. InTransit(t)' = InTransit(t) /\ ~Leaves(t) /\ ~Leaves(t)'
    BY <1>2, NothingOnItsWay DEF Leaves
  <1> QED BY <1>2, <1>4, <1>5, <1>6, <1>7, KeptMap

LEMMA ScanFailStep ==
  ASSUME MInv, NEW t \in Thread, ScanFail(t)
  PROVE  MInv'
  <1>1. RegsInv /\ CallInv /\ MapInv /\ LocksTyped /\ RegsTypeOK /\ PagesInv /\ MapsTyped
    BY Parts
  <1>2. /\ UNCHANGED <<free_list, arena, allocated, used_map, mallocVars, regs, cnt>>
        /\ pool_lock' = [pool_lock EXCEPT ![pool[t]] = NULL]
    BY DEF ScanFail, UnlockPool, mallocVars
  <1>3. pc[t] = "scan" /\ pc'[t] = "got"
    BY <1>1 DEF ScanFail, At, Goto, RegsTypeOK
  <1>4. RegsStep(t) /\ MapInv' /\ PagesInv'
    BY <1>1, ScanFailRegs, ScanFailMap, ScanFailPages
  <1>5. CallInv'
    <2>1. cnt'[t] = cnt[t] /\ OthersStay(t) /\ UNCHANGED <<mallocVars, regs>>
      BY <1>2, <1>4 DEF RegsStep
    <2>2. pc[t] \in Asking /\ pc'[t] \in Asking
      BY <1>3 DEF Asking
    <2> QED BY <1>1, <2>1, <2>2, AskingCall DEF mallocVars, regs
  <1>6. LocksTyped' /\ MapsTyped'
    BY <1>1, <1>2 DEF LocksTyped, MapsTyped, MapTyped, mallocVars
  <1>7. ~Leaves(t) /\ ~Leaves(t)'
    BY <1>3 DEF Leaves
  <1> QED BY <1>2, <1>4, <1>5, <1>6, <1>7, KeptMemory

LEMMA ScanSucceedStep ==
  ASSUME MInv, NEW t \in Thread, ScanSucceed(t)
  PROVE  MInv'
  <1>1. RegsInv /\ CallInv /\ MapInv /\ LocksTyped /\ RegsTypeOK /\ PagesInv /\ MapsTyped
    BY Parts
  <1>2. UNCHANGED <<free_list, arena, allocated, used_map, pool_lock, mallocVars, regs, cnt>>
    BY DEF ScanSucceed, mallocVars, poolVars
  <1>3. pc[t] = "scan" /\ pc'[t] = "flip"
    BY <1>1 DEF ScanSucceed, At, Goto, RegsTypeOK
  <1>4. RegsStep(t) /\ MapInv' /\ PagesInv'
    BY <1>1, ScanSucceedRegs, ScanSucceedMap, ScanSucceedPages
  <1>5. CallInv'
    <2>1. cnt'[t] = cnt[t] /\ OthersStay(t) /\ UNCHANGED <<mallocVars, regs>>
      BY <1>2, <1>4 DEF RegsStep
    <2>2. pc[t] \in Asking /\ pc'[t] \in Asking
      BY <1>3 DEF Asking
    <2> QED BY <1>1, <2>1, <2>2, AskingCall DEF mallocVars, regs
  <1>6. LocksTyped' /\ MapsTyped'
    BY <1>1, <1>2 DEF LocksTyped, MapsTyped, MapTyped, mallocVars
  <1>7. ~Leaves(t) /\ ~Leaves(t)'
    BY <1>3 DEF Leaves
  <1> QED BY <1>2, <1>4, <1>5, <1>6, <1>7, KeptMemory

LEMMA FlipStep ==
  ASSUME MInv, NEW t \in Thread, Flip(t)
  PROVE  MInv'
  <1>1. RegsInv /\ CallInv /\ MapInv /\ LocksTyped /\ RegsTypeOK /\ PagesInv /\ MapsTyped
    BY Parts
  <1>2. pc[t] = "flip" /\ UNCHANGED <<mallocVars, regs>>
    BY DEF Flip, At
  <1>3. UNCHANGED <<free_list, arena, allocated, desc_lock>>
    BY <1>2 DEF mallocVars
  <1>4. CASE bit[t] < cnt[t]
    <2> DEFINE value == TRUE
    <2>1. SetBit(t, value) /\ UNCHANGED <<mallocVars, pc, regs>>
      BY <1>2, <1>4 DEF Flip
    <2>2. value \in BOOLEAN /\ pc[t] \in {"flip", "clear"}
      BY <1>2
    <2>3. RegsStep(t) /\ MapInv' /\ PagesInv'
      <3>1. MapInv' /\ PagesInv'
        BY <1>1, <1>2, <1>4, <2>1, FlipBitMap, FlipBitPages, Zenon
      <3> HIDE DEF value
      <3>2. RegsStep(t)
        BY <1>1, <1>4, <2>1, <2>2, FlipBitRegs
      <3> QED BY <3>1, <3>2
    <2>4. CallInv'
      <3>1. cnt'[t] = cnt[t] /\ OthersStay(t)
        BY <2>1, <2>3 DEF RegsStep, SetBit
      <3>2. pc[t] \in Asking /\ pc'[t] \in Asking
        BY <1>2, <2>1 DEF Asking
      <3> QED BY <1>1, <1>2, <3>1, <3>2, AskingCall DEF mallocVars, regs
    <2>5. LocksTyped'
      BY <1>1, <1>3, <2>1 DEF LocksTyped, SetBit
    <2>6. ~Leaves(t) /\ ~Leaves(t)'
      BY <1>2, <2>1 DEF Leaves
    <2> HIDE DEF value
    <2>7. MapsTyped'
      BY <1>1, <1>4, <2>1, <2>2, BitSet DEF MapsTyped, MapTyped
    <2> QED BY <1>3, <2>3, <2>4, <2>5, <2>6, <2>7, KeptMemory
  <1>5. CASE ~(bit[t] < cnt[t])
    <2> DEFINE found == TRUE
    <2>1. UnlockPool(t, found) /\ Goto(t, "got") /\ pc'[t] = "got"
      BY <1>1, <1>5 DEF Flip, Goto, RegsTypeOK
    <2>2. RegsStep(t) /\ MapInv' /\ PagesInv'
      BY <1>1, <1>2, <1>5, <2>1, FlipEndRegs, FlipEndMap, FlipEndPages
    <2>3. CallInv'
      <3>1. cnt'[t] = cnt[t] /\ OthersStay(t)
        BY <2>1, <2>2 DEF RegsStep, UnlockPool
      <3>2. pc[t] \in Asking /\ pc'[t] \in Asking
        BY <1>2, <2>1 DEF Asking
      <3> QED BY <1>1, <1>2, <3>1, <3>2, AskingCall DEF mallocVars, regs
    <2>4. LocksTyped' /\ MapsTyped'
      BY <1>1, <1>3, <2>1 DEF LocksTyped, MapsTyped, MapTyped, UnlockPool
    <2>5. ~Leaves(t) /\ ~Leaves(t)'
      BY <1>2, <2>1 DEF Leaves
    <2> QED BY <1>3, <2>2, <2>3, <2>4, <2>5, KeptMemory
  <1> QED BY <1>4, <1>5

LEMMA MallocLockStep ==
  ASSUME MInv, NEW t \in Thread, MallocLock(t)
  PROVE  MInv'
  <1>1. RegsInv /\ CallInv /\ MapInv /\ LocksTyped /\ RegsTypeOK
    BY Parts
  <1>2. RegsStep(t) /\ CallInv'
    BY <1>1, MallocLockRegs, MallocLockCall
  <1>3. /\ UNCHANGED <<free_list, arena, allocated, used_map, pool_lock>>
        /\ desc_lock' = [desc_lock EXCEPT ![req[t]] = t]
    BY DEF MallocLock, AskPages, poolVars
  <1>4. pc[t] = "desc_lock" /\ pc'[t] \in {"pop", "pool_lock"}
    BY <1>1 DEF MallocLock, At, Goto, RegsTypeOK
  <1>5. LocksTyped'
    BY <1>1, <1>3 DEF LocksTyped
  <1>6. MapInv'
    BY <1>1, <1>2, <1>3, <1>4, SameMap, MapQuiet DEF RegsStep
  <1>7. InTransit(t)' = InTransit(t) /\ ~Leaves(t) /\ ~Leaves(t)'
    BY <1>4, NothingOnItsWay DEF Leaves
  <1> QED BY <1>2, <1>3, <1>5, <1>6, <1>7, KeptMap

LEMMA FreeLockStep ==
  ASSUME MInv, NEW t \in Thread, FreeLock(t)
  PROVE  MInv'
  <1>1. RegsInv /\ CallInv /\ MapInv /\ LocksTyped /\ RegsTypeOK
    BY Parts
  <1>2. RegsStep(t) /\ CallInv'
    BY <1>1, FreeLockRegs, FreeLockCall
  <1>3. /\ UNCHANGED <<free_list, arena, allocated, used_map, pool_lock, piece, req>>
        /\ desc_lock' = [desc_lock EXCEPT ![req[t]] = t]
    BY DEF FreeLock, poolVars, regs
  <1>4. pc[t] = "free_lock" /\ pc'[t] = "push"
    BY <1>1 DEF FreeLock, At, Goto, RegsTypeOK
  <1>5. LocksTyped'
    BY <1>1, <1>3 DEF LocksTyped
  <1>6. MapInv'
    BY <1>1, <1>2, <1>3, <1>4, SameMap, MapQuiet DEF RegsStep
  <1>7. InTransit(t)' = InTransit(t) /\ Leaves(t) /\ Leaves(t)'
    BY <1>4, NothingOnItsWay DEF Leaves
  <1> QED BY <1>2, <1>3, <1>5, <1>6, <1>7, KeptMap

\* The lock of a descriptor at the end of a call.
LEMMA EndLocks ==
  ASSUME LocksTyped, NEW t \in Thread, UNCHANGED pool_lock,
         \/ desc_lock' = desc_lock
         \/ desc_lock' = [desc_lock EXCEPT ![req[t]] = NULL]
         \/ desc_lock' = [d \in Desc |-> IF d = req[t] THEN NULL ELSE desc_lock[d]]
  PROVE  LocksTyped'
  BY DEF LocksTyped

\* A block or pages are given to the caller.
LEMMA Given2 ==
  ASSUME MInv, NEW t \in Thread, NEW x, x \in Piece, allocated' = allocated \cup {x},
         x.kind # "block" => x.n \in 1..MaxPages /\ InPool(x.page, x.n)
  PROVE  (allocated \subseteq Piece)' /\ CallersOK'
  <1>1. CallersOK /\ allocated \subseteq Piece
    BY Parts
  <1> QED BY <1>1 DEF CallersOK, InPool

LEMMA MallocPopStep ==
  ASSUME MInv, NEW t \in Thread, MallocPop(t)
  PROVE  MInv'
  <1>1. /\ RegsInv /\ CallInv /\ MapInv /\ LocksTyped /\ RegsTypeOK /\ PagesInv /\ MapsTyped
        /\ ArenasTyped
    BY Parts
  <1>2. RegsStep(t) /\ CallInv' /\ BlocksInv'
    BY MallocPopRegs, MallocPopCall, MallocPopBlocks
  <1>3. PICK d, x, header : d = req[t] /\ x = Head(free_list[d]) /\ header = [desc |-> d, free_cnt |-> arena[x.page].free_cnt - 1]
    OBVIOUS
  <1>4. /\ d \in Desc /\ BlockOn(x, d) /\ x \in Elems(free_list[d])
        /\ pc[t] = "pop" /\ pc'[t] = "return" /\ UNCHANGED used_map
        /\ allocated' = allocated \cup {x}
        /\ ListBecomes(d, Elems(free_list[d]) \ {x})
        /\ ArenaBecomes(x.page, header)
    BY <1>3, MallocPopIs
  <1>5. x.page \in ArenaPages /\ x.kind = "block" /\ x \in Piece /\ PagesOf(x) = {} /\ x.page \in Page /\ header.desc = d
    BY <1>3, <1>4, CountIs DEF BlockOn
  <1>6. ArenaPages' = ArenaPages
    BY <1>4, <1>5, ArenaPagesAre
  <1>7. PagesInv'
    BY <1>1, <1>2, <1>4, <1>5, <1>6, BlockPagesStay DEF RegsStep
  <1>8. ListsTyped' /\ ArenasTyped' /\ MapsTyped'
    BY <1>1, <1>4 DEF ListBecomes, ArenaBecomes, ListsTyped, ArenasTyped, MapsTyped, MapTyped
  <1>9. LocksTyped' /\ piece'[t] = x
    BY <1>1, <1>3, EndLocks DEF MallocPop, TakeFirst, poolVars, RegsTypeOK
  <1>10. (allocated \subseteq Piece)' /\ CallersOK'
    BY <1>4, <1>5, Given2
  <1>11. MapInv'
    BY <1>1, <1>2, <1>4, <1>5, <1>9, NullApart, MapReturn DEF RegsStep
  <1> QED BY <1>1, <1>2, <1>7, <1>8, <1>9, <1>10, <1>11, Assemble

LEMMA NewArenaStep ==
  ASSUME MInv, NEW t \in Thread, NewArena(t)
  PROVE  MInv'
  <1>1. /\ RegsInv /\ CallInv /\ MapInv /\ LocksTyped /\ RegsTypeOK /\ PagesInv /\ MapsTyped
        /\ ArenasTyped
    BY Parts
  <1>2. RegsStep(t) /\ CallInv'
    BY NewArenaRegs, NewArenaCall
  <1>3. pc[t] = "got" /\ pc'[t] = "return" /\ UNCHANGED <<used_map, pool_lock, lacked>>
    BY <1>1 DEF NewArena, TakeFirst, At, Goto, KeepLacked, RegsTypeOK, poolVars
  <1>4. LocksTyped'
    BY <1>1, <1>3, EndLocks DEF NewArena, TakeFirst
  <1>5. ~Leaves(t) /\ ~Leaves(t)'
    BY <1>3 DEF Leaves
  <1>6. MapsTyped'
    BY <1>1, <1>3 DEF MapsTyped, MapTyped
  <1>7. CASE pages[t] = NULL
    <2>1. UNCHANGED <<free_list, arena, allocated>>
      BY <1>7 DEF NewArena
    <2>2. MapInv'
      BY <1>1, <1>2, <1>3, <1>7, MapReturn DEF RegsStep
    <2>3. ArenaPages' = ArenaPages
      BY <2>1 DEF ArenaPages
    <2>4. PagesInv'
      BY <1>1, <1>2, <1>3, <1>7, <2>1, <2>3, PagesStay DEF RegsStep
    <2> QED BY <1>2, <1>4, <1>5, <1>6, <2>1, <2>2, <2>4, KeptMemory
  <1>8. CASE pages[t] # NULL
    <2>1. PICK d, page, x : d = req[t] /\ page = pages[t] /\ x = Block(page, 1)
      OBVIOUS
    <2>2. /\ d \in Desc /\ page \in Page
          /\ allocated' = allocated \cup {x}
          /\ ListBecomes(d, BlocksOf(page, d) \ {x})
          /\ ArenaBecomes(page, [desc |-> d, free_cnt |-> blocks_per_arena[d] - 1])
      BY <1>8, <2>1, NewArenaIs
    <2>3. x \in Piece /\ x.kind = "block" /\ x # NULL
      BY <2>1, <2>2, NullApart, BlockPages DEF Block, Piece
    <2>4. ListsTyped' /\ ArenasTyped'
      BY <2>2 DEF ListBecomes, ArenaBecomes, ListsTyped, ArenasTyped
    <2>5. piece'[t] # NULL
      <3> DEFINE blocks == [i \in 1..blocks_per_arena[d] |-> Block(page, i)]
      <3>1. piece' = [piece EXCEPT ![t] = Head(blocks)]
        BY <1>8, <2>1 DEF NewArena, TakeFirst
      <3>2. Head(blocks) = x
        BY <2>1, <2>2, NewBlocks
      <3> HIDE DEF blocks
      <3> QED BY <1>1, <2>3, <3>1, <3>2 DEF RegsTypeOK
    <2>6. (allocated \subseteq Piece)' /\ CallersOK'
      BY <2>2, <2>3, Given2
    <2>7. MapInv'
      BY <1>1, <1>2, <1>3, <2>5, MapReturn DEF RegsStep
    <2>8. PagesInv' /\ BlocksInv'
      BY <1>1, <1>8, NewArenaPages, NewArenaBlocks
    <2> QED BY <1>1, <1>2, <1>4, <1>6, <2>4, <2>6, <2>7, <2>8, Assemble
  <1> QED BY <1>7, <1>8

LEMMA GotPagesStep ==
  ASSUME MInv, NEW t \in Thread, GotPages(t)
  PROVE  MInv'
  <1>1. /\ RegsInv /\ CallInv /\ MapInv /\ LocksTyped /\ RegsTypeOK /\ PagesInv /\ MapsTyped
        /\ ListsTyped
    BY Parts
  <1>2. RegsStep(t) /\ CallInv'
    BY GotPagesRegs, GotPagesCall
  <1>3. pc[t] = "got" /\ pc'[t] = "return" /\ UNCHANGED <<used_map, pool_lock, lacked, free_list, desc_lock>>
    BY <1>1 DEF GotPages, At, Goto, KeepLacked, RegsTypeOK, poolVars
  <1>4. LocksTyped'
    BY <1>1, <1>3, EndLocks
  <1>5. ~Leaves(t) /\ ~Leaves(t)'
    BY <1>3 DEF Leaves
  <1>6. MapsTyped'
    BY <1>1, <1>3 DEF MapsTyped, MapTyped
  <1>7. CASE pages[t] = NULL
    <2>1. UNCHANGED <<free_list, arena, allocated>>
      BY <1>7 DEF GotPages
    <2>2. MapInv'
      BY <1>1, <1>2, <1>3, <1>7, MapReturn DEF RegsStep
    <2>3. ArenaPages' = ArenaPages
      BY <2>1 DEF ArenaPages
    <2>4. PagesInv'
      BY <1>1, <1>2, <1>3, <1>7, <2>1, <2>3, PagesStay DEF RegsStep
    <2> QED BY <1>2, <1>4, <1>5, <1>6, <2>1, <2>2, <2>4, KeptMemory
  <1>8. CASE pages[t] # NULL
    <2>1. PICK x : x = [kind |-> req[t], page |-> pages[t], n |-> cnt[t]]
      OBVIOUS
    <2>2. x \in Piece /\ x.n \in 1..MaxPages /\ InPool(x.page, x.n) /\ x # NULL
      BY <1>8, <2>1, GotPagesRegs, NullApart
    <2>3. allocated' = allocated \cup {x} /\ piece'[t] = x
      BY <1>1, <1>8, <2>1 DEF GotPages, RegsTypeOK
    <2>4. (allocated \subseteq Piece)' /\ CallersOK'
      BY <2>2, <2>3, Given2
    <2>5. MapInv'
      BY <1>1, <1>2, <1>3, <2>2, <2>3, MapReturn DEF RegsStep
    <2>6. PagesInv' /\ BlocksInv' /\ ArenasTyped'
      BY <1>1, <1>8, GotPagesPages, GotPagesBlocks DEF ArenasTyped
    <2>7. ListsTyped'
      BY <1>1, <1>3 DEF ListsTyped
    <2> QED BY <1>1, <1>2, <1>4, <1>6, <2>4, <2>5, <2>6, <2>7, Assemble
  <1> QED BY <1>7, <1>8

LEMMA BeginFreeStep ==
  ASSUME MInv, NEW t \in Thread, NEW x \in allocated, pc[t] \in {"idle", "return"}, BeginFree(t, x),
         \A u \in Thread \ {t} : old[u] # x
  PROVE  MInv'
  <1>1. /\ RegsInv /\ CallInv /\ MapInv /\ LocksTyped /\ RegsTypeOK /\ PagesInv /\ MapsTyped
        /\ ListsTyped /\ ArenasTyped /\ allocated \subseteq Piece /\ CallersOK
    BY Parts
  <1>2. BothFree(t, x) /\ (FreeBlock(t, x) \/ FreeGroup(t, x))
    BY BeginFreeIs
  <1>3. RegsStep(t)
    BY <1>2, FreeBlockRegs, FreeGroupRegs
  <1>4. CallInv'
    BY <1>2, <1>3, BeginFreeCall
  <1>5. allocated' = allocated \ {x} /\ UNCHANGED <<free_list, desc_lock>>
    BY <1>2 DEF BothFree
  <1>6. UNCHANGED <<used_map, pool_lock>> /\ pc'[t] \in {"free_lock", "clear"}
    BY <1>1, <1>2 DEF FreeBlock, FreeGroup, GivePages, poolVars, Goto, RegsTypeOK
  <1>7. LocksTyped' /\ MapsTyped' /\ ListsTyped' /\ (allocated \subseteq Piece)' /\ CallersOK'
    BY <1>1, <1>5, <1>6 DEF LocksTyped, MapsTyped, MapTyped, ListsTyped, CallersOK, InPool
  <1>8. MapInv'
    BY <1>1, <1>3, <1>6, SameMap, MapQuiet DEF RegsStep
  <1>9. PagesInv' /\ BlocksInv' /\ ArenasTyped'
    <2>1. CASE FreeBlock(t, x)
      <3>1. x.kind = "block" /\ pc'[t] = "free_lock" /\ UNCHANGED arena
        BY <1>1, <2>1 DEF FreeBlock, Goto, RegsTypeOK
      <3>2. ArenaPages' = ArenaPages /\ ArenasTyped' /\ PagesOf(x) = {}
        BY <1>1, <3>1 DEF ArenaPages, ArenasTyped, PagesOf
      <3>3. BlocksInv'
        BY <1>2, <2>1, FreeBlockBlocks
      <3>4. PagesInv'
        BY <1>1, <1>3, <1>5, <1>6, <3>1, <3>2, BlockPagesStay DEF RegsStep
      <3> QED BY <3>2, <3>3, <3>4
    <2>2. CASE FreeGroup(t, x)
      BY <1>1, <1>2, <2>2, FreeGroupPages, FreeGroupBlocks DEF ArenasTyped
    <2> QED BY <1>2, <2>1, <2>2
  <1> QED BY <1>1, <1>3, <1>4, <1>7, <1>8, <1>9, Assemble

LEMMA ReturnStep ==
  ASSUME MInv, NEW t \in Thread, Return(t)
  PROVE  MInv'
  <1>1. RegsInv /\ CallInv /\ MapInv /\ LocksTyped /\ RegsTypeOK /\ pc[t] = "return"
    BY Parts DEF Return, At
  <1>2. CASE old[t] # NULL /\ piece[t] # NULL
    <2>1. BeginFree(t, old[t])
      BY <1>2 DEF Return
    <2>2. old[t] \in allocated /\ \A u \in Thread \ {t} : old[u] # old[t]
      BY <1>1, <1>2 DEF CallInv, OldOK
    <2>3. PICK x \in allocated : x = old[t]
      BY <2>2
    <2> QED BY <1>1, <2>1, <2>2, <2>3, BeginFreeStep
  <1>3. CASE ~(old[t] # NULL /\ piece[t] # NULL)
    <2>1. /\ Goto(t, "idle") /\ ForgetPages(t)
          /\ req' = [req EXCEPT ![t] = NULL] /\ piece' = [piece EXCEPT ![t] = NULL] /\ old' = [old EXCEPT ![t] = NULL]
          /\ UNCHANGED <<mallocVars, poolVars>>
      BY <1>3 DEF Return
    <2>2. RegsStep(t)
      BY <1>1, <2>1, ReturnEndRegs DEF mallocVars, poolVars
    <2>3. UNCHANGED <<free_list, arena, allocated, used_map, pool_lock, desc_lock>>
      BY <2>1 DEF mallocVars, poolVars
    <2>4. pc'[t] = "idle" /\ req'[t] = NULL /\ piece'[t] = NULL /\ old'[t] = NULL
      BY <1>1, <2>1 DEF Goto, RegsTypeOK
    <2>5. CallInv'
      BY <1>1, <2>2, <2>3, <2>4, EndCall DEF RegsStep, ListsOfOthers
    <2>6. MapInv'
      BY <1>1, <2>2, <2>3, <2>4, SameMap, MapQuiet DEF RegsStep
    <2>7. LocksTyped'
      BY <1>1, <2>3 DEF LocksTyped
    <2>8. InTransit(t)' = InTransit(t) /\ ~Leaves(t) /\ ~Leaves(t)'
      BY <1>1, <2>4, NothingOnItsWay DEF Leaves
    <2> QED BY <2>2, <2>3, <2>5, <2>6, <2>7, <2>8, KeptMap
  <1> QED BY <1>2, <1>3

LEMMA FreePushStep ==
  ASSUME MInv, NEW t \in Thread, FreePush(t)
  PROVE  MInv'
  <1>1. /\ RegsInv /\ CallInv /\ MapInv /\ LocksTyped /\ RegsTypeOK /\ PagesInv /\ MapsTyped
        /\ ListsTyped /\ ArenasTyped /\ allocated \subseteq Piece /\ CallersOK
    BY Parts
  <1>2. PICK d, x, page, n : d = req[t] /\ x = piece[t] /\ page = x.page /\ n = arena[page].free_cnt
    OBVIOUS
  <1>3. CASE ~Unused(n + 1, d)
    <2>1. /\ pc[t] = "push" /\ EndFree(t) /\ UNCHANGED <<allocated, poolVars, pageRegs>>
          /\ ListBecomes(d, Elems(free_list[d]) \cup {x})
          /\ ArenaBecomes(page, [desc |-> d, free_cnt |-> n + 1])
      BY <1>2, <1>3, PushIs
    <2>2. UNCHANGED <<allocated, used_map, pool_lock>>
      BY <2>1 DEF poolVars
    <2>3. RegsStep(t)
      BY <2>1, FreePushRegs DEF poolVars, pageRegs
    <2>4. CallInv'
      BY <2>3, FreePushCall
    <2>5. pc'[t] = "idle"
      BY <1>1, <2>1 DEF EndFree, Goto, RegsTypeOK
    <2>6. MapInv'
      BY <1>1, <2>2, <2>3, <2>5, SameMap, MapQuiet DEF RegsStep
    <2>7. d \in Desc /\ BlockOn(x, d)
      BY <1>2, <2>1, LeavingIs
    <2>8. page \in ArenaPages /\ page \in Page
      BY <1>2, <2>7, CountIs DEF BlockOn
    <2>9. ArenaPages' = ArenaPages
      <3> DEFINE header == [desc |-> d, free_cnt |-> n + 1]
      <3>1. header.desc = d /\ ArenaBecomes(page, header)
        BY <2>1
      <3> HIDE DEF header
      <3> QED BY <2>7, <2>8, <3>1, ArenaPagesAre
    <2>10. InTransit(t)' = InTransit(t)
      BY <2>1, <2>5, NothingOnItsWay
    <2>11. PagesInv'
      BY <1>1, <2>2, <2>3, <2>9, <2>10, PagesQuiet DEF RegsStep
    <2>12. BlocksInv'
      BY <1>2, <1>3, PushBlocks
    <2>13. LocksTyped'
      BY <1>1, <2>1, <2>2, EndLocks DEF EndFree
    <2>14. MapsTyped' /\ ListsTyped' /\ ArenasTyped' /\ (allocated \subseteq Piece)' /\ CallersOK'
      BY <1>1, <2>1, <2>2 DEF MapsTyped, MapTyped, ListsTyped, ArenasTyped, ListBecomes, ArenaBecomes, CallersOK, InPool
    <2> QED BY <1>1, <2>3, <2>4, <2>6, <2>11, <2>12, <2>13, <2>14, Assemble
  <1>4. CASE Unused(n + 1, d)
    <2>1. /\ pc[t] = "push" /\ GivePages(t, page, 1) /\ Goto(t, "clear")
          /\ UNCHANGED <<allocated, desc_lock, regs>>
          /\ ListBecomes(d, Elems(free_list[d]) \ BlocksOf(page, d))
          /\ ArenaBecomes(page, Junk)
      BY <1>2, <1>4, PageGoesIs
    <2>2. UNCHANGED <<allocated, used_map, pool_lock, desc_lock>>
      BY <2>1 DEF poolVars, GivePages
    <2>3. RegsStep(t) /\ PagesInv' /\ BlocksInv'
      BY <1>1, <1>2, <1>4, PageGoesPages, PageGoesBlocks
    <2>4. CallInv'
      BY <2>3, FreePushCall
    <2>5. pc'[t] = "clear"
      BY <1>1, <2>1 DEF Goto, RegsTypeOK
    <2>6. MapInv'
      BY <1>1, <2>2, <2>3, <2>5, SameMap, MapQuiet DEF RegsStep
    <2>7. LocksTyped'
      BY <1>1, <2>2 DEF LocksTyped
    <2>8. MapsTyped' /\ ListsTyped' /\ ArenasTyped' /\ (allocated \subseteq Piece)' /\ CallersOK'
      BY <1>1, <2>1, <2>2 DEF MapsTyped, MapTyped, ListsTyped, ArenasTyped, ListBecomes, ArenaBecomes, CallersOK, InPool
    <2> QED BY <1>1, <2>3, <2>4, <2>6, <2>7, <2>8, Assemble
  <1> QED BY <1>3, <1>4

LEMMA ClearStep ==
  ASSUME MInv, NEW t \in Thread, Clear(t)
  PROVE  MInv'
  <1>1. RegsInv /\ CallInv /\ MapInv /\ LocksTyped /\ RegsTypeOK /\ PagesInv /\ MapsTyped /\ pc[t] = "clear"
    BY Parts DEF Clear, At
  <1>2. CASE bit[t] < cnt[t]
    <2> DEFINE value == FALSE
    <2>1. SetBit(t, value) /\ UNCHANGED <<mallocVars, pc, regs>>
      BY <1>2 DEF Clear
    <2>2. value \in BOOLEAN /\ pc[t] \in {"flip", "clear"} /\ UNCHANGED <<free_list, arena, allocated, desc_lock>>
      BY <1>1, <2>1 DEF mallocVars
    <2>3. MapInv' /\ PagesInv'
      BY <1>1, <1>2, <2>1, ClearBitMap, ClearBitPages, Zenon
    <2>4. LocksTyped'
      BY <1>1, <2>1, <2>2 DEF LocksTyped, SetBit
    <2>5. ~Leaves(t) /\ ~Leaves(t)' /\ cnt'[t] = cnt[t]
      BY <1>1, <2>1 DEF Leaves, SetBit
    <2> HIDE DEF value
    <2>6. RegsStep(t)
      BY <1>1, <1>2, <2>1, <2>2, FlipBitRegs
    <2>7. CallInv'
      <3>1. pc[t] = "clear" /\ pc'[t] = "clear" /\ OthersStay(t)
        BY <1>1, <2>1, <2>6 DEF RegsStep
      <3> QED BY <1>1, <2>1, <2>5, <3>1, AskingCall
    <2>8. MapsTyped'
      BY <1>1, <1>2, <2>1, <2>2, BitSet DEF MapsTyped, MapTyped
    <2> QED BY <2>2, <2>3, <2>4, <2>5, <2>6, <2>7, <2>8, KeptMemory
  <1>3. CASE ~(bit[t] < cnt[t])
    <2>1. EndFree(t) /\ ForgetPages(t) /\ UNCHANGED <<free_list, arena, allocated, poolVars>>
      BY <1>3 DEF Clear
    <2>2. UNCHANGED <<free_list, arena, allocated, used_map, pool_lock>>
      BY <2>1 DEF poolVars
    <2>3. RegsStep(t) /\ CallInv'
      BY <1>1, <2>1, ClearEndRegs, ClearEndCall DEF poolVars
    <2>4. pc'[t] = "idle"
      BY <1>1, <2>1 DEF EndFree, Goto, RegsTypeOK
    <2>5. MapInv'
      BY <1>1, <2>2, <2>3, <2>4, SameMap, MapQuiet DEF RegsStep
    <2>6. LocksTyped'
      BY <1>1, <2>1, <2>2, EndLocks DEF EndFree
    <2>7. InTransit(t)' = InTransit(t)
      <3>1. InTransit(t)' = {}
        BY <2>4 DEF InTransit, At
      <3>2. bit[t] = cnt[t] /\ idx[t] \in Nat /\ cnt[t] \in Nat /\ Base(pool[t]) \in Nat
        <4>1. pool[t] \in Pool /\ idx[t] \in Nat /\ bit[t] \in Nat /\ cnt[t] \in Nat /\ bit[t] <= cnt[t]
          BY <1>1, InMap
        <4>2. Base(pool[t]) \in Nat
          BY <4>1, PoolRange
        <4> QED BY <1>3, <4>1, <4>2
      <3>3. InTransit(t) = (Base(pool[t]) + idx[t] + cnt[t])..(Base(pool[t]) + idx[t] + cnt[t] - 1)
        BY <1>1, <3>2, TransitIs
      <3> QED BY <3>1, <3>2, <3>3
    <2>8. ~Leaves(t) /\ ~Leaves(t)'
      BY <1>1, <2>4 DEF Leaves
    <2> QED BY <2>2, <2>3, <2>5, <2>6, <2>7, <2>8, KeptMap
  <1> QED BY <1>2, <1>3

-----------------------------------------------------------------------------
(* The theorems *)

LEMMA InitMInv == Init => MInv
  <1> SUFFICES ASSUME Init  PROVE MInv
    OBVIOUS
  <1>1. /\ used_map = [p \in Pool |-> [i \in 0..(Size(p) - 1) |-> FALSE]]
        /\ pool_lock = [p \in Pool |-> NULL] /\ desc_lock = [d \in Desc |-> NULL]
        /\ free_list = [d \in Desc |-> <<>>] /\ arena = [p \in Page |-> Junk] /\ allocated = {}
        /\ pool = [t \in Thread |-> "kernel"] /\ cnt = [t \in Thread |-> 0] /\ idx = [t \in Thread |-> 0]
        /\ bit = [t \in Thread |-> 0] /\ pages = [t \in Thread |-> NULL] /\ lacked = [t \in Thread |-> FALSE]
        /\ pc = [t \in Thread |-> "idle"] /\ req = [t \in Thread |-> NULL]
        /\ piece = [t \in Thread |-> NULL] /\ old = [t \in Thread |-> NULL]
    BY DEF Init, PallocInit
  <1>2. MapsTyped
    <2>1. \A p \in Pool : used_map[p] = [i \in 0..(Size(p) - 1) |-> FALSE]
      BY <1>1
    <2>2. \A p \in Pool : used_map[p] \in [0..(Size(p) - 1) -> BOOLEAN]
      BY <2>1
    <2>3. used_map \in [Pool -> UNION {[0..(Size(p) - 1) -> BOOLEAN] : p \in Pool}]
      <3>1. used_map = [p \in Pool |-> used_map[p]]
        BY <1>1
      <3>2. \A p \in Pool : used_map[p] \in UNION {[0..(Size(q) - 1) -> BOOLEAN] : q \in Pool}
        BY <2>2
      <3> QED BY <3>1, <3>2
    <2> QED BY <2>2, <2>3 DEF MapsTyped, MapTyped
  <1>3. LocksTyped /\ ListsTyped /\ ArenasTyped /\ allocated \subseteq Piece
    <2>1. Junk \in [desc : Desc \cup {NULL, "junk"}, free_cnt : Nat]
      BY DEF Junk
    <2> QED BY <1>1, <2>1 DEF LocksTyped, ListsTyped, ArenasTyped
  <1>4. RegsTypeOK
    <2>1. Size("kernel") \in Nat /\ "kernel" \in Pool /\ 0 \in 0..MaxPages
      BY PoolRange, OnePage DEF Pool
    <2> QED BY <1>1, <2>1 DEF RegsTypeOK
  <1>5. LockOK /\ \A t \in Thread : RegOK(t)
    BY <1>1, NullApart DEF LockOK, RegOK, Idle, Fresh, Scanning, InDesc
  <1>6. RegsInv
    BY <1>2, <1>3, <1>4, <1>5, MemoryParts DEF RegsInv, MallocTypeOK
  <1>7. CallInv
    BY <1>1 DEF CallInv, OldOK, ReqOK, Asking
  <1>8. MapInv
    BY <1>1 DEF MapInv, ClearOK, Seen, LackOK
  <1>9. ArenaPages = {} /\ \A t \in Thread : InTransit(t) = {}
    BY <1>1, NamesApart DEF ArenaPages, Junk, InTransit, At
  <1>10. PagesInv
    <2>1. UsedPages = {}
      <3>1. UsedBits
        BY <1>2, UsedIs DEF MapsTyped
      <3>2. \A page : page \notin UsedPages
        <4> SUFFICES ASSUME NEW page \in UsedPages  PROVE FALSE
          OBVIOUS
        <4>1. PICK p \in Pool : \E i \in 0..(Size(p) - 1) : used_map[p][i]
          BY <3>1 DEF UsedBits
        <4>2. used_map[p] = [i \in 0..(Size(p) - 1) |-> FALSE]
          BY <1>1
        <4> QED BY <4>1, <4>2
      <3> QED BY <3>2
    <2>2. \A t \in Thread : Transit[t] = {}
      BY <1>9 DEF Transit
    <2>3. \A page : page \notin Covered({}, {}, Transit)
      BY <2>2, InCovered
    <2>4. Covered({}, {}, Transit) = {}
      BY <2>3
    <2>5. Apart({}, {}, Transit)
      BY <2>2 DEF Apart
    <2> QED BY <1>1, <1>9, <2>1, <2>4, <2>5 DEF PagesInv
  <1>11. BlocksInv
    <2>1. \A d \in Desc : Elems(free_list[d]) = {} /\ DOMAIN free_list[d] = {}
      BY <1>1 DEF Elems
    <2> QED BY <1>1, <1>9, <2>1 DEF BlocksInv, BlocksApart, ListsOK, LeavesOK, Leaves, ListsOnce, Once, BigOK
  <1>12. CallersOK
    BY <1>1 DEF CallersOK
  <1>13. PageInv /\ BlockInv
    BY <1>3, <1>10, <1>11, <1>12, PageParts, BlockParts
  <1> QED BY <1>6, <1>7, <1>8, <1>13 DEF MInv

LEMMA StutterMInv ==
  ASSUME MInv, UNCHANGED vars
  PROVE  MInv'
  <1>1. /\ UNCHANGED <<free_list, desc_lock, arena, allocated>> /\ UNCHANGED <<pc, req, piece, old>>
        /\ UNCHANGED <<used_map, pool_lock>> /\ UNCHANGED <<pool, cnt, idx, bit, pages, lacked>>
    BY DEF vars, mallocVars, regs, poolVars, pageRegs
  <1>2. RegsInv'
    <2>1. MemoryTypeOK'
      BY <1>1 DEF MInv, RegsInv, MallocTypeOK, MemoryTypeOK
    <2>2. RegsTypeOK'
      BY <1>1 DEF MInv, RegsInv, MallocTypeOK, RegsTypeOK
    <2>3. LockOK' /\ \A t \in Thread : RegOK(t)'
      BY <1>1 DEF MInv, RegsInv, LockOK, RegOK, Fresh
    <2> QED BY <2>1, <2>2, <2>3 DEF RegsInv, MallocTypeOK
  <1>3. CallInv'
    BY <1>1 DEF MInv, CallInv, OldOK, ReqOK
  <1>4. MapInv'
    BY <1>1 DEF MInv, MapInv, ClearOK, Seen, LackOK, FreeRun
  <1>5. ArenaPages' = ArenaPages /\ \A t \in Thread : InTransit(t)' = InTransit(t)
    BY <1>1 DEF ArenaPages, InTransit, At
  <1>6. PageInv'
    <2>1. NothingTwice'
      BY <1>1, <1>5 DEF MInv, PageInv, NothingTwice
    <2>2. UsedMapRight'
      <3>1. UsedMapRight
        BY DEF MInv, PageInv
      <3>2. (UNION {InTransit(t) : t \in Thread})' = UNION {InTransit(t) : t \in Thread}
        BY <1>5
      <3>3. (UNION {PagesOf(x) : x \in allocated})' = UNION {PagesOf(x) : x \in allocated}
        BY <1>1
      <3>4. UsedPages' = UsedPages
        BY <1>1 DEF UsedPages
      <3> QED BY <1>5, <3>1, <3>2, <3>3, <3>4 DEF UsedMapRight, UsedPages
    <2>3. CallersOK'
      BY <1>1 DEF MInv, PageInv, CallersOK
    <2> QED BY <2>1, <2>2, <2>3 DEF PageInv
  <1>7. BlockInv'
    <2>1. ListsOK' /\ LeavesOK'
      BY <1>1 DEF MInv, BlockInv, ListsOK, LeavesOK, Leaves, BlockOn
    <2>2. ArenasRight'
      BY <1>1, <1>5 DEF MInv, BlockInv, ArenasRight, Leaving
    <2> QED BY <2>1, <2>2 DEF BlockInv
  <1> QED BY <1>2, <1>3, <1>4, <1>6, <1>7 DEF MInv

LEMMA NextMInv ==
  ASSUME MInv, [Next]_vars
  PROVE  MInv'
  <1>1. CASE UNCHANGED vars
    BY <1>1, StutterMInv
  <1>2. CASE Next
    <2>1. PICK t \in Thread : CallMalloc(t, NULL) \/ CallRealloc(t) \/ CallGetPages(t) \/ CallFree(t) \/ Step(t)
      BY <1>2 DEF Next
    <2>2. allocated \subseteq Piece /\ NULL \in Piece \cup {NULL}
      BY Parts
    <2>3. CASE CallMalloc(t, NULL)
      BY <2>2, <2>3, CallMallocStep
    <2>4. CASE CallRealloc(t)
      <3>1. PICK x \in allocated : Mine(x) /\ x.kind # "pages" /\ CallMalloc(t, x)
        BY <2>4 DEF CallRealloc
      <3> QED BY <2>2, <3>1, CallMallocStep
    <2>5. CASE CallGetPages(t)
      BY <2>5, CallGetPagesStep
    <2>6. CASE CallFree(t)
      <3>1. PICK x \in allocated : Mine(x) /\ BeginFree(t, x)
        BY <2>6 DEF CallFree
      <3>2. pc[t] \in {"idle", "return"} /\ \A u \in Thread \ {t} : old[u] # x
        BY <2>6, <3>1 DEF CallFree, At, Mine
      <3> QED BY <3>1, <3>2, BeginFreeStep
    <2>7. CASE Step(t)
      BY <2>7, PoolLockStep, ScanStep, ScanFailStep, ScanSucceedStep, FlipStep, MallocLockStep, MallocPopStep, NewArenaStep,
         GotPagesStep, ReturnStep, FreeLockStep, FreePushStep, ClearStep DEF Step
    <2> QED BY <2>1, <2>3, <2>4, <2>5, <2>6, <2>7
  <1> QED BY <1>1, <1>2

(***************************************************************************)
(* The inductive invariant of the two allocators: locks and registers, the *)
(* calls, the scans, who has which page, and the blocks of the arenas      *)
(* (malloc.c:87, 219; palloc.c:71, 124).                                   *)
(***************************************************************************)
THEOREM MallocInvariant == Spec => []MInv
  <1>1. Init => MInv
    BY InitMInv
  <1>2. MInv /\ [Next]_vars => MInv'
    BY NextMInv
  <1> QED BY <1>1, <1>2, PTL DEF Spec

(***************************************************************************)
(* No page and no block is ever given twice, whatever allocations, resizes *)
(* and frees run at once, and the bitmaps say exactly which pages are in   *)
(* use, also while groups of them are being set and cleared (malloc.c:87,  *)
(* palloc.c:88, 148).                                                      *)
(***************************************************************************)
THEOREM PagesStayAccounted == Spec => []PagesAccounted
  <1>1. MInv => PagesAccounted
    BY DEF MInv, RegsInv, PageInv, PagesAccounted
  <1> QED BY <1>1, MallocInvariant, PTL

(***************************************************************************)
(* The count of an arena is that of its blocks on the free list, no free   *)
(* list has a block twice or of another size, and an arena of which every  *)
(* block is free is gone (malloc.c:28, 233).                               *)
(***************************************************************************)
THEOREM ArenasStayRight == Spec => []ArenasRight
  <1>1. MInv => ArenasRight
    BY DEF MInv, BlockInv
  <1> QED BY <1>1, MallocInvariant, PTL

(***************************************************************************)
(* malloc() and palloc_get_multiple() return a null pointer only if there  *)
(* were too few free pages in a row when the scan began, although frees    *)
(* clear bits behind and before the scan (palloc.c:74).                    *)
(***************************************************************************)
THEOREM NullOnlyWhenFull == Spec => []NullMeansFull
  <1>1. MInv => NullMeansFull
    BY DEF MInv, MapInv, LackOK, NullMeansFull, At
  <1> QED BY <1>1, MallocInvariant, PTL

\* Who holds the lock of a pool scans or flips its bits and waits for nothing; if
\* nobody does, whoever waits for a descriptor's lock waits for one who goes on.
LEMMA LocksOrdered ==
  ASSUME MInv
  PROVE  SomeoneGoes
  <1> SUFFICES ASSUME NEW t \in Thread, ~At(t, "idle")
               PROVE  \E u \in Thread : MayGo(u)
    BY DEF SomeoneGoes
  <1>1. CASE \E u \in Thread : pc[u] \in Scanning
    BY <1>1 DEF MayGo, At, Scanning
  <1>2. CASE \A u \in Thread : pc[u] \notin Scanning
    <2>1. ASSUME NEW p \in Pool PROVE pool_lock[p] = NULL
      <3>1. pool_lock[p] \in Thread \union {NULL}
        BY DEF MInv, RegsInv, MallocTypeOK, MemoryTypeOK
      <3>2. \A u \in Thread : pool_lock[p] = u => pc[u] \in Scanning
        BY DEF MInv, RegsInv, LockOK
      <3> QED BY <1>2, <3>1, <3>2
    <2>2. ASSUME NEW u \in Thread, At(u, "pool_lock") PROVE MayGo(u)
      <3>1. pool[u] \in Pool
        BY DEF MInv, RegsInv, MallocTypeOK, RegsTypeOK
      <3> QED BY <2>1, <2>2, <3>1 DEF MayGo, At
    <2>3. CASE At(t, "desc_lock") \/ At(t, "free_lock")
      <3>1. req[t] \in Desc
        BY <2>3 DEF MInv, CallInv, ReqOK, At
      <3>2. CASE desc_lock[req[t]] = NULL
        BY <2>3, <3>2 DEF MayGo, At
      <3>3. CASE desc_lock[req[t]] # NULL
        <4>1. PICK u \in Thread : desc_lock[req[t]] = u
          BY <3>1, <3>3 DEF MInv, RegsInv, MallocTypeOK, MemoryTypeOK
        <4>2. pc[u] \in InDesc
          BY <3>1, <4>1 DEF MInv, RegsInv, LockOK
        <4> QED BY <2>2, <4>2 DEF MayGo, At, InDesc
      <3> QED BY <3>2, <3>3
    <2>4. CASE ~At(t, "desc_lock") /\ ~At(t, "free_lock")
      BY <2>2, <2>4 DEF MayGo, At
    <2> QED BY <2>3, <2>4
  <1> QED BY <1>1, <1>2

\* malloc() takes the lock of a descriptor before that of a pool and gives both back:
\* among the calls under way there is always one that waits for no lock.
THEOREM SomeoneAlwaysGoes == Spec => []SomeoneGoes
  <1> QED BY MallocInvariant, LocksOrdered, PTL
=============================================================================
