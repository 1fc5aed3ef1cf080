------------------------------- MODULE Malloc -------------------------------
(***************************************************************************)
(* threads/malloc.c on top of threads/palloc.c: several threads allocate,  *)
(* reallocate and free blocks and pages at once.  A small request goes to  *)
(* the descriptor of its size, which cuts pages ("arenas") into blocks; a  *)
(* big one takes pages of its own, the first of which begins with a        *)
(* struct arena too.  Other parts of the kernel take pages directly.       *)
(*                                                                         *)
(* What a thread does to its own memory is left out.  The callers' side of *)
(* the contract is in the guards: only what is allocated is freed or       *)
(* resized, once, and not by another thread during a realloc().            *)
(***************************************************************************)
EXTENDS Palloc, Sequences

CONSTANTS
    Desc,              \* the descriptors
    blocks_per_arena,
    MaxPages           \* bound: pages in one request

ASSUME BlocksFit == blocks_per_arena \in [Desc -> Nat \ {0}]
ASSUME OnePage == MaxPages \in Nat \ {0}

VARIABLES
    free_list,   \* of each descriptor
    desc_lock,   \* the holder of each descriptor's lock
    arena,       \* the struct arena at the start of each page, if there is one
    allocated,   \* what the callers have
    pc,          \* per thread: where it is
    req,         \* per thread: a descriptor, or "big" or "pages"
    piece,       \* per thread: what it is about to return or to free
    old          \* per thread: old_block of realloc()

mallocVars == <<free_list, desc_lock, arena, allocated>>
regs == <<req, piece, old>>
vars == <<mallocVars, pc, regs, poolVars, pageRegs>>

Block(page, i) == [kind |-> "block", page |-> page, n |-> i]
Piece == [kind : {"block", "big", "pages"}, page : Page, n : Nat]

\* Names of different kinds differ.
ASSUME NamesApart ==
    /\ Desc \cap {NULL, "junk", "big", "pages"} = {}
    /\ NULL \notin Thread \cup Page /\ NULL \notin Piece

Junk == [desc |-> "junk", free_cnt |-> 0]
BlocksOf(page, d) == {Block(page, i) : i \in 1..blocks_per_arena[d]}
Elems(seq) == {seq[i] : i \in DOMAIN seq}

At(t, label) == pc[t] = label
Goto(t, label) == pc' = [pc EXCEPT ![t] = label]

Init ==
    /\ PallocInit
    /\ free_list = [d \in Desc |-> <<>>]
    /\ desc_lock = [d \in Desc |-> NULL]
    /\ arena = [p \in Page |-> Junk]
    /\ allocated = {}
    /\ pc = [t \in Thread |-> "idle"]
    /\ req = [t \in Thread |-> NULL]
    /\ piece = [t \in Thread |-> NULL]
    /\ old = [t \in Thread |-> NULL]

-----------------------------------------------------------------------------
(* Calls *)

\* malloc(): a size that some descriptor serves, or one that takes n pages.
CallMalloc(t, o) ==
    /\ At(t, "idle")
    /\ old' = [old EXCEPT ![t] = o]
    /\ \/ \E d \in Desc :
             /\ req' = [req EXCEPT ![t] = d]
             /\ Goto(t, "desc_lock")
             /\ UNCHANGED <<poolVars, pageRegs>>
       \/ \E n \in 1..MaxPages :
             /\ req' = [req EXCEPT ![t] = "big"]
             /\ Goto(t, "pool_lock")
             /\ AskPages(t, "kernel", n)
    /\ UNCHANGED <<mallocVars, piece>>

\* Nobody else touches a block that is being resized.
Mine(x) == x \in allocated /\ \A u \in Thread : old[u] # x

\* realloc() to a size that is not zero: malloc(), then free() the old block.
CallRealloc(t) ==
    \E x \in allocated :
        /\ Mine(x) /\ x.kind # "pages"
        /\ CallMalloc(t, x)

\* palloc_get_multiple() by other parts of the kernel.
CallGetPages(t) ==
    /\ At(t, "idle")
    /\ \E p \in Pool, n \in 1..MaxPages : AskPages(t, p, n)
    /\ req' = [req EXCEPT ![t] = "pages"]
    /\ Goto(t, "pool_lock")
    /\ UNCHANGED <<mallocVars, piece, old>>

\* calloc(): the size it asks malloc() for, with words of w bits; NULL is returned
\* when the test for an overflow says that a * b does not fit.
calloc_size(a, b, w) ==
    LET size == (a * b) % 2^w
    IN IF size < a \/ size < b THEN NULL ELSE size

\* palloc_free_multiple(a, a->free_cnt) for a big block.
PagesToFree(x) == IF x.kind = "pages" THEN x.n ELSE arena[x.page].free_cnt

\* free(x) and palloc_free_multiple(x): x is not the caller's any more.  The
\* arena of x says what it is.
BeginFree(t, x) ==
    LET d == arena[x.page].desc
        n == PagesToFree(x)
    IN
    /\ allocated' = allocated \ {x}
    /\ old' = [old EXCEPT ![t] = NULL]
    /\ IF x.kind # "pages" /\ d # NULL
       THEN /\ req' = [req EXCEPT ![t] = d]
            /\ piece' = [piece EXCEPT ![t] = x]
            /\ Goto(t, "free_lock")
            /\ ForgetPages(t)
            /\ UNCHANGED <<arena, poolVars>>
       ELSE /\ arena' = [p \in Page |-> IF p \in x.page..(x.page + n - 1)
                                        THEN Junk ELSE arena[p]]
            /\ req' = [req EXCEPT ![t] = "pages"]
            /\ piece' = [piece EXCEPT ![t] = NULL]
            /\ GivePages(t, x.page, n)
            /\ Goto(t, "clear")
    /\ UNCHANGED <<free_list, desc_lock>>

CallFree(t) ==
    /\ At(t, "idle")
    /\ \E x \in allocated : Mine(x) /\ BeginFree(t, x)

-----------------------------------------------------------------------------
(* palloc_get_multiple() *)

PoolLock(t) ==
    /\ At(t, "pool_lock")
    /\ LockPool(t)
    /\ Goto(t, "scan")
    /\ UNCHANGED <<mallocVars, regs>>

Scan(t) ==
    /\ At(t, "scan")
    /\ ~ScanFound(t) /\ ~ScanIsOver(t)
    /\ ScanBit(t)
    /\ UNCHANGED <<mallocVars, pc, regs>>

ScanFail(t) ==
    /\ At(t, "scan")
    /\ ScanIsOver(t)
    /\ UnlockPool(t, FALSE)
    /\ Goto(t, "got")
    /\ UNCHANGED <<mallocVars, regs>>

ScanSucceed(t) ==
    /\ At(t, "scan")
    /\ ScanFound(t)
    /\ bit' = [bit EXCEPT ![t] = 0]
    /\ Goto(t, "flip")
    /\ UNCHANGED <<mallocVars, regs, poolVars, pool, cnt, idx, pages, lacked>>

Flip(t) ==
    /\ At(t, "flip")
    /\ IF bit[t] < cnt[t]
       THEN SetBit(t, TRUE) /\ UNCHANGED pc
       ELSE UnlockPool(t, TRUE) /\ Goto(t, "got")
    /\ UNCHANGED <<mallocVars, regs>>

-----------------------------------------------------------------------------
(* malloc() and free() *)

\* lock_acquire(&d->lock); a page is needed if the free list is empty.
MallocLock(t) ==
    LET d == req[t] IN
    /\ At(t, "desc_lock")
    /\ desc_lock[d] = NULL
    /\ desc_lock' = [desc_lock EXCEPT ![d] = t]
    /\ IF free_list[d] = <<>>
       THEN Goto(t, "pool_lock") /\ AskPages(t, "kernel", 1)
       ELSE Goto(t, "pop") /\ UNCHANGED <<poolVars, pageRegs>>
    /\ UNCHANGED <<free_list, arena, allocated, regs>>

\* The block is popped and leaves with the lock still to be released.
TakeFirst(t, blocks, header) ==
    LET d == req[t]
        x == Head(blocks)
    IN
    /\ free_list' = [free_list EXCEPT ![d] = Tail(blocks)]
    /\ arena' = [header EXCEPT ![x.page].free_cnt = @ - 1]
    /\ allocated' = allocated \cup {x}
    /\ piece' = [piece EXCEPT ![t] = x]
    /\ desc_lock' = [desc_lock EXCEPT ![d] = NULL]
    /\ Goto(t, "return")

\* The page is not needed any more to tell what the call returns.
KeepLacked(t) ==
    /\ pages' = [pages EXCEPT ![t] = NULL]
    /\ cnt' = [cnt EXCEPT ![t] = 0]
    /\ UNCHANGED <<poolVars, pool, idx, bit, lacked>>

MallocPop(t) ==
    /\ At(t, "pop")
    /\ TakeFirst(t, free_list[req[t]], arena)
    /\ UNCHANGED <<req, old, poolVars, pageRegs>>

\* Slip: the return without a page forgets the lock.
NewArenaKeepsLock(t) ==
    LET d == req[t]
        page == pages[t]
    IN
    /\ At(t, "got")
    /\ d \in Desc
    /\ IF page = NULL
       THEN /\ Goto(t, "return")
            /\ UNCHANGED <<free_list, desc_lock, arena, allocated, piece>>
       ELSE TakeFirst(t, [i \in 1..blocks_per_arena[d] |-> Block(page, i)],
                      [arena EXCEPT ![page] =
                          [desc |-> d, free_cnt |-> blocks_per_arena[d]]])
    /\ KeepLacked(t)
    /\ UNCHANGED <<req, old>>

\* palloc_get_page() returns to malloc(): a new arena, all of it free.
NewArena(t) ==
    LET d == req[t]
        page == pages[t]
    IN
    /\ At(t, "got")
    /\ d \in Desc
    /\ IF page = NULL
       THEN /\ desc_lock' = [desc_lock EXCEPT ![d] = NULL]
            /\ Goto(t, "return")
            /\ UNCHANGED <<free_list, arena, allocated, piece>>
       ELSE TakeFirst(t, [i \in 1..blocks_per_arena[d] |-> Block(page, i)],
                      [arena EXCEPT ![page] =
                          [desc |-> d, free_cnt |-> blocks_per_arena[d]]])
    /\ KeepLacked(t)
    /\ UNCHANGED <<req, old>>

\* palloc_get_multiple() returns to malloc() or to another caller.
GotPages(t) ==
    LET x == [kind |-> req[t], page |-> pages[t], n |-> cnt[t]] IN
    /\ At(t, "got")
    /\ req[t] \notin Desc
    /\ IF pages[t] = NULL
       THEN UNCHANGED <<allocated, piece, arena>>
       ELSE /\ allocated' = allocated \cup {x}
            /\ piece' = [piece EXCEPT ![t] = x]
            /\ arena' = IF req[t] = "big"
                        THEN [arena EXCEPT ![x.page] =
                                 [desc |-> NULL, free_cnt |-> cnt[t]]]
                        ELSE arena
    /\ Goto(t, "return")
    /\ KeepLacked(t)
    /\ UNCHANGED <<free_list, desc_lock, req, old>>

\* Back in realloc() with a new block, the old one is freed; or the call ends.
Return(t) ==
    /\ At(t, "return")
    /\ IF old[t] # NULL /\ piece[t] # NULL
       THEN BeginFree(t, old[t])
       ELSE /\ Goto(t, "idle")
            /\ ForgetPages(t)
            /\ req' = [req EXCEPT ![t] = NULL]
            /\ piece' = [piece EXCEPT ![t] = NULL]
            /\ old' = [old EXCEPT ![t] = NULL]
            /\ UNCHANGED <<mallocVars, poolVars>>

FreeLock(t) ==
    /\ At(t, "free_lock")
    /\ desc_lock[req[t]] = NULL
    /\ desc_lock' = [desc_lock EXCEPT ![req[t]] = t]
    /\ Goto(t, "push")
    /\ UNCHANGED <<free_list, arena, allocated, regs, poolVars, pageRegs>>

\* The call of free() ends, d->lock released if it was taken.
EndFree(t) ==
    /\ desc_lock' = [d \in Desc |-> IF d = req[t] THEN NULL ELSE desc_lock[d]]
    /\ Goto(t, "idle")
    /\ req' = [req EXCEPT ![t] = NULL]
    /\ piece' = [piece EXCEPT ![t] = NULL]
    /\ UNCHANGED old

\* list_remove() of each block of an arena: the others keep their order.
Without(blocks, gone) ==
    LET kept == {i \in DOMAIN blocks : blocks[i] \notin gone}
        Rank(i) == Cardinality({j \in kept : j <= i})
    IN [k \in 1..Cardinality(kept) |-> blocks[CHOOSE i \in kept : Rank(i) = k]]

\* Slip: one block too late.
UnusedTooLate(free_cnt, d) == free_cnt > blocks_per_arena[d]

\* ++a->free_cnt >= d->blocks_per_arena.
Unused(free_cnt, d) == free_cnt >= blocks_per_arena[d]

\* The block goes to the front of the free list, and the arena of a block
\* that was its last one in use back to the page allocator.
FreePush(t) ==
    LET d == req[t]
        page == piece[t].page
        blocks == <<piece[t]>> \o free_list[d]
        free_cnt == arena[page].free_cnt + 1
    IN
    /\ At(t, "push")
    /\ IF Unused(free_cnt, d)
       THEN /\ free_list' = [free_list EXCEPT ![d] = Without(blocks, BlocksOf(page, d))]
            /\ arena' = [arena EXCEPT ![page] = Junk]
            /\ GivePages(t, page, 1)
            /\ Goto(t, "clear")
            /\ UNCHANGED <<desc_lock, regs>>
       ELSE /\ free_list' = [free_list EXCEPT ![d] = blocks]
            /\ arena' = [arena EXCEPT ![page].free_cnt = free_cnt]
            /\ EndFree(t)
            /\ UNCHANGED <<poolVars, pageRegs>>
    /\ UNCHANGED allocated

\* palloc_free_multiple(): bitmap_set_multiple(), then back to free().
Clear(t) ==
    /\ At(t, "clear")
    /\ IF bit[t] < cnt[t]
       THEN SetBit(t, FALSE) /\ UNCHANGED <<mallocVars, pc, regs>>
       ELSE /\ EndFree(t)
            /\ ForgetPages(t)
            /\ UNCHANGED <<free_list, arena, allocated, poolVars>>

Step(t) ==
    \/ PoolLock(t) \/ Scan(t) \/ ScanFail(t) \/ ScanSucceed(t) \/ Flip(t)
    \/ MallocLock(t) \/ MallocPop(t) \/ NewArena(t) \/ GotPages(t)
    \/ Return(t) \/ FreeLock(t) \/ FreePush(t) \/ Clear(t)

Next ==
    \E t \in Thread :
        \/ CallMalloc(t, NULL) \/ CallRealloc(t) \/ CallGetPages(t)
        \/ CallFree(t)
        \/ Step(t)

Spec == Init /\ [][Next]_vars

-----------------------------------------------------------------------------
(* Who has which page *)

PagesOf(x) == IF x.kind = "block" THEN {} ELSE x.page..(x.page + x.n - 1)
ArenaPages == {page \in Page : arena[page].desc \in Desc}

\* Pages on their way to or from the callers.
InTransit(t) ==
    LET first == Base(pool[t]) + idx[t] IN
    CASE At(t, "flip")  -> first..(first + bit[t] - 1)
      [] At(t, "clear") -> (first + bit[t])..(first + cnt[t] - 1)
      [] At(t, "got") /\ pages[t] # NULL -> pages[t]..(pages[t] + cnt[t] - 1)
      [] OTHER -> {}

\* Blocks that free() has taken back but not yet put on the free list.
Leaving == {piece[t] : t \in {u \in Thread : pc[u] \in {"free_lock", "push"}}}

MemoryTypeOK ==
    /\ used_map \in [Pool -> UNION {[0..(Size(p) - 1) -> BOOLEAN] : p \in Pool}]
    /\ \A p \in Pool : used_map[p] \in [0..(Size(p) - 1) -> BOOLEAN]
    /\ pool_lock \in [Pool -> Thread \cup {NULL}]
    /\ desc_lock \in [Desc -> Thread \cup {NULL}]
    /\ free_list \in [Desc -> Seq(Piece)]
    /\ arena \in [Page -> [desc : Desc \cup {NULL, "junk"}, free_cnt : Nat]]
    /\ allocated \subseteq Piece

RegsTypeOK ==
    /\ pc \in [Thread -> {"idle", "desc_lock", "pop", "pool_lock", "scan", "flip",
                          "got", "return", "free_lock", "push", "clear"}]
    /\ req \in [Thread -> Desc \cup {NULL, "big", "pages"}]
    /\ piece \in [Thread -> Piece \cup {NULL}]
    /\ old \in [Thread -> Piece \cup {NULL}]
    /\ pool \in [Thread -> Pool]
    /\ cnt \in [Thread -> 0..MaxPages]
    /\ idx \in [Thread -> Nat]
    /\ bit \in [Thread -> Nat]
    /\ pages \in [Thread -> Page \cup {NULL}]
    /\ lacked \in [Thread -> BOOLEAN]
    /\ \A t \in Thread : idx[t] <= Size(pool[t]) /\ bit[t] <= cnt[t]

MallocTypeOK == MemoryTypeOK /\ RegsTypeOK

(***************************************************************************)
(* Memory is never given twice: what two callers have does not overlap, no *)
(* caller has a page that is an arena or that is being handed over, and no *)
(* block that is allocated is on a free list (malloc.c:87, palloc.c:71).   *)
(***************************************************************************)
NothingTwice ==
    /\ \A x \in allocated :
          /\ \A y \in allocated \ {x} : PagesOf(x) \cap PagesOf(y) = {}
          /\ PagesOf(x) \cap ArenaPages = {}
          /\ x.kind = "block" =>
                /\ x.page \in ArenaPages
                /\ x \in BlocksOf(x.page, arena[x.page].desc)
                /\ \A d \in Desc : x \notin Elems(free_list[d])
    /\ \A t \in Thread :
          /\ InTransit(t) \cap ArenaPages = {}
          /\ \A x \in allocated : InTransit(t) \cap PagesOf(x) = {}
          /\ \A u \in Thread \ {t} : InTransit(t) \cap InTransit(u) = {}

(***************************************************************************)
(* The bit of a page is set exactly while the page is somebody's, so no    *)
(* page is lost, not even when several are given and taken back at once    *)
(* (palloc.c:88, 148).                                                     *)
(***************************************************************************)
UsedMapRight ==
    UNION {{Base(p) + i : i \in {j \in DOMAIN used_map[p] : used_map[p][j]}} :
              p \in Pool}
    = ArenaPages \cup (UNION {PagesOf(x) : x \in allocated})
                 \cup (UNION {InTransit(t) : t \in Thread})

(***************************************************************************)
(* Every page is accounted for once: given to one caller at most, and to   *)
(* nobody only when its bit is clear.                                      *)
(***************************************************************************)
PagesAccounted == MallocTypeOK /\ NothingTwice /\ UsedMapRight

(***************************************************************************)
(* Every block of an arena is in use, on its descriptor's free list once,  *)
(* or with a free() that waits for the lock; free_cnt counts those on the  *)
(* list; and an arena of which no block is in use does not exist           *)
(* (malloc.c:28: "we remove all of the arena's blocks from the free list   *)
(* and give the arena back").  The header of a big block is intact.        *)
(***************************************************************************)
ArenasRight ==
    /\ \A page \in ArenaPages :
          LET d == arena[page].desc
              free == BlocksOf(page, d) \cap Elems(free_list[d])
          IN /\ arena[page].free_cnt = Cardinality(free)
             /\ arena[page].free_cnt < blocks_per_arena[d]
             /\ BlocksOf(page, d) \ free \subseteq allocated \cup Leaving
    /\ \A d \in Desc :
          /\ Cardinality(Elems(free_list[d])) = Len(free_list[d])
          /\ \A x \in Elems(free_list[d]) : arena[x.page].desc = d
    /\ \A x \in allocated : x.kind = "big" =>
          arena[x.page] = [desc |-> NULL, free_cnt |-> x.n]

(***************************************************************************)
(* palloc.c:74: a null pointer is returned "If too few pages are           *)
(* available": when the call got the pool's lock no group of free pages    *)
(* was large enough, although pages may be freed all through its scan.     *)
(***************************************************************************)
NullMeansFull ==
    \A t \in Thread : At(t, "return") /\ piece[t] = NULL => lacked[t]

\* The next step of t waits for no lock that somebody has.
MayGo(t) ==
    /\ ~At(t, "idle")
    /\ At(t, "desc_lock") \/ At(t, "free_lock") => desc_lock[req[t]] = NULL
    /\ At(t, "pool_lock") => pool_lock[pool[t]] = NULL

(***************************************************************************)
(* Threads that wait for each other's locks are never all there is:        *)
(* malloc() asks for the pool's lock while it holds a descriptor's, and    *)
(* releases both whatever the outcome (malloc.c:122, 133, 152, 255).       *)
(***************************************************************************)
SomeoneGoes ==
    (\E t \in Thread : ~At(t, "idle")) => \E t \in Thread : MayGo(t)

\* And nothing but a lock holds a call up.
NobodyStuck == SomeoneGoes /\ \A t \in Thread : MayGo(t) => ENABLED Step(t)
=============================================================================
