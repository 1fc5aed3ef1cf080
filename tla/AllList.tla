------------------------------ MODULE AllList -------------------------------
(***************************************************************************)
(* all_list of threads/thread.c, the list behind thread_foreach().         *)
(* thread_create() runs init_thread() with interrupts on, so the four      *)
(* pointer assignments by which list_push_back() links the new thread are  *)
(* four steps here, and the timer may switch threads between them.         *)
(* thread_exit() unlinks its thread with interrupts off.                   *)
(*                                                                         *)
(* Elem is the set of pages for threads.  A state is a record of the heap, *)
(* of how far each page is in a thread's life, of the thread that runs     *)
(* thread_create() for it, and of how often a thread began to enter or     *)
(* left the list while another was in the middle of entering it;           *)
(* each operator gives the states that its step may lead to.  Scheduling   *)
(* is left open: any thread may be the next to run.  The idle thread,      *)
(* which is linked before the others exist and never leaves, is left out.  *)
(***************************************************************************)
EXTENDS List

CONSTANTS
    Main,      \* initial_thread
    all_list   \* the list

Tl == TailOf(all_list)

Init == [heap |-> PushBack(EmptyHeap, all_list, Main),
         stage |-> [t \in Elem |-> IF t = Main THEN "alive" ELSE "free"],
         creator |-> [t \in Elem |-> NULL],
         overlaps |-> 0]

Busy(s, t) == \E u \in Elem : s.creator[u] = t
Inserting(s) == {u \in Elem : s.stage[u] \notin {"free", "alive"}}
Counted(s) == IF Inserting(s) = {} THEN s.overlaps ELSE s.overlaps + 1

\* thread_create() gets page u; init_thread() clears it.
Create(s) ==
    {[heap |-> [prev |-> [s.heap.prev EXCEPT ![u] = NULL],
                next |-> [s.heap.next EXCEPT ![u] = NULL]],
      stage |-> [s.stage EXCEPT ![u] = "set_prev"],
      creator |-> [s.creator EXCEPT ![u] = t],
      overlaps |-> Counted(s)] :
        t \in {v \in Elem : s.stage[v] = "alive" /\ ~Busy(s, v)},
        u \in {v \in Elem : s.stage[v] = "free"}}

\* list_insert(before, elem), with before the tail, one assignment a step.
SetPrev(s) ==
    {[s EXCEPT !.heap.prev[u] = s.heap.prev[Tl], !.stage[u] = "set_next"] :
        u \in {v \in Elem : s.stage[v] = "set_prev"}}

SetNext(s) ==
    {[s EXCEPT !.heap.next[u] = Tl, !.stage[u] = "link_prev"] :
        u \in {v \in Elem : s.stage[v] = "set_next"}}

LinkPrev(s) ==
    {[s EXCEPT !.heap.next[s.heap.prev[Tl]] = u, !.stage[u] = "link_tail"] :
        u \in {v \in Elem : s.stage[v] = "link_prev"}}

\* The last assignment; then thread_unblock() lets the thread run.
LinkTail(s) ==
    {[s EXCEPT !.heap.prev[Tl] = u, !.stage[u] = "alive", !.creator[u] = NULL] :
        u \in {v \in Elem : s.stage[v] = "link_tail"}}

\* thread_exit(); once another thread runs the page is free and overwritten.
Exit(s) ==
    {LET left == Remove(s.heap, t)
     IN [s EXCEPT !.heap = [prev |-> [left.prev EXCEPT ![t] = NULL],
                            next |-> [left.next EXCEPT ![t] = NULL]],
                  !.stage[t] = "free",
                  !.overlaps = Counted(s)] :
        t \in {v \in Elem \ {Main} : s.stage[v] = "alive" /\ ~Busy(s, v)}}

Steps(s) == Create(s) \cup SetPrev(s) \cup SetNext(s)
                \cup LinkPrev(s) \cup LinkTail(s) \cup Exit(s)

-----------------------------------------------------------------------------
\* The threads that the walk of thread_foreach() does not meet.
Missed(s) ==
    LET met == Forward(s.heap, all_list)
    IN {t \in Elem : s.stage[t] = "alive" /\ \A i \in DOMAIN met : met[i] # t}
=============================================================================
