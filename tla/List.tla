-------------------------------- MODULE List --------------------------------
(***************************************************************************)
(* lib/kernel/list.c: doubly linked lists threaded through list_elem       *)
(* structures, as an algebra of heaps.  A heap is a record of the two      *)
(* pointer fields of every list_elem.  The two header elements of a list   *)
(* are elements too.  Every function of the file is an operator from the   *)
(* heap before the call to the heap after it, and follows the pointers     *)
(* the code follows.                                                       *)
(*                                                                         *)
(* The operators that loop are RECURSIVE: this module is for TLC.          *)
(***************************************************************************)
EXTENDS Naturals, Sequences

CONSTANTS
    Elem,     \* the list_elems that structures embed
    Lists,    \* the struct lists
    key,      \* what the comparison function of the callers compares
    NULL

HeadOf(l) == <<"head", l>>
TailOf(l) == <<"tail", l>>
Node == Elem \cup {HeadOf(l) : l \in Lists} \cup {TailOf(l) : l \in Lists}
Heap == [prev : [Node -> Node \cup {NULL}], next : [Node -> Node \cup {NULL}]]

\* The callers' list_less_func; header elements have no key.
Less(a, b) == key[a] < key[b]

-----------------------------------------------------------------------------
\* list_init() of every list; the fields of the other elements hold nothing.
EmptyHeap ==
    [prev |-> [n \in Node |-> IF \E l \in Lists : n = TailOf(l)
                              THEN HeadOf(n[2]) ELSE NULL],
     next |-> [n \in Node |-> IF \E l \in Lists : n = HeadOf(l)
                              THEN TailOf(n[2]) ELSE NULL]]

Begin(h, l) == h.next[HeadOf(l)]
IsEmpty(h, l) == Begin(h, l) = TailOf(l)

\* list_insert(before, elem): four pointer assignments.
Insert(h, before, elem) ==
    LET p == h.prev[before] IN
    [prev |-> [h.prev EXCEPT ![elem] = p, ![before] = elem],
     next |-> [h.next EXCEPT ![elem] = before, ![p] = elem]]

\* list_remove(elem): its own two pointers stay as they are.
Remove(h, elem) ==
    LET p == h.prev[elem]
        n == h.next[elem]
    IN [prev |-> [h.prev EXCEPT ![n] = p], next |-> [h.next EXCEPT ![p] = n]]

PushFront(h, l, elem) == Insert(h, Begin(h, l), elem)
PushBack(h, l, elem) == Insert(h, TailOf(l), elem)

\* list_splice(before, first, last): [first, last) moves before `before'.
Splice(h, before, first, last) ==
    IF first = last THEN h
    ELSE LET z == h.prev[last]
             p == h.prev[first]
             cut == [prev |-> [h.prev EXCEPT ![h.next[z]] = p],
                     next |-> [h.next EXCEPT ![p] = h.next[z]]]
             q == cut.prev[before]
         IN [prev |-> [cut.prev EXCEPT ![first] = q, ![before] = z],
             next |-> [cut.next EXCEPT ![z] = before, ![q] = first]]

\* list_reverse(): swap the fields of each interior element, then those of
\* the headers, then the fields by which the end elements point to headers.
RECURSIVE SwapFrom(_, _, _)
SwapFrom(h, n, end) ==
    IF n = end THEN h
    ELSE LET swapped == [prev |-> [h.prev EXCEPT ![n] = h.next[n]],
                         next |-> [h.next EXCEPT ![n] = h.prev[n]]]
         IN SwapFrom(swapped, swapped.prev[n], end)

\* Slip: the end elements keep the fields by which they pointed to headers.
ReverseKeepsEnds(h, l) ==
    IF IsEmpty(h, l) THEN h
    ELSE LET s == SwapFrom(h, Begin(h, l), TailOf(l))
         IN [prev |-> [s.prev EXCEPT ![TailOf(l)] = s.next[HeadOf(l)]],
             next |-> [s.next EXCEPT ![HeadOf(l)] = s.prev[TailOf(l)]]]

Reverse(h, l) ==
    IF IsEmpty(h, l) THEN h
    ELSE LET s == SwapFrom(h, Begin(h, l), TailOf(l))
             first == s.prev[TailOf(l)]
             last == s.next[HeadOf(l)]
         IN [prev |-> [s.prev EXCEPT ![TailOf(l)] = last,
                                     ![first] = s.next[last]],
             next |-> [s.next EXCEPT ![HeadOf(l)] = first,
                                     ![last] = s.prev[first]]]

-----------------------------------------------------------------------------
(* Sorting *)

\* find_end_of_run(a, b): the end of the non-descending run that starts at a.
RECURSIVE EndOfRun(_, _, _)
EndOfRun(h, a, b) ==
    LET n == h.next[a]
    IN IF n = b \/ Less(n, h.prev[n]) THEN n ELSE EndOfRun(h, n, b)

\* inplace_merge(a0, a1b0, b1): merge the runs [a0, a1b0) and [a1b0, b1).
RECURSIVE Merge(_, _, _, _)
Merge(h, a0, a1b0, b1) ==
    IF a0 = a1b0 \/ a1b0 = b1 THEN h
    ELSE IF ~Less(a1b0, a0)
         THEN Merge(h, h.next[a0], a1b0, b1)
         ELSE LET n == h.next[a1b0]
              IN Merge(Splice(h, a0, h.prev[n], n), a0, n, b1)

\* One pass of list_sort() from a0 on, `runs' output runs so far.
RECURSIVE SortPass(_, _, _, _)
SortPass(h, l, a0, runs) ==
    IF a0 = TailOf(l) THEN [heap |-> h, runs |-> runs]
    ELSE LET a1b0 == EndOfRun(h, a0, TailOf(l)) IN
         IF a1b0 = TailOf(l) THEN [heap |-> h, runs |-> runs + 1]
         ELSE LET b1 == EndOfRun(h, a1b0, TailOf(l))
              IN SortPass(Merge(h, a0, a1b0, b1), l, b1, runs + 1)

RECURSIVE Sort(_, _)
Sort(h, l) ==
    LET pass == SortPass(h, l, Begin(h, l), 0)
    IN IF pass.runs > 1 THEN Sort(pass.heap, l) ELSE pass.heap

-----------------------------------------------------------------------------
(* Searching *)

\* Slip: before the elements that are equal to it.
RECURSIVE FirstNotBelow(_, _, _, _)
FirstNotBelow(h, l, e, elem) ==
    IF e = TailOf(l) \/ ~Less(e, elem) THEN e
    ELSE FirstNotBelow(h, l, h.next[e], elem)

\* list_insert_ordered(): before the first element that elem is less than.
RECURSIVE FirstAbove(_, _, _, _)
FirstAbove(h, l, e, elem) ==
    IF e = TailOf(l) \/ Less(elem, e) THEN e
    ELSE FirstAbove(h, l, h.next[e], elem)

InsertOrdered(h, l, elem) == Insert(h, FirstAbove(h, l, Begin(h, l), elem), elem)

\* list_unique(l, dup): move adjacent equals to the list dup, if there is one.
RECURSIVE UniqueFrom(_, _, _, _)
UniqueFrom(h, l, dup, e) ==
    LET n == h.next[e] IN
    IF n = TailOf(l) THEN h
    ELSE IF Less(e, n) \/ Less(n, e) THEN UniqueFrom(h, l, dup, n)
    ELSE UniqueFrom(IF dup = NULL THEN Remove(h, n)
                                  ELSE PushBack(Remove(h, n), dup, n),
                    l, dup, e)

Unique(h, l, dup) ==
    IF IsEmpty(h, l) THEN h ELSE UniqueFrom(h, l, dup, Begin(h, l))

\* list_max() and list_min(): the earliest one; the tail of an empty list.
RECURSIVE MaxFrom(_, _, _, _)
MaxFrom(h, l, best, e) ==
    IF e = TailOf(l) THEN best
    ELSE MaxFrom(h, l, IF Less(best, e) THEN e ELSE best, h.next[e])

RECURSIVE MinFrom(_, _, _, _)
MinFrom(h, l, best, e) ==
    IF e = TailOf(l) THEN best
    ELSE MinFrom(h, l, IF Less(e, best) THEN e ELSE best, h.next[e])

MaxElem(h, l) ==
    IF IsEmpty(h, l) THEN TailOf(l)
    ELSE MaxFrom(h, l, Begin(h, l), h.next[Begin(h, l)])
MinElem(h, l) ==
    IF IsEmpty(h, l) THEN TailOf(l)
    ELSE MinFrom(h, l, Begin(h, l), h.next[Begin(h, l)])

-----------------------------------------------------------------------------
\* What a reader of the list sees: the elements from n, following `field', up
\* to `end', or up to the first null pointer or repetition.
RECURSIVE Walk(_, _, _, _)
Walk(field, n, end, seen) ==
    IF n \in {end, NULL} \/ n \in seen THEN <<>>
    ELSE <<n>> \o Walk(field, field[n], end, seen \cup {n})

Forward(h, l) == Walk(h.next, Begin(h, l), TailOf(l), {})
Backward(h, l) == Walk(h.prev, h.prev[TailOf(l)], HeadOf(l), {})
=============================================================================
