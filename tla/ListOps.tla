------------------------------ MODULE ListOps -------------------------------
(***************************************************************************)
(* Any sequence of legal calls of lib/kernel/list.c.  The callers' side of *)
(* the contract, which the functions cannot check, is in the guards: an    *)
(* element is inserted only while it is in no list, removed only while it  *)
(* is in one, and the target of a splice is not inside the spliced range.  *)
(***************************************************************************)
EXTENDS List

VARIABLES
    heap,
    call     \* the function called last

vars == <<heap, call>>

Interior(l) == {Forward(heap, l)[i] : i \in DOMAIN Forward(heap, l)}
InNoList == Elem \ UNION {Interior(l) : l \in Lists}

\* The elements of l from e on, and its tail.
Rest(l, e) == {e, TailOf(l)} \cup
              {x \in Interior(l) : \E i, j \in DOMAIN Forward(heap, l) :
                  i < j /\ Forward(heap, l)[i] = e /\ Forward(heap, l)[j] = x}

Init == heap = EmptyHeap /\ call = "init"

CallInsert(before, elem) == call' = "insert" /\ heap' = Insert(heap, before, elem)

CallPush(l, elem) ==
    \/ call' = "push_front" /\ heap' = PushFront(heap, l, elem)
    \/ call' = "push_back" /\ heap' = PushBack(heap, l, elem)

CallInsertOrdered(l, elem) ==
    /\ \A a \in Interior(l) : heap.next[a] # TailOf(l) => ~Less(heap.next[a], a)
    /\ call' = "insert_ordered"
    /\ heap' = InsertOrdered(heap, l, elem)

CallRemove(elem) == call' = "remove" /\ heap' = Remove(heap, elem)

CallPop(l) ==
    /\ ~IsEmpty(heap, l)
    /\ \/ call' = "pop_front" /\ heap' = Remove(heap, Begin(heap, l))
       \/ call' = "pop_back" /\ heap' = Remove(heap, heap.prev[TailOf(l)])

CallSplice(before, first, last) ==
    /\ call' = "splice"
    /\ heap' = Splice(heap, before, first, last)

CallReverse(l) == call' = "reverse" /\ heap' = Reverse(heap, l)
CallSort(l) == call' = "sort" /\ heap' = Sort(heap, l)
CallUnique(l, dup) == call' = "unique" /\ heap' = Unique(heap, l, dup)

Next ==
    \E l \in Lists :
       \/ \E elem \in InNoList :
             \/ \E before \in Interior(l) \cup {TailOf(l)} :
                   CallInsert(before, elem)
             \/ CallPush(l, elem)
             \/ CallInsertOrdered(l, elem)
       \/ \E elem \in Interior(l) : CallRemove(elem)
       \/ CallPop(l)
       \/ \E first \in Interior(l) : \E last \in Rest(l, first) :
             \E m \in Lists :
                \E before \in Interior(m) \cup {TailOf(m)} :
                   /\ before \notin Rest(l, first) \ Rest(l, last)
                   /\ CallSplice(before, first, last)
       \/ CallReverse(l)
       \/ CallSort(l)
       \/ \E dup \in (Lists \ {l}) \cup {NULL} : CallUnique(l, dup)

Spec == Init /\ [][Next]_vars

-----------------------------------------------------------------------------
(***************************************************************************)
(* The two directions of every list agree, and no element is in two lists: *)
(* what the pointer surgery of list_splice() and list_reverse() must keep. *)
(***************************************************************************)
DirectionsAgree ==
    \A l \in Lists :
       LET f == Forward(heap, l)
           b == Backward(heap, l)
       IN /\ Len(f) = Len(b)
          /\ \A i \in DOMAIN f : f[i] \in Elem /\ b[Len(f) + 1 - i] = f[i]
          /\ \A m \in Lists \ {l} : Interior(l) \cap Interior(m) = {}

S == INSTANCE ListSeq WITH contents <- [l \in Lists |-> Forward(heap, l)]

(***************************************************************************)
(* Read forwards, the heap goes through the sequences that list.h          *)
(* promises; list_sort() is the stable sort.                               *)
(***************************************************************************)
ImplementsListSeq == S!Spec
=============================================================================
