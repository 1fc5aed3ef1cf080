------------------------------ MODULE ListSeq -------------------------------
(***************************************************************************)
(* What lib/kernel/list.h promises: a list is a sequence of elements, and  *)
(* each function is the sequence operation that its comment describes.     *)
(***************************************************************************)
EXTENDS Naturals, Sequences, FiniteSets

CONSTANTS Elem, Lists, key, NULL

VARIABLES
    contents,  \* the sequence of elements of each list
    call       \* the function called last

Elems(seq) == {seq[i] : i \in DOMAIN seq}
Free == Elem \ UNION {Elems(contents[l]) : l \in Lists}

\* seq with x in position i; seq without its positions i to j - 1.
InsertedAt(seq, i, x) == SubSeq(seq, 1, i - 1) \o x \o SubSeq(seq, i, Len(seq))
Without(seq, i, j) == SubSeq(seq, 1, i - 1) \o SubSeq(seq, j, Len(seq))
Reversed(seq) == [i \in DOMAIN seq |-> seq[Len(seq) + 1 - i]]

\* The stable rearrangement of seq in the order of its keys.
Sorted(seq) ==
    LET Before(j) == {k \in DOMAIN seq :
                        \/ key[seq[k]] < key[seq[j]]
                        \/ key[seq[k]] = key[seq[j]] /\ k < j}
    IN [i \in DOMAIN seq |->
          seq[CHOOSE j \in DOMAIN seq : Cardinality(Before(j)) = i - 1]]

IsSorted(seq) == Sorted(seq) = seq

\* The elements of seq that are equal to the one before them, and the others.
Indices(seq, Test(_)) ==
    LET chosen == SelectSeq([i \in DOMAIN seq |-> i], Test)
    IN [n \in DOMAIN chosen |-> seq[chosen[n]]]
Repeats(seq) == Indices(seq, LAMBDA i : i > 1 /\ key[seq[i]] = key[seq[i - 1]])
Firsts(seq) == Indices(seq, LAMBDA i : i = 1 \/ key[seq[i]] # key[seq[i - 1]])

-----------------------------------------------------------------------------
Init == contents = [l \in Lists |-> <<>>] /\ call = "init"

InsertAt(l, i, x) == contents' = [contents EXCEPT ![l] = InsertedAt(@, i, <<x>>)]

Insert(l, x) ==
    \/ call' = "insert" /\ \E i \in 1..(Len(contents[l]) + 1) : InsertAt(l, i, x)
    \/ call' = "push_front" /\ InsertAt(l, 1, x)
    \/ call' = "push_back" /\ InsertAt(l, Len(contents[l]) + 1, x)
    \/ /\ call' = "insert_ordered"
       /\ IsSorted(contents[l])
       /\ InsertAt(l, 1 + Cardinality({i \in DOMAIN contents[l] :
                                         key[contents[l][i]] <= key[x]}), x)

Remove(l, i) ==
    /\ \/ call' = "remove"
       \/ call' = "pop_front" /\ i = 1
       \/ call' = "pop_back" /\ i = Len(contents[l])
    /\ contents' = [contents EXCEPT ![l] = Without(@, i, i + 1)]

\* [i, j) of list m goes before position k of list l.
Splice(l, k, m, i, j) ==
    /\ call' = "splice"
    /\ l = m => k <= i \/ k >= j
    /\ LET part == SubSeq(contents[m], i, j - 1)
           rest == [contents EXCEPT ![m] = Without(@, i, j)]
           at == IF l = m /\ k >= j THEN k - (j - i) ELSE k
       IN contents' = [rest EXCEPT ![l] = InsertedAt(@, at, part)]

Reverse(l) ==
    call' = "reverse" /\ contents' = [contents EXCEPT ![l] = Reversed(@)]

Sort(l) == call' = "sort" /\ contents' = [contents EXCEPT ![l] = Sorted(@)]

Unique(l, dup) ==
    /\ call' = "unique"
    /\ contents' = [m \in Lists |->
                      CASE m = l   -> Firsts(contents[l])
                        [] m = dup -> contents[dup] \o Repeats(contents[l])
                        [] OTHER   -> contents[m]]

Next ==
    \E l \in Lists :
       \/ \E x \in Free : Insert(l, x)
       \/ \E i \in DOMAIN contents[l] : Remove(l, i)
       \/ \E m \in Lists :
             \E i \in DOMAIN contents[m], k \in 1..(Len(contents[l]) + 1) :
                \E j \in i..(Len(contents[m]) + 1) : Splice(l, k, m, i, j)
       \/ Reverse(l)
       \/ Sort(l)
       \/ \E dup \in (Lists \ {l}) \cup {NULL} : Unique(l, dup)

vars == <<contents, call>>
Spec == Init /\ [][Next]_vars
=============================================================================
