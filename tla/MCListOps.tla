----------------------------- MODULE MCListOps ------------------------------
(* Small instances for ListOps: elements with equal keys among them; and   *)
(* the rest of the library on all inputs of a small size.                  *)
EXTENDS ListOps, TLC, Integers, FiniteSets

CONSTANTS e1, e2, e3, e4, e5, list1, list2

ThreeElems == {e1, e2, e3}
TwoLists == {list1, list2}

\* Two equal elements and one above them.
Keys3 == (e1 :> 1) @@ (e2 :> 1) @@ (e3 :> 2)

(***************************************************************************)
(* list_sort() is the stable sort of every list of up to five elements,    *)
(* long enough for its second pass to merge runs of different lengths.     *)
(***************************************************************************)
FiveElems == {e1, e2, e3, e4, e5}
Keys5 == Keys3 @@ (e4 :> 2) @@ (e5 :> 3)
L == INSTANCE List WITH Elem <- FiveElems, key <- Keys5
SX == INSTANCE SequencesExt
Q == INSTANCE ListSeq WITH Elem <- FiveElems, key <- Keys5, contents <- <<>>

LaidOut(seq) == SX!FoldLeft(LAMBDA h, e : L!PushBack(h, list1, e), L!EmptyHeap, seq)

ASSUME SortIsStable ==
    \A seq \in SX!SeqOf(FiveElems, 5) :
        SX!IsInjective(seq) =>
            L!Forward(L!Sort(LaidOut(seq), list1), list1) = Q!Sorted(seq)

(***************************************************************************)
(* list_max() and list_min() give the earliest largest and smallest        *)
(* element, and the tail of an empty list (list.c:498, 517).               *)
(***************************************************************************)
Earliest(seq, e, Above(_, _)) ==
    \E i \in DOMAIN seq :
        /\ seq[i] = e
        /\ \A j \in DOMAIN seq : ~Above(seq[j], e)
        /\ \A j \in 1..(i - 1) : Above(e, seq[j])

ASSUME ExtremesAreEarliest ==
    /\ L!MaxElem(L!EmptyHeap, list1) = L!TailOf(list1)
    /\ L!MinElem(L!EmptyHeap, list1) = L!TailOf(list1)
    /\ \A seq \in SX!SeqOf(FiveElems, 4) \ {<<>>} :
          SX!IsInjective(seq) =>
            /\ Earliest(seq, L!MaxElem(LaidOut(seq), list1),
                        LAMBDA a, b : Keys5[a] > Keys5[b])
            /\ Earliest(seq, L!MinElem(LaidOut(seq), list1),
                        LAMBDA a, b : Keys5[a] < Keys5[b])

(***************************************************************************)
(* "Invoke function 'func' on all threads" (thread.c:325): the walk of     *)
(* thread_foreach() misses no thread as long as no two insertions, and no  *)
(* insertion and removal, overlap; nothing in the code keeps them apart,   *)
(* and then it may miss one for good.  Four threads and one overlap.         *)
(***************************************************************************)
AL == INSTANCE AllList WITH Elem <- {e1, e2, e3, e4}, Lists <- {list1}, key <- Keys5,
                            Main <- e1, all_list <- list1
Settled(s) == AL!Inserting(s) = {}
RECURSIVE Reached(_, _)
Reached(seen, new) ==
    LET next == {s \in UNION {AL!Steps(s) : s \in new} : s.overlaps <= 1}
    IN IF new = {} THEN seen ELSE Reached(seen \cup new, next \ (seen \cup new))

ASSUME ForeachMeetsAll ==
    LET states == Reached({}, {AL!Init})
    IN /\ \A s \in states : s.overlaps = 0 => AL!Missed(s) = {}
       /\ \E s \in states : Settled(s) /\ AL!Missed(s) # {}

(***************************************************************************)
(* lib/string.c on every memory of a few bytes: 1 and 2 are characters, 2  *)
(* the delimiter, and 0 ends a string.                                     *)
(***************************************************************************)
T == INSTANCE Strings
F == INSTANCE Format WITH NULL <- e1
Memory(text) == [a \in 0..(Len(text) - 1) |-> text[a + 1]]
Texts(n) == UNION {[1..k -> {1, 2}] : k \in 0..n}
StringAt(mem, s) == [k \in 1..T!strlen(mem, s) |-> mem[s + k - 1]]

\* memmove() copies blocks that overlap, and memcpy() those that do not; the pointer
\* memmove() returns is not DST when it copies forwards (string.c:45).
ASSUME BlocksMoved == \A dst \in 0..4, src \in 0..4, size \in 0..3 :
    LET mem == [a \in 0..7 |-> a + 1]
        moved == [a \in 0..7 |-> IF a \in dst..(dst + size - 1) THEN mem[src + (a - dst)] ELSE mem[a]]
    IN /\ T!memmove(mem, dst, src, size).mem = moved
       /\ T!memmove(mem, dst, src, size).ret = dst <=> dst >= src \/ size = 0
       /\ src <= dst /\ dst < src + size => T!memcpy(mem, dst, src, size).mem # moved \/ dst = src
       /\ dst + size <= src \/ src + size <= dst => T!memcpy(mem, dst, src, size).mem = moved
       /\ \A a \in 0..4 : T!memset(mem, dst, 256 + 9, size).mem[a] = 9 <=> a \in dst..(dst + size - 1)

\* The searches against each other: what one finds and where, the others agree on.
ASSUME SearchesAgree == \A hay \in Texts(4), needle \in Texts(2) :
    LET mem == Memory(hay \o <<0>> \o needle \o <<0>>)
        n == Len(hay) + 1
        at == T!strstr(mem, 0, n)
        occurs == {i \in 0..(Len(hay) - Len(needle)) : SubSeq(hay, i + 1, i + Len(needle)) = needle}
    IN /\ at = (IF occurs = {} THEN -1 ELSE CHOOSE i \in occurs : \A j \in occurs : i <= j)
       /\ T!strcmp(mem, 0, n) = 0 <=> hay = needle
       /\ T!strcmp(mem, 0, n) = -T!strcmp(mem, n, 0)
       /\ T!strcspn(mem, 0, n) < Len(hay) <=> T!strpbrk(mem, 0, n) = T!strcspn(mem, 0, n)
       /\ T!strspn(mem, 0, n) = Len(hay) <=> \A k \in DOMAIN hay : hay[k] \in {needle[i] : i \in DOMAIN needle}
       /\ T!strnlen(mem, 0, 2) = (IF Len(hay) < 2 THEN Len(hay) ELSE 2)
       /\ \A c \in {1, 2} : /\ T!strchr(mem, 0, c) = T!memchr(mem, 0, c, Len(hay))
                            /\ T!strrchr(mem, 0, c) >= T!strchr(mem, 0, c)
       /\ T!strchr(mem, 0, 0) = Len(hay) /\ T!strrchr(mem, 0, 0) = -1

\* Every token strtok_r() finds, one after the other, is a longest run of characters
\* that are no delimiter.
Tokens(text) ==
    LET Next1(t, k) == LET r == T!strtok_r(t.mem, IF k = 1 THEN 0 ELSE -1, Len(text) + 1, t.save_ptr)
                       IN [mem |-> r.mem, save_ptr |-> r.save_ptr,
                           found |-> IF r.ret = -1 THEN t.found ELSE Append(t.found, StringAt(r.mem, r.ret))]
    IN SX!FoldLeft(Next1, [mem |-> Memory(text \o <<0, 2, 0>>), save_ptr |-> -1, found |-> <<>>],
                   [k \in 1..4 |-> k]).found
Runs(text) == {<<i, j>> \in (DOMAIN text) \X (DOMAIN text) :
                  /\ i <= j /\ \A k \in i..j : text[k] = 1
                  /\ i > 1 => text[i - 1] = 2
                  /\ j < Len(text) => text[j + 1] = 2}
ASSUME TokensFound == \A text \in Texts(6) :
    /\ Len(Tokens(text)) = Cardinality(Runs(text))
    /\ \A k \in DOMAIN Tokens(text) : <<>> # Tokens(text)[k]
    /\ SX!FlattenSeq(Tokens(text)) = SelectSeq(text, LAMBDA c : c = 1)

\* strlcpy() and strlcat() write nothing at or after dst + size, end what they wrote
\* and return the length there would have been.
ASSUME CopiesFit == \A src \in Texts(3), old \in Texts(2), size \in 0..4 :
    LET mem == Memory(old \o <<0, 9, 9, 9, 9>> \o src \o <<0>>)
        from == Len(old) + 5
        copied == T!strlcpy(mem, 0, from, size)  joined == T!strlcat(mem, 0, from, size)
    IN /\ \A r \in {copied, joined} : \A a \in size..(from - 1) : r.mem[a] = mem[a]
       /\ copied.ret = Len(src) /\ joined.ret = Len(old) + Len(src)
       /\ copied.ret < size => StringAt(copied.mem, 0) = src
       /\ joined.ret < size => StringAt(joined.mem, 0) = old \o src
       /\ size > 0 /\ copied.ret >= size => T!strlen(copied.mem, 0) = size - 1

\* atoi() reads back what printf("%d") writes, to both ends of the range.
ASSUME NumbersReadBack == \A v \in -32..31, before \in {<<>>, <<" ">>, <<"\t", " ">>} :
    LET text == F!FormatInteger(IF v < 0 THEN -v ELSE v, TRUE, v < 0, F!base_d, F!ParseConversion({"+"}, 0, -1, "INT"))
    IN T!atoi(before \o text \o <<"x">>, 6) = v

(***************************************************************************)
(* sort() and binary_search() on every array of up to five numbers.        *)
(***************************************************************************)
Order == [a, b \in 0..4 |-> a - b]
ASSUME ArraysSorted == \A array \in SX!SeqOf({1, 2, 3}, 6) :
    LET sorted == T!sort(array, Order)
    IN /\ \A v \in {1, 2, 3} : Cardinality({k \in DOMAIN array : array[k] = v}) = Cardinality({k \in DOMAIN sorted : sorted[k] = v})
       /\ \A k \in 2..Len(array) : sorted[k - 1] <= sorted[k]
       /\ \A wanted \in 0..4 : LET at == T!binary_search(wanted, sorted, Order)
                            IN IF at = 0 THEN \A k \in DOMAIN sorted : sorted[k] # wanted ELSE sorted[at] = wanted

(***************************************************************************)
(* Hash tables under a long program: up elements are inserted and every    *)
(* third one replaced, then all but down of them deleted; a hash of m      *)
(* values, and memory for new buckets always, never or now and then.  An   *)
(* element is its key and a version.  Whatever happened, the table holds   *)
(* the right elements, each in its bucket, and an iterator meets each once.*)
(***************************************************************************)
Element == (1..34) \X (0..2)
LessKey == [a, b \in Element |-> a[1] < b[1]]
Program(up, down) ==
    [k \in 1..up |-> [op |-> "insert", e |-> <<k, 0>>]]
        \o [k \in 1..up |-> [op |-> IF k % 3 = 0 THEN "replace" ELSE "insert", e |-> <<k, 1>>]]
        \o [k \in 1..(up - down) |-> [op |-> "delete", e |-> <<k, 2>>]]
Perform(h, step, hashed, malloc) ==
    CASE step.op = "insert" -> T!hash_insert(h, step.e, hashed, LessKey, malloc)
      [] step.op = "replace" -> T!hash_replace(h, step.e, hashed, LessKey, malloc)
      [] step.op = "delete" -> T!hash_delete(h, step.e, hashed, LessKey, malloc)
Iterated(h) ==
    LET Turn(s, k) == LET i == T!hash_next(h, s.i)
                      IN IF s.done \/ i = NULL THEN [s EXCEPT !.done = TRUE]
                         ELSE [i |-> i, done |-> FALSE, met |-> Append(s.met, T!hash_cur(h, i))]
    IN SX!FoldLeft(Turn, [i |-> T!hash_first(h), done |-> FALSE, met |-> <<>>], [k \in 1..(T!hash_size(h) + 1) |-> k]).met
TableRight(h, elems, hashed) ==
    /\ SX!ToSet(T!hash_apply(h)) = elems /\ Len(T!hash_apply(h)) = Cardinality(elems)
    /\ T!hash_size(h) = Cardinality(elems) /\ (T!hash_empty(h) <=> elems = {})
    /\ \A b \in DOMAIN h.buckets : \A e \in SX!ToSet(h.buckets[b]) : T!find_bucket(h, e, hashed) = b
    /\ Iterated(h) = T!hash_apply(h)
    /\ T!hash_clear(h).destructed = T!hash_apply(h)
ASSUME TablesKept == \A up \in {0, 5, 17, 34}, down \in {0, 3, 5, 20}, m \in {1, 5, 64}, memory \in {0, 1, 9} :
    down <= up =>
        LET hashed == [e \in Element |-> (e[1] * 7) % m]
            program == Program(up, down)
            Malloc(k) == memory # 0 /\ k % memory = 0
            Model(elems, step) ==
                LET same == {e \in elems : e[1] = step.e[1]}
                IN CASE step.op = "insert" -> IF same = {} THEN elems \union {step.e} ELSE elems
                     [] step.op = "replace" -> (elems \ same) \union {step.e}
                     [] step.op = "delete" -> elems \ same
            Both(s, k) ==
                LET r == Perform(s.h, program[k], hashed, Malloc(k))
                    same == {e \in s.elems : e[1] = program[k].e[1]}
                IN [h |-> r.h, elems |-> Model(s.elems, program[k]),
                    ok |-> s.ok /\ r.ret = (IF same = {} THEN NULL ELSE CHOOSE e \in same : TRUE)
                           /\ (k \in {up, 2 * up} => TableRight(r.h, Model(s.elems, program[k]), hashed))]
            Run(s, from, to) == SX!FoldLeft(Both, s, [k \in 1..(to - from) |-> from + k])
            empty == [h |-> T!hash_init(TRUE), elems |-> {}, ok |-> TRUE]
        IN \A grown \in {Run(empty, 0, up)} : \A renewed \in {Run(grown, up, 2 * up)} :
           \A end \in {Run(renewed, 2 * up, 3 * up - down)} :
               /\ end.ok /\ TableRight(end.h, end.elems, hashed)
               /\ memory = 1 => Len(end.h.buckets) = T!NewBucketCnt(down)

\* With memory for it there are never fewer than half as many nor more than four times
\* as many elements as buckets, beyond the four buckets there always are.
ASSUME BucketsFit == \A n \in 0..200 :
    LET cnt == T!NewBucketCnt(n)
    IN cnt > 4 => /\ n >= T!MIN_ELEMS_PER_BUCKET * cnt /\ n <= T!MAX_ELEMS_PER_BUCKET * cnt
                  /\ n >= T!BEST_ELEMS_PER_BUCKET * cnt
ASSUME HashesAgree == \A a \in 0..3, b \in {1, 200, 255} :
    /\ T!hash_string(<<b, a + 1, 0, 7>>) = T!hash_bytes(<<b, a + 1>>)
    /\ T!hash_int(b + (256 * a)) = T!hash_bytes(<<b, a, 0, 0>>)
    /\ \A x \in 0..255 : T!Xor(T!Xor(x, b), b) = x
=============================================================================
