------------------------------ MODULE Strings ------------------------------
(***************************************************************************)
(* Blocks, strings, searching and sorting, hash tables: lib/string.c,      *)
(* lib/stdlib.c and lib/kernel/hash.c.                                     *)
(* A memory is a function from addresses (natural numbers) to bytes, a     *)
(* string the address it begins at, and 0 the byte that ends it.  What a   *)
(* function returns is a value, or a record of the memory and the value    *)
(* when it writes.  An address of -1 is the null pointer.                  *)
(***************************************************************************)
EXTENDS Integers, Sequences, SequencesExt, FiniteSetsExt

CONSTANT NULL

NullPtr == -1
Smaller(m, n) == IF m < n THEN m ELSE n
First(S) == IF S = {} THEN NullPtr ELSE Min(S)
Upto(n) == [k \in 1..n |-> k - 1]

(***************************************************************************)
(* Blocks.  The bytes are copied one at a time, in the order of the code.  *)
(***************************************************************************)
CopyInOrder(mem, dst, src, order) ==
    FoldLeft(LAMBDA m, k : [m EXCEPT ![dst + k] = m[src + k]], mem, order)

memcpy(mem, dst, src, size) == [mem |-> CopyInOrder(mem, dst, src, Upto(size)), ret |-> dst]

\* The pointer returned is the one that moved.
memmove(mem, dst, src, size) ==
    IF dst < src THEN [mem |-> CopyInOrder(mem, dst, src, Upto(size)), ret |-> dst + size]
    ELSE [mem |-> CopyInOrder(mem, dst, src, Reverse(Upto(size))), ret |-> dst]

memset(mem, dst, value, size) ==
    [mem |-> [a \in DOMAIN mem |-> IF a \in dst..(dst + size - 1) THEN value % 256 ELSE mem[a]], ret |-> dst]

Sign(x, y) == IF x > y THEN 1 ELSE IF x < y THEN -1 ELSE 0
memcmp(mem, a, b, size) ==
    LET k == First({i \in 0..(size - 1) : mem[a + i] # mem[b + i]})
    IN IF k = NullPtr THEN 0 ELSE Sign(mem[a + k], mem[b + k])
memchr(mem, block, ch, size) == First({a \in block..(block + size - 1) : mem[a] = ch % 256})

(***************************************************************************)
(* Strings.                                                                *)
(***************************************************************************)
Terminator(mem, s) == Min({a \in DOMAIN mem : a >= s /\ mem[a] = 0})
strlen(mem, s) == Terminator(mem, s) - s
strnlen(mem, s, maxlen) == Min({a \in DOMAIN mem : a >= s /\ mem[a] = 0} \union {s + maxlen}) - s

strcmp(mem, a, b) ==
    LET shorter == Smaller(strlen(mem, a), strlen(mem, b))
        k == Min({i \in 0..shorter : i = shorter \/ mem[a + i] # mem[b + i]})
    IN Sign(mem[a + k], mem[b + k])

\* The end of the string counts for strchr() and not for strrchr().
strchr(mem, s, c) == First({a \in s..Terminator(mem, s) : mem[a] = c})
strrchr(mem, s, c) ==
    LET found == {a \in s..(Terminator(mem, s) - 1) : mem[a] = c} IN IF found = {} THEN NullPtr ELSE Max(found)
In(mem, set, c) == strchr(mem, set, c) # NullPtr
strcspn(mem, s, stop) == Min({a \in s..Terminator(mem, s) : In(mem, stop, mem[a])}) - s
strspn(mem, s, skip) == Min({a \in s..Terminator(mem, s) : mem[a] = 0 \/ ~In(mem, skip, mem[a])}) - s
strpbrk(mem, s, stop) == First({a \in s..(Terminator(mem, s) - 1) : In(mem, stop, mem[a])})
strstr(mem, haystack, needle) ==
    First({a \in haystack..(Terminator(mem, haystack) - strlen(mem, needle)) :
               memcmp(mem, a, needle, strlen(mem, needle)) = 0})

\* strtok_r(): from s, or from the saved position if it is null.
strtok_r(mem, s, delimiters, saved) ==
    LET from == IF s = NullPtr THEN saved ELSE s
        token == Min({a \in from..Terminator(mem, from) : mem[a] = 0 \/ ~In(mem, delimiters, mem[a])})
        end == Min({a \in token..Terminator(mem, token) : In(mem, delimiters, mem[a])})
    IN IF mem[token] = 0 THEN [mem |-> mem, ret |-> NullPtr, save_ptr |-> token]
       ELSE IF mem[end] = 0 THEN [mem |-> mem, ret |-> token, save_ptr |-> end]
       ELSE [mem |-> [mem EXCEPT ![end] = 0], ret |-> token, save_ptr |-> end + 1]

\* n characters of src to dst, and the byte that ends them.
CopyString(mem, dst, src, n) == [memcpy(mem, dst, src, n).mem EXCEPT ![dst + n] = 0]
strlcpy(mem, dst, src, size) ==
    [mem |-> IF size > 0 THEN CopyString(mem, dst, src, Smaller(size - 1, strlen(mem, src))) ELSE mem,
     ret |-> strlen(mem, src)]
strlcat(mem, dst, src, size) ==
    LET dst_len == strlen(mem, dst)
    IN [mem |-> IF size > 0 /\ dst_len < size
                THEN CopyString(mem, dst + dst_len, src, Smaller(size - dst_len - 1, strlen(mem, src))) ELSE mem,
        ret |-> strlen(mem, src) + dst_len]

(***************************************************************************)
(* atoi() of a text, a sequence of characters, in an int of w bits: the    *)
(* value is built as a negative number, whose range is the larger one.     *)
(***************************************************************************)
Digits == [ch \in {"0", "1", "2", "3", "4", "5", "6", "7", "8", "9"} |->
              CHOOSE d \in 0..9 : ch = <<"0", "1", "2", "3", "4", "5", "6", "7", "8", "9">>[d + 1]]
AsInt(v, w) == LET u == v % 2^w IN IF u >= 2^(w - 1) THEN u - 2^w ELSE u
PrefixIn(text, S) == SubSeq(text, 1, Min({n \in 0..Len(text) : n = Len(text) \/ text[n + 1] \notin S}))
After(text, prefix) == SubSeq(text, Len(prefix) + 1, Len(text))
atoi(text, w) ==
    LET word == After(text, PrefixIn(text, {" ", "\t", "\n", "\f", "\r", "\\v"}))
        signed == word # <<>> /\ Head(word) \in {"+", "-"}
        digits == PrefixIn(IF signed THEN Tail(word) ELSE word, DOMAIN Digits)
        value == FoldLeft(LAMBDA v, ch : AsInt(v * 10 - Digits[ch], w), 0, digits)
    IN IF signed /\ Head(word) = "-" THEN value ELSE AsInt(-value, w)

(***************************************************************************)
(* Sorting by a heap and searching by halves.  An array is a sequence, and *)
(* compare its strcmp()-like order.                                        *)
(***************************************************************************)
do_swap(array, a, b) == [array EXCEPT ![a] = array[b], ![b] = array[a]]

heapify(array, start, cnt, compare) ==
    LET Greater(arr, m, k) == IF k <= cnt /\ compare[arr[k], arr[m]] > 0 THEN k ELSE m
        Sink(s, n) ==
            LET largest == Greater(s.array, Greater(s.array, s.i, 2 * s.i), 2 * s.i + 1)
            IN [array |-> do_swap(s.array, s.i, largest), i |-> largest]
    IN FoldLeft(Sink, [array |-> array, i |-> start], Upto(cnt)).array

sort(array, compare) ==
    LET cnt == Len(array)
        heap == FoldLeft(LAMBDA a, i : heapify(a, i, cnt, compare), array, Reverse([k \in 1..(cnt \div 2) |-> k]))
    IN FoldLeft(LAMBDA a, i : heapify(do_swap(a, 1, i), 1, i - 1, compare),
                heap, Reverse(SelectSeq([k \in 1..cnt |-> k], LAMBDA k : k > 1)))

\* binary_search(): the index of a match, or 0.
binary_search(key, array, compare) ==
    LET Halve(s, k) ==
            LET middle == s.first + ((s.last - s.first) \div 2)
                cmp == compare[key, array[middle]]
            IN IF s.found # 0 \/ s.first >= s.last THEN s
               ELSE IF cmp < 0 THEN [s EXCEPT !.last = middle]
               ELSE IF cmp > 0 THEN [s EXCEPT !.first = middle + 1]
               ELSE [s EXCEPT !.found = middle]
    IN FoldLeft(Halve, [first |-> 1, last |-> Len(array) + 1, found |-> 0], Upto(Len(array))).found

(***************************************************************************)
(* Hash tables.  A table is the number of its elements and its buckets,    *)
(* each the sequence of its list; hash[e] and less[a, b] are what          *)
(* hash_init() is given.  Where the code allocates, malloc says whether it *)
(* gets memory.                                                            *)
(***************************************************************************)
MIN_ELEMS_PER_BUCKET == 1
BEST_ELEMS_PER_BUCKET == 2
MAX_ELEMS_PER_BUCKET == 4

Empty(bucket_cnt) == [elem_cnt |-> 0, buckets |-> [i \in 1..bucket_cnt |-> <<>>]]
hash_init(malloc) == IF malloc THEN Empty(4) ELSE NULL

\* The elements in the order hash_apply() and hash_clear() come by them.
hash_apply(h) == FlattenSeq(h.buckets)
hash_clear(h) == [h |-> Empty(Len(h.buckets)), destructed |-> hash_apply(h)]
hash_destroy(h, destructor) == IF destructor THEN hash_apply(h) ELSE <<>>
hash_size(h) == h.elem_cnt
hash_empty(h) == h.elem_cnt = 0

\* The bucket of an element: the low bits of its hash.
find_bucket(h, e, hash) == (hash[e] % Len(h.buckets)) + 1

find_elem(h, b, e, less) ==
    LET bucket == h.buckets[b]
        equal == {k \in DOMAIN bucket : ~less[bucket[k], e] /\ ~less[e, bucket[k]]}
    IN IF equal = {} THEN NULL ELSE bucket[Min(equal)]

insert_elem(h, b, e) == [elem_cnt |-> h.elem_cnt + 1, buckets |-> [h.buckets EXCEPT ![b] = <<e>> \o @]]
remove_elem(h, e) ==
    [elem_cnt |-> h.elem_cnt - 1,
     buckets |-> [b \in DOMAIN h.buckets |-> SelectSeq(h.buckets[b], LAMBDA x : x # e)]]

(***************************************************************************)
(* rehash(): half as many buckets as elements, rounded down to a power of  *)
(* two, and at least four.                                                 *)
(***************************************************************************)
NewBucketCnt(elem_cnt) ==
    Max({4} \union {2^k : k \in {j \in 0..15 : 2^j <= elem_cnt \div BEST_ELEMS_PER_BUCKET}})
rehash(h, hash, malloc) ==
    LET new == Empty(NewBucketCnt(h.elem_cnt))
        Move(t, e) == [t EXCEPT !.buckets[find_bucket(t, e, hash)] = <<e>> \o @]
    IN IF Len(new.buckets) = Len(h.buckets) \/ ~malloc THEN h
       ELSE [FoldLeft(Move, new, hash_apply(h)) EXCEPT !.elem_cnt = h.elem_cnt]

hash_find(h, e, hash, less) == find_elem(h, find_bucket(h, e, hash), e, less)

hash_insert(h, new, hash, less, malloc) ==
    LET old == hash_find(h, new, hash, less)
    IN [h |-> rehash(IF old = NULL THEN insert_elem(h, find_bucket(h, new, hash), new) ELSE h, hash, malloc),
        ret |-> old]

hash_replace(h, new, hash, less, malloc) ==
    LET old == hash_find(h, new, hash, less)
        rest == IF old # NULL THEN remove_elem(h, old) ELSE h
    IN [h |-> rehash(insert_elem(rest, find_bucket(h, new, hash), new), hash, malloc), ret |-> old]

hash_delete(h, e, hash, less, malloc) ==
    LET found == hash_find(h, e, hash, less)
    IN [h |-> IF found # NULL THEN rehash(remove_elem(h, found), hash, malloc) ELSE h, ret |-> found]

(***************************************************************************)
(* Iterators: a bucket and a place in it, before the first at hash_first() *)
(* and NULL at the end.                                                    *)
(***************************************************************************)
hash_first(h) == [bucket |-> 1, at |-> 0]
hash_next(h, i) ==
    LET later == {b \in (i.bucket + 1)..Len(h.buckets) : h.buckets[b] # <<>>}
    IN IF i.at < Len(h.buckets[i.bucket]) THEN [i EXCEPT !.at = @ + 1]
       ELSE IF later = {} THEN NULL
       ELSE [bucket |-> Min(later), at |-> 1]
hash_cur(h, i) == IF i = NULL THEN NULL ELSE h.buckets[i.bucket][i.at]

(***************************************************************************)
(* The hash of bytes, its low 16 bits: multiplied by the prime and xored   *)
(* with a byte at a time.  hash_string() is of the bytes before the zero   *)
(* and hash_int() of those of the int, least significant first.            *)
(***************************************************************************)
FNV_32_PRIME == 403
FNV_32_BASIS == 40389
Xor(x, byte) ==
    x + FoldLeft(LAMBDA d, k : LET a == (x \div 2^k) % 2  b == (byte \div 2^k) % 2
                               IN d + (IF b = 0 THEN 0 ELSE IF a = 0 THEN 2^k ELSE -2^k),
                 0, [k \in 1..8 |-> k - 1])
hash_bytes(buf) == FoldLeft(LAMBDA hash, byte : Xor((hash * FNV_32_PRIME) % 2^16, byte), FNV_32_BASIS, buf)
hash_string(s) == hash_bytes(SubSeq(s, 1, Min({k \in DOMAIN s : s[k] = 0}) - 1))
hash_int(i) == hash_bytes([k \in 1..4 |-> (i \div 256^(k - 1)) % 256])
=============================================================================
