----------------------------- MODULE MCFilesys ------------------------------
(* Small instances for Filesys; and the bytes of files and archives. *)
EXTENDS Filesys, TLC, Sequences

CONSTANTS a, b, f, g, x

TwoNames == {a, b}
TwoHandles == {f, g}
TwoData == {ZERO, x}
Symmetry == Permutations(TwoHandles) \cup Permutations(TwoNames)

(***************************************************************************)
(* Sectors of four bytes.  Files of up to nine bytes, in sectors 1 to 3 of *)
(* a disk of five, every position and size, with and without memory.       *)
(***************************************************************************)
B == INSTANCE Files WITH DISK_SECTOR_SIZE <- 4, NAME_MAX <- 14, W <- 28
Old == [s \in 0..4 |-> [k \in 1..4 |-> (10 * s) + k]]
File(length) == [start |-> 1, length |-> length, deny_write |-> FALSE]
Content(disk0, length) == SubSeq(disk0[1] \o disk0[2] \o disk0[3], 1, length)
Smaller(m, n) == IF m < n THEN m ELSE n
New(n) == [k \in 1..n |-> 100 + k]

\* A write changes the bytes from its position on, as many as it says, and nothing else
\* on the disk; a read gives the bytes that are there.  Only the end of the file, a
\* denied write or a want of memory cuts them short.
ASSUME BytesWritten ==
    \A length \in 0..9, offset \in 0..10, size \in 0..9, memory \in BOOLEAN :
        LET inode == File(length)
            w == B!inode_write_at(Old, inode, New(size), offset, memory)
            read == B!inode_read_at(w.disk, inode, size, offset, memory)
            left == IF offset < length THEN length - offset ELSE 0
            old == Content(Old, 12)
        IN /\ Content(w.disk, 12) = [k \in 1..12 |-> IF k \in (offset + 1)..(offset + w.ret) THEN 100 + k - offset ELSE old[k]]
           /\ w.disk[0] = Old[0] /\ w.disk[4] = Old[4]
           /\ Len(read) = w.ret /\ read = New(w.ret)
           /\ IF memory THEN w.ret = Smaller(size, left)
              ELSE w.ret <= Smaller(size, left) /\ (offset % 4 # 0 => w.ret = 0)
           /\ B!inode_write_at(Old, [inode EXCEPT !.deny_write = TRUE], New(size), offset, memory) = [disk |-> Old, ret |-> 0]

\* Reading a file piece after piece from any position gives all of it from there, also
\* as fsutil_cat() does; writing leaves the position behind what was written.
ASSUME PositionsKept ==
    \A length \in 0..9, size \in 1..6, pos \in 0..10 :
        LET opened == B!file_seek(B!file_open(File(length)), pos)
            one == B!file_read(Old, opened, size, TRUE)
            two == B!file_read(Old, one.file, size, TRUE)
            w == B!file_write(Old, opened, New(size), TRUE)
            dumps == B!fsutil_cat(Old, File(length), size, TRUE)
            Joined[k \in 0..Len(dumps)] == IF k = 0 THEN <<>> ELSE Joined[k - 1] \o dumps[k].bytes
        IN /\ one.got \o two.got = B!file_read_at(Old, opened, 2 * size, pos, TRUE)
           /\ B!file_tell(w.file) = pos + w.ret
           /\ w.disk = B!file_write_at(Old, opened, New(size), pos, TRUE).disk
           /\ Joined[Len(dumps)] = Content(Old, B!file_length(opened))
           /\ \A k \in DOMAIN dumps : dumps[k].pos = Len(Joined[k - 1])

\* Every name in use is listed once, in order, wherever an entry crosses sectors; but the
\* listing ends at the first entry that is not read for want of memory.
ASSUME NamesListed ==
    \A used \in [1..3 -> {0, 1}] :
        LET bytes == <<9, 21, used[1], 9, 22, used[2], 9, 23, used[3], 0, 0, 0>>
            disk0 == [Old EXCEPT ![1] = SubSeq(bytes, 1, 4), ![2] = SubSeq(bytes, 5, 8), ![3] = SubSeq(bytes, 9, 12)]
            InUse(name) == used[name - 20] = 1
        IN /\ B!fsutil_ls(disk0, File(9), TRUE) = SelectSeq(<<21, 22, 23>>, InUse)
           /\ B!fsutil_ls(disk0, File(9), FALSE) = <<>>

(***************************************************************************)
(* Archives.                                                               *)
(***************************************************************************)
Letters == {46, 47, 97}
Texts == UNION {[1..n -> Letters] : n \in 0..5}
Starts(p, text) == Len(p) <= Len(text) /\ SubSeq(text, 1, Len(p)) = p

\* A name that is stripped has no prefix that leads out of the directory, is a suffix
\* of the name or ".", and stays as it is when it is stripped again.
ASSUME PrefixesStripped == \A text \in Texts :
    LET name == B!strip_antisocial_prefixes(text)
    IN /\ ~Starts(<<47>>, name) /\ ~Starts(<<46, 46, 47>>, name) /\ name # <<46, 46>> /\ name # <<>>
       /\ B!strip_antisocial_prefixes(name) = name
       /\ name = <<46>> \/ \E k \in 0..Len(text) : name = SubSeq(text, k + 1, Len(text))

\* A header is read back as it was made, and when a byte of it changes it is refused or
\* says the same.
Header == B!ustar_make_header(<<46, 47, 97, 98>>, B!USTAR_REGULAR, 1234)
Said == [error |-> NULL, type |-> B!USTAR_REGULAR, size |-> 1234, file_name |-> <<97, 98>>]
ASSUME HeadersReadBack ==
    /\ B!ustar_parse_header(Header) = Said
    /\ \A size \in {0, 1, 511, 8^8}, n \in {1, 99, 100} :
          LET name == [k \in 1..n |-> 97]
              h == B!ustar_make_header(name, B!USTAR_REGULAR, size)
          IN IF n > 99 THEN h = NULL
             ELSE B!ustar_parse_header(h) = [error |-> NULL, type |-> B!USTAR_REGULAR, size |-> size, file_name |-> name]
    /\ B!ustar_parse_header(B!ustar_make_header(<<97>>, B!USTAR_REGULAR, 2^27)).error = "file too large"
    /\ B!ustar_parse_header(B!ustar_make_header(<<97>>, B!USTAR_DIRECTORY, 5)).size = 0
ASSUME CorruptionSeen ==
    \A field \in {"name", "size", "chksum", "typeflag", "magic", "version", "prefix"}, byte \in {0, 32, 48, 55, 97} :
        \A k \in DOMAIN Header[field] :
            LET p == B!ustar_parse_header([Header EXCEPT ![field][k] = byte])
            IN p.error # NULL \/ p = Said

(***************************************************************************)
(* Two files are appended to an archive on a disk with old data, which is  *)
(* extracted again by the next kernel.  The byte beyond the buffer with    *)
(* which append writes the end has to be zero by chance.                   *)
(***************************************************************************)
Scratch == [s \in 0..9 |-> B!DataSector(New(4))]
Extracted(one, two, beyond) ==
    LET from == (<<97>> :> one) @@ (<<98>> :> two)
        first == B!fsutil_append(from, Scratch, 0, <<97>>, beyond)
        second == B!fsutil_append(from, first.scratch, first.sector, <<98>>, beyond)
    IN [from |-> from, second |-> second, got |-> B!fsutil_extract(<<>>, second.scratch, 0)]
ASSUME ArchiveRestored == \A m, n \in 0..9 :
    LET good == Extracted(New(m), New(n), 0)  bad == Extracted(New(m), New(n), 7)
    IN /\ ~good.second.panic /\ ~good.got.panic /\ good.got.fs = good.from
       /\ good.got.sector = good.second.sector + 1
       /\ B!fsutil_extract(<<>>, good.got.scratch, 0).fs = <<>>      \* again, after a restart
       /\ B!fsutil_extract(good.from, good.second.scratch, 0).panic
       /\ bad.got.panic
       /\ B!fsutil_append(good.from, good.second.scratch, 9, <<97>>, 0).panic
       /\ B!fsutil_rm(good.from, <<97>>).fs = (<<98>> :> New(n))
=============================================================================
