-------------------------------- MODULE Files --------------------------------
(***************************************************************************)
(* The bytes of files: filesys/inode.c and file.c below the level of       *)
(* Filesys, reading a directory, archives of lib/ustar.c and the commands  *)
(* of filesys/fsutil.c.  A disk is its sectors, each a sequence of bytes;  *)
(* an inode has a start, a length and whether writing is denied.  `memory' *)
(* says whether malloc() finds some.                                       *)
(***************************************************************************)
EXTENDS Integers, Sequences, SequencesExt, FiniteSetsExt

CONSTANTS
    DISK_SECTOR_SIZE, NAME_MAX,
    W,           \* bits of an unsigned long
    NULL

Zeros(n) == [k \in 1..n |-> 0]

(***************************************************************************)
(* inode_read_at() and inode_write_at(): a chunk of a sector at a time; a  *)
(* chunk that is not a whole sector goes through the bounce buffer.        *)
(***************************************************************************)
bytes_to_sectors(size) == (size + DISK_SECTOR_SIZE - 1) \div DISK_SECTOR_SIZE
byte_to_sector(inode, pos) == IF pos < inode.length THEN inode.start + (pos \div DISK_SECTOR_SIZE) ELSE -1
ChunkSize(inode, size, offset) == Min({size, inode.length - offset, DISK_SECTOR_SIZE - (offset % DISK_SECTOR_SIZE)})
Whole(offset, chunk) == offset % DISK_SECTOR_SIZE = 0 /\ chunk = DISK_SECTOR_SIZE
Stops(inode, size, offset, memory) ==
    LET chunk == ChunkSize(inode, size, offset)
    IN size <= 0 \/ chunk <= 0 \/ (~Whole(offset, chunk) /\ ~memory)

RECURSIVE inode_read_at(_, _, _, _, _)
inode_read_at(disk, inode, size, offset, memory) ==
    LET chunk == ChunkSize(inode, size, offset)  ofs == offset % DISK_SECTOR_SIZE
    IN IF Stops(inode, size, offset, memory) THEN <<>>
       ELSE SubSeq(disk[byte_to_sector(inode, offset)], ofs + 1, ofs + chunk)
            \o inode_read_at(disk, inode, size - chunk, offset + chunk, memory)

RECURSIVE WriteChunks(_, _, _, _, _)
WriteChunks(disk, inode, buffer, offset, memory) ==
    LET chunk == ChunkSize(inode, Len(buffer), offset)  ofs == offset % DISK_SECTOR_SIZE
        sector == byte_to_sector(inode, offset)
        old == IF ofs > 0 \/ chunk < DISK_SECTOR_SIZE - ofs THEN disk[sector] ELSE Zeros(DISK_SECTOR_SIZE)
        new == IF Whole(offset, chunk) THEN SubSeq(buffer, 1, chunk)
               ELSE [b \in 1..DISK_SECTOR_SIZE |-> IF b \in (ofs + 1)..(ofs + chunk) THEN buffer[b - ofs] ELSE old[b]]
        rest == WriteChunks([disk EXCEPT ![sector] = new], inode, SubSeq(buffer, chunk + 1, Len(buffer)), offset + chunk, memory)
    IN IF Stops(inode, Len(buffer), offset, memory) THEN [disk |-> disk, ret |-> 0] ELSE [rest EXCEPT !.ret = @ + chunk]
inode_write_at(disk, inode, buffer, offset, memory) ==
    IF inode.deny_write THEN [disk |-> disk, ret |-> 0] ELSE WriteChunks(disk, inode, buffer, offset, memory)
inode_length(inode) == inode.length

(***************************************************************************)
(* Open files: an inode and a position.                                    *)
(***************************************************************************)
file_open(inode) == [inode |-> inode, pos |-> 0]
file_read(disk, file, size, memory) ==
    LET got == inode_read_at(disk, file.inode, size, file.pos, memory)
    IN [file |-> [file EXCEPT !.pos = @ + Len(got)], got |-> got]
file_read_at(disk, file, size, file_ofs, memory) == inode_read_at(disk, file.inode, size, file_ofs, memory)
file_write(disk, file, buffer, memory) ==
    LET w == inode_write_at(disk, file.inode, buffer, file.pos, memory)
    IN [file |-> [file EXCEPT !.pos = @ + w.ret], disk |-> w.disk, ret |-> w.ret]
file_write_at(disk, file, buffer, file_ofs, memory) == inode_write_at(disk, file.inode, buffer, file_ofs, memory)
file_length(file) == inode_length(file.inode)
file_seek(file, new_pos) == [file EXCEPT !.pos = new_pos]
file_tell(file) == file.pos

(***************************************************************************)
(* Directories.  An entry is three bytes: sector, name and whether in use. *)
(***************************************************************************)
ENTRY_SIZE == 3
RECURSIVE dir_readdir(_, _, _)
dir_readdir(disk, dir, memory) ==
    LET e == inode_read_at(disk, dir.inode, ENTRY_SIZE, dir.pos, memory)
        next == [dir EXCEPT !.pos = @ + ENTRY_SIZE]
    IN IF Len(e) # ENTRY_SIZE THEN [dir |-> dir, name |-> NULL]
       ELSE IF e[3] = 1 THEN [dir |-> next, name |-> e[2]] ELSE dir_readdir(disk, next, memory)

RECURSIVE Listing(_, _, _)
Listing(disk, dir, memory) ==
    LET r == dir_readdir(disk, dir, memory)
    IN IF r.name = NULL THEN <<>> ELSE <<r.name>> \o Listing(disk, r.dir, memory)
fsutil_ls(disk, root, memory) == Listing(disk, file_open(root), memory)

\* The dumps of fsutil_cat(): each a position and the bytes from there.
RECURSIVE Dumps(_, _, _, _)
Dumps(disk, file, page, memory) ==
    LET r == file_read(disk, file, page, memory)
    IN IF r.got = <<>> THEN <<>> ELSE <<[pos |-> file_tell(file), bytes |-> r.got]>> \o Dumps(disk, r.file, page, memory)
fsutil_cat(disk, inode, page, memory) == Dumps(disk, file_open(inode), page, memory)

(***************************************************************************)
(* ustar headers: a sequence of bytes for each field, of its width.        *)
(***************************************************************************)
Width == [name |-> 100, mode |-> 8, uid |-> 8, gid |-> 8, size |-> 12, mtime |-> 12, chksum |-> 8, typeflag |-> 1,
          linkname |-> 100, magic |-> 6, version |-> 2, uname |-> 32, gname |-> 32, devmajor |-> 8, devminor |-> 8,
          prefix |-> 155, padding |-> 12]
USTAR_REGULAR == 48
USTAR_DIRECTORY == 53
USTAR_EOF == -1
Field(f, bytes) == bytes \o Zeros(Width[f] - Len(bytes))
Octal(n, digits) == [k \in 1..digits |-> 48 + ((n \div 8^(digits - k)) % 8)]

calculate_chksum(h) ==
    LET Octets(s) == LET Upto[i \in 0..Len(s)] == IF i = 0 THEN 0 ELSE Upto[i - 1] + s[i] IN Upto[Len(s)]
    IN FoldSet(LAMBDA f, sum : sum + (IF f = "chksum" THEN 32 * Width[f] ELSE Octets(h[f])), 0, DOMAIN Width)

RECURSIVE strip_antisocial_prefixes(_)
strip_antisocial_prefixes(file_name) ==
    LET slash == Min({i \in DOMAIN file_name : file_name[i] = 47})
    IN IF \E p \in {<<47>>, <<46, 47>>, <<46, 46, 47>>} : IsPrefix(p, file_name)
       THEN strip_antisocial_prefixes(SubSeq(file_name, slash + 1, Len(file_name)))
       ELSE IF file_name \in {<<>>, <<46, 46>>} THEN <<46>> ELSE file_name

ustar_make_header(file_name, type, size) ==
    LET name == strip_antisocial_prefixes(file_name)
        root == <<114, 111, 111, 116>>
        h == [f \in DOMAIN Width |->
                CASE f = "name" -> Field(f, name)
                  [] f = "mode" -> Field(f, Octal(IF type = USTAR_REGULAR THEN 420 ELSE 493, 7))
                  [] f \in {"uid", "gid"} -> Field(f, Octal(0, 7))
                  [] f = "size" -> Field(f, Octal(size, 11))
                  [] f = "mtime" -> Field(f, Octal(1136102400, 11))
                  [] f = "typeflag" -> <<type>>
                  [] f = "magic" -> <<117, 115, 116, 97, 114, 0>>
                  [] f = "version" -> <<48, 48>>
                  [] f \in {"gname", "uname"} -> Field(f, root)
                  [] OTHER -> Zeros(Width[f])]
    IN IF Len(name) > 99 THEN NULL ELSE [h EXCEPT !.chksum = Field("chksum", Octal(calculate_chksum(h), 7))]

\* The digits up to the first space or null byte, that have to be there and to fit in
\* a word; or NULL.
parse_octal_field(s) ==
    LET ends == {i \in DOMAIN s : s[i] \notin 48..55}
        stop == Min(ends)
        Value[i \in 0..(stop - 1)] == IF i = 0 THEN 0 ELSE IF Value[i - 1] > (2^W - 1) \div 8 THEN 2^W ELSE (Value[i - 1] * 8) + s[i] - 48
    IN IF ends = {} \/ stop = 1 \/ s[stop] \notin {32, 0} \/ Value[stop - 1] >= 2^W THEN NULL ELSE Value[stop - 1]

\* Up to the null byte, a name is found in its field.
NameIn(field) == SubSeq(field, 1, Min({i \in DOMAIN field : field[i] = 0}) - 1)
is_all_zeros(h) == \A f \in DOMAIN h : h[f] = Zeros(Width[f])
ustar_parse_header(h) ==
    LET Error(text) == [error |-> text]
        chksum == parse_octal_field(h.chksum)
        size == IF h.typeflag = <<USTAR_REGULAR>> THEN parse_octal_field(h.size) ELSE 0
    IN IF is_all_zeros(h) THEN [error |-> NULL, type |-> USTAR_EOF, size |-> 0, file_name |-> NULL]
       ELSE IF h.magic # <<117, 115, 116, 97, 114, 0>> THEN Error("not a ustar archive")
       ELSE IF h.version # <<48, 48>> THEN Error("invalid ustar version")
       ELSE IF chksum = NULL THEN Error("corrupt chksum field")
       ELSE IF chksum # calculate_chksum(h) THEN Error("checksum mismatch")
       ELSE IF h.name[100] # 0 \/ h.prefix[1] # 0 THEN Error("file name too long")
       ELSE IF h.typeflag \notin {<<USTAR_REGULAR>>, <<USTAR_DIRECTORY>>} THEN Error("unimplemented file type")
       ELSE IF size = NULL THEN Error("corrupt file size field")
       ELSE IF size >= 2^(W - 1) THEN Error("file too large")
       ELSE [error |-> NULL, type |-> h.typeflag[1], size |-> size, file_name |-> strip_antisocial_prefixes(NameIn(h.name))]

(***************************************************************************)
(* fsutil_extract() and fsutil_append().  A sector of the scratch disk has *)
(* a header or bytes; the file system is the content of the files in it.   *)
(***************************************************************************)
DataSector(bytes) == [h |-> NULL, bytes |-> bytes]
HeaderSector(h) == [h |-> h, bytes |-> <<>>]
Parsed(sector) ==
    IF sector.h # NULL THEN ustar_parse_header(sector.h)
    ELSE IF sector.bytes = Zeros(DISK_SECTOR_SIZE) THEN [error |-> NULL, type |-> USTAR_EOF, size |-> 0, file_name |-> NULL]
    ELSE [error |-> "not a ustar archive"]

\* filesys_create() in a root directory with room left.
Creates(fs, name) == name \notin DOMAIN fs /\ Len(name) \in 1..NAME_MAX
With(fs, name, bytes) == [n \in DOMAIN fs \union {name} |-> IF n = name THEN bytes ELSE fs[n]]

RECURSIVE Extract(_, _, _)
Extract(fs, scratch, sector) ==
    LET p == Parsed(scratch[sector])
        sectors == [k \in 1..bytes_to_sectors(p.size) |-> sector + k]
        Bytes(s) == IF s \in DOMAIN scratch THEN scratch[s].bytes ELSE Zeros(DISK_SECTOR_SIZE)
        data == FlattenSeq([k \in DOMAIN sectors |-> Bytes(sectors[k])])
        copied == With(fs, p.file_name, SubSeq(data, 1, p.size))
        after == sector + 1 + Len(sectors)
    IN IF sector \notin DOMAIN scratch \/ p.error # NULL THEN [fs |-> fs, sector |-> sector + 1, panic |-> TRUE]
       ELSE IF p.type = USTAR_EOF THEN [fs |-> fs, sector |-> sector + 1, panic |-> FALSE]
       ELSE IF p.type = USTAR_DIRECTORY THEN Extract(fs, scratch, sector + 1)
       ELSE IF ~Creates(fs, p.file_name) THEN [fs |-> fs, sector |-> sector + 1, panic |-> TRUE]
       ELSE IF ~(ToSet(sectors) \subseteq DOMAIN scratch) THEN [fs |-> copied, sector |-> after, panic |-> TRUE]
       ELSE Extract(copied, scratch, after)

\* The header of the archive is erased with the sector after it.
fsutil_extract(fs, scratch, sector) ==
    LET e == Extract(fs, scratch, sector)
    IN [fs |-> e.fs, sector |-> e.sector, panic |-> e.panic,
        scratch |-> IF e.panic THEN scratch ELSE [scratch EXCEPT ![0] = DataSector(Zeros(DISK_SECTOR_SIZE)), ![1] = DataSector(Zeros(DISK_SECTOR_SIZE))]]

\* The end of the archive is written twice to the same sector, the second time from a
\* byte further on in memory: the sector's last byte is what is `beyond' the buffer.
fsutil_append(fs, scratch, sector, file_name, beyond) ==
    LET data == fs[file_name]
        header == ustar_make_header(file_name, USTAR_REGULAR, Len(data))
        count == bytes_to_sectors(Len(data))
        padded == data \o Zeros((count * DISK_SECTOR_SIZE) - Len(data))
        last == sector + 1 + count
        marker == Zeros(DISK_SECTOR_SIZE - 1) \o <<beyond>>
    IN IF file_name \notin DOMAIN fs \/ header = NULL THEN [scratch |-> scratch, sector |-> sector, panic |-> TRUE]
       ELSE [scratch |-> [s \in DOMAIN scratch |->
                             IF s = sector THEN HeaderSector(header)
                             ELSE IF s \in (sector + 1)..(last - 1)
                             THEN DataSector(SubSeq(padded, ((s - sector - 1) * DISK_SECTOR_SIZE) + 1, (s - sector) * DISK_SECTOR_SIZE))
                             ELSE IF s = last THEN DataSector(marker) ELSE scratch[s]],
             sector |-> last, panic |-> last \notin DOMAIN scratch]
\* fsutil_rm() panics where filesys_remove() fails.
fsutil_rm(fs, file_name) == [fs |-> [n \in DOMAIN fs \ {file_name} |-> fs[n]], panic |-> file_name \notin DOMAIN fs]
=============================================================================
