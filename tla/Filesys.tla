------------------------------- MODULE Filesys -------------------------------
(***************************************************************************)
(* filesys/: the root directory, inodes, open files and the free map, used *)
(* by one thread at a time.  A step ends with a write to the disk: between *)
(* two of them the machine may crash and filesys_init() starts again from  *)
(* what is on the disk.                                                    *)
(*                                                                         *)
(* The inodes of the free map and of the root directory are left out; both *)
(* fit in one sector, which a write replaces as a whole.                   *)
(***************************************************************************)
EXTENDS Integers, FiniteSets

CONSTANTS
    Sectors,       \* how many sectors there are to allocate
    Slots,         \* how many entries the root directory has; 16 in the code
    MaxSize,       \* bound: sectors of a file
    Name, Handle,
    Data, ZERO, NULL,
    MaxFailures    \* bound: allocations of memory that fail

ASSUME FilesysAssumption ==
    /\ Sectors \in Nat \ {0} /\ Slots \in Nat \ {0} /\ MaxSize \in Nat
    /\ MaxFailures \in Nat
    /\ ZERO \in Data
    /\ NULL \notin Data \cup Name

VARIABLES
    disk,          \* what each sector holds, data or an inode
    slots,         \* the entries of the root directory, on the disk
    disk_map,      \* the sectors in use according to the disk
    free_map,      \* and according to memory
    open_inodes,   \* the in-memory inode of each sector that has one
    file,          \* the open files
    op,            \* the call in progress
    failures       \* history: failed allocations

diskVars == <<disk, slots, disk_map>>
memVars == <<free_map, open_inodes, file>>
vars == <<diskVars, memVars, op, failures>>

Sector == 1..Sectors
Slot == 1..Slots
Extent(start, size) == start..(start + size - 1)

Inode == [start : Sector \cup {NULL}, size : 0..MaxSize]
OpenInode == [start : Sector \cup {NULL}, size : 0..MaxSize,
              open_cnt : Nat, deny_write_cnt : Nat, removed : BOOLEAN]
Idle == [at |-> "idle"]

\* NULL is no inode in memory, no entry, no file and nothing a file holds.
ASSUME NullAssumption ==
    /\ NULL \notin OpenInode
    /\ NULL \notin [name : Name, sector : Sector]
    /\ NULL \notin [sector : Sector, deny_write : BOOLEAN]
    /\ \A size \in 0..MaxSize : NULL \notin [1..size -> Data \cup Inode]

FilesysTypeOK ==
    /\ disk \in [Sector -> Data \cup Inode]
    /\ slots \in [Slot -> [name : Name, sector : Sector] \cup {NULL}]
    /\ disk_map \subseteq Sector /\ free_map \subseteq Sector
    /\ open_inodes \in [Sector -> OpenInode \cup {NULL}]
    /\ file \in [Handle -> [sector : Sector, deny_write : BOOLEAN] \cup {NULL}]
    /\ op.at \in {"idle", "extent", "inode", "zeros", "add", "undo", "free", "free_extent"}
    /\ failures \in 0..MaxFailures

\* The sectors an inode's data take.
DataOf(inode) == IF inode.size = 0 THEN {} ELSE Extent(inode.start, inode.size)

\* do_format() on a disk with old data on it, then free_map_open().
Init ==
    /\ disk \in [Sector -> Data \ {ZERO}]
    /\ slots = [k \in Slot |-> NULL]
    /\ disk_map = {} /\ free_map = {}
    /\ open_inodes = [s \in Sector |-> NULL]
    /\ file = [h \in Handle |-> NULL]
    /\ op = Idle
    /\ failures = 0

-----------------------------------------------------------------------------
\* An allocation of memory fails n times in this step.
Fails(n) == failures + n <= MaxFailures /\ failures' = failures + n

(***************************************************************************)
(* free_map_allocate(): the first run of size free sectors, or no sector   *)
(* at all for a size of zero.  False if there is none or if bitmap_write() *)
(* fails.                                                                  *)
(***************************************************************************)
Free(size) == {s \in Sector : Extent(s, size) \subseteq Sector \ free_map}
First(size) == IF size = 0 THEN NULL ELSE CHOOSE s \in Free(size) : \A r \in Free(size) : s <= r

Allocated(size) ==
    /\ size = 0 \/ Free(size) # {}
    /\ free_map' = free_map \cup (IF size = 0 THEN {} ELSE Extent(First(size), size))
    /\ disk_map' = free_map'
    /\ UNCHANGED failures
NotAllocated(size) ==
    /\ UNCHANGED <<free_map, disk_map>>
    /\ \/ size # 0 /\ Free(size) = {} /\ UNCHANGED failures
       \/ Fails(1)

\* free_map_release(), which does not look at what bitmap_write() returns.
Release(sectors) ==
    /\ free_map' = free_map \ sectors
    /\ \/ disk_map' = free_map' /\ UNCHANGED failures
       \/ UNCHANGED disk_map /\ Fails(1)

(***************************************************************************)
(* filesys_create().                                                       *)
(***************************************************************************)
Create(name, size) ==
    /\ op = Idle
    /\ \/ /\ Allocated(1)
          /\ op' = [at |-> "extent", name |-> name, size |-> size, sector |-> First(1)]
       \/ NotAllocated(1) /\ UNCHANGED op
    /\ UNCHANGED <<disk, slots, open_inodes, file>>

\* inode_create(): the data sectors,
CreateExtent ==
    /\ op.at = "extent"
    /\ \/ /\ Allocated(op.size)
          /\ op' = [at |-> "inode", name |-> op.name, sector |-> op.sector,
                    size |-> op.size, start |-> First(op.size)]
       \/ /\ NotAllocated(op.size)
          /\ op' = [at |-> "undo", sector |-> op.sector]
    /\ UNCHANGED <<disk, slots, open_inodes, file>>

\* the inode,
CreateInode ==
    /\ op.at = "inode"
    /\ disk' = [disk EXCEPT ![op.sector] = [start |-> op.start, size |-> op.size]]
    /\ op' = [at |-> IF op.size = 0 THEN "add" ELSE "zeros",
              name |-> op.name, sector |-> op.sector, inode |-> disk'[op.sector], i |-> 0]
    /\ UNCHANGED <<slots, disk_map, memVars, failures>>

\* Slip: one sector too few.
CreateZerosShort ==
    /\ op.at = "zeros"
    /\ IF op.i + 1 = op.inode.size
       THEN op' = [op EXCEPT !.at = "add"] /\ UNCHANGED disk
       ELSE /\ disk' = [disk EXCEPT ![op.inode.start + op.i] = ZERO]
            /\ op' = [op EXCEPT !.i = @ + 1]
    /\ UNCHANGED <<slots, disk_map, memVars, failures>>

\* and zeros in each data sector.
CreateZeros ==
    /\ op.at = "zeros"
    /\ disk' = [disk EXCEPT ![op.inode.start + op.i] = ZERO]
    /\ op' = IF op.i + 1 = op.inode.size THEN [op EXCEPT !.at = "add"]
             ELSE [op EXCEPT !.i = @ + 1]
    /\ UNCHANGED <<slots, disk_map, memVars, failures>>

\* lookup(), when inode_read_at() finds no memory for the entries from
\* `stop' on: the slots with that name.
Lookup(name, stop) == {k \in Slot : k < stop /\ slots[k] # NULL /\ slots[k].name = name}
Stop == 1..(Slots + 1)
\* The scan of dir_add(): the offset it stops at, Slots + 1 being end of file.
FreeSlot(stop) ==
    CHOOSE k \in 1..stop : (k = stop \/ slots[k] = NULL) /\ \A j \in 1..(k - 1) : slots[j] # NULL
Short(stop) == IF stop <= Slots THEN 1 ELSE 0

(***************************************************************************)
(* dir_add(), the end of filesys_create().  Each entry it reads takes a    *)
(* bounce buffer; without memory for it the read is short, like at the end *)
(* of the file.  The write of the slot may fail too.                       *)
(***************************************************************************)
DirAdd ==
    /\ op.at = "add"
    /\ UNCHANGED <<disk, disk_map, memVars>>
    /\ \E looked, scanned \in Stop :
          LET k == FreeSlot(scanned) IN
          \/ /\ Lookup(op.name, looked) # {} /\ looked = Slots + 1
             /\ op' = [at |-> "undo", sector |-> op.sector]
             /\ UNCHANGED <<slots, failures>>
          \/ /\ Lookup(op.name, looked) = {} /\ k \in Slot
             /\ Fails(Short(looked) + Short(scanned))
             /\ slots' = [slots EXCEPT ![k] = [name |-> op.name, sector |-> op.sector]]
             /\ op' = Idle
          \/ /\ Lookup(op.name, looked) = {}
             /\ Fails(Short(looked) + Short(scanned) + (IF k \in Slot THEN 1 ELSE 0))
             /\ op' = [at |-> "undo", sector |-> op.sector]
             /\ UNCHANGED slots

\* filesys_create() fails after free_map_allocate (1): only the inode's sector
\* is released.
CreateUndo ==
    /\ op.at = "undo"
    /\ Release({op.sector})
    /\ op' = Idle
    /\ UNCHANGED <<disk, slots, open_inodes, file>>

-----------------------------------------------------------------------------
\* inode_open() or inode_reopen().
Opened(s) ==
    IF open_inodes[s] # NULL
    THEN [open_inodes EXCEPT ![s].open_cnt = @ + 1]
    ELSE [open_inodes EXCEPT ![s] = [start |-> disk[s].start, size |-> disk[s].size,
              open_cnt |-> 1, deny_write_cnt |-> 0, removed |-> FALSE]]

\* filesys_open(); if it fails, nothing has changed.
Open(name, h) ==
    /\ op = Idle /\ file[h] = NULL
    /\ \E k \in Lookup(name, Slots + 1) :
          /\ \A j \in Lookup(name, Slots + 1) : k <= j
          /\ open_inodes' = Opened(slots[k].sector)
          /\ file' = [file EXCEPT ![h] = [sector |-> slots[k].sector, deny_write |-> FALSE]]
    /\ UNCHANGED <<diskVars, free_map, op, failures>>

\* file_reopen().
Reopen(h, copy) ==
    /\ op = Idle /\ file[h] # NULL /\ file[copy] = NULL
    /\ open_inodes' = Opened(file[h].sector)
    /\ file' = [file EXCEPT ![copy] = [sector |-> file[h].sector, deny_write |-> FALSE]]
    /\ UNCHANGED <<diskVars, free_map, op, failures>>

\* Slip: the blocks go when the name goes.
ClosedEager(s, inode) ==
    /\ open_inodes' = [open_inodes EXCEPT ![s] =
          IF inode.open_cnt > 1 THEN [inode EXCEPT !.open_cnt = @ - 1] ELSE NULL]
    /\ op' = IF inode.removed THEN [at |-> "free", sector |-> s, inode |-> inode] ELSE op

\* inode_close() of an inode whose sector is s, the other fields now inode.
Closed(s, inode) ==
    IF inode.open_cnt > 1
    THEN /\ open_inodes' = [open_inodes EXCEPT ![s] = [inode EXCEPT !.open_cnt = @ - 1]]
         /\ UNCHANGED op
    ELSE /\ open_inodes' = [open_inodes EXCEPT ![s] = NULL]
         /\ op' = IF inode.removed THEN [at |-> "free", sector |-> s, inode |-> inode]
                  ELSE op

\* Slip: a file that denied writes may be closed without allowing them.
CloseDenying(h) ==
    /\ op = Idle /\ file[h] # NULL
    /\ Closed(file[h].sector, open_inodes[file[h].sector])
    /\ file' = [file EXCEPT ![h] = NULL]
    /\ UNCHANGED <<diskVars, free_map, failures>>

\* file_close(), up to the writes of the free map.
Close(h) ==
    /\ op = Idle /\ file[h] # NULL
    /\ LET s == file[h].sector
           inode == open_inodes[s]
       IN Closed(s, [inode EXCEPT !.deny_write_cnt =
                         IF file[h].deny_write THEN @ - 1 ELSE @])
    /\ file' = [file EXCEPT ![h] = NULL]
    /\ UNCHANGED <<diskVars, free_map, failures>>

\* The two free_map_release() calls of inode_close().
FreeInode ==
    /\ op.at = "free"
    /\ Release({op.sector})
    /\ op' = [op EXCEPT !.at = "free_extent"]
    /\ UNCHANGED <<disk, slots, open_inodes, file>>
FreeExtent ==
    /\ op.at = "free_extent"
    /\ Release(DataOf(op.inode))
    /\ op' = Idle
    /\ UNCHANGED <<disk, slots, open_inodes, file>>

\* filesys_remove(): the entry is erased, the inode marked and closed.
Remove(name) ==
    /\ op = Idle
    /\ \E k \in Lookup(name, Slots + 1) :
          LET s == slots[k].sector
              inode == Opened(s)[s]
          IN /\ \A j \in Lookup(name, Slots + 1) : k <= j
             /\ slots' = [slots EXCEPT ![k] = NULL]
             /\ Closed(s, [inode EXCEPT !.removed = TRUE])
    /\ UNCHANGED <<disk, disk_map, free_map, file, failures>>

-----------------------------------------------------------------------------
\* Slip: inode_write_at() does not look at deny_write_cnt.
WriteAnyway(h, i, v) ==
    /\ op = Idle /\ file[h] # NULL
    /\ LET inode == open_inodes[file[h].sector] IN
       /\ i < inode.size
       /\ disk' = [disk EXCEPT ![inode.start + i] = v]
    /\ UNCHANGED <<slots, disk_map, memVars, op, failures>>

\* file_write_at() of one sector, or of a part of it: v is what it then holds.
Write(h, i, v) ==
    /\ op = Idle /\ file[h] # NULL
    /\ LET inode == open_inodes[file[h].sector] IN
       /\ inode.deny_write_cnt = 0
       /\ i < inode.size
       /\ disk' = [disk EXCEPT ![inode.start + i] = v]
    /\ UNCHANGED <<slots, disk_map, memVars, op, failures>>

\* file_deny_write() and file_allow_write().
SetDeny(h, deny) ==
    /\ op = Idle /\ file[h] # NULL /\ file[h].deny_write # deny
    /\ file' = [file EXCEPT ![h].deny_write = deny]
    /\ open_inodes' = [open_inodes EXCEPT ![file[h].sector].deny_write_cnt =
                           IF deny THEN @ + 1 ELSE @ - 1]
    /\ UNCHANGED <<diskVars, free_map, op, failures>>

\* The machine stops anywhere and starts again: filesys_init().
Crash ==
    /\ free_map' = disk_map
    /\ open_inodes' = [s \in Sector |-> NULL]
    /\ file' = [h \in Handle |-> NULL]
    /\ op' = Idle
    /\ UNCHANGED <<diskVars, failures>>

Creating == CreateExtent \/ CreateInode \/ CreateZeros \/ DirAdd \/ CreateUndo

Next ==
    \/ \E n \in Name :
          \/ \E size \in 0..MaxSize : Create(n, size)
          \/ \E h \in Handle : Open(n, h)
          \/ Remove(n)
    \/ Creating
    \/ \E h \in Handle :
          \/ Close(h)
          \/ \E copy \in Handle : Reopen(h, copy)
          \/ \E i \in 0..(MaxSize - 1), v \in Data : Write(h, i, v)
          \/ \E deny \in BOOLEAN : SetDeny(h, deny)
    \/ FreeInode \/ FreeExtent
    \/ Crash

Spec == Init /\ [][Next]_vars

-----------------------------------------------------------------------------
Used == {k \in Slot : slots[k] # NULL}
Linked == {slots[k].sector : k \in Used}
OpenSectors == {s \in Sector : open_inodes[s] # NULL}
\* All the sectors of the file whose inode is in s.
Blocks(s) == {s} \cup DataOf(IF open_inodes[s] # NULL THEN open_inodes[s] ELSE disk[s])

(***************************************************************************)
(* Whatever happens and wherever it stops: an entry of the directory leads *)
(* to an inode, and the sectors of the files that have a name or are open  *)
(* are in use in memory, on the disk if they have a name, and shared by no *)
(* two files.                                                              *)
(***************************************************************************)
FilesAreSound ==
    /\ FilesysTypeOK
    /\ \A s \in Linked : disk[s] \in Inode /\ Blocks(s) \subseteq disk_map
    /\ \A s \in Linked \cup OpenSectors : Blocks(s) \subseteq free_map
    /\ \A s, r \in Linked \cup OpenSectors : s # r => Blocks(s) \cap Blocks(r) = {}

(***************************************************************************)
(* inode.c: an inode is open as often as files have it open, and denies    *)
(* writes as often as files do: "0: writes ok, >0: deny writes".           *)
(***************************************************************************)
CountsRight ==
    \A s \in Sector :
        LET files == {h \in Handle : file[h] # NULL /\ file[h].sector = s} IN
        IF open_inodes[s] = NULL THEN files = {}
        ELSE /\ open_inodes[s].open_cnt = Cardinality(files)
             /\ open_inodes[s].deny_write_cnt =
                    Cardinality({h \in files : file[h].deny_write})

(***************************************************************************)
(* file.c:116: file_deny_write() "prevents write operations on FILE's      *)
(* underlying inode until file_allow_write() is called or FILE is closed". *)
(***************************************************************************)
DeniedIsUnchanged ==
    [][\A h \in Handle :
          file[h] # NULL /\ file[h].deny_write /\ file'[h] = file[h] =>
              \A s \in Blocks(file[h].sector) : disk'[s] = disk[s]]_vars

(***************************************************************************)
(* directory.c:159: dir_add() puts the new entry into a "free slot" or, if *)
(* there is none, at "the current end-of-file": never over another entry,  *)
(* unless memory runs out in this very step, when it takes a used slot for *)
(* the end of the directory.                                               *)
(***************************************************************************)
EntriesKept ==
    [][failures' = failures =>
          \A k \in Used : slots'[k] \in {slots[k], NULL}]_vars

\* What a call is not about stays as it is: denied files and other entries.
OthersUntouched == DeniedIsUnchanged /\ EntriesKept

\* The files that have a name, as the disk has them.
NamedFiles ==
    [n \in Name |->
        IF Lookup(n, Slots + 1) = {} THEN NULL
        ELSE LET inode == disk[slots[CHOOSE k \in Lookup(n, Slots + 1) : TRUE].sector]
             IN [i \in 1..inode.size |-> disk[inode.start + i - 1]]]

FS == INSTANCE FileStore WITH files <- NamedFiles

(***************************************************************************)
(* The files that have a name only change as a whole, wherever a call or   *)
(* the machine stops, as long as memory does not run out.                  *)
(***************************************************************************)
ImplementsFileStore ==
    FS!Init /\ [][failures' = 0 => UNCHANGED NamedFiles \/ FS!Next]_vars
=============================================================================
