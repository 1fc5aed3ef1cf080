---------------------------- MODULE FilesysProofs ----------------------------
(***************************************************************************)
(* Theorems about Filesys, for any number of sectors, entries, names and   *)
(* open files, any crash and any number of failing allocations.            *)
(***************************************************************************)
EXTENDS Filesys, FiniteSetTheorems, WellFoundedInduction, TLAPS

-----------------------------------------------------------------------------
(* The inductive invariant *)

\* What an inode needs to say where its data is.
Placed(inode) ==
    /\ inode.size \in 0..MaxSize
    /\ inode.start \in Sector \cup {NULL}
    /\ inode.size > 0 => inode.start \in Sector

\* The inode of s that counts, and the inodes of the files there are.
InodeOf(s) == IF open_inodes[s] # NULL THEN open_inodes[s] ELSE disk[s]
Live == Linked \cup OpenSectors

\* The steps of filesys_create() up to the new entry.
CreateAt == {"extent", "inode", "zeros", "add"}

OpOK ==
    /\ op.at = "idle" => op = Idle
    /\ op.at = "extent" =>
          op \in [at : {"extent"}, name : Name, size : 0..MaxSize, sector : Sector]
    /\ op.at = "inode" =>
          /\ op \in [at : {"inode"}, name : Name, sector : Sector,
                     size : 0..MaxSize, start : Sector \cup {NULL}]
          /\ Placed(op)
    /\ op.at \in {"zeros", "add"} =>
          /\ op \in [at : {"zeros", "add"}, name : Name, sector : Sector,
                     inode : Inode, i : 0..MaxSize]
          /\ Placed(op.inode)
          /\ disk[op.sector] = op.inode
    /\ op.at = "zeros" => op.i < op.inode.size
    /\ op.at = "undo" => op \in [at : {"undo"}, sector : Sector]
    /\ op.at \in {"free", "free_extent"} =>
          /\ op \in [at : {"free", "free_extent"}, sector : Sector, inode : OpenInode]
          /\ Placed(op.inode)

\* The sectors the call in progress has in its hands: the one of the inode,
\* and those of the data.
BusyInode ==
    IF op.at \in CreateAt \cup {"undo", "free"} THEN {op.sector} ELSE {}
BusyData ==
    IF op.at = "inode" THEN DataOf(op)
    ELSE IF op.at \in {"zeros", "add", "free", "free_extent"} THEN DataOf(op.inode)
    ELSE {}
Busy == BusyInode \cup BusyData

\* An entry of the directory has its inode for itself; it leads to one that
\* says where its data is; and the inode in memory says what the one on the
\* disk does, as long as the file has a name.
SlotsApart == \A k, j \in Used : slots[k].sector = slots[j].sector => k = j
Shape ==
    /\ SlotsApart
    /\ \A s \in Linked : disk[s] \in Inode /\ Placed(disk[s])
    /\ \A s \in OpenSectors : Placed(open_inodes[s])
    /\ \A s \in Linked \cap OpenSectors :
          /\ open_inodes[s].start = disk[s].start
          /\ open_inodes[s].size = disk[s].size
          /\ ~open_inodes[s].removed

\* The sectors of the files are in use, and of one file only.
Space ==
    /\ \A s \in Linked : Blocks(s) \subseteq disk_map
    /\ \A s \in Live : Blocks(s) \subseteq free_map /\ s \notin DataOf(InodeOf(s))
    /\ \A s, r \in Live : s # r => Blocks(s) \cap Blocks(r) = {}

\* So are those of the call in progress; on the disk too as soon as a crash
\* could make a file of them.
BusyOK ==
    /\ Busy \subseteq free_map
    /\ op.at \in CreateAt => Busy \subseteq disk_map
    /\ BusyInode \cap BusyData = {}
    /\ \A s \in Live : Busy \cap Blocks(s) = {}

(***************************************************************************)
(* Why no two files share a sector.                                        *)
(***************************************************************************)
SoundInv == FilesysTypeOK /\ OpOK /\ Shape /\ Space /\ BusyOK

FilesOf(s) == {h \in Handle : file[h] # NULL /\ file[h].sector = s}
DenyingOf(s) == {h \in FilesOf(s) : file[h].deny_write}

\* Why the counts are right: only finitely many files are ever open.
CountInv ==
    /\ \A s \in Sector : IsFiniteSet(FilesOf(s))
    /\ CountsRight

-----------------------------------------------------------------------------
(* What the operators of Filesys say *)

LEMMA Least ==
  ASSUME NEW S, S \subseteq Nat, S # {}
  PROVE  \E m \in S : \A n \in S : m <= n
  <1>1. PICK m \in S : \A n \in S : ~(<<n, m>> \in OpToRel(<, Nat))
    BY WFMin, NatLessThanWellFounded
  <1>2. \A n \in S : ~(n < m)
    BY <1>1 DEF OpToRel
  <1> QED BY <1>2

\* free_map_allocate() gives a run of free sectors.
LEMMA FirstFree ==
  ASSUME FilesysTypeOK, NEW size \in Nat, size # 0, Free(size) # {}
  PROVE  /\ First(size) \in Sector
         /\ Extent(First(size), size) \subseteq Sector \ free_map
  <1>1. Free(size) \subseteq Nat
    BY FilesysAssumption DEF Free, Sector
  <1>2. PICK m \in Free(size) : \A n \in Free(size) : m <= n
    BY <1>1, Least
  <1>3. First(size) = CHOOSE s \in Free(size) : \A r \in Free(size) : s <= r
    BY DEF First
  <1>4. First(size) \in Free(size)
    BY <1>2, <1>3
  <1> QED BY <1>4 DEF Free

\* dir_add() finds a free slot or stops where the directory ends for it.
LEMMA FreeSlotFound ==
  ASSUME NEW stop \in Stop
  PROVE  /\ FreeSlot(stop) \in 1..stop
         /\ FreeSlot(stop) = stop \/ slots[FreeSlot(stop)] = NULL
         /\ FreeSlot(stop) \in Int
  <1> DEFINE S == {k \in 1..stop : k = stop \/ slots[k] = NULL}
             P(k) == /\ k = stop \/ slots[k] = NULL
                     /\ \A j \in 1..(k - 1) : slots[j] # NULL
  <1>0. stop \in Nat \ {0}
    BY FilesysAssumption DEF Stop
  <1>1. S \subseteq Nat /\ stop \in S
    BY <1>0
  <1>2. PICK m \in S : \A n \in S : m <= n
    <2> HIDE DEF S
    <2> QED BY <1>1, Least
  <1>3. \A j \in 1..(m - 1) : j \in 1..stop /\ j \notin S
    BY <1>0, <1>1, <1>2
  <1>4. m \in 1..stop /\ P(m)
    BY <1>2, <1>3
  <1>5. FreeSlot(stop) = CHOOSE k \in 1..stop : P(k)
    BY DEF FreeSlot
  <1>6. FreeSlot(stop) \in 1..stop /\ P(FreeSlot(stop))
    <2> HIDE DEF P
    <2> QED BY <1>4, <1>5
  <1> QED BY <1>0, <1>6

LEMMA SameData ==
  ASSUME NEW i, NEW j, i.start = j.start, i.size = j.size
  PROVE  DataOf(i) = DataOf(j)
  BY DEF DataOf, Extent

LEMMA BlocksAre == \A s : Blocks(s) = {s} \cup DataOf(InodeOf(s))
  BY DEF Blocks, InodeOf

LEMMA DataAt ==
  ASSUME NEW inode, Placed(inode), NEW i \in Nat, i < inode.size
  PROVE  inode.start + i \in DataOf(inode)
  BY FilesysAssumption DEF Placed, DataOf, Extent, Sector

-----------------------------------------------------------------------------
(* Steps that leave the files as they are, or take some of them away *)

FilesLeft ==
    /\ Linked' \subseteq Linked
    /\ Live' \subseteq Live
    /\ \A s \in Live' : /\ Blocks(s)' = Blocks(s)
                        /\ DataOf(InodeOf(s))' = DataOf(InodeOf(s))

LEMMA Inodes ==
  ASSUME SoundInv
  PROVE  /\ Live \subseteq Sector
         /\ \A s \in Live : InodeOf(s) \in Inode \cup OpenInode /\ Placed(InodeOf(s))
         /\ \A s \in Linked : DataOf(disk[s]) = DataOf(InodeOf(s))
  <1>1. Linked \subseteq Sector
    BY NullAssumption DEF SoundInv, FilesysTypeOK, Linked, Used
  <1>2. OpenSectors \subseteq Sector
    BY DEF OpenSectors
  <1>3. \A s \in OpenSectors : open_inodes[s] \in OpenInode
    BY DEF OpenSectors, SoundInv, FilesysTypeOK
  <1>4. \A s \in Live : InodeOf(s) \in Inode \cup OpenInode /\ Placed(InodeOf(s))
    BY <1>1, <1>2, <1>3 DEF Live, InodeOf, SoundInv, Shape, OpenSectors
  <1>5. ASSUME NEW s \in Linked
        PROVE  DataOf(disk[s]) = DataOf(InodeOf(s))
    <2>1. CASE open_inodes[s] = NULL
      BY <2>1 DEF InodeOf
    <2>2. CASE open_inodes[s] # NULL
      <3>1. s \in Linked \cap OpenSectors
        BY <2>2, <1>1 DEF OpenSectors
      <3>2. InodeOf(s).start = disk[s].start /\ InodeOf(s).size = disk[s].size
        BY <3>1, <2>2 DEF SoundInv, Shape, InodeOf
      <3> QED BY <3>2, SameData
    <2> QED BY <2>1, <2>2
  <1> QED BY <1>1, <1>2, <1>4, <1>5 DEF Live

\* The directory, the inodes in memory and those on the disk stay.
LEMMA SameFiles ==
  ASSUME SoundInv, slots' = slots, open_inodes' = open_inodes,
         \A s \in Live : disk'[s] = disk[s]
  PROVE  Shape' /\ FilesLeft /\ Live' = Live
  <1>1. Used' = Used /\ Linked' = Linked /\ OpenSectors' = OpenSectors /\ Live' = Live
    BY DEF Used, Linked, OpenSectors, Live
  <1>2. \A s \in Live : Blocks(s)' = Blocks(s)
    BY DEF Blocks, DataOf
  <1>3. \A s \in Live : DataOf(InodeOf(s))' = DataOf(InodeOf(s))
    BY DEF InodeOf, DataOf
  <1>4. Shape'
    BY <1>1 DEF SoundInv, Shape, SlotsApart, Live, Placed
  <1> QED BY <1>1, <1>2, <1>3, <1>4 DEF FilesLeft

\* The inode of s changes in memory, but not where its data is.
LEMMA InodeChanged ==
  ASSUME SoundInv, NEW s \in Live, NEW x \in OpenInode,
         x.start = InodeOf(s).start, x.size = InodeOf(s).size,
         Linked' \subseteq Linked, SlotsApart', s \in Linked' => ~x.removed,
         disk' = disk, open_inodes' = [open_inodes EXCEPT ![s] = x]
  PROVE  Shape' /\ FilesLeft
  <1>0. s \in Sector /\ open_inodes \in [Sector -> OpenInode \cup {NULL}]
    BY Inodes DEF SoundInv, FilesysTypeOK
  <1>1. x # NULL
    BY NullAssumption
  <1>2. open_inodes'[s] = x /\ \A r \in Sector \ {s} : open_inodes'[r] = open_inodes[r]
    BY <1>0
  <1>3. OpenSectors' = OpenSectors \cup {s}
    BY <1>0, <1>1, <1>2 DEF OpenSectors
  <1>4. Live' \subseteq Live
    BY <1>3 DEF Live
  <1>5. \A r \in Live' : DataOf(InodeOf(r))' = DataOf(InodeOf(r))
    <2> SUFFICES ASSUME NEW r \in Live'
                 PROVE  DataOf(InodeOf(r))' = DataOf(InodeOf(r))
      OBVIOUS
    <2>1. CASE r = s
      <3>1. DataOf(InodeOf(s)) = DataOf(x)
        BY SameData
      <3>2. DataOf(InodeOf(s))' = DataOf(x)
        BY <1>1, <1>2 DEF InodeOf, DataOf
      <3> QED BY <2>1, <3>1, <3>2
    <2>2. CASE r # s
      <3>1. r \in Sector
        BY <1>4, Inodes
      <3>2. open_inodes'[r] = open_inodes[r] /\ disk'[r] = disk[r]
        BY <1>2, <2>2, <3>1
      <3> QED BY <3>2 DEF InodeOf, DataOf
    <2> QED BY <2>1, <2>2
  <1>6. \A r : Blocks(r)' = {r} \cup DataOf(InodeOf(r))'
    BY DEF Blocks, InodeOf
  <1>7. FilesLeft
    BY <1>4, <1>5, <1>6, BlocksAre DEF FilesLeft
  <1>8. Placed(x)
    BY Inodes DEF Placed
  <1>9. \A r \in OpenSectors' : Placed(open_inodes'[r])
    BY <1>2, <1>3, <1>8 DEF OpenSectors, SoundInv, Shape
  <1>10. ASSUME NEW r \in Linked' \cap OpenSectors'
         PROVE  /\ open_inodes'[r].start = disk[r].start
                /\ open_inodes'[r].size = disk[r].size
                /\ ~open_inodes'[r].removed
    <2>0. \A t \in Linked \cap OpenSectors :
             /\ open_inodes[t].start = disk[t].start
             /\ open_inodes[t].size = disk[t].size
             /\ ~open_inodes[t].removed
      BY DEF SoundInv, Shape
    <2>1. CASE r # s
      <3>1. r \in Linked \cap OpenSectors /\ r \in Sector
        BY <1>3, <2>1 DEF OpenSectors
      <3>2. open_inodes'[r] = open_inodes[r]
        BY <1>2, <2>1, <3>1
      <3> QED BY <2>0, <3>1, <3>2
    <2>2. CASE r = s /\ open_inodes[s] # NULL
      <3>1. s \in Linked \cap OpenSectors
        BY <1>0, <2>2 DEF OpenSectors
      <3>2. InodeOf(s) = open_inodes[s]
        BY <2>2 DEF InodeOf
      <3> QED BY <2>0, <2>2, <1>2, <3>1, <3>2
    <2>3. CASE r = s /\ open_inodes[s] = NULL
      <3>1. InodeOf(s) = disk[s]
        BY <2>3 DEF InodeOf
      <3> QED BY <2>3, <1>2, <3>1
    <2> QED BY <2>1, <2>2, <2>3
  <1>11. \A r \in Linked' : disk'[r] \in Inode /\ Placed(disk[r])
    BY DEF SoundInv, Shape
  <1>12. Shape'
    BY <1>9, <1>10, <1>11 DEF Shape, Placed
  <1> QED BY <1>7, <1>12

\* The inode of s goes from memory.
LEMMA InodeGone ==
  ASSUME SoundInv, NEW s \in Live, Linked' \subseteq Linked, SlotsApart',
         disk' = disk, open_inodes' = [open_inodes EXCEPT ![s] = NULL]
  PROVE  Shape' /\ FilesLeft /\ (s \notin Linked' => s \notin Live')
  <1>0. s \in Sector /\ open_inodes \in [Sector -> OpenInode \cup {NULL}]
    BY Inodes DEF SoundInv, FilesysTypeOK
  <1>1. open_inodes'[s] = NULL /\ \A r \in Sector \ {s} : open_inodes'[r] = open_inodes[r]
    BY <1>0
  <1>2. OpenSectors' = OpenSectors \ {s}
    BY <1>0, <1>1 DEF OpenSectors
  <1>3. Live' \subseteq Live /\ (s \notin Linked' => s \notin Live')
    BY <1>2 DEF Live
  <1>4. \A r \in Live' : DataOf(InodeOf(r))' = DataOf(InodeOf(r))
    <2> SUFFICES ASSUME NEW r \in Live'
                 PROVE  DataOf(InodeOf(r))' = DataOf(InodeOf(r))
      OBVIOUS
    <2>1. CASE r = s
      <3>1. s \in Linked
        BY <1>3, <2>1
      <3>2. DataOf(InodeOf(s))' = DataOf(disk[s])
        BY <1>1 DEF InodeOf, DataOf
      <3> QED BY <2>1, <3>1, <3>2, Inodes
    <2>2. CASE r # s
      <3>1. r \in Sector
        BY <1>3, Inodes
      <3>2. open_inodes'[r] = open_inodes[r] /\ disk'[r] = disk[r]
        BY <1>1, <2>2, <3>1
      <3> QED BY <3>2 DEF InodeOf, DataOf
    <2> QED BY <2>1, <2>2
  <1>5. \A r : Blocks(r)' = {r} \cup DataOf(InodeOf(r))'
    BY DEF Blocks, InodeOf
  <1>6. FilesLeft
    BY <1>3, <1>4, <1>5, BlocksAre DEF FilesLeft
  <1>7. \A r \in OpenSectors' : r \in OpenSectors /\ open_inodes'[r] = open_inodes[r]
    BY <1>1, <1>2 DEF OpenSectors
  <1>8. Shape'
    BY <1>7 DEF SoundInv, Shape, Placed
  <1> QED BY <1>3, <1>6, <1>8

\* What is left of the files keeps its sectors, if the maps keep them.
LEMMA SpaceKept ==
  ASSUME SoundInv, FilesLeft,
         \A s \in Linked' : Blocks(s) \subseteq disk_map',
         \A s \in Live' : Blocks(s) \subseteq free_map'
  PROVE  Space'
  <1>1. \A s \in Linked' : s \in Live'
    BY DEF Live
  <1>2. \A s \in Linked' : Blocks(s)' \subseteq disk_map'
    BY <1>1 DEF FilesLeft
  <1>3. \A s \in Live' : Blocks(s)' \subseteq free_map' /\ s \notin DataOf(InodeOf(s))'
    BY DEF FilesLeft, SoundInv, Space
  <1>4. ASSUME NEW s \in Live', NEW r \in Live', s # r
        PROVE  (Blocks(s) \cap Blocks(r))' = {}
    <2>1. Blocks(s) \cap Blocks(r) = {}
      BY <1>4 DEF FilesLeft, SoundInv, Space
    <2> QED BY <2>1 DEF FilesLeft
  <1>5. (\A s, r \in Live : s # r => Blocks(s) \cap Blocks(r) = {})'
    BY <1>4
  <1> QED BY <1>2, <1>3, <1>5 DEF Space

\* A call has to keep what it has in its hands from the files that are left.
LEMMA MapsKept ==
  ASSUME SoundInv, FilesLeft, disk_map' = disk_map, free_map' = free_map
  PROVE  Space'
  <1>1. \A s \in Linked' : Blocks(s) \subseteq disk_map'
    BY DEF FilesLeft, SoundInv, Space
  <1>2. \A s \in Live' : Blocks(s) \subseteq free_map'
    BY DEF FilesLeft, SoundInv, Space
  <1> QED BY <1>1, <1>2, SpaceKept

-----------------------------------------------------------------------------
(* filesys_create() *)

\* What a call has in its hands stays away from the files, if it only takes
\* sectors that are free.
LEMMA BusyApart ==
  ASSUME SoundInv, FilesLeft, NEW fresh, fresh \cap free_map = {},
         Busy' \subseteq Busy \cup fresh
  PROVE  (\A s \in Live : Busy \cap Blocks(s) = {})'
  <1>1. \A s \in Live : /\ Busy \cap Blocks(s) = {}
                        /\ Blocks(s) \subseteq free_map
    BY DEF SoundInv, Space, BusyOK
  <1>2. \A s \in Live' : s \in Live /\ Blocks(s)' = Blocks(s)
    BY DEF FilesLeft
  <1> QED BY <1>1, <1>2

\* The sectors free_map_allocate() takes.
Run(size) == IF size = 0 THEN {} ELSE Extent(First(size), size)

LEMMA AllocatedRun ==
  ASSUME SoundInv, NEW size \in Nat, Allocated(size)
  PROVE  /\ Run(size) \subseteq Sector /\ Run(size) \cap free_map = {}
         /\ free_map' = free_map \cup Run(size) /\ disk_map' = free_map'
         /\ First(size) \in Sector \cup {NULL}
         /\ size # 0 => First(size) \in Sector
         /\ UNCHANGED failures
  <1>1. CASE size = 0
    BY <1>1 DEF Allocated, Run, First
  <1>2. CASE size # 0
    <2>1. Free(size) # {}
      BY <1>2 DEF Allocated
    <2>2. /\ First(size) \in Sector
          /\ Extent(First(size), size) \subseteq Sector \ free_map
      BY <1>2, <2>1, FirstFree DEF SoundInv
    <2> QED BY <1>2, <2>2 DEF Allocated, Run
  <1> QED BY <1>1, <1>2

LEMMA AllocatedKept ==
  ASSUME SoundInv, NEW size \in Nat, Allocated(size), UNCHANGED <<disk, slots, open_inodes>>
  PROVE  Shape' /\ FilesLeft /\ Space'
  <1>1. Shape' /\ FilesLeft /\ Live' = Live
    BY SameFiles
  <1>2. free_map \subseteq free_map' /\ free_map \subseteq disk_map'
    BY AllocatedRun
  <1>3. Linked' \subseteq Live
    BY DEF FilesLeft, Live, Linked, Used
  <1>4. \A s \in Live : Blocks(s) \subseteq free_map
    BY DEF SoundInv, Space
  <1> QED BY <1>1, <1>2, <1>3, <1>4, SpaceKept

LEMMA NotAllocatedKept ==
  ASSUME SoundInv, NEW size, NotAllocated(size)
  PROVE  UNCHANGED <<free_map, disk_map>> /\ failures' \in 0..MaxFailures
  BY FilesysAssumption DEF NotAllocated, Fails, SoundInv, FilesysTypeOK

LEMMA CreateSound ==
  ASSUME SoundInv, NEW name \in Name, NEW size \in 0..MaxSize, Create(name, size)
  PROVE  SoundInv'
  <1>0. UNCHANGED <<disk, slots, open_inodes, file>> /\ op = Idle
    BY DEF Create
  <1>1. CASE Allocated(1) /\ op' = [at |-> "extent", name |-> name, size |-> size,
                                    sector |-> First(1)]
    <2>1. /\ Run(1) \subseteq Sector /\ Run(1) \cap free_map = {}
          /\ free_map' = free_map \cup Run(1) /\ disk_map' = free_map'
          /\ First(1) \in Sector /\ UNCHANGED failures
      BY <1>1, AllocatedRun
    <2>2. Run(1) = {First(1)}
      BY <2>1, FilesysAssumption DEF Run, Extent, Sector
    <2>3. Shape' /\ FilesLeft /\ Space'
      BY <1>0, <1>1, AllocatedKept
    <2>4. Busy' = Run(1) /\ (BusyInode \cap BusyData)' = {}
      BY <1>1, <2>2 DEF Busy, BusyInode, BusyData, CreateAt
    <2>5. BusyOK'
      <3>1. (\A s \in Live : Busy \cap Blocks(s) = {})'
        BY <2>1, <2>3, <2>4, BusyApart
      <3> QED BY <2>1, <2>4, <3>1 DEF BusyOK
    <2>6. FilesysTypeOK'
      BY <1>0, <1>1, <2>1 DEF SoundInv, FilesysTypeOK
    <2>7. OpOK'
      BY <1>1, <2>1 DEF OpOK
    <2> QED BY <2>3, <2>5, <2>6, <2>7 DEF SoundInv
  <1>2. CASE NotAllocated(1) /\ UNCHANGED op
    <2>1. UNCHANGED <<free_map, disk_map>> /\ failures' \in 0..MaxFailures
      BY <1>2, NotAllocatedKept
    <2>2. Shape' /\ FilesLeft
      BY <1>0, SameFiles
    <2>3. Space'
      BY <2>1, <2>2, MapsKept
    <2>4. BusyOK'
      BY <1>0, <1>2 DEF Idle, BusyOK, Busy, BusyInode, BusyData, CreateAt
    <2>5. FilesysTypeOK'
      BY <1>0, <1>2, <2>1 DEF SoundInv, FilesysTypeOK
    <2>6. OpOK'
      BY <1>0, <1>2 DEF OpOK, Idle
    <2> QED BY <2>2, <2>3, <2>4, <2>5, <2>6 DEF SoundInv
  <1> QED BY <1>1, <1>2 DEF Create

LEMMA CreateExtentSound ==
  ASSUME SoundInv, CreateExtent
  PROVE  SoundInv'
  <1>0. /\ UNCHANGED <<disk, slots, open_inodes, file>> /\ op.at = "extent"
        /\ op \in [at : {"extent"}, name : Name, size : 0..MaxSize, sector : Sector]
        /\ op.size \in Nat
    BY FilesysAssumption DEF CreateExtent, SoundInv, OpOK
  <1>1. Busy = {op.sector} /\ Busy \subseteq free_map /\ Busy \subseteq disk_map
    BY <1>0 DEF SoundInv, BusyOK, Busy, BusyInode, BusyData, CreateAt
  <1>2. CASE /\ Allocated(op.size)
             /\ op' = [at |-> "inode", name |-> op.name, sector |-> op.sector,
                       size |-> op.size, start |-> First(op.size)]
    <2>1. /\ Run(op.size) \subseteq Sector /\ Run(op.size) \cap free_map = {}
          /\ free_map' = free_map \cup Run(op.size) /\ disk_map' = free_map'
          /\ First(op.size) \in Sector \cup {NULL}
          /\ op.size # 0 => First(op.size) \in Sector
          /\ UNCHANGED failures
      BY <1>0, <1>2, AllocatedRun
    <2>2. Shape' /\ FilesLeft /\ Space'
      BY <1>0, <1>2, AllocatedKept
    <2>3. BusyData' = Run(op.size) /\ BusyInode' = {op.sector}
      BY <1>2 DEF BusyInode, BusyData, CreateAt, DataOf, Run
    <2>4. Busy' = Busy \cup Run(op.size)
      BY <1>1, <2>3 DEF Busy
    <2>5. BusyOK'
      <3>1. (\A s \in Live : Busy \cap Blocks(s) = {})'
        BY <2>1, <2>2, <2>4, BusyApart
      <3>2. (BusyInode \cap BusyData)' = {}
        BY <1>1, <2>1, <2>3
      <3> QED BY <1>1, <2>1, <2>4, <3>1, <3>2 DEF BusyOK
    <2>6. FilesysTypeOK'
      BY <1>0, <1>2, <2>1 DEF SoundInv, FilesysTypeOK
    <2>7. Placed(op)'
      BY <1>0, <1>2, <2>1 DEF Placed
    <2>8. OpOK'
      BY <1>0, <1>2, <2>1, <2>7 DEF OpOK
    <2> QED BY <2>2, <2>5, <2>6, <2>8 DEF SoundInv
  <1>3. CASE NotAllocated(op.size) /\ op' = [at |-> "undo", sector |-> op.sector]
    <2>1. UNCHANGED <<free_map, disk_map>> /\ failures' \in 0..MaxFailures
      BY <1>3, NotAllocatedKept
    <2>2. Shape' /\ FilesLeft
      BY <1>0, SameFiles
    <2>3. Space'
      BY <2>1, <2>2, MapsKept
    <2>4. Busy' = Busy /\ (BusyInode \cap BusyData)' = {}
      BY <1>1, <1>3 DEF Busy, BusyInode, BusyData, CreateAt
    <2>5. BusyOK'
      <3>1. (\A s \in Live : Busy \cap Blocks(s) = {})'
        BY <2>2, <2>4, BusyApart
      <3> QED BY <1>1, <2>1, <2>4, <3>1 DEF BusyOK
    <2>6. FilesysTypeOK'
      BY <1>0, <1>3, <2>1 DEF SoundInv, FilesysTypeOK
    <2>7. OpOK'
      BY <1>0, <1>3 DEF OpOK
    <2> QED BY <2>2, <2>3, <2>5, <2>6, <2>7 DEF SoundInv
  <1> QED BY <1>2, <1>3 DEF CreateExtent

LEMMA BusyNotLive ==
  ASSUME SoundInv, NEW s \in Busy
  PROVE  s \notin Live /\ s \in Sector
  <1>1. \A r \in Live : r \in Blocks(r)
    BY DEF Blocks
  <1> QED BY <1>1 DEF SoundInv, FilesysTypeOK, BusyOK

\* The maps and the files stay, and so does what the call has in its hands.
LEMMA BusyKept ==
  ASSUME SoundInv, UNCHANGED <<slots, open_inodes, free_map, disk_map>>,
         \A s \in Live : disk'[s] = disk[s],
         BusyInode' = BusyInode, BusyData' = BusyData, op.at \in CreateAt
  PROVE  Shape' /\ Space' /\ BusyOK'
  <1>1. Shape' /\ FilesLeft
    BY SameFiles
  <1>2. Space'
    BY <1>1, MapsKept
  <1>3. Busy' = Busy
    BY DEF Busy
  <1>4. (\A s \in Live : Busy \cap Blocks(s) = {})'
    <2>1. Busy' \subseteq Busy \cup {} /\ {} \cap free_map = {}
      BY <1>3
    <2> QED BY <1>1, <2>1, BusyApart
  <1> QED BY <1>1, <1>2, <1>3, <1>4 DEF SoundInv, BusyOK

LEMMA CreateInodeSound ==
  ASSUME SoundInv, CreateInode
  PROVE  SoundInv'
  <1> DEFINE new == [start |-> op.start, size |-> op.size]
  <1>0. /\ UNCHANGED <<slots, open_inodes, free_map, disk_map, file, failures>>
        /\ op.at = "inode"
        /\ op \in [at : {"inode"}, name : Name, sector : Sector,
                   size : 0..MaxSize, start : Sector \cup {NULL}]
        /\ Placed(op)
        /\ disk \in [Sector -> Data \cup Inode]
    BY DEF CreateInode, SoundInv, OpOK, memVars, FilesysTypeOK
  <1>1. new \in Inode /\ Placed(new) /\ DataOf(new) = DataOf(op)
    <2>1. DataOf(new) = DataOf(op)
      BY SameData
    <2> QED BY <1>0, <2>1 DEF Inode, Placed
  <1>2. /\ disk' = [disk EXCEPT ![op.sector] = new]
        /\ op' = [at |-> IF op.size = 0 THEN "add" ELSE "zeros", name |-> op.name,
                  sector |-> op.sector, inode |-> disk'[op.sector], i |-> 0]
    BY DEF CreateInode
  <1> HIDE DEF new
  <1>3. disk'[op.sector] = new /\ \A s \in Sector : s # op.sector => disk'[s] = disk[s]
    BY <1>0, <1>2
  <1>4. /\ op'.at \in {"zeros", "add"} /\ op'.inode = new /\ op'.sector = op.sector
        /\ op'.i = 0 /\ op'.name = op.name
        /\ (op'.at = "zeros" => op.size # 0)
    BY <1>2, <1>3
  <1>5. op.sector \in Busy
    BY <1>0 DEF Busy, BusyInode, CreateAt
  <1>6. \A s \in Live : disk'[s] = disk[s]
    BY <1>3, <1>5, BusyNotLive, Inodes
  <1>7. BusyInode' = BusyInode /\ BusyData' = BusyData
    <2>1. BusyInode' = BusyInode
      BY <1>0, <1>4 DEF BusyInode, CreateAt
    <2>2. DataOf(op.inode)' = DataOf(new)
      BY <1>4 DEF DataOf
    <2>3. BusyData' = DataOf(new)
      BY <1>4, <2>2 DEF BusyData
    <2> QED BY <1>0, <1>1, <2>1, <2>3 DEF BusyData
  <1>8. Shape' /\ Space' /\ BusyOK'
    BY <1>0, <1>6, <1>7, BusyKept DEF CreateAt
  <1>9. FilesysTypeOK'
    BY <1>0, <1>1, <1>2, <1>4 DEF SoundInv, FilesysTypeOK
  <1>10. OpOK'
    <2>1. op' \in [at : {"zeros", "add"}, name : Name, sector : Sector,
                   inode : Inode, i : 0..MaxSize]
      BY <1>0, <1>1, <1>2, <1>3, FilesysAssumption
    <2>2. new.size = op.size /\ op.size \in 0..MaxSize
      BY <1>0 DEF new
    <2>3. op'.at = "zeros" => op'.i < op'.inode.size
      BY <1>4, <2>2, FilesysAssumption
    <2>4. Placed(op.inode)'
      BY <1>1, <1>4 DEF Placed
    <2> QED BY <1>1, <1>3, <1>4, <2>1, <2>3, <2>4 DEF OpOK
  <1> QED BY <1>8, <1>9, <1>10 DEF SoundInv

LEMMA CreateZerosSound ==
  ASSUME SoundInv, CreateZeros
  PROVE  SoundInv'
  <1> DEFINE at == op.inode.start + op.i
  <1>0. /\ UNCHANGED <<slots, open_inodes, free_map, disk_map, file, failures>>
        /\ op.at = "zeros"
        /\ op \in [at : {"zeros", "add"}, name : Name, sector : Sector,
                   inode : Inode, i : 0..MaxSize]
        /\ Placed(op.inode) /\ op.i < op.inode.size /\ disk[op.sector] = op.inode
        /\ disk \in [Sector -> Data \cup Inode]
    BY DEF CreateZeros, SoundInv, OpOK, memVars, FilesysTypeOK
  <1>1. BusyData = DataOf(op.inode) /\ BusyInode = {op.sector}
    BY <1>0 DEF BusyData, BusyInode, CreateAt
  <1>2. at \in BusyData
    BY <1>0, <1>1, DataAt, FilesysAssumption
  <1>3. at \in Busy /\ at # op.sector
    BY <1>1, <1>2 DEF Busy, SoundInv, BusyOK
  <1>4. disk' = [disk EXCEPT ![at] = ZERO]
    BY DEF CreateZeros
  <1> HIDE DEF at
  <1>5. \A s \in Sector : s # at => disk'[s] = disk[s]
    BY <1>0, <1>4
  <1>6. \A s \in Live : disk'[s] = disk[s]
    BY <1>3, <1>5, BusyNotLive, Inodes
  <1>7. /\ op' \in [at : {"zeros", "add"}, name : Name, sector : Sector,
                    inode : Inode, i : 0..MaxSize]
        /\ op'.inode = op.inode /\ op'.sector = op.sector
        /\ op'.at = "zeros" => op'.i < op'.inode.size
    <2>1. op.i \in Nat /\ op.inode.size \in 0..MaxSize
      BY <1>0, FilesysAssumption DEF Inode
    <2>2. CASE op.i + 1 = op.inode.size
      <3>1. op' = [op EXCEPT !.at = "add"]
        BY <2>2 DEF CreateZeros
      <3> QED BY <1>0, <3>1
    <2>3. CASE op.i + 1 # op.inode.size
      <3>1. op' = [op EXCEPT !.i = @ + 1]
        BY <2>3 DEF CreateZeros
      <3>2. op.i + 1 \in 0..MaxSize /\ op.i + 1 < op.inode.size
        BY <1>0, <2>1, <2>3, FilesysAssumption
      <3> QED BY <1>0, <3>1, <3>2
    <2> QED BY <2>2, <2>3
  <1>8. op'.at \in {"zeros", "add"}
    BY <1>7
  <1>9. BusyInode' = BusyInode /\ BusyData' = BusyData
    <2>1. DataOf(op.inode)' = DataOf(op.inode)
      BY <1>7 DEF DataOf
    <2> QED BY <1>1, <1>7, <1>8, <2>1 DEF BusyData, BusyInode, CreateAt
  <1>10. Shape' /\ Space' /\ BusyOK'
    BY <1>0, <1>6, <1>9, BusyKept DEF CreateAt
  <1>11. FilesysTypeOK'
    BY <1>0, <1>4, <1>8, FilesysAssumption DEF SoundInv, FilesysTypeOK
  <1>12. OpOK'
    <2>1. Placed(op.inode)'
      BY <1>0, <1>7 DEF Placed
    <2>2. disk'[op.sector] = op.inode
      BY <1>0, <1>3, <1>5
    <2> QED BY <1>7, <1>8, <2>1, <2>2 DEF OpOK
  <1> QED BY <1>10, <1>11, <1>12 DEF SoundInv

\* The new file has a name.
LEMMA NamedSound ==
  ASSUME SoundInv, op.at = "add", NEW k \in Slot,
         slots' = [slots EXCEPT ![k] = [name |-> op.name, sector |-> op.sector]],
         op' = Idle, UNCHANGED <<disk, disk_map, free_map, open_inodes, file>>,
         failures' \in 0..MaxFailures
  PROVE  SoundInv'
  <1> DEFINE new == op.sector
  <1>0. /\ op \in [at : {"zeros", "add"}, name : Name, sector : Sector,
                   inode : Inode, i : 0..MaxSize]
        /\ Placed(op.inode) /\ disk[new] = op.inode
        /\ slots \in [Slot -> [name : Name, sector : Sector] \cup {NULL}]
    BY DEF SoundInv, OpOK, FilesysTypeOK
  <1>1. BusyData = DataOf(op.inode) /\ BusyInode = {new}
    BY DEF BusyData, BusyInode, CreateAt
  <1>2. new \notin Live /\ new \in Sector
    BY <1>1, BusyNotLive DEF Busy
  <1>3. open_inodes[new] = NULL
    BY <1>2 DEF Live, OpenSectors
  <1>4. Blocks(new) = Busy /\ DataOf(InodeOf(new)) = BusyData
    BY <1>0, <1>1, <1>3 DEF Blocks, Busy, InodeOf
  <1>5. /\ slots'[k] = [name |-> op.name, sector |-> new]
        /\ slots'[k] # NULL /\ slots'[k].sector = new
        /\ \A j \in Slot : j # k => slots'[j] = slots[j]
    BY <1>0, NullAssumption
  <1>6. Used' = Used \cup {k}
    BY <1>5 DEF Used
  <1>7. /\ new \in Linked' /\ \A s \in Linked' : s \in Linked \/ s = new
        /\ OpenSectors' = OpenSectors
        /\ \A s \in Live' : s \in Live \/ s = new
    BY <1>5, <1>6 DEF Linked, Used, OpenSectors, Live
  <1> HIDE DEF new
  <1>8. \A s : Blocks(s)' = Blocks(s) /\ DataOf(InodeOf(s))' = DataOf(InodeOf(s))
    BY DEF Blocks, InodeOf, DataOf
  <1>9. Shape'
    <2>1. SlotsApart'
      <3>1. \A j \in Used : slots[j].sector # new
        BY <1>2 DEF Live, Linked
      <3>2. \A j \in Used' : j = k \/ (j \in Used /\ slots'[j] = slots[j])
        BY <1>5, <1>6 DEF Used
      <3> QED BY <1>5, <3>1, <3>2 DEF SlotsApart, SoundInv, Shape
    <2>2. \A s \in Linked' : disk'[s] \in Inode /\ Placed(disk'[s])
      BY <1>0, <1>7 DEF SoundInv, Shape
    <2>3. \A s \in Linked' \cap OpenSectors' : s \in Linked \cap OpenSectors
      BY <1>2, <1>7 DEF Live
    <2> QED BY <1>7, <2>1, <2>2, <2>3 DEF SoundInv, Shape, Placed
  <1>10. Busy \subseteq free_map /\ Busy \subseteq disk_map /\ new \notin BusyData
    BY <1>1 DEF SoundInv, BusyOK, CreateAt
  <1>11. \A s \in Live : Busy \cap Blocks(s) = {}
    BY DEF SoundInv, BusyOK
  <1>12. Space'
    <2>1. \A s \in Linked' : Blocks(s) \subseteq disk_map
      BY <1>4, <1>7, <1>10 DEF SoundInv, Space
    <2>2. \A s \in Live' : Blocks(s) \subseteq free_map /\ s \notin DataOf(InodeOf(s))
      BY <1>4, <1>7, <1>10 DEF SoundInv, Space
    <2>3. \A s, r \in Live' : s # r => Blocks(s) \cap Blocks(r) = {}
      BY <1>4, <1>7, <1>11 DEF SoundInv, Space
    <2> QED BY <1>8, <2>1, <2>2, <2>3 DEF Space
  <1>13. BusyOK'
    BY DEF BusyOK, Busy, BusyInode, BusyData, Idle, CreateAt
  <1>14. FilesysTypeOK'
    BY <1>0 DEF SoundInv, FilesysTypeOK, Idle
  <1>15. OpOK'
    BY DEF OpOK, Idle
  <1> QED BY <1>9, <1>12, <1>13, <1>14, <1>15 DEF SoundInv

\* filesys_create() is about to give up; nothing else changes.
LEMMA UndoneSound ==
  ASSUME SoundInv, op.at = "add", op' = [at |-> "undo", sector |-> op.sector],
         UNCHANGED <<slots, disk, disk_map, free_map, open_inodes, file>>,
         failures' \in 0..MaxFailures
  PROVE  SoundInv'
  <1>1. op.sector \in Sector
    BY DEF SoundInv, OpOK
  <1>2. Shape' /\ FilesLeft
    BY SameFiles
  <1>3. Space'
    BY <1>2, MapsKept
  <1>4. Busy' = BusyInode /\ BusyInode' = BusyInode /\ BusyData' = {}
    BY DEF Busy, BusyInode, BusyData, CreateAt
  <1>5. BusyOK'
    <2>0. Busy' \subseteq Busy \cup {} /\ {} \cap free_map = {}
      BY <1>4 DEF Busy
    <2>1. (\A s \in Live : Busy \cap Blocks(s) = {})'
      BY <1>2, <2>0, BusyApart
    <2> QED BY <1>4, <2>1 DEF BusyOK, SoundInv, Busy, CreateAt
  <1>6. FilesysTypeOK'
    BY DEF SoundInv, FilesysTypeOK
  <1>7. OpOK'
    BY <1>1 DEF OpOK
  <1> QED BY <1>2, <1>3, <1>5, <1>6, <1>7 DEF SoundInv

LEMMA DirAddSound ==
  ASSUME SoundInv, DirAdd
  PROVE  SoundInv'
  <1>0. op.at = "add" /\ UNCHANGED <<disk, disk_map, free_map, open_inodes, file>>
    BY DEF DirAdd, memVars
  <1>1. PICK looked \in Stop, scanned \in Stop :
          LET k == FreeSlot(scanned) IN
          \/ /\ Lookup(op.name, looked) # {} /\ looked = Slots + 1
             /\ op' = [at |-> "undo", sector |-> op.sector]
             /\ UNCHANGED <<slots, failures>>
          \/ /\ Lookup(op.name, looked) = {} /\ k \in Slot
             /\ Fails(Short(looked) + Short(scanned))
             /\ slots' = [slots EXCEPT ![k] = [name |-> op.name, sector |-> op.sector]]
             /\ op' = Idle
          \/ /\ Lookup(op.name, looked) = {}
             /\ Fails(Short(looked) + Short(scanned) + (IF k \in Slot THEN 1 ELSE 0))
             /\ op' = [at |-> "undo", sector |-> op.sector]
             /\ UNCHANGED slots
    BY DEF DirAdd
  <1>2. \A s \in Stop : Short(s) \in Nat
    BY DEF Short
  <1>3. \A n \in Nat : Fails(n) => failures' \in 0..MaxFailures
    BY FilesysAssumption DEF Fails, SoundInv, FilesysTypeOK
  <1>4. failures' \in 0..MaxFailures
    <2>1. CASE UNCHANGED failures
      BY <2>1 DEF SoundInv, FilesysTypeOK
    <2>2. CASE Fails(Short(looked) + Short(scanned))
      BY <2>2, <1>2, <1>3
    <2>3. CASE Fails(Short(looked) + Short(scanned) + (IF FreeSlot(scanned) \in Slot THEN 1 ELSE 0))
      BY <2>3, <1>2, <1>3
    <2> QED BY <1>1, <2>1, <2>2, <2>3
  <1>5. \/ /\ op' = [at |-> "undo", sector |-> op.sector]
           /\ UNCHANGED slots
        \/ \E k \in Slot :
             /\ slots' = [slots EXCEPT ![k] = [name |-> op.name, sector |-> op.sector]]
             /\ op' = Idle
    BY <1>1
  <1> QED BY <1>0, <1>4, <1>5, NamedSound, UndoneSound

-----------------------------------------------------------------------------
(* free_map_release(), writes and crashes *)

LEMMA ReleaseKept ==
  ASSUME SoundInv, NEW sectors, sectors \subseteq Busy, Release(sectors),
         UNCHANGED <<disk, slots, open_inodes>>
  PROVE  /\ Shape' /\ FilesLeft /\ Space'
         /\ free_map' = free_map \ sectors
         /\ disk_map' \subseteq Sector /\ failures' \in 0..MaxFailures
  <1>1. free_map' = free_map \ sectors /\ (disk_map' = free_map' \/ disk_map' = disk_map)
    BY DEF Release
  <1>2. disk_map' \subseteq Sector
    BY <1>1 DEF SoundInv, FilesysTypeOK
  <1>3. failures' \in 0..MaxFailures
    BY FilesysAssumption DEF Release, Fails, SoundInv, FilesysTypeOK
  <1>4. Shape' /\ FilesLeft
    BY SameFiles
  <1>5. \A s \in Live : Blocks(s) \subseteq free_map \ sectors
    BY DEF SoundInv, Space, BusyOK
  <1>6. \A s \in Linked : Blocks(s) \subseteq disk_map
    BY DEF SoundInv, Space
  <1>7. \A s \in Linked' : Blocks(s) \subseteq disk_map'
    BY <1>1, <1>4, <1>5, <1>6 DEF FilesLeft, Live
  <1>8. \A s \in Live' : Blocks(s) \subseteq free_map'
    BY <1>1, <1>4, <1>5 DEF FilesLeft
  <1> QED BY <1>1, <1>2, <1>3, <1>4, <1>7, <1>8, SpaceKept

LEMMA CreateUndoSound ==
  ASSUME SoundInv, CreateUndo
  PROVE  SoundInv'
  <1>0. /\ op.at = "undo" /\ Release({op.sector}) /\ op' = Idle
        /\ UNCHANGED <<disk, slots, open_inodes, file>>
    BY DEF CreateUndo
  <1>1. {op.sector} \subseteq Busy
    BY <1>0 DEF Busy, BusyInode
  <1>2. /\ Shape' /\ FilesLeft /\ Space'
        /\ free_map' = free_map \ {op.sector}
        /\ disk_map' \subseteq Sector /\ failures' \in 0..MaxFailures
    BY <1>0, <1>1, ReleaseKept
  <1>3. BusyOK'
    BY <1>0 DEF BusyOK, Busy, BusyInode, BusyData, Idle, CreateAt
  <1>4. FilesysTypeOK'
    BY <1>0, <1>2 DEF SoundInv, FilesysTypeOK, Idle
  <1>5. OpOK'
    BY <1>0 DEF OpOK, Idle
  <1> QED BY <1>2, <1>3, <1>4, <1>5 DEF SoundInv

LEMMA FreeInodeSound ==
  ASSUME SoundInv, FreeInode
  PROVE  SoundInv'
  <1>0. /\ op.at = "free" /\ Release({op.sector})
        /\ op' = [op EXCEPT !.at = "free_extent"]
        /\ UNCHANGED <<disk, slots, open_inodes, file>>
        /\ op \in [at : {"free", "free_extent"}, sector : Sector, inode : OpenInode]
        /\ Placed(op.inode)
    BY DEF FreeInode, SoundInv, OpOK
  <1>1. BusyInode = {op.sector} /\ BusyData = DataOf(op.inode)
    BY <1>0 DEF BusyData, BusyInode, CreateAt
  <1>2. /\ Shape' /\ FilesLeft /\ Space'
        /\ free_map' = free_map \ {op.sector}
        /\ disk_map' \subseteq Sector /\ failures' \in 0..MaxFailures
    BY <1>0, <1>1, ReleaseKept DEF Busy
  <1>3. op'.at = "free_extent" /\ op'.inode = op.inode /\ op'.sector = op.sector
    BY <1>0
  <1>4. BusyInode' = {} /\ BusyData' = BusyData
    <2>1. DataOf(op.inode)' = DataOf(op.inode)
      BY <1>3 DEF DataOf
    <2> QED BY <1>1, <1>3, <2>1 DEF BusyInode, BusyData, CreateAt
  <1>5. BusyOK'
    <2>1. Busy' \subseteq Busy \cup {} /\ {} \cap free_map = {}
      BY <1>4 DEF Busy
    <2>2. (\A s \in Live : Busy \cap Blocks(s) = {})'
      BY <1>2, <2>1, BusyApart
    <2>3. BusyInode \cap BusyData = {} /\ BusyData \subseteq free_map
      BY DEF SoundInv, BusyOK, Busy
    <2>4. Busy' \subseteq free_map'
      BY <1>1, <1>2, <1>4, <2>3 DEF Busy
    <2> QED BY <1>3, <1>4, <2>2, <2>4 DEF BusyOK, CreateAt
  <1>6. FilesysTypeOK'
    BY <1>0, <1>2, <1>3 DEF SoundInv, FilesysTypeOK
  <1>7. OpOK'
    <2>1. Placed(op.inode)'
      BY <1>0, <1>3 DEF Placed
    <2>2. op' \in [at : {"free", "free_extent"}, sector : Sector, inode : OpenInode]
      BY <1>0
    <2> QED BY <1>3, <2>1, <2>2 DEF OpOK
  <1> QED BY <1>2, <1>5, <1>6, <1>7 DEF SoundInv

LEMMA FreeExtentSound ==
  ASSUME SoundInv, FreeExtent
  PROVE  SoundInv'
  <1>0. /\ op.at = "free_extent" /\ Release(DataOf(op.inode)) /\ op' = Idle
        /\ UNCHANGED <<disk, slots, open_inodes, file>>
    BY DEF FreeExtent
  <1>1. DataOf(op.inode) \subseteq Busy
    BY <1>0 DEF Busy, BusyData
  <1>2. /\ Shape' /\ FilesLeft /\ Space'
        /\ free_map' = free_map \ DataOf(op.inode)
        /\ disk_map' \subseteq Sector /\ failures' \in 0..MaxFailures
    BY <1>0, <1>1, ReleaseKept
  <1>3. BusyOK'
    BY <1>0 DEF BusyOK, Busy, BusyInode, BusyData, Idle, CreateAt
  <1>4. FilesysTypeOK'
    BY <1>0, <1>2 DEF SoundInv, FilesysTypeOK, Idle
  <1>5. OpOK'
    BY <1>0 DEF OpOK, Idle
  <1> QED BY <1>2, <1>3, <1>4, <1>5 DEF SoundInv

\* After a crash the files are the ones that have a name.
LEMMA CrashSound ==
  ASSUME SoundInv, Crash
  PROVE  SoundInv'
  <1>0. /\ free_map' = disk_map /\ open_inodes' = [s \in Sector |-> NULL]
        /\ file' = [h \in Handle |-> NULL] /\ op' = Idle
        /\ UNCHANGED <<disk, slots, disk_map, failures>>
    BY DEF Crash, diskVars
  <1>1. Used' = Used /\ Linked' = Linked /\ OpenSectors' = {} /\ Live' = Linked
    BY <1>0 DEF Used, Linked, OpenSectors, Live
  <1>2. \A s \in Linked : DataOf(InodeOf(s))' = DataOf(InodeOf(s))
    <2>1. \A s \in Linked : s \in Sector
      BY Inodes DEF Live
    <2>2. \A s \in Linked : open_inodes'[s] = NULL
      BY <1>0, <2>1
    <2>3. \A s \in Linked : DataOf(InodeOf(s))' = DataOf(disk[s])
      BY <1>0, <2>2 DEF InodeOf, DataOf
    <2> QED BY <2>3, Inodes
  <1>3. \A s : Blocks(s)' = {s} \cup DataOf(InodeOf(s))'
    BY DEF Blocks, InodeOf
  <1>4. FilesLeft
    BY <1>1, <1>2, <1>3, BlocksAre DEF FilesLeft, Live
  <1>5. Shape'
    BY <1>0, <1>1 DEF SoundInv, Shape, SlotsApart, Placed
  <1>6. \A s \in Linked : Blocks(s) \subseteq disk_map
    BY DEF SoundInv, Space
  <1>7. Space'
    BY <1>0, <1>1, <1>4, <1>6, SpaceKept
  <1>8. BusyOK'
    BY <1>0 DEF BusyOK, Busy, BusyInode, BusyData, Idle, CreateAt
  <1>9. FilesysTypeOK'
    BY <1>0 DEF SoundInv, FilesysTypeOK, Idle
  <1>10. OpOK'
    BY <1>0 DEF OpOK, Idle
  <1> QED BY <1>5, <1>7, <1>8, <1>9, <1>10 DEF SoundInv

-----------------------------------------------------------------------------
(* Calls about open files *)

\* A file that is open has an inode in memory.
LEMMA FileHasInode ==
  ASSUME SoundInv, CountInv, NEW h \in Handle, file[h] # NULL
  PROVE  /\ file[h] \in [sector : Sector, deny_write : BOOLEAN]
         /\ file[h].sector \in Sector /\ file[h].sector \in OpenSectors
         /\ open_inodes[file[h].sector] # NULL
         /\ open_inodes[file[h].sector] \in OpenInode
         /\ InodeOf(file[h].sector) = open_inodes[file[h].sector]
         /\ file[h].sector \in Live
         /\ h \in FilesOf(file[h].sector)
  <1>1. file[h] \in [sector : Sector, deny_write : BOOLEAN]
    BY DEF SoundInv, FilesysTypeOK
  <1>2. h \in FilesOf(file[h].sector) /\ file[h].sector \in Sector
    BY <1>1 DEF FilesOf
  <1>3. open_inodes[file[h].sector] # NULL
    BY <1>2 DEF CountInv, CountsRight, FilesOf
  <1>4. open_inodes[file[h].sector] \in OpenInode
    BY <1>2, <1>3 DEF SoundInv, FilesysTypeOK
  <1> QED BY <1>1, <1>2, <1>3, <1>4 DEF OpenSectors, Live, InodeOf

\* The sector that a write to an open file changes.
LEMMA WrittenSector ==
  ASSUME SoundInv, CountInv, NEW h \in Handle, NEW i \in 0..(MaxSize - 1), NEW v \in Data,
         Write(h, i, v)
  PROVE  LET s == file[h].sector
             at == open_inodes[s].start + i
         IN /\ file[h] # NULL /\ open_inodes[s].deny_write_cnt = 0
            /\ disk' = [disk EXCEPT ![at] = v]
            /\ at \in DataOf(InodeOf(s)) /\ at \in Blocks(s) /\ at \in Sector
            /\ at \notin Live
  <1> DEFINE s == file[h].sector
             at == open_inodes[s].start + i
  <1>1. /\ file[h] # NULL /\ open_inodes[s].deny_write_cnt = 0
        /\ disk' = [disk EXCEPT ![at] = v] /\ i < open_inodes[s].size
    BY DEF Write
  <1>2. s \in Live /\ InodeOf(s) = open_inodes[s] /\ Placed(open_inodes[s])
    BY <1>1, FileHasInode DEF SoundInv, Shape
  <1>3. at \in DataOf(InodeOf(s))
    BY <1>1, <1>2, DataAt, FilesysAssumption
  <1>4. at \in Blocks(s)
    BY <1>3, BlocksAre
  <1>5. at \in Sector
    BY <1>2, <1>4 DEF SoundInv, Space, FilesysTypeOK
  <1>6. at \notin Live
    <2>1. at # s
      BY <1>2, <1>3 DEF SoundInv, Space
    <2>2. \A r \in Live : r # s => r \notin Blocks(s)
      BY <1>2, BlocksAre DEF SoundInv, Space
    <2> QED BY <1>4, <2>1, <2>2
  <1> QED BY <1>1, <1>3, <1>4, <1>5, <1>6

LEMMA WriteSound ==
  ASSUME SoundInv, CountInv, NEW h \in Handle, NEW i \in 0..(MaxSize - 1), NEW v \in Data,
         Write(h, i, v)
  PROVE  SoundInv'
  <1> DEFINE at == open_inodes[file[h].sector].start + i
  <1>0. op = Idle /\ UNCHANGED <<slots, disk_map, free_map, open_inodes, file, op, failures>>
    BY DEF Write, memVars
  <1>1. disk' = [disk EXCEPT ![at] = v] /\ at \notin Live
    BY WrittenSector
  <1> HIDE DEF at
  <1>2. disk \in [Sector -> Data \cup Inode]
    BY DEF SoundInv, FilesysTypeOK
  <1>3. \A s \in Live : disk'[s] = disk[s]
    BY <1>1, <1>2, Inodes
  <1>4. Shape' /\ FilesLeft
    BY <1>0, <1>3, SameFiles
  <1>5. Space'
    BY <1>0, <1>4, MapsKept
  <1>6. BusyOK'
    BY <1>0 DEF BusyOK, Busy, BusyInode, BusyData, Idle, CreateAt
  <1>7. FilesysTypeOK'
    BY <1>0, <1>1, <1>2 DEF SoundInv, FilesysTypeOK
  <1>8. OpOK'
    BY <1>0 DEF OpOK, Idle
  <1> QED BY <1>4, <1>5, <1>6, <1>7, <1>8 DEF SoundInv

LEMMA IdleSound ==
  ASSUME SoundInv, op' = Idle, Shape', FilesLeft,
         UNCHANGED <<disk, disk_map, free_map>>, FilesysTypeOK'
  PROVE  SoundInv'
  <1>1. Space'
    BY MapsKept
  <1>2. BusyOK'
    BY DEF BusyOK, Busy, BusyInode, BusyData, Idle, CreateAt
  <1>3. OpOK'
    BY DEF OpOK, Idle
  <1> QED BY <1>1, <1>2, <1>3 DEF SoundInv

\* inode_open() and inode_reopen() make an inode that says where the data is.
LEMMA OpenedIs ==
  ASSUME SoundInv, NEW s \in Live
  PROVE  LET x == Opened(s)[s]
             old == open_inodes[s]
         IN /\ x \in OpenInode /\ Opened(s) = [open_inodes EXCEPT ![s] = x]
            /\ x.start = InodeOf(s).start /\ x.size = InodeOf(s).size
            /\ s \in Linked => ~x.removed
            /\ old # NULL => /\ x.open_cnt = old.open_cnt + 1
                             /\ x.deny_write_cnt = old.deny_write_cnt
            /\ old = NULL => x.open_cnt = 1 /\ x.deny_write_cnt = 0
  <1> DEFINE x == Opened(s)[s]
             old == open_inodes[s]
  <1>0. s \in Sector /\ open_inodes \in [Sector -> OpenInode \cup {NULL}]
    BY Inodes DEF SoundInv, FilesysTypeOK
  <1>1. CASE old # NULL
    <2>1. Opened(s) = [open_inodes EXCEPT ![s] = [old EXCEPT !.open_cnt = @ + 1]]
      BY <1>0, <1>1 DEF Opened
    <2>2. x = [old EXCEPT !.open_cnt = @ + 1]
      BY <1>0, <2>1
    <2>3. old \in OpenInode
      BY <1>0, <1>1
    <2>4. x \in OpenInode /\ x.start = old.start /\ x.size = old.size
          /\ x.open_cnt = old.open_cnt + 1 /\ x.deny_write_cnt = old.deny_write_cnt
          /\ x.removed = old.removed
      BY <2>2, <2>3 DEF OpenInode
    <2>5. InodeOf(s) = old
      BY <1>1 DEF InodeOf
    <2>6. s \in Linked => ~old.removed
      BY <1>0, <1>1 DEF SoundInv, Shape, OpenSectors
    <2> QED BY <1>1, <2>1, <2>2, <2>4, <2>5, <2>6
  <1>2. CASE old = NULL
    <2>1. InodeOf(s) = disk[s]
      BY <1>2 DEF InodeOf
    <2>2. disk[s] \in Inode
      BY <1>0, <1>2 DEF Live, OpenSectors, SoundInv, Shape
    <2> DEFINE new == [start |-> disk[s].start, size |-> disk[s].size,
                       open_cnt |-> 1, deny_write_cnt |-> 0, removed |-> FALSE]
    <2>3. Opened(s) = [open_inodes EXCEPT ![s] = new]
      BY <1>2 DEF Opened
    <2>4. x = new
      BY <1>0, <2>3
    <2>5. new \in OpenInode
      BY <2>2 DEF OpenInode, Inode
    <2>6. /\ x.start = disk[s].start /\ x.size = disk[s].size /\ ~x.removed
          /\ x.open_cnt = 1 /\ x.deny_write_cnt = 0
      BY <2>4
    <2> HIDE DEF new
    <2> QED BY <1>2, <2>1, <2>3, <2>4, <2>5, <2>6
  <1> QED BY <1>1, <1>2

\* inode_close(): the inode stays in memory, or goes; then its sectors are in
\* the hands of the call if the file was removed.
LEMMA ClosedSound ==
  ASSUME SoundInv, op = Idle, NEW s \in Live, NEW inode \in OpenInode,
         inode.start = InodeOf(s).start, inode.size = InodeOf(s).size,
         Linked' \subseteq Linked, SlotsApart',
         inode.removed => s \notin Linked', s \in Linked' => ~inode.removed,
         UNCHANGED <<disk, disk_map, free_map, failures>>, Closed(s, inode),
         slots' \in [Slot -> [name : Name, sector : Sector] \cup {NULL}],
         file' \in [Handle -> [sector : Sector, deny_write : BOOLEAN] \cup {NULL}]
  PROVE  SoundInv'
  <1>0. /\ s \in Sector /\ open_inodes \in [Sector -> OpenInode \cup {NULL}]
        /\ Placed(inode)
        /\ disk \in [Sector -> Data \cup Inode] /\ disk_map \subseteq Sector
        /\ free_map \subseteq Sector /\ failures \in 0..MaxFailures
    BY Inodes DEF SoundInv, FilesysTypeOK, Placed
  <1>1. CASE inode.open_cnt > 1
    <2> DEFINE x == [inode EXCEPT !.open_cnt = @ - 1]
    <2>1. open_inodes' = [open_inodes EXCEPT ![s] = x] /\ op' = Idle
      BY <1>1 DEF Closed
    <2>2. /\ x \in OpenInode /\ x.start = inode.start /\ x.size = inode.size
          /\ x.removed = inode.removed
      BY <1>1 DEF OpenInode
    <2> HIDE DEF x
    <2>3. Shape' /\ FilesLeft
      BY <2>1, <2>2, InodeChanged
    <2>4. FilesysTypeOK'
      BY <1>0, <2>1, <2>2 DEF FilesysTypeOK, Idle
    <2> QED BY <2>1, <2>3, <2>4, IdleSound
  <1>2. CASE ~(inode.open_cnt > 1)
    <2>1. /\ open_inodes' = [open_inodes EXCEPT ![s] = NULL]
          /\ op' = IF inode.removed THEN [at |-> "free", sector |-> s, inode |-> inode]
                   ELSE op
      BY <1>2 DEF Closed
    <2>2. Shape' /\ FilesLeft /\ (s \notin Linked' => s \notin Live')
      BY <2>1, InodeGone
    <2>3. op'.at \in {"idle", "free"}
      BY <2>1 DEF Idle
    <2>4. FilesysTypeOK'
      BY <1>0, <2>1, <2>3 DEF FilesysTypeOK
    <2>5. CASE ~inode.removed
      <3>1. op' = Idle
        BY <2>1, <2>5
      <3> QED BY <2>2, <2>4, <3>1, IdleSound
    <2>6. CASE inode.removed
      <3>1. op' = [at |-> "free", sector |-> s, inode |-> inode]
        BY <2>1, <2>6
      <3>2. Space'
        BY <2>2, MapsKept
      <3>3. OpOK'
        BY <1>0, <3>1 DEF OpOK, Placed
      <3>4. BusyInode' = {s} /\ BusyData' = DataOf(inode)
        BY <3>1 DEF BusyInode, BusyData, CreateAt, DataOf
      <3>5. DataOf(inode) = DataOf(InodeOf(s))
        BY SameData
      <3>6. Busy' = Blocks(s)
        BY <3>4, <3>5, BlocksAre DEF Busy
      <3>7. Blocks(s) \subseteq free_map /\ s \notin DataOf(InodeOf(s))
        BY DEF SoundInv, Space
      <3>8. \A r \in Live' : Blocks(s) \cap Blocks(r)' = {}
        BY <2>2, <2>6 DEF FilesLeft, SoundInv, Space
      <3>9. BusyOK'
        BY <3>1, <3>4, <3>5, <3>6, <3>7, <3>8 DEF BusyOK, CreateAt
      <3> QED BY <2>2, <2>4, <3>2, <3>3, <3>9 DEF SoundInv
    <2> QED BY <2>5, <2>6
  <1> QED BY <1>1, <1>2

LEMMA OpenedSound ==
  ASSUME SoundInv, op = Idle, NEW s \in Live, NEW h \in Handle,
         open_inodes' = Opened(s), UNCHANGED <<disk, slots, disk_map, free_map, op, failures>>,
         file' = [file EXCEPT ![h] = [sector |-> s, deny_write |-> FALSE]]
  PROVE  SoundInv'
  <1> DEFINE x == Opened(s)[s]
  <1>1. /\ x \in OpenInode /\ open_inodes' = [open_inodes EXCEPT ![s] = x]
        /\ x.start = InodeOf(s).start /\ x.size = InodeOf(s).size
        /\ s \in Linked => ~x.removed
    BY OpenedIs
  <1> HIDE DEF x
  <1>2. Linked' = Linked /\ SlotsApart'
    BY DEF Linked, Used, SlotsApart, SoundInv, Shape
  <1>3. Shape' /\ FilesLeft
    BY <1>1, <1>2, InodeChanged
  <1>4. s \in Sector
    BY Inodes
  <1>5. FilesysTypeOK'
    BY <1>1, <1>4 DEF SoundInv, FilesysTypeOK
  <1> QED BY <1>3, <1>5, IdleSound

LEMMA OpenSound ==
  ASSUME SoundInv, NEW name \in Name, NEW h \in Handle, Open(name, h)
  PROVE  SoundInv'
  <1>1. PICK k \in Lookup(name, Slots + 1) :
          /\ open_inodes' = Opened(slots[k].sector)
          /\ file' = [file EXCEPT ![h] = [sector |-> slots[k].sector, deny_write |-> FALSE]]
    BY DEF Open
  <1>2. slots[k].sector \in Live
    BY DEF Lookup, Live, Linked, Used
  <1> QED BY <1>1, <1>2, OpenedSound DEF Open, diskVars

LEMMA ReopenSound ==
  ASSUME SoundInv, CountInv, NEW h \in Handle, NEW copy \in Handle, Reopen(h, copy)
  PROVE  SoundInv'
  <1>1. file[h].sector \in Live
    BY FileHasInode DEF Reopen
  <1> QED BY <1>1, OpenedSound DEF Reopen, diskVars

\* file_deny_write() counted the file that is closed or allows writes again.
LEMMA DenialCounted ==
  ASSUME SoundInv, CountInv, NEW h \in Handle, file[h] # NULL
  PROVE  LET s == file[h].sector
             inode == open_inodes[s]
         IN /\ IsFiniteSet(FilesOf(s)) /\ IsFiniteSet(DenyingOf(s))
            /\ inode.open_cnt = Cardinality(FilesOf(s)) /\ inode.open_cnt > 0
            /\ inode.deny_write_cnt = Cardinality(DenyingOf(s))
            /\ file[h].deny_write => h \in DenyingOf(s) /\ inode.deny_write_cnt > 0
  <1> DEFINE s == file[h].sector
             inode == open_inodes[s]
  <1>1. s \in Sector /\ inode # NULL /\ h \in FilesOf(s)
    BY FileHasInode
  <1>2. IsFiniteSet(FilesOf(s)) /\ DenyingOf(s) \subseteq FilesOf(s)
    BY <1>1 DEF CountInv, DenyingOf
  <1>3. IsFiniteSet(DenyingOf(s))
    BY <1>2, FS_Subset
  <1>4. /\ inode.open_cnt = Cardinality(FilesOf(s))
        /\ inode.deny_write_cnt = Cardinality(DenyingOf(s))
    BY <1>1 DEF CountInv, CountsRight, FilesOf, DenyingOf
  <1>5. Cardinality(FilesOf(s)) \in Nat /\ Cardinality(FilesOf(s)) # 0
    BY <1>1, <1>2, FS_CardinalityType, FS_EmptySet
  <1>6. file[h].deny_write => h \in DenyingOf(s)
    BY <1>1 DEF DenyingOf
  <1>7. Cardinality(DenyingOf(s)) \in Nat /\ (h \in DenyingOf(s) => Cardinality(DenyingOf(s)) # 0)
    BY <1>3, FS_CardinalityType, FS_EmptySet
  <1> QED BY <1>2, <1>3, <1>4, <1>5, <1>6, <1>7

LEMMA CloseSound ==
  ASSUME SoundInv, CountInv, NEW h \in Handle, Close(h)
  PROVE  SoundInv'
  <1> DEFINE s == file[h].sector
             inode == open_inodes[s]
             x == [inode EXCEPT !.deny_write_cnt = IF file[h].deny_write THEN @ - 1 ELSE @]
  <1>0. /\ op = Idle /\ file[h] # NULL /\ file' = [file EXCEPT ![h] = NULL]
        /\ UNCHANGED <<disk, slots, disk_map, free_map, failures>> /\ Closed(s, x)
    BY DEF Close, diskVars
  <1>1. /\ s \in Live /\ s \in OpenSectors /\ inode \in OpenInode /\ InodeOf(s) = inode
        /\ file[h] \in [sector : Sector, deny_write : BOOLEAN]
    BY <1>0, FileHasInode
  <1>2. file[h].deny_write => inode.deny_write_cnt > 0
    BY <1>0, DenialCounted
  <1>3. /\ x \in OpenInode /\ x.start = inode.start /\ x.size = inode.size
        /\ x.removed = inode.removed
    <2>1. (IF file[h].deny_write THEN inode.deny_write_cnt - 1 ELSE inode.deny_write_cnt) \in Nat
      BY <1>1, <1>2 DEF OpenInode
    <2> QED BY <1>1, <2>1 DEF OpenInode
  <1>4. Linked' = Linked /\ SlotsApart'
    BY <1>0 DEF Linked, Used, SlotsApart, SoundInv, Shape
  <1>5. s \in Linked => ~inode.removed
    BY <1>1 DEF SoundInv, Shape
  <1>6. file' \in [Handle -> [sector : Sector, deny_write : BOOLEAN] \cup {NULL}]
    BY <1>0 DEF SoundInv, FilesysTypeOK
  <1>7. slots' \in [Slot -> [name : Name, sector : Sector] \cup {NULL}]
    BY <1>0 DEF SoundInv, FilesysTypeOK
  <1> HIDE DEF x, s
  <1> QED BY <1>0, <1>1, <1>3, <1>4, <1>5, <1>6, <1>7, ClosedSound

LEMMA RemoveSound ==
  ASSUME SoundInv, NEW name \in Name, Remove(name)
  PROVE  SoundInv'
  <1>0. op = Idle /\ UNCHANGED <<disk, disk_map, free_map, file, failures>>
    BY DEF Remove
  <1>1. PICK k \in Lookup(name, Slots + 1) :
          /\ slots' = [slots EXCEPT ![k] = NULL]
          /\ Closed(slots[k].sector,
                    [Opened(slots[k].sector)[slots[k].sector] EXCEPT !.removed = TRUE])
    BY DEF Remove
  <1> DEFINE s == slots[k].sector
             x == [Opened(s)[s] EXCEPT !.removed = TRUE]
  <1>2. k \in Used /\ s \in Live
    BY DEF Lookup, Live, Linked, Used
  <1>3. /\ Opened(s)[s] \in OpenInode
        /\ Opened(s)[s].start = InodeOf(s).start /\ Opened(s)[s].size = InodeOf(s).size
    BY <1>2, OpenedIs
  <1>4. x \in OpenInode /\ x.start = InodeOf(s).start /\ x.size = InodeOf(s).size /\ x.removed
    BY <1>3 DEF OpenInode
  <1>5. /\ slots \in [Slot -> [name : Name, sector : Sector] \cup {NULL}]
        /\ file \in [Handle -> [sector : Sector, deny_write : BOOLEAN] \cup {NULL}]
    BY DEF SoundInv, FilesysTypeOK
  <1>6. /\ Used' = Used \ {k} /\ \A j \in Used' : slots'[j] = slots[j]
        /\ slots' \in [Slot -> [name : Name, sector : Sector] \cup {NULL}]
    BY <1>1, <1>2, <1>5 DEF Used
  <1>7. SlotsApart' /\ Linked' \subseteq Linked /\ s \notin Linked'
    BY <1>2, <1>6 DEF SlotsApart, Linked, SoundInv, Shape
  <1>8. Closed(s, x)
    BY <1>1
  <1>9. file' \in [Handle -> [sector : Sector, deny_write : BOOLEAN] \cup {NULL}]
    BY <1>0, <1>5
  <1> HIDE DEF x, s
  <1> QED BY <1>0, <1>2, <1>4, <1>6, <1>7, <1>8, <1>9, ClosedSound

LEMMA SetDenySound ==
  ASSUME SoundInv, CountInv, NEW h \in Handle, NEW deny \in BOOLEAN, SetDeny(h, deny)
  PROVE  SoundInv'
  <1> DEFINE s == file[h].sector
             inode == open_inodes[s]
             x == [inode EXCEPT !.deny_write_cnt = IF deny THEN @ + 1 ELSE @ - 1]
  <1>0. /\ op = Idle /\ file[h] # NULL /\ file[h].deny_write # deny
        /\ file' = [file EXCEPT ![h].deny_write = deny]
        /\ open_inodes' = [open_inodes EXCEPT ![s].deny_write_cnt = IF deny THEN @ + 1 ELSE @ - 1]
        /\ UNCHANGED <<disk, slots, disk_map, free_map, op, failures>>
    BY DEF SetDeny, diskVars
  <1>1. /\ s \in Live /\ s \in OpenSectors /\ inode \in OpenInode /\ InodeOf(s) = inode
        /\ file[h] \in [sector : Sector, deny_write : BOOLEAN] /\ s \in Sector
    BY <1>0, FileHasInode
  <1>2. file[h].deny_write => inode.deny_write_cnt > 0
    BY <1>0, DenialCounted
  <1>3. /\ x \in OpenInode /\ x.start = inode.start /\ x.size = inode.size
        /\ x.removed = inode.removed
    <2>1. (IF deny THEN inode.deny_write_cnt + 1 ELSE inode.deny_write_cnt - 1) \in Nat
      BY <1>0, <1>1, <1>2 DEF OpenInode
    <2> QED BY <1>1, <2>1 DEF OpenInode
  <1>4. Linked' = Linked /\ SlotsApart'
    BY <1>0 DEF Linked, Used, SlotsApart, SoundInv, Shape
  <1>5. s \in Linked => ~inode.removed
    BY <1>1 DEF SoundInv, Shape
  <1>6. open_inodes' = [open_inodes EXCEPT ![s] = x]
    BY <1>0
  <1>7. Shape' /\ FilesLeft
    <2> HIDE DEF x, s
    <2> QED BY ZenonT(60), <1>0, <1>1, <1>3, <1>4, <1>5, <1>6, InodeChanged
  <1>8. file' \in [Handle -> [sector : Sector, deny_write : BOOLEAN] \cup {NULL}]
    <2>1. [file[h] EXCEPT !.deny_write = deny] \in [sector : Sector, deny_write : BOOLEAN]
      BY <1>1
    <2>2. file' = [file EXCEPT ![h] = [file[h] EXCEPT !.deny_write = deny]]
      BY <1>0
    <2> QED BY <2>1, <2>2 DEF SoundInv, FilesysTypeOK
  <1>9. FilesysTypeOK'
    <2> HIDE DEF x, s
    <2> QED BY ZenonT(60), <1>0, <1>3, <1>6, <1>8 DEF SoundInv, FilesysTypeOK
  <1> QED BY <1>0, <1>7, <1>9, IdleSound

-----------------------------------------------------------------------------
(* The counts of an inode *)

CountAt(s) ==
    IF open_inodes[s] = NULL THEN FilesOf(s) = {}
    ELSE /\ open_inodes[s].open_cnt = Cardinality(FilesOf(s))
         /\ open_inodes[s].deny_write_cnt = Cardinality(DenyingOf(s))

LEMMA CountsAre == CountsRight <=> \A s \in Sector : CountAt(s)
  BY DEF CountsRight, CountAt, FilesOf, DenyingOf

\* Only the inode in s, and the files that have it open, change.
LEMMA CountStep ==
  ASSUME CountInv, NEW s \in Sector, IsFiniteSet(FilesOf(s)'), CountAt(s)',
         \A r \in Sector \ {s} : /\ open_inodes'[r] = open_inodes[r]
                                 /\ FilesOf(r)' = FilesOf(r)
                                 /\ DenyingOf(r)' = DenyingOf(r)
  PROVE  CountInv'
  <1>1. ASSUME NEW r \in Sector
        PROVE  IsFiniteSet(FilesOf(r)') /\ CountAt(r)'
    <2>1. CASE r = s
      BY <2>1
    <2>2. CASE r # s
      <3>1. IsFiniteSet(FilesOf(r)) /\ CountAt(r)
        BY CountsAre DEF CountInv
      <3> QED BY <2>2, <3>1 DEF CountAt
    <2> QED BY <2>1, <2>2
  <1>2. (\A r \in Sector : CountAt(r))'
    BY <1>1
  <1>3. CountsRight'
    BY <1>2 DEF CountsRight, CountAt, FilesOf, DenyingOf
  <1> QED BY <1>1, <1>3 DEF CountInv

LEMMA CountsKept ==
  ASSUME CountInv, UNCHANGED <<open_inodes, file>>
  PROVE  CountInv'
  BY DEF CountInv, CountsRight, FilesOf

LEMMA FilesAfter ==
  ASSUME SoundInv, NEW h \in Handle, NEW y, file' = [file EXCEPT ![h] = y]
  PROVE  \A r :
           /\ FilesOf(r)' = (FilesOf(r) \ {h})
                  \cup (IF y # NULL /\ y.sector = r THEN {h} ELSE {})
           /\ DenyingOf(r)' = (DenyingOf(r) \ {h})
                  \cup (IF y # NULL /\ y.sector = r /\ y.deny_write THEN {h} ELSE {})
  <1>1. file'[h] = y /\ \A g \in Handle \ {h} : file'[g] = file[g]
    BY DEF SoundInv, FilesysTypeOK
  <1> QED BY <1>1 DEF FilesOf, DenyingOf

LEMMA OpenedCounts ==
  ASSUME SoundInv, CountInv, NEW s \in Live, NEW h \in Handle, file[h] = NULL,
         open_inodes' = Opened(s),
         file' = [file EXCEPT ![h] = [sector |-> s, deny_write |-> FALSE]]
  PROVE  CountInv'
  <1> DEFINE x == Opened(s)[s]
             old == open_inodes[s]
             y == [sector |-> s, deny_write |-> FALSE]
  <1>1. /\ s \in Sector /\ x \in OpenInode /\ open_inodes' = [open_inodes EXCEPT ![s] = x]
        /\ old # NULL => /\ x.open_cnt = old.open_cnt + 1
                         /\ x.deny_write_cnt = old.deny_write_cnt
        /\ old = NULL => x.open_cnt = 1 /\ x.deny_write_cnt = 0
    BY OpenedIs, Inodes
  <1>2. y \in [sector : Sector, deny_write : BOOLEAN] /\ y.sector = s /\ ~y.deny_write
    BY <1>1
  <1>3. y # NULL
    BY <1>2, NullAssumption
  <1>4. file' = [file EXCEPT ![h] = y]
    OBVIOUS
  <1> HIDE DEF x, old, y
  <1>5. open_inodes'[s] = x /\ \A r \in Sector \ {s} : open_inodes'[r] = open_inodes[r]
    BY <1>1 DEF SoundInv, FilesysTypeOK
  <1>6. \A r : h \notin FilesOf(r) /\ h \notin DenyingOf(r)
    BY DEF FilesOf, DenyingOf
  <1>a. \A r :
          /\ FilesOf(r)' = (FilesOf(r) \ {h})
                 \cup (IF y # NULL /\ y.sector = r THEN {h} ELSE {})
          /\ DenyingOf(r)' = (DenyingOf(r) \ {h})
                 \cup (IF y # NULL /\ y.sector = r /\ y.deny_write THEN {h} ELSE {})
    BY <1>4, FilesAfter
  <1>7. /\ FilesOf(s)' = FilesOf(s) \cup {h} /\ DenyingOf(s)' = DenyingOf(s)
    BY <1>2, <1>3, <1>6, <1>a
  <1>8. \A r \in Sector \ {s} : FilesOf(r)' = FilesOf(r) /\ DenyingOf(r)' = DenyingOf(r)
    BY <1>2, <1>6, <1>a
  <1>9. IsFiniteSet(FilesOf(s)) /\ CountAt(s)
    BY <1>1, CountsAre DEF CountInv
  <1>10. IsFiniteSet(FilesOf(s)') /\ Cardinality(FilesOf(s)') = Cardinality(FilesOf(s)) + 1
    BY <1>6, <1>7, <1>9, FS_AddElement
  <1>11. CountAt(s)'
    <2>1. x # NULL
      BY <1>1, NullAssumption
    <2>2. CASE old # NULL
      BY <1>1, <1>5, <1>7, <1>9, <1>10, <2>1, <2>2 DEF CountAt, old
    <2>3. CASE old = NULL
      <3>1. FilesOf(s) = {} /\ DenyingOf(s) = {}
        BY <1>9, <2>3 DEF CountAt, old, DenyingOf
      <3>2. Cardinality(FilesOf(s)') = 1 /\ Cardinality(DenyingOf(s)') = 0
        BY <1>7, <1>10, <3>1, FS_EmptySet
      <3> QED BY <1>1, <1>5, <2>1, <2>3, <3>2 DEF CountAt
    <2> QED BY <2>2, <2>3
  <1> QED BY <1>1, <1>5, <1>8, <1>10, <1>11, CountStep

LEMMA OpenCounts ==
  ASSUME SoundInv, CountInv, NEW name \in Name, NEW h \in Handle, Open(name, h)
  PROVE  CountInv'
  <1>1. PICK k \in Lookup(name, Slots + 1) :
          /\ open_inodes' = Opened(slots[k].sector)
          /\ file' = [file EXCEPT ![h] = [sector |-> slots[k].sector, deny_write |-> FALSE]]
    BY DEF Open
  <1>2. slots[k].sector \in Live /\ file[h] = NULL
    BY DEF Open, Lookup, Live, Linked, Used
  <1> QED BY <1>1, <1>2, OpenedCounts

LEMMA ReopenCounts ==
  ASSUME SoundInv, CountInv, NEW h \in Handle, NEW copy \in Handle, Reopen(h, copy)
  PROVE  CountInv'
  <1>1. file[h].sector \in Live
    BY FileHasInode DEF Reopen
  <1> QED BY <1>1, OpenedCounts DEF Reopen

LEMMA CloseCounts ==
  ASSUME SoundInv, CountInv, NEW h \in Handle, Close(h)
  PROVE  CountInv'
  <1> PICK s \in Sector : s = file[h].sector
    BY FileHasInode DEF Close
  <1> DEFINE inode == open_inodes[s]
             x == [inode EXCEPT !.deny_write_cnt = IF file[h].deny_write THEN @ - 1 ELSE @]
  <1>0. file[h] # NULL /\ file' = [file EXCEPT ![h] = NULL] /\ Closed(s, x)
    BY DEF Close
  <1>1. s \in Sector /\ inode \in OpenInode /\ h \in FilesOf(s) /\ inode # NULL
    BY <1>0, FileHasInode
  <1>2. /\ IsFiniteSet(FilesOf(s)) /\ IsFiniteSet(DenyingOf(s))
        /\ inode.open_cnt = Cardinality(FilesOf(s)) /\ inode.open_cnt > 0
        /\ inode.deny_write_cnt = Cardinality(DenyingOf(s))
        /\ file[h].deny_write => h \in DenyingOf(s)
        /\ file[h].deny_write => inode.deny_write_cnt > 0
    BY <1>0, DenialCounted
  <1>3. ~file[h].deny_write => h \notin DenyingOf(s)
    BY DEF DenyingOf
  <1>4. \A r : FilesOf(r)' = FilesOf(r) \ {h} /\ DenyingOf(r)' = DenyingOf(r) \ {h}
    <2>1. \A r :
            /\ FilesOf(r)' = (FilesOf(r) \ {h})
                   \cup (IF NULL # NULL /\ NULL.sector = r THEN {h} ELSE {})
            /\ DenyingOf(r)' = (DenyingOf(r) \ {h})
                   \cup (IF NULL # NULL /\ NULL.sector = r /\ NULL.deny_write THEN {h} ELSE {})
      BY <1>0, FilesAfter
    <2> QED BY <2>1
  <1>5. \A r \in Sector \ {s} : FilesOf(r)' = FilesOf(r) /\ DenyingOf(r)' = DenyingOf(r)
    BY <1>4 DEF FilesOf, DenyingOf
  <1>6. /\ IsFiniteSet(FilesOf(s)')
        /\ Cardinality(FilesOf(s)') = Cardinality(FilesOf(s)) - 1
    BY <1>1, <1>2, <1>4, FS_RemoveElement
  <1>7. Cardinality(DenyingOf(s)') =
          IF file[h].deny_write THEN inode.deny_write_cnt - 1 ELSE inode.deny_write_cnt
    BY <1>2, <1>3, <1>4, FS_RemoveElement
  <1>8. /\ x \in OpenInode /\ x.open_cnt = inode.open_cnt
        /\ x.deny_write_cnt = Cardinality(DenyingOf(s)')
    <2>1. (IF file[h].deny_write THEN inode.deny_write_cnt - 1 ELSE inode.deny_write_cnt) \in Nat
      BY <1>1, <1>2 DEF OpenInode
    <2> QED BY <1>1, <1>7, <2>1 DEF OpenInode
  <1> HIDE DEF x
  <1>9. open_inodes \in [Sector -> OpenInode \cup {NULL}]
    BY DEF SoundInv, FilesysTypeOK
  <1>10. CASE x.open_cnt > 1
    <2> DEFINE z == [x EXCEPT !.open_cnt = @ - 1]
    <2>1. open_inodes' = [open_inodes EXCEPT ![s] = z]
      BY <1>0, <1>10 DEF Closed
    <2>2. /\ z \in OpenInode /\ z.open_cnt = x.open_cnt - 1
          /\ z.deny_write_cnt = x.deny_write_cnt
      BY <1>8, <1>10 DEF OpenInode
    <2> HIDE DEF z
    <2>3. open_inodes'[s] = z /\ \A r \in Sector \ {s} : open_inodes'[r] = open_inodes[r]
      BY <1>1, <1>9, <2>1
    <2>4. z # NULL
      BY <2>2, NullAssumption
    <2>5. /\ z.open_cnt = Cardinality(FilesOf(s)')
          /\ z.deny_write_cnt = Cardinality(DenyingOf(s)')
      BY <1>2, <1>6, <1>8, <2>2
    <2>6. CountAt(s)'
      BY <2>3, <2>4, <2>5 DEF CountAt
    <2> QED BY <1>1, <1>5, <1>6, <2>3, <2>6, CountStep
  <1>11. CASE ~(x.open_cnt > 1)
    <2>1. open_inodes' = [open_inodes EXCEPT ![s] = NULL]
      BY <1>0, <1>11 DEF Closed
    <2>2. open_inodes'[s] = NULL /\ \A r \in Sector \ {s} : open_inodes'[r] = open_inodes[r]
      BY <1>1, <1>9, <2>1
    <2>3. inode.open_cnt \in Nat
      BY <1>1 DEF OpenInode
    <2>4. Cardinality(FilesOf(s)') = 0
      BY <1>2, <1>6, <1>8, <1>11, <2>3
    <2>5. FilesOf(s)' = {}
      BY <1>6, <2>4, FS_EmptySet
    <2>6. CountAt(s)'
      BY <2>2, <2>5 DEF CountAt
    <2> QED BY <1>1, <1>5, <1>6, <2>2, <2>6, CountStep
  <1> QED BY <1>10, <1>11

LEMMA RemoveCounts ==
  ASSUME SoundInv, CountInv, NEW name \in Name, Remove(name)
  PROVE  CountInv'
  <1>0. file' = file
    BY DEF Remove
  <1>1. PICK k \in Lookup(name, Slots + 1) :
          Closed(slots[k].sector,
                 [Opened(slots[k].sector)[slots[k].sector] EXCEPT !.removed = TRUE])
    BY DEF Remove
  <1>2. slots[k].sector \in Live
    BY DEF Lookup, Live, Linked, Used
  <1>3. PICK s \in Live : s = slots[k].sector
    BY <1>2
  <1> DEFINE old == open_inodes[s]
             x == [Opened(s)[s] EXCEPT !.removed = TRUE]
  <1>4. /\ Opened(s)[s] \in OpenInode
        /\ old # NULL => /\ Opened(s)[s].open_cnt = old.open_cnt + 1
                         /\ Opened(s)[s].deny_write_cnt = old.deny_write_cnt
        /\ old = NULL => Opened(s)[s].open_cnt = 1
    BY OpenedIs
  <1>5. x \in OpenInode /\ x.open_cnt = Opened(s)[s].open_cnt
        /\ x.deny_write_cnt = Opened(s)[s].deny_write_cnt
    BY <1>4 DEF OpenInode
  <1>6. Closed(s, x)
    BY <1>1, <1>3
  <1>7. s \in Sector /\ open_inodes \in [Sector -> OpenInode \cup {NULL}]
    BY Inodes DEF SoundInv, FilesysTypeOK
  <1>8. IsFiniteSet(FilesOf(s)) /\ CountAt(s) /\ \A r : FilesOf(r)' = FilesOf(r)
        /\ DenyingOf(r)' = DenyingOf(r)
    BY <1>0, <1>7, CountsAre DEF CountInv, FilesOf, DenyingOf
  <1> HIDE DEF x
  <1>9. CASE x.open_cnt > 1
    <2> DEFINE z == [x EXCEPT !.open_cnt = @ - 1]
    <2>1. open_inodes' = [open_inodes EXCEPT ![s] = z]
      BY <1>6, <1>9 DEF Closed
    <2>2. /\ z \in OpenInode /\ z.open_cnt = x.open_cnt - 1
          /\ z.deny_write_cnt = x.deny_write_cnt
      BY <1>5, <1>9 DEF OpenInode
    <2> HIDE DEF z
    <2>3. open_inodes'[s] = z /\ \A r \in Sector \ {s} : open_inodes'[r] = open_inodes[r]
      BY <1>7, <2>1
    <2>4. old # NULL
      BY <1>4, <1>5, <1>9
    <2>5. z # NULL /\ old \in OpenInode
      BY <1>7, <2>2, <2>4, NullAssumption
    <2>6. z.open_cnt = old.open_cnt /\ z.deny_write_cnt = old.deny_write_cnt
      BY <1>4, <1>5, <2>2, <2>4, <2>5 DEF OpenInode
    <2>7. CountAt(s)'
      BY <1>8, <2>3, <2>4, <2>5, <2>6 DEF CountAt
    <2> QED BY <1>7, <1>8, <2>3, <2>7, CountStep
  <1>10. CASE ~(x.open_cnt > 1)
    <2>1. open_inodes' = [open_inodes EXCEPT ![s] = NULL]
      BY <1>6, <1>10 DEF Closed
    <2>2. open_inodes'[s] = NULL /\ \A r \in Sector \ {s} : open_inodes'[r] = open_inodes[r]
      BY <1>7, <2>1
    <2>3. FilesOf(s) = {}
      <3>1. CASE old = NULL
        BY <1>8, <3>1 DEF CountAt
      <3>2. CASE old # NULL
        <4>1. old \in OpenInode /\ old.open_cnt = Cardinality(FilesOf(s))
          BY <1>7, <1>8, <3>2 DEF CountAt
        <4>2. old.open_cnt = 0
          BY <1>4, <1>5, <1>10, <3>2, <4>1 DEF OpenInode
        <4> QED BY <1>8, <4>1, <4>2, FS_EmptySet
      <3> QED BY <3>1, <3>2
    <2>4. CountAt(s)'
      BY <1>8, <2>2, <2>3 DEF CountAt
    <2> QED BY <1>7, <1>8, <2>2, <2>4, CountStep
  <1> QED BY <1>9, <1>10

LEMMA SetDenyCounts ==
  ASSUME SoundInv, CountInv, NEW h \in Handle, NEW deny \in BOOLEAN, SetDeny(h, deny)
  PROVE  CountInv'
  <1> PICK s \in Sector : s = file[h].sector
    BY FileHasInode DEF SetDeny
  <1> DEFINE inode == open_inodes[s]
             x == [inode EXCEPT !.deny_write_cnt = IF deny THEN @ + 1 ELSE @ - 1]
             y == [file[h] EXCEPT !.deny_write = deny]
  <1>0. /\ file[h] # NULL /\ file[h].deny_write # deny
        /\ file' = [file EXCEPT ![h] = y]
        /\ open_inodes' = [open_inodes EXCEPT ![s] = x]
    BY DEF SetDeny
  <1>1. /\ inode \in OpenInode /\ h \in FilesOf(s) /\ inode # NULL
        /\ file[h] \in [sector : Sector, deny_write : BOOLEAN]
    BY <1>0, FileHasInode
  <1>2. /\ IsFiniteSet(FilesOf(s)) /\ IsFiniteSet(DenyingOf(s))
        /\ inode.open_cnt = Cardinality(FilesOf(s))
        /\ inode.deny_write_cnt = Cardinality(DenyingOf(s))
        /\ file[h].deny_write => h \in DenyingOf(s) /\ inode.deny_write_cnt > 0
    BY <1>0, DenialCounted
  <1>3. ~file[h].deny_write => h \notin DenyingOf(s)
    BY DEF DenyingOf
  <1>4. y \in [sector : Sector, deny_write : BOOLEAN] /\ y.sector = s /\ y.deny_write = deny
    BY <1>1
  <1>5. y # NULL
    BY <1>4, NullAssumption
  <1>6. /\ x \in OpenInode /\ x.open_cnt = inode.open_cnt
        /\ x.deny_write_cnt = IF deny THEN inode.deny_write_cnt + 1
                              ELSE inode.deny_write_cnt - 1
    <2>1. (IF deny THEN inode.deny_write_cnt + 1 ELSE inode.deny_write_cnt - 1) \in Nat
      BY <1>0, <1>1, <1>2 DEF OpenInode
    <2> QED BY <1>1, <2>1 DEF OpenInode
  <1> HIDE DEF x
  <1>7. open_inodes'[s] = x /\ \A r \in Sector \ {s} : open_inodes'[r] = open_inodes[r]
    BY <1>0 DEF SoundInv, FilesysTypeOK
  <1>8. file'[h] = y /\ \A g \in Handle \ {h} : file'[g] = file[g]
    BY <1>0 DEF SoundInv, FilesysTypeOK
  <1> HIDE DEF y
  <1>9. \A r : FilesOf(r)' = FilesOf(r)
    BY <1>0, <1>4, <1>5, <1>8 DEF FilesOf
  <1>10. \A r \in Sector \ {s} : DenyingOf(r)' = DenyingOf(r)
    BY <1>4, <1>8, <1>9 DEF DenyingOf, FilesOf
  <1>a. FilesOf(s) \subseteq Handle
    BY DEF FilesOf
  <1>11. DenyingOf(s)' = IF deny THEN DenyingOf(s) \cup {h} ELSE DenyingOf(s) \ {h}
    <2>1. CASE deny
      <3>1. y.deny_write
        BY <1>4, <2>1
      <3> QED BY <1>1, <1>8, <1>9, <1>a, <2>1, <3>1 DEF DenyingOf
    <2>2. CASE ~deny
      <3>1. ~y.deny_write
        BY <1>4, <2>2
      <3> QED BY <1>1, <1>8, <1>9, <1>a, <2>2, <3>1 DEF DenyingOf
    <2> QED BY <2>1, <2>2
  <1>12. Cardinality(DenyingOf(s)') = x.deny_write_cnt
    <2>1. CASE deny
      <3>1. h \notin DenyingOf(s)
        BY <1>0, <1>1, <1>3, <2>1
      <3>2. /\ DenyingOf(s)' = DenyingOf(s) \cup {h}
            /\ x.deny_write_cnt = inode.deny_write_cnt + 1
        BY <1>6, <1>11, <2>1
      <3> QED BY ZenonT(60), <1>2, <3>1, <3>2, FS_AddElement
    <2>2. CASE ~deny
      <3>1. h \in DenyingOf(s)
        BY <1>0, <1>1, <1>2, <2>2
      <3>2. /\ DenyingOf(s)' = DenyingOf(s) \ {h}
            /\ x.deny_write_cnt = inode.deny_write_cnt - 1
        BY <1>6, <1>11, <2>2
      <3> QED BY <1>2, <3>1, <3>2, FS_RemoveElement
    <2> QED BY <2>1, <2>2
  <1>13. x # NULL
    BY <1>6, NullAssumption
  <1>14. CountAt(s)'
    BY <1>2, <1>6, <1>7, <1>9, <1>12, <1>13 DEF CountAt
  <1> QED BY <1>2, <1>7, <1>9, <1>10, <1>14, CountStep

LEMMA CrashCounts ==
  ASSUME Crash
  PROVE  CountInv'
  <1>1. /\ \A s \in Sector : open_inodes'[s] = NULL
        /\ \A h \in Handle : file'[h] = NULL
    BY DEF Crash
  <1>2. \A s : FilesOf(s)' = {}
    BY <1>1 DEF FilesOf
  <1>3. (\A s \in Sector : CountAt(s))'
    BY <1>1, <1>2 DEF CountAt
  <1>4. CountsRight'
    BY <1>3 DEF CountsRight, CountAt, FilesOf, DenyingOf
  <1> QED BY <1>2, <1>4, FS_EmptySet DEF CountInv

-----------------------------------------------------------------------------
(* The theorems *)

Inv == SoundInv /\ CountInv

LEMMA InitInv ==
  ASSUME Init
  PROVE  Inv
  <1>1. /\ \A k \in Slot : slots[k] = NULL
        /\ \A s \in Sector : open_inodes[s] = NULL
        /\ \A h \in Handle : file[h] = NULL
        /\ op = Idle /\ disk_map = {} /\ free_map = {}
    BY DEF Init
  <1>2. Used = {} /\ Linked = {} /\ OpenSectors = {} /\ Live = {}
    BY <1>1 DEF Used, Linked, OpenSectors, Live
  <1>3. FilesysTypeOK
    BY FilesysAssumption DEF Init, FilesysTypeOK, Idle
  <1>4. OpOK /\ Shape /\ Space
    BY <1>1, <1>2 DEF OpOK, Idle, Shape, SlotsApart, Space
  <1>5. BusyOK
    BY <1>1, <1>2 DEF Idle, BusyOK, Busy, BusyInode, BusyData, CreateAt
  <1>6. \A s : FilesOf(s) = {}
    BY <1>1 DEF FilesOf
  <1>7. CountsRight
    BY <1>1, <1>6 DEF CountsRight, FilesOf
  <1> QED BY <1>3, <1>4, <1>5, <1>6, <1>7, FS_EmptySet DEF Inv, SoundInv, CountInv

LEMMA StutterInv ==
  ASSUME Inv, UNCHANGED vars
  PROVE  Inv'
  <1>1. UNCHANGED <<disk, slots, disk_map, free_map, open_inodes, file, op, failures>>
    BY DEF vars, diskVars, memVars
  <1>2. Shape' /\ FilesLeft
    BY <1>1, SameFiles DEF Inv
  <1>3. Space'
    BY <1>1, <1>2, MapsKept DEF Inv
  <1>4. Used' = Used /\ Live' = Live /\ BusyInode' = BusyInode /\ BusyData' = BusyData
    BY <1>1 DEF Live, Linked, Used, OpenSectors, BusyInode, BusyData, DataOf
  <1>5. BusyOK'
    <2>1. Busy' \subseteq Busy \cup {} /\ {} \cap free_map = {} /\ Busy' = Busy
      BY <1>4 DEF Busy
    <2>2. (\A s \in Live : Busy \cap Blocks(s) = {})'
      BY <1>2, <2>1, BusyApart DEF Inv
    <2> QED BY <1>1, <1>4, <2>1, <2>2 DEF Inv, SoundInv, BusyOK
  <1>6. OpOK'
    BY <1>1 DEF Inv, SoundInv, OpOK, Placed
  <1>7. FilesysTypeOK'
    BY <1>1 DEF Inv, SoundInv, FilesysTypeOK
  <1>8. CountInv'
    BY <1>1, CountsKept DEF Inv
  <1> QED BY <1>2, <1>3, <1>5, <1>6, <1>7, <1>8 DEF Inv, SoundInv

LEMMA StepInv == Inv /\ [Next]_vars => Inv'
  <1> SUFFICES ASSUME Inv, [Next]_vars
               PROVE  SoundInv' /\ CountInv'
    BY DEF Inv
  <1> USE DEF Inv
  <1>1. ASSUME NEW n \in Name, NEW size \in 0..MaxSize, Create(n, size)
        PROVE  SoundInv' /\ CountInv'
    BY <1>1, CreateSound, CountsKept DEF Create
  <1>2. ASSUME NEW n \in Name, NEW h \in Handle, Open(n, h)
        PROVE  SoundInv' /\ CountInv'
    BY <1>2, OpenSound, OpenCounts
  <1>3. ASSUME NEW n \in Name, Remove(n)
        PROVE  SoundInv' /\ CountInv'
    BY <1>3, RemoveSound, RemoveCounts
  <1>4. CASE CreateExtent
    BY <1>4, CreateExtentSound, CountsKept DEF CreateExtent
  <1>5. CASE CreateInode
    BY <1>5, CreateInodeSound, CountsKept DEF CreateInode, memVars
  <1>6. CASE CreateZeros
    BY <1>6, CreateZerosSound, CountsKept DEF CreateZeros, memVars
  <1>7. CASE DirAdd
    BY <1>7, DirAddSound, CountsKept DEF DirAdd, memVars
  <1>8. CASE CreateUndo
    BY <1>8, CreateUndoSound, CountsKept DEF CreateUndo
  <1>9. ASSUME NEW h \in Handle, Close(h)
        PROVE  SoundInv' /\ CountInv'
    BY <1>9, CloseSound, CloseCounts
  <1>10. ASSUME NEW h \in Handle, NEW copy \in Handle, Reopen(h, copy)
         PROVE  SoundInv' /\ CountInv'
    BY <1>10, ReopenSound, ReopenCounts
  <1>11. ASSUME NEW h \in Handle, NEW i \in 0..(MaxSize - 1), NEW v \in Data, Write(h, i, v)
         PROVE  SoundInv' /\ CountInv'
    BY <1>11, WriteSound, CountsKept DEF Write, memVars
  <1>12. ASSUME NEW h \in Handle, NEW deny \in BOOLEAN, SetDeny(h, deny)
         PROVE  SoundInv' /\ CountInv'
    BY <1>12, SetDenySound, SetDenyCounts
  <1>13. CASE FreeInode
    BY <1>13, FreeInodeSound, CountsKept DEF FreeInode
  <1>14. CASE FreeExtent
    BY <1>14, FreeExtentSound, CountsKept DEF FreeExtent
  <1>15. CASE Crash
    BY <1>15, CrashSound, CrashCounts
  <1>16. CASE UNCHANGED vars
    BY <1>16, StutterInv
  <1> QED BY <1>1, <1>2, <1>3, <1>4, <1>5, <1>6, <1>7, <1>8, <1>9, <1>10, <1>11, <1>12,
             <1>13, <1>14, <1>15, <1>16 DEF Next, Creating

\* What the files use, what the free map marks and what the calls hold always fit
\* together, and so do the counts of the open files.
THEOREM FilesysInvariant == Spec => []Inv
  BY InitInv, StepInv, PTL DEF Spec

\* Whatever fails and wherever the machine stops, an entry of the directory
\* leads to an inode, the sectors of the files are in use, and no two files
\* share one.
THEOREM FilesSound == Spec => []FilesAreSound
  <1>1. Inv => FilesAreSound
    BY DEF Inv, SoundInv, Shape, Space, Live, FilesAreSound
  <1> QED BY <1>1, FilesysInvariant, PTL

\* An inode is open, and denies writes, as often as the open files say.
THEOREM CountsCorrect == Spec => []CountsRight
  <1>1. Inv => CountsRight
    BY DEF Inv, CountInv
  <1> QED BY <1>1, FilesysInvariant, PTL

-----------------------------------------------------------------------------
(* What a call is not about *)

LEMMA DeniedStep ==
  ASSUME Inv, [Next]_vars, NEW h \in Handle, file[h] # NULL, file[h].deny_write,
         NEW s \in Blocks(file[h].sector)
  PROVE  disk'[s] = disk[s]
  <1> DEFINE own == file[h].sector
  <1>0. own \in Live /\ own \in Sector
    BY FileHasInode DEF Inv
  <1>1. s \in Sector /\ s \notin Busy
    BY <1>0 DEF Inv, SoundInv, Space, BusyOK, FilesysTypeOK
  <1>2. disk \in [Sector -> Data \cup Inode]
    BY DEF Inv, SoundInv, FilesysTypeOK
  <1>3. CASE CreateInode
    <2>1. op.sector \in Busy
      BY <1>3 DEF CreateInode, Busy, BusyInode, CreateAt
    <2>2. disk' = [disk EXCEPT ![op.sector] = [start |-> op.start, size |-> op.size]]
      BY <1>3 DEF CreateInode
    <2> QED BY <1>1, <1>2, <2>1, <2>2
  <1>4. CASE CreateZeros
    <2> DEFINE at == op.inode.start + op.i
    <2>1. /\ op.at = "zeros" /\ Placed(op.inode) /\ op.i < op.inode.size
          /\ op.i \in Nat
      BY <1>4, FilesysAssumption DEF CreateZeros, Inv, SoundInv, OpOK
    <2>2. at \in Busy
      BY <2>1, DataAt DEF Busy, BusyData
    <2>3. disk' = [disk EXCEPT ![at] = ZERO]
      BY <1>4 DEF CreateZeros
    <2> HIDE DEF at
    <2> QED BY <1>1, <1>2, <2>2, <2>3
  <1>5. ASSUME NEW g \in Handle, NEW i \in 0..(MaxSize - 1), NEW v \in Data, Write(g, i, v)
        PROVE  disk'[s] = disk[s]
    <2> DEFINE other == file[g].sector
               at == open_inodes[other].start + i
    <2>1. /\ file[g] # NULL /\ open_inodes[other].deny_write_cnt = 0
          /\ disk' = [disk EXCEPT ![at] = v] /\ at \in Blocks(other)
      BY <1>5, WrittenSector DEF Inv
    <2>2. other \in Live
      BY <2>1, FileHasInode DEF Inv
    <2>3. open_inodes[own].deny_write_cnt > 0
      BY DenialCounted DEF Inv
    <2>4. other # own
      BY <2>1, <2>3
    <2>5. at # s
      BY <1>0, <2>1, <2>2, <2>4 DEF Inv, SoundInv, Space
    <2> HIDE DEF at
    <2> QED BY <1>1, <1>2, <2>1, <2>5
  <1>6. CASE disk' = disk
    BY <1>6
  <1>7. \/ disk' = disk \/ CreateInode \/ CreateZeros
        \/ \E g \in Handle, i \in 0..(MaxSize - 1), v \in Data : Write(g, i, v)
    BY DEF Next, Creating, Create, Open, Remove, CreateExtent, DirAdd, CreateUndo, Close,
           Reopen, SetDeny, FreeInode, FreeExtent, Crash, vars, diskVars
  <1> QED BY <1>3, <1>4, <1>5, <1>6, <1>7

\* The slot dir_add() takes when no memory was lacking.
LEMMA SlotIsFree ==
  ASSUME NEW scanned \in Stop, scanned = Slots + 1, FreeSlot(scanned) \in Slot
  PROVE  slots[FreeSlot(scanned)] = NULL
  <1>1. FreeSlot(scanned) # scanned
    BY FilesysAssumption DEF Slot
  <1> QED BY <1>1, FreeSlotFound

LEMMA NoFailure ==
  ASSUME SoundInv, NEW n \in Nat, Fails(n), failures' = failures
  PROVE  n = 0
  BY FilesysAssumption DEF SoundInv, FilesysTypeOK, Fails

\* What dir_add() does when no memory was lacking.
LEMMA DirAddStep ==
  ASSUME SoundInv, DirAdd, failures' = failures
  PROVE  \/ UNCHANGED slots
         \/ \E k \in Slot :
              /\ slots[k] = NULL /\ op' = Idle
              /\ slots' = [slots EXCEPT ![k] = [name |-> op.name, sector |-> op.sector]]
              /\ Lookup(op.name, Slots + 1) = {}
  <1>1. CASE slots' # slots
    <2>1. PICK looked \in Stop, scanned \in Stop :
            /\ Lookup(op.name, looked) = {} /\ FreeSlot(scanned) \in Slot
            /\ Fails(Short(looked) + Short(scanned)) /\ op' = Idle
            /\ slots' = [slots EXCEPT ![FreeSlot(scanned)] =
                             [name |-> op.name, sector |-> op.sector]]
      BY <1>1 DEF DirAdd
    <2>2. Short(looked) \in Nat /\ Short(scanned) \in Nat
      BY DEF Short
    <2>3. Short(looked) + Short(scanned) = 0
      BY <2>1, <2>2, NoFailure
    <2>4. looked = Slots + 1 /\ scanned = Slots + 1
      BY <2>2, <2>3, FilesysAssumption DEF Short, Stop
    <2>5. slots[FreeSlot(scanned)] = NULL
      BY <2>1, <2>4, SlotIsFree
    <2> QED BY <2>1, <2>4, <2>5
  <1> QED BY <1>1

LEMMA EntryStep ==
  ASSUME Inv, [Next]_vars, failures' = failures, NEW k \in Used
  PROVE  slots'[k] \in {slots[k], NULL}
  <1>0. k \in Slot /\ slots[k] # NULL
        /\ slots \in [Slot -> [name : Name, sector : Sector] \cup {NULL}]
    BY DEF Used, Inv, SoundInv, FilesysTypeOK
  <1>1. CASE DirAdd
    BY <1>0, <1>1, DirAddStep DEF Inv
  <1>2. ASSUME NEW n \in Name, Remove(n)
        PROVE  slots'[k] \in {slots[k], NULL}
    <2>1. PICK j \in Lookup(n, Slots + 1) : slots' = [slots EXCEPT ![j] = NULL]
      BY <1>2 DEF Remove
    <2> QED BY <1>0, <2>1
  <1>3. slots' = slots \/ DirAdd \/ \E n \in Name : Remove(n)
    BY DEF Next, Creating, Create, Open, CreateExtent, CreateInode, CreateZeros, CreateUndo,
           Close, Reopen, Write, SetDeny, FreeInode, FreeExtent, Crash, vars, diskVars
  <1> QED BY <1>1, <1>2, <1>3

\* A denied file is not written, and an entry stays until its file is removed,
\* unless memory runs out while dir_add() looks for a slot.
THEOREM OthersStayUntouched == Spec => OthersUntouched
  <1> DEFINE Denied == \A h \in Handle :
               file[h] # NULL /\ file[h].deny_write /\ file'[h] = file[h] =>
                   \A s \in Blocks(file[h].sector) : disk'[s] = disk[s]
             Kept == failures' = failures => \A k \in Used : slots'[k] \in {slots[k], NULL}
  <1>1. Inv /\ [Next]_vars => Denied /\ Kept
    BY DeniedStep, EntryStep
  <1>2. DeniedIsUnchanged <=> [][Denied]_vars
    BY DEF DeniedIsUnchanged
  <1>3. EntriesKept <=> [][Kept]_vars
    BY DEF EntriesKept
  <1> HIDE DEF Denied, Kept
  <1> QED BY <1>1, <1>2, <1>3, FilesysInvariant, PTL DEF Spec, OthersUntouched

-----------------------------------------------------------------------------
(* The refinement of FileStore *)

\* As long as no allocation failed, no two entries have the same name.
NamesApart == \A k, j \in Used : slots[k].name = slots[j].name => k = j
NameInv == failures = 0 => NamesApart

\* filesys_create() has zeroed this many sectors of the data.
ZeroInv ==
    /\ op.at = "zeros" => \A i \in 0..(op.i - 1) : disk[op.inode.start + i] = ZERO
    /\ op.at = "add" => \A i \in 0..(op.inode.size - 1) : disk[op.inode.start + i] = ZERO

StoreInv == Inv /\ NameInv /\ ZeroInv

ContentOf(s) == [i \in 1..disk[s].size |-> disk[disk[s].start + i - 1]]

LEMMA LookupAll ==
  ASSUME NEW n
  PROVE  Lookup(n, Slots + 1) = {k \in Used : slots[k].name = n}
  BY FilesysAssumption DEF Lookup, Used, Slot

LEMMA NamedAre ==
  ASSUME NamesApart, NEW n \in Name
  PROVE  /\ \A k \in Used : slots[k].name = n =>
                /\ Lookup(n, Slots + 1) = {k}
                /\ NamedFiles[n] = ContentOf(slots[k].sector)
         /\ Lookup(n, Slots + 1) = {} => NamedFiles[n] = NULL
  <1>1. ASSUME NEW k \in Used, slots[k].name = n
        PROVE  Lookup(n, Slots + 1) = {k} /\ NamedFiles[n] = ContentOf(slots[k].sector)
    <2>1. Lookup(n, Slots + 1) = {k}
      BY <1>1, LookupAll DEF NamesApart
    <2>2. (CHOOSE j \in Lookup(n, Slots + 1) : TRUE) = k
      BY <2>1
    <2> QED BY <2>1, <2>2 DEF NamedFiles, ContentOf
  <1>2. Lookup(n, Slots + 1) = {} => NamedFiles[n] = NULL
    BY DEF NamedFiles
  <1> QED BY <1>1, <1>2

LEMMA LookupAllNext ==
  ASSUME NEW n
  PROVE  Lookup(n, Slots + 1)' = {k \in Used' : slots'[k].name = n}
  BY FilesysAssumption DEF Lookup, Used, Slot

LEMMA NamedAreNext ==
  ASSUME NamesApart', NEW n \in Name
  PROVE  /\ \A k \in Used' : slots'[k].name = n =>
                NamedFiles'[n] = ContentOf(slots[k].sector)'
         /\ Lookup(n, Slots + 1)' = {} => NamedFiles'[n] = NULL
  <1>1. ASSUME NEW k \in Used', slots'[k].name = n
        PROVE  NamedFiles'[n] = ContentOf(slots[k].sector)'
    <2>1. Lookup(n, Slots + 1)' = {k}
      BY <1>1, LookupAllNext DEF NamesApart
    <2>2. (CHOOSE j \in Lookup(n, Slots + 1) : TRUE)' = k
      BY <2>1
    <2> QED BY <2>1, <2>2 DEF NamedFiles, ContentOf
  <1>2. Lookup(n, Slots + 1)' = {} => NamedFiles'[n] = NULL
    BY DEF NamedFiles
  <1> QED BY <1>1, <1>2

\* What a file holds is in its sectors.
LEMMA ContentIs ==
  ASSUME SoundInv, NEW s \in Linked
  PROVE  /\ disk[s].size \in 0..MaxSize /\ s \in Blocks(s) /\ Blocks(s) \subseteq Sector
         /\ \A i \in 1..disk[s].size : disk[s].start + i - 1 \in Blocks(s)
         /\ ContentOf(s) # NULL
  <1>1. disk[s].size \in 0..MaxSize /\ Placed(disk[s]) /\ s \in Live
    BY DEF SoundInv, Shape, Placed, Live
  <1>2. DataOf(disk[s]) \subseteq Blocks(s) /\ s \in Blocks(s)
    BY <1>1, BlocksAre, Inodes
  <1>3. Blocks(s) \subseteq Sector
    BY <1>1 DEF SoundInv, Space, FilesysTypeOK
  <1>4. ASSUME NEW i \in 1..disk[s].size
        PROVE  disk[s].start + i - 1 \in Blocks(s)
    <2>1. i - 1 \in Nat /\ i - 1 < disk[s].size /\ disk[s].size > 0
      BY <1>1, FilesysAssumption
    <2>2. disk[s].start + (i - 1) \in DataOf(disk[s])
      BY <1>1, <2>1, DataAt
    <2>3. disk[s].start \in Int
      BY <1>1, <2>1, FilesysAssumption DEF Placed, Sector
    <2> QED BY <1>2, <2>2, <2>3
  <1>5. ContentOf(s) \in [1..disk[s].size -> Data \cup Inode]
    BY <1>3, <1>4 DEF ContentOf, SoundInv, FilesysTypeOK
  <1> QED BY <1>1, <1>2, <1>3, <1>4, <1>5, NullAssumption

\* The sectors of the files that have a name stay as they are.
LEMMA NamedKept ==
  ASSUME SoundInv, slots' = slots,
         \A s \in Linked : \A t \in Blocks(s) : disk'[t] = disk[t]
  PROVE  UNCHANGED NamedFiles
  <1>1. ASSUME NEW s \in Linked
        PROVE  ContentOf(s)' = ContentOf(s)
    <2>1. disk'[s] = disk[s]
      BY ContentIs
    <2>2. \A i \in 1..disk[s].size : disk'[disk[s].start + i - 1] = disk[disk[s].start + i - 1]
      BY ContentIs
    <2> QED BY <2>1, <2>2 DEF ContentOf
  <1>2. \A n : Lookup(n, Slots + 1)' = Lookup(n, Slots + 1)
    BY DEF Lookup
  <1> DEFINE F(n) == IF Lookup(n, Slots + 1) = {} THEN NULL
                     ELSE ContentOf(slots[CHOOSE k \in Lookup(n, Slots + 1) : TRUE].sector)
  <1>3. NamedFiles = [n \in Name |-> F(n)]
    BY DEF NamedFiles, ContentOf
  <1>4. NamedFiles' = [n \in Name |-> F(n)']
    BY DEF NamedFiles, ContentOf
  <1>5. ASSUME NEW n \in Name
        PROVE  F(n)' = F(n)
    <2>1. CASE Lookup(n, Slots + 1) = {}
      BY <1>2, <2>1
    <2>2. CASE Lookup(n, Slots + 1) # {}
      <3>1. PICK k : k = CHOOSE j \in Lookup(n, Slots + 1) : TRUE
        OBVIOUS
      <3>2. k \in Lookup(n, Slots + 1)
        BY <2>2, <3>1
      <3>3. PICK s \in Linked : s = slots[k].sector
        BY <3>2 DEF Lookup, Linked, Used
      <3>4. F(n) = ContentOf(s)
        BY <2>2, <3>1, <3>3
      <3>5. F(n)' = ContentOf(s)'
        BY <1>2, <2>2, <3>1, <3>3
      <3> QED BY <1>1, <3>4, <3>5
    <2> QED BY <2>1, <2>2
  <1> QED BY <1>3, <1>4, <1>5

LEMMA BusyKeepsNames ==
  ASSUME SoundInv, slots' = slots, NEW t \in Busy, NEW v,
         disk' = [disk EXCEPT ![t] = v]
  PROVE  UNCHANGED NamedFiles
  <1>1. \A s \in Linked : t \notin Blocks(s) /\ Blocks(s) \subseteq Sector
    BY ContentIs DEF SoundInv, BusyOK, Live
  <1>2. \A s \in Sector : s # t => disk'[s] = disk[s]
    BY DEF SoundInv, FilesysTypeOK
  <1> QED BY <1>1, <1>2, NamedKept

LEMMA FailuresGrow ==
  ASSUME SoundInv, [Next]_vars, failures' = 0
  PROVE  failures = 0
  <1>0. failures \in Nat
    BY FilesysAssumption DEF SoundInv, FilesysTypeOK
  <1>1. \A n \in Nat : Fails(n) => failures = 0
    BY <1>0 DEF Fails
  <1>2. CASE DirAdd
    <2>1. \A s : Short(s) \in Nat
      BY DEF Short
    <2>2. PICK looked \in Stop, scanned \in Stop :
            \/ UNCHANGED failures
            \/ Fails(Short(looked) + Short(scanned))
            \/ Fails(Short(looked) + Short(scanned) +
                     (IF FreeSlot(scanned) \in Slot THEN 1 ELSE 0))
      BY <1>2 DEF DirAdd
    <2>3. CASE UNCHANGED failures
      BY <2>3
    <2>4. CASE Fails(Short(looked) + Short(scanned))
      BY <1>1, <2>1, <2>4
    <2>5. CASE Fails(Short(looked) + Short(scanned) +
                     (IF FreeSlot(scanned) \in Slot THEN 1 ELSE 0))
      BY <1>1, <2>1, <2>5
    <2> QED BY <2>2, <2>3, <2>4, <2>5
  <1>3. failures' = failures \/ Fails(1) \/ DirAdd
    BY DEF Next, Creating, Create, Open, Remove, CreateExtent, CreateInode, CreateZeros,
           CreateUndo, Close, Reopen, Write, SetDeny, FreeInode, FreeExtent, Crash, vars,
           Allocated, NotAllocated, Release
  <1> QED BY <1>1, <1>2, <1>3

LEMMA NameStep ==
  ASSUME Inv, NameInv, [Next]_vars
  PROVE  NameInv'
  <1> SUFFICES ASSUME failures' = 0
               PROVE  NamesApart'
    BY DEF NameInv
  <1>0. NamesApart /\ failures' = failures
    BY FailuresGrow DEF Inv, NameInv
  <1>1. slots \in [Slot -> [name : Name, sector : Sector] \cup {NULL}]
    BY DEF Inv, SoundInv, FilesysTypeOK
  <1>2. CASE slots' = slots
    BY <1>0, <1>2 DEF NamesApart, Used
  <1>3. ASSUME NEW k \in Slot, Lookup(op.name, Slots + 1) = {},
               slots' = [slots EXCEPT ![k] = [name |-> op.name, sector |-> op.sector]]
        PROVE  NamesApart'
    <2>1. \A j \in Used : slots[j].name # op.name
      BY <1>3, LookupAll
    <2>2. \A j \in Used' : j = k \/ (j \in Used /\ slots'[j] = slots[j])
      BY <1>1, <1>3 DEF Used
    <2>3. slots'[k].name = op.name
      BY <1>1, <1>3
    <2> QED BY <1>0, <2>1, <2>2, <2>3 DEF NamesApart
  <1>4. ASSUME NEW n \in Name, Remove(n)
        PROVE  NamesApart'
    <2>1. PICK j \in Lookup(n, Slots + 1) : slots' = [slots EXCEPT ![j] = NULL]
      BY <1>4 DEF Remove
    <2>2. \A k \in Used' : k \in Used /\ slots'[k] = slots[k]
      BY <1>1, <2>1 DEF Used
    <2> QED BY <1>0, <2>2 DEF NamesApart
  <1>5. slots' = slots \/ DirAdd \/ \E n \in Name : Remove(n)
    BY DEF Next, Creating, Create, Open, CreateExtent, CreateInode, CreateZeros, CreateUndo,
           Close, Reopen, Write, SetDeny, FreeInode, FreeExtent, Crash, vars, diskVars
  <1> QED BY <1>0, <1>2, <1>3, <1>4, <1>5, DirAddStep DEF Inv

LEMMA ZeroStep ==
  ASSUME Inv, ZeroInv, [Next]_vars
  PROVE  ZeroInv'
  <1>1. CASE CreateInode
    <2>1. /\ op'.at = (IF op.size = 0 THEN "add" ELSE "zeros") /\ op'.i = 0
          /\ op'.inode = disk'[op.sector]
          /\ disk' = [disk EXCEPT ![op.sector] = [start |-> op.start, size |-> op.size]]
          /\ op.sector \in Sector
      BY <1>1 DEF CreateInode, Inv, SoundInv, OpOK
    <2>2. op'.inode.size = op.size
      BY <2>1 DEF Inv, SoundInv, FilesysTypeOK
    <2>3. op'.at = "add" => op.size = 0
      BY <2>1
    <2> QED BY <2>1, <2>2, <2>3 DEF ZeroInv
  <1>2. CASE CreateZeros
    <2> DEFINE at(i) == op.inode.start + i
    <2>1. /\ op.at = "zeros" /\ Placed(op.inode) /\ op.i < op.inode.size
          /\ op.i \in Nat /\ op.inode.size \in Nat
      BY <1>2, FilesysAssumption DEF CreateZeros, Inv, SoundInv, OpOK, Placed
    <2>2. \A i \in 0..op.i : at(i) \in Sector
      <3>1. \A i \in 0..op.i : at(i) \in BusyData
        BY <2>1, DataAt DEF BusyData
      <3> QED BY <3>1 DEF Busy, Inv, SoundInv, BusyOK, FilesysTypeOK
    <2>3. disk' = [disk EXCEPT ![at(op.i)] = ZERO]
      BY <1>2 DEF CreateZeros
    <2>4. op.inode.start \in Nat
      BY <2>1, FilesysAssumption DEF Placed, Sector
    <2>5. \A i \in 0..op.i : disk'[at(i)] = ZERO
      <3>1. \A i \in 0..(op.i - 1) : disk[at(i)] = ZERO
        BY <2>1 DEF ZeroInv
      <3>2. \A i \in 0..op.i : i = op.i \/ (i \in 0..(op.i - 1) /\ at(i) # at(op.i))
        BY <2>1, <2>4
      <3> HIDE DEF at
      <3>3. op.i \in 0..op.i
        BY <2>1
      <3> QED BY <2>2, <2>3, <3>1, <3>2, <3>3 DEF Inv, SoundInv, FilesysTypeOK
    <2>6. CASE op.i + 1 = op.inode.size
      <3>1. op' = [op EXCEPT !.at = "add"]
        BY <1>2, <2>6 DEF CreateZeros
      <3>2. op'.at = "add" /\ op'.inode = op.inode
        BY <2>1, <1>2, <3>1 DEF Inv, SoundInv, OpOK
      <3>3. 0..(op.inode.size - 1) = 0..op.i
        BY <2>1, <2>6
      <3> QED BY <2>5, <3>2, <3>3 DEF ZeroInv
    <2>7. CASE op.i + 1 # op.inode.size
      <3>1. op' = [op EXCEPT !.i = @ + 1]
        BY <1>2, <2>7 DEF CreateZeros
      <3>2. op'.at = "zeros" /\ op'.inode = op.inode /\ op'.i = op.i + 1
        BY <2>1, <1>2, <3>1 DEF Inv, SoundInv, OpOK
      <3>3. 0..(op'.i - 1) = 0..op.i
        BY <2>1, <3>2
      <3> QED BY <2>5, <3>2, <3>3 DEF ZeroInv
    <2> QED BY <2>6, <2>7
  <1>3. CASE UNCHANGED <<op, disk>>
    BY <1>3 DEF ZeroInv
  <1>4. CASE op'.at \notin {"zeros", "add"}
    BY <1>4 DEF ZeroInv
  <1>5. CASE op' = op /\ op = Idle
    BY <1>5 DEF ZeroInv, Idle
  <1>6. \/ CreateInode \/ CreateZeros \/ UNCHANGED <<op, disk>>
        \/ op'.at \notin {"zeros", "add"} \/ (op' = op /\ op = Idle)
    <2>1. ASSUME NEW h \in Handle, Close(h)
          PROVE  (op' = op /\ op = Idle) \/ op'.at = "free"
      BY <2>1 DEF Close, Closed
    <2>2. ASSUME NEW n \in Name, Remove(n)
          PROVE  (op' = op /\ op = Idle) \/ op'.at = "free"
      BY <2>2 DEF Remove, Closed
    <2>3. CASE FreeInode
      <3>1. op'.at = "free_extent"
        BY <2>3 DEF FreeInode, Inv, SoundInv, OpOK
      <3> QED BY <3>1
    <2>4. CASE DirAdd
      BY <2>4 DEF DirAdd, Idle
    <2>5. CASE UNCHANGED vars
      BY <2>5 DEF vars, diskVars
    <2>6. CASE CreateExtent \/ CreateUndo \/ FreeExtent \/ Crash
      BY <2>6 DEF CreateExtent, CreateUndo, FreeExtent, Crash, Idle
    <2>7. ASSUME NEW n \in Name, NEW size \in 0..MaxSize, Create(n, size)
          PROVE  (op' = op /\ op = Idle) \/ op'.at = "extent"
      BY <2>7 DEF Create
    <2>8. \A h \in Handle :
            /\ \A n \in Name : Open(n, h) => op' = op /\ op = Idle
            /\ \A copy \in Handle : Reopen(h, copy) => op' = op /\ op = Idle
            /\ \A i \in 0..(MaxSize - 1), v \in Data : Write(h, i, v) => op' = op /\ op = Idle
            /\ \A deny \in BOOLEAN : SetDeny(h, deny) => op' = op /\ op = Idle
      BY DEF Open, Reopen, Write, SetDeny
    <2> QED BY <2>1, <2>2, <2>3, <2>4, <2>5, <2>6, <2>7, <2>8 DEF Next, Creating
  <1> QED BY <1>1, <1>2, <1>3, <1>4, <1>5, <1>6

\* A file gets its name: the file store creates it, full of zeros.
LEMMA NamedIsCreated ==
  ASSUME StoreInv, NamesApart, NamesApart', DirAdd, NEW k \in Slot, slots[k] = NULL,
         slots' = [slots EXCEPT ![k] = [name |-> op.name, sector |-> op.sector]],
         Lookup(op.name, Slots + 1) = {}
  PROVE  FS!Next
  <1> DEFINE n == op.name
             s == op.sector
             size == op.inode.size
             zeros == [i \in 1..size |-> ZERO]
  <1>0. /\ n \in Name /\ s \in Sector /\ size \in 0..MaxSize /\ disk[s] = op.inode
        /\ Placed(op.inode) /\ op.at = "add" /\ disk' = disk
    BY DEF DirAdd, StoreInv, Inv, SoundInv, OpOK, Placed
  <1>1. slots \in [Slot -> [name : Name, sector : Sector] \cup {NULL}]
    BY DEF StoreInv, Inv, SoundInv, FilesysTypeOK
  <1>2. /\ slots'[k].name = n /\ slots'[k].sector = s /\ slots'[k] # NULL
        /\ \A j \in Slot : j # k => slots'[j] = slots[j]
    <2>1. [name |-> n, sector |-> s] # NULL
      BY <1>0, NullAssumption
    <2> QED BY <1>1, <2>1
  <1>3. k \in Used' /\ k \notin Used /\ \A j \in Used' : j # k => j \in Used
        /\ Used \subseteq Used'
    BY <1>2 DEF Used
  <1>4. \A m \in Name : NamedFiles'[m] = [NamedFiles EXCEPT ![n] = zeros][m]
    <2> SUFFICES ASSUME NEW m \in Name
                 PROVE  NamedFiles'[m] = [NamedFiles EXCEPT ![n] = zeros][m]
      OBVIOUS
    <2>1. /\ \A j \in Used' : slots'[j].name = m =>
               NamedFiles'[m] = ContentOf(slots[j].sector)'
          /\ Lookup(m, Slots + 1)' = {} => NamedFiles'[m] = NULL
      BY NamedAreNext
    <2>2. CASE m = n
      <3>1. NamedFiles'[m] = ContentOf(slots[k].sector)'
        BY <1>2, <1>3, <2>1, <2>2
      <3>2. ContentOf(slots[k].sector)' = [i \in 1..size |-> disk[op.inode.start + i - 1]]
        BY <1>0, <1>2 DEF ContentOf
      <3>3. \A i \in 1..size : disk[op.inode.start + i - 1] = ZERO
        <4>1. ASSUME NEW i \in 1..size
              PROVE  disk[op.inode.start + i - 1] = ZERO
          <5>1. i - 1 \in 0..(size - 1) /\ op.inode.start \in Int
            BY <1>0, FilesysAssumption DEF Placed, Sector
          <5>2. disk[op.inode.start + (i - 1)] = ZERO
            BY <1>0, <5>1 DEF StoreInv, ZeroInv
          <5> QED BY <1>0, <5>1, <5>2
        <4> QED BY <4>1
      <3>4. NamedFiles'[m] = zeros
        BY <3>1, <3>2, <3>3
      <3> QED BY <1>0, <2>2, <3>4 DEF NamedFiles
    <2>3. CASE m # n
      <3>1. [NamedFiles EXCEPT ![n] = zeros][m] = NamedFiles[m]
        BY <2>3 DEF NamedFiles
      <3>2. CASE Lookup(m, Slots + 1) = {}
        <4>1. \A j \in Used : slots[j].name # m
          BY <3>2, LookupAll
        <4>2. \A j \in Used' : slots'[j].name # m
          BY <1>2, <1>3, <2>3, <4>1 DEF Used
        <4>3. Lookup(m, Slots + 1)' = {}
          BY <4>2, LookupAllNext
        <4> QED BY <2>1, <3>1, <3>2, <4>3, NamedAre
      <3>3. CASE Lookup(m, Slots + 1) # {}
        <4>1. PICK j \in Used : slots[j].name = m
          BY <3>3, LookupAll
        <4>2. j \in Used' /\ j # k /\ slots'[j] = slots[j]
          BY <1>2, <1>3, <4>1 DEF Used
        <4>3. NamedFiles[m] = ContentOf(slots[j].sector)
          BY <4>1, NamedAre
        <4>4. NamedFiles'[m] = ContentOf(slots[j].sector)'
          BY <2>1, <4>1, <4>2
        <4>5. ContentOf(slots[j].sector)' = ContentOf(slots[j].sector)
          BY <1>0, <4>2 DEF ContentOf
        <4> QED BY <3>1, <4>3, <4>4, <4>5
      <3> QED BY <3>2, <3>3
    <2> QED BY <2>2, <2>3
  <1>5. NamedFiles' = [NamedFiles EXCEPT ![n] = zeros]
    BY <1>4 DEF NamedFiles
  <1>6. NamedFiles[n] = NULL
    BY <1>0, NamedAre
  <1>7. FS!Create(n)
    BY <1>0, <1>5, <1>6 DEF FS!Create
  <1> QED BY <1>0, <1>7 DEF FS!Next

\* A file loses its name.
LEMMA RemovedIsRemoved ==
  ASSUME StoreInv, NamesApart, NamesApart', NEW n \in Name, Remove(n)
  PROVE  FS!Next
  <1>1. PICK k \in Lookup(n, Slots + 1) : slots' = [slots EXCEPT ![k] = NULL]
    BY DEF Remove
  <1>2. k \in Used /\ slots[k].name = n /\ k \in Slot
    BY <1>1, LookupAll DEF Used
  <1>3. /\ slots'[k] = NULL
        /\ \A j \in Slot : j # k => slots'[j] = slots[j]
    BY <1>1, <1>2 DEF StoreInv, Inv, SoundInv, FilesysTypeOK
  <1>4. Used' = Used \ {k}
    BY <1>3 DEF Used
  <1>5. disk' = disk
    BY DEF Remove
  <1>6. \A m \in Name : NamedFiles'[m] = [NamedFiles EXCEPT ![n] = NULL][m]
    <2> SUFFICES ASSUME NEW m \in Name
                 PROVE  NamedFiles'[m] = [NamedFiles EXCEPT ![n] = NULL][m]
      OBVIOUS
    <2>1. /\ \A j \in Used' : slots'[j].name = m =>
               NamedFiles'[m] = ContentOf(slots[j].sector)'
          /\ Lookup(m, Slots + 1)' = {} => NamedFiles'[m] = NULL
      BY NamedAreNext
    <2>2. CASE m = n
      <3>1. \A j \in Used' : slots'[j].name # n
        BY <1>2, <1>3, <1>4 DEF NamesApart, Used
      <3>2. Lookup(m, Slots + 1)' = {}
        BY <2>2, <3>1, LookupAllNext
      <3> QED BY <2>1, <2>2, <3>2 DEF NamedFiles
    <2>3. CASE m # n
      <3>1. [NamedFiles EXCEPT ![n] = NULL][m] = NamedFiles[m]
        BY <2>3 DEF NamedFiles
      <3>2. CASE Lookup(m, Slots + 1) = {}
        <4>1. \A j \in Used' : slots'[j].name # m
          BY <1>3, <1>4, <3>2, LookupAll DEF Used
        <4>2. Lookup(m, Slots + 1)' = {}
          BY <4>1, LookupAllNext
        <4> QED BY <2>1, <3>1, <3>2, <4>2, NamedAre
      <3>3. CASE Lookup(m, Slots + 1) # {}
        <4>1. PICK j \in Used : slots[j].name = m
          BY <3>3, LookupAll
        <4>2. j \in Used' /\ slots'[j] = slots[j]
          BY <1>2, <1>3, <1>4, <2>3, <4>1 DEF Used
        <4>3. NamedFiles[m] = ContentOf(slots[j].sector)
          BY <4>1, NamedAre
        <4>4. NamedFiles'[m] = ContentOf(slots[j].sector)'
          BY <2>1, <4>1, <4>2
        <4>5. ContentOf(slots[j].sector)' = ContentOf(slots[j].sector)
          BY <1>5, <4>2 DEF ContentOf
        <4> QED BY <3>1, <4>3, <4>4, <4>5
      <3> QED BY <3>2, <3>3
    <2> QED BY <2>2, <2>3
  <1>7. NamedFiles' = [NamedFiles EXCEPT ![n] = NULL]
    BY <1>6 DEF NamedFiles
  <1>8. NamedFiles[n] # NULL
    <2>1. slots[k].sector \in Linked
      BY <1>2 DEF Linked
    <2>2. ContentOf(slots[k].sector) # NULL
      BY <2>1, ContentIs DEF StoreInv, Inv
    <2> QED BY <1>2, <2>2, NamedAre
  <1>9. FS!Remove(n)
    BY <1>7, <1>8 DEF FS!Remove
  <1> QED BY <1>9 DEF FS!Next

\* A file that has a name is written.
LEMMA WrittenIsWritten ==
  ASSUME StoreInv, NamesApart, NEW h \in Handle, NEW i \in 0..(MaxSize - 1), NEW v \in Data,
         Write(h, i, v)
  PROVE  UNCHANGED NamedFiles \/ FS!Next
  <1>0. SoundInv /\ CountInv /\ disk \in [Sector -> Data \cup Inode]
    BY DEF StoreInv, Inv, SoundInv, FilesysTypeOK
  <1>1. PICK s \in Live : s = file[h].sector
    BY <1>0, FileHasInode DEF Write
  <1> DEFINE at == open_inodes[s].start + i
  <1>2. /\ disk' = [disk EXCEPT ![at] = v] /\ at \in Blocks(s) /\ at \in Sector
        /\ at \notin Live /\ slots' = slots /\ i < open_inodes[s].size
        /\ s \in OpenSectors
    BY <1>0, <1>1, WrittenSector, FileHasInode DEF Write
  <1>3. \A t \in Sector : t # at => disk'[t] = disk[t]
    BY <1>0, <1>2
  <1>4. \A r \in Linked : r # s => at \notin Blocks(r) /\ Blocks(r) \subseteq Sector
    BY <1>0, <1>2, ContentIs DEF SoundInv, Space, Live
  <1>5. CASE s \notin Linked
    <2> HIDE DEF at
    <2>1. \A r \in Linked : \A t \in Blocks(r) : disk'[t] = disk[t]
      BY <1>3, <1>4, <1>5
    <2> QED BY <1>0, <1>2, <2>1, NamedKept
  <1>6. CASE s \in Linked
    <2>1. open_inodes[s].start = disk[s].start /\ open_inodes[s].size = disk[s].size
      BY <1>0, <1>2, <1>6 DEF SoundInv, Shape
    <2>2. PICK k \in Used : slots[k].sector = s
      BY <1>6 DEF Linked
    <2>3. PICK n \in Name : n = slots[k].name
      BY <1>0, <2>2 DEF SoundInv, FilesysTypeOK, Used
    <2>4. disk[s].size \in 0..MaxSize /\ i \in Nat /\ disk[s].start \in Int
      <3>1. Placed(disk[s])
        BY <1>0, <1>6 DEF SoundInv, Shape
      <3> QED BY <1>2, <2>1, <3>1, FilesysAssumption DEF Placed, Sector
    <2>5. /\ i + 1 \in 1..MaxSize /\ i + 1 \in 1..disk[s].size
          /\ at = disk[s].start + (i + 1) - 1
          /\ \A j \in 1..disk[s].size : disk[s].start + j - 1 = at => j = i + 1
      BY <1>2, <2>1, <2>4, FilesysAssumption
    <2>6. \A j \in 1..disk[s].size : disk[s].start + j - 1 \in Sector
      BY <1>0, <1>6, ContentIs
    <2>7. disk'[s] = disk[s]
      BY <1>2, <1>3, <1>6, Inodes, <1>0 DEF Live
    <2> HIDE DEF at
    <2>8. ContentOf(s)' = [ContentOf(s) EXCEPT ![i + 1] = v]
      <3>1. ContentOf(s)' = [j \in 1..disk[s].size |-> disk'[disk[s].start + j - 1]]
        BY <2>7 DEF ContentOf
      <3>2. disk'[at] = v
        BY <1>0, <1>2
      <3>3. \A j \in 1..disk[s].size : disk'[disk[s].start + j - 1] =
                IF j = i + 1 THEN v ELSE disk[disk[s].start + j - 1]
        BY <1>3, <2>5, <2>6, <3>2
      <3> QED BY <3>1, <3>3 DEF ContentOf
    <2>9. NamedFiles[n] = ContentOf(s)
      BY <2>2, <2>3, NamedAre
    <2>10. NamesApart'
      BY <1>2 DEF NamesApart, Used
    <2>11. Used' = Used
      BY <1>2 DEF Used
    <2>12. \A m \in Name : NamedFiles'[m] = [NamedFiles EXCEPT ![n] = [NamedFiles[n] EXCEPT ![i + 1] = v]][m]
      <3> SUFFICES ASSUME NEW m \in Name
                   PROVE  NamedFiles'[m] = [NamedFiles EXCEPT ![n] = [NamedFiles[n] EXCEPT ![i + 1] = v]][m]
        OBVIOUS
      <3>1. /\ \A j \in Used' : slots'[j].name = m =>
                 NamedFiles'[m] = ContentOf(slots[j].sector)'
            /\ Lookup(m, Slots + 1)' = {} => NamedFiles'[m] = NULL
        BY <2>10, NamedAreNext
      <3>2. CASE m = n
        <4>1. NamedFiles'[m] = ContentOf(slots[k].sector)'
          BY <1>2, <2>2, <2>3, <2>11, <3>1, <3>2
        <4>2. ContentOf(slots[k].sector)' = ContentOf(s)'
          BY <1>2, <2>2 DEF ContentOf
        <4>3. NamedFiles'[m] = [NamedFiles[n] EXCEPT ![i + 1] = v]
          BY <2>8, <2>9, <4>1, <4>2
        <4> QED BY <3>2, <4>3 DEF NamedFiles
      <3>3. CASE m # n
        <4>1. [NamedFiles EXCEPT ![n] = [NamedFiles[n] EXCEPT ![i + 1] = v]][m] = NamedFiles[m]
          BY <3>3 DEF NamedFiles
        <4>2. CASE Lookup(m, Slots + 1) = {}
          <5>1. Lookup(m, Slots + 1)' = {}
            BY <1>2, <4>2 DEF Lookup
          <5> QED BY <3>1, <4>1, <4>2, <5>1, NamedAre
        <4>3. CASE Lookup(m, Slots + 1) # {}
          <5>1. PICK j \in Used : slots[j].name = m
            BY <4>3, LookupAll
          <5>2. PICK r \in Linked : r = slots[j].sector
            BY <5>1 DEF Linked
          <5>3. r # s
            BY <1>0, <2>2, <2>3, <3>3, <5>1, <5>2 DEF SoundInv, Shape, SlotsApart
          <5>4. ContentOf(r)' = ContentOf(r)
            <6>1. /\ r \in Blocks(r) /\ at \notin Blocks(r) /\ Blocks(r) \subseteq Sector
                  /\ \A x \in 1..disk[r].size : disk[r].start + x - 1 \in Blocks(r)
              BY <1>0, <1>4, <5>3, ContentIs
            <6>2. \A t \in Blocks(r) : disk'[t] = disk[t]
              BY <1>3, <6>1
            <6> QED BY <6>1, <6>2 DEF ContentOf
          <5>5. NamedFiles[m] = ContentOf(r)
            BY <5>1, <5>2, NamedAre
          <5>6. NamedFiles'[m] = ContentOf(slots[j].sector)'
            BY <1>2, <2>11, <3>1, <5>1
          <5>7. ContentOf(slots[j].sector)' = ContentOf(r)'
            BY <1>2, <5>2 DEF ContentOf
          <5> QED BY <4>1, <5>4, <5>5, <5>6, <5>7
        <4> QED BY <4>2, <4>3
      <3> QED BY <3>2, <3>3
    <2>13. NamedFiles' = [NamedFiles EXCEPT ![n] = [NamedFiles[n] EXCEPT ![i + 1] = v]]
      BY <2>12 DEF NamedFiles
    <2>14. NamedFiles[n] # NULL /\ i + 1 \in DOMAIN NamedFiles[n]
      BY <1>0, <1>6, <2>5, <2>9, ContentIs DEF ContentOf
    <2>15. NamedFiles' = [NamedFiles EXCEPT ![n][i + 1] = v]
      BY <2>13
    <2>16. FS!Write(n)
      BY <2>5, <2>14, <2>15 DEF FS!Write
    <2> QED BY <2>16 DEF FS!Next
  <1> QED BY <1>5, <1>6

LEMMA StoreStep ==
  ASSUME StoreInv, NameInv', [Next]_vars, failures' = 0
  PROVE  UNCHANGED NamedFiles \/ FS!Next
  <1>0. SoundInv /\ CountInv /\ failures = 0 /\ NamesApart /\ NamesApart'
    BY FailuresGrow DEF StoreInv, Inv, NameInv
  <1>1. CASE DirAdd
    <2>1. CASE UNCHANGED slots
      <3>1. disk' = disk
        BY <1>1 DEF DirAdd
      <3> QED BY <1>0, <2>1, <3>1, NamedKept
    <2>2. ASSUME NEW k \in Slot, slots[k] = NULL, Lookup(op.name, Slots + 1) = {},
                 slots' = [slots EXCEPT ![k] = [name |-> op.name, sector |-> op.sector]]
          PROVE  FS!Next
      BY <1>0, <1>1, <2>2, NamedIsCreated
    <2> QED BY <1>0, <1>1, <2>1, <2>2, DirAddStep
  <1>2. ASSUME NEW n \in Name, Remove(n)
        PROVE  FS!Next
    BY <1>0, <1>2, RemovedIsRemoved
  <1>3. ASSUME NEW h \in Handle, NEW i \in 0..(MaxSize - 1), NEW v \in Data, Write(h, i, v)
        PROVE  UNCHANGED NamedFiles \/ FS!Next
    BY <1>0, <1>3, WrittenIsWritten
  <1>4. CASE CreateInode
    <2>1. op.sector \in Busy /\ slots' = slots
      BY <1>4 DEF CreateInode, Busy, BusyInode, CreateAt
    <2>2. disk' = [disk EXCEPT ![op.sector] = [start |-> op.start, size |-> op.size]]
      BY <1>4 DEF CreateInode
    <2> QED BY <1>0, <2>1, <2>2, BusyKeepsNames
  <1>5. CASE CreateZeros
    <2>1. /\ op.at = "zeros" /\ Placed(op.inode) /\ op.i < op.inode.size
          /\ op.i \in Nat /\ slots' = slots
      BY <1>0, <1>5, FilesysAssumption DEF CreateZeros, SoundInv, OpOK
    <2>2. op.inode.start + op.i \in Busy
      BY <2>1, DataAt DEF Busy, BusyData
    <2>3. disk' = [disk EXCEPT ![op.inode.start + op.i] = ZERO]
      BY <1>5 DEF CreateZeros
    <2> QED BY <1>0, <2>1, <2>2, <2>3, BusyKeepsNames
  <1>6. CASE disk' = disk /\ slots' = slots
    BY <1>0, <1>6, NamedKept
  <1>7. \/ DirAdd \/ CreateInode \/ CreateZeros \/ (disk' = disk /\ slots' = slots)
        \/ \E n \in Name : Remove(n)
        \/ \E h \in Handle, i \in 0..(MaxSize - 1), v \in Data : Write(h, i, v)
    BY DEF Next, Creating, Create, Open, CreateExtent, CreateUndo, Close, Reopen, SetDeny,
           FreeInode, FreeExtent, Crash, vars, diskVars
  <1> QED BY <1>1, <1>2, <1>3, <1>4, <1>5, <1>6, <1>7

LEMMA InitStore ==
  ASSUME Init
  PROVE  StoreInv /\ FS!Init
  <1>1. Inv
    BY InitInv
  <1>2. Used = {} /\ op = Idle
    BY DEF Init, Used
  <1>3. NameInv /\ ZeroInv
    BY <1>2 DEF NameInv, NamesApart, ZeroInv, Idle
  <1>4. \A n \in Name : Lookup(n, Slots + 1) = {}
    BY <1>2, LookupAll
  <1>5. NamedFiles = [n \in Name |-> NULL]
    BY <1>4 DEF NamedFiles
  <1> QED BY <1>1, <1>3, <1>5 DEF StoreInv, FS!Init

LEMMA StepStore == StoreInv /\ [Next]_vars => StoreInv'
  BY StepInv, NameStep, ZeroStep DEF StoreInv

\* As long as memory does not run out, the files that have a name only change
\* as a whole: they appear full of zeros, are written one sector at a time,
\* and disappear; no other step of a call, and no crash, shows.
THEOREM FilesysImplementsFileStore == Spec => ImplementsFileStore
  <1> DEFINE Shown == failures' = 0 => UNCHANGED NamedFiles \/ FS!Next
  <1>1. Init => StoreInv /\ FS!Init
    BY InitStore
  <1>2. StoreInv /\ [Next]_vars => Shown
    BY StoreStep, StepStore DEF StoreInv
  <1>3. ImplementsFileStore <=> FS!Init /\ [][Shown]_vars
    BY DEF ImplementsFileStore
  <1> HIDE DEF Shown
  <1> QED BY <1>1, <1>2, <1>3, StepStore, PTL DEF Spec

=============================================================================
