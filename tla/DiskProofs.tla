---------------------------- MODULE DiskProofs ----------------------------
(***************************************************************************)
(* Proofs about Disk, for any threads, sectors, data and number of stray   *)
(* interrupts.                                                             *)
(***************************************************************************)
EXTENDS Disk, TLAPS

(***************************************************************************)
(* The inductive invariant.  The drive may be busy only with the command   *)
(* of the thread that holds the lock, or with the data of a writer that a  *)
(* stray interrupt has let go; and there are never more completions, to    *)
(* come or counted, than stray interrupts and the one the holder waits     *)
(* for.                                                                    *)
(***************************************************************************)
Holding == {"select", "issue", "command", "down", "transfer", "release"}

LockRight == \A t \in Thread : lock = t <=> pc[t] \in Holding

RequestRight == \A t \in Thread :
    /\ pc[t] = "out" => request[t] = NULL
    /\ pc[t] # "out" => request[t] \in Request

DriveRight ==
    /\ drive.at = "writing" => drive.sector \in Sector /\ drive.buffer \in Data
    /\ drive.at = "ready" => drive.buffer = media[drive.sector]
    /\ lock = NULL => drive.at \in {"idle", "writing"}

OnDrive(t, states) == drive.at \in states /\ drive.sector = request[t].sector

Written(t) ==
    \/ OnDrive(t, {"writing"}) /\ drive.buffer = request[t].write
    \/ drive.at = "idle" /\ media[request[t].sector] = request[t].write

CallOK(t) ==
    /\ pc[t] = "select" => drive.at \in {"idle", "writing"}
    /\ pc[t] \in {"issue", "command"} => drive.at = "idle"
    /\ pc[t] \in {"down", "transfer"} /\ Reads(t) => OnDrive(t, {"reading", "ready", "failed"})
    /\ pc[t] = "release" /\ Reads(t) => drive.at = "idle"
    /\ pc[t] = "transfer" /\ ~Reads(t) => OnDrive(t, {"preparing", "hungry", "failed"})
    /\ pc[t] \in {"down", "release"} /\ ~Reads(t) => Written(t)

CallRight == \A t \in Thread : CallOK(t)

One(b) == IF b THEN 1 ELSE 0
Busy == drive.at \in {"reading", "preparing", "hungry", "writing"}
Waits(t) == pc[t] = "down" \/ (pc[t] = "transfer" /\ ~Reads(t))
Owed == lock # NULL /\ Waits(lock)
CreditRight == completion + One(intr) + One(Busy) <= spurious + One(Owed)

DInv == DiskTypeOK /\ LockRight /\ RequestRight /\ DriveRight /\ CallRight /\ CreditRight

-----------------------------------------------------------------------------
(***************************************************************************)
(* What every step needs.                                                  *)
(***************************************************************************)

\* At most one completion is owed, so the semaphore stays within its bound.
LEMMA CreditBounds ==
    ASSUME NEW c \in Nat, NEW p \in Nat, NEW i, NEW b, NEW o, c + One(i) + One(b) <= p + One(o)
    PROVE  c \in 0..(1 + p)
  BY DEF One

LEMMA InitHolds == Init => DInv
  <1> SUFFICES ASSUME Init  PROVE DInv
    OBVIOUS
  <1>1. DiskTypeOK
    <2>1. /\ drive \in [at : {"idle", "reading", "ready", "preparing", "hungry", "writing", "failed"},
                         sector : Sector \cup {NULL}, buffer : Data \cup {NULL}]
      BY DEF Init, Idle
    <2>2. spurious \in 0..MaxSpurious /\ completion \in 0..(1 + spurious)
      BY DiskAssumption DEF Init
    <2> QED BY <2>1, <2>2 DEF Init, DiskTypeOK
  <1>2. LockRight /\ RequestRight /\ CallRight
    BY DiskAssumption DEF Init, LockRight, RequestRight, CallRight, CallOK, Holding
  <1>3. DriveRight /\ CreditRight
    BY DiskAssumption DEF Init, DriveRight, CreditRight, Idle, One, Busy, Owed
  <1> QED BY <1>1, <1>2, <1>3 DEF DInv

-----------------------------------------------------------------------------
(***************************************************************************)
(* The steps of the threads.                                               *)
(***************************************************************************)
LEMMA CallKeeps ==
    ASSUME DInv, NEW t \in Thread, NEW s \in Sector, NEW v \in Data \cup {NULL}, Call(t, s, v)
    PROVE  DInv'
  <1> USE DEF DInv, Call, Go, driveVars, driverVars
  <1>1. DiskTypeOK'
    BY DEF DiskTypeOK, Request
  <1>2. LockRight' /\ RequestRight'
    BY DEF DiskTypeOK, LockRight, RequestRight, Holding, Request
  <1>3. DriveRight'
    BY DEF DriveRight
  <1>4. CallRight'
    BY DEF DiskTypeOK, CallRight, CallOK, OnDrive, Written, Reads
  <1>5. CreditRight'
    BY DEF DiskTypeOK, LockRight, CreditRight, Busy, Owed, Waits, Reads, Holding
  <1> QED BY <1>1, <1>2, <1>3, <1>4, <1>5

LEMMA AcquireKeeps ==
    ASSUME DInv, NEW t \in Thread, Acquire(t)
    PROVE  DInv'
  <1> USE DEF DInv, Acquire, Go, driveVars
  <1>1. DiskTypeOK'
    BY DEF DiskTypeOK
  <1>2. LockRight' /\ RequestRight' /\ DriveRight'
    BY DiskAssumption DEF DiskTypeOK, LockRight, RequestRight, DriveRight, Holding
  <1>3. CallRight'
    BY DEF DiskTypeOK, LockRight, DriveRight, CallRight, CallOK, OnDrive, Written, Reads, Holding
  <1>4. CreditRight'
    BY DEF DiskTypeOK, CreditRight, Busy, Owed, Waits
  <1> QED BY <1>1, <1>2, <1>3, <1>4

LEMMA SelectKeeps ==
    ASSUME DInv, NEW t \in Thread, Select(t)
    PROVE  DInv'
  <1> USE DEF DInv, Select, Go, driverVars
  <1>1. DiskTypeOK'
    BY DEF DiskTypeOK
  <1>2. LockRight' /\ RequestRight' /\ DriveRight'
    BY DEF DiskTypeOK, LockRight, RequestRight, DriveRight, Holding
  <1>3. CallRight'
    BY DEF DiskTypeOK, CallRight, CallOK, OnDrive, Written, Reads
  <1>4. CreditRight'
    <2>1. lock = t
      BY DEF LockRight, Holding
    <2>2. One(Owed') = 0 /\ One(Owed) = 0
      BY <2>1 DEF DiskTypeOK, Owed, Waits, One
    <2>3. One(intr') <= One(intr)
      <3> DEFINE before == One(intr)
                 after == One(intr')
      <3>1. before \in 0..1 /\ One(FALSE) = 0
        BY DEF One
      <3>2. intr' = intr \/ intr' = FALSE
        OBVIOUS
      <3>3. after = before \/ after = One(FALSE)
        BY <3>2, Zenon
      <3>4. after = before \/ after = 0
        BY <3>1, <3>3, Zenon
      <3> HIDE DEF before, after
      <3>5. after <= before
        BY <3>1, <3>4
      <3> QED BY <3>5 DEF before, after
    <2>4. One(Busy') = One(Busy)
      BY DEF Busy
    <2> QED BY <2>2, <2>3, <2>4 DEF DiskTypeOK, CreditRight, One
  <1> QED BY <1>1, <1>2, <1>3, <1>4

LEMMA IssueKeeps ==
    ASSUME DInv, NEW t \in Thread, Issue(t)
    PROVE  DInv'
  <1> USE DEF DInv, Issue, Go
  <1>1. /\ request[t] \in Request
        /\ lock = t
        /\ drive.at = "idle"
    BY DEF RequestRight, LockRight, CallRight, CallOK, Holding
  <1>2. DiskTypeOK' /\ drive'.at \in {"idle", "reading", "preparing"}
    <2>1. CASE Go(t, "issue", "command")
      BY <2>1, <1>1 DEF DiskTypeOK
    <2>2. CASE Go(t, "command", AfterCommand(t)) /\ Begin(t)
      <3>1. request[t].sector \in Sector
        BY <1>1 DEF Request
      <3>2. drive'.at \in {"reading", "preparing"} /\
            drive' \in [at : {"idle", "reading", "ready", "preparing", "hungry", "writing", "failed"},
                        sector : Sector \cup {NULL}, buffer : Data \cup {NULL}]
        BY <2>2, <3>1 DEF Begin
      <3>3. AfterCommand(t) \in {"down", "transfer"}
        BY DEF AfterCommand
      <3> QED BY <2>2, <3>2, <3>3, <1>1 DEF DiskTypeOK
    <2> QED BY <2>1, <2>2
  <1>3. LockRight' /\ RequestRight' /\ DriveRight'
    BY <1>1, <1>2, DiskAssumption DEF DiskTypeOK, LockRight, RequestRight, DriveRight, Holding, AfterCommand
  <1>4. CallRight'
    <2> SUFFICES ASSUME NEW u \in Thread  PROVE CallOK(u)'
      BY DEF CallRight
    <2>1. CASE u = t
      BY <2>1, <1>1 DEF DiskTypeOK, CallOK, OnDrive, Reads, Begin, AfterCommand
    <2>2. CASE u # t
      BY <2>2, <1>3, <1>1 DEF DiskTypeOK, CallOK, LockRight, Holding
    <2> QED BY <2>1, <2>2
  <1>5. CreditRight'
    <2>1. One(Busy) = 0 /\ One(Owed) = 0
      BY <1>1 DEF Busy, Owed, Waits, One
    <2>2. One(Busy') = One(Owed')
      BY <1>1, DiskAssumption DEF DiskTypeOK, Busy, Owed, Waits, One, Begin, AfterCommand, Reads
    <2> QED BY <2>1, <2>2 DEF DiskTypeOK, CreditRight, One
  <1> QED BY <1>2, <1>3, <1>4, <1>5

LEMMA DownKeeps ==
    ASSUME DInv, NEW t \in Thread, Down(t)
    PROVE  DInv'
  <1> USE DEF DInv, Down, Go, driveVars
  <1>1. lock = t /\ request[t] \in Request
    BY DEF LockRight, RequestRight, Holding
  <1>2. completion' = completion - 1 /\ completion \in Nat /\ completion' \in Nat /\ spurious \in Nat
    BY DEF DiskTypeOK
  <1>3. LockRight' /\ RequestRight' /\ DriveRight'
    BY DEF DiskTypeOK, LockRight, RequestRight, DriveRight, Holding
  <1>4. CallRight'
    BY DEF DiskTypeOK, CallRight, CallOK, OnDrive, Written, Reads
  <1>5. CreditRight'
    <2>1. One(Owed) = 1 /\ One(Owed') = 0
      BY <1>1, DiskAssumption DEF DiskTypeOK, Owed, Waits, Reads, One
    <2>2. One(Busy') = One(Busy) /\ One(intr') = One(intr) /\ One(Busy) \in 0..1 /\ One(intr) \in 0..1
      BY DEF Busy, One
    <2> QED BY <1>2, <2>1, <2>2 DEF CreditRight
  <1>6. DiskTypeOK'
    BY <1>2 DEF DiskTypeOK
  <1> QED BY <1>3, <1>4, <1>5, <1>6

LEMMA TransferKeeps ==
    ASSUME DInv, NEW t \in Thread, Transfer(t)
    PROVE  DInv'
  <1> USE DEF DInv, Transfer, Go, driverVars
  <1>1. lock = t /\ request[t] \in Request /\ request[t].sector \in Sector
    BY DEF LockRight, RequestRight, Holding, Request
  <1>2. CASE drive.at = "ready" /\ Reads(t) /\ Go(t, "transfer", "release")
    <2>1. drive.buffer \in Data \cup {NULL} /\ request'[t] = [request[t] EXCEPT !.got = drive.buffer]
      BY <1>2 DEF DiskTypeOK
    <2>2. request'[t] \in Request /\ request'[t].write = NULL
      BY <2>1, <1>1, <1>2 DEF Request, Reads
    <2>3. drive' = Idle /\ Idle \in [at : {"idle", "reading", "ready", "preparing", "hungry", "writing", "failed"},
                                    sector : Sector \cup {NULL}, buffer : Data \cup {NULL}]
      BY <1>2 DEF Idle
    <2>4. DiskTypeOK'
      BY <1>2, <2>2, <2>3 DEF DiskTypeOK
    <2>5. LockRight' /\ RequestRight' /\ DriveRight'
      BY <1>1, <1>2, <2>2, <2>3, DiskAssumption
         DEF DiskTypeOK, LockRight, RequestRight, DriveRight, Holding, Idle
    <2>6. CallRight'
      <3> SUFFICES ASSUME NEW u \in Thread  PROVE CallOK(u)'
        BY DEF CallRight
      <3>1. CASE u = t
        BY <1>2, <2>2, <2>3, <3>1 DEF DiskTypeOK, CallOK, Reads, Idle
      <3>2. CASE u # t
        BY <2>5, <3>2, <1>1 DEF DiskTypeOK, CallOK, LockRight, Holding
      <3> QED BY <3>1, <3>2
    <2>7. CreditRight'
      <3>1. One(Owed) = 0 /\ One(Owed') = 0
        BY <1>1, <1>2, DiskAssumption DEF DiskTypeOK, Owed, Waits, One
      <3>2. One(Busy) = 0 /\ One(Busy') = 0
        BY <1>2, <2>3 DEF Busy, Idle, One
      <3>3. One(intr') = One(intr)
        OBVIOUS
      <3> QED BY <3>1, <3>2, <3>3 DEF CreditRight
    <2> QED BY <2>4, <2>5, <2>6, <2>7
  <1>3. CASE drive.at = "hungry" /\ ~Reads(t) /\ Go(t, "transfer", "down")
    <2>1. request[t].write \in Data /\ request[t].write # NULL
      BY <1>1, <1>3 DEF Request, Reads
    <2>2. drive.sector = request[t].sector
      BY <1>3 DEF CallRight, CallOK, OnDrive
    <2>3. /\ drive'.at = "writing" /\ drive'.sector = request[t].sector /\ drive'.buffer = request[t].write
          /\ drive' \in [at : {"idle", "reading", "ready", "preparing", "hungry", "writing", "failed"},
                         sector : Sector \cup {NULL}, buffer : Data \cup {NULL}]
      BY <1>3, <2>1, <2>2 DEF DiskTypeOK
    <2>4. DiskTypeOK'
      BY <1>3, <2>3 DEF DiskTypeOK
    <2>5. LockRight' /\ RequestRight' /\ DriveRight'
      BY <1>1, <1>3, <2>1, <2>3, DiskAssumption
         DEF DiskTypeOK, LockRight, RequestRight, DriveRight, Holding
    <2>6. CallRight'
      <3> SUFFICES ASSUME NEW u \in Thread  PROVE CallOK(u)'
        BY DEF CallRight
      <3>1. CASE u = t
        BY <1>3, <2>1, <2>3, <3>1 DEF DiskTypeOK, CallOK, Reads, Written, OnDrive
      <3>2. CASE u # t
        BY <2>5, <3>2, <1>1 DEF DiskTypeOK, CallOK, LockRight, Holding
      <3> QED BY <3>1, <3>2
    <2>7. CreditRight'
      <3>1. One(Owed) = 1 /\ One(Owed') = 1
        BY <1>1, <1>3, DiskAssumption DEF DiskTypeOK, Owed, Waits, One
      <3>2. One(Busy) = 1 /\ One(Busy') = 1
        BY <1>3, <2>3 DEF Busy, One
      <3>3. One(intr') = One(intr)
        OBVIOUS
      <3> QED BY <3>1, <3>2, <3>3 DEF CreditRight
    <2> QED BY <2>4, <2>5, <2>6, <2>7
  <1>4. CASE panic' = TRUE /\ UNCHANGED <<drive, pc, request>>
    <2>1. DiskTypeOK'
      BY <1>4 DEF DiskTypeOK
    <2>2. LockRight' /\ RequestRight' /\ DriveRight'
      BY <1>4 DEF LockRight, RequestRight, DriveRight
    <2>3. CallRight'
      BY <1>4 DEF CallRight, CallOK, OnDrive, Written, Reads
    <2>4. CreditRight'
      BY <1>4 DEF CreditRight, Busy, Owed, Waits, Reads
    <2> QED BY <2>1, <2>2, <2>3, <2>4
  <1> QED BY <1>2, <1>3, <1>4

LEMMA ReleaseKeeps ==
    ASSUME DInv, NEW t \in Thread, Release(t)
    PROVE  DInv'
  <1> USE DEF DInv, Release, Go, driveVars
  <1>1. lock = t
    BY DEF LockRight, Holding
  <1>2. DiskTypeOK'
    BY DEF DiskTypeOK
  <1>3. LockRight' /\ RequestRight'
    BY <1>1, DiskAssumption DEF DiskTypeOK, LockRight, RequestRight, Holding
  <1>4. DriveRight'
    BY DEF DriveRight, CallRight, CallOK, Written, OnDrive, Reads
  <1>5. CallRight'
    BY <1>1, <1>3, DiskAssumption DEF DiskTypeOK, LockRight, CallRight, CallOK, Holding
  <1>6. CreditRight'
    <2>1. One(Owed) = 0 /\ One(Owed') = 0
      BY <1>1 DEF Owed, Waits, One
    <2>2. One(Busy') = One(Busy) /\ One(intr') = One(intr)
      BY DEF Busy
    <2> QED BY <2>1, <2>2 DEF CreditRight
  <1> QED BY <1>2, <1>3, <1>4, <1>5, <1>6

-----------------------------------------------------------------------------
(***************************************************************************)
(* The steps of the interrupt handler and of the drive.                    *)
(***************************************************************************)
LEMMA InterruptKeeps ==
    ASSUME DInv, Interrupt
    PROVE  DInv'
  <1> USE DEF DInv, Interrupt
  <1>1. completion \in Nat /\ completion' \in Nat /\ completion' <= completion + 1 /\ spurious \in Nat
    BY DEF DiskTypeOK
  <1>2. LockRight' /\ RequestRight' /\ DriveRight'
    BY DEF LockRight, RequestRight, DriveRight
  <1>3. CallRight'
    BY DEF CallRight, CallOK, OnDrive, Written, Reads
  <1>4. CreditRight'
    <2>1. One(intr) = 1 /\ One(intr') = 0
      BY DEF One
    <2>2. One(Busy') = One(Busy) /\ One(Owed') = One(Owed) /\ spurious' = spurious
      BY DEF Busy, Owed, Waits, Reads
    <2>3. One(Busy) \in 0..1 /\ One(Owed) \in 0..1
      BY DEF One
    <2>4. completion + 1 + One(Busy) <= spurious + One(Owed)
      BY <2>1 DEF CreditRight
    <2>5. completion' + 0 + One(Busy) <= spurious + One(Owed)
      BY <1>1, <2>3, <2>4
    <2> QED BY <2>1, <2>2, <2>5 DEF CreditRight
  <1>5. DiskTypeOK'
    <2>1. completion' \in 0..(1 + spurious')
      <3>1. completion' + One(intr') + One(Busy') <= spurious + One(Owed') /\ spurious' = spurious
        BY <1>4 DEF CreditRight
      <3> QED BY <1>1, <3>1, CreditBounds
    <2> QED BY <2>1 DEF DiskTypeOK
  <1> QED BY <1>2, <1>3, <1>4, <1>5

\* A drive that is busy with a command works for the thread that holds the lock.
LEMMA WorksFor ==
    ASSUME DInv, drive.at \notin {"idle", "writing"}
    PROVE  \E t \in Thread :
              /\ lock = t /\ drive.sector = request[t].sector /\ drive.sector \in Sector
              /\ \/ pc[t] \in {"down", "transfer"} /\ Reads(t) /\ drive.at \in {"reading", "ready", "failed"}
                 \/ pc[t] = "transfer" /\ ~Reads(t) /\ drive.at \in {"preparing", "hungry", "failed"}
  <1>1. lock # NULL /\ lock \in Thread
    BY DEF DInv, DriveRight, DiskTypeOK
  <1>2. pc[lock] \in Holding /\ request[lock].sector \in Sector /\ CallOK(lock)
    BY <1>1 DEF DInv, LockRight, RequestRight, CallRight, Holding, Request
  <1>3. \/ pc[lock] \in {"down", "transfer"} /\ Reads(lock) /\ OnDrive(lock, {"reading", "ready", "failed"})
        \/ pc[lock] = "transfer" /\ ~Reads(lock) /\ OnDrive(lock, {"preparing", "hungry", "failed"})
    BY <1>2 DEF CallOK, Written, OnDrive, Holding
  <1> QED BY <1>1, <1>2, <1>3 DEF OnDrive

LEMMA DriveKeeps ==
    ASSUME DInv, Drive
    PROVE  DInv'
  <1> USE DEF DInv, Drive, driverVars
  <1>1. LockRight' /\ RequestRight'
    BY DEF LockRight, RequestRight
  <1>2. /\ One(Owed') = One(Owed)
        /\ \A t \in Thread : pc'[t] = pc[t] /\ request'[t] = request[t] /\ Reads(t)' = Reads(t)
    BY DEF Owed, Waits, Reads
  <1>3. CASE DriveReads
    <2>1. PICK t \in Thread :
              lock = t /\ drive.sector = request[t].sector /\ drive.sector \in Sector /\ pc[t] \in {"down", "transfer"} /\ Reads(t)
      BY <1>3, WorksFor DEF DriveReads
    <2>2. /\ drive'.at = "ready" /\ drive'.sector = drive.sector /\ drive'.buffer = media[drive.sector]
          /\ drive' \in [at : {"idle", "reading", "ready", "preparing", "hungry", "writing", "failed"},
                         sector : Sector \cup {NULL}, buffer : Data \cup {NULL}]
          /\ media' = media /\ intr' = TRUE
      BY <1>3, <2>1 DEF DriveReads, DiskTypeOK
    <2>3. DiskTypeOK' /\ DriveRight'
      BY <2>1, <2>2, DiskAssumption DEF DiskTypeOK, DriveRight
    <2>4. CallRight'
      <3>1. CallOK(t)'
        BY <1>2, <2>1, <2>2 DEF CallOK, OnDrive
      <3> QED BY <2>1, <3>1, <1>1 DEF CallRight, CallOK, LockRight, Holding
    <2>5. CreditRight'
      <3>1. One(Busy) = 1 /\ One(Busy') = 0 /\ One(intr') = 1 /\ One(intr) \in 0..1
        BY <1>3, <2>2 DEF DriveReads, Busy, One
      <3>2. completion + One(intr) + 1 <= spurious + One(Owed)
        BY <3>1 DEF CreditRight
      <3>3. One(Owed) \in 0..1 /\ completion \in Nat /\ spurious \in Nat
        BY DEF One, DiskTypeOK
      <3>4. completion + 1 + 0 <= spurious + One(Owed)
        BY <3>1, <3>2, <3>3
      <3> QED BY <1>2, <3>1, <3>4 DEF CreditRight
    <2> QED BY <1>1, <2>3, <2>4, <2>5
  <1>4. CASE DrivePrepares
    <2>1. PICK t \in Thread :
              lock = t /\ drive.sector = request[t].sector /\ drive.sector \in Sector /\ pc[t] = "transfer" /\ ~Reads(t)
      BY <1>4, WorksFor DEF DrivePrepares
    <2>2. /\ drive'.at = "hungry" /\ drive'.sector = drive.sector
          /\ drive' \in [at : {"idle", "reading", "ready", "preparing", "hungry", "writing", "failed"},
                         sector : Sector \cup {NULL}, buffer : Data \cup {NULL}]
          /\ media' = media /\ intr' = intr
      BY <1>4 DEF DrivePrepares, DiskTypeOK
    <2>3. DiskTypeOK' /\ DriveRight'
      BY <2>1, <2>2, DiskAssumption DEF DiskTypeOK, DriveRight
    <2>4. CallRight'
      <3>1. CallOK(t)'
        BY <1>2, <2>1, <2>2 DEF CallOK, OnDrive
      <3> QED BY <2>1, <3>1, <1>1 DEF CallRight, CallOK, LockRight, Holding
    <2>5. CreditRight'
      <3>1. One(Busy) = 1 /\ One(Busy') = 1 /\ One(intr') = One(intr)
        BY <1>4, <2>2 DEF DrivePrepares, Busy, One
      <3> QED BY <1>2, <3>1 DEF CreditRight
    <2> QED BY <1>1, <2>3, <2>4, <2>5
  <1>5. CASE DriveWrites
    <2>1. /\ drive.at = "writing" /\ drive.sector \in Sector /\ drive.buffer \in Data
          /\ drive'.at = "idle"
          /\ drive' \in [at : {"idle", "reading", "ready", "preparing", "hungry", "writing", "failed"},
                         sector : Sector \cup {NULL}, buffer : Data \cup {NULL}]
          /\ media' = [media EXCEPT ![drive.sector] = drive.buffer] /\ intr' = TRUE
      BY <1>5 DEF DriveWrites, DriveRight, Idle
    <2>2. DiskTypeOK' /\ DriveRight'
      BY <2>1, DiskAssumption DEF DiskTypeOK, DriveRight
    <2>3. CallRight'
      <3> SUFFICES ASSUME NEW t \in Thread  PROVE CallOK(t)'
        BY DEF CallRight
      <3>1. pc[t] \in {"down", "release"} /\ ~Reads(t) =>
               drive.sector = request[t].sector /\ drive.buffer = request[t].write
        BY <2>1 DEF CallRight, CallOK, Written, OnDrive
      <3>2. pc[t] \in {"down", "release"} /\ ~Reads(t) => Written(t)'
        BY <1>2, <2>1, <3>1 DEF DiskTypeOK, Written
      <3> QED BY <1>2, <2>1, <3>2 DEF CallRight, CallOK, OnDrive
    <2>4. CreditRight'
      <3>1. One(Busy) = 1 /\ One(Busy') = 0 /\ One(intr') = 1 /\ One(intr) \in 0..1
        BY <2>1 DEF Busy, One
      <3>2. completion + One(intr) + 1 <= spurious + One(Owed)
        BY <3>1 DEF CreditRight
      <3>3. One(Owed) \in 0..1 /\ completion \in Nat /\ spurious \in Nat
        BY DEF One, DiskTypeOK
      <3>4. completion + 1 + 0 <= spurious + One(Owed)
        BY <3>1, <3>2, <3>3
      <3> QED BY <1>2, <3>1, <3>4 DEF CreditRight
    <2> QED BY <1>1, <2>2, <2>3, <2>4
  <1>6. CASE DriveFails
    <2>1. PICK t \in Thread :
              /\ lock = t /\ drive.sector = request[t].sector /\ drive.sector \in Sector
              /\ pc[t] = "transfer" \/ (pc[t] = "down" /\ Reads(t))
      BY <1>6, WorksFor DEF DriveFails
    <2>2. /\ drive'.at = "failed" /\ drive'.sector = drive.sector
          /\ drive' \in [at : {"idle", "reading", "ready", "preparing", "hungry", "writing", "failed"},
                         sector : Sector \cup {NULL}, buffer : Data \cup {NULL}]
          /\ media' = media /\ intr' = TRUE
      BY <1>6 DEF DriveFails, DiskTypeOK
    <2>3. DiskTypeOK' /\ DriveRight'
      BY <2>1, <2>2, DiskAssumption DEF DiskTypeOK, DriveRight
    <2>4. CallRight'
      <3>1. CallOK(t)'
        BY <1>2, <2>1, <2>2 DEF CallOK, OnDrive
      <3> QED BY <2>1, <3>1, <1>1 DEF CallRight, CallOK, LockRight, Holding
    <2>5. CreditRight'
      <3>1. One(Busy) = 1 /\ One(Busy') = 0 /\ One(intr') = 1 /\ One(intr) \in 0..1
        BY <1>6, <2>2 DEF DriveFails, Busy, One
      <3>2. completion + One(intr) + 1 <= spurious + One(Owed)
        BY <3>1 DEF CreditRight
      <3>3. One(Owed) \in 0..1 /\ completion \in Nat /\ spurious \in Nat
        BY DEF One, DiskTypeOK
      <3>4. completion + 1 + 0 <= spurious + One(Owed)
        BY <3>1, <3>2, <3>3
      <3> QED BY <1>2, <3>1, <3>4 DEF CreditRight
    <2> QED BY <1>1, <2>3, <2>4, <2>5
  <1> QED BY <1>3, <1>4, <1>5, <1>6

LEMMA SpuriousKeeps ==
    ASSUME DInv, Spurious
    PROVE  DInv'
  <1> USE DEF DInv, Spurious, driverVars
  <1>1. DiskTypeOK'
    BY DiskAssumption DEF DiskTypeOK
  <1>2. LockRight' /\ RequestRight' /\ DriveRight'
    BY DEF LockRight, RequestRight, DriveRight
  <1>3. CallRight'
    BY DEF CallRight, CallOK, OnDrive, Written, Reads
  <1>4. CreditRight'
    <2>1. One(Busy') = One(Busy) /\ One(Owed') = One(Owed) /\ spurious' = spurious + 1
      BY DEF Busy, Owed, Waits, Reads
    <2>2. One(intr') = 1 /\ One(intr) \in 0..1 /\ One(Busy) \in 0..1 /\ One(Owed) \in 0..1
      BY DEF One
    <2>3. completion \in Nat /\ spurious \in Nat
      BY DEF DiskTypeOK
    <2>4. completion + 1 + One(Busy) <= spurious + 1 + One(Owed)
      BY <2>2, <2>3 DEF CreditRight
    <2> QED BY <2>1, <2>2, <2>4 DEF CreditRight
  <1> QED BY <1>1, <1>2, <1>3, <1>4

LEMMA StutterKeeps == DInv /\ UNCHANGED vars => DInv'
  <1> SUFFICES ASSUME DInv, UNCHANGED vars  PROVE DInv'
    OBVIOUS
  <1> USE DEF DInv, vars, driveVars, driverVars
  <1>1. DiskTypeOK' /\ LockRight' /\ RequestRight' /\ DriveRight'
    BY DEF DiskTypeOK, LockRight, RequestRight, DriveRight
  <1>2. CallRight'
    BY DEF CallRight, CallOK, OnDrive, Written, Reads
  <1>3. CreditRight'
    BY DEF CreditRight, Busy, Owed, Waits, Reads
  <1> QED BY <1>1, <1>2, <1>3

LEMMA NextHolds == DInv /\ [Next]_vars => DInv'
  <1> SUFFICES ASSUME DInv, [Next]_vars  PROVE DInv'
    OBVIOUS
  <1>1. CASE UNCHANGED vars
    BY <1>1, StutterKeeps
  <1>2. CASE Next
    BY <1>2, CallKeeps, AcquireKeeps, SelectKeeps, IssueKeeps, DownKeeps, TransferKeeps, ReleaseKeeps,
       InterruptKeeps, DriveKeeps, SpuriousKeeps DEF Next, Driver
  <1> QED BY <1>1, <1>2

-----------------------------------------------------------------------------
(***************************************************************************)
(* What follows.                                                           *)
(***************************************************************************)

\* The driver and the drive agree about whose command the drive is busy with,
\* and no completion is counted that neither a command nor a stray interrupt caused.
THEOREM DiskInvariant == Spec => []DInv
  BY InitHolds, NextHolds, PTL DEF Spec

\* A write that returns when no stray interrupt came has reached the disk
\* (disk.c:240), whichever threads use the channel and whatever the drive does.
THEOREM WritesReachTheDisk == Spec => []WriteIsAcknowledged
  <1>1. DInv => WriteIsAcknowledged
    <2> SUFFICES ASSUME DInv, NEW t \in Thread, spurious = 0, pc[t] = "release", ~Reads(t)
                 PROVE  media[request[t].sector] = request[t].write
      BY DEF WriteIsAcknowledged, DInv
    <2>1. lock = t
      BY DEF DInv, LockRight, Holding
    <2>2. One(Owed) = 0
      BY <2>1 DEF Owed, Waits, One
    <2>3. completion + One(intr) + One(Busy) <= 0 /\ completion \in Nat
      BY <2>2 DEF DInv, CreditRight, DiskTypeOK
    <2>4. One(intr) \in 0..1 /\ One(Busy) \in 0..1
      BY DEF One
    <2>5. One(Busy) = 0
      BY <2>3, <2>4
    <2>6. drive.at # "writing"
      BY <2>5 DEF One, Busy
    <2> QED BY <2>6 DEF DInv, CallRight, CallOK, Written, OnDrive
  <1> QED BY <1>1, DiskInvariant, PTL

-----------------------------------------------------------------------------
(***************************************************************************)
(* The sector store is implemented.                                        *)
(***************************************************************************)
LEMMA InitMaps == Init => S!Init
  <1> SUFFICES ASSUME Init  PROVE S!Init
    OBVIOUS
  <1>1. Content \in [Sector -> Data]
    BY DEF Init, Content, Idle
  <1>2. Done = {}
    BY DEF Init, Done
  <1> QED BY <1>1, <1>2 DEF Init, S!Init

\* A step that leaves the drive alone, or does not touch a sector, changes no content.
LEMMA ContentKept ==
    ASSUME media' = media, drive' = drive \/ "writing" \notin {drive.at, drive'.at}
    PROVE  Content' = Content
  BY DEF Content

\* The call of a thread has taken effect or not, those of the others stay as they are.
Effective(t) == request[t] # NULL /\ (pc[t] = "release" \/ (pc[t] = "down" /\ ~Reads(t)))

LEMMA DoneIs == Done = {t \in Thread : Effective(t)}
  BY DEF Done, Effective

\* A step of a thread that leaves the calls alone and lets no call take effect is none of the store.
LEMMA DoneKept ==
    ASSUME DInv, NEW t \in Thread, NEW to, request' = request,
           pc' = [pc EXCEPT ![t] = to], Effective(t)' <=> Effective(t)
    PROVE  Done' = Done
  <1>1. ASSUME NEW u \in Thread  PROVE Effective(u)' <=> Effective(u)
    BY DEF DInv, DiskTypeOK, Effective, Reads
  <1>2. Done' = {u \in Thread : Effective(u)'}
    BY DEF Done, Effective
  <1> QED BY <1>1, <1>2, DoneIs

LEMMA CallMaps ==
    ASSUME DInv, NEW t \in Thread, NEW s \in Sector, NEW v \in Data \cup {NULL}, Call(t, s, v)
    PROVE  S!Start(t, s, v)
  <1>1. request[t] = NULL
    BY DEF DInv, RequestRight, Call, Go
  <1>2. Content' = Content
    BY DEF Call, driveVars, Content
  <1>3. Done' = Done
    BY <1>1 DEF DInv, DiskTypeOK, Call, Go, Done, Reads
  <1> QED BY <1>1, <1>2, <1>3 DEF Call, S!Start

LEMMA TransferMaps ==
    ASSUME DInv, NEW t \in Thread, Transfer(t)
    PROVE  S!Take(t) \/ UNCHANGED S!vars
  <1> USE DEF Transfer, Go
  <1>1. /\ request[t] \in Request /\ request[t] # NULL /\ request[t].sector \in Sector
        /\ pc[t] = "transfer" /\ media \in [Sector -> Data] /\ media' = media
    BY DiskAssumption DEF DInv, DiskTypeOK, RequestRight, Request
  <1>2. t \notin Done
    BY <1>1 DEF Done
  <1>3. CASE drive.at = "ready" /\ Reads(t) /\ Go(t, "transfer", "release")
    <2>1. drive.sector = request[t].sector /\ drive.buffer = media[drive.sector] /\ drive'.at = "idle"
      BY <1>3 DEF DInv, CallRight, CallOK, OnDrive, DriveRight, Idle
    <2>2. Content' = Content /\ Content[request[t].sector] = drive.buffer
      BY <1>1, <1>3, <2>1, ContentKept DEF Content
    <2>3. request'[t] \in Request
      <3>1. drive.buffer \in Data
        BY <1>1, <2>1
      <3> QED BY <1>1, <1>3, <3>1 DEF DInv, DiskTypeOK, Request
    <2>4. Done' = Done \cup {t}
      BY <1>1, <1>3, <2>3, DiskAssumption DEF DInv, DiskTypeOK, Done, Reads
    <2> QED BY <1>1, <1>2, <1>3, <2>2, <2>4 DEF S!Take, Reads
  <1>4. CASE drive.at = "hungry" /\ ~Reads(t) /\ Go(t, "transfer", "down")
    <2>1. /\ drive.sector = request[t].sector /\ drive'.at = "writing" /\ drive'.sector = request[t].sector
          /\ drive'.buffer = request[t].write
      BY <1>4 DEF DInv, DiskTypeOK, CallRight, CallOK, OnDrive
    <2>2. Content' = [Content EXCEPT ![request[t].sector] = request[t].write]
      BY <1>1, <1>4, <2>1 DEF Content
    <2>3. Done' = Done \cup {t}
      BY <1>1, <1>4 DEF DInv, DiskTypeOK, Done, Reads
    <2> QED BY <1>1, <1>2, <1>4, <2>2, <2>3 DEF S!Take, Reads
  <1>5. CASE UNCHANGED <<drive, pc, request>>
    BY <1>1, <1>5 DEF S!vars, Content, Done, Reads
  <1> QED BY <1>3, <1>4, <1>5

LEMMA ReleaseMaps ==
    ASSUME DInv, NEW t \in Thread, Release(t)
    PROVE  S!Return(t)
  <1> USE DEF Release, Go
  <1>1. request[t] # NULL
    BY DiskAssumption DEF DInv, RequestRight
  <1>2. Done' = Done \ {t} /\ t \in Done
    BY <1>1 DEF DInv, DiskTypeOK, Done, Reads
  <1>3. Content' = Content
    BY DEF driveVars, Content
  <1> QED BY <1>2, <1>3 DEF S!Return

LEMMA DriveMaps ==
    ASSUME DInv, Drive
    PROVE  UNCHANGED S!vars
  <1>1. Done' = Done /\ request' = request
    BY DEF Drive, Done, Reads
  <1>2. Content' = Content
    <2>1. CASE DriveWrites
      BY <2>1 DEF DInv, DiskTypeOK, DriveWrites, DriveRight, Content, Idle
    <2>2. CASE DriveReads \/ DrivePrepares \/ DriveFails
      BY <2>2, ContentKept DEF DInv, DiskTypeOK, Drive, DriveReads, DrivePrepares, DriveFails
    <2> QED BY <2>1, <2>2 DEF Drive
  <1> QED BY <1>1, <1>2 DEF S!vars

\* The other steps of a call.
LEMMA OtherMaps ==
    ASSUME DInv, NEW t \in Thread, Acquire(t) \/ Select(t) \/ Issue(t) \/ Down(t)
    PROVE  UNCHANGED S!vars
  <1>1. request' = request /\ media' = media
    BY DEF Acquire, Select, Issue, Down, driveVars
  <1>2. Content' = Content
    <2>1. CASE Issue(t)
      <3>1. drive.at = "idle"
        BY <2>1 DEF DInv, CallRight, CallOK, Issue, Go
      <3> QED BY <2>1, <3>1, <1>1, ContentKept DEF Issue, Begin
    <2> QED BY <2>1, <1>1, ContentKept DEF Acquire, Select, Down, driveVars
  <1>3. Done' = Done
    <2>1. CASE Acquire(t) \/ Select(t)
      BY <2>1, <1>1, DoneKept DEF DInv, DiskTypeOK, Acquire, Select, Go, Effective
    <2>2. CASE Issue(t)
      BY <2>2, <1>1, DoneKept DEF DInv, DiskTypeOK, Issue, Go, AfterCommand, Effective, Reads
    <2>3. CASE Down(t)
      BY <2>3, <1>1, DoneKept DEF DInv, DiskTypeOK, Down, Go, Effective, Reads
    <2> QED BY <2>1, <2>2, <2>3
  <1> QED BY <1>1, <1>2, <1>3 DEF S!vars

LEMMA StepMaps == DInv /\ [Next]_vars => [S!Next]_(S!vars)
  <1> SUFFICES ASSUME DInv, [Next]_vars  PROVE S!Next \/ UNCHANGED S!vars
    OBVIOUS
  <1>1. CASE UNCHANGED vars \/ Interrupt \/ Spurious
    BY <1>1 DEF vars, driveVars, driverVars, Interrupt, Spurious, S!vars, Content, Done, Reads
  <1>2. CASE Drive
    BY <1>2, DriveMaps
  <1>3. ASSUME NEW t \in Thread, NEW s \in Sector, NEW v \in Data \cup {NULL}, Call(t, s, v)  PROVE S!Next
    BY <1>3, CallMaps DEF S!Next
  <1>4. ASSUME NEW t \in Thread, Acquire(t) \/ Driver(t)  PROVE S!Next \/ UNCHANGED S!vars
    BY <1>4, TransferMaps, ReleaseMaps, OtherMaps DEF Driver, S!Next
  <1> QED BY <1>1, <1>2, <1>3, <1>4 DEF Next

\* disk.c:217: calls of several threads are atomic reads and writes of sectors,
\* whatever the drive does and however many stray interrupts there are.
THEOREM DiskImplementsSectorStore == Spec => ImplementsSectorStore
  BY InitHolds, InitMaps, DiskInvariant, StepMaps, PTL DEF Spec, ImplementsSectorStore, S!Spec
=============================================================================
