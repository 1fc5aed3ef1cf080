-------------------------------- MODULE Disk --------------------------------
(***************************************************************************)
(* devices/disk.c: one ATA channel, used by threads through disk_read()    *)
(* and disk_write() and driven by an interrupt handler.  Sector stands for *)
(* a sector of either of the two disks on the channel: the disk is one of  *)
(* the registers select_sector() sets.  The lock of the channel is what    *)
(* Synch is shown to implement; the drive is hardware.                     *)
(***************************************************************************)
EXTENDS Naturals

CONSTANTS
    Thread, Sector, Data, NULL,
    MaxSpurious    \* bound: interrupts nothing asked for

Request == [sector : Sector, write : Data \cup {NULL}, got : Data \cup {NULL}]

ASSUME DiskAssumption ==
    /\ NULL \notin Thread \cup Data \cup Request
    /\ MaxSpurious \in Nat

VARIABLES
    media,         \* what is on the disk
    drive,         \* what the drive is doing
    intr,          \* an interrupt of the channel is pending
    spurious,      \* history: interrupts nothing asked for
    lock,          \* the thread that holds c->lock, NULL if none does
    expecting,     \* c->expecting_interrupt
    completion,    \* the value of c->completion_wait
    pc, request,
    panic

driverVars == <<lock, expecting, completion>>
driveVars == <<media, drive, intr, spurious>>
vars == <<driveVars, driverVars, pc, request, panic>>

Idle == [at |-> "idle", sector |-> NULL, buffer |-> NULL]

DiskTypeOK ==
    /\ media \in [Sector -> Data]
    /\ drive \in [at : {"idle", "reading", "ready", "preparing", "hungry", "writing", "failed"},
                  sector : Sector \cup {NULL}, buffer : Data \cup {NULL}]
    /\ intr \in BOOLEAN
    /\ spurious \in 0..MaxSpurious
    /\ lock \in Thread \cup {NULL}
    /\ expecting \in BOOLEAN
    /\ completion \in 0..(1 + spurious)
    /\ pc \in [Thread -> {"out", "acquire", "select", "issue", "command",
                          "down", "transfer", "release"}]
    /\ request \in [Thread -> Request \cup {NULL}]
    /\ panic \in BOOLEAN

\* disk_init(), and any contents of the disk.
Init ==
    /\ media \in [Sector -> Data]
    /\ drive = Idle
    /\ intr = FALSE /\ spurious = 0
    /\ lock = NULL /\ expecting = FALSE /\ completion = 0
    /\ pc = [t \in Thread |-> "out"]
    /\ request = [t \in Thread |-> NULL]
    /\ panic = FALSE

Reads(t) == request[t].write = NULL
Go(t, from, to) == pc[t] = from /\ pc' = [pc EXCEPT ![t] = to]

-----------------------------------------------------------------------------
\* disk_read (d, s) or, with data v, disk_write (d, s, v) is called.
Call(t, s, v) ==
    /\ Go(t, "out", "acquire")
    /\ request' = [request EXCEPT ![t] = [sector |-> s, write |-> v, got |-> NULL]]
    /\ UNCHANGED <<driveVars, driverVars, panic>>

\* lock_acquire (&c->lock).
Acquire(t) ==
    /\ Go(t, "acquire", "select")
    /\ lock = NULL
    /\ lock' = t
    /\ UNCHANGED <<driveVars, expecting, completion, request, panic>>

\* Slip: select_device() in place of select_device_wait().
SelectAtOnce(t) ==
    /\ Go(t, "select", "issue")
    /\ UNCHANGED <<driveVars, driverVars, request, panic>>

\* select_sector(): the drive is idle before the sector is set.  Reading the
\* status register "clears any pending interrupt", unless it has got through.
Select(t) ==
    /\ Go(t, "select", "issue")
    /\ drive.at = "idle"
    /\ intr' \in {intr, FALSE}
    /\ UNCHANGED <<media, drive, spurious, driverVars, request, panic>>

\* What the drive does with a command.
Begin(t) == drive' = [at |-> IF Reads(t) THEN "reading" ELSE "preparing",
                      sector |-> request[t].sector, buffer |-> NULL]
AfterCommand(t) == IF Reads(t) THEN "down" ELSE "transfer"

\* Slip: the command is given before the interrupt is expected.
IssueSwapped(t) ==
    /\ \/ /\ Go(t, "issue", "command")
          /\ Begin(t)
          /\ UNCHANGED expecting
       \/ /\ Go(t, "command", AfterCommand(t))
          /\ expecting' = TRUE
          /\ UNCHANGED drive
    /\ UNCHANGED <<media, intr, spurious, lock, completion, request, panic>>

\* issue_pio_command(), its two statements.
Issue(t) ==
    /\ \/ /\ Go(t, "issue", "command")
          /\ expecting' = TRUE
          /\ UNCHANGED drive
       \/ /\ Go(t, "command", AfterCommand(t))
          /\ Begin(t)
          /\ UNCHANGED expecting
    /\ UNCHANGED <<media, intr, spurious, lock, completion, request, panic>>

\* Slip: the call does not wait.
DownNot(t) ==
    /\ Go(t, "down", IF Reads(t) THEN "transfer" ELSE "release")
    /\ UNCHANGED <<driveVars, driverVars, request, panic>>

\* sema_down (&c->completion_wait).
Down(t) ==
    /\ completion > 0
    /\ completion' = completion - 1
    /\ Go(t, "down", IF Reads(t) THEN "transfer" ELSE "release")
    /\ UNCHANGED <<driveVars, lock, expecting, request, panic>>

\* wait_while_busy() and, if the drive has or wants data, input_sector() or
\* output_sector(); else the kernel panics.
Transfer(t) ==
    /\ pc[t] = "transfer"
    /\ \/ /\ drive.at = "ready" /\ Reads(t)
          /\ request' = [request EXCEPT ![t].got = drive.buffer]
          /\ drive' = Idle
          /\ Go(t, "transfer", "release")
          /\ UNCHANGED panic
       \/ /\ drive.at = "hungry" /\ ~Reads(t)
          /\ drive' = [drive EXCEPT !.at = "writing", !.buffer = request[t].write]
          /\ Go(t, "transfer", "down")
          /\ UNCHANGED <<request, panic>>
       \/ /\ drive.at \in {"failed", "idle"}
          /\ panic' = TRUE
          /\ UNCHANGED <<drive, pc, request>>
    /\ UNCHANGED <<media, intr, spurious, driverVars>>

\* lock_release (&c->lock), and the call returns.
Release(t) ==
    /\ Go(t, "release", "out")
    /\ lock' = NULL
    /\ request' = [request EXCEPT ![t] = NULL]
    /\ UNCHANGED <<driveVars, expecting, completion, panic>>

\* interrupt_handler().
Interrupt ==
    /\ intr
    /\ intr' = FALSE
    /\ completion' = IF expecting THEN completion + 1 ELSE completion
    /\ UNCHANGED <<media, drive, spurious, lock, expecting, pc, request, panic>>

-----------------------------------------------------------------------------
\* The drive: a sector is read, data are asked for, a sector is written, or
\* the command fails.  It interrupts when data are ready and when a sector
\* has been written.
DriveReads ==
    /\ drive.at = "reading"
    /\ drive' = [drive EXCEPT !.at = "ready", !.buffer = media[drive.sector]]
    /\ intr' = TRUE
    /\ UNCHANGED media
DrivePrepares ==
    /\ drive.at = "preparing"
    /\ drive' = [drive EXCEPT !.at = "hungry"]
    /\ UNCHANGED <<media, intr>>
DriveWrites ==
    /\ drive.at = "writing"
    /\ media' = [media EXCEPT ![drive.sector] = drive.buffer]
    /\ drive' = Idle
    /\ intr' = TRUE
DriveFails ==
    /\ drive.at \in {"reading", "preparing"}
    /\ drive' = [drive EXCEPT !.at = "failed"]
    /\ intr' = TRUE
    /\ UNCHANGED media
Drive ==
    /\ DriveReads \/ DrivePrepares \/ DriveWrites \/ DriveFails
    /\ UNCHANGED <<spurious, driverVars, pc, request, panic>>

Spurious ==
    /\ spurious < MaxSpurious
    /\ spurious' = spurious + 1
    /\ intr' = TRUE
    /\ UNCHANGED <<media, drive, driverVars, pc, request, panic>>

Driver(t) == Select(t) \/ Issue(t) \/ Down(t) \/ Transfer(t) \/ Release(t)

Next ==
    /\ ~panic
    /\ \/ \E t \in Thread :
             \/ \E s \in Sector, v \in Data \cup {NULL} : Call(t, s, v)
             \/ Acquire(t) \/ Driver(t)
       \/ Interrupt \/ Drive \/ Spurious

Spec == Init /\ [][Next]_vars

(***************************************************************************)
(* The holder of the lock goes on, the drive answers and an interrupt is   *)
(* taken.  Nothing is asked of the threads that wait for the lock: Synch   *)
(* only promises that one of them gets it.                                 *)
(***************************************************************************)
Fairness ==
    /\ \A t \in Thread : WF_vars(~panic /\ Driver(t))
    /\ WF_vars(~panic /\ Interrupt)
    /\ WF_vars(~panic /\ Drive)

FairSpec == Spec /\ Fairness

-----------------------------------------------------------------------------
\* The sector being written is taken to hold its new contents already.
Content == [s \in Sector |->
    IF drive.at = "writing" /\ drive.sector = s THEN drive.buffer ELSE media[s]]
Done == {t \in Thread : request[t] # NULL /\
            \/ pc[t] = "release"
            \/ pc[t] = "down" /\ ~Reads(t)}

S == INSTANCE SectorStore WITH content <- Content, done <- Done

(***************************************************************************)
(* disk.c:217: "Internally synchronizes accesses to disks": calls of       *)
(* several threads are atomic reads and writes of sectors, also when stray *)
(* interrupts make a call return early.                                    *)
(***************************************************************************)
ImplementsSectorStore == S!Spec

(***************************************************************************)
(* disk.c:240: disk_write() "returns after the disk has acknowledged       *)
(* receiving the data": the data are on the disk.  A stray interrupt ends  *)
(* that, for expecting_interrupt is never reset: it counts as a completion *)
(* once the first command has been issued.                                 *)
(***************************************************************************)
WriteIsAcknowledged ==
    /\ DiskTypeOK
    /\ \A t \in Thread :
          spurious = 0 /\ pc[t] = "release" /\ ~Reads(t) =>
              media[request[t].sector] = request[t].write

\* Every call that got the lock (disk.c:228) returns, unless the drive fails
\* and the kernel panics: no completion is missed.
LockedCallReturns ==
    \A t \in Thread : pc[t] \notin {"out", "acquire"} ~> pc[t] = "out" \/ panic
=============================================================================
