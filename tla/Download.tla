------------------------------ MODULE Download ------------------------------
(***************************************************************************)
(* The download manager, pa1-86105039/dm.c: the file is fetched in ch_num  *)
(* parts by as many processes, each of which appends what it reads to a    *)
(* file of its own.  The ranges are listed in a .dm file, so that a second *)
(* call goes on where an interrupt or a broken connection ended the first; *)
(* when all parts are there the parent joins them.                         *)
(*                                                                         *)
(* A byte is its position in the file.  An interrupt ends the parent and   *)
(* its children together.  The server answers a range with its bytes; what *)
(* it does with an empty range, where there are more parts than bytes, is  *)
(* left out.                                                               *)
(***************************************************************************)
EXTENDS Integers, Sequences, FiniteSets, SequencesExt

CONSTANTS
    NULL,
    ch_num, file_size,
    MaxLosses, MaxInterrupts    \* (bounds of the model)

ASSUME DownloadAssumption ==
    /\ ch_num \in Nat \ {0} /\ file_size \in Nat /\ file_size >= ch_num
    /\ MaxLosses \in Nat /\ MaxInterrupts \in Nat
    \* NULL is not a file, a list of ranges or a range
    /\ NULL \notin Seq(Nat) /\ NULL \notin Seq([part : Nat, start : Nat, end : Nat])
    /\ NULL \notin [start : Nat, end : Nat]

Part == 0..(ch_num - 1)

VARIABLES
    final,          \* the file, NULL if it does not exist
    dm,             \* the lines of the .dm file, NULL if it does not exist
    part,           \* the files of the parts, NULL where there is none
    at,             \* where the parent is
    i,              \* the part it is at, and
    pos,            \*   how much of it is copied
    child,          \* the range a child still has to read, NULL if there is none
    losses, interrupts

files == <<final, dm, part>>
vars == <<files, at, i, pos, child, losses, interrupts>>

(***************************************************************************)
(* The ranges.                                                             *)
(***************************************************************************)

chunk == file_size \div ch_num
RangeOf(k) == [start |-> k * chunk, end |-> IF k = ch_num - 1 THEN file_size - 1 ELSE (k + 1) * chunk - 1]

\* What the loops know of part k: where the .dm file ends too early, fscanf()
\* leaves the variables as the turn before left them.
Line(k) == IF k < Len(dm) THEN dm[k + 1] ELSE Last(dm)
SizeOf(file) == IF file = NULL THEN 0 ELSE Len(file)

(***************************************************************************)
(* The parent.                                                             *)
(***************************************************************************)

Start ==
    /\ at = "off" /\ final = NULL
    /\ IF dm # NULL THEN at' = "resume" /\ UNCHANGED dm
                    ELSE at' = "fork" /\ dm' = <<>>
    /\ i' = 0
    /\ UNCHANGED <<final, part, pos, child, losses, interrupts>>

NextPart(here, then) == IF i = ch_num - 1 THEN at' = then /\ i' = 0
                                          ELSE at' = here /\ i' = i + 1

Fork ==
    /\ at = "fork"
    /\ child' = [child EXCEPT ![i] = RangeOf(i)]
    /\ at' = "list"
    /\ UNCHANGED <<files, i, pos, losses, interrupts>>

List ==
    /\ at = "list"
    /\ dm' = Append(dm, [part |-> i, start |-> RangeOf(i).start, end |-> RangeOf(i).end])
    /\ NextPart("fork", "wait")
    /\ UNCHANGED <<final, part, pos, child, losses, interrupts>>

\* A slip: a part is fetched again from its beginning.
ResumeAfresh ==
    /\ at = "resume" /\ dm # <<>>
    /\ LET line == Line(i)
       IN child' = IF line.end - line.start + 1 > SizeOf(part[line.part])
                   THEN [child EXCEPT ![i] = [start |-> line.start, end |-> line.end]] ELSE child
    /\ NextPart("resume", "wait")
    /\ UNCHANGED <<files, pos, losses, interrupts>>

\* A slip: only a part without a file is fetched.
ResumeMissing ==
    /\ at = "resume" /\ dm # <<>>
    /\ LET line == Line(i)
       IN child' = IF SizeOf(part[line.part]) = 0
                   THEN [child EXCEPT ![i] = [start |-> line.start, end |-> line.end]] ELSE child
    /\ NextPart("resume", "wait")
    /\ UNCHANGED <<files, pos, losses, interrupts>>

Resume ==
    /\ at = "resume" /\ dm # <<>>
    /\ LET line == Line(i)  size == SizeOf(part[line.part])
       IN child' = IF line.end - line.start + 1 > size
                   THEN [child EXCEPT ![i] = [start |-> line.start + size, end |-> line.end]] ELSE child
    /\ NextPart("resume", "wait")
    /\ UNCHANGED <<files, pos, losses, interrupts>>

\* Without a line the variables have never been set: nothing is said of what follows.
ResumeUnset ==
    /\ at = "resume" /\ dm = <<>>
    /\ at' = "undefined"
    /\ UNCHANGED <<files, i, pos, child, losses, interrupts>>

Wait ==
    /\ at = "wait" /\ \A k \in Part : child[k] = NULL
    /\ at' = "check"
    /\ UNCHANGED <<files, i, pos, child, losses, interrupts>>

Check ==
    /\ at = "check"
    /\ LET line == Line(i)
       IN IF line.end - line.start + 1 # SizeOf(part[line.part])
          THEN at' = "off" /\ UNCHANGED <<i, final>>
          ELSE /\ NextPart("check", "copy")
               /\ final' = IF i = ch_num - 1 THEN <<>> ELSE final
    /\ pos' = 0
    /\ UNCHANGED <<dm, part, child, losses, interrupts>>

Copy ==
    /\ at = "copy"
    /\ LET file == part[Line(i).part]
       IN /\ file # NULL /\ pos < Len(file)
          /\ \E to \in (pos + 1)..Len(file) :
                 final' = final \o SubSeq(file, pos + 1, to) /\ pos' = to
    /\ UNCHANGED <<dm, part, at, i, child, losses, interrupts>>

\* A slip: the part is removed as soon as it has been opened.
CopiedUnread ==
    /\ at = "copy" /\ part[Line(i).part] # NULL
    /\ part' = [part EXCEPT ![Line(i).part] = NULL]
    /\ pos' = 0
    /\ NextPart("copy", "done")
    /\ UNCHANGED <<final, dm, child, losses, interrupts>>

Copied ==
    /\ at = "copy" /\ part[Line(i).part] # NULL /\ pos = Len(part[Line(i).part])
    /\ part' = [part EXCEPT ![Line(i).part] = NULL]
    /\ pos' = 0
    /\ NextPart("copy", "done")
    /\ UNCHANGED <<final, dm, child, losses, interrupts>>

\* A part that is listed twice is gone the second time, and is read all the same.
CopyFails ==
    /\ at = "copy" /\ part[Line(i).part] = NULL
    /\ at' = "off"
    /\ UNCHANGED <<files, i, pos, child, losses, interrupts>>

Finish ==
    /\ at = "done"
    /\ dm' = NULL
    /\ at' = "off"
    /\ UNCHANGED <<final, part, i, pos, child, losses, interrupts>>

(***************************************************************************)
(* A child: main() after its fork.                                         *)
(***************************************************************************)

Read(k) ==
    /\ child[k] # NULL /\ child[k].start <= child[k].end
    /\ \E to \in child[k].start..child[k].end :
        /\ part' = [part EXCEPT ![k] =
               (IF @ = NULL THEN <<>> ELSE @) \o [n \in 1..(to - child[k].start + 1) |-> child[k].start + n - 1]]
        /\ child' = [child EXCEPT ![k].start = to + 1]
    /\ UNCHANGED <<final, dm, at, i, pos, losses, interrupts>>

ReadIsOver(k) ==
    /\ child[k] # NULL /\ child[k].start > child[k].end
    /\ child' = [child EXCEPT ![k] = NULL]
    /\ UNCHANGED <<files, at, i, pos, losses, interrupts>>

\* The connection fails or breaks.
ReadFails(k) ==
    /\ child[k] # NULL /\ losses < MaxLosses
    /\ losses' = losses + 1
    /\ child' = [child EXCEPT ![k] = NULL]
    /\ UNCHANGED <<files, at, i, pos, interrupts>>

Interrupt ==
    /\ at \notin {"off", "undefined"} /\ interrupts < MaxInterrupts
    /\ interrupts' = interrupts + 1
    /\ at' = "off"
    /\ child' = [k \in Part |-> NULL]
    /\ UNCHANGED <<files, i, pos, losses>>

Init ==
    /\ final = NULL /\ dm = NULL /\ part = [k \in Part |-> NULL]
    /\ at = "off" /\ i = 0 /\ pos = 0
    /\ child = [k \in Part |-> NULL]
    /\ losses = 0 /\ interrupts = 0

Parent ==
    \/ Fork \/ List \/ Resume \/ ResumeUnset \/ Wait
    \/ Check \/ Copy \/ Copied \/ CopyFails \/ Finish

Next ==
    \/ Start \/ Parent \/ Interrupt
    \/ \E k \in Part : Read(k) \/ ReadIsOver(k) \/ ReadFails(k)

Spec == Init /\ [][Next]_vars

\* The user calls the program again until the file is there.
FairSpec == Spec /\ WF_vars(Start) /\ WF_vars(Parent)
                 /\ \A k \in Part : WF_vars(Read(k) \/ ReadIsOver(k))

(***************************************************************************)
(* The lines are consecutive slices of the file, a part that is listed     *)
(* holds a beginning of its own, the file that is put together is a        *)
(* beginning of the true one, and all of it once the .dm file is gone,     *)
(* whatever was interrupted and resumed.                                   *)
(***************************************************************************)
Slice(start, n) == [k \in 1..n |-> start + k - 1]

DownloadSound ==
    /\ dm # NULL => \A k \in DOMAIN dm :
        /\ dm[k].part = k - 1
        /\ dm[k].start = (IF k = 1 THEN 0 ELSE dm[k - 1].end + 1)
        /\ k = ch_num => dm[k].end = file_size - 1
        /\ part[k - 1] # NULL =>
               /\ Len(part[k - 1]) <= dm[k].end - dm[k].start + 1
               /\ part[k - 1] = Slice(dm[k].start, Len(part[k - 1]))
    /\ final # NULL => final = Slice(0, Len(final))
    /\ final # NULL /\ dm = NULL => Len(final) = file_size

(***************************************************************************)
(* What has been fetched is not lost: a byte stays in the file of its part *)
(* or is in the file that is put together.                                 *)
(***************************************************************************)
Fetched == UNION {IF file = NULL THEN {} ELSE Range(file) : file \in {final} \union Range(part)}

NothingLost == [][Fetched \subseteq Fetched']_vars

(***************************************************************************)
(* Once all ranges are listed, the file gets there in the end, whatever    *)
(* connections break and whatever interrupts the program, unless it is     *)
(* interrupted while it puts the parts together: the next call then finds  *)
(* a file of that name and leaves it as it is.                             *)
(***************************************************************************)
Listed == dm # NULL /\ Len(dm) = ch_num
Whole == final # NULL /\ Len(final) = file_size
Cut == at = "off" /\ final # NULL

DownloadCompletes == Listed ~> (Whole \/ Cut)
=============================================================================
