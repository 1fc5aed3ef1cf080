--------------------------- MODULE DownloadProofs ---------------------------
(***************************************************************************)
(* Theorems about Download, for any size of the file, number of parts and  *)
(* number of interrupts and broken connections.                            *)
(***************************************************************************)
EXTENDS Download, SequenceTheorems, TLAPS

-----------------------------------------------------------------------------
(* The inductive invariant *)

SizeOfRange(k) == RangeOf(k).end - RangeOf(k).start + 1
Complete(k) == part[k] # NULL /\ Len(part[k]) = SizeOfRange(k)

TypeOK ==
    /\ final \in Seq(Nat) \cup {NULL}
    /\ dm \in Seq([part : Nat, start : Nat, end : Nat]) \cup {NULL}
    /\ part \in [Part -> Seq(Nat) \cup {NULL}]
    /\ at \in {"off", "fork", "list", "resume", "undefined", "wait", "check", "copy", "done"}
    /\ i \in Part /\ pos \in Nat
    /\ child \in [Part -> [start : Nat, end : Nat] \cup {NULL}]

\* The .dm file lists the first parts, each with its range.
DmRight == dm # NULL =>
    /\ Len(dm) <= ch_num
    /\ \A k \in 0..(Len(dm) - 1) :
          dm[k + 1] = [part |-> k, start |-> RangeOf(k).start, end |-> RangeOf(k).end]

\* A part that is listed, or about to be, holds a beginning of its range, and a
\* child that fetches it goes on where that ends.  Nothing is said of the other
\* parts: where the .dm file ends too early they are fetched as if they were
\* the last one that is listed.
Owned(k) == dm # NULL /\ (k < Len(dm) \/ (at = "list" /\ k = i))
PartRight(k) ==
    /\ part[k] # NULL =>
           /\ Len(part[k]) <= SizeOfRange(k)
           /\ part[k] = Slice(RangeOf(k).start, Len(part[k]))
    /\ child[k] # NULL =>
           /\ child[k].end = RangeOf(k).end
           /\ child[k].start = RangeOf(k).start + SizeOf(part[k])
           /\ child[k].start <= child[k].end + 1
PartsRight == \A k \in Part : Owned(k) => PartRight(k)

\* What is the case where the parent is.
ParentRight ==
    /\ at # "off" => dm # NULL
    /\ at \in {"fork", "list", "resume", "undefined", "wait", "check"} => final = NULL
    /\ at \in {"off", "check", "copy", "done"} => \A k \in Part : child[k] = NULL
    /\ at \in {"fork", "list"} =>
           Len(dm) = i /\ \A k \in Part : k > i => part[k] = NULL /\ child[k] = NULL
    /\ at = "fork" => part[i] = NULL /\ child[i] = NULL
    /\ at = "resume" => \A k \in Part : k >= i => child[k] = NULL
    /\ at = "undefined" => dm = <<>>
    /\ at = "wait" => i = 0
    /\ at \in {"wait", "check", "copy"} => dm # <<>>
    /\ at = "check" => \A k \in Part : k < i /\ k < Len(dm) => Complete(k)
    /\ at = "copy" =>
           /\ final # NULL
           /\ \A k \in Part : i <= k /\ k < Len(dm) => Complete(k)
           /\ i < Len(dm) => pos <= SizeOfRange(i) /\ final = Slice(0, RangeOf(i).start + pos)
           /\ i >= Len(dm) => part[Len(dm) - 1] = NULL
    /\ at = "done" => Len(dm) = ch_num /\ final = Slice(0, file_size)

\* Before the first call there is nothing; the file that is put together is a
\* beginning of the true one, and all of it when the .dm file is gone.
FinalRight ==
    /\ dm = NULL /\ final = NULL => \A k \in Part : part[k] = NULL
    /\ final # NULL => final = Slice(0, Len(final))
    /\ final # NULL /\ dm = NULL => Len(final) = file_size

DInv == TypeOK /\ DmRight /\ PartsRight /\ ParentRight /\ FinalRight

-----------------------------------------------------------------------------
(* Slices of the file *)

LEMMA SliceProperties ==
  ASSUME NEW start \in Nat, NEW n \in Nat
  PROVE  /\ Slice(start, n) \in Seq(Nat) /\ Len(Slice(start, n)) = n
         /\ \A k \in 1..n : Slice(start, n)[k] = start + k - 1
         /\ Slice(start, 0) = <<>>
  <1>1. Slice(start, n) \in [1..n -> Nat] /\ Slice(start, 0) \in [1..0 -> Nat]
    BY DEF Slice
  <1>2. /\ Slice(start, n) \in Seq(Nat) /\ Len(Slice(start, n)) = n
        /\ Slice(start, 0) \in Seq(Nat) /\ Len(Slice(start, 0)) = 0
    BY <1>1, SeqDef
  <1> QED BY <1>2, EmptySeq DEF Slice

LEMMA SliceConcat ==
  ASSUME NEW start \in Nat, NEW m \in Nat, NEW n \in Nat
  PROVE  Slice(start, m) \o Slice(start + m, n) = Slice(start, m + n)
  <1> DEFINE s == Slice(start, m)  t == Slice(start + m, n)  u == Slice(start, m + n)
  <1>1. /\ s \in Seq(Nat) /\ Len(s) = m /\ \A k \in 1..m : s[k] = start + k - 1
        /\ t \in Seq(Nat) /\ Len(t) = n /\ \A k \in 1..n : t[k] = start + m + k - 1
        /\ u \in Seq(Nat) /\ Len(u) = m + n /\ \A k \in 1..(m + n) : u[k] = start + k - 1
    <2>1. s \in Seq(Nat) /\ Len(s) = m /\ \A k \in 1..m : s[k] = start + k - 1
      BY SliceProperties
    <2>2. start + m \in Nat /\ m + n \in Nat
      OBVIOUS
    <2>3. t \in Seq(Nat) /\ Len(t) = n /\ \A k \in 1..n : t[k] = start + m + k - 1
      BY <2>2, SliceProperties
    <2>4. u \in Seq(Nat) /\ Len(u) = m + n /\ \A k \in 1..(m + n) : u[k] = start + k - 1
      BY <2>2, SliceProperties
    <2> QED BY <2>1, <2>3, <2>4
  <1> HIDE DEF s, t, u
  <1>2. /\ s \o t \in Seq(Nat) /\ Len(s \o t) = m + n
        /\ \A k \in 1..(m + n) : (s \o t)[k] = IF k <= m THEN s[k] ELSE t[k - m]
    BY <1>1, ConcatProperties
  <1>3. \A k \in 1..(m + n) : (s \o t)[k] = u[k]
    BY SMTT(30), <1>1, <1>2
  <1>4. s \o t = u
    BY <1>1, <1>2, <1>3, SeqEqual
  <1> QED BY <1>4 DEF s, t, u

LEMMA SliceOfSlice ==
  ASSUME NEW start \in Nat, NEW n \in Nat, NEW from \in Nat, NEW to \in (from + 1)..n
  PROVE  SubSeq(Slice(start, n), from + 1, to) = Slice(start + from, to - from)
  <1> DEFINE s == Slice(start, n)  t == Slice(start + from, to - from)  u == SubSeq(s, from + 1, to)
  <1>1. /\ s \in Seq(Nat) /\ Len(s) = n /\ \A k \in 1..n : s[k] = start + k - 1
        /\ t \in Seq(Nat) /\ Len(t) = to - from /\ \A k \in 1..(to - from) : t[k] = start + from + k - 1
    <2>1. s \in Seq(Nat) /\ Len(s) = n /\ \A k \in 1..n : s[k] = start + k - 1
      BY SliceProperties
    <2>2. start + from \in Nat /\ to - from \in Nat
      OBVIOUS
    <2>3. t \in Seq(Nat) /\ Len(t) = to - from /\ \A k \in 1..(to - from) : t[k] = (start + from) + k - 1
      BY <2>2, SliceProperties
    <2> HIDE DEF s, t
    <2> QED BY <2>1, <2>3
  <1> HIDE DEF s, t
  <1>2. \A k \in (from + 1)..to : s[k] \in Nat
    <2>1. s \in Seq(Nat) /\ \A k \in (from + 1)..to : k \in 1..Len(s)
      BY <1>1
    <2> QED BY <2>1, ElementOfSeq
  <1>3. /\ u \in Seq(Nat) /\ Len(u) = to - from
        /\ \A k \in 1..(to - from) : u[k] = s[from + 1 + k - 1]
    BY <1>2, SubSeqProperties
  <1>4. \A k \in 1..(to - from) : u[k] = t[k]
    BY SMTT(30), <1>1, <1>3
  <1> HIDE DEF u
  <1>5. u = t
    BY <1>1, <1>3, <1>4, SeqEqual
  <1> QED BY <1>5 DEF s, t, u

-----------------------------------------------------------------------------
(* The ranges *)

LEMMA Ranges ==
  ASSUME NEW k \in Part
  PROVE  /\ RangeOf(k).start \in Nat /\ RangeOf(k).end \in Nat
         /\ SizeOfRange(k) \in Nat /\ SizeOfRange(k) > 0
         /\ RangeOf(0).start = 0
         /\ k = ch_num - 1 => RangeOf(k).end = file_size - 1
         /\ k # ch_num - 1 => RangeOf(k + 1).start = RangeOf(k).end + 1
  <1>1. /\ ch_num \in Nat /\ ch_num > 0 /\ file_size \in Nat /\ file_size >= ch_num
        /\ k \in Nat /\ k < ch_num
    BY DownloadAssumption DEF Part
  <1>2. chunk \in Nat /\ chunk >= 1 /\ ch_num * chunk <= file_size
    BY <1>1 DEF chunk
  <1>3. k * chunk \in Nat /\ (k + 1) * chunk = k * chunk + chunk /\ 0 * chunk = 0
    BY <1>1, <1>2
  <1>4. (k + 1) * chunk <= ch_num * chunk
    BY <1>1, <1>2
  <1> HIDE DEF chunk
  <1> QED BY <1>1, <1>2, <1>3, <1>4 DEF RangeOf, SizeOfRange

LEMMA NullApart ==
  /\ \A q \in Seq(Nat) : q # NULL
  /\ \A q \in Seq([part : Nat, start : Nat, end : Nat]) : q # NULL
  /\ \A r \in [start : Nat, end : Nat] : r # NULL
  BY DownloadAssumption

\* The part that a loop is at, or the last one where the .dm file ends too early.
Known == IF i < Len(dm) THEN i ELSE Len(dm) - 1

LEMMA LineIs ==
  ASSUME DInv, dm # NULL, dm # <<>>
  PROVE  /\ Known \in Part /\ Known < Len(dm) /\ Len(dm) \in Nat /\ Len(dm) > 0
         /\ Line(i) = [part |-> Known, start |-> RangeOf(Known).start, end |-> RangeOf(Known).end]
         /\ Owned(Known)
  <1>1. /\ dm \in Seq([part : Nat, start : Nat, end : Nat]) /\ Len(dm) <= ch_num
        /\ i \in 0..(ch_num - 1) /\ ch_num \in Nat
    BY DownloadAssumption DEF DInv, TypeOK, DmRight, Part
  <1>2. Len(dm) \in Nat /\ Len(dm) > 0
    BY <1>1, EmptySeq
  <1>3. Known \in Part /\ Known < Len(dm)
    BY <1>1, <1>2 DEF Known, Part
  <1>4. Line(i) = dm[Known + 1]
    BY <1>1, <1>2 DEF Line, Known, Last
  <1>5. Known \in 0..(Len(dm) - 1)
    BY <1>2, <1>3 DEF Part
  <1> QED BY <1>2, <1>3, <1>4, <1>5 DEF DInv, DmRight, Owned

-----------------------------------------------------------------------------
(* The parent *)

LEMMA InitHolds == Init => DInv
  <1> SUFFICES ASSUME Init  PROVE DInv
    OBVIOUS
  <1>1. TypeOK
    BY DownloadAssumption DEF Init, TypeOK, Part
  <1>2. DmRight /\ PartsRight /\ ParentRight /\ FinalRight
    BY DEF Init, DmRight, PartsRight, Owned, ParentRight, FinalRight
  <1> QED BY <1>1, <1>2 DEF DInv

LEMMA StartStep ==
  ASSUME DInv, Start
  PROVE  DInv'
  <1> USE DEF Start
  <1>0. /\ <<>> \in Seq([part : Nat, start : Nat, end : Nat]) /\ Len(<<>>) = 0 /\ <<>> # NULL
        /\ 0 \in Part
    <2>1. <<>> \in Seq([part : Nat, start : Nat, end : Nat]) /\ Len(<<>>) = 0
      BY EmptySeq
    <2>2. <<>> # NULL
      BY <2>1, NullApart, Zenon
    <2>3. 0 \in Part
      BY DownloadAssumption DEF Part
    <2> QED BY <2>1, <2>2, <2>3
  <1>1. TypeOK'
    BY <1>0 DEF DInv, TypeOK
  <1>2. DmRight'
    BY <1>0, DownloadAssumption DEF DInv, DmRight, RangeOf
  <1>3. PartsRight'
    BY <1>0 DEF DInv, PartsRight, PartRight, Owned, ParentRight, Part, RangeOf, SizeOf, SizeOfRange
  <1>4. ParentRight'
    BY <1>0 DEF DInv, ParentRight, FinalRight, Part
  <1>5. FinalRight'
    BY <1>0 DEF DInv, FinalRight
  <1> QED BY <1>1, <1>2, <1>3, <1>4, <1>5 DEF DInv

LEMMA ForkStep ==
  ASSUME DInv, Fork
  PROVE  DInv'
  <1> USE DEF Fork, files
  <1>1. TypeOK'
    BY Ranges DEF DInv, TypeOK, RangeOf
  <1>2. DmRight' /\ FinalRight'
    BY DEF DInv, DmRight, FinalRight, RangeOf
  <1>3. PartsRight'
    <2> SUFFICES ASSUME NEW k \in Part, Owned(k)'  PROVE PartRight(k)'
      BY DEF PartsRight
    <2>1. CASE k = i
      <3>1. part'[k] = NULL /\ child'[k] = RangeOf(k) /\ RangeOf(k) = [start |-> RangeOf(k).start, end |-> RangeOf(k).end]
        BY <2>1 DEF DInv, TypeOK, ParentRight, RangeOf
      <3> QED BY <3>1, Ranges DEF PartRight, SizeOf, SizeOfRange, RangeOf
    <2>2. CASE k # i
      <3>1. Owned(k) /\ part'[k] = part[k] /\ child'[k] = child[k]
        BY <2>2 DEF DInv, TypeOK, Owned
      <3> QED BY <3>1 DEF DInv, PartsRight, PartRight, SizeOf, SizeOfRange, RangeOf
    <2> QED BY <2>1, <2>2
  <1>4. ParentRight'
    BY DEF DInv, TypeOK, ParentRight, Part
  <1> QED BY <1>1, <1>2, <1>3, <1>4 DEF DInv

LEMMA ListStep ==
  ASSUME DInv, List
  PROVE  DInv'
  <1> DEFINE line == [part |-> i, start |-> RangeOf(i).start, end |-> RangeOf(i).end]
             Lines == [part : Nat, start : Nat, end : Nat]
  <1>1. /\ dm \in Seq(Lines) /\ dm # NULL /\ final = NULL /\ Len(dm) = i /\ i \in 0..(ch_num - 1) /\ ch_num \in Nat
        /\ dm' = Append(dm, line) /\ line \in Lines
        /\ UNCHANGED <<final, part, pos, child>>
    BY Ranges, DownloadAssumption DEF DInv, TypeOK, ParentRight, List, Part
  <1>2. /\ dm' \in Seq(Lines) /\ Len(dm') = i + 1
        /\ \A k \in 1..i : dm'[k] = dm[k]
        /\ dm'[i + 1] = line /\ dm' # <<>> /\ dm' # NULL
    <2> HIDE DEF line, Lines
    <2>1. dm' # NULL
      BY <1>1, AppendProperties, NullApart DEF Lines
    <2> QED BY <1>1, <2>1, AppendProperties
  <1>3. \/ i # ch_num - 1 /\ at' = "fork" /\ i' = i + 1
        \/ i = ch_num - 1 /\ at' = "wait" /\ i' = 0
    BY DEF List, NextPart
  <1>4. TypeOK'
    BY SMTT(30), <1>1, <1>2, <1>3 DEF DInv, TypeOK, Part
  <1>5. DmRight'
    <2>1. Len(dm') <= ch_num /\ 0..(Len(dm') - 1) = 0..i
      BY <1>1, <1>2
    <2>2. ASSUME NEW k \in 0..i
          PROVE  dm'[k + 1] = [part |-> k, start |-> RangeOf(k).start, end |-> RangeOf(k).end]
      <3>1. CASE k = i
        BY <1>2, <3>1
      <3>2. CASE k # i
        <4>1. k \in 0..(Len(dm) - 1) /\ k + 1 \in 1..i
          BY <1>1, <3>2
        <4> QED BY <1>1, <1>2, <4>1 DEF DInv, DmRight
      <3> QED BY <3>1, <3>2
    <2>3. \A k : RangeOf(k)' = RangeOf(k)
      BY DEF RangeOf
    <2> HIDE DEF line
    <2> QED BY <2>1, <2>2, <2>3 DEF DmRight
  <1>6. PartsRight'
    <2>1. \A k \in Part : Owned(k)' => Owned(k)
      BY <1>1, <1>2, <1>3 DEF Owned, List, Part
    <2> QED BY <1>1, <2>1 DEF DInv, PartsRight, PartRight, SizeOf, SizeOfRange, RangeOf
  <1>7. ParentRight'
    BY SMTT(30), <1>1, <1>2, <1>3 DEF DInv, ParentRight, List, Part
  <1>8. FinalRight'
    BY <1>1, <1>2 DEF FinalRight
  <1> QED BY <1>4, <1>5, <1>6, <1>7, <1>8 DEF DInv

LEMMA ResumeStep ==
  ASSUME DInv, Resume
  PROVE  DInv'
  <1> DEFINE range == RangeOf(Known)  size == SizeOf(part[Known])
             fetched == [start |-> range.start + size, end |-> range.end]
  <1>1. /\ dm # NULL /\ dm # <<>> /\ final = NULL /\ at = "resume"
        /\ Known \in Part /\ Known < Len(dm) /\ Owned(Known) /\ Len(dm) \in Nat /\ Len(dm) > 0
        /\ Line(i) = [part |-> Known, start |-> range.start, end |-> range.end]
        /\ UNCHANGED <<files, pos>>
    BY LineIs DEF Resume, DInv, ParentRight
  <1>2. child' = IF SizeOfRange(Known) > size THEN [child EXCEPT ![i] = fetched] ELSE child
    BY <1>1 DEF Resume, SizeOfRange
  <1>3. \/ i # ch_num - 1 /\ at' = "resume" /\ i' = i + 1
        \/ i = ch_num - 1 /\ at' = "wait" /\ i' = 0
    BY DEF Resume, NextPart
  <1>4. size \in Nat /\ fetched \in [start : Nat, end : Nat]
    <2>1. part[Known] \in Seq(Nat) \cup {NULL}
      BY <1>1 DEF DInv, TypeOK
    <2>2. size \in Nat
      BY <2>1, LenProperties DEF SizeOf
    <2>3. range.start \in Nat /\ range.end \in Nat
      BY <1>1, Ranges
    <2> HIDE DEF size, range
    <2> QED BY <2>2, <2>3
  <1>5. /\ i \in 0..(ch_num - 1) /\ ch_num \in Nat
        /\ child' \in [Part -> [start : Nat, end : Nat] \cup {NULL}]
        /\ \A k \in Part : k # i => child'[k] = child[k]
    BY <1>2, <1>4, DownloadAssumption DEF DInv, TypeOK, Part
  <1>6. TypeOK'
    <2>1. i' \in Part
      BY <1>3, <1>5 DEF Part
    <2>2. at' \in {"resume", "wait"}
      BY <1>3
    <2> QED BY <1>1, <1>5, <2>1, <2>2 DEF DInv, TypeOK, files
  <1>7. DmRight' /\ FinalRight'
    BY <1>1 DEF DInv, DmRight, FinalRight, files, RangeOf
  <1>8. PartsRight'
    <2> SUFFICES ASSUME NEW k \in Part, Owned(k)'  PROVE PartRight(k)'
      BY DEF PartsRight
    <2>1. Owned(k) /\ PartRight(k) /\ k < Len(dm) /\ part' = part
      BY <1>1, <1>3 DEF DInv, PartsRight, Owned, files
    <2>2. CASE child'[k] = child[k]
      BY <2>1, <2>2 DEF PartRight, SizeOf, SizeOfRange, RangeOf
    <2>3. CASE k = i /\ SizeOfRange(k) > size /\ child'[k] = fetched
      <3>1. Known = k
        BY <2>1, <2>3 DEF Known
      <3>2. size <= SizeOfRange(k)
        BY <1>4, <2>3, Ranges
      <3> HIDE DEF size
      <3>3. fetched.start = range.start + size /\ fetched.end = range.end /\ fetched.start <= fetched.end + 1
        BY <1>4, <3>1, <3>2, Ranges DEF SizeOfRange
      <3>4. range = RangeOf(k) /\ size = SizeOf(part'[k])
        BY <2>1, <3>1 DEF size
      <3> HIDE DEF fetched, range
      <3>5. child'[k] # NULL =>
               /\ child'[k].end = RangeOf(k).end
               /\ child'[k].start = RangeOf(k).start + SizeOf(part'[k])
               /\ child'[k].start <= child'[k].end + 1
        BY <2>3, <3>3, <3>4
      <3>6. part'[k] # NULL =>
               /\ Len(part'[k]) <= SizeOfRange(k)
               /\ part'[k] = Slice(RangeOf(k).start, Len(part'[k]))
        BY <2>1 DEF PartRight
      <3>7. RangeOf(k)' = RangeOf(k) /\ SizeOfRange(k)' = SizeOfRange(k)
        BY DEF RangeOf, SizeOfRange
      <3> QED BY <3>5, <3>6, <3>7 DEF PartRight
    <2>4. child'[k] = child[k] \/ (k = i /\ SizeOfRange(k) > size /\ child'[k] = fetched)
      <3>1. child \in [Part -> [start : Nat, end : Nat] \cup {NULL}]
        BY DEF DInv, TypeOK
      <3>2. k = i /\ SizeOfRange(Known) > size => SizeOfRange(k) > size
        BY <2>1 DEF Known
      <3> HIDE DEF fetched, size
      <3> QED BY <1>2, <3>1, <3>2
    <2> QED BY <2>2, <2>3, <2>4
  <1>9. ParentRight'
    <2>1. \A k \in Part : k >= i' /\ at' = "resume" => child'[k] = NULL
      BY <1>1, <1>3, <1>5 DEF DInv, ParentRight, Part
    <2> QED BY <1>1, <1>3, <2>1 DEF DInv, ParentRight, files
  <1> QED BY <1>6, <1>7, <1>8, <1>9 DEF DInv

LEMMA ResumeUnsetStep ==
  ASSUME DInv, ResumeUnset
  PROVE  DInv'
  <1> USE DEF ResumeUnset, files
  <1>1. TypeOK'
    BY DEF DInv, TypeOK
  <1>2. DmRight' /\ FinalRight'
    BY DEF DInv, DmRight, FinalRight, RangeOf
  <1>3. PartsRight'
    BY DEF DInv, PartsRight, PartRight, Owned, SizeOf, SizeOfRange, RangeOf
  <1>4. ParentRight'
    BY DEF DInv, ParentRight
  <1> QED BY <1>1, <1>2, <1>3, <1>4 DEF DInv

LEMMA WaitStep ==
  ASSUME DInv, Wait
  PROVE  DInv'
  <1> USE DEF Wait, files
  <1>1. TypeOK'
    BY DEF DInv, TypeOK
  <1>2. DmRight' /\ FinalRight'
    BY DEF DInv, DmRight, FinalRight, RangeOf
  <1>3. PartsRight'
    BY DEF DInv, PartsRight, PartRight, Owned, SizeOf, SizeOfRange, RangeOf
  <1>4. ParentRight'
    BY DEF DInv, TypeOK, ParentRight, Part
  <1> QED BY <1>1, <1>2, <1>3, <1>4 DEF DInv

LEMMA CheckStep ==
  ASSUME DInv, Check
  PROVE  DInv'
  <1>1. /\ dm # NULL /\ dm # <<>> /\ final = NULL /\ at = "check"
        /\ Known \in Part /\ Known < Len(dm) /\ Owned(Known) /\ Len(dm) \in Nat /\ Len(dm) > 0
        /\ Line(i) = [part |-> Known, start |-> RangeOf(Known).start, end |-> RangeOf(Known).end]
        /\ UNCHANGED <<dm, part, child>> /\ pos' = 0
        /\ \A k \in Part : child[k] = NULL
    BY LineIs DEF Check, DInv, ParentRight
  <1>2. \/ /\ SizeOfRange(Known) # SizeOf(part[Known])
           /\ at' = "off" /\ i' = i /\ final' = NULL
        \/ /\ SizeOfRange(Known) = SizeOf(part[Known])
           /\ \/ i # ch_num - 1 /\ at' = "check" /\ i' = i + 1 /\ final' = NULL
              \/ i = ch_num - 1 /\ at' = "copy" /\ i' = 0 /\ final' = <<>>
    BY <1>1 DEF Check, NextPart, SizeOfRange
  <1>3. <<>> \in Seq(Nat) /\ Len(<<>>) = 0 /\ <<>> # NULL /\ <<>> = Slice(0, 0)
    BY EmptySeq, NullApart, SliceProperties
  <1>4. i \in 0..(ch_num - 1) /\ ch_num \in Nat
    BY DownloadAssumption DEF DInv, TypeOK, Part
  <1>5. TypeOK'
    <2>1. i' \in Part
      BY <1>2, <1>4 DEF Part
    <2>2. /\ at' \in {"off", "check", "copy"} /\ final' \in Seq(Nat) \cup {NULL} /\ pos' \in Nat
          /\ UNCHANGED <<dm, part, child>>
      BY <1>1, <1>2, <1>3
    <2> QED BY <2>1, <2>2 DEF DInv, TypeOK
  <1>6. DmRight' /\ FinalRight'
    BY <1>1, <1>2, <1>3 DEF DInv, DmRight, FinalRight, RangeOf
  <1>7. PartsRight'
    BY <1>1, <1>2 DEF DInv, PartsRight, PartRight, Owned, SizeOf, SizeOfRange, RangeOf
  <1>8. \A k \in Part : at' # "off" /\ k <= i /\ k < Len(dm) => Complete(k)'
    <2> SUFFICES ASSUME NEW k \in Part, at' # "off", k <= i, k < Len(dm)
                 PROVE  Complete(k)
      BY <1>1 DEF Complete, SizeOfRange, RangeOf
    <2>1. CASE k = i
      <3>1. k = Known /\ SizeOf(part[k]) = SizeOfRange(k)
        BY <1>2, <2>1 DEF Known
      <3> QED BY <3>1, Ranges DEF SizeOf, Complete
    <2>2. CASE k < i
      BY <1>1, <2>2 DEF DInv, ParentRight
    <2> QED BY <1>4, <2>1, <2>2 DEF Part
  <1>9. ParentRight'
    <2>1. CASE at' = "copy"
      <3>1. \A k \in Part : k < Len(dm') => Complete(k)'
        BY <1>1, <1>2, <1>4, <1>8, <2>1 DEF Part
      <3>2. 0 \in Part /\ RangeOf(0)'.start = 0 /\ SizeOfRange(0)' \in Nat
        BY <1>4, Ranges DEF Part, RangeOf, SizeOfRange
      <3> QED BY <1>1, <1>2, <1>3, <2>1, <3>1, <3>2 DEF ParentRight
    <2>2. CASE at' = "check"
      BY <1>1, <1>2, <1>4, <1>8, <2>2 DEF ParentRight, Part
    <2>3. CASE at' = "off"
      BY <1>1, <2>3 DEF ParentRight
    <2> QED BY <1>2, <2>1, <2>2, <2>3
  <1> QED BY <1>5, <1>6, <1>7, <1>9 DEF DInv

\* While the parts are joined: the part that the loop is at is listed if it is there.
LEMMA CopyIs ==
  ASSUME DInv, at = "copy"
  PROVE  /\ dm # NULL /\ dm # <<>> /\ final # NULL /\ Len(dm) \in Nat /\ Len(dm) <= ch_num
         /\ Known \in Part /\ Line(i).part = Known
         /\ \A k \in Part : child[k] = NULL
         /\ i \in 0..(ch_num - 1) /\ ch_num \in Nat /\ pos \in Nat
         /\ part[Known] # NULL =>
               /\ i < Len(dm) /\ Known = i /\ Complete(i) /\ pos <= SizeOfRange(i)
               /\ final = Slice(0, RangeOf(i).start + pos)
               /\ part[i] = Slice(RangeOf(i).start, SizeOfRange(i))
  <1>1. dm # NULL /\ dm # <<>> /\ final # NULL /\ \A k \in Part : child[k] = NULL
    BY DEF DInv, ParentRight
  <1>2. /\ Known \in Part /\ Known < Len(dm) /\ Len(dm) \in Nat /\ Owned(Known) /\ Line(i).part = Known
    BY <1>1, LineIs
  <1>3. i \in 0..(ch_num - 1) /\ ch_num \in Nat /\ pos \in Nat /\ Len(dm) <= ch_num
    BY <1>1, DownloadAssumption DEF DInv, TypeOK, DmRight, Part
  <1>4. ASSUME part[Known] # NULL
        PROVE  /\ i < Len(dm) /\ Known = i /\ Complete(i) /\ pos <= SizeOfRange(i)
               /\ final = Slice(0, RangeOf(i).start + pos)
               /\ part[i] = Slice(RangeOf(i).start, SizeOfRange(i))
    <2>1. i < Len(dm) /\ Known = i
      BY <1>1, <1>2, <1>3, <1>4 DEF Known, DInv, ParentRight
    <2>2. Complete(i) /\ pos <= SizeOfRange(i) /\ final = Slice(0, RangeOf(i).start + pos)
      BY <1>2, <1>3, <2>1 DEF DInv, ParentRight, Part
    <2> QED BY <1>2, <2>1, <2>2 DEF DInv, PartsRight, PartRight, Complete
  <1> QED BY <1>1, <1>2, <1>3, <1>4

LEMMA CopyStep ==
  ASSUME DInv, Copy
  PROVE  DInv'
  <1> DEFINE start == RangeOf(i).start
  <1>1. /\ at = "copy" /\ part[Known] # NULL /\ Line(i).part = Known
        /\ UNCHANGED <<dm, part, at, i, child>>
    BY CopyIs DEF Copy
  <1>2. /\ i < Len(dm) /\ Known = i /\ Complete(i) /\ final = Slice(0, start + pos)
        /\ part[i] = Slice(start, SizeOfRange(i)) /\ pos \in Nat /\ i \in Part
    BY <1>1, CopyIs DEF DInv, TypeOK
  <1>3. start \in Nat /\ SizeOfRange(i) \in Nat
    BY <1>2, Ranges
  <1> HIDE DEF start
  <1>4. PICK to \in (pos + 1)..SizeOfRange(i) :
           final' = final \o SubSeq(part[i], pos + 1, to) /\ pos' = to
    BY <1>1, <1>2 DEF Copy, Complete
  <1>5. final' = Slice(0, start + to) /\ to \in Nat /\ to <= SizeOfRange(i)
    <2> DEFINE m == start + pos  n == to - pos
    <2>1. SubSeq(Slice(start, SizeOfRange(i)), pos + 1, to) = Slice(m, n)
      BY <1>2, <1>3, SliceOfSlice
    <2>2. m \in Nat /\ n \in Nat /\ m + n = start + to /\ to \in Nat /\ to <= SizeOfRange(i)
      BY <1>2, <1>3
    <2> HIDE DEF m, n
    <2>3. Slice(0, m) \o Slice(0 + m, n) = Slice(0, m + n)
      BY <2>2, SliceConcat
    <2>4. 0 + m = m
      BY <2>2
    <2>5. final = Slice(0, m)
      BY <1>2 DEF m
    <2> QED BY <1>2, <1>4, <2>1, <2>2, <2>3, <2>4, <2>5
  <1>6. final' \in Seq(Nat) /\ final' # NULL /\ final' = Slice(0, Len(final'))
    <2>1. start + to \in Nat
      BY <1>3, <1>5
    <2>2. final' \in Seq(Nat) /\ Len(final') = start + to
      BY <1>5, <2>1, SliceProperties
    <2> QED BY <1>5, <2>2, NullApart
  <1>7. TypeOK'
    BY <1>1, <1>4, <1>5, <1>6 DEF DInv, TypeOK
  <1>8. DmRight' /\ FinalRight'
    BY <1>1, <1>6, CopyIs DEF DInv, DmRight, FinalRight, RangeOf
  <1>9. PartsRight'
    BY <1>1 DEF DInv, PartsRight, PartRight, Owned, SizeOf, SizeOfRange, RangeOf
  <1>10. ParentRight'
    <2>1. \A k \in Part : Complete(k)' <=> Complete(k)
      BY <1>1 DEF Complete, SizeOfRange, RangeOf
    <2>2. pos' <= SizeOfRange(i)' /\ final' = Slice(0, RangeOf(i)'.start + pos')
      BY <1>1, <1>4, <1>5 DEF SizeOfRange, RangeOf, start
    <2> QED BY <1>1, <1>2, <1>6, <2>1, <2>2, CopyIs DEF DInv, ParentRight
  <1> QED BY <1>7, <1>8, <1>9, <1>10 DEF DInv

LEMMA CopiedStep ==
  ASSUME DInv, Copied
  PROVE  DInv'
  <1>1. /\ at = "copy" /\ part[Known] # NULL /\ Line(i).part = Known
        /\ pos = Len(part[Known]) /\ part' = [part EXCEPT ![Known] = NULL] /\ pos' = 0
        /\ UNCHANGED <<final, dm, child>>
    BY CopyIs DEF Copied
  <1>2. /\ dm # NULL /\ dm # <<>> /\ final # NULL /\ Len(dm) \in Nat /\ Len(dm) <= ch_num /\ i < Len(dm)
        /\ Known = i /\ Complete(i) /\ i \in 0..(ch_num - 1) /\ ch_num \in Nat /\ i \in Part
        /\ \A k \in Part : child[k] = NULL
        /\ pos = SizeOfRange(i) /\ final = Slice(0, RangeOf(i).start + pos)
    BY <1>1, CopyIs DEF Part, Complete
  <1>3. \/ i # ch_num - 1 /\ at' = "copy" /\ i' = i + 1
        \/ i = ch_num - 1 /\ at' = "done" /\ i' = 0
    BY DEF Copied, NextPart
  <1>4. /\ part' \in [Part -> Seq(Nat) \cup {NULL}] /\ part'[i] = NULL
        /\ \A k \in Part : k # i => part'[k] = part[k]
    BY <1>1, <1>2 DEF DInv, TypeOK
  <1>5. final = Slice(0, RangeOf(i).end + 1)
    <2>1. RangeOf(i).start + SizeOfRange(i) = RangeOf(i).end + 1
      BY <1>2, Ranges DEF SizeOfRange
    <2> QED BY <1>2, <2>1
  <1>6. TypeOK'
    BY <1>1, <1>2, <1>3, <1>4 DEF DInv, TypeOK, Part
  <1>7. DmRight' /\ FinalRight'
    BY <1>1, <1>2 DEF DInv, DmRight, FinalRight, RangeOf
  <1>8. PartsRight'
    BY <1>1, <1>2, <1>3, <1>4 DEF DInv, PartsRight, PartRight, Owned, SizeOfRange, RangeOf
  <1>9. ParentRight'
    <2>1. CASE at' = "done"
      <3>1. RangeOf(i).end + 1 = file_size
        BY <1>2, <1>3, <2>1, Ranges, DownloadAssumption
      <3> QED BY <1>1, <1>2, <1>3, <1>5, <2>1, <3>1 DEF ParentRight
    <2>2. CASE at' = "copy" /\ i + 1 < Len(dm)
      <3>1. i' = i + 1 /\ i + 1 \in Part /\ RangeOf(i + 1).start = RangeOf(i).end + 1
        BY <1>2, <1>3, <2>2, Ranges DEF Part
      <3>2. RangeOf(i + 1).start \in Nat /\ SizeOfRange(i + 1) \in Nat
        BY <3>1, Ranges
      <3>3. \A k \in Part : i' <= k /\ k < Len(dm) => Complete(k)'
        BY <1>1, <1>2, <1>4, <3>1 DEF DInv, ParentRight, Complete, SizeOfRange, RangeOf, Part
      <3>4. final' = Slice(0, RangeOf(i + 1).start + 0)
        BY <1>1, <1>5, <3>1, <3>2
      <3>5. SizeOfRange(i)' = SizeOfRange(i + 1) /\ RangeOf(i)' = RangeOf(i + 1)
        BY <3>1 DEF SizeOfRange, RangeOf
      <3> QED BY <1>1, <1>2, <2>2, <3>1, <3>2, <3>3, <3>4, <3>5 DEF ParentRight
    <2>3. CASE at' = "copy" /\ i + 1 >= Len(dm)
      <3>1. i' = i + 1 /\ Len(dm) - 1 = i
        BY <1>2, <1>3, <2>3
      <3> QED BY <1>1, <1>2, <1>4, <2>3, <3>1 DEF ParentRight, Part
    <2> QED BY <1>2, <1>3, <2>1, <2>2, <2>3
  <1> QED BY <1>6, <1>7, <1>8, <1>9 DEF DInv

LEMMA CopyFailsStep ==
  ASSUME DInv, CopyFails
  PROVE  DInv'
  <1> USE CopyIs DEF CopyFails, files
  <1>1. TypeOK'
    BY DEF DInv, TypeOK
  <1>2. DmRight' /\ FinalRight'
    BY DEF DInv, DmRight, FinalRight, RangeOf
  <1>3. PartsRight'
    BY DEF DInv, PartsRight, PartRight, Owned, SizeOf, SizeOfRange, RangeOf
  <1>4. ParentRight'
    BY DEF ParentRight
  <1> QED BY <1>1, <1>2, <1>3, <1>4 DEF DInv

LEMMA FinishStep ==
  ASSUME DInv, Finish
  PROVE  DInv'
  <1> USE DEF Finish
  <1>1. final = Slice(0, file_size) /\ Len(final) = file_size /\ final # NULL
    BY SliceProperties, NullApart, DownloadAssumption DEF DInv, ParentRight
  <1>2. TypeOK'
    BY DEF DInv, TypeOK
  <1>3. DmRight' /\ FinalRight'
    BY <1>1 DEF DInv, DmRight, FinalRight
  <1>4. PartsRight'
    BY DEF PartsRight, Owned
  <1>5. ParentRight'
    BY DEF DInv, ParentRight
  <1> QED BY <1>2, <1>3, <1>4, <1>5 DEF DInv

-----------------------------------------------------------------------------
(* A child, and an interrupt *)

\* A child that fetches may be anywhere but where all of them are gone.
LEMMA ChildIs ==
  ASSUME DInv, NEW k \in Part, child[k] # NULL
  PROVE  /\ at \in {"fork", "list", "resume", "undefined", "wait"} /\ dm # NULL /\ final = NULL
         /\ at \in {"fork", "list"} => k <= i
         /\ at = "fork" => k < i
         /\ at = "resume" => k < i
         /\ i \in Nat /\ k \in Nat /\ Len(dm) \in Nat
  BY DownloadAssumption DEF DInv, TypeOK, ParentRight, Part

LEMMA ReadStep ==
  ASSUME DInv, NEW k \in Part, Read(k)
  PROVE  DInv'
  <1> DEFINE start == child[k].start  end == child[k].end
             old == IF part[k] = NULL THEN <<>> ELSE part[k]
  <1>1. /\ child[k] # NULL /\ start <= end /\ start \in Nat /\ end \in Nat
        /\ child[k] = [start |-> start, end |-> end]
        /\ UNCHANGED <<final, dm, at, i, pos>>
    BY DEF Read, DInv, TypeOK
  <1> HIDE DEF start, end
  <1>2. PICK to \in start..end :
           /\ part' = [part EXCEPT ![k] = old \o Slice(start, to - start + 1)]
           /\ child' = [child EXCEPT ![k].start = to + 1]
    BY DEF Read, Slice, start, end
  <1>3. /\ to \in Nat /\ to - start + 1 \in Nat /\ start <= to /\ to <= end
        /\ old \in Seq(Nat) /\ Len(old) = SizeOf(part[k])
    BY <1>1, EmptySeq DEF DInv, TypeOK, SizeOf
  <1>4. /\ Slice(start, to - start + 1) \in Seq(Nat)
        /\ Len(Slice(start, to - start + 1)) = to - start + 1
    BY <1>1, <1>3, SliceProperties
  <1> DEFINE new == old \o Slice(start, to - start + 1)
  <1>5. new \in Seq(Nat) /\ Len(new) = Len(old) + (to - start + 1) /\ new # NULL
    <2> DEFINE more == Slice(start, to - start + 1)
    <2> HIDE DEF old, more
    <2>1. more \in Seq(Nat) /\ Len(more) = to - start + 1
      BY <1>4 DEF more
    <2>2. old \o more \in Seq(Nat) /\ Len(old \o more) = Len(old) + Len(more)
      BY <1>3, <2>1, ConcatProperties
    <2>3. old \o more # NULL
      BY <2>2, NullApart
    <2> QED BY <2>1, <2>2, <2>3 DEF more
  <1> HIDE DEF old
  <1>6. /\ part' \in [Part -> Seq(Nat) \cup {NULL}] /\ part'[k] = new
        /\ child' \in [Part -> [start : Nat, end : Nat] \cup {NULL}]
        /\ child'[k] = [start |-> to + 1, end |-> end]
        /\ \A j \in Part : j # k => part'[j] = part[j] /\ child'[j] = child[j]
    <2>1. part \in [Part -> Seq(Nat) \cup {NULL}] /\ child \in [Part -> [start : Nat, end : Nat] \cup {NULL}]
      BY DEF DInv, TypeOK
    <2>2. [child[k] EXCEPT !.start = to + 1] = [start |-> to + 1, end |-> end]
      BY <1>1
    <2> HIDE DEF new
    <2>3. part' = [part EXCEPT ![k] = new]
      BY <1>2 DEF new
    <2>4. child' = [child EXCEPT ![k] = [start |-> to + 1, end |-> end]]
      BY <1>2, <2>2
    <2> QED BY <1>1, <1>3, <1>5, <2>1, <2>3, <2>4
  <1>7. TypeOK'
    BY <1>1, <1>6 DEF DInv, TypeOK
  <1>8. DmRight' /\ FinalRight'
    BY <1>1, ChildIs DEF DInv, DmRight, FinalRight, RangeOf
  <1>9. PartsRight'
    <2> SUFFICES ASSUME NEW j \in Part, Owned(j)'  PROVE PartRight(j)'
      BY DEF PartsRight
    <2>1. Owned(j) /\ PartRight(j)
      BY <1>1 DEF DInv, PartsRight, Owned
    <2>2. CASE j # k
      BY <1>6, <2>1, <2>2 DEF PartRight, SizeOf, SizeOfRange, RangeOf
    <2>3. CASE j = k
      <3> DEFINE first == RangeOf(k).start
      <3>1. /\ end = RangeOf(k).end /\ start = first + Len(old) /\ first \in Nat /\ Len(old) \in Nat
            /\ SizeOfRange(k) = end - first + 1
        BY <1>1, <1>3, <2>1, <2>3, Ranges DEF PartRight, start, end, SizeOfRange
      <3>2. old = Slice(first, Len(old))
        <4>1. CASE part[k] = NULL
          BY <3>1, <4>1, SliceProperties, EmptySeq DEF old
        <4>2. CASE part[k] # NULL
          BY <2>1, <2>3, <4>2 DEF old, PartRight
        <4> QED BY <4>1, <4>2
      <3>3. new = Slice(first, Len(new))
        <4> DEFINE m == Len(old)  n == to - start + 1
        <4>1. m \in Nat /\ n \in Nat /\ first \in Nat /\ start = first + m /\ Len(new) = m + n
          BY <1>3, <1>5, <3>1
        <4>2. Slice(first, m) \o Slice(first + m, n) = Slice(first, m + n)
          BY <4>1, SliceConcat
        <4> QED BY <3>2, <4>1, <4>2
      <3>4. Len(new) <= SizeOfRange(k) /\ Len(new) \in Nat /\ first + Len(new) = to + 1
        <4>1. first \in Nat /\ start = first + Len(old) /\ Len(old) \in Nat /\ SizeOfRange(k) = end - first + 1
          BY <3>1
        <4>2. Len(new) = Len(old) + (to - start + 1)
          BY <1>5
        <4>3. start \in Nat /\ end \in Nat /\ to \in Nat /\ to <= end /\ start <= to
          BY <1>1, <1>3
        <4> HIDE DEF first, new
        <4> QED BY <4>1, <4>2, <4>3
      <3>5. SizeOf(new) = Len(new)
        BY <1>5 DEF SizeOf
      <3>6. RangeOf(k)' = RangeOf(k) /\ SizeOfRange(k)' = SizeOfRange(k) /\ SizeOf(part[k])' = SizeOf(new)
        BY <1>6 DEF RangeOf, SizeOfRange, SizeOf
      <3> HIDE DEF new
      <3>7. /\ child'[k].start = RangeOf(k).start + SizeOf(new) /\ child'[k].end = RangeOf(k).end
            /\ child'[k].start <= child'[k].end + 1
        <4>1. child'[k].start = to + 1 /\ child'[k].end = end
          BY <1>6
        <4>2. to + 1 = RangeOf(k).start + SizeOf(new)
          BY <3>4, <3>5
        <4>3. start \in Nat /\ end \in Nat /\ to \in Nat /\ to <= end
          BY <1>1, <1>3
        <4>4. RangeOf(k).end = end
          BY <3>1
        <4> HIDE DEF start, end
        <4> QED BY <4>1, <4>2, <4>3, <4>4
      <3> QED BY <1>6, <2>3, <3>3, <3>4, <3>6, <3>7 DEF PartRight
    <2> QED BY <2>2, <2>3
  <1>10. ParentRight'
    <2>1. /\ at \in {"fork", "list", "resume", "undefined", "wait"}
          /\ at \in {"fork", "list"} => k <= i
          /\ at = "fork" => k < i
          /\ at = "resume" => k < i
      BY <1>1, ChildIs
    <2> QED BY <1>1, <1>6, <2>1, ChildIs DEF DInv, TypeOK, ParentRight, Part
  <1> QED BY <1>7, <1>8, <1>9, <1>10 DEF DInv

\* A child ends, with all of its range or without.
LEMMA ChildEnds ==
  ASSUME DInv, NEW k \in Part, child[k] # NULL, child' = [child EXCEPT ![k] = NULL],
         UNCHANGED <<files, at, i, pos>>
  PROVE  DInv'
  <1> USE DEF files
  <1>1. /\ child' \in [Part -> [start : Nat, end : Nat] \cup {NULL}]
        /\ \A j \in Part : child'[j] = NULL \/ child'[j] = child[j]
    BY DEF DInv, TypeOK
  <1>2. TypeOK'
    BY <1>1 DEF DInv, TypeOK
  <1>3. DmRight' /\ FinalRight'
    BY DEF DInv, DmRight, FinalRight, RangeOf
  <1>4. PartsRight'
    BY <1>1 DEF DInv, PartsRight, PartRight, Owned, SizeOf, SizeOfRange, RangeOf
  <1>5. ParentRight'
    BY <1>1, ChildIs DEF DInv, TypeOK, ParentRight
  <1> QED BY <1>2, <1>3, <1>4, <1>5 DEF DInv

LEMMA InterruptStep ==
  ASSUME DInv, Interrupt
  PROVE  DInv'
  <1> USE DEF Interrupt, files
  <1>1. TypeOK'
    BY DEF DInv, TypeOK
  <1>2. DmRight' /\ FinalRight'
    BY DEF DInv, DmRight, FinalRight, RangeOf
  <1>3. PartsRight'
    BY DEF DInv, PartsRight, PartRight, Owned, SizeOf, SizeOfRange, RangeOf
  <1>4. ParentRight'
    BY DEF ParentRight
  <1> QED BY <1>1, <1>2, <1>3, <1>4 DEF DInv

LEMMA NextHolds == DInv /\ [Next]_vars => DInv'
  <1> SUFFICES ASSUME DInv, [Next]_vars  PROVE DInv'
    OBVIOUS
  <1>1. CASE Start
    BY <1>1, StartStep
  <1>2. CASE Parent
    BY <1>2, ForkStep, ListStep, ResumeStep, ResumeUnsetStep, WaitStep, CheckStep, CopyStep,
       CopiedStep, CopyFailsStep, FinishStep DEF Parent
  <1>3. CASE Interrupt
    BY <1>3, InterruptStep
  <1>4. ASSUME NEW k \in Part, Read(k) \/ ReadIsOver(k) \/ ReadFails(k)  PROVE DInv'
    BY <1>4, ReadStep, ChildEnds DEF ReadIsOver, ReadFails
  <1>5. CASE UNCHANGED vars
    BY <1>5 DEF vars, files, DInv, TypeOK, DmRight, PartsRight, PartRight, Owned, ParentRight, Complete,
                FinalRight, SizeOf, SizeOfRange, RangeOf
  <1> QED BY <1>1, <1>2, <1>3, <1>4, <1>5 DEF Next

\* The .dm file, the parts, the children and the place of the parent always fit
\* together.
THEOREM DownloadInvariant == Spec => []DInv
  BY InitHolds, NextHolds, PTL DEF Spec

-----------------------------------------------------------------------------
(* The theorems *)

\* The lines of the .dm file are consecutive slices of the file, a listed part
\* holds a beginning of its own, and what is put together is a beginning of the
\* true file, and all of it once the .dm file is gone.
THEOREM DownloadCorrect == Spec => []DownloadSound
  <1>1. DInv => DownloadSound
    <2> SUFFICES ASSUME DInv  PROVE DownloadSound
      OBVIOUS
    <2>1. ASSUME dm # NULL, NEW k \in DOMAIN dm
          PROVE  /\ dm[k].part = k - 1
                 /\ dm[k].start = (IF k = 1 THEN 0 ELSE dm[k - 1].end + 1)
                 /\ k = ch_num => dm[k].end = file_size - 1
                 /\ part[k - 1] # NULL =>
                        /\ Len(part[k - 1]) <= dm[k].end - dm[k].start + 1
                        /\ part[k - 1] = Slice(dm[k].start, Len(part[k - 1]))
      <3>1. /\ dm \in Seq([part : Nat, start : Nat, end : Nat]) /\ Len(dm) \in Nat
            /\ k \in 1..Len(dm) /\ Len(dm) <= ch_num /\ ch_num \in Nat
        BY SMTT(30), <2>1, DownloadAssumption DEF DInv, TypeOK, DmRight
      <3>2. k - 1 \in Part /\ k - 1 \in 0..(Len(dm) - 1) /\ (k - 1) + 1 = k
        <4>1. \A m, n, l \in Nat : m \in 1..l /\ l <= n =>
                 m - 1 \in 0..(n - 1) /\ m - 1 \in 0..(l - 1) /\ (m - 1) + 1 = m
          OBVIOUS
        <4>2. k \in Nat
          BY <3>1
        <4> QED BY <3>1, <4>1, <4>2 DEF Part
      <3>3. dm[k] = [part |-> k - 1, start |-> RangeOf(k - 1).start, end |-> RangeOf(k - 1).end]
        BY <2>1, <3>2 DEF DInv, DmRight
      <3>4. dm[k].start = (IF k = 1 THEN 0 ELSE dm[k - 1].end + 1)
        <4>1. CASE k = 1
          BY <3>2, <3>3, <4>1, Ranges
        <4>2. CASE k # 1
          <5>1. k - 2 \in Part /\ k - 2 \in 0..(Len(dm) - 1) /\ (k - 2) + 1 = k - 1 /\ k - 2 # ch_num - 1
            <6>1. \A m, n, l \in Nat : m \in 1..l /\ m # 1 /\ l <= n =>
                     m - 2 \in 0..(n - 1) /\ m - 2 \in 0..(l - 1) /\ (m - 2) + 1 = m - 1 /\ m - 2 # n - 1
              OBVIOUS
            <6>2. k \in Nat
              BY <3>1
            <6> QED BY <3>1, <4>2, <6>1, <6>2 DEF Part
          <5>2. dm[k - 1] = [part |-> k - 2, start |-> RangeOf(k - 2).start, end |-> RangeOf(k - 2).end]
            BY <2>1, <5>1 DEF DInv, DmRight
          <5>3. RangeOf(k - 1).start = RangeOf(k - 2).end + 1
            BY <5>1, Ranges
          <5> QED BY <3>3, <4>2, <5>2, <5>3
        <4> QED BY <4>1, <4>2
      <3>5. k = ch_num => dm[k].end = file_size - 1
        BY <3>2, <3>3, Ranges
      <3>6. Owned(k - 1)
        BY <2>1, <3>2 DEF Owned
      <3>7. part[k - 1] # NULL =>
               /\ Len(part[k - 1]) <= SizeOfRange(k - 1)
               /\ part[k - 1] = Slice(RangeOf(k - 1).start, Len(part[k - 1]))
        BY <3>2, <3>6 DEF DInv, PartsRight, PartRight
      <3> QED BY <3>3, <3>4, <3>5, <3>7 DEF SizeOfRange
    <2> QED BY <2>1 DEF DownloadSound, DInv, FinalRight
  <1> QED BY <1>1, DownloadInvariant, PTL

\* A byte that has been fetched is never lost: not by a child that goes on, not
\* when a part is removed, not by an interrupt.
THEOREM FetchedIsKept == Spec => NothingLost
  <1>1. DInv /\ [Next]_vars => [Fetched \subseteq Fetched']_vars
    <2> SUFFICES ASSUME DInv, Next  PROVE Fetched \subseteq Fetched'
      BY DEF vars
    <2> DEFINE Kept(file) == file # NULL => Range(file) \subseteq Fetched'
    <2>1. /\ part \in [Part -> Seq(Nat) \cup {NULL}] /\ part' \in [Part -> Seq(Nat) \cup {NULL}]
          /\ final \in Seq(Nat) \cup {NULL}
      BY NextHolds DEF DInv, TypeOK
    <2>2. \A k \in Part : part'[k] # NULL => Range(part'[k]) \subseteq Fetched'
      BY <2>1 DEF Fetched, Range
    <2>3. final' # NULL => Range(final') \subseteq Fetched'
      BY DEF Fetched
    <2>4. SUFFICES Kept(final) /\ \A k \in Part : Kept(part[k])
      <3>1. Range(part) = {part[k] : k \in Part}
        BY <2>1 DEF Range
      <3> QED BY <2>4, <3>1 DEF Fetched
    <2>5. CASE UNCHANGED <<final, part>>
      BY <2>2, <2>3, <2>5
    <2>6. CASE Check
      <3>1. final = NULL /\ part' = part
        BY <2>6 DEF Check, DInv, ParentRight
      <3> QED BY <2>2, <3>1
    <2>7. CASE Copy
      <3>1. part' = part /\ part[Known] # NULL /\ i \in Part /\ part[i] \in Seq(Nat) /\ pos \in Nat /\ Known = i
        BY <2>1, <2>7, CopyIs DEF Copy, DInv, TypeOK
      <3>2. PICK to \in (pos + 1)..Len(part[i]) : final' = final \o SubSeq(part[i], pos + 1, to)
        BY <2>7, <3>1, CopyIs DEF Copy
      <3>3. SubSeq(part[i], pos + 1, to) \in Seq(Nat)
        BY <3>1, SubSeqProperties
      <3>4. final \in Seq(Nat)
        BY <2>1, <2>7, CopyIs DEF Copy
      <3>5. Range(final') = Range(final) \cup Range(SubSeq(part[i], pos + 1, to)) /\ final' # NULL
        <4>1. Range(final') = Range(final) \cup Range(SubSeq(part[i], pos + 1, to))
          BY ZenonT(60), <3>2, <3>3, <3>4, RangeConcatenation
        <4>2. final' \in Seq(Nat)
          BY <3>2, <3>3, <3>4, ConcatProperties
        <4> QED BY <4>1, <4>2, NullApart
      <3> QED BY <2>2, <2>3, <3>1, <3>5
    <2>8. CASE Copied
      <3>1. /\ part[Known] # NULL /\ Known = i /\ i \in Part /\ pos = SizeOfRange(i) /\ final' = final
            /\ part' = [part EXCEPT ![i] = NULL] /\ final # NULL
            /\ final = Slice(0, RangeOf(i).start + SizeOfRange(i))
            /\ part[i] = Slice(RangeOf(i).start, SizeOfRange(i))
        BY <2>8, CopyIs DEF Copied, DInv, TypeOK, Complete
      <3>2. RangeOf(i).start \in Nat /\ SizeOfRange(i) \in Nat
        BY <3>1, Ranges
      <3>3. Range(part[i]) \subseteq Range(final)
        <4> DEFINE start == RangeOf(i).start  size == SizeOfRange(i)
        <4>1. /\ Slice(0, start) \in Seq(Nat) /\ Slice(start, size) \in Seq(Nat)
              /\ Slice(0, start) \o Slice(0 + start, size) = Slice(0, start + size) /\ 0 + start = start
          <5>1. start \in Nat /\ size \in Nat /\ 0 \in Nat /\ 0 + start = start
            BY <3>2
          <5> HIDE DEF start, size
          <5> QED BY <5>1, SliceConcat, SliceProperties
        <4>2. Range(Slice(0, start + size)) = Range(Slice(0, start)) \cup Range(Slice(start, size))
          <5> HIDE DEF start, size
          <5> DEFINE s1 == Slice(0, start)  s2 == Slice(start, size)
          <5>1. s1 \in Seq(Nat) /\ s2 \in Seq(Nat) /\ s1 \o s2 = Slice(0, start + size)
            BY <4>1
          <5> HIDE DEF s1, s2
          <5>2. Range(s1 \o s2) = Range(s1) \cup Range(s2)
            BY ZenonT(60), <5>1, RangeConcatenation
          <5> QED BY <5>1, <5>2 DEF s1, s2
        <4> QED BY <3>1, <4>2
      <3>4. \A k \in Part : k # i => part'[k] = part[k]
        BY <2>1, <3>1
      <3> QED BY <2>2, <2>3, <3>1, <3>3, <3>4
    <2>9. ASSUME NEW k \in Part, Read(k)  PROVE Kept(final) /\ \A j \in Part : Kept(part[j])
      <3>1. PICK s : /\ s \in Seq(Nat)
                     /\ part' = [part EXCEPT ![k] = (IF @ = NULL THEN <<>> ELSE @) \o s]
        <4>1. PICK to \in child[k].start..child[k].end :
                 part' = [part EXCEPT ![k] = (IF @ = NULL THEN <<>> ELSE @) \o Slice(child[k].start, to - child[k].start + 1)]
          BY <2>9 DEF Read, Slice
        <4>2. child[k].start \in Nat /\ to - child[k].start + 1 \in Nat
          BY <2>9 DEF Read, DInv, TypeOK
        <4>3. Slice(child[k].start, to - child[k].start + 1) \in Seq(Nat)
          BY <4>2, SliceProperties
        <4> QED BY <4>1, <4>3
      <3>2. part[k] # NULL => part'[k] = part[k] \o s /\ part[k] \in Seq(Nat)
        BY <2>1, <3>1
      <3>3. part[k] # NULL => Range(part'[k]) = Range(part[k]) \cup Range(s) /\ part'[k] # NULL
        <4> SUFFICES ASSUME part[k] # NULL
                     PROVE  Range(part'[k]) = Range(part[k]) \cup Range(s) /\ part'[k] # NULL
          OBVIOUS
        <4>1. Range(part[k] \o s) = Range(part[k]) \cup Range(s)
          BY <3>1, <3>2, RangeConcatenation
        <4>2. part[k] \o s \in Seq(Nat)
          BY <3>1, <3>2, ConcatProperties
        <4> QED BY <3>2, <4>1, <4>2, NullApart
      <3>4. \A j \in Part : j # k => part'[j] = part[j]
        BY <2>1, <3>1
      <3>5. final' = final
        BY <2>9 DEF Read
      <3> QED BY <2>2, <2>3, <3>3, <3>4, <3>5
    <2> QED BY <2>5, <2>6, <2>7, <2>8, <2>9
         DEF Next, Parent, Start, Fork, List, Resume, ResumeUnset, Wait, CopyFails, Finish, Interrupt,
             ReadIsOver, ReadFails, files
  <1> QED BY <1>1, DownloadInvariant, PTL DEF Spec, NothingLost
=============================================================================
