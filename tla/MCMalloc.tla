------------------------------ MODULE MCMalloc ------------------------------
(* Small instances for Malloc; and virtual memory and user processes on     *)
(* machines of a few pages.                                                *)
EXTENDS Malloc, TLC, Integers, FiniteSets

CONSTANTS t1, t2, d1, d2  \* threads and descriptors

TwoThreads == {t1, t2}
TwoDescs == {d1, d2}
TwoAndTwo == [d \in TwoDescs |-> 2]

Symmetry == Permutations(TwoThreads) \cup Permutations(TwoDescs)

(***************************************************************************)
(* calloc() asks for the size there is, if there is one, but does not see  *)
(* every product that does not fit (malloc.c:165 says it makes sure): one  *)
(* that wraps around to no less than both factors gets too small a block.  *)
(***************************************************************************)
ASSUME CallocMayWrap ==
    /\ \A a, b \in 1..63 : a * b < 64 => calloc_size(a, b, 6) = a * b
    /\ calloc_size(9, 9, 6) = 17

(***************************************************************************)
(* A machine of 24 pages of RAM, the first four the kernel's image, that   *)
(* is mapped from virtual page 16 on, with eight entries in a table, and   *)
(* addresses of eight bits.                                                *)
(***************************************************************************)
U == INSTANCE Process WITH PGSIZE <- 4, PTSPAN <- 8, PHYS_BASE <- 16, ZERO <- -1, SIZEOF_EHDR <- 3, SIZEOF_PHDR <- 2
Ram == 24
Text == {16, 17}
Booted ==
    LET mem == U!paging_init(20..39, Ram, Text)
    IN [free |-> mem.free, tables |-> mem.tables, active |-> mem.active, base |-> mem.base, bytes |-> <<>>]
Machine(budget) == [Booted EXCEPT !.free = {p \in @ : p < 24 + budget}]

\* The kernel's mapping is the whole RAM and nothing else, one to one, and only the
\* text is read-only.
ASSUME RamMapped ==
    LET mem == Booted
        Mapped(vpage) == U!Entry(mem, mem.base, vpage)
    IN /\ \A frame \in 0..(Ram - 1) :
              /\ Mapped(U!ptov(frame)).frame = frame
              /\ Mapped(U!ptov(frame)).W <=> U!ptov(frame) \notin Text
              /\ ~Mapped(U!ptov(frame)).U
       /\ \A vpage \in (0..15) \union (40..63) : U!pagedir_get_page(mem, mem.base, vpage) = NULL
       /\ mem.free = 24..39

(***************************************************************************)
(* loader.S and paging_init() with their real numbers: the loader's tables *)
(* have every page of the RAM it tells the kernel of, at both places, and  *)
(* one directory entry more that points beyond them.                       *)
(***************************************************************************)
R == INSTANCE Process WITH PGSIZE <- 4096, PTSPAN <- 1024, PHYS_BASE <- 786432, ZERO <- -1, SIZEOF_EHDR <- 52, SIZEOF_PHDR <- 32
ASSUME LoaderCovers ==
    /\ \A kB \in {0, 3072, 31744, 64512, 65535} : \A frame \in {0, 255, R!RamPages(kB) - 1} :
          R!LoaderFrame(frame) = frame /\ R!LoaderFrame(R!ptov(frame)) = frame
    /\ R!LoaderFrame(16384) = NULL /\ R!LoaderFrame(R!ptov(16384)) = NULL
    /\ \A va \in {0, 1, 4095, 4096, 8191} : R!pg_round_up(va) - R!pg_round_down(va) \in {0, 4096}
                                            /\ (R!pg_no(va) * 4096) + R!pg_ofs(va) = va

(***************************************************************************)
(* Programs of up to three segments: sound ones, one that shares a page    *)
(* with another, one where the stack goes, one beyond the end of the file, *)
(* and every kind that is refused.                                         *)
(***************************************************************************)
Segment(vaddr, offset, filesz, memsz, writable) ==
    [type |-> "LOAD", vaddr |-> vaddr, offset |-> offset, filesz |-> filesz, memsz |-> memsz, writable |-> writable]
Good == {Segment(8, 8, 6, 10, FALSE), Segment(21, 13, 3, 3, TRUE), Segment(24, 0, 0, 9, TRUE), Segment(41, 1, 15, 19, FALSE)}
Refused == {Segment(0, 0, 4, 4, TRUE), Segment(8, 9, 4, 4, TRUE), Segment(8, 8, 4, 3, TRUE), Segment(8, 8, 0, 0, TRUE),
            Segment(60, 8, 4, 5, TRUE), Segment(60, 8, 0, 240, TRUE), Segment(64, 8, 4, 4, TRUE), Segment(8, 44, 1, 1, TRUE),
            Segment(8, 36, 8, 8, TRUE), [Segment(8, 8, 4, 4, TRUE) EXCEPT !.type = "INTERP"]}
Others == {Segment(16, 12, 2, 2, TRUE), Segment(56, 8, 3, 5, TRUE), [Segment(8, 8, 4, 4, TRUE) EXCEPT !.type = "NOTE"]}
Program(segments) ==
    [length |-> 40,
     ehdr |-> [ident |-> TRUE, type |-> 2, machine |-> 3, version |-> 1, phentsize |-> 2, phnum |-> Len(segments), phoff |-> 3],
     phdr |-> [ofs \in {1 + (2 * k) : k \in DOMAIN segments} |-> segments[(ofs - 1) \div 2]]]
Programs == {Program(<<g, h>>) : g \in Good, h \in Good \union Refused \union Others}
            \union {Program(<<h, g, k>>) : g \in Good, h \in Others, k \in Good}
            \union {[Program(<<>>) EXCEPT !.ehdr.machine = 4], [Program(<<Segment(8, 8, 6, 10, FALSE)>>) EXCEPT !.ehdr.phoff = 39], Program(<<>>)}

Started(program, budget) ==
    LET e == U!process_execute(Machine(budget), TRUE) IN U!start_process(e.mem, e.fn_copy, program, 8)
Loaded(program) == {program.phdr[ofs] : ofs \in {o \in DOMAIN program.phdr : program.phdr[o].type = "LOAD"}}
PagesOfSegment(seg) == U!pg_no(seg.vaddr)..U!pg_no(seg.vaddr + seg.memsz - 1)
Sound(program) ==
    /\ U!HeaderAccepted(program) /\ program.ehdr.phoff < 39
    /\ \A ofs \in DOMAIN program.phdr : program.phdr[ofs].type # "INTERP"
    /\ \A seg \in Loaded(program) : seg \notin Refused /\ 15 \notin PagesOfSegment(seg)
    /\ \A ofs1, ofs2 \in DOMAIN program.phdr :
          LET g == program.phdr[ofs1]  h == program.phdr[ofs2]
          IN ofs1 < ofs2 /\ {g, h} \subseteq Loaded(program) => PagesOfSegment(g) \cap PagesOfSegment(h) = {}

\* Whether the program is loaded, or given up anywhere for want of memory or for what is
\* wrong with it, the process leaves as many free pages as there were.
ASSUME MemoryReturned == \A program \in Programs \union {NULL}, budget \in {0, 1, 2, 3, 4, 5, 6, 8, 10, 16} :
    /\ budget > 0 => LET s == Started(program, budget)
                         left == U!process_exit(s.mem, s.pd)
                     IN left.free = Machine(budget).free /\ left.active = left.base /\ left.tables = Booted.tables
    /\ U!process_execute(Machine(budget), FALSE).mem.free = Machine(budget).free

\* A sound program is loaded when there is memory, and no other is; what is mapped is
\* its segments and its stack, each in frames of its own, with the bytes of the file
\* followed by zeros, and writable as the segment says.
ASSUME ProgramsLoaded == \A program \in Programs :
    LET s == Started(program, 16)
        segments == Loaded(program)
        wanted == UNION {PagesOfSegment(seg) : seg \in segments}
        FrameOf(vpage) == U!pagedir_get_page(s.mem, s.pd, vpage)
        ByteAt(va) == s.mem.bytes[FrameOf(U!pg_no(va))][U!pg_ofs(va)]
        Mapped == {vpage \in 0..15 : U!pagedir_get_page(s.mem, s.pd, vpage) # NULL}
    IN /\ s.ret <=> Sound(program)
       /\ s.ret =>
            /\ Mapped = wanted \union {15}
            /\ Cardinality({FrameOf(vpage) : vpage \in Mapped}) = Cardinality(Mapped)
            /\ \A vpage \in Mapped : FrameOf(vpage) \in 24..39 \ s.mem.free /\ U!Entry(s.mem, s.pd, vpage).U
            /\ U!Entry(s.mem, s.pd, 15).W
            /\ \A frame \in 0..(Ram - 1) : U!Entry(s.mem, s.pd, U!ptov(frame)).frame = frame
            /\ \A seg \in segments : \A k \in 0..(seg.memsz - 1) :
                  ByteAt(seg.vaddr + k) = (IF k < seg.filesz THEN seg.offset + k ELSE -1)
            /\ \A seg \in segments : \A vpage \in PagesOfSegment(seg) : U!Entry(s.mem, s.pd, vpage).W <=> seg.writable

\* The TLB is flushed whenever an entry of the active directory loses a flag it had, and
\* a page that is cleared is no longer found though its frame is kept in the entry.
ASSUME TlbFlushed ==
    LET s == Started(Program(<<Segment(8, 8, 6, 10, FALSE)>>), 16)
        dirty == U!pagedir_set_dirty(s.mem, s.pd, 2, TRUE)
        clean == U!pagedir_set_dirty(dirty.mem, s.pd, 2, FALSE)
        cleared == U!pagedir_clear_page(dirty.mem, s.pd, 2)
    IN /\ U!pagedir_is_dirty(dirty.mem, s.pd, 2) /\ ~U!pagedir_is_dirty(s.mem, s.pd, 2) /\ ~U!pagedir_is_accessed(dirty.mem, s.pd, 2)
       /\ clean.flush /\ ~U!pagedir_is_dirty(clean.mem, s.pd, 2)
       /\ ~U!pagedir_set_accessed(U!process_activate(s.mem, NULL, 0).mem, s.pd, 2, FALSE).flush
       /\ cleared.flush /\ U!pagedir_get_page(cleared.mem, s.pd, 2) = NULL
       /\ U!SetPageAsserts(cleared.mem, s.pd, 2, 39, Ram) /\ ~U!SetPageAsserts(s.mem, s.pd, 2, 39, Ram)

(***************************************************************************)
(* Descriptors: gdt.c makes the loader's two descriptors again, and those  *)
(* of the user differ in their privilege; exceptions; system calls.        *)
(***************************************************************************)
ASSUME DescriptorsRight ==
    LET table == U!gdt(<<49153, 4096>>)
        Dpl(desc) == (desc[3] \div 8192) % 4
        Selected(sel) == table[(sel \div 8) + 1]
    IN /\ SubSeq(table, 1, 3) = U!loader_gdt
       /\ Dpl(Selected(U!SEL_KCSEG)) = 0 /\ Dpl(Selected(U!SEL_UCSEG)) = 3 /\ Dpl(Selected(U!SEL_UDSEG)) = 3
       /\ Selected(U!SEL_TSS)[2] = 4096 /\ Selected(U!SEL_TSS)[3] % 256 = 1 /\ Selected(U!SEL_TSS)[4] \div 256 = 192
       /\ U!make_gdtr_operand(47, <<49153, 4096>>) = <<47, 4096, 49153, 0>>
ASSUME ExceptionsHandled ==
    /\ U!UserVectors \cap U!KernelVectors = {}
    /\ U!page_fault([cs |-> "SEL_UCSEG", error_code |-> 6]) =
           [not_present |-> TRUE, write |-> TRUE, user |-> TRUE, then |-> "thread_exit"]
    /\ U!page_fault([cs |-> "SEL_KCSEG", error_code |-> 1]).then = "PANIC"
    /\ U!process_wait(1) = -1 /\ U!syscall_handler = U!kill("SEL_UCSEG")
ASSUME CallsBalanced ==
    /\ \A call \in DOMAIN U!Arity :
          LET c == U!syscall(call, [k \in 1..U!Arity[call] |-> k])
          IN Len(c.stack) = c.popped /\ Head(c.stack) = call
    /\ \A n \in 0..9 : LET w == U!vhprintf([k \in 1..n |-> k], 4)
                         Joined[k \in 0..Len(w.writes)] == IF k = 0 THEN <<>> ELSE Joined[k - 1] \o w.writes[k]
                     IN Joined[Len(w.writes)] = [k \in 1..n |-> k] /\ \A k \in DOMAIN w.writes : Len(w.writes[k]) \in 1..4
=============================================================================
