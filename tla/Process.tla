------------------------------ MODULE Process ------------------------------
(***************************************************************************)
(* Virtual memory and user processes: threads/vaddr.h, threads/pte.h, the  *)
(* page tables of threads/loader.S and of paging_init(), and userprog's    *)
(* pagedir.c, process.c, exception.c, the descriptors of gdt.c and tss.c,  *)
(* and the C library of user programs.  A machine is the set of its free   *)
(* pages, the page directories and page tables in its memory by the page   *)
(* they are in, the active directory, base_page_dir and, of user pages,    *)
(* the contents: for each byte the offset in the file that it was read     *)
(* from, or ZERO.  A frame is a page of physical memory, and PHYS_BASE the *)
(* virtual page where they are mapped.                                     *)
(***************************************************************************)
EXTENDS Integers, Sequences, SequencesExt, FiniteSetsExt

CONSTANTS
    PGSIZE,      \* bytes of a page
    PTSPAN,      \* entries of a page table, and of a directory
    PHYS_BASE,
    NULL,
    ZERO, SIZEOF_EHDR, SIZEOF_PHDR

(***************************************************************************)
(* Addresses.                                                              *)
(***************************************************************************)
pg_ofs(va) == va % PGSIZE
pg_no(va) == va \div PGSIZE
pg_round_down(va) == va - (va % PGSIZE)
pg_round_up(va) == pg_round_down(va + PGSIZE - 1)
is_user_vaddr(va) == va < PHYS_BASE * PGSIZE
ptov(frame) == frame + PHYS_BASE
vtop(vpage) == vpage - PHYS_BASE
pt_no(vpage) == vpage % PTSPAN
pd_no(vpage) == vpage \div PTSPAN

(***************************************************************************)
(* Entries: a frame and its flags, and 0, which is not present.  Entries   *)
(* of a directory hold the page of a table.                                *)
(***************************************************************************)
NoEntry == [frame |-> 0, P |-> FALSE, W |-> FALSE, U |-> FALSE, A |-> FALSE, D |-> FALSE]
pde_create(pt) == [NoEntry EXCEPT !.frame = vtop(pt), !.P = TRUE, !.W = TRUE, !.U = TRUE]
pte_create_kernel(page, writable) == [NoEntry EXCEPT !.frame = vtop(page), !.P = TRUE, !.W = writable]
pte_create_user(page, writable) == [pte_create_kernel(page, writable) EXCEPT !.U = TRUE]
pte_get_page(pte) == ptov(pte.frame)

EmptyTable == [i \in 0..(PTSPAN - 1) |-> NoEntry]
NewTable(mem, page) == [mem EXCEPT !.free = @ \ {page}, !.tables = [p \in DOMAIN @ \union {page} |->
                                                        IF p = page THEN EmptyTable ELSE @[p]]]
FreePage(mem, page) == [mem EXCEPT !.free = @ \union {page}, !.tables = [p \in DOMAIN @ \ {page} |-> @[p]]]
Lowest(mem) == IF mem.free = {} THEN NULL ELSE Min(mem.free)

(***************************************************************************)
(* loader.S fills 16 tables with the first 64 MB, but 17 directory entries *)
(* at 0 and at PHYS_BASE.  The frame of a virtual page, or NULL where what *)
(* is beyond those tables decides.  Memory is what the BIOS tells, up to   *)
(* 64 MB.                                                                  *)
(***************************************************************************)
LoaderPdes == 17
LoaderTables == 16
LoaderFrame(vpage) ==
    LET mapped(first) == pd_no(vpage) \in first..(first + LoaderPdes - 1)
        frame == IF vpage < PHYS_BASE THEN vpage ELSE vtop(vpage)
    IN IF (mapped(0) \/ mapped(pd_no(PHYS_BASE))) /\ frame < LoaderTables * PTSPAN THEN frame ELSE NULL
RamPages(extended_kB) ==
    (IF extended_kB + 1024 <= 65536 THEN extended_kB + 1024 ELSE 65536) \div 4

(***************************************************************************)
(* paging_init(): all of the RAM at PHYS_BASE, the kernel's text read-only.*)
(***************************************************************************)
paging_init(free, ram_pages, text) ==
    LET base == Min(free)
        start == NewTable([free |-> free, tables |-> <<>>, active |-> base, base |-> base], base)
        Map(s, page) ==
            LET vpage == ptov(page)
                pt == IF s.mem.tables[base][pd_no(vpage)] = NoEntry THEN Lowest(s.mem) ELSE s.pt
                mem == IF pt = s.pt THEN s.mem
                       ELSE [NewTable(s.mem, pt) EXCEPT !.tables[base][pd_no(vpage)] = pde_create(pt)]
            IN [pt |-> pt, mem |-> [mem EXCEPT !.tables[pt][pt_no(vpage)] = pte_create_kernel(vpage, vpage \notin text)]]
    IN FoldLeft(Map, [pt |-> NULL, mem |-> start], [k \in 1..ram_pages |-> k - 1]).mem

(***************************************************************************)
(* pagedir.c.                                                              *)
(***************************************************************************)
pagedir_create(mem) ==
    LET pd == Lowest(mem)
    IN [mem |-> IF pd = NULL THEN mem ELSE [NewTable(mem, pd) EXCEPT !.tables[pd] = mem.tables[mem.base]], ret |-> pd]

UserTables(mem, pd) ==
    {pte_get_page(mem.tables[pd][i]) : i \in {j \in 0..(pd_no(PHYS_BASE) - 1) : mem.tables[pd][j].P}}
FramesOf(mem, pt) == {pte_get_page(mem.tables[pt][i]) : i \in {j \in DOMAIN mem.tables[pt] : mem.tables[pt][j].P}}
pagedir_destroy(mem, pd) ==
    IF pd = NULL THEN mem
    ELSE FoldSet(LAMBDA page, m : FreePage(m, page), mem,
                 {pd} \union UserTables(mem, pd) \union UNION {FramesOf(mem, pt) : pt \in UserTables(mem, pd)})

\* The table with the entry of a page, created if there is none and it should be.
lookup_page(mem, pd, vpage, create) ==
    LET pde == mem.tables[pd][pd_no(vpage)]
        new == Lowest(mem)
    IN IF pde # NoEntry THEN [mem |-> mem, pt |-> pte_get_page(pde)]
       ELSE IF ~create \/ new = NULL THEN [mem |-> mem, pt |-> NULL]
       ELSE [mem |-> [NewTable(mem, new) EXCEPT !.tables[pd][pd_no(vpage)] = pde_create(new)], pt |-> new]

\* The entry of a page, or NULL if there is no table with it.
Entry(mem, pd, vpage) ==
    LET pt == lookup_page(mem, pd, vpage, FALSE).pt IN IF pt = NULL THEN NULL ELSE mem.tables[pt][pt_no(vpage)]

\* What pagedir_set_page() asserts, its lookup and the entry it makes.
SetPageAsserts(mem, pd, upage, kpage, ram_pages) ==
    /\ upage < PHYS_BASE /\ vtop(kpage) < ram_pages /\ pd # mem.base
    /\ Entry(mem, pd, upage) # NULL => ~Entry(mem, pd, upage).P
pagedir_set_page(mem, pd, upage, kpage, writable) ==
    LET l == lookup_page(mem, pd, upage, TRUE)
    IN IF l.pt = NULL THEN [mem |-> l.mem, ret |-> FALSE]
       ELSE [mem |-> [l.mem EXCEPT !.tables[l.pt][pt_no(upage)] = pte_create_user(kpage, writable)], ret |-> TRUE]

pagedir_get_page(mem, pd, upage) ==
    LET pte == Entry(mem, pd, upage) IN IF pte # NULL /\ pte.P THEN pte_get_page(pte) ELSE NULL

\* Changes of a flag, and whether the TLB has to be, and is, invalidated.
SetFlag(mem, pd, vpage, flag, value) ==
    LET pt == lookup_page(mem, pd, vpage, FALSE).pt
    IN IF pt = NULL THEN mem ELSE [mem EXCEPT !.tables[pt][pt_no(vpage)] = [@ EXCEPT ![flag] = value]]
invalidate_pagedir(mem, pd) == mem.active = pd
pagedir_clear_page(mem, pd, upage) ==
    IF pagedir_get_page(mem, pd, upage) = NULL THEN [mem |-> mem, flush |-> FALSE]
    ELSE [mem |-> SetFlag(mem, pd, upage, "P", FALSE), flush |-> invalidate_pagedir(mem, pd)]
pagedir_is_dirty(mem, pd, vpage) == Entry(mem, pd, vpage) # NULL /\ Entry(mem, pd, vpage).D
pagedir_is_accessed(mem, pd, vpage) == Entry(mem, pd, vpage) # NULL /\ Entry(mem, pd, vpage).A
MarkPage(mem, pd, vpage, flag, value) ==
    [mem |-> SetFlag(mem, pd, vpage, flag, value),
     flush |-> Entry(mem, pd, vpage) # NULL /\ ~value /\ invalidate_pagedir(mem, pd)]
pagedir_set_dirty(mem, pd, vpage, dirty) == MarkPage(mem, pd, vpage, "D", dirty)
pagedir_set_accessed(mem, pd, vpage, accessed) == MarkPage(mem, pd, vpage, "A", accessed)
pagedir_activate(mem, pd) == [mem EXCEPT !.active = IF pd = NULL THEN mem.base ELSE pd]

-----------------------------------------------------------------------------
PT_LOAD == "LOAD"
Ignored == {"NULL", "NOTE", "PHDR", "STACK", "other"}       \* and DYNAMIC, INTERP, SHLIB are refused

(***************************************************************************)
(* process_execute() and what becomes of its copy of the name; the thread  *)
(* may not be created.                                                     *)
(***************************************************************************)
process_execute(mem, created) ==
    LET fn_copy == Lowest(mem)
        copied == [mem EXCEPT !.free = @ \ {fn_copy}]
    IN IF fn_copy = NULL THEN [mem |-> mem, fn_copy |-> NULL, ret |-> "TID_ERROR"]
       ELSE IF ~created THEN [mem |-> FreePage(copied, fn_copy), fn_copy |-> NULL, ret |-> "TID_ERROR"]
       ELSE [mem |-> copied, fn_copy |-> fn_copy, ret |-> "tid"]
process_wait(child_tid) == -1

\* A file is its length, its header and the program headers by their offset.
HeaderAccepted(file) ==
    /\ file.length >= SIZEOF_EHDR
    /\ file.ehdr.ident /\ file.ehdr.type = 2 /\ file.ehdr.machine = 3 /\ file.ehdr.version = 1
    /\ file.ehdr.phentsize = SIZEOF_PHDR
    /\ file.ehdr.phnum <= 1024

\* Addresses are words of w bits, and w is large enough for PHYS_BASE.
validate_segment(phdr, file, w) ==
    LET end == (phdr.vaddr + phdr.memsz) % 2^w
    IN /\ pg_ofs(phdr.offset) = pg_ofs(phdr.vaddr)
       /\ phdr.offset <= file.length
       /\ phdr.memsz >= phdr.filesz
       /\ phdr.memsz # 0
       /\ is_user_vaddr(phdr.vaddr) /\ is_user_vaddr(end)
       /\ end >= phdr.vaddr
       /\ phdr.vaddr >= PGSIZE

install_page(mem, pd, upage, kpage, writable) ==
    IF pagedir_get_page(mem, pd, upage) # NULL THEN [mem |-> mem, ret |-> FALSE]
    ELSE pagedir_set_page(mem, pd, upage, kpage, writable)

\* A page for the user with its bytes; freed again if it cannot be installed.
GetAndInstall(mem, pd, upage, bytes, writable) ==
    LET kpage == Lowest(mem)
        got == [mem EXCEPT !.free = @ \ {kpage}, !.bytes = [p \in DOMAIN @ \union {kpage} |-> IF p = kpage THEN bytes ELSE @[p]]]
        done == install_page(got, pd, upage, kpage, writable)
    IN IF kpage = NULL THEN [mem |-> mem, ret |-> FALSE]
       ELSE IF ~done.ret THEN [mem |-> FreePage(done.mem, kpage), ret |-> FALSE]
       ELSE done

\* load_segment(): page after page, read from the file as far as read_bytes go.
load_segment(mem, pd, file, ofs, upage, read_bytes, zero_bytes, writable) ==
    LET Page(s, k) ==
            LET left == read_bytes - (k * PGSIZE)
                page_read_bytes == IF left < 0 THEN 0 ELSE IF left < PGSIZE THEN left ELSE PGSIZE
                from == ofs + (k * PGSIZE)
                bytes == [b \in 0..(PGSIZE - 1) |-> IF b < page_read_bytes THEN from + b ELSE ZERO]
            IN IF ~s.ret \/ (page_read_bytes > 0 /\ from + page_read_bytes > file.length) THEN [s EXCEPT !.ret = FALSE]
               ELSE GetAndInstall(s.mem, pd, upage + k, bytes, writable)
    IN FoldLeft(Page, [mem |-> mem, ret |-> TRUE], [k \in 1..((read_bytes + zero_bytes) \div PGSIZE) |-> k - 1])

LoadHeader(mem, pd, file, phdr, w) ==
    LET page_offset == pg_ofs(phdr.vaddr)
        total == pg_round_up(page_offset + phdr.memsz)
        read_bytes == IF phdr.filesz > 0 THEN page_offset + phdr.filesz ELSE 0
    IN IF phdr.type \in Ignored THEN [mem |-> mem, ret |-> TRUE]
       ELSE IF phdr.type # PT_LOAD \/ ~validate_segment(phdr, file, w) THEN [mem |-> mem, ret |-> FALSE]
       ELSE load_segment(mem, pd, file, pg_round_down(phdr.offset), pg_no(phdr.vaddr), read_bytes, total - read_bytes, phdr.writable)

setup_stack(mem, pd) ==
    GetAndInstall(mem, pd, PHYS_BASE - 1, [b \in 0..(PGSIZE - 1) |-> ZERO], TRUE)

\* load(): the thread's directory, the file, its headers one after the other, and the
\* stack.  The directory stays the thread's when it fails.
load(mem, file, w) ==
    LET created == pagedir_create(mem)  pd == created.ret
        Header(s, i) ==
            LET file_ofs == file.ehdr.phoff + ((i - 1) * SIZEOF_PHDR)
            IN IF ~s.ret \/ file_ofs \notin 0..(file.length - SIZEOF_PHDR) THEN [s EXCEPT !.ret = FALSE]
               ELSE LoadHeader(s.mem, pd, file, file.phdr[file_ofs], w)
        headers == FoldLeft(Header, [mem |-> pagedir_activate(created.mem, pd), ret |-> TRUE], [i \in 1..file.ehdr.phnum |-> i])
        stack == setup_stack(headers.mem, pd)
    IN IF pd = NULL THEN [mem |-> mem, pd |-> NULL, ret |-> FALSE]
       ELSE IF file = NULL \/ ~HeaderAccepted(file)
       THEN [mem |-> pagedir_activate(created.mem, pd), pd |-> pd, ret |-> FALSE]
       ELSE IF ~headers.ret THEN [mem |-> headers.mem, pd |-> pd, ret |-> FALSE]
       ELSE [mem |-> stack.mem, pd |-> pd, ret |-> stack.ret]

\* The copy of the name is freed whether load() succeeds or not.
start_process(mem, fn_copy, file, w) ==
    LET l == load(mem, file, w) IN [l EXCEPT !.mem = FreePage(@, fn_copy)]

process_exit(mem, pd) == IF pd = NULL THEN mem ELSE pagedir_destroy(pagedir_activate(mem, NULL), pd)
process_activate(mem, pd, thread) ==
    [mem |-> pagedir_activate(mem, pd), tss |-> [esp0 |-> thread + 1]]     \* tss_update()

(***************************************************************************)
(* Exceptions: what a user program may raise by an INT, what kills it, and *)
(* what a page fault was about.                                            *)
(***************************************************************************)
UserVectors == {3, 4, 5, 48}                    \* DPL 3; 48 is the system call
KernelVectors == {0, 1, 6, 7, 11, 12, 13, 16, 19}
kill(cs) == CASE cs = "SEL_KCSEG" -> "PANIC" [] OTHER -> "thread_exit"
page_fault(f) ==
    [not_present |-> f.error_code % 2 = 0, write |-> (f.error_code \div 2) % 2 = 1, user |-> (f.error_code \div 4) % 2 = 1,
     then |-> kill(f.cs)]
syscall_handler == "thread_exit"

(***************************************************************************)
(* Segment descriptors, in words of 16 bits, least significant first; a    *)
(* base is such a pair, high first.                                        *)
(***************************************************************************)
make_seg_desc(base, limit, class, type, dpl, granularity) ==
    <<limit % 2^16, base[2],
      (base[1] % 2^8) + (type * 2^8) + (class * 2^12) + (dpl * 2^13) + 2^15,
      (limit \div 2^16) + 2^6 + (granularity * 2^7) + ((base[1] \div 2^8) * 2^8)>>
make_code_desc(dpl) == make_seg_desc(<<0, 0>>, 2^20 - 1, 1, 10, dpl, 1)
make_data_desc(dpl) == make_seg_desc(<<0, 0>>, 2^20 - 1, 1, 2, dpl, 1)
make_tss_desc(laddr) == make_seg_desc(laddr, 103, 0, 9, 0, 0)
make_gdtr_operand(limit, base) == <<limit, base[2], base[1], 0>>
gdt(tss) == <<<<0, 0, 0, 0>>, make_code_desc(0), make_data_desc(0), make_code_desc(3), make_data_desc(3), make_tss_desc(tss)>>
SEL_KCSEG == 8
SEL_UCSEG == 27
SEL_UDSEG == 35
SEL_TSS == 40
loader_gdt == <<<<0, 0, 0, 0>>, <<65535, 0, 39424, 207>>, <<65535, 0, 37376, 207>>>>

(***************************************************************************)
(* lib/user: a system call pushes its number last; printf() of a user      *)
(* program writes at most size characters at a time.                       *)
(***************************************************************************)
Arity == [SYS_HALT |-> 0, SYS_EXIT |-> 1, SYS_EXEC |-> 1, SYS_WAIT |-> 1, SYS_CREATE |-> 2, SYS_REMOVE |-> 1, SYS_OPEN |-> 1,
          SYS_FILESIZE |-> 1, SYS_READ |-> 3, SYS_WRITE |-> 3, SYS_SEEK |-> 2, SYS_TELL |-> 1, SYS_CLOSE |-> 1, SYS_MMAP |-> 2,
          SYS_MUNMAP |-> 1, SYS_CHDIR |-> 1, SYS_MKDIR |-> 1, SYS_READDIR |-> 2, SYS_ISDIR |-> 1, SYS_INUMBER |-> 1]
syscall(number, args) == [stack |-> <<number>> \o args, popped |-> Len(args) + 1]
vhprintf(text, size) ==
    LET Full == Len(text) \div size
        Piece(k) == SubSeq(text, ((k - 1) * size) + 1, IF k * size < Len(text) THEN k * size ELSE Len(text))
    IN [writes |-> [k \in 1..(Full + (IF Len(text) % size = 0 THEN 0 ELSE 1)) |-> Piece(k)], char_cnt |-> Len(text)]
=============================================================================
