------------------------------ MODULE Machine -------------------------------
(***************************************************************************)
(* What the drivers compute: devices/kbd.c, devices/vga.c, the detection   *)
(* of disks in devices/disk.c, the tables of threads/interrupt.c and the   *)
(* stack of threads/intr-stubs.S.  Characters are their codes.             *)
(*                                                                         *)
(* From power on to power off: threads/loader.S, threads/init.c, the first *)
(* switch to a thread (threads/switch.S) and the panic of                  *)
(* lib/kernel/debug.c.  A build is the set of the options it was compiled  *)
(* with.                                                                   *)
(***************************************************************************)
EXTENDS Integers, Sequences, SequencesExt, FiniteSetsExt, FiniteSets

CONSTANTS
    COL_CNT, ROW_CNT,   \* of the screen
    LOADER_ARGS_LEN,    \* bytes of the loader's sector for the command line
    KERNEL_SECTORS,     \* that are loaded, 8 * KERNEL_LOAD_PAGES
    PULSES, POLLS,      \* the loops of reboot()
    NULL

(***************************************************************************)
(* The keyboard: its shift keys, Caps Lock and the count of keys.          *)
(***************************************************************************)
From(first, chars) == [first_scancode |-> first, chars |-> chars]
invariant_keymap ==
    <<From(1, <<27>>), From(14, <<8>>), From(15, <<9, 81, 87, 69, 82, 84, 89, 85, 73, 79, 80>>), From(28, <<13>>),
      From(30, <<65, 83, 68, 70, 71, 72, 74, 75, 76>>), From(44, <<90, 88, 67, 86, 66, 78, 77>>), From(55, <<42>>),
      From(57, <<32>>), From(83, <<127>>)>>
unshifted_keymap ==
    <<From(2, <<49, 50, 51, 52, 53, 54, 55, 56, 57, 48, 45, 61>>), From(26, <<91, 93>>), From(39, <<59, 39, 96>>),
      From(43, <<92>>), From(51, <<44, 46, 47>>)>>
shifted_keymap ==
    <<From(2, <<33, 64, 35, 36, 37, 94, 38, 42, 40, 41, 95, 43>>), From(26, <<123, 125>>), From(39, <<58, 34, 126>>),
      From(43, <<124>>), From(51, <<60, 62, 63>>)>>
Entries(keymap, code) == {i \in DOMAIN keymap : code - keymap[i].first_scancode \in 0..(Len(keymap[i].chars) - 1)}
map_key(keymap, code) ==
    IF Entries(keymap, code) = {} THEN NULL
    ELSE LET k == keymap[Min(Entries(keymap, code))] IN k.chars[code - k.first_scancode + 1]

ShiftKey == [left_shift |-> 42, right_shift |-> 54, left_alt |-> 56, right_alt |-> 57400, left_ctrl |-> 29, right_ctrl |-> 57373]
kbd_init == [down |-> [k \in DOMAIN ShiftKey |-> FALSE], caps_lock |-> FALSE, key_cnt |-> 0]
tolower(c) == IF c \in 65..90 THEN c + 32 ELSE c

\* The bytes of a scan code, and whether the buffer of keys is full.  What is put in it,
\* if anything, and whether the machine is rebooted.
keyboard_interrupt(s, bytes, full) ==
    LET raw == IF bytes[1] = 224 THEN (224 * 256) + bytes[2] ELSE bytes[1]
        release == (raw \div 128) % 2 = 1
        code == IF release THEN raw - 128 ELSE raw
        shift == s.down.left_shift \/ s.down.right_shift
        alt == s.down.left_alt \/ s.down.right_alt
        ctrl == s.down.left_ctrl \/ s.down.right_ctrl
        mapped == map_key(invariant_keymap \o (IF shift THEN shifted_keymap ELSE unshifted_keymap), code)
        plain == IF ctrl /\ mapped \in 64..95 THEN mapped - 64 ELSE IF shift = s.caps_lock THEN tolower(mapped) ELSE mapped
        c == IF alt THEN plain + 128 ELSE plain
        Result(state, put, reboot) == [state |-> state, put |-> put, reboot |-> reboot]
    IN IF code = 58 THEN Result([s EXCEPT !.caps_lock = IF release THEN @ ELSE ~@], <<>>, FALSE)
       ELSE IF mapped # NULL
       THEN IF release THEN Result(s, <<>>, FALSE)
            ELSE Result(IF full THEN s ELSE [s EXCEPT !.key_cnt = @ + 1], IF full THEN <<>> ELSE <<c>>, mapped = 127 /\ ctrl /\ alt)
       ELSE Result([s EXCEPT !.down = [k \in DOMAIN @ |-> IF ShiftKey[k] = code THEN ~release ELSE @[k]]], <<>>, FALSE)

(***************************************************************************)
(* The screen: what is shown and the cursor, here and in the hardware.     *)
(***************************************************************************)
BLANK == 32
Row == [x \in 0..(COL_CNT - 1) |-> BLANK]
clear_row(screen, y) == [screen EXCEPT !.fb[y] = Row]
cls(screen) == [screen EXCEPT !.fb = [y \in 0..(ROW_CNT - 1) |-> Row], !.cx = 0, !.cy = 0]
newline(screen) ==
    IF screen.cy + 1 < ROW_CNT THEN [screen EXCEPT !.cx = 0, !.cy = @ + 1]
    ELSE clear_row([screen EXCEPT !.cx = 0, !.cy = ROW_CNT - 1,
                                  !.fb = [y \in DOMAIN @ |-> IF y + 1 < ROW_CNT THEN @[y + 1] ELSE @[y]]], ROW_CNT - 1)
\* Two commands of 16 bits: the register in the low byte, its value in the high one.
move_cursor(screen) ==
    LET cp == (screen.cx + (COL_CNT * screen.cy)) % 65536
    IN [screen EXCEPT !.crtc = [e |-> cp \div 256, f |-> cp % 256]]
find_cursor(screen) ==
    LET cp == (screen.crtc.e * 256) + screen.crtc.f IN [screen EXCEPT !.cx = cp % COL_CNT, !.cy = cp \div COL_CNT]
Tabbed(cx) == (((cx + 1) + 7) \div 8) * 8
Wrapped(screen) == IF screen.cx >= COL_CNT THEN newline(screen) ELSE screen
vga_putc(screen, c) ==
    move_cursor(
        CASE c = 10 -> newline(screen)
          [] c = 12 -> cls(screen)
          [] c = 8 -> [screen EXCEPT !.cx = IF @ > 0 THEN @ - 1 ELSE 0]
          [] c = 13 -> [screen EXCEPT !.cx = 0]
          [] c = 9 -> Wrapped([screen EXCEPT !.cx = Tabbed(@)])
          [] OTHER -> Wrapped([screen EXCEPT !.fb[screen.cy][screen.cx] = c, !.cx = @ + 1]))

(***************************************************************************)
(* Detection of disks.  What the registers of a device say after a reset.  *)
(***************************************************************************)
Bit(byte, n) == (byte \div 2^n) % 2 = 1
BSY == 7
DRDY == 6
DRQ == 3

\* Polls of a status that changes with time: how many, and what is returned.
wait_until_idle(status) ==
    LET idle == {i \in 0..999 : ~Bit(status[i], BSY) /\ ~Bit(status[i], DRQ)}
    IN IF idle = {} THEN [slept_us |-> 10000, timeout |-> TRUE] ELSE [slept_us |-> 10 * Min(idle), timeout |-> FALSE]
wait_while_busy(status) ==
    LET free == {i \in 0..2999 : ~Bit(status[i], BSY)}
    IN IF free = {} THEN [slept_ms |-> 30000, ret |-> FALSE] ELSE [slept_ms |-> 10 * Min(free), ret |-> Bit(status[Min(free)], DRQ)]

\* reset_channel(): a device that keeps two values written to it is there, and has to be
\* ready before the next step; what is read where there is none `floats'.
Probe(device) == IF device.exists THEN <<85, 170>> ELSE <<device.floats, device.floats>>
reset_channel(devices) == [d \in DOMAIN devices |-> Probe(devices[d]) = <<85, 170>>]

check_device_type(regs, dev_no) ==
    IF (regs.error # 1 /\ (regs.error # 129 \/ dev_no = 1)) \/ ~Bit(regs.status, DRDY) \/ Bit(regs.status, BSY)
    THEN [is_ata |-> FALSE, ret |-> regs.error # 129]
    ELSE [is_ata |-> <<regs.lbam, regs.lbah>> \in {<<0, 0>>, <<60, 195>>}, ret |-> TRUE]
\* The capacity is two words of 16 bits, low first.
identify_ata_device(regs) ==
    [is_ata |-> regs.answers, capacity |-> IF regs.answers THEN <<regs.id[60], regs.id[61]>> ELSE <<0, 0>>]
\* A channel of disk_init(), device 0 and 1.
DetectedDisks(devices) ==
    LET master == check_device_type(devices[0], 0)
        Ata(d) == IF d = 0 THEN master.is_ata ELSE master.ret /\ check_device_type(devices[1], 1).is_ata
    IN [d \in {0, 1} |-> IF Ata(d) THEN identify_ata_device(devices[d]) ELSE [is_ata |-> FALSE, capacity |-> <<0, 0>>]]
disk_init == [c \in {0, 1} |-> [reg_base |-> <<496, 368>>[c + 1], irq |-> <<46, 47>>[c + 1]]]
disk_get(channels, chan_no, dev_no) ==
    IF chan_no < 2 /\ channels[chan_no][dev_no].is_ata THEN channels[chan_no][dev_no] ELSE NULL

\* Pairs of bytes are swapped, and white space and nulls at the end left out.
Unswapped(string, i) == string[IF i % 2 = 1 THEN i + 1 ELSE i - 1]
print_ata_string(string) ==
    LET size == Max({0} \union {i \in DOMAIN string : Unswapped(string, i) \notin {0} \union (9..13) \union {32}})
    IN [i \in 1..size |-> Unswapped(string, i)]

\* The registers with the number of a sector, of 28 bits.
select_device(dev_no) == 160 + (IF dev_no = 1 THEN 16 ELSE 0)
select_sector(dev_no, sec_no) ==
    [nsect |-> 1, lbal |-> sec_no % 256, lbam |-> (sec_no \div 256) % 256, lbah |-> (sec_no \div 65536) % 256,
     device |-> select_device(dev_no) + 64 + (sec_no \div 16777216)]

(***************************************************************************)
(* Interrupts: gates, in words of 16 bits, the programming of the PICs and *)
(* what is done around a handler.                                          *)
(***************************************************************************)
make_gate(function, dpl, type) == <<function[2], 8, 2^15 + (dpl * 2^13) + (type * 2^8), function[1]>>
make_intr_gate(function, dpl) == make_gate(function, dpl, 14)
make_trap_gate(function, dpl) == make_gate(function, dpl, 15)
make_idtr_operand(limit, base) == <<limit, base[2], base[1], 0>>
intr_init(stub) ==
    [idt |-> [v \in 0..255 |-> make_intr_gate(stub[v], 0)], handler |-> [v \in 0..255 |-> NULL]]
register_handler(t, stub, vec_no, dpl, level, handler) ==
    [t EXCEPT !.idt[vec_no] = IF level = "INTR_ON" THEN make_trap_gate(stub[vec_no], dpl) ELSE make_intr_gate(stub[vec_no], dpl),
              !.handler[vec_no] = handler]
RegisterExtAsserts(t, vec_no) == vec_no \in 32..47 /\ t.handler[vec_no] = NULL
RegisterIntAsserts(t, vec_no) == vec_no \notin 32..47 /\ t.handler[vec_no] = NULL

\* The writes of pic_init(), and the vector it makes of a request line.
pic_init ==
    <<<<"PIC0_DATA", 255>>, <<"PIC1_DATA", 255>>,
      <<"PIC0_CTRL", 17>>, <<"PIC0_DATA", 32>>, <<"PIC0_DATA", 4>>, <<"PIC0_DATA", 1>>,
      <<"PIC1_CTRL", 17>>, <<"PIC1_DATA", 40>>, <<"PIC1_DATA", 2>>, <<"PIC1_DATA", 1>>,
      <<"PIC0_DATA", 0>>, <<"PIC1_DATA", 0>>>>
pic_end_of_interrupt(irq) == <<"PIC0_CTRL">> \o (IF irq >= 40 THEN <<"PIC1_CTRL">> ELSE <<>>)
intr_handler(t, vec_no, wants_yield) ==
    LET external == vec_no \in 32..47
        found == t.handler[vec_no] # NULL
    IN IF ~found /\ vec_no \notin {39, 47} THEN [does |-> "PANIC", acknowledges |-> <<>>, yields |-> FALSE]
       ELSE [does |-> IF found THEN t.handler[vec_no] ELSE "nothing",
             acknowledges |-> IF external THEN pic_end_of_interrupt(vec_no) ELSE <<>>,
             yields |-> external /\ found /\ wants_yield]

(***************************************************************************)
(* The stack when intr_handler() is called, the lowest address first: what *)
(* the processor pushed, the stub, and intr_entry.                         *)
(***************************************************************************)
REAL == {8, 10, 11, 13, 14, 17, 24, 26, 27, 29, 30}
Stub(vec_no, stack) ==
    <<"vec_no">> \o (IF vec_no \in REAL THEN <<Head(stack), "ebp">> \o Tail(stack) ELSE <<"zero", "ebp">> \o stack)
pushal == <<"edi", "esi", "ebp", "esp", "ebx", "edx", "ecx", "eax">>
intr_entry(stack) == pushal \o <<"gs", "fs", "es", "ds">> \o stack
intr_frame == pushal \o <<"gs", "fs", "es", "ds", "vec_no", "error_code", "frame_pointer", "eip", "cs", "eflags">>
\* The registers that are popped, and what IRET takes: the instruction pointer, the
\* segment and the flags.
intr_exit(stack) == [popped |-> SubSeq(stack, 1, 12), iret |-> SubSeq(stack, 16, 18)]

-----------------------------------------------------------------------------
When(condition, sequence) == IF condition THEN sequence ELSE <<>>

(***************************************************************************)
(* The loader: the A20 line, the size of memory, protected mode and then   *)
(* the kernel, read sector by sector.                                      *)
(***************************************************************************)
EnableA20 == <<<<"0x64", 209>>, <<"0x60", 223>>>>
LoaderCr0(cr0) == cr0 \union {"PE", "PG", "WP", "EM"}
\* What is written to the ports 0x1f2 ... 0x1f6 for a sector, and 0x1f7.
SectorRegisters(sector) ==
    [nsect |-> 1, lbal |-> sector % 256, lbam |-> (sector \div 256) % 256, lbah |-> (sector \div 65536) % 256,
     device |-> 224 + ((sector \div 16777216) % 16), command |-> 32]
\* The sector a drive takes these registers for.
Addressed(r) == r.lbal + (r.lbam * 256) + (r.lbah * 65536) + ((r.device % 16) * 16777216)
LoadKernel(disk) == [i \in 1..KERNEL_SECTORS |-> disk[Addressed(SectorRegisters(i))]]
loader(cr0, bios_carry, disk) ==
    IF bios_carry THEN [shows |-> "Panic!", runs |-> <<>>, cr0 |-> cr0]
    ELSE [shows |-> "", runs |-> LoadKernel(disk), cr0 |-> LoaderCr0(cr0)]

(***************************************************************************)
(* main().                                                                 *)
(***************************************************************************)
ram_init(memory, bss, loader_pages) ==
    [memory |-> [a \in DOMAIN memory |-> IF a \in bss THEN 0 ELSE memory[a]], ram_pages |-> loader_pages]

\* Words end with a zero, the last perhaps with the room for them.
read_command_line(bytes, argc) ==
    LET Length(p) == Min({i \in 0..(LOADER_ARGS_LEN - p) : p + i = LOADER_ARGS_LEN \/ bytes[p + i + 1] = 0})
        Words[i \in 0..argc] ==
            IF i = 0 THEN [p |-> 0, argv |-> <<>>, panics |-> FALSE]
            ELSE LET r == Words[i - 1] IN
                 IF r.panics \/ r.p >= LOADER_ARGS_LEN THEN [r EXCEPT !.panics = TRUE]
                 ELSE [r EXCEPT !.argv = Append(@, SubSeq(bytes, r.p + 1, r.p + Length(r.p))), !.p = @ + Length(@) + 1]
    IN Words[argc]
argv_size == (LOADER_ARGS_LEN \div 2) + 1

\* A word of the command line is [option, name, value], with the value NULL where there
\* is no `='.  atoi(NULL) does not hold an assertion.
no_options == [power_off_when_done |-> FALSE, reboot_when_done |-> FALSE, format_filesys |-> FALSE,
               thread_mlfqs |-> FALSE, user_page_limit |-> NULL, seed |-> NULL, end |-> "returns"]
Options(build) == {"-h", "-q", "-r", "-rs", "-mlfqs"} \union (IF "FILESYS" \in build THEN {"-f"} ELSE {})
                                                      \union (IF "USERPROG" \in build THEN {"-ul"} ELSE {})
parse_option(build, s, word) ==
    CASE s.end # "returns" -> s
      [] word.name \notin Options(build) -> [s EXCEPT !.end = "PANIC"]
      [] word.name = "-h" -> [s EXCEPT !.end = "power_off"]
      [] word.name = "-q" -> [s EXCEPT !.power_off_when_done = TRUE]
      [] word.name = "-r" -> [s EXCEPT !.reboot_when_done = TRUE]
      [] word.name = "-f" -> [s EXCEPT !.format_filesys = TRUE]
      [] word.name = "-mlfqs" -> [s EXCEPT !.thread_mlfqs = TRUE]
      [] word.name \in {"-rs", "-ul"} /\ word.value = NULL -> [s EXCEPT !.end = "PANIC"]
      [] word.name = "-rs" -> [s EXCEPT !.seed = word.value]
      [] word.name = "-ul" -> [s EXCEPT !.user_page_limit = word.value]
OptionWords(argv) == Max({n \in 0..Len(argv) : \A i \in 1..n : argv[i].option})
parse_options(build, argv, rtc_time) ==
    LET n == OptionWords(argv)
        s == FoldLeft(LAMBDA r, word : parse_option(build, r, word), no_options, SubSeq(argv, 1, n))
    IN [state |-> IF s.end = "returns" THEN [s EXCEPT !.seed = rtc_time] ELSE s, argv |-> SubSeq(argv, n + 1, Len(argv))]

run_task(argv) == <<[does |-> "process_execute", arg |-> argv[2].name], [does |-> "process_wait", arg |-> argv[2].name]>>
actions(build) ==
    [name \in {"run"} \union (IF "FILESYS" \in build THEN {"ls", "cat", "rm", "extract", "append"} ELSE {}) |->
        CASE name \in {"run", "cat", "rm", "append"} -> 2 [] OTHER -> 1]
\* What is done, in order, and whether main() goes on.
run_actions(build, argv) ==
    LET Known(i) == argv[i].name \in DOMAIN actions(build)
        Enough(i) == i + actions(build)[argv[i].name] - 1 <= Len(argv)
        Does(i) == IF argv[i].name = "run" THEN run_task(SubSeq(argv, i, i + 1))
                   ELSE <<[does |-> argv[i].name, arg |-> IF actions(build)[argv[i].name] = 2 THEN argv[i + 1].name ELSE NULL]>>
        RunFrom[i \in 1..(Len(argv) + 1)] ==
            IF i > Len(argv) THEN [done |-> <<>>, end |-> "returns"]
            ELSE IF ~Known(i) THEN [done |-> <<>>, end |-> "PANIC"]
            ELSE IF ~Enough(i) THEN [done |-> <<>>, end |-> "PANIC"]
            ELSE LET rest == RunFrom[i + actions(build)[argv[i].name]] IN [rest EXCEPT !.done = Does(i) \o @]
    IN RunFrom[1]

\* The names usage() tells of.
usage(build) ==
    [actions |-> {"run"} \union (IF "FILESYS" \in build THEN {"ls", "cat", "rm", "extract", "append"} ELSE {}),
     options |-> {"-h", "-q", "-r", "-f", "-rs", "-mlfqs"} \union (IF "USERPROG" \in build THEN {"-ul"} ELSE {}),
     end |-> "power_off"]

print_stats(build) ==
    <<"timer", "thread">> \o When("FILESYS" \in build, <<"disk">>) \o <<"console", "kbd">> \o When("USERPROG" \in build, <<"exception">>)
power_off(build) ==
    When("FILESYS" \in build, <<"filesys_done">>) \o <<"print_stats", "serial_flush", "Shutdown", "cli; hlt">>

\* busy[i]: how often the keyboard controller would say it is busy before pulse i.
reboot(busy) ==
    [pulses |-> PULSES, slept_us |-> FoldLeft(LAMBDA n, i : n + (2 * Min({busy[i], POLLS})) + 100, 0, [i \in 1..PULSES |-> i])]

main(build, options) ==
    <<"ram_init", "read_command_line", "parse_options", "thread_init", "console_init", "palloc_init", "malloc_init", "paging_init">>
    \o When("USERPROG" \in build, <<"tss_init", "gdt_init">>)
    \o <<"intr_init", "timer_init", "kbd_init", "input_init">>
    \o When("USERPROG" \in build, <<"exception_init", "syscall_init">>)
    \o <<"thread_start", "serial_init_queue", "timer_calibrate">>
    \o When("FILESYS" \in build, <<"disk_init", "filesys_init">>)
    \o <<"run_actions">>
    \o When(options.reboot_when_done, <<"reboot">>)
    \o When(options.power_off_when_done, <<"power_off">>)
    \o <<"thread_exit">>

(***************************************************************************)
(* debug_panic(): what is shown for each level of its recursion, down to a *)
(* depth.  Failing are the steps of power_off() that panic again.          *)
(***************************************************************************)
PanicShows(level) == CASE level = 1 -> <<"Kernel PANIC", "Call stack">> [] level = 2 -> <<"Kernel PANIC recursion">> [] OTHER -> <<>>
debug_panic(build, power_off_when_done, failing, depth) ==
    LET steps == power_off(build)
        fails == {i \in 1..Len(steps) : steps[i] \in failing}
        Level[n \in 1..depth] ==
            LET shown == PanicShows(n) \o <<"serial_flush">> IN
            IF ~power_off_when_done THEN [shown |-> shown, end |-> "spins"]
            ELSE IF fails = {} THEN [shown |-> shown \o steps, end |-> "off"]
            ELSE LET first == SubSeq(steps, 1, Min(fails) - 1) IN
                 IF n = depth THEN [shown |-> shown \o first, end |-> "panics again"]
                 ELSE [Level[n + 1] EXCEPT !.shown = shown \o first \o @]
    IN Level[1]

\* The return addresses of nested calls: frame pointers are followed through memory.
FrameChain(memory, frame, lowest) ==
    LET Chain[n \in 0..Cardinality(DOMAIN memory), f \in Nat] ==
            IF n = 0 \/ f < lowest \/ f = 0 THEN <<>>
            ELSE IF memory[f] = 0 THEN <<>> ELSE <<memory[f + 4]>> \o Chain[n - 1, memory[f]]
    IN Chain[Cardinality(DOMAIN memory), frame]
debug_backtrace(memory, frame) == FrameChain(memory, frame, 0)
\* A thread is [status, current, top, stack, frame, retaddr]: its saved stack and, when it
\* is the one that runs, the frame and the return address of this call.
print_stacktrace(memory, t) ==
    LET Shown(retaddr, frame) == [status |-> t.status, calls |-> <<retaddr>> \o FrameChain(memory, frame, 4096)]
    IN IF t.current THEN Shown(t.retaddr, t.frame)
       ELSE IF t.stack = t.top \/ memory[t.stack + 16] = "switch_entry" THEN [status |-> t.status, calls |-> "never scheduled"]
       ELSE Shown(memory[t.stack + 16], memory[t.stack + 8])
debug_backtrace_all(memory, all_list) == [i \in DOMAIN all_list |-> print_stacktrace(memory, all_list[i])]

(***************************************************************************)
(* Switching: the words on a stack, the lowest address first.  A machine   *)
(* is the running thread, its registers and stack, and the saved stacks.   *)
(***************************************************************************)
alloc_frame(stack, frame) == frame \o stack
kernel_thread_frame(function, aux) == <<NULL, function, aux>>
switch_entry_frame == <<"kernel_thread">>
switch_threads_frame(eip, regs, cur, next) == <<regs.edi, regs.esi, regs.ebp, regs.ebx, eip, cur, next>>
SWITCH_CUR == 20
SWITCH_NEXT == 24
NewStack(function, aux) ==
    alloc_frame(alloc_frame(alloc_frame(<<>>, kernel_thread_frame(function, aux)), switch_entry_frame),
                switch_threads_frame("switch_entry", [edi |-> 0, esi |-> 0, ebp |-> 0, ebx |-> 0], 0, 0))

\* After the return: the instruction returned to, with the value and the stack it finds.
switch_threads(m, next) ==
    LET pushed == switch_threads_frame("schedule", m.regs, m.cur, next) \o m.stack
        cur == pushed[(SWITCH_CUR \div 4) + 1]
        saved == [m.saved EXCEPT ![cur] = pushed]
        esp == saved[pushed[(SWITCH_NEXT \div 4) + 1]]
    IN [cur |-> next, saved |-> saved, eip |-> esp[5], eax |-> cur,
        regs |-> [edi |-> esp[1], esi |-> esp[2], ebp |-> esp[3], ebx |-> esp[4]], stack |-> SubSeq(esp, 6, Len(esp))]
\* The two arguments are dropped, by schedule() or by switch_entry().
Resumed(m) == LET stack == SubSeq(m.stack, 3, Len(m.stack)) IN [m EXCEPT !.stack = stack]
switch_entry(m) ==
    LET r == Resumed(m) IN [m EXCEPT !.eip = Head(r.stack), !.stack = Tail(r.stack)]
\* Its arguments, as the caller's frame has them.
kernel_thread(m) == [function |-> m.stack[2], aux |-> m.stack[3]]

tss_update(tss, thread, PGSIZE) == [tss EXCEPT !.esp0 = thread + PGSIZE]
tss_init(thread, PGSIZE) == tss_update([esp0 |-> 0, ss0 |-> 16, bitmap |-> 57343], thread, PGSIZE)
=============================================================================
