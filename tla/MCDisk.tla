------------------------------- MODULE MCDisk -------------------------------
(* Small instances for Disk; and what the drivers compute. *)
EXTENDS Disk, Integers, Sequences, FiniteSets, TLC

CONSTANTS t1, t2, s1, s2, x, y

TwoThreads == {t1, t2}
TwoSectors == {s1, s2}
TwoData == {x, y}

(***************************************************************************)
(* The keyboard.                                                           *)
(***************************************************************************)
V == INSTANCE Machine WITH COL_CNT <- 10, ROW_CNT <- 3, LOADER_ARGS_LEN <- 6, KERNEL_SECTORS <- 8, PULSES <- 100,
                           POLLS <- 65536
ShiftKeys == DOMAIN V!ShiftKey
Bytes(code, release) ==
    LET low == (code % 256) + (IF release THEN 128 ELSE 0) IN IF code > 255 THEN <<224, low>> ELSE <<low>>
After[events \in Seq(ShiftKeys \X BOOLEAN)] ==
    IF events = <<>> THEN V!kbd_init
    ELSE LET last == events[Len(events)]
         IN V!keyboard_interrupt(After[SubSeq(events, 1, Len(events) - 1)], Bytes(V!ShiftKey[last[1]], ~last[2]), FALSE).state

\* No scan code has two meanings, and none is that of a shift key or of Caps Lock.
ASSUME KeysUnambiguous ==
    \A code \in 0..127 :
        /\ \A maps \in {V!unshifted_keymap, V!shifted_keymap} :
              Cardinality(V!Entries(V!invariant_keymap \o maps, code)) \in {0, 1}
        /\ V!Entries(V!unshifted_keymap, code) = V!Entries(V!shifted_keymap, code)
        /\ code = 58 \/ (\E k \in ShiftKeys : V!ShiftKey[k] = code) =>
              V!Entries(V!invariant_keymap \o V!unshifted_keymap, code) = {}

\* After any keys have been pressed and let go of, in any order and also on both sides of
\* the keyboard, those are down that were pressed last.
ASSUME ShiftsFollowed == \A n \in 0..3 : \A events \in [1..n -> ShiftKeys \X BOOLEAN] :
    \A k \in ShiftKeys :
        LET of == {i \in 1..n : events[i][1] = k}
        IN After[events].down[k] <=> \E i \in of : events[i][2] /\ \A j \in of : j <= i

\* What every key types with every set of shift keys; a full buffer takes nothing.
Code(char) == CHOOSE code \in 1..127 : V!map_key(V!invariant_keymap, code) = char
ASSUME KeysTyped ==
    \A down \in SUBSET ShiftKeys, caps \in BOOLEAN, full \in BOOLEAN :
        LET state == [down |-> [k \in ShiftKeys |-> k \in down], caps_lock |-> caps, key_cnt |-> 0]
            Shift == {"left_shift", "right_shift"} \cap down # {}
            Alt == {"left_alt", "right_alt"} \cap down # {}
            Ctrl == {"left_ctrl", "right_ctrl"} \cap down # {}
            Types(code) == V!keyboard_interrupt(state, <<code>>, full)
            High(char) == IF Alt THEN char + 128 ELSE char
        IN /\ \A letter \in 65..90 :
                 Types(Code(letter)).put = IF full THEN <<>> ELSE
                     <<High(IF Ctrl THEN letter - 64 ELSE IF Shift # caps THEN letter ELSE letter + 32)>>
           /\ \A code \in 2..11 : ~Ctrl /\ ~full =>
                 Types(code).put = <<High(V!map_key(IF Shift THEN V!shifted_keymap ELSE V!unshifted_keymap, code))>>
           /\ \A code \in 1..127 : Types(code).reboot <=> code = 83 /\ Ctrl /\ Alt
           /\ \A code \in 1..95 : Types(code + 128).put = <<>> /\ Types(code).state.key_cnt = Len(Types(code).put)
           /\ Types(58).state.caps_lock = ~caps

(***************************************************************************)
(* The screen, of three rows of ten characters, after any six characters:  *)
(* the cursor is on it, the hardware knows where, and what is shown is the *)
(* end of what a printer would have on its paper.                          *)
(***************************************************************************)
Screen == V!cls([fb |-> <<>>, cx |-> 0, cy |-> 0, crtc |-> [e |-> 0, f |-> 0]])
Paper == [rows |-> <<V!Row>>, at |-> 0]
Wrap(p) == IF p.at >= 10 THEN [rows |-> Append(p.rows, V!Row), at |-> 0] ELSE p
Typed(p, c) ==
    CASE c = 10 -> [rows |-> Append(p.rows, V!Row), at |-> 0]
      [] c = 12 -> Paper
      [] c = 8 -> [p EXCEPT !.at = IF @ = 0 THEN 0 ELSE @ - 1]
      [] c = 13 -> [p EXCEPT !.at = 0]
      [] c = 9 -> Wrap([p EXCEPT !.at = IF @ < 8 THEN 8 ELSE 16])
      [] OTHER -> Wrap([p EXCEPT !.rows[Len(p.rows)][p.at] = c, !.at = @ + 1])
Both[text \in Seq(Nat)] ==
    IF text = <<>> THEN [screen |-> Screen, paper |-> Paper]
    ELSE LET before == Both[SubSeq(text, 1, Len(text) - 1)]  c == text[Len(text)]
         IN [screen |-> V!vga_putc(before.screen, c), paper |-> Typed(before.paper, c)]
ASSUME ScreenIsPaper == \A n \in 0..6 : \A text \in [1..n -> {8, 9, 10, 12, 65, 66}] :
    LET b == Both[text]
        rows == b.paper.rows
        top == IF Len(rows) > 3 THEN Len(rows) - 3 ELSE 0
    IN /\ b.screen.fb = [row \in 0..2 |-> IF top + row + 1 <= Len(rows) THEN rows[top + row + 1] ELSE V!Row]
       /\ b.screen.cx = b.paper.at /\ b.screen.cy = Len(rows) - top - 1
       /\ n > 0 => V!find_cursor(b.screen) = b.screen

(***************************************************************************)
(* Disks.                                                                  *)
(***************************************************************************)
Device == [exists : {TRUE}, error : {0, 1, 129}, status : {0, 64, 128, 192}, lbam : {0, 60}, lbah : {0, 195},
           answers : BOOLEAN, id : {[i \in 0..255 |-> i]}]
Nothing == [exists |-> FALSE, floats |-> 255, error |-> 255, status |-> 255, lbam |-> 255, lbah |-> 255]
\* Only devices that are ready and show the signature of a disk are taken for one, a second
\* one not when the first says that there is none, and a size of zero is that of no disk.
ASSUME DisksDetected ==
    /\ \A master \in Device \union {Nothing}, slave \in Device \union {Nothing} :
          LET devices == [d \in {0, 1} |-> IF d = 0 THEN master ELSE slave]
              disks == V!DetectedDisks(devices)
              Ready(regs) == regs.status = 64 /\ <<regs.lbam, regs.lbah>> \in {<<0, 0>>, <<60, 195>>}
          IN /\ \A d \in {0, 1} : disks[d].is_ata => Ready(devices[d]) /\ devices[d].answers
             /\ disks[1].is_ata => slave.error = 1 /\ (master.error # 129 \/ master.status = 64)
             /\ Ready(master) /\ master.error = 1 /\ master.answers =>
                   V!disk_get([c \in {0, 1} |-> disks], 0, 0).capacity = <<60, 61>>
             /\ \A d \in {0, 1} : ~disks[d].is_ata =>
                   disks[d].capacity = <<0, 0>> /\ V!disk_get([c \in {0, 1} |-> disks], 1, d) = NULL
             /\ V!reset_channel(devices) = [d \in {0, 1} |-> devices[d].exists]
    /\ V!disk_get(<<>>, 2, 0) = NULL
    /\ V!disk_init[0].irq # V!disk_init[1].irq /\ V!disk_init[0].reg_base # V!disk_init[1].reg_base

\* wait_until_idle() gives up after ten milliseconds, wait_while_busy() after 30 seconds;
\* the number of a sector is in the registers, with the device.
ASSUME WaitsBounded ==
    /\ \A n \in {0, 1, 999, 1000} :
          LET w == V!wait_until_idle([i \in 0..999 |-> IF i < n THEN 128 ELSE 64])
          IN w.timeout = (n = 1000) /\ w.slept_us = 10 * n
    /\ \A n \in {0, 1, 2999, 3000}, ready \in {64, 72} :
          LET w == V!wait_while_busy([i \in 0..2999 |-> IF i < n THEN 128 ELSE ready])
          IN w.ret = (n < 3000 /\ ready = 72) /\ w.slept_ms = 10 * n
    /\ \A dev \in {0, 1}, sec_no \in {0, 255, 256, 65536, 16777216, 268435455} :
          LET r == V!select_sector(dev, sec_no)
          IN r.lbal + (256 * r.lbam) + (65536 * r.lbah) + (16777216 * (r.device % 16)) = sec_no
             /\ r.device \div 16 = 14 + dev /\ V!select_device(dev) \div 16 = 10 + dev
ASSUME ModelsShown ==
    /\ V!print_ata_string(<<66, 65, 68, 67, 32, 69, 32, 0>>) = <<65, 66, 67, 68, 69>>
    /\ V!print_ata_string(<<66, 32, 68, 67>>) = <<32, 66, 67, 68>> /\ V!print_ata_string(<<32, 0>>) = <<>>

(***************************************************************************)
(* Interrupts.                                                             *)
(***************************************************************************)
Stubs == [v \in 0..255 |-> <<49152, v>>]
Idt ==
    LET one == V!register_handler(V!intr_init(Stubs), Stubs, 32, 0, "INTR_OFF", "timer_interrupt")
    IN V!register_handler(one, Stubs, 48, 3, "INTR_ON", "syscall_handler")
\* External interrupts are acknowledged whatever comes of them, slaves at both chips, and
\* only spurious ones may have no handler; every gate leads to its stub.
ASSUME InterruptsDispatched ==
    /\ \A v \in 0..255 : LET h == V!intr_handler(Idt, v, TRUE)
          IN /\ h.does = "PANIC" <=> v \notin {32, 39, 47, 48}
             /\ h.does # "PANIC" => (h.acknowledges # <<>> <=> v \in 32..47) /\ (Len(h.acknowledges) = 2 <=> v \in 40..47)
             /\ h.yields <=> v = 32
             /\ Idt.idt[v][1] = v /\ Idt.idt[v][4] = 49152 /\ Idt.idt[v][2] = 8
             /\ (Idt.idt[v][3] \div 8192) % 4 = (IF v = 48 THEN 3 ELSE 0) /\ (Idt.idt[v][3] % 512 = 256 <=> v = 48)
    /\ ~V!RegisterExtAsserts(Idt, 32) /\ V!RegisterExtAsserts(Idt, 33) /\ ~V!RegisterExtAsserts(Idt, 48)
    /\ V!RegisterIntAsserts(Idt, 49) /\ ~V!RegisterIntAsserts(Idt, 48) /\ ~V!RegisterIntAsserts(Idt, 40)
    /\ V!make_idtr_operand(2047, <<49153, 4096>>) = <<2047, 4096, 49153, 0>>
    \* Each chip gets its base vector as the second of four words, and is unmasked last.
    /\ \A chip \in {<<"PIC0_CTRL", "PIC0_DATA", 32>>, <<"PIC1_CTRL", "PIC1_DATA", 40>>} :
          LET Of(w) == w[1] \in {chip[1], chip[2]}
              writes == SelectSeq(V!pic_init, Of)
          IN writes[1][2] = 255 /\ writes[2][1] = chip[1] /\ writes[3][2] = chip[3] /\ writes[6] = <<chip[2], 0>>

\* What the processor leaves on the stack, by the architecture's manual an error code with
\* some exceptions, is where struct intr_frame has it, and is taken off again: but for the
\* stack fault, 12, whose stub pushes a second error code.
ErrorCode == {8, 10, 11, 12, 13, 14, 17}
ASSUME FramesRight == \A v \in 0..31 \ {24, 26, 27, 29, 30} :
    LET pushed == (IF v \in ErrorCode THEN <<"error_code">> ELSE <<>>) \o <<"eip", "cs", "eflags">>
        stack == V!intr_entry(V!Stub(v, pushed))
        Named(i) == CASE V!intr_frame[i] = "frame_pointer" -> "ebp"
                      [] V!intr_frame[i] = "error_code" -> IF v \in ErrorCode THEN "error_code" ELSE "zero"
                      [] OTHER -> V!intr_frame[i]
        right == stack = [i \in 1..18 |-> Named(i)]
        exit == V!intr_exit(stack)
    IN /\ right <=> v # 12
       /\ exit.popped = SubSeq(V!intr_frame, 1, 12)
       /\ exit.iret = <<"eip", "cs", "eflags">> <=> v # 12

(***************************************************************************)
(* From power on to power off.                                             *)
(***************************************************************************)
Builds == SUBSET {"USERPROG", "FILESYS"}

\* The loader puts the kernel's sectors in memory in their order, and asks the drive for a
\* sector in the words the kernel's own driver uses.
ASSUME KernelLoaded ==
    /\ V!loader({}, FALSE, [s \in 0..9 |-> <<"sector", s>>]).runs = [i \in 1..8 |-> <<"sector", i>>]
    /\ V!loader({}, TRUE, <<>>) = [shows |-> "Panic!", runs |-> <<>>, cr0 |-> {}]
    /\ {"PE", "PG"} \subseteq V!loader({}, FALSE, [s \in 0..9 |-> s]).cr0
    /\ V!EnableA20[2] = <<"0x60", 223>>
    /\ \A s \in {1, 255, 256, 65535, 65536, 16777215, 16777216, 268435455} :
          /\ V!Addressed(V!SectorRegisters(s)) = s
          /\ \A field \in {"nsect", "lbal", "lbam", "lbah", "device"} :
                V!SectorRegisters(s)[field] = V!select_sector(0, s)[field]

\* Words without a blank among them, one after the other with a zero behind each, are read
\* back, and the array has room for them and the null; one word too many is a panic.
Packed[words \in Seq(Seq({97, 98}))] == IF words = <<>> THEN <<>> ELSE words[1] \o <<0>> \o Packed[Tail(words)]
Area(words) == SubSeq(Packed[words] \o <<0, 0, 0, 0, 0, 0>>, 1, 6)
Words == UNION {[1..n -> {97, 98}] : n \in 1..3}
ASSUME CommandLineRead == \A n \in 0..4 : \A words \in [1..n -> Words] :
    LET last == IF n = 0 THEN 0 ELSE Len(words[n])
        fits == Len(Packed[words]) - 1 <= 6
        read == V!read_command_line(Area(words), n)
    IN /\ fits => ~read.panics /\ read.argv = words /\ Len(read.argv) + 1 <= V!argv_size
       /\ read.panics => Len(Packed[words]) - 1 > 6
       /\ Len(Packed[words]) - last - 1 >= 6 => read.panics

\* BSS is zeroed and nothing else.
ASSUME BssCleared ==
    V!ram_init([a \in 0..7 |-> a + 1], 2..5, 24) = [memory |-> [a \in 0..7 |-> IF a \in 2..5 THEN 0 ELSE a + 1], ram_pages |-> 24]

\* Everything is started after what it relies on: by the assertions and calls of each of them.
Needs ==
    [palloc_init |-> {"ram_init"}, parse_options |-> {"ram_init", "read_command_line"}, console_init |-> {"thread_init"},
     malloc_init |-> {"ram_init"}, paging_init |-> {"palloc_init"}, tss_init |-> {"palloc_init", "thread_init"},
     gdt_init |-> {"tss_init"}, timer_init |-> {"intr_init"}, kbd_init |-> {"intr_init"}, exception_init |-> {"intr_init"},
     syscall_init |-> {"intr_init"}, thread_start |-> {"intr_init", "palloc_init", "thread_init", "timer_init", "kbd_init", "input_init"},
     serial_init_queue |-> {"intr_init", "input_init"}, timer_calibrate |-> {"thread_start", "timer_init"},
     disk_init |-> {"thread_start", "timer_calibrate", "intr_init"}, filesys_init |-> {"disk_init", "malloc_init"},
     run_actions |-> {"thread_start", "malloc_init", "paging_init", "parse_options"}, power_off |-> {"run_actions"}, reboot |-> {"run_actions"}]
ASSUME BootOrdered == \A build \in Builds, q \in BOOLEAN, r \in BOOLEAN :
    LET steps == V!main(build, [reboot_when_done |-> r, power_off_when_done |-> q])
        Position(step) == {i \in DOMAIN steps : steps[i] = step}
    IN /\ \A i, j \in DOMAIN steps : steps[i] = steps[j] => i = j
       /\ \A i \in DOMAIN steps : steps[i] \in DOMAIN Needs =>
             \A step \in Needs[steps[i]] : \E j \in Position(step) : j < i
       \* A build starts what its options can be used for.
       /\ "FILESYS" \in build => {"disk_init", "filesys_init"} \subseteq {steps[i] : i \in DOMAIN steps}
       /\ "USERPROG" \in build => {"gdt_init", "exception_init", "syscall_init"} \subseteq {steps[i] : i \in DOMAIN steps}

\* The options before the first action count, each for itself and the last of two; the seed
\* is the time whatever -rs says; an option without its value or of another build panics.
OptionWord(name, value) == [option |-> TRUE, name |-> name, value |-> value]
ActionWord(name) == [option |-> FALSE, name |-> name, value |-> NULL]
OptionsGiven == {OptionWord(o, NULL) : o \in {"-h", "-q", "-r", "-f", "-mlfqs", "-ul", "-rs", "-"}} \union
                {OptionWord("-ul", n) : n \in {3, 4}} \union {OptionWord("-rs", 7)}
ASSUME OptionsParsed == \A build \in Builds : \A n \in 0..3 : \A given \in [1..n -> OptionsGiven] :
    LET p == V!parse_options(build, given \o <<ActionWord("run"), OptionWord("-q", NULL)>>, 99)
        Wrong(w) == w.name \notin V!Options(build) \/ (w.name \in {"-ul", "-rs"} /\ w.value = NULL)
        wrong == {i \in 1..n : Wrong(given[i])}
        helps == {i \in 1..n : given[i].name = "-h"}
        limits == {i \in 1..n : given[i].name = "-ul"}
    IN /\ p.argv = <<ActionWord("run"), OptionWord("-q", NULL)>>
       /\ p.state.end = "PANIC" <=> \E i \in wrong : \A j \in helps : i < j
       /\ p.state.end = "power_off" <=> \E j \in helps : \A i \in wrong : j < i
       /\ p.state.end = "returns" =>
             /\ p.state.seed = 99
             /\ p.state.power_off_when_done <=> \E i \in 1..n : given[i].name = "-q"
             /\ p.state.reboot_when_done <=> \E i \in 1..n : given[i].name = "-r"
             /\ p.state.format_filesys <=> \E i \in 1..n : given[i].name = "-f"
             /\ p.state.thread_mlfqs <=> \E i \in 1..n : given[i].name = "-mlfqs"
             /\ p.state.user_page_limit = IF limits = {} THEN NULL ELSE given[CHOOSE i \in limits : \A j \in limits : j <= i].value

\* Every command line is run as it can be divided into actions with their arguments, up to
\* the first word that begins none; an argument may be the name of an action.
RECURSIVE Divided(_, _)
Divided(build, words) ==
    IF words = <<>> THEN <<>>
    ELSE IF words[1] \notin DOMAIN V!actions(build) \/ V!actions(build)[words[1]] > Len(words) THEN <<"PANIC">>
    ELSE <<SubSeq(words, 1, V!actions(build)[words[1]])>> \o Divided(build, SubSeq(words, 1 + V!actions(build)[words[1]], Len(words)))
ASSUME ActionsRun == \A build \in Builds : \A n \in 0..4 : \A words \in [1..n -> {"run", "ls", "cat", "file"}] :
    LET r == V!run_actions(build, [i \in 1..n |-> ActionWord(words[i])])
        divided == Divided(build, words)
        Told(d) == CASE d[1] = "run" -> <<[does |-> "process_execute", arg |-> d[2]], [does |-> "process_wait", arg |-> d[2]]>>
                     [] d[1] = "ls" -> <<[does |-> "ls", arg |-> NULL]>>
                     [] OTHER -> <<[does |-> d[1], arg |-> d[2]]>>
        whole == divided = <<>> \/ divided[Len(divided)] # "PANIC"
        Whole[i \in 0..Len(divided)] == IF i = 0 THEN <<>> ELSE Whole[i - 1] \o Told(divided[i])
    IN r.end = (IF whole THEN "returns" ELSE "PANIC") /\ r.done = Whole[IF whole THEN Len(divided) ELSE Len(divided) - 1]

\* -h tells of the actions there are, and of the options but for -f, of which it tells
\* where there is no file system to format.
ASSUME UsageTold == \A build \in Builds :
    /\ V!usage(build).actions = DOMAIN V!actions(build)
    /\ V!usage(build).options \ V!Options(build) = IF "FILESYS" \in build THEN {} ELSE {"-f"}
    /\ V!Options(build) \subseteq V!usage(build).options
    /\ \A stats \in {V!print_stats(build)} : \A i, j \in DOMAIN stats : stats[i] = stats[j] => i = j

\* The machine is reset at once if the controller takes commands, within 14 s if it does not.
ASSUME RebootBounded ==
    /\ V!reboot([i \in 1..100 |-> 0]) = [pulses |-> 100, slept_us |-> 10000]
    /\ V!reboot([i \in 1..100 |-> 100000]).slept_us \in 13000000..14000000

\* A panic shows its message once and its recursion once.  With -q the machine goes off
\* after the file system is closed and the output is out, unless closing panics, as it does
\* in an interrupt handler and where the lock of malloc.c is held: then it never does.
ASSUME PanicStops == \A build \in Builds, failing \in SUBSET {"filesys_done", "print_stats"} :
    LET quiet == V!debug_panic(build, FALSE, failing, 4)
        ends == V!debug_panic(build, TRUE, failing, 4)
        Shown(what) == Cardinality({i \in DOMAIN ends.shown : ends.shown[i] = what})
        Before(one, two) == \E i, j \in DOMAIN ends.shown : ends.shown[i] = one /\ ends.shown[j] = two /\ i < j
        again == failing # {} /\ (failing # {"filesys_done"} \/ "FILESYS" \in build)
    IN /\ quiet.end = "spins" /\ quiet.shown = <<"Kernel PANIC", "Call stack", "serial_flush">>
       /\ Shown("Kernel PANIC") = 1 /\ Shown("Kernel PANIC recursion") = (IF again THEN 1 ELSE 0)
       /\ ends.end = IF again THEN "panics again" ELSE "off"
       /\ ends.end = "off" => Before("serial_flush", "cli; hlt") /\ ("FILESYS" \in build => Before("filesys_done", "cli; hlt"))

\* Two calls deep in a thread whose first frame is the zero of thread_create(): the address
\* of the return to kernel_thread() is shown, that of kernel_thread() itself is not.
Nested == 4096 :> 5000 @@ 4100 :> "r71" @@ 5000 :> 6000 @@ 5004 :> "r72" @@ 6000 :> 0 @@ 6004 :> "r73" @@
          8008 :> 4096 @@ 8016 :> "r70" @@ 9016 :> "switch_entry" @@ 9008 :> 0
ASSUME StacksTraced ==
    LET Th(running, stack) == [status |-> IF running THEN "RUNNING" ELSE "READY", current |-> running, top |-> 9999, stack |-> stack,
                               frame |-> 5000, retaddr |-> "r69"]
        all == V!debug_backtrace_all(Nested, <<Th(TRUE, 0), Th(FALSE, 8000), Th(FALSE, 9000), Th(FALSE, 9999)>>)
    IN /\ V!debug_backtrace(Nested, 4096) = <<"r71", "r72">>
       /\ [i \in 1..4 |-> all[i].calls] = <<<<"r69", "r72">>, <<"r70", "r71", "r72">>, "never scheduled", "never scheduled">>
       /\ [i \in 1..4 |-> all[i].status] = <<"RUNNING", "READY", "READY", "READY">>

\* In any order of five switches between three threads, two of them new, everyone finds its
\* registers and its stack as it left them and is told who ran before; a new thread begins
\* with its function and its argument, and its stack pointer in the TSS at its page's end.
Ran(thread, n) == [ebx |-> <<thread, n, "ebx">>, ebp |-> <<thread, n, "ebp">>, esi |-> <<thread, n, "esi">>, edi |-> <<thread, n, "edi">>]
PoweredOn ==
    [cur |-> "main", regs |-> Ran("main", 0), stack |-> <<<<"main", 0>>>>, eip |-> "schedule", eax |-> "main",
     saved |-> ("main" :> <<>>) @@ ("A" :> V!NewStack("fA", "auxA")) @@ ("B" :> V!NewStack("fB", "auxB"))]
RECURSIVE Switched(_, _, _, _)
Switched(m, left, path, n) ==
    path = <<>> \/
    LET after == V!switch_threads(m, path[1])
        first == ~\E i \in 1..Len(left) : left[i].cur = path[1]
        mine == CHOOSE i \in 1..Len(left) : left[i].cur = path[1] /\ \A j \in 1..Len(left) : left[j].cur = path[1] => j <= i
        goes == IF first THEN V!switch_entry(after) ELSE V!Resumed(after)
        works == [goes EXCEPT !.regs = Ran(path[1], n), !.stack = <<<<path[1], n>>>> \o @]
    IN /\ after.eax = m.cur /\ after.cur = path[1] /\ after.eip = IF first THEN "switch_entry" ELSE "schedule"
       /\ IF first
          THEN /\ goes.eip = "kernel_thread" /\ goes.regs.ebp = 0
               /\ V!kernel_thread(goes) = IF path[1] = "A" THEN [function |-> "fA", aux |-> "auxA"] ELSE [function |-> "fB", aux |-> "auxB"]
          ELSE goes.regs = left[mine].regs /\ goes.stack = left[mine].stack
       /\ Switched(works, Append(left, works), Tail(path), n + 1)
ASSUME RegistersKept ==
    /\ \A path \in [1..5 -> {"main", "A", "B"}] :
          path[1] # "main" /\ (\A i \in 1..4 : path[i] # path[i + 1]) => Switched(PoweredOn, <<PoweredOn>>, path, 1)
    /\ V!tss_init(8192, 4096).esp0 = 12288 /\ V!tss_update(V!tss_init(8192, 4096), 16384, 4096) = [esp0 |-> 20480, ss0 |-> 16, bitmap |-> 57343]
=============================================================================
