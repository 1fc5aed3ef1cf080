------------------------------ MODULE MCSerial ------------------------------
(* Small instances for Serial, and formatted output on all inputs of a     *)
(* small size.                                                             *)
EXTENDS Serial, SequencesExt

CONSTANTS x, y

TwoBytes == {x, y}
OneByte == {x}

F == INSTANCE Format

(***************************************************************************)
(* A number is read from the text that printf() made of it.                *)
(***************************************************************************)
Hex == <<"0", "1", "2", "3", "4", "5", "6", "7", "8", "9", "a", "b", "c", "d", "e", "f">>
ReadBack(text, base) ==
    LET digits == SelectSeq(text, LAMBDA ch : ch \in Range(Hex))
        value == FoldLeft(LAMBDA n, ch : n * base + (CHOOSE v \in 0..15 : Hex[v + 1] = ch), 0, digits)
    IN IF "-" \in Range(text) THEN -value ELSE value

Int6 == [INT |-> 6]
Flags == SUBSET {"-", "+", " ", "0", "'"}

\* Whatever the flags, the text shows the number the argument is at its width and
\* fills the field; it is longer than both need only where a negative width comes
\* with the flag 0, when it is padded on both sides.
ASSUME NumberShown == \A flags \in Flags, width \in {-5, 0, 1, 4, 6}, precision \in {-2, -1, 0, 1, 3} :
    \A arg \in {-33, -32, -9, -1, 0, 5, 31, 32} :
        LET c == F!ParseConversion(flags, width, precision, "INT")
            text == F!Convert([conv |-> "d", arg |-> arg, c |-> c], Int6)
            bare == F!Convert([conv |-> "d", arg |-> arg, c |-> [c EXCEPT !.width = 0]], Int6)
        IN /\ ReadBack(text, 10) = F!Argument(arg, 6, TRUE)
           /\ Len(text) = Len(bare) + (IF c.width <= Len(bare) THEN 0
                                       ELSE (c.width - Len(bare)) * (IF {"-", "0"} \subseteq c.flags THEN 2 ELSE 1))
           /\ {"-", "0"} \subseteq c.flags => width < 0
           /\ "-" \notin c.flags /\ "0" \notin c.flags => SubSeq(text, Len(text) - Len(bare) + 1, Len(text)) = bare

ASSUME BasesShown == \A arg \in {-1, 0, 1, 7, 8, 15, 16, 63, 64}, sharp \in {{}, {"#"}}, precision \in {-1, 0, 2} :
    LET c == F!ParseConversion(sharp, 0, precision, "INT")
        Text(conv) == F!Convert([conv |-> conv, arg |-> arg, c |-> c], Int6)
    IN /\ ReadBack(Text("x"), 16) = arg % 64 /\ ReadBack(Text("o"), 8) = arg % 64 /\ ReadBack(Text("u"), 10) = arg % 64
       /\ sharp # {} => Head(Text("o")) = "0"
       /\ Text("u") = <<>> <=> arg % 64 = 0 /\ precision = 0

ASSUME GroupsShown ==
    F!FormatInteger(1234567, TRUE, TRUE, F!base_d, F!ParseConversion({"'"}, 0, -1, "INT")) =
        <<"-", "1", ",", "2", "3", "4", ",", "5", "6", "7">>

ASSUME StringsShown == \A s \in {<<>>, <<"a">>, <<"a", "b", "c">>}, width \in -4..4, precision \in -1..4 :
    LET text == F!Convert([conv |-> "s", arg |-> s, c |-> F!ParseConversion({}, width, precision, "INT")], Int6)
    IN SelectSeq(text, LAMBDA ch : ch # " ") = F!UpToPrecision(s, precision)
ASSUME BufferKept == \A size \in 0..4, n \in 0..4 :
    LET r == F!Vsnprintf(size, F!Repeat("a", n))
    IN /\ Len(r.buffer) <= size /\ r.returned = n
       /\ size > 0 => Last(r.buffer) = "0" /\ (n < size => Len(r.buffer) = n + 1)
ASSUME TextsJoined == F!Vprintf(<<[conv |-> "", arg |-> <<"%">>], [conv |-> "f", arg |-> 0, c |-> F!ParseConversion({}, 0, -1, "INT")],
                                  [conv |-> "c", arg |-> <<"z">>, c |-> F!ParseConversion({"-"}, 2, -1, "INT")]>>, Int6)
    = <<"%", "<<no %", "f", " in kernel>>", "z", " ">>

\* hex_dump() shows every byte once, in order, all lines of the same length and
\* aligned.
ASSUME DumpComplete == \A ofs \in 0..7, size \in 0..11 :
    LET lines == F!DumpLines(ofs, size, 4)
        shown == FoldLeft(LAMBDA t, l : t \o [k \in 1..(l.end - l.start) |-> l.ofs + l.start + k - 1], <<>>, lines)
        Text(l) == F!DumpText(l, [k \in 1..4 |-> "z"], 4, TRUE, [z |-> <<"7", "a">>], {"z"})
    IN /\ shown = [k \in 1..size |-> ofs + k - 1]
       /\ \A k \in DOMAIN lines : lines[k].ofs % 4 = 0 /\ Len(Text(lines[k])) = Len(Text(lines[1]))

(***************************************************************************)
(* The console: printf() inside printf() inside printf(), with the kernel  *)
(* panicking before or after any step, fails no assertion and, without a   *)
(* panic, leaves the lock free.                                            *)
(***************************************************************************)
Nested(panicAt, intr) ==
    LET Step(con, k) ==
            LET now == IF k = panicAt THEN F!ConsolePanic(con) ELSE con
            IN IF k <= 3 THEN F!AcquireConsole(now, x, intr)
               ELSE IF k = 4 THEN F!ConsolePrint(now, x, intr, 2).con ELSE F!ReleaseConsole(now, x, intr)
    IN FoldLeft(Step, F!ConsoleInit, [k \in 1..7 |-> k])
ASSUME ConsoleNests ==
    /\ Nested(0, FALSE) = [F!ConsoleInit EXCEPT !.write_cnt = 2]
    /\ Nested(0, TRUE) = [F!ConsoleInit EXCEPT !.write_cnt = 2]
    /\ \A panicAt \in 1..7, t \in {x, y}, intr \in BOOLEAN : F!ConsolePrint(Nested(panicAt, FALSE), t, intr, 1).ok
    /\ ~F!ConsolePrint(F!AcquireConsole(F!ConsoleInit, x, FALSE), y, FALSE, 1).ok
=============================================================================
