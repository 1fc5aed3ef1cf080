------------------------------- MODULE Format -------------------------------
(***************************************************************************)
(* Formatted output: lib/stdio.c, and the console of                       *)
(* lib/kernel/console.c that it goes to.  A text is a sequence of          *)
(* characters; a conversion is known by what parse_conversion() finds in   *)
(* it, [flags, width, precision, type], where a width or a precision may   *)
(* also have come from an argument.                                        *)
(***************************************************************************)
EXTENDS Integers, Sequences, SequencesExt

CONSTANT NULL

Repeat(ch, n) == [k \in 1..n |-> ch]        \* output_dup()
Largest(m, n) == IF m > n THEN m ELSE n

(***************************************************************************)
(* parse_conversion(): flags is the set of the flag characters, precision  *)
(* is -1 if there is none or less, and a 0 yields to a - or a precision.   *)
(* A - that a negative width stands for comes too late to be yielded to.   *)
(***************************************************************************)
ParseConversion(flags, width, precision, type) ==
    [flags |-> ((flags \ IF "-" \in flags \/ precision >= 0 THEN {"0"} ELSE {})
                    \ IF "+" \in flags THEN {" "} ELSE {})
                   \union IF width < 0 THEN {"-"} ELSE {},
     width |-> IF width < 0 THEN -width ELSE width,
     precision |-> Largest(precision, -1),
     type |-> type]

(***************************************************************************)
(* The value of an argument: bits[type] of it, as a signed number or not.  *)
(***************************************************************************)
Argument(arg, bits, signed) ==
    LET v == arg % 2^bits IN IF signed /\ v >= 2^(bits - 1) THEN v - 2^bits ELSE v

base_d == [base |-> 10, x |-> "", group |-> 3]
base_o == [base |-> 8, x |-> "", group |-> 3]
base_x == [base |-> 16, x |-> "x", group |-> 4]
base_X == [base |-> 16, x |-> "X", group |-> 4]
DigitOf(b, d) == IF b.x = "X" THEN
    <<"0", "1", "2", "3", "4", "5", "6", "7", "8", "9", "A", "B", "C", "D", "E", "F">>[d + 1]
    ELSE <<"0", "1", "2", "3", "4", "5", "6", "7", "8", "9", "a", "b", "c", "d", "e", "f">>[d + 1]

\* The buffer of format_integer(): digits, least significant first, with commas.
DigitsReversed(value, b, grouped) ==
    LET n == CHOOSE k \in 0..64 : b.base^k > value /\ (k = 0 \/ b.base^(k - 1) <= value)
        Add(cp, k) == (IF grouped /\ k > 0 /\ k % b.group = 0 THEN Append(cp, ",") ELSE cp)
                          \o <<DigitOf(b, (value \div b.base^k) % b.base)>>
    IN FoldLeft(Add, <<>>, [k \in 1..n |-> k - 1])

\* The zeros the precision asks for, as long as the 64 places of the buffer last,
\* and the one that makes an octal number begin with zero.
WithZeros(cp, b, c) ==
    LET precision == IF c.precision < 0 THEN 1 ELSE c.precision
        size == IF precision < 63 THEN precision ELSE 63
        padded == cp \o Repeat("0", Largest(size - Len(cp), 0))
    IN IF "#" \in c.flags /\ b.base = 8 /\ (padded = <<>> \/ Last(padded) # "0")
       THEN Append(padded, "0") ELSE padded

FormatInteger(value, is_signed, negative, b, c) ==
    LET sign == IF ~is_signed THEN <<>>
                ELSE IF negative THEN <<"-">>
                ELSE IF "+" \in c.flags THEN <<"+">> ELSE IF " " \in c.flags THEN <<" ">> ELSE <<>>
        prefix == IF "#" \in c.flags /\ value # 0 /\ b.x # "" THEN <<"0", b.x>> ELSE <<>>
        cp == WithZeros(DigitsReversed(value, b, "'" \in c.flags), b, c)
        pad == Largest(c.width - Len(cp) - Len(prefix) - Len(sign), 0)
    IN (IF {"-", "0"} \cap c.flags = {} THEN Repeat(" ", pad) ELSE <<>>)
           \o sign \o prefix
           \o (IF "0" \in c.flags THEN Repeat("0", pad) ELSE <<>>)
           \o Reverse(cp)
           \o (IF "-" \in c.flags THEN Repeat(" ", pad) ELSE <<>>)

FormatString(string, c) ==
    LET pad == Repeat(" ", Largest(c.width - Len(string), 0))
    IN IF "-" \in c.flags THEN string \o pad ELSE pad \o string

\* strnlen() with the precision as it stands: -1 is the largest size.
UpToPrecision(arg, precision) ==
    LET string == IF arg = NULL THEN <<"(", "n", "u", "l", "l", ")">> ELSE arg
    IN IF precision = -1 \/ Len(string) <= precision THEN string ELSE SubSeq(string, 1, precision)

(***************************************************************************)
(* __vprintf(): an item of a format is a character, %% among them, or a    *)
(* conversion with its argument.                                           *)
(***************************************************************************)
Convert(item, bits) ==
    LET c == item.c  Value(signed) == Argument(item.arg, bits[c.type], signed)
        Magnitude(v) == IF v < 0 THEN -v ELSE v
    IN CASE item.conv \in {"d", "i"} ->
                FormatInteger(Magnitude(Value(TRUE)), TRUE, Value(TRUE) < 0, base_d, c)
         [] item.conv = "o" -> FormatInteger(Value(FALSE), FALSE, FALSE, base_o, c)
         [] item.conv = "u" -> FormatInteger(Value(FALSE), FALSE, FALSE, base_d, c)
         [] item.conv = "x" -> FormatInteger(Value(FALSE), FALSE, FALSE, base_x, c)
         [] item.conv = "X" -> FormatInteger(Value(FALSE), FALSE, FALSE, base_X, c)
         [] item.conv = "c" -> FormatString(item.arg, c)
         [] item.conv = "s" -> FormatString(UpToPrecision(item.arg, c.precision), c)
         [] item.conv = "p" -> FormatInteger(item.arg, FALSE, FALSE, base_x, [c EXCEPT !.flags = {"#"}])
         [] item.conv \in {"f", "e", "E", "g", "G", "n"} -> <<"<<no %", item.conv, " in kernel>>">>
         [] OTHER -> <<"<<no %", item.conv, " conversion>>">>

Vprintf(items, bits) ==
    FoldLeft(LAMBDA out, item : out \o (IF item.conv = "" THEN item.arg ELSE Convert(item, bits)), <<>>, items)

\* vsnprintf(): the text and the zero, as many as there is room for, and the length
\* the text would have had.
Vsnprintf(buf_size, text) ==
    [buffer |-> IF buf_size = 0 THEN <<>>
                ELSE Append(SubSeq(text, 1, IF Len(text) < buf_size - 1 THEN Len(text) ELSE buf_size - 1), "0"),
     returned |-> Len(text)]

(***************************************************************************)
(* hex_dump(): the lines, each with the columns it fills from start to     *)
(* end, and their text, per_line columns of bytes and of characters.       *)
(***************************************************************************)
DumpLines(ofs, size, per_line) ==
    LET Turn(s, k) ==
            IF s.size = 0 THEN s
            ELSE LET start == s.ofs % per_line
                     end == IF per_line - start > s.size THEN start + s.size ELSE per_line
                 IN [ofs |-> s.ofs + end - start, size |-> s.size - (end - start),
                     lines |-> Append(s.lines, [ofs |-> s.ofs - start, start |-> start, end |-> end])]
    IN FoldLeft(Turn, [ofs |-> ofs, size |-> size, lines |-> <<>>], [k \in 1..size |-> k]).lines

DumpText(line, bytes, per_line, ascii, hex, printable) ==
    LET Columns(from, to, C(_)) == FoldLeft(LAMBDA t, i : t \o C(i), <<>>, [k \in 1..(to - from) |-> from + k - 1])
        Blank(n) == Repeat(" ", n)
        ByteText(i) == hex[bytes[i - line.start + 1]] \o <<IF i = per_line \div 2 - 1 THEN "-" ELSE " ">>
        Char(i) == LET ch == bytes[i - line.start + 1] IN <<IF ch \in printable THEN ch ELSE ".">>
    IN Columns(0, line.start, LAMBDA i : Blank(3)) \o Columns(line.start, line.end, ByteText)
           \o (IF ~ascii THEN <<>>
               ELSE Columns(line.end, per_line, LAMBDA i : Blank(3)) \o <<"|">>
                    \o Columns(0, line.start, LAMBDA i : Blank(1)) \o Columns(line.start, line.end, Char)
                    \o Columns(line.end, per_line, LAMBDA i : Blank(1)) \o <<"|">>)

(***************************************************************************)
(* The console: a lock that its holder may take again, by a depth, left    *)
(* alone by interrupt handlers and once the kernel panics.  t is the       *)
(* thread, or the thread an interrupt handler runs in.                     *)
(***************************************************************************)
ConsoleInit == [holder |-> NULL, depth |-> 0, use |-> TRUE, write_cnt |-> 0]
ConsolePanic(con) == [con EXCEPT !.use = FALSE]

\* Whether a thread has to wait for the lock.
MustWait(con, t, intr) == ~intr /\ con.use /\ con.holder \notin {t, NULL}

AcquireConsole(con, t, intr) ==
    IF intr \/ ~con.use THEN con
    ELSE IF con.holder = t THEN [con EXCEPT !.depth = @ + 1]
    ELSE [con EXCEPT !.holder = t]

ReleaseConsole(con, t, intr) ==
    IF intr \/ ~con.use THEN con
    ELSE IF con.depth > 0 THEN [con EXCEPT !.depth = @ - 1]
    ELSE [con EXCEPT !.holder = NULL]

LockedByCurrent(con, t, intr) == intr \/ ~con.use \/ con.holder = t

\* putchar(), puts(), putbuf() and vprintf() of n characters, if they need not wait
\* and the assertion holds at each of them.
ConsolePrint(con, t, intr, n) ==
    LET taken == AcquireConsole(con, t, intr)
    IN [ok |-> ~MustWait(con, t, intr) /\ LockedByCurrent(taken, t, intr),
        con |-> ReleaseConsole([taken EXCEPT !.write_cnt = @ + n], t, intr)]
=============================================================================
