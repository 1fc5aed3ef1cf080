------------------------------ MODULE Numbers ------------------------------
(***************************************************************************)
(* Numbers and time: lib/arithmetic.c, lib/random.c, devices/rtc.c and the *)
(* conversions of devices/timer.c.  A word of the 32 bits of the code has  *)
(* b here, and a long one twice as many.                                   *)
(***************************************************************************)
EXTENDS Integers, Sequences, SequencesExt

Unsigned(v, w) == v % 2^w
Signed(v, w) == IF Unsigned(v, w) >= 2^(w - 1) THEN Unsigned(v, w) - 2^w ELSE Unsigned(v, w)

\* Division of C, towards zero.
Quotient(n, d) == IF (n < 0) = (d < 0) THEN (IF n < 0 THEN -n ELSE n) \div (IF d < 0 THEN -d ELSE d)
                  ELSE -((IF n < 0 THEN -n ELSE n) \div (IF d < 0 THEN -d ELSE d))

(***************************************************************************)
(* Long division.  divl is an instruction: its quotient is a word, and     *)
(* where it would not be it traps, -1 here.                                *)
(***************************************************************************)
Trap == -1
divl(n, d, b) == IF d = 0 \/ n \div d >= 2^b THEN Trap ELSE n \div d

\* Halves of the word, then halves of that, down to one bit.
nlz(x, b) ==
    LET Halve(s, k) ==
            LET step == b \div 2^k
            IN IF step = 0 \/ s.x > 2^(b - step) - 1 THEN s
               ELSE [x |-> Unsigned(s.x * 2^step, b), n |-> s.n + step]
    IN FoldLeft(Halve, [x |-> x, n |-> 0], [k \in 1..b |-> k]).n

udiv64(n, d, b) ==
    LET n1 == n \div 2^b  n0 == n % 2^b  d1 == d \div 2^b
        low == divl((2^b * (n1 % d)) + n0, d, b)
        s == nlz(d1, b)
        top == divl(n \div 2, Unsigned(d * 2^s, 2 * b) \div 2^b, b)
        q == top \div 2^(b - 1 - s)
    IN IF d1 = 0 THEN (IF low = Trap THEN Trap ELSE low + (2^b * (n1 \div d)))
       ELSE IF n < d THEN 0
       ELSE IF top = Trap THEN Trap
       ELSE IF Unsigned(n - ((q - 1) * d), 2 * b) < d THEN Unsigned(q - 1, 2 * b) ELSE q

sdiv64(n, d, b) ==
    LET q_abs == udiv64(Unsigned(IF n >= 0 THEN n ELSE -n, 2 * b), Unsigned(IF d >= 0 THEN d ELSE -d, 2 * b), b)
    IN IF q_abs = Trap THEN Trap
       ELSE IF (n < 0) = (d < 0) THEN Signed(q_abs, 2 * b) ELSE Signed(-Signed(q_abs, 2 * b), 2 * b)

\* The remainders are returned as words, not as long ones.
umod64(n, d, b) == Unsigned(n - (d * udiv64(n, d, b)), b)
smod64(n, d, b) == Signed(n - (d * sdiv64(n, d, b)), b)

(***************************************************************************)
(* random.c: a generator with a table of size numbers below size.          *)
(***************************************************************************)
swap_byte(s, i, j) == [s EXCEPT ![i] = s[j], ![j] = s[i]]
random_init(seedp, size) ==
    LET Mix(t, i) == LET j == (t.j + t.s[i] + seedp[(i % Len(seedp)) + 1]) % size
                     IN [s |-> swap_byte(t.s, i, j), j |-> j]
    IN [s |-> FoldLeft(Mix, [s |-> [i \in 0..(size - 1) |-> i], j |-> 0], [k \in 1..size |-> k - 1]).s,
        i |-> 0, j |-> 0]

random_bytes(gen, n, size) ==
    LET NextByte(t, k) ==
            LET i == (t.gen.i + 1) % size
                j == (t.gen.j + t.gen.s[i]) % size
                s == swap_byte(t.gen.s, i, j)
            IN [gen |-> [s |-> s, i |-> i, j |-> j], buf |-> Append(t.buf, s[(s[i] + s[j]) % size])]
    IN FoldLeft(NextByte, [gen |-> gen, buf |-> <<>>], [k \in 1..n |-> k])
random_ulong(gen, size) == random_bytes(gen, 4, size)

(***************************************************************************)
(* rtc.c.  regs[n] are the registers at the n-th time they are all read,   *)
(* and after[n] the seconds when they are read again: rtc_get_time() takes *)
(* the first ones whose seconds have not changed.                          *)
(***************************************************************************)
bcd_to_bin(x) == (x % 16) + ((x \div 16) * 10)
StableReading(regs, after) ==
    regs[CHOOSE n \in DOMAIN regs : regs[n].sec = after[n] /\ \A m \in 1..(n - 1) : regs[m].sec # after[m]]

days_per_month == <<31, 28, 31, 30, 31, 30, 31, 31, 30, 31, 30, 31>>
YearsSince1970(year) == (IF year < 70 THEN year + 100 ELSE year) - 70
Days(year, mon, mday) ==
    LET years == YearsSince1970(year)
    IN (years * 365) + Quotient(years - 1, 4)
           + FoldLeft(LAMBDA t, i : t + days_per_month[i], 0, [k \in 1..mon |-> k])
           + (IF mon > 2 /\ years % 4 = 0 THEN 1 ELSE 0) + (mday - 1)
rtc_get_time(r) ==
    (Days(bcd_to_bin(r.year), bcd_to_bin(r.mon), bcd_to_bin(r.mday)) * 24 * 60 * 60)
        + (bcd_to_bin(r.hour) * 60 * 60) + (bcd_to_bin(r.min) * 60) + bcd_to_bin(r.sec)

(***************************************************************************)
(* timer.c.  The count the 8254 divides its clock by; loops that are too   *)
(* many for a tick, when it has time for perTick of them; and delays.      *)
(***************************************************************************)
PitCount(TIMER_FREQ) == (1193180 + (TIMER_FREQ \div 2)) \div TIMER_FREQ
too_many_loops(loops, perTick) == loops > perTick

\* Doubled from first until it is too much; the bits below are each tried with the
\* highest one alone.  Trap is the assertion that fails when a word is too short.
timer_calibrate(perTick, first, w) ==
    LET Double(l, k) == IF l = 0 \/ too_many_loops(Unsigned(2 * l, w), perTick) THEN l ELSE Unsigned(2 * l, w)
        high_bit == FoldLeft(Double, first, [k \in 1..w |-> k])
        Refine(l, k) == LET test_bit == high_bit \div 2^k
                        IN IF too_many_loops(high_bit + test_bit, perTick) THEN l ELSE l + test_bit
    IN IF high_bit = 0 THEN Trap ELSE FoldLeft(Refine, high_bit, [k \in 1..9 |-> k])

\* Loops of a delay of num/denom seconds, and what a sleep is: a number of ticks to
\* sleep or, if that is not even one, such loops.
real_time_delay(num, denom, loops_per_tick, TIMER_FREQ) ==
    Quotient(Quotient(loops_per_tick * num, 1000) * TIMER_FREQ, denom \div 1000)
real_time_sleep(num, denom, loops_per_tick, TIMER_FREQ) ==
    LET ticks == Quotient(num * TIMER_FREQ, denom)
    IN IF ticks > 0 THEN [ticks |-> ticks, loops |-> 0]
       ELSE [ticks |-> 0, loops |-> real_time_delay(num, denom, loops_per_tick, TIMER_FREQ)]
=============================================================================
