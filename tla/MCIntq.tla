------------------------------- MODULE MCIntq -------------------------------
(* Small instances for Intq; and arithmetic, random numbers and time on   *)
(* all inputs of a small size.                                             *)
EXTENDS Intq, TLC, Integers

CONSTANTS r1, r2, r3, x, y

ThreeThreads == {r1, r2, r3}
TwoBytes == {x, y}
OneByte == {x}
Symmetry == Permutations(ThreeThreads)

(***************************************************************************)
(* Long division with words of four bits, for every dividend and divisor:  *)
(* divl never traps, quotients are right, and a remainder is right when it *)
(* is a word (a long one is cut, arithmetic.c:131, 150).                   *)
(***************************************************************************)
N == INSTANCE Numbers
ASSUME LongDivision == \A n \in 0..255, e \in 1..255 :
    /\ N!udiv64(n, e, 4) = n \div e
    /\ N!umod64(n, e, 4) = (n % e) % 16
ASSUME SignedDivision == \A n \in {-128, -127, -100} \union (-40..40) \union {127}, e \in (-128..127) \ {0} :
    LET q == N!Quotient(n, e)
    IN <<n, e>> # <<-128, -1>> =>
           /\ N!sdiv64(n, e, 4) = q
           /\ N!smod64(n, e, 4) = n - (e * q) <=> n - (e * q) \in -8..7
ASSUME LeadingZeros == \A w \in 1..255 : 2^(7 - N!nlz(w, 8)) <= w /\ w < 2^(8 - N!nlz(w, 8))

\* The table of the generator stays a permutation, whatever the seed, and the same
\* seed gives the same numbers, in one piece or in two.
ASSUME RandomRepeats == \A seed1 \in 0..7, seed2 \in 0..7 :
    LET gen == N!random_init(<<seed1, seed2>>, 8)
        r == N!random_bytes(gen, 5, 8)  half == N!random_bytes(gen, 1, 8)
    IN /\ {gen.s[i] : i \in 0..7} = 0..7 /\ {r.gen.s[i] : i \in 0..7} = 0..7
       /\ half.buf \o N!random_ulong(half.gen, 8).buf = r.buf

(***************************************************************************)
(* The clock: the seconds go on from 1971 to 2037 without a gap inside a   *)
(* month, and the whole of the month counts as past on its first day       *)
(* (rtc.c:86), so the time is that many days ahead, and one more or less   *)
(* where the leap years are taken a year or two late (rtc.c:85, 88).       *)
(***************************************************************************)
LeapDays(years) == (years + 1) \div 4   \* in the years after 1970, up to 2099
TrueDays(years, mon, mday) ==
    LET before == [k \in 1..12 |-> IF k < mon THEN N!days_per_month[k] ELSE 0]
        Sum12 == before[1] + before[2] + before[3] + before[4] + before[5] + before[6] + before[7] + before[8]
                     + before[9] + before[10] + before[11] + before[12]
    IN (years * 365) + LeapDays(years) + Sum12 + (IF mon > 2 /\ (years + 2) % 4 = 0 THEN 1 ELSE 0) + mday - 1
ASSUME ClockAhead == \A year \in (71..99) \union (0..37), mon \in 1..12 :
    LET ahead == N!Days(year, mon, 1) - TrueDays(N!YearsSince1970(year), mon, 1)
    IN ahead - N!days_per_month[mon] \in {-1, 0}
ASSUME ClockReads ==
    /\ \A ten \in 0..9, one \in 0..9 : N!bcd_to_bin((16 * ten) + one) = (10 * ten) + one
    /\ N!rtc_get_time([year |-> 112, mon |-> 1, mday |-> 1, hour |-> 35, min |-> 89, sec |-> 87]) =
           (31 * 86400) + (23 * 3600) + (59 * 60) + 57
    /\ N!StableReading([n \in 1..4 |-> [sec |-> n]], [n \in 1..4 |-> IF n < 3 THEN n + 1 ELSE n]) = [sec |-> 3]

(***************************************************************************)
(* Calibration is never short by more than the last of the bits it tries,  *)
(* but it is up to a third too long: each bit is tried with the highest    *)
(* one alone and not with those that were kept before it (timer.c:71), so  *)
(* that all the bits below one that fits are kept.                         *)
(***************************************************************************)
ASSUME Calibrated ==
    /\ \A perTick \in (1024..1100) \union {1535, 1536, 1537, 2047, 2048, 3000, 30000} :
          LET found == N!timer_calibrate(perTick, 1024, 16)
              high == CHOOSE h \in {2^k : k \in 10..15} : h <= perTick /\ perTick < 2 * h
          IN found > perTick - (high \div 512) /\ 3 * found <= 4 * perTick /\ high <= found /\ found < 2 * high
    /\ N!timer_calibrate(1536, 1024, 16) = 2046
ASSUME CalibrationFails == N!timer_calibrate(2^15, 1024, 16) = N!Trap
ASSUME DelaysShort == \A freq \in {19, 100, 1000}, ms \in {0, 1, 9, 10, 53, 200} :
    LET s == N!real_time_sleep(ms, 1000, 4096, freq)
    IN /\ s.ticks * 1000 <= ms * freq /\ (s.ticks + 1) * 1000 > ms * freq
       /\ s.ticks = 0 => s.loops <= (ms * freq * 4096) \div 1000
       /\ N!PitCount(freq) \in 1..65535
=============================================================================
