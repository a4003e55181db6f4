---------------------------- MODULE NucleoBench ----------------------------
(***************************************************************************)
(* boards/nucleo-f446re/firmware: what NucleoFirmware takes for granted.   *)
(* How run_benchmark comes to its verdict and to the numbers it reports:   *)
(* the cycle counter that wraps, the aggregates of three loops, the median *)
(* of the timer's own cost, the painted stack, the baud rate register.     *)
(*                                                                         *)
(* The codec is external: a call takes some cycles and is right or wrong.  *)
(***************************************************************************)
EXTENDS Integers, FiniteSets

CONSTANTS
    Word,         \* values of the cycle counter and of a uint32_t
    DoubleWord,   \* values of a uint64_t
    Iterations,   \* calls timed in each loop
    Elapsed,      \* cycles a call may take
    Samples,      \* samples of the timer's own cost
    Overheads,    \* cycles it may take
    StackWords,   \* size of the .stack section
    GuardWords,   \* what paint_stack leaves unpainted at its top
    UartWord,     \* values of a uint32_t at the scale of a clock in Hz
    Clocks, Bauds \* settings to try the baud divisor on

\* A call ends before the counter is back where it began, a loop's sum fits, and a
\* baud rate is far below what a uint32_t holds.
ASSUME BenchAssumption ==
    /\ Word \in Nat \ {0} /\ DoubleWord \in Nat \ {0}
    /\ Iterations \in Nat \ {0}
    /\ Elapsed # {} /\ Elapsed \subseteq 0 .. Word - 1
    /\ Iterations * (Word - 1) < DoubleWord
    /\ Samples \in Nat \ {0} /\ Overheads # {} /\ Overheads \subseteq 0 .. Word - 1
    /\ StackWords \in Nat /\ GuardWords \in 0 .. StackWords
    /\ UartWord \in Nat \ {0}
    /\ Clocks \subseteq Nat /\ Bauds \subseteq {b \in Nat \ {0} : 50 * b < UartWord}

VARIABLES
    at,      \* where main is
    i,       \* iterations done in the current loop
    g,       \* g_result but for
    stats,   \* its aggregates of the three loops
    buf,     \* does g_encode_buffer hold the sample's encoding
    stack,   \* words of the .stack section that do not hold the paint pattern
    raw,     \* history: the overhead samples as they were taken
    took,    \* history: the cycles each loop's calls took
    total,   \* history: their sum
    slips,   \* history: the ways in which a call of a loop has gone wrong
    deepest  \* history: words of stack in use at the deepest point

vars == <<at, i, g, stats, buf, stack, raw, took, total, slips, deepest>>
history == <<raw, took, total, slips, deepest>>

Loops == {"encode", "decode", "roundtrip"}
Places == {"reset", "start", "dwt", "proof", "proved", "concluded", "begin", "hex",
           "end", "beat"} \cup Loops

\* Words are numbered from __StackLimit up.
Words == 1 .. StackWords

\* What paint_stack leaves alone, and what a stack of this depth uses.
Guard == {w \in Words : w > StackWords - GuardWords}
Used(depth) == {w \in Words : w > StackWords - depth}

\* What may be wrong: an encode's status or length, the bytes of one whose status and
\* length are right, a decode, a round trip.
Slips == {"flagged", "bytes", "decode", "roundtrip"}

Aggregates == [min : 0 .. Word - 1, max : 0 .. Word - 1, sum : 0 .. DoubleWord - 1]
Zeroed == [min |-> 0, max |-> 0, sum |-> 0]
Fresh == [min |-> Word - 1, max |-> 0, sum |-> 0]

GResults == [state : {"init", "started", "complete"}, code : {"pending", "pass", "fail"},
             overhead : 0 .. Word - 1, count : {0, Iterations},
             failures : 0 .. 3 * Iterations, watermark : 0 .. StackWords]

\* .bss after copy_and_zero.
NoResult == [state |-> "init", code |-> "pending", overhead |-> 0, count |-> 0,
             failures |-> 0, watermark |-> 0]
NoStats == [l \in Loops |-> Zeroed]

BenchTypeOK ==
    /\ at \in Places
    /\ i \in 0 .. Iterations
    /\ g \in GResults
    /\ stats \in [Loops -> Aggregates]
    /\ buf \in BOOLEAN
    /\ stack \subseteq Words
    /\ took \in [Loops -> SUBSET Elapsed]
    /\ total \in [Loops -> Nat]
    /\ slips \subseteq Slips
    /\ deepest \in 0 .. StackWords

NoHistory ==
    /\ raw = <<>>
    /\ took = [l \in Loops |-> {}]
    /\ total = [l \in Loops |-> 0]
    /\ slips = {}
    /\ deepest = 0

ClearHistory ==
    /\ raw' = <<>>
    /\ took' = [l \in Loops |-> {}]
    /\ total' = [l \in Loops |-> 0]
    /\ slips' = {}
    /\ deepest' = 0

BenchInit == at = "reset" /\ i = 0 /\ g = NoResult /\ stats = NoStats
             /\ buf = FALSE /\ stack = {} /\ NoHistory

----------------------------------------------------------------------------
(* Arithmetic *)

\* Mutant: the difference is taken as if the counter never wrapped.
DeltaUnwrapped(start, e) ==
    LET end == (start + e) % Word IN IF end < start THEN start - end ELSE end - start

\* Mutant: the difference is kept as it comes.
DeltaSigned(start, e) == ((start + e) % Word) - start

\* end - start on uint32_t, `e' cycles after a read that gave `start'.
Delta(start, e) == (((start + e) % Word) - start) % Word

Updated(a, d) ==
    [min |-> IF d < a.min THEN d ELSE a.min,
     max |-> IF d > a.max THEN d ELSE a.max,
     sum |-> (a.sum + d) % DoubleWord]

\* One round of sort_u32: v[k] moves down past everything greater.
Inserted(v, k) ==
    LET j == CHOOSE m \in 0 .. k : /\ \A n \in m .. k - 1 : v[n] > v[k]
                                   /\ m = 0 \/ v[m - 1] <= v[k]
    IN [n \in DOMAIN v |-> IF n < j \/ n > k THEN v[n]
                           ELSE IF n = j THEN v[k] ELSE v[n - 1]]

\* Mutant: the last sample is never inserted.
SortedButLast(v) ==
    LET rounds[k \in 0 .. Samples - 1] == IF k = 0 THEN v ELSE Inserted(rounds[k - 1], k)
    IN IF Samples = 1 THEN v ELSE rounds[Samples - 2]

Sorted(v) ==
    LET rounds[k \in 0 .. Samples - 1] == IF k = 0 THEN v ELSE Inserted(rounds[k - 1], k)
    IN rounds[Samples - 1]

Median(v) == Sorted(v)[Samples \div 2]

\* Mutant: painting stops one word short of the guard.
PaintedShort(words) == {w \in words : w >= StackWords - GuardWords}

\* paint_stack: everything from __StackLimit to the guard holds the pattern.
Painted(words) == words \cap Guard

\* stack_watermark_bytes, in words: the scan goes up from __StackLimit and stops at
\* the first word that is not painted.
Watermark(words) ==
    IF words = {} THEN 0
    ELSE StackWords + 1 - (CHOOSE w \in words : \A v \in words : w <= v)

\* (mantissa << 4) | fraction, for a fraction of 0 .. 16.
Packed(mantissa, fraction) ==
    mantissa * 16 + IF fraction < 16 THEN fraction ELSE IF mantissa % 2 = 1 THEN 0 ELSE 16

\* Mutant: a fraction rounded up to 16 is not carried.
BrrNoCarry(clock, baud) ==
    LET x100 == ((clock * 25) % UartWord) \div (4 * baud)
        mantissa == x100 \div 100
    IN Packed(mantissa, ((x100 - mantissa * 100) * 16 + 50) \div 100)

\* clock * 25 is the one intermediate value that may not fit.
Brr(clock, baud) ==
    LET x100 == ((clock * 25) % UartWord) \div (4 * baud)
        mantissa == x100 \div 100
        fraction == ((x100 - mantissa * 100) * 16 + 50) \div 100
    IN IF fraction >= 16 THEN Packed(mantissa + 1, fraction - 16) ELSE Packed(mantissa, fraction)

----------------------------------------------------------------------------
(* Reset_Handler, run_benchmark *)

\* Mutant: .bss is not zeroed.
BootKeepsRam ==
    /\ at = "reset"
    /\ at' = "start"
    /\ i' = 0 /\ buf' = FALSE /\ (\E left \in SUBSET Words : stack' = Painted(left)) /\ ClearHistory
    /\ UNCHANGED <<g, stats>>

\* Reset_Handler; the stack holds what earlier programs have left there.
Boot ==
    /\ at = "reset"
    /\ at' = "start"
    /\ i' = 0 /\ g' = NoResult /\ stats' = NoStats
    /\ buf' = FALSE /\ (\E left \in SUBSET Words : stack' = Painted(left)) /\ ClearHistory

\* Mutant: the minima are prepared here, once for the three loops.
TestStartedWithMinima ==
    /\ at = "start"
    /\ at' = "dwt"
    /\ g' = [g EXCEPT !.state = "started", !.failures = 0]
    /\ stats' = [l \in Loops |-> Fresh]
    /\ UNCHANGED <<i, buf, stack, history>>

TestStarted ==
    /\ at = "start"
    /\ at' = "dwt"
    /\ g' = [g EXCEPT !.state = "started", !.failures = 0]
    /\ UNCHANGED <<i, stats, buf, stack, history>>

Conclude(code) == at' = "concluded" /\ g' = [g EXCEPT !.code = code]

NoDwt == at = "dwt" /\ Conclude("fail") /\ UNCHANGED <<i, stats, buf, stack, history>>

MeasureOverhead ==
    /\ at = "dwt"
    /\ \E v \in [0 .. Samples - 1 -> Overheads] :
          /\ raw' = v
          /\ g' = [g EXCEPT !.overhead = Median(v)]
    /\ at' = "proof"
    /\ UNCHANGED <<i, stats, buf, stack, took, total, slips, deepest>>

\* Encode and decode once, untimed.
Proof ==
    /\ at = "proof"
    /\ \/ Conclude("fail") /\ buf' \in BOOLEAN
       \/ at' = "proved" /\ buf' = TRUE /\ UNCHANGED g
    /\ raw' = <<>>
    /\ UNCHANGED <<i, stats, stack, took, total, slips, deepest>>

\* The loop before this one is done.
Before(l) == CASE l = "encode" -> at = "proved"
               [] l = "decode" -> at = "encode" /\ i = Iterations
               [] l = "roundtrip" -> at = "decode" /\ i = Iterations

StartLoop(l) ==
    /\ Before(l)
    /\ at' = l
    /\ i' = 0
    /\ stats' = [stats EXCEPT ![l] = Fresh]
    /\ UNCHANGED <<g, buf, stack, history>>

\* One timed iteration: what the call took, and whether it is counted a failure.
Timed(l, failed) ==
    /\ \E e \in Elapsed, start \in 0 .. Word - 1 :
          /\ stats' = [stats EXCEPT ![l] = Updated(@, Delta(start, e))]
          /\ took' = [took EXCEPT ![l] = @ \cup {e}]
          /\ total' = [total EXCEPT ![l] = @ + e]
    /\ g' = [g EXCEPT !.failures = @ + IF failed THEN 1 ELSE 0]
    /\ i' = i + 1
    /\ UNCHANGED <<at, stack, raw, deepest>>

Running(l) == at = l /\ i < Iterations

\* A call whose status or length is wrong may have written anything.
Wrote(what) == buf' \in BOOLEAN /\ (what = "fine" => buf') /\ (what = "bytes" => ~buf')

\* Mutant: an encode's status and length are not looked at.
EncodeUnchecked ==
    /\ Running("encode")
    /\ \E what \in {"fine", "flagged", "bytes"} :
          /\ Timed("encode", FALSE)
          /\ Wrote(what)
          /\ slips' = slips \cup ({what} \ {"fine"})

\* Only status and length are looked at: wrong bytes are left to the next loop,
\* which decodes what the last call has written.
EncodeOnce ==
    /\ Running("encode")
    /\ \E what \in {"fine", "flagged", "bytes"} :
          /\ Timed("encode", what = "flagged")
          /\ Wrote(what)
          /\ slips' = slips \cup ({what} \ {"fine"})

\* validate_decoded compares every field: wrong bytes do not decode to the sample.
DecodeOnce ==
    /\ Running("decode")
    /\ \E right \in BOOLEAN :
          /\ right => buf
          /\ Timed("decode", ~right)
          /\ slips' = IF right THEN slips ELSE slips \cup {"decode"}
    /\ UNCHANGED buf

RoundtripOnce ==
    /\ Running("roundtrip")
    /\ \E right \in BOOLEAN :
          /\ Timed("roundtrip", ~right)
          /\ slips' = IF right THEN slips ELSE slips \cup {"roundtrip"}
    /\ UNCHANGED buf

\* The loops have used the stack to some depth: a word they reserved may be
\* unwritten, and one they wrote may hold the pattern.
Judge ==
    /\ at = "roundtrip" /\ i = Iterations
    /\ \E depth \in 0 .. StackWords :
          /\ deepest' = depth
          /\ \E written \in SUBSET Used(depth) : stack' = (stack \ Used(depth)) \cup written
    /\ g' = [g EXCEPT !.count = Iterations, !.watermark = Watermark(stack'),
                      !.code = IF g.failures = 0 THEN "pass" ELSE "fail"]
    /\ at' = "concluded"
    /\ UNCHANGED <<i, stats, buf, raw, took, total, slips>>

Complete ==
    /\ at = "concluded"
    /\ at' = "begin"
    /\ g' = [g EXCEPT !.state = "complete"]
    /\ UNCHANGED <<i, stats, buf, stack, history>>

\* report_result, part by part, and then the heartbeat.
Report ==
    /\ \/ at = "begin" /\ at' = "hex"
       \/ at = "hex" /\ at' = "end"
       \/ at = "end" /\ at' = "beat"
    /\ UNCHANGED <<i, g, stats, buf, stack, history>>

BenchStep ==
    \/ Boot \/ TestStarted \/ NoDwt \/ MeasureOverhead \/ Proof
    \/ (\E l \in Loops : StartLoop(l))
    \/ EncodeOnce \/ DecodeOnce \/ RoundtripOnce \/ Judge \/ Complete \/ Report

\* The runner's st-flash reset.
BenchReset == at' = "reset" /\ UNCHANGED <<i, g, stats, buf, stack, history>>

----------------------------------------------------------------------------
(* What the firmware promises about its report *)

\* Minimum, maximum and sum of every loop are those of the cycles its calls took,
\* wherever the 32-bit counter stood and wrapped, and no sum has overflowed.
AggregatesAreExact ==
    g.count > 0 => \A l \in Loops :
        /\ stats[l].sum = total[l]
        /\ stats[l].min \in took[l] /\ stats[l].max \in took[l]
        /\ \A e \in took[l] : stats[l].min <= e /\ e <= stats[l].max

\* A pass has no wrong decode and no wrong round trip in any loop and no encode of
\* bad status or length; the one thing it lets by is an encode of right status and
\* length but wrong bytes, which a later encode has overwritten.
PassIsEarned == g.code = "pass" => buf /\ slips \subseteq {"bytes"}

\* The reported timing overhead is the (upper) median of the samples taken: the
\* insertion sort over the static buffer loses and misplaces none.
OverheadIsMedian ==
    raw # <<>> =>
        /\ 2 * Cardinality({k \in DOMAIN raw : raw[k] < g.overhead}) <= Samples
        /\ 2 * Cardinality({k \in DOMAIN raw : raw[k] > g.overhead}) < Samples

\* The stack watermark covers every word the benchmark has overwritten, and claims
\* no more than it used at its deepest or than the unpainted guard, whatever earlier
\* runs left on the stack. Of words reserved but never written, or written with the
\* paint's own value, it promises nothing.
WatermarkCoversStack ==
    g.count > 0 =>
        /\ \A w \in stack : g.watermark >= StackWords + 1 - w
        /\ g.watermark <= deepest \/ g.watermark <= GuardWords

\* What the register asks for, off the clock by no more than this, is a usable rate:
\* two thirds of a unit of clock / baud.
Close(clock, baud) ==
    LET off == Brr(clock, baud) * baud - clock IN 3 * off <= 2 * baud /\ -3 * off <= 2 * baud

\* The baud rate register is that close exactly for the clocks whose product with 25
\* a uint32_t holds (those below 171.8 MHz): up to there the scaled division and the
\* carry from fraction to mantissa lose no more, and beyond the rate is wrong.
BaudRateIsClose ==
    at = "reset" => \A c \in Clocks, b \in Bauds : Close(c, b) <=> 25 * c < UartWord

----------------------------------------------------------------------------
(* NucleoFirmware, which the runner is checked against, is what this looks  *)
(* like from outside                                                        *)

Firmware == INSTANCE NucleoFirmware WITH
    Images <- {"built"}, NoImage <- "nothing", MaxFaults <- 0,
    flash <- "built", cleared <- TRUE,
    core <- IF at \in {"reset", "start", "concluded", "begin", "hex", "end", "beat"}
            THEN at ELSE "bench",
    gres <- [img |-> IF g.state = "init" THEN "nothing" ELSE "built",
             state |-> g.state, code |-> g.code],
    vcp <- "ok", swd <- "ok", link <- FALSE, rx <- <<>>, faults <- 0

\* Every step of the benchmark is a step of the firmware as NucleoHil knows it, or
\* none: the result code is stored before the state on each of run_benchmark's
\* four ways out, and nothing is sent before the state.
IsTheFirmware == [][Firmware!FirmwareStep \/ Firmware!ResetCore]_(Firmware!benchVars)
=============================================================================
