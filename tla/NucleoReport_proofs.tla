------------------------ MODULE NucleoReport_proofs ------------------------
(***************************************************************************)
(* The numbers of the NUCLEO's report are right and its verdict is earned, *)
(* for every width of the cycle counter, every number of iterations whose  *)
(* sum fits, every stack whatever it holds, every clock that the baud rate *)
(* can be computed from, and whatever the calls of the codec take; and the *)
(* benchmark that makes them is the firmware that the runner is checked    *)
(* against.                                                                *)
(*                                                                         *)
(* The sort behind the median is the one piece of recursion proved about:  *)
(* its table of rounds exists and every round is what the rounds before it *)
(* make of the samples, each by a least counterexample.                    *)
(***************************************************************************)
EXTENDS NucleoReport, FiniteSetTheorems, TLAPS

\* From the reset handler's end to the first loop.
BeforeLoops == {"start", "dwt", "proof", "proved"}

\* The record g_result is, whatever its fields hold.
GShape ==
    /\ g = [state |-> g.state, code |-> g.code, overhead |-> g.overhead, count |-> g.count,
            failures |-> g.failures, watermark |-> g.watermark]
    /\ g.code \in {"pending", "pass", "fail"}
    /\ g.count \in {0, Iterations}
    /\ g.failures \in Nat

\* Types, without the ranges of g_result's numbers, which Ranged gives below.
Types ==
    /\ at \in Places
    /\ i \in 0 .. Iterations
    /\ GShape
    /\ stats \in [Loops -> Aggregates]
    /\ buf \in BOOLEAN
    /\ took \in [Loops -> SUBSET Elapsed]
    /\ total \in [Loops -> Nat]

\* No call of loop l has been timed.
Untouched(l) == took[l] = {} /\ total[l] = 0

\* Loop l's aggregates after n of its iterations.
Holds(l, n) ==
    /\ stats[l].sum = total[l]
    /\ total[l] <= n * (Word - 1)
    /\ n = 0 => stats[l] = Fresh /\ Untouched(l)
    /\ n > 0 => /\ stats[l].min \in took[l] /\ stats[l].max \in took[l]
                /\ \A e \in took[l] : stats[l].min <= e /\ e <= stats[l].max
                /\ n * stats[l].min <= total[l] /\ total[l] <= n * stats[l].max

\* What has been timed by now, loop by loop.
LoopsHold ==
    /\ at \in BeforeLoops => \A l \in Loops : Untouched(l)
    /\ at = "encode" => Holds("encode", i) /\ Untouched("decode") /\ Untouched("roundtrip")
    /\ at = "decode" => Holds("encode", Iterations) /\ Holds("decode", i) /\ Untouched("roundtrip")
    /\ at = "roundtrip" => /\ Holds("encode", Iterations) /\ Holds("decode", Iterations)
                           /\ Holds("roundtrip", i)
    /\ g.count > 0 => \A l \in Loops : Holds(l, Iterations)
    /\ at \in BeforeLoops \cup Loops => g.count = 0

\* What no counted failure means: only bytes are wrong, and once a decode has been
\* right not those in the buffer.
Unflagged ==
    /\ at \in BeforeLoops => slips = {} /\ g.code = "pending"
    /\ at \in Loops => g.code = "pending"
    /\ g.failures = 0 /\ at \in Loops =>
          /\ slips \subseteq {"bytes"}
          /\ at = "decode" /\ i > 0 => buf
          /\ at = "roundtrip" => buf

\* The benchmark's inductive invariant.
BenchInv == Types /\ LoopsHold /\ Unflagged /\ PassIsEarned

----------------------------------------------------------------------------
(* Arithmetic *)

\* The solver's one fact about products: a factor's order is the product's.
LEMMA ProductOrder ==
    ASSUME NEW a \in Nat, NEW b \in Nat, NEW n \in Nat, a <= b
    PROVE  n * a <= n * b
OBVIOUS

\* What integer division gives.
LEMMA Quotient ==
    ASSUME NEW x \in Nat, NEW d \in Nat \ {0}
    PROVE  x \div d \in Nat /\ d * (x \div d) <= x /\ x < d * (x \div d) + d
OBVIOUS

\* One more call moves sum and extremes together.
LEMMA ExtremesEncloseSum ==
    ASSUME NEW n \in Nat, NEW t \in Nat, NEW e \in Nat, NEW lo \in Nat, NEW hi \in Nat,
           n * lo <= t, t <= n * hi,
           NEW lo2 \in Nat, NEW hi2 \in Nat, lo2 <= lo, lo2 <= e, hi <= hi2, e <= hi2
    PROVE  (n + 1) * lo2 <= t + e /\ t + e <= (n + 1) * hi2
<1>1. n * lo2 <= n * lo /\ n * hi <= n * hi2
  BY ProductOrder
<1>2. (n + 1) * lo2 = n * lo2 + lo2 /\ (n + 1) * hi2 = n * hi2 + hi2
  OBVIOUS
<1>3. n * lo \in Nat /\ n * lo2 \in Nat /\ n * hi \in Nat /\ n * hi2 \in Nat
  OBVIOUS
<1> QED
  BY <1>1, <1>2, <1>3

\* The difference of two reads is what went by, wrapped or not.
LEMMA DeltaIsElapsed ==
    ASSUME NEW start \in 0 .. Word - 1, NEW e \in 0 .. Word - 1
    PROVE Delta(start, e) = e
<1>0. Word \in Nat \ {0}
  BY BenchAssumption
<1>1. CASE start + e < Word
  <2>1. (start + e) % Word = start + e
    BY <1>0, <1>1
  <2>2. e % Word = e
    BY <1>0
  <2> QED
    BY <2>1, <2>2 DEF Delta
<1>2. CASE start + e >= Word
  <2>1. (start + e) % Word = start + e - Word
    BY <1>0, <1>2
  <2>2. (e - Word) % Word = e
    BY <1>0
  <2>3. ((start + e) % Word) - start = e - Word
    BY <1>0, <2>1
  <2>4. (((start + e) % Word) - start) % Word = e
    BY <2>2, <2>3
  <2> QED
    BY <2>4 DEF Delta
<1> QED
  BY <1>0, <1>1, <1>2

\* After n < Iterations calls there is room for one more.
LEMMA RoomForOneMore ==
    ASSUME NEW n \in Nat, n < Iterations, NEW t \in Nat, t <= n * (Word - 1),
           NEW e \in 0 .. Word - 1
    PROVE /\ t + e <= (n + 1) * (Word - 1)
          /\ t + e < DoubleWord
          /\ (t + e) % DoubleWord = t + e
<1> DEFINE w == Word - 1
<1>0. w \in Nat /\ Iterations \in Nat /\ DoubleWord \in Nat \ {0} /\ Iterations * w < DoubleWord
  BY BenchAssumption
<1> HIDE DEF w
<1>1. (n + 1) * w = n * w + w
  BY <1>0
<1>2. (n + 1) * w <= Iterations * w
  BY <1>0
<1>3. n * w \in Nat /\ Iterations * w \in Nat
  BY <1>0
<1>4. t <= n * w /\ e <= w
  BY DEF w
<1>5. t + e <= (n + 1) * w /\ t + e < DoubleWord
  BY <1>0, <1>1, <1>2, <1>3, <1>4
<1>6. (t + e) % DoubleWord = t + e
  BY <1>0, <1>5
<1> QED
  BY <1>5, <1>6 DEF w

\* One timed iteration.
LEMMA TimedHolds ==
    ASSUME Types, NEW l \in Loops, Holds(l, i), i < Iterations,
           NEW failed \in BOOLEAN, Timed(l, failed)
    PROVE /\ Holds(l, i)' /\ GShape'
          /\ i' = i + 1 /\ at' = at
          /\ stats' \in [Loops -> Aggregates]
          /\ took' \in [Loops -> SUBSET Elapsed] /\ total' \in [Loops -> Nat]
          /\ \A m \in Loops \ {l} : /\ took'[m] = took[m] /\ total'[m] = total[m]
                                    /\ stats'[m] = stats[m]
          /\ g'.code = g.code /\ g'.count = g.count
          /\ g'.failures = g.failures + (IF failed THEN 1 ELSE 0)
<1>0. Word \in Nat \ {0} /\ DoubleWord \in Nat \ {0} /\ Iterations \in Nat \ {0}
      /\ Elapsed \subseteq 0 .. Word - 1
  BY BenchAssumption
<1>1. PICK e \in Elapsed, start \in 0 .. Word - 1 :
        /\ stats' = [stats EXCEPT ![l] = Updated(@, Delta(start, e))]
        /\ took' = [took EXCEPT ![l] = @ \cup {e}]
        /\ total' = [total EXCEPT ![l] = @ + e]
  BY DEF Timed
<1> DEFINE s == stats[l]
           u == Updated(s, e)
<1>2. e \in 0 .. Word - 1 /\ Delta(start, e) = e
  BY <1>0, <1>1, DeltaIsElapsed
<1>3. /\ g' = [g EXCEPT !.failures = g.failures + (IF failed THEN 1 ELSE 0)]
      /\ stats' = [stats EXCEPT ![l] = u]
  BY <1>1, <1>2 DEF Timed
<1>4. s \in Aggregates /\ s.sum = total[l] /\ total[l] \in Nat /\ i \in Nat
      /\ total[l] <= i * (Word - 1)
  BY DEF Types, Holds
<1>5. /\ total[l] + e <= (i + 1) * (Word - 1)
      /\ (s.sum + e) % DoubleWord = total[l] + e
      /\ total[l] + e \in 0 .. DoubleWord - 1
  BY <1>0, <1>2, <1>4, RoomForOneMore
<1>6. u \in Aggregates
  BY <1>0, <1>2, <1>4, <1>5 DEF Updated, Aggregates
<1>7. GShape' /\ g'.code = g.code /\ g'.count = g.count
      /\ g'.failures = g.failures + (IF failed THEN 1 ELSE 0)
  BY <1>3 DEF Types, GShape
<1>8. stats'[l] = u /\ took'[l] = took[l] \cup {e} /\ total'[l] = total[l] + e
  BY <1>1, <1>3 DEF Types
<1>9. /\ u.min \in took'[l] /\ u.max \in took'[l]
      /\ \A x \in took'[l] : u.min <= x /\ x <= u.max
      /\ (i + 1) * u.min <= total[l] + e /\ total[l] + e <= (i + 1) * u.max
  <2>1. took[l] \subseteq 0 .. Word - 1
    BY <1>0 DEF Types
  <2>2. CASE i = 0
    <3>1. s = Fresh /\ took[l] = {} /\ total[l] = 0
      BY <2>2 DEF Holds, Untouched
    <3>2. u.min = e /\ u.max = e /\ i + 1 = 1
      BY <1>0, <1>2, <2>2, <3>1 DEF Updated, Fresh
    <3> QED
      BY <1>2, <1>8, <3>1, <3>2
  <2>3. CASE i > 0
    <3>1. /\ s.min \in took[l] /\ s.max \in took[l]
          /\ \A x \in took[l] : s.min <= x /\ x <= s.max
          /\ i * s.min <= total[l] /\ total[l] <= i * s.max
      BY <2>3 DEF Holds
    <3>2. s.min \in Nat /\ s.max \in Nat
      BY <1>0, <1>4 DEF Aggregates
    <3>3. u.min = (IF e < s.min THEN e ELSE s.min) /\ u.max = (IF e > s.max THEN e ELSE s.max)
      BY DEF Updated
    <3>4. /\ u.min \in Nat /\ u.max \in Nat /\ u.min <= s.min /\ u.min <= e
          /\ s.max <= u.max /\ e <= u.max
      BY <1>0, <1>2, <3>2, <3>3
    <3>5. (i + 1) * u.min <= total[l] + e /\ total[l] + e <= (i + 1) * u.max
      <4> HIDE DEF u, s
      <4>1. e \in Nat
        BY <1>0, <1>2
      <4> QED
        BY <1>4, <3>1, <3>2, <3>4, <4>1, ExtremesEncloseSum
    <3>6. /\ u.min \in took'[l] /\ u.max \in took'[l]
          /\ \A x \in took'[l] : u.min <= x /\ x <= u.max
      BY <1>0, <1>2, <1>8, <2>1, <3>1, <3>2, <3>3
    <3> QED
      BY <3>5, <3>6
  <2> QED
    BY <1>4, <2>2, <2>3
<1>10. Holds(l, i)'
  <2>1. u.sum = total'[l]
    BY <1>5, <1>8 DEF Updated
  <2>2. i' = i + 1 /\ i + 1 > 0 /\ i + 1 # 0
    BY <1>4 DEF Timed
  <2>3. total'[l] <= (i + 1) * (Word - 1)
    BY <1>5, <1>8
  <2>4. (i + 1) * u.min <= total'[l] /\ total'[l] <= (i + 1) * u.max
    BY <1>8, <1>9
  <2> QED
    BY <1>8, <1>9, <2>1, <2>2, <2>3, <2>4 DEF Holds
<1>11. /\ stats' \in [Loops -> Aggregates]
       /\ took' \in [Loops -> SUBSET Elapsed] /\ total' \in [Loops -> Nat]
  BY <1>1, <1>2, <1>3, <1>4, <1>5, <1>6, <1>8 DEF Types
<1>12. \A m \in Loops \ {l} : took'[m] = took[m] /\ total'[m] = total[m] /\ stats'[m] = stats[m]
  BY <1>1, <1>3 DEF Types
<1> QED
  BY <1>7, <1>10, <1>11, <1>12 DEF Timed

----------------------------------------------------------------------------
(* One lemma per action *)

\* Nothing has been measured.
LEMMA InitEstablishes == Init => BenchInv
<1> SUFFICES ASSUME Init PROVE BenchInv
  OBVIOUS
<1>0. Word \in Nat \ {0} /\ DoubleWord \in Nat \ {0} /\ Iterations \in Nat \ {0}
  BY BenchAssumption
<1>1. at = "reset" /\ i = 0 /\ buf = FALSE /\ g = NoResult /\ slips = {}
      /\ stats = NoStats /\ took = [l \in Loops |-> {}] /\ total = [l \in Loops |-> 0]
  BY DEF Init, BenchInit, NoHistory
<1>2. g.code = "pending" /\ g.count = 0 /\ GShape
  BY <1>0, <1>1 DEF NoResult, GShape
<1>3. stats \in [Loops -> Aggregates]
  BY <1>0, <1>1 DEF NoStats, Zeroed, Aggregates
<1>4. took \in [Loops -> SUBSET Elapsed] /\ total \in [Loops -> Nat]
  BY <1>1
<1>5. Types
  <2>1. at \in Places /\ i \in 0 .. Iterations
    BY <1>0, <1>1 DEF Places
  <2>2. buf \in BOOLEAN
    BY Zenon DEF Init, BenchInit
  <2> QED
    BY <1>2, <1>3, <1>4, <2>1, <2>2 DEF Types
<1> QED
  BY <1>1, <1>2, <1>5 DEF BenchInv, LoopsHold, Unflagged, PassIsEarned, BeforeLoops, Loops

\* Reset_Handler clears what the last run left.
LEMMA BootPreserves == ASSUME BenchInv, Boot PROVE BenchInv'
<1>0. Word \in Nat \ {0} /\ DoubleWord \in Nat \ {0} /\ Iterations \in Nat \ {0}
  BY BenchAssumption
<1>1. at' = "start" /\ i' = 0 /\ buf' = FALSE /\ g' = NoResult /\ slips' = {}
      /\ stats' = NoStats /\ took' = [l \in Loops |-> {}] /\ total' = [l \in Loops |-> 0]
  BY DEF Boot, ClearHistory
<1>2. g'.code = "pending" /\ g'.count = 0 /\ GShape'
  BY <1>0, <1>1 DEF NoResult, GShape
<1>3. stats' \in [Loops -> Aggregates]
  BY <1>0, <1>1 DEF NoStats, Zeroed, Aggregates
<1>4. took' \in [Loops -> SUBSET Elapsed] /\ total' \in [Loops -> Nat]
  BY <1>1
<1>5. Types'
  <2>1. at' \in Places /\ i' \in 0 .. Iterations
    BY <1>0, <1>1 DEF Places
  <2>2. buf' \in BOOLEAN
    BY Zenon DEF Boot
  <2> QED
    BY <1>2, <1>3, <1>4, <2>1, <2>2 DEF Types
<1>6. LoopsHold'
  BY <1>1, <1>2 DEF LoopsHold, Untouched, BeforeLoops, Loops
<1> QED
  BY <1>1, <1>2, <1>5, <1>6 DEF BenchInv, Unflagged, PassIsEarned, BeforeLoops, Loops

\* A step that touches no aggregate and no slip, and of g neither count nor code.
LEMMA QuietPreserves ==
    ASSUME BenchInv, at' \in BeforeLoops, at \in BeforeLoops, GShape', buf' \in BOOLEAN,
           g'.count = g.count, g'.code = g.code, UNCHANGED <<i, stats, took, total, slips>>
    PROVE BenchInv'
<1>1. Types'
  BY DEF BenchInv, Types, BeforeLoops, Places
<1>2. LoopsHold'
  BY DEF BenchInv, LoopsHold, Untouched, BeforeLoops, Loops
<1>3. Unflagged' /\ g'.code = "pending"
  BY DEF BenchInv, Unflagged, BeforeLoops, Loops
<1> QED
  BY <1>1, <1>2, <1>3 DEF BenchInv, PassIsEarned

\* run_benchmark's first stores.
LEMMA TestStartedPreserves == ASSUME BenchInv, TestStarted PROVE BenchInv'
<1>1. GShape' /\ g'.count = g.count /\ g'.code = g.code
  BY DEF BenchInv, Types, GShape, TestStarted
<1>2. at \in BeforeLoops /\ at' \in BeforeLoops
  BY DEF TestStarted, BeforeLoops
<1>3. buf' \in BOOLEAN /\ UNCHANGED <<i, stats, took, total, slips>>
  BY DEF BenchInv, Types, TestStarted, history
<1> QED
  BY <1>1, <1>2, <1>3, QuietPreserves

\* The timer's own cost is measured on a static buffer of its own.
LEMMA OverheadPreserves == ASSUME BenchInv, MeasureOverhead PROVE BenchInv'
<1>1. GShape' /\ g'.count = g.count /\ g'.code = g.code
  <2>1. PICK m : g' = [g EXCEPT !.overhead = m]
    BY DEF MeasureOverhead
  <2> QED
    BY <2>1 DEF BenchInv, Types, GShape
<1>2. at \in BeforeLoops /\ at' \in BeforeLoops
  BY DEF MeasureOverhead, BeforeLoops
<1>3. buf' \in BOOLEAN /\ UNCHANGED <<i, stats, took, total, slips>>
  BY DEF BenchInv, Types, MeasureOverhead
<1> QED
  BY <1>1, <1>2, <1>3, QuietPreserves

\* A benchmark that stops before its loops.
LEMMA StoppedPreserves ==
    ASSUME BenchInv, at \in BeforeLoops, Conclude("fail"), buf' \in BOOLEAN,
           UNCHANGED <<i, stats, took, total, slips>>
    PROVE BenchInv'
<1>1. at' = "concluded" /\ GShape' /\ g'.count = g.count /\ g'.code = "fail"
  BY DEF BenchInv, Types, GShape, Conclude
<1>2. g.count = 0
  BY DEF BenchInv, LoopsHold
<1>3. Types'
  BY <1>1 DEF BenchInv, Types, Places
<1> QED
  BY <1>1, <1>2, <1>3 DEF BenchInv, LoopsHold, Unflagged, PassIsEarned, BeforeLoops, Loops

\* A core without a cycle counter.
LEMMA NoDwtPreserves == ASSUME BenchInv, NoDwt PROVE BenchInv'
<1>1. at \in BeforeLoops
  BY DEF NoDwt, BeforeLoops
<1>2. Conclude("fail") /\ buf' \in BOOLEAN /\ UNCHANGED <<i, stats, took, total, slips>>
  BY DEF BenchInv, Types, NoDwt, history
<1> QED
  BY <1>1, <1>2, StoppedPreserves

\* A proof pass that fails, or fills the buffer.
LEMMA ProofPreserves == ASSUME BenchInv, Proof PROVE BenchInv'
<1>1. at \in BeforeLoops /\ UNCHANGED <<i, stats, took, total, slips>>
  BY DEF Proof, BeforeLoops
<1>2. CASE Conclude("fail") /\ buf' \in BOOLEAN
  BY <1>1, <1>2, StoppedPreserves
<1>3. CASE at' = "proved" /\ buf' = TRUE /\ UNCHANGED g
  <2>1. at' \in BeforeLoops /\ buf' \in BOOLEAN /\ GShape' /\ g'.count = g.count /\ g'.code = g.code
    BY <1>3 DEF BeforeLoops, BenchInv, Types, GShape
  <2> QED
    BY <1>1, <2>1, QuietPreserves
<1> QED
  BY <1>2, <1>3 DEF Proof

\* The loop before is complete, the new one starts from the extremes.
LEMMA StartLoopPreserves == ASSUME BenchInv, NEW l \in Loops, StartLoop(l) PROVE BenchInv'
<1>0. Word \in Nat \ {0} /\ DoubleWord \in Nat \ {0} /\ Iterations \in Nat \ {0}
  BY BenchAssumption
<1>1. /\ at' = l /\ i' = 0 /\ stats' = [stats EXCEPT ![l] = Fresh]
      /\ UNCHANGED <<g, buf, took, total, slips>>
  BY DEF StartLoop, history
<1>2. Fresh \in Aggregates
  BY <1>0 DEF Fresh, Aggregates
<1>3. Types'
  BY <1>0, <1>1, <1>2 DEF BenchInv, Types, GShape, Places
<1>4. stats'[l] = Fresh /\ \A m \in Loops \ {l} : stats'[m] = stats[m]
  BY <1>1 DEF BenchInv, Types
<1>5. Before(l) /\ g.count = 0 /\ g'.count = 0 /\ g'.code = g.code /\ g.code = "pending"
      /\ g'.failures = g.failures
  BY <1>1 DEF BenchInv, LoopsHold, Unflagged, StartLoop, Before, BeforeLoops, Loops
<1>6. ASSUME Untouched(l) PROVE Holds(l, 0)'
  BY <1>0, <1>1, <1>4, <1>6 DEF Holds, Untouched, Fresh
<1>7. \A m \in Loops \ {l} : Holds(m, Iterations) => Holds(m, Iterations)'
  BY <1>1, <1>4 DEF Holds, Untouched
<1>8. \A m \in Loops : Untouched(m) => Untouched(m)'
  BY <1>1 DEF Untouched
<1>9. i = Iterations => i > 0
  BY <1>0
<1>10. l \in {"encode", "decode", "roundtrip"}
  BY DEF Loops
<1>11. CASE l = "encode"
  <2>1. at = "proved"
    BY <1>5, <1>11 DEF Before
  <2>2. \A m \in Loops : Untouched(m)
    BY <2>1 DEF BenchInv, LoopsHold, BeforeLoops
  <2>3. LoopsHold'
    BY <1>1, <1>5, <1>6, <1>8, <1>11, <2>2 DEF LoopsHold, BeforeLoops, Loops
  <2>4. slips = {}
    BY <2>1 DEF BenchInv, Unflagged, BeforeLoops
  <2>5. Unflagged'
    BY <1>1, <1>5, <1>11, <2>4 DEF Unflagged, BeforeLoops, Loops
  <2> QED
    BY <1>3, <1>5, <2>3, <2>5 DEF BenchInv, PassIsEarned
<1>12. CASE l = "decode"
  <2>1. at = "encode" /\ i = Iterations
    BY <1>5, <1>12 DEF Before
  <2>2. Holds("encode", Iterations) /\ Untouched("decode") /\ Untouched("roundtrip")
    BY <2>1 DEF BenchInv, LoopsHold
  <2>3. LoopsHold'
    BY <1>1, <1>5, <1>6, <1>7, <1>8, <1>12, <2>2 DEF LoopsHold, BeforeLoops, Loops
  <2>4. g.failures = 0 => slips \subseteq {"bytes"}
    BY <2>1 DEF BenchInv, Unflagged, Loops
  <2>5. Unflagged'
    BY <1>0, <1>1, <1>5, <1>12, <2>4 DEF Unflagged, BeforeLoops, Loops
  <2> QED
    BY <1>3, <1>5, <2>3, <2>5 DEF BenchInv, PassIsEarned
<1>13. CASE l = "roundtrip"
  <2>1. at = "decode" /\ i = Iterations
    BY <1>5, <1>13 DEF Before
  <2>2. Holds("encode", Iterations) /\ Holds("decode", Iterations) /\ Untouched("roundtrip")
    BY <2>1 DEF BenchInv, LoopsHold
  <2>3. LoopsHold'
    BY <1>1, <1>5, <1>6, <1>7, <1>8, <1>13, <2>2 DEF LoopsHold, BeforeLoops, Loops
  <2>4. g.failures = 0 => buf /\ slips \subseteq {"bytes"}
    BY <1>9, <2>1 DEF BenchInv, Unflagged, Loops
  <2>5. Unflagged'
    BY <1>1, <1>5, <1>13, <2>4 DEF Unflagged, BeforeLoops, Loops
  <2> QED
    BY <1>3, <1>5, <2>3, <2>5 DEF BenchInv, PassIsEarned
<1> QED
  BY <1>10, <1>11, <1>12, <1>13

\* What every timed iteration of loop l does: the other loops stay as they are.
LEMMA IterationPreserves ==
    ASSUME BenchInv, NEW l \in Loops, NEW failed \in BOOLEAN, Running(l), Timed(l, failed),
           buf' \in BOOLEAN
    PROVE /\ Types' /\ LoopsHold'
          /\ at' = l /\ i' = i + 1 /\ i \in Nat /\ i + 1 <= Iterations
          /\ g'.code = "pending" /\ g.failures \in Nat
          /\ g'.failures = 0 => g.failures = 0 /\ ~failed
<1>0. Iterations \in Nat \ {0} /\ Word \in Nat \ {0}
  BY BenchAssumption
<1>1. at = l /\ i < Iterations /\ i \in Nat /\ Types /\ LoopsHold
  BY DEF BenchInv, Running, Types
<1>2. Holds(l, i) /\ g.count = 0
  BY <1>1 DEF LoopsHold, Loops
<1>3. /\ Holds(l, i)' /\ GShape' /\ i' = i + 1 /\ at' = at
      /\ stats' \in [Loops -> Aggregates]
      /\ took' \in [Loops -> SUBSET Elapsed] /\ total' \in [Loops -> Nat]
      /\ \A m \in Loops \ {l} : /\ took'[m] = took[m] /\ total'[m] = total[m]
                                /\ stats'[m] = stats[m]
      /\ g'.code = g.code /\ g'.count = g.count
      /\ g'.failures = g.failures + (IF failed THEN 1 ELSE 0)
  BY <1>1, <1>2, TimedHolds
<1>4. i + 1 <= Iterations /\ i' \in 0 .. Iterations
  BY <1>0, <1>1, <1>3
<1>5. Types'
  BY <1>1, <1>3, <1>4 DEF Types
<1>6. \A m \in Loops \ {l} : /\ Holds(m, Iterations) => Holds(m, Iterations)'
                             /\ Untouched(m) => Untouched(m)'
  BY <1>3 DEF Holds, Untouched
<1>7. LoopsHold'
  BY <1>1, <1>2, <1>3, <1>6 DEF LoopsHold, BeforeLoops, Loops
<1>8. g.code = "pending" /\ g.failures \in Nat
  BY <1>1 DEF BenchInv, Unflagged, Types, GShape
<1> QED
  BY <1>1, <1>3, <1>4, <1>5, <1>7, <1>8

\* An encode that is not counted has right status and length.
LEMMA EncodePreserves == ASSUME BenchInv, EncodeOnce PROVE BenchInv'
<1>1. PICK what \in {"fine", "flagged", "bytes"} :
        /\ Timed("encode", what = "flagged") /\ Wrote(what)
        /\ slips' = slips \cup ({what} \ {"fine"})
  BY DEF EncodeOnce
<1>2. Running("encode") /\ "encode" \in Loops /\ buf' \in BOOLEAN /\ (what = "flagged") \in BOOLEAN
  BY <1>1 DEF EncodeOnce, Loops, Wrote
<1>3. /\ Types' /\ LoopsHold'
      /\ at' = "encode" /\ i' = i + 1 /\ i \in Nat /\ g'.code = "pending"
      /\ g'.failures = 0 => g.failures = 0 /\ what # "flagged"
  BY <1>1, <1>2, IterationPreserves
<1>4. at = "encode"
  BY DEF EncodeOnce, Running
<1>5. ASSUME g'.failures = 0 PROVE slips' \subseteq {"bytes"}
  <2>1. slips \subseteq {"bytes"}
    BY <1>2, <1>3, <1>4, <1>5 DEF BenchInv, Unflagged
  <2> QED
    BY <1>1, <1>3, <1>5, <2>1
<1>6. Unflagged'
  BY <1>3, <1>5 DEF Unflagged, BeforeLoops, Loops
<1> QED
  BY <1>3, <1>6 DEF BenchInv, PassIsEarned

\* A right decode shows that the buffer holds the sample's encoding.
LEMMA DecodePreserves == ASSUME BenchInv, DecodeOnce PROVE BenchInv'
<1>1. PICK right \in BOOLEAN :
        /\ right => buf
        /\ Timed("decode", ~right)
        /\ slips' = IF right THEN slips ELSE slips \cup {"decode"}
  BY DEF DecodeOnce
<1>2. Running("decode") /\ "decode" \in Loops /\ buf' = buf /\ buf \in BOOLEAN
  BY DEF DecodeOnce, Loops, BenchInv, Types
<1>3. /\ Types' /\ LoopsHold'
      /\ at' = "decode" /\ i' = i + 1 /\ i \in Nat /\ g'.code = "pending"
      /\ g'.failures = 0 => g.failures = 0 /\ right
  <2>1. (~right) \in BOOLEAN
    OBVIOUS
  <2> QED
    BY <1>1, <1>2, <2>1, IterationPreserves
<1>4. at = "decode"
  BY DEF DecodeOnce, Running
<1>5. ASSUME g'.failures = 0 PROVE buf' /\ slips' \subseteq {"bytes"}
  BY <1>1, <1>2, <1>3, <1>4, <1>5 DEF BenchInv, Unflagged
<1>6. Unflagged'
  BY <1>3, <1>5 DEF Unflagged, BeforeLoops, Loops
<1> QED
  BY <1>3, <1>6 DEF BenchInv, PassIsEarned

\* A round trip reads what it wrote itself.
LEMMA RoundtripPreserves == ASSUME BenchInv, RoundtripOnce PROVE BenchInv'
<1>1. PICK right \in BOOLEAN :
        /\ Timed("roundtrip", ~right)
        /\ slips' = IF right THEN slips ELSE slips \cup {"roundtrip"}
  BY DEF RoundtripOnce
<1>2. Running("roundtrip") /\ "roundtrip" \in Loops /\ buf' = buf /\ buf \in BOOLEAN
  BY DEF RoundtripOnce, Loops, BenchInv, Types
<1>3. /\ Types' /\ LoopsHold'
      /\ at' = "roundtrip" /\ i' = i + 1 /\ i \in Nat /\ g'.code = "pending"
      /\ g'.failures = 0 => g.failures = 0 /\ right
  <2>1. (~right) \in BOOLEAN
    OBVIOUS
  <2> QED
    BY <1>1, <1>2, <2>1, IterationPreserves
<1>4. at = "roundtrip"
  BY DEF RoundtripOnce, Running
<1>5. ASSUME g'.failures = 0 PROVE buf' /\ slips' \subseteq {"bytes"}
  BY <1>1, <1>2, <1>3, <1>4, <1>5 DEF BenchInv, Unflagged
<1>6. Unflagged'
  BY <1>3, <1>5 DEF Unflagged, BeforeLoops, Loops
<1> QED
  BY <1>3, <1>6 DEF BenchInv, PassIsEarned

\* The verdict is given on the failures counted.
LEMMA JudgePreserves == ASSUME BenchInv, Judge PROVE BenchInv'
<1>1. PICK mark :
        /\ g' = [g EXCEPT !.count = Iterations, !.watermark = mark,
                          !.code = IF g.failures = 0 THEN "pass" ELSE "fail"]
        /\ at' = "concluded" /\ UNCHANGED <<i, stats, buf, took, total, slips>>
  BY DEF Judge
<1>2. at = "roundtrip" /\ i = Iterations /\ Types /\ LoopsHold /\ Unflagged
  BY DEF Judge, BenchInv
<1>3. GShape' /\ g'.code = (IF g.failures = 0 THEN "pass" ELSE "fail")
  BY <1>1, <1>2 DEF Types, GShape
<1>4. Types'
  BY <1>1, <1>2, <1>3 DEF Types, Places
<1>5. \A l \in Loops : Holds(l, Iterations)
  BY <1>2 DEF LoopsHold, Loops
<1>6. \A l \in Loops : Holds(l, Iterations)'
  BY <1>1, <1>5 DEF Holds, Untouched
<1>7. LoopsHold'
  BY <1>1, <1>6 DEF LoopsHold, BeforeLoops, Loops
<1>8. Unflagged'
  BY <1>1 DEF Unflagged, BeforeLoops, Loops
<1>9. PassIsEarned'
  <2>1. ASSUME g'.code = "pass" PROVE buf /\ slips \subseteq {"bytes"}
    BY <1>2, <1>3, <2>1 DEF Unflagged, Loops
  <2> QED
    BY <1>1, <2>1 DEF PassIsEarned
<1> QED
  BY <1>4, <1>7, <1>8, <1>9 DEF BenchInv

\* Past the verdict, up to the reset, nothing that counts changes.
LEMMA AfterwardsPreserves ==
    ASSUME BenchInv, at' \notin BeforeLoops \cup Loops, at' \in Places, GShape',
           g'.count = g.count, g'.code = g.code, UNCHANGED <<i, stats, buf, took, total, slips>>
    PROVE BenchInv'
<1>1. Types'
  BY DEF BenchInv, Types
<1>2. LoopsHold'
  BY DEF BenchInv, LoopsHold, Holds, Untouched, BeforeLoops, Loops
<1>3. Unflagged' /\ PassIsEarned'
  BY DEF BenchInv, Unflagged, PassIsEarned, BeforeLoops, Loops
<1> QED
  BY <1>1, <1>2, <1>3 DEF BenchInv

\* The state is stored last.
LEMMA CompletePreserves == ASSUME BenchInv, Complete PROVE BenchInv'
<1>1. GShape' /\ g'.count = g.count /\ g'.code = g.code
  BY DEF BenchInv, Types, GShape, Complete
<1>2. at' \notin BeforeLoops \cup Loops /\ at' \in Places
  BY DEF Complete, BeforeLoops, Loops, Places
<1> QED
  BY <1>1, <1>2, AfterwardsPreserves DEF Complete, history

\* Sending the frame, or a reset, changes no number.
LEMMA ReportPreserves == ASSUME BenchInv, Report \/ BenchReset PROVE BenchInv'
<1>1. GShape' /\ g'.count = g.count /\ g'.code = g.code
  BY DEF BenchInv, Types, GShape, Report, BenchReset
<1>2. at' \notin BeforeLoops \cup Loops /\ at' \in Places
  BY DEF Report, BenchReset, BeforeLoops, Loops, Places
<1> QED
  BY <1>1, <1>2, AfterwardsPreserves DEF Report, BenchReset, history

\* The runner's own steps.
LEMMA StutterPreserves == ASSUME BenchInv, UNCHANGED vars PROVE BenchInv'
<1>1. UNCHANGED <<at, i, g, stats, buf, took, total, slips>>
  BY DEF vars
<1>2. Types' /\ LoopsHold' /\ Unflagged' /\ PassIsEarned'
  BY <1>1 DEF BenchInv, Types, GShape, LoopsHold, Holds, Untouched, Unflagged, PassIsEarned
<1> QED
  BY <1>2 DEF BenchInv

\* Every step keeps the benchmark's invariant.
LEMMA StepPreserves == ASSUME BenchInv, [Next]_allVars PROVE BenchInv'
<1>1. CASE BenchStep
  BY <1>1, BootPreserves, TestStartedPreserves, NoDwtPreserves, OverheadPreserves,
     ProofPreserves, StartLoopPreserves, EncodePreserves, DecodePreserves,
     RoundtripPreserves, JudgePreserves, CompletePreserves, ReportPreserves DEF BenchStep
<1>2. CASE BenchReset
  BY <1>2, ReportPreserves
<1>3. CASE UNCHANGED vars
  BY <1>3, StutterPreserves
<1>4. ReportStep => BenchReset \/ UNCHANGED vars
  BY DEF ReportStep, Provenance, Build, Discover, Flash, Collect, Validate
<1>5. NextRun => BenchReset
  BY DEF NextRun
<1> QED
  BY <1>1, <1>2, <1>3, <1>4, <1>5 DEF Next, allVars

\* So it holds throughout.
LEMMA BenchInvariant == Spec => []BenchInv
<1>1. BenchInv /\ [Next]_allVars => BenchInv'
  BY StepPreserves
<1> QED
  BY InitEstablishes, <1>1, PTL DEF Spec

----------------------------------------------------------------------------

\* run_benchmark's aggregates are those of what its calls took, for a counter of any
\* width wherever it wraps, and as many calls as their sum has room for.
THEOREM AggregatesExact == Spec => []AggregatesAreExact
<1>1. BenchInv => AggregatesAreExact
  BY BenchAssumption DEF BenchInv, LoopsHold, Holds, AggregatesAreExact
<1> QED
  BY BenchInvariant, <1>1, PTL

\* A pass of the firmware lets by no wrong call but an encode of right status and
\* length whose wrong bytes a later encode has overwritten.
THEOREM PassEarned == Spec => []PassIsEarned
<1>1. BenchInv => PassIsEarned
  BY DEF BenchInv
<1> QED
  BY BenchInvariant, <1>1, PTL

----------------------------------------------------------------------------
(* From the firmware's pass to the runner's *)

\* A pass is only given once the loops have been counted.
CountedPass == g.code = "pass" => g.count = Iterations

\* The record result_doc is.
DocShape ==
    doc = [result |-> doc.result, blocks |-> doc.blocks, sizes |-> doc.sizes, bench |-> doc.bench]

\* What main has gathered by the time it takes each step.
Gathered ==
    /\ step = "build" => doc.blocks = {"quarry"}
    /\ step = "discover" => /\ doc.blocks = {"quarry", "firmware", "toolchain"}
                            /\ doc.sizes \in {"int", "null"}
    /\ step \in {"flash", "collect", "validate"} => doc.blocks = Blocks /\ doc.sizes \in {"int", "null"}
    /\ step = "provenance" => doc.blocks = {}
    /\ step = "validate" /\ doc.bench.code = "pass" => doc.bench.iterations = Iterations
    /\ step # "written" => doc.result = "UNKNOWN"

\* The invariant behind the verdict.
ReportInv == BenchInv /\ CountedPass /\ DocShape /\ Gathered /\ PassFollowsSchema

\* Only Judge passes, and it counts.
LEMMA CountPreserves ==
    ASSUME BenchInv, CountedPass, BenchStep \/ BenchReset \/ UNCHANGED vars
    PROVE CountedPass'
<1>1. GShape
  BY DEF BenchInv, Types
<1>2. ASSUME UNCHANGED g \/ g' = NoResult PROVE CountedPass'
  BY <1>2 DEF CountedPass, NoResult
<1>3. ASSUME Conclude("fail") PROVE CountedPass'
  BY <1>1, <1>3 DEF CountedPass, Conclude, GShape
<1>4. ASSUME NEW l, NEW failed, Timed(l, failed) PROVE CountedPass'
  BY <1>1, <1>4 DEF CountedPass, Timed, GShape
<1>5. ASSUME Judge PROVE CountedPass'
  BY <1>1, <1>5 DEF CountedPass, Judge, GShape
<1>6. ASSUME TestStarted \/ MeasureOverhead \/ Complete PROVE CountedPass'
  BY <1>1, <1>6 DEF CountedPass, TestStarted, MeasureOverhead, Complete, GShape
<1> QED
  BY <1>2, <1>3, <1>4, <1>5, <1>6
  DEF BenchStep, Boot, NoDwt, Proof, StartLoop, EncodeOnce, DecodeOnce, RoundtripOnce,
      Report, BenchReset, vars

\* Ending a run keeps what it has gathered.
LEMMA EndPreserves ==
    ASSUME DocShape, NEW r, Ends(r),
           r = "PASS" => /\ Blocks \subseteq doc.blocks /\ doc.sizes \in {"int", "null"}
                         /\ doc.bench.iterations = Iterations
                         /\ doc.bench.failures = 0
    PROVE DocShape' /\ Gathered' /\ PassFollowsSchema'
<1>1. /\ DocShape' /\ doc'.result = r /\ doc'.blocks = doc.blocks
      /\ doc'.sizes = doc.sizes /\ doc'.bench = doc.bench
  BY DEF Ends, DocShape
<1>2. Gathered'
  BY DEF Ends, Gathered
<1>3. ASSUME r = "PASS" PROVE Valid([doc' EXCEPT !.sizes = "int"])
  BY <1>1, <1>3 DEF DocShape, Valid
<1> QED
  BY <1>1, <1>2, <1>3 DEF PassFollowsSchema

\* A run that fails reports no pass.
LEMMA FailPreserves == ASSUME DocShape, Fails PROVE DocShape' /\ Gathered' /\ PassFollowsSchema'
<1>1. PICK r \in {"INFRASTRUCTUREERROR", "INFRASTRUCTURE_ERROR"} : Ends(r)
  BY DEF Fails
<1> QED
  BY <1>1, EndPreserves

\* The statements of the runner.
LEMMA ReportStepPreserves ==
    ASSUME ReportInv, ReportStep PROVE DocShape' /\ Gathered' /\ PassFollowsSchema'
<1>1. DocShape /\ Gathered /\ CountedPass
  BY DEF ReportInv
<1>2. CASE Fails
  BY <1>1, <1>2, FailPreserves
<1>3. ASSUME step = "provenance", step' = "build",
             doc' = [doc EXCEPT !.blocks = @ \cup {"quarry"}]
      PROVE DocShape' /\ Gathered' /\ PassFollowsSchema'
  BY <1>1, <1>3 DEF DocShape, Gathered, PassFollowsSchema
<1>4. ASSUME step = "build", step' = "discover", NEW s \in {"int", "null"},
             doc' = [doc EXCEPT !.blocks = @ \cup {"firmware", "toolchain"}, !.sizes = s]
      PROVE DocShape' /\ Gathered' /\ PassFollowsSchema'
  BY <1>1, <1>4 DEF DocShape, Gathered, PassFollowsSchema
<1>5. ASSUME step = "discover", step' = "flash",
             doc' = [doc EXCEPT !.blocks = @ \cup {"target"}]
      PROVE DocShape' /\ Gathered' /\ PassFollowsSchema'
  BY <1>1, <1>5 DEF DocShape, Gathered, PassFollowsSchema, Blocks
<1>9. ASSUME step = "flash", step' = "collect", UNCHANGED doc
      PROVE DocShape' /\ Gathered' /\ PassFollowsSchema'
  BY <1>1, <1>9 DEF DocShape, Gathered, PassFollowsSchema, Blocks
<1>6. ASSUME step = "collect", step' = "validate", doc' = [doc EXCEPT !.bench = BenchDoc]
      PROVE DocShape' /\ Gathered' /\ PassFollowsSchema'
  <2>1. BenchDoc.code = g.code
    BY DEF BenchDoc
  <2>2. g.code = "pass" => BenchDoc.iterations = Iterations
    BY <1>1, BenchAssumption, ReportAssumption DEF BenchDoc, CountedPass
  <2> HIDE DEF BenchDoc
  <2>3. /\ DocShape' /\ doc'.result = doc.result /\ doc'.blocks = doc.blocks
        /\ doc'.sizes = doc.sizes /\ doc'.bench = BenchDoc
    BY <1>1, <1>6 DEF DocShape
  <2> QED
    BY <1>1, <1>6, <2>1, <2>2, <2>3 DEF Gathered, PassFollowsSchema
<1>7. ASSUME Ends("RECOVERYREQUIRED") PROVE DocShape' /\ Gathered' /\ PassFollowsSchema'
  BY <1>1, <1>7, EndPreserves
<1>8. CASE Validate
  <2>1. CASE doc.bench.code = "pass" /\ doc.bench.failures = 0
    <3>1. doc.blocks = Blocks /\ doc.sizes \in {"int", "null"} /\ doc.bench.iterations = Iterations
      BY <1>1, <1>8, <2>1 DEF Gathered, Validate
    <3>2. Ends("PASS")
      BY <1>8, <2>1 DEF Validate
    <3> QED
      BY <1>1, <2>1, <3>1, <3>2, EndPreserves
  <2>2. CASE ~(doc.bench.code = "pass" /\ doc.bench.failures = 0)
    <3>1. Ends("TESTFAILURE")
      BY <1>8, <2>2 DEF Validate
    <3> QED
      BY <1>1, <3>1, EndPreserves
  <2> QED
    BY <2>1, <2>2
<1> QED
  BY <1>2, <1>3, <1>4, <1>5, <1>6, <1>7, <1>8, <1>9
  DEF ReportStep, Provenance, Build, Discover, Flash, Collect

\* The report's invariant holds throughout.
LEMMA ReportInvariant == Spec => []ReportInv
<1>1. Init => ReportInv
  <2> SUFFICES ASSUME Init PROVE ReportInv
    OBVIOUS
  <2>1. BenchInv /\ g = NoResult /\ step = "provenance" /\ doc = NoDoc
    BY InitEstablishes DEF Init, BenchInit
  <2> QED
    BY <2>1 DEF ReportInv, CountedPass, NoResult, DocShape, Gathered, PassFollowsSchema, NoDoc
<1>2. ReportInv /\ [Next]_allVars => ReportInv'
  <2> SUFFICES ASSUME ReportInv, [Next]_allVars PROVE ReportInv'
    OBVIOUS
  <2>1. BenchInv'
    BY StepPreserves DEF ReportInv
  <2>2. ReportStep => BenchReset \/ UNCHANGED vars
    BY DEF ReportStep, Provenance, Build, Discover, Flash, Collect, Validate
  <2>3. CountedPass'
    BY <2>2, CountPreserves DEF ReportInv, Next, NextRun, allVars
  <2>4. CASE ReportStep
    BY <2>1, <2>3, <2>4, ReportStepPreserves DEF ReportInv
  <2>5. CASE NextRun
    BY <2>1, <2>3, <2>5 DEF ReportInv, NextRun, NoDoc, DocShape, Gathered, PassFollowsSchema
  <2>6. CASE UNCHANGED reportVars
    <3>1. step' = step /\ doc' = doc
      BY <2>6 DEF reportVars
    <3> QED
      BY <2>1, <2>3, <3>1 DEF ReportInv, DocShape, Gathered, PassFollowsSchema, Valid
  <2> QED
    BY <2>4, <2>5, <2>6 DEF Next, allVars
<1> QED
  BY <1>1, <1>2, PTL DEF Spec

\* A passing report has every block and all else that the schema asks of it but for
\* sizes that are null, and is of a complete measurement without failures, whatever
\* the number of iterations.
THEOREM PassIsAccepted == Spec => []PassFollowsSchema
<1>1. ReportInv => PassFollowsSchema
  BY DEF ReportInv
<1> QED
  BY ReportInvariant, <1>1, PTL
----------------------------------------------------------------------------
(* The firmware as NucleoHil knows it *)

\* Past run_benchmark's first store the result says so.
Begun == at \notin {"reset", "start"} => g.state # "init"

\* The runner sees no step between the first store and the verdict.
Inside == Loops \cup {"dwt", "proof", "proved"}

\* A step within the benchmark: the stores that matter are not made there.
LEMMA InsideIsHidden ==
    ASSUME GShape, \/ MeasureOverhead
                   \/ (\E l \in Loops : StartLoop(l))
                   \/ EncodeOnce \/ DecodeOnce \/ RoundtripOnce
                   \/ Proof /\ at' = "proved"
    PROVE  at \in Inside /\ at' \in Inside /\ g'.state = g.state /\ g'.code = g.code
<1> USE DEF Inside, Loops
<1>1. CASE MeasureOverhead
  BY <1>1 DEF MeasureOverhead, GShape
<1>2. CASE \E l \in Loops : StartLoop(l)
  BY <1>2 DEF StartLoop, Before
<1>3. ASSUME NEW l, NEW failed, at \in Inside, Timed(l, failed)
      PROVE  at' = at /\ g'.state = g.state /\ g'.code = g.code
  BY <1>3 DEF Timed, GShape
<1>4. CASE EncodeOnce \/ DecodeOnce \/ RoundtripOnce
  BY <1>3, <1>4 DEF EncodeOnce, DecodeOnce, RoundtripOnce, Running
<1>5. CASE Proof /\ at' = "proved"
  BY <1>5 DEF Proof, Conclude
<1> QED
  BY <1>1, <1>2, <1>4, <1>5

\* Each of run_benchmark's ways out stores the verdict first.
LEMMA VerdictIsStored ==
    ASSUME GShape, NoDwt \/ (Proof /\ at' # "proved") \/ Judge
    PROVE  /\ at \in Inside /\ at' = "concluded"
           /\ g'.state = g.state /\ g'.code \in {"pass", "fail"}
<1>1. CASE NoDwt \/ (Proof /\ at' # "proved")
  BY <1>1 DEF NoDwt, Proof, Conclude, GShape, Inside
<1>2. CASE Judge
  BY <1>2 DEF Judge, GShape, Inside, Loops
<1> QED
  BY <1>1, <1>2

\* What is kept while the benchmark runs.
LEMMA BegunPreserves ==
    ASSUME GShape, Begun, [Next]_allVars
    PROVE  Begun'
<1> USE DEF Begun
<1>1. CASE Boot
  BY <1>1 DEF Boot
<1>2. CASE TestStarted \/ Complete
  BY <1>2 DEF TestStarted, Complete, GShape
<1>3. CASE \/ MeasureOverhead \/ (\E l \in Loops : StartLoop(l))
           \/ EncodeOnce \/ DecodeOnce \/ RoundtripOnce \/ (Proof /\ at' = "proved")
  BY <1>3, InsideIsHidden DEF Inside, Loops
<1>4. CASE NoDwt \/ (Proof /\ at' # "proved") \/ Judge
  BY <1>4, VerdictIsStored DEF Inside, Loops
<1>5. CASE Report
  BY <1>5 DEF Report
<1>6. CASE BenchReset
  BY <1>6 DEF BenchReset
<1>7. CASE UNCHANGED vars
  BY <1>7 DEF vars
<1>8. ReportStep \/ NextRun => BenchReset \/ UNCHANGED vars
  BY DEF ReportStep, Provenance, Build, Discover, Flash, Collect, Validate, NextRun
<1> QED
  BY <1>1, <1>2, <1>3, <1>4, <1>5, <1>6, <1>7, <1>8 DEF Next, BenchStep, allVars

\* The benchmark's step under the mapping, from outside one of the firmware's.
LEMMA StepIsTheFirmwares ==
    ASSUME GShape, Begun, [Next]_allVars
    PROVE  [Firmware!FirmwareStep \/ Firmware!ResetCore]_(Firmware!benchVars)
<1> DEFINE outside(a) == IF a \in {"reset", "start", "concluded", "begin", "hex", "end", "beat"}
                         THEN a ELSE "bench"
<1>1. ASSUME outside(at') = outside(at), g'.state = g.state, g'.code = g.code
      PROVE  UNCHANGED Firmware!benchVars
  BY <1>1 DEF Firmware!benchVars, Firmware!chipVars, Firmware!wireVars
<1>2. CASE Boot
  <2>1. Firmware!Boot
    BY <1>2 DEF Boot, NoResult, Firmware!Boot, Firmware!NoResult, Firmware!wireVars
  <2> QED
    BY <2>1 DEF Firmware!FirmwareStep
<1>3. CASE TestStarted
  <2>1. g'.state = "started" /\ g'.code = g.code /\ at = "start" /\ at' = "dwt"
    BY <1>3 DEF TestStarted, GShape
  <2> DEFINE r == [img |-> IF g.state = "init" THEN "nothing" ELSE "built",
                   state |-> g.state, code |-> g.code]
  <2>2. [r EXCEPT !.img = "built"] = [img |-> "built", state |-> g.state, code |-> g.code]
    OBVIOUS
  <2>3. [r EXCEPT !.img = "built", !.state = "started"]
        = [img |-> "built", state |-> "started", code |-> g.code]
    <3> DEFINE q == [img |-> "built", state |-> g.state, code |-> g.code]
    <3>1. [q EXCEPT !.state = "started"] = [img |-> "built", state |-> "started", code |-> g.code]
      OBVIOUS
    <3> QED
      BY <2>2, <3>1, Zenon
  <2>4. Firmware!TestStarted
    BY <2>1, <2>3 DEF Firmware!TestStarted, Firmware!wireVars
  <2> QED
    BY <2>4 DEF Firmware!FirmwareStep
<1>4. CASE \/ MeasureOverhead \/ (\E l \in Loops : StartLoop(l))
           \/ EncodeOnce \/ DecodeOnce \/ RoundtripOnce \/ (Proof /\ at' = "proved")
  <2>1. outside(at) = "bench" /\ outside(at') = "bench"
    BY <1>4, InsideIsHidden DEF Inside, Loops
  <2> QED
    BY <1>1, <1>4, <2>1, InsideIsHidden
<1>5. CASE NoDwt \/ (Proof /\ at' # "proved") \/ Judge
  <2>1. /\ outside(at) = "bench" /\ outside(at') = "concluded"
        /\ g'.state = g.state /\ g'.code \in {"pass", "fail"}
    BY <1>5, VerdictIsStored DEF Inside, Loops
  <2>2. Firmware!Conclude
    BY <2>1 DEF Firmware!Conclude, Firmware!wireVars
  <2> QED
    BY <2>2 DEF Firmware!FirmwareStep
<1>6. CASE Complete
  <2>1. /\ at = "concluded" /\ at' = "begin" /\ g.state # "init"
        /\ g'.state = "complete" /\ g'.code = g.code
    BY <1>6 DEF Complete, GShape, Begun
  <2>2. Firmware!Conclude
    BY <2>1 DEF Firmware!Conclude, Firmware!wireVars
  <2> QED
    BY <2>2 DEF Firmware!FirmwareStep
<1>7. CASE Report
  <2>1. g' = g
    BY <1>7 DEF Report
  <2>2. Firmware!SendBegin \/ Firmware!SendHex \/ Firmware!SendEnd
    BY <1>7, <2>1 DEF Report, Firmware!SendBegin, Firmware!SendHex, Firmware!SendEnd,
       Firmware!Send, Firmware!Received
  <2> QED
    BY <2>2 DEF Firmware!FirmwareStep
<1>8. CASE BenchReset
  <2>1. at' = "reset" /\ g' = g
    BY <1>8 DEF BenchReset
  <2>2. Firmware!ResetCore
    BY <2>1 DEF Firmware!ResetCore, Firmware!wireVars
  <2> QED
    BY <2>2
<1>9. CASE UNCHANGED vars
  BY <1>1, <1>9 DEF vars
<1>10. ReportStep \/ NextRun => BenchReset \/ UNCHANGED vars
  BY DEF ReportStep, Provenance, Build, Discover, Flash, Collect, Validate, NextRun
<1> QED
  BY <1>2, <1>3, <1>4, <1>5, <1>6, <1>7, <1>8, <1>9, <1>10 DEF Next, BenchStep, allVars

\* The benchmark, with its numbers, loops and early exits, implements the firmware
\* the runner is checked against, whatever its constants: what PassMeansThisImageRan
\* and NoHalfResult assume of the order of its stores is what main.c does.
THEOREM BenchIsTheFirmware == Spec => IsTheFirmware
<1>1. Init => Begun
  BY DEF Init, BenchInit, Begun
<1>2. BenchInv => GShape
  BY DEF BenchInv, Types
<1>3. GShape /\ Begun /\ [Next]_allVars => Begun'
  BY BegunPreserves
<1>4. GShape /\ Begun /\ [Next]_allVars
      => [Firmware!FirmwareStep \/ Firmware!ResetCore]_(Firmware!benchVars)
  BY StepIsTheFirmwares
<1> QED
  BY BenchInvariant, <1>1, <1>2, <1>3, <1>4, PTL DEF Spec, IsTheFirmware
----------------------------------------------------------------------------
(* The stack's watermark *)

\* A set of naturals has a least member.
LEMMA Least ==
    ASSUME NEW S \in SUBSET Nat, S # {}
    PROVE  \E n \in S : \A m \in S : n <= m
<1>1. PICK n \in S : \A m \in S : ~ (<<m, n>> \in OpToRel(<, Nat))
  BY NatLessThanWellFounded, WFMin
<1>2. \A m \in S : ~ (m < n)
  BY <1>1, Zenon DEF OpToRel
<1>3. \A m \in S : n <= m
  BY <1>2
<1> QED
  BY <1>3

\* The scan stops at the lowest word that is not painted: it covers them all, and
\* claims no more than a depth that covers them.
LEMMA ScanCovers ==
    ASSUME NEW W \in SUBSET Words
    PROVE  /\ Watermark(W) \in 0 .. StackWords
           /\ \A w \in W : Watermark(W) >= StackWords + 1 - w
           /\ \A d \in 0 .. StackWords : W \subseteq Used(d) => Watermark(W) <= d
<1>0. StackWords \in Nat /\ W \subseteq 1 .. StackWords
  BY BenchAssumption DEF Words
<1>1. CASE W = {}
  <2>1. Watermark(W) = 0
    BY <1>1 DEF Watermark
  <2> QED
    BY <1>0, <1>1, <2>1
<1>2. CASE W # {}
  <2> DEFINE low == CHOOSE w \in W : \A v \in W : w <= v
  <2>1. \E w \in W : \A v \in W : w <= v
    <3>1. W \in SUBSET Nat
      BY <1>0
    <3> QED
      BY <1>2, <3>1, Least
  <2>2. low \in W /\ \A v \in W : low <= v
    BY <2>1
  <2>3. Watermark(W) = StackWords + 1 - low
    BY <1>2 DEF Watermark
  <2> HIDE DEF low
  <2>4. low \in 1 .. StackWords
    BY <1>0, <2>2
  <2>5. \A w \in W : w \in Nat
    BY <1>0
  <2>6. ASSUME NEW d \in 0 .. StackWords, W \subseteq Used(d) PROVE low > StackWords - d
    BY <2>2, <2>6 DEF Used
  <2> QED
    BY <1>0, <2>2, <2>3, <2>4, <2>5, <2>6
<1> QED
  BY <1>1, <1>2

\* Reset_Handler's paint is untouched below the guard until the loops are done, and
\* then nothing is gone below the depth they have used.
Marked ==
    /\ stack \subseteq Words /\ deepest \in 0 .. StackWords
    /\ at \in BeforeLoops \cup Loops => stack \subseteq Guard
    /\ g.count > 0 => g.watermark = Watermark(stack) /\ stack \subseteq Guard \cup Used(deepest)

\* Nothing but Judge touches the stack while it counts.
LEMMA MarkedPreserves ==
    ASSUME BenchInv, Marked, BenchStep \/ BenchReset \/ UNCHANGED vars
    PROVE  Marked'
<1> USE DEF Marked
<1>0. StackWords \in Nat /\ GShape /\ Guard \subseteq Words
  BY BenchAssumption DEF BenchInv, Types, Guard
<1>1. ASSUME UNCHANGED <<stack, deepest>>, g'.count = g.count, g'.watermark = g.watermark,
             at' \in BeforeLoops \cup Loops => at \in BeforeLoops \cup Loops
      PROVE  Marked'
  BY <1>1
<1>2. CASE NoDwt \/ Proof
  <2>1. /\ UNCHANGED <<stack, deepest>> /\ g'.count = g.count /\ g'.watermark = g.watermark
        /\ at \in BeforeLoops
    BY <1>0, <1>2 DEF NoDwt, Proof, Conclude, GShape, history, BeforeLoops
  <2> QED
    BY <1>1, <2>1
<1>3. CASE TestStarted \/ MeasureOverhead \/ Complete
  <2>1. /\ UNCHANGED <<stack, deepest>> /\ g'.count = g.count /\ g'.watermark = g.watermark
        /\ at \in BeforeLoops \/ at' = "begin"
    BY <1>0, <1>3 DEF TestStarted, MeasureOverhead, Complete, GShape, history, BeforeLoops
  <2> QED
    BY <1>1, <2>1 DEF BeforeLoops, Loops
<1>4. ASSUME NEW l \in Loops, NEW failed, Running(l), Timed(l, failed) PROVE Marked'
  <2>1. /\ UNCHANGED <<stack, deepest>> /\ g'.count = g.count /\ g'.watermark = g.watermark
        /\ at' = at
    BY <1>0, <1>4 DEF Timed, GShape
  <2> QED
    BY <1>1, <2>1
<1>5. CASE EncodeOnce \/ DecodeOnce \/ RoundtripOnce
  BY <1>4, <1>5 DEF EncodeOnce, DecodeOnce, RoundtripOnce, Loops
<1>6. CASE \E l \in Loops : StartLoop(l)
  <2>1. UNCHANGED <<stack, deepest, g>> /\ at \in BeforeLoops \cup Loops
    BY <1>6 DEF StartLoop, Before, history, BeforeLoops, Loops
  <2> QED
    BY <1>1, <2>1
<1>7. CASE Report \/ BenchReset \/ UNCHANGED vars
  <2>1. /\ UNCHANGED <<stack, deepest, g>>
        /\ at' \in BeforeLoops \cup Loops => at' = at
    BY <1>7 DEF Report, BenchReset, vars, history, BeforeLoops, Loops
  <2> QED
    BY <1>1, <2>1
<1>8. CASE Boot
  <2>1. stack' \subseteq Guard /\ deepest' = 0 /\ g'.count = 0
    BY <1>8 DEF Boot, ClearHistory, NoResult, Painted
  <2> QED
    BY <1>0, <2>1
<1>9. CASE Judge
  <2>1. at = "roundtrip" /\ at' = "concluded" /\ stack \subseteq Guard
    BY <1>9 DEF Judge, Loops
  <2>2. g'.watermark = Watermark(stack')
    <3>1. PICK m, c : m = Watermark(stack') /\ g' = [g EXCEPT !.count = Iterations, !.watermark = m, !.code = c]
      BY <1>9 DEF Judge
    <3> QED
      BY <1>0, <3>1 DEF GShape
  <2>3. PICK depth \in 0 .. StackWords :
          /\ deepest' = depth
          /\ \E written \in SUBSET Used(depth) : stack' = (stack \ Used(depth)) \cup written
    BY <1>9 DEF Judge
  <2>4. Used(depth) \subseteq Words
    BY DEF Used
  <2>5. stack' \subseteq Guard \cup Used(depth) /\ stack' \subseteq Words
    BY <1>0, <2>1, <2>3, <2>4
  <2> QED
    BY <2>1, <2>2, <2>3, <2>5 DEF BeforeLoops, Loops
<1> QED
  BY <1>2, <1>3, <1>5, <1>6, <1>7, <1>8, <1>9 DEF BenchStep

----------------------------------------------------------------------------
(* The means *)

\* A mean in hundredths, rounded as stats_for rounds it, is between the extremes.
LEMMA RoundedMean ==
    ASSUME NEW s \in Nat, NEW n \in Nat \ {0}, NEW lo \in Nat, NEW hi \in Nat,
           n * lo <= s, s <= n * hi
    PROVE  100 * lo <= (200 * s + n) \div (2 * n) /\ (200 * s + n) \div (2 * n) <= 100 * hi
<1> DEFINE x == 200 * s + n
           d == 2 * n
           m == x \div d
<1>1. x \in Nat /\ d \in Nat \ {0} /\ x = 200 * s + n /\ d = 2 * n
  OBVIOUS
<1>2. m = x \div d
  OBVIOUS
<1> HIDE DEF x, d, m
<1>3. m \in Nat /\ d * m <= x /\ x < d * m + d
  BY <1>1, <1>2, Quotient
<1>4. /\ n * lo \in Nat /\ n * hi \in Nat /\ n * m \in Nat /\ n * (m + 1) \in Nat
      /\ d * m = 2 * (n * m) /\ d * m + d = 2 * (n * (m + 1))
  BY <1>1, <1>3
<1>5. n * (100 * lo) = 100 * (n * lo) /\ n * (100 * hi) = 100 * (n * hi)
  OBVIOUS
<1>6. ASSUME m < 100 * lo PROVE FALSE
  <2>1. m + 1 <= 100 * lo /\ m + 1 \in Nat /\ 100 * lo \in Nat
    BY <1>3, <1>6
  <2>2. n * (m + 1) <= n * (100 * lo)
    BY <2>1, ProductOrder
  <2> QED
    BY <1>1, <1>3, <1>4, <1>5, <2>2
<1>7. ASSUME m > 100 * hi PROVE FALSE
  <2>1. 100 * hi + 1 <= m /\ 100 * hi + 1 \in Nat
    BY <1>3, <1>7
  <2>2. n * (100 * hi + 1) <= n * m
    BY <1>3, <2>1, ProductOrder
  <2>3. n * (100 * hi + 1) = n * (100 * hi) + n
    OBVIOUS
  <2> QED
    BY <1>1, <1>3, <1>4, <1>5, <2>2, <2>3
<1> QED
  BY <1>3, <1>6, <1>7 DEF m, x, d

\* A benchmark that ended without counting has measured nothing.
Emptied ==
    /\ at \in BeforeLoops \cup Loops => g.state # "complete"
    /\ g.state = "complete" \/ at \in BeforeLoops \cup {"concluded"} =>
          g.count > 0 \/ stats = NoStats

\* The ways out before the loops leave .bss as Reset_Handler made it.
LEMMA EmptiedPreserves ==
    ASSUME BenchInv, Emptied, BenchStep \/ BenchReset \/ UNCHANGED vars
    PROVE  Emptied'
<1> USE DEF Emptied, BeforeLoops, Loops
<1>1. GShape
  BY DEF BenchInv, Types
<1>2. CASE Boot
  BY <1>2 DEF Boot, NoResult
<1>3. CASE TestStarted \/ MeasureOverhead \/ Complete
  BY <1>1, <1>3 DEF TestStarted, MeasureOverhead, Complete, GShape
<1>4. CASE NoDwt \/ Proof
  BY <1>1, <1>4 DEF NoDwt, Proof, Conclude, GShape
<1>5. CASE \E l \in Loops : StartLoop(l)
  BY <1>5 DEF StartLoop, Before
<1>6. ASSUME NEW l \in Loops, NEW failed, Running(l), Timed(l, failed) PROVE Emptied'
  BY <1>1, <1>6 DEF Running, Timed, GShape
<1>7. CASE Judge
  <2>1. g'.count = Iterations /\ at' = "concluded" /\ Iterations > 0
    BY <1>1, <1>7, BenchAssumption DEF Judge, GShape
  <2> QED
    BY <2>1
<1>8. CASE Report \/ BenchReset \/ UNCHANGED vars
  BY <1>8 DEF Report, BenchReset, vars
<1> QED
  BY <1>2, <1>3, <1>4, <1>5, <1>6, <1>7, <1>8 DEF BenchStep, EncodeOnce, DecodeOnce, RoundtripOnce

\* What Collect reads of a benchmark that is complete.
LEMMA CollectedMeans ==
    ASSUME BenchInv, Emptied, g.state = "complete", NEW l \in Loops
    PROVE  LET s == BenchDoc.stats[l] IN
           100 * s.min <= BenchDoc.means[l] /\ BenchDoc.means[l] <= 100 * s.max
<1> DEFINE n == g.count
<1>0. Iterations \in Nat \ {0} /\ Iterations <= MaxSamples /\ MaxSamples \in Nat /\ Word \in Nat \ {0}
  BY BenchAssumption, ReportAssumption
<1>1. n \in {0, Iterations} /\ stats \in [Loops -> Aggregates]
  BY DEF BenchInv, Types, GShape
<1>2. BenchDoc.stats = stats /\ BenchDoc.means[l] = Mean(l, n)
  BY <1>0, <1>1 DEF BenchDoc
<1>3. CASE n = 0
  <2>1. stats = NoStats /\ Mean(l, n) = 0
    BY <1>3 DEF Emptied, Mean
  <2> QED
    BY <1>2, <2>1 DEF NoStats, Zeroed
<1>4. CASE n = Iterations
  <2>1. /\ stats[l].sum = total[l] /\ total[l] \in Nat
        /\ n * stats[l].min <= total[l] /\ total[l] <= n * stats[l].max
    BY <1>0, <1>4 DEF BenchInv, Types, LoopsHold, Holds
  <2>2. stats[l].min \in Nat /\ stats[l].max \in Nat
    BY <1>0, <1>1 DEF Aggregates
  <2>3. Mean(l, n) = (200 * total[l] + n) \div (2 * n) /\ n \in Nat \ {0}
    BY <1>0, <1>4, <2>1 DEF Mean
  <2> HIDE DEF n
  <2> QED
    BY <1>2, <2>1, <2>2, <2>3, RoundedMean
<1> QED
  BY <1>1, <1>3, <1>4

\* The invariant behind the numbers.
MeansInv == BenchInv /\ Marked /\ Emptied /\ DocShape /\ MeansAreBetween

\* What a step of the runner does to the numbers of its report.
LEMMA MeansPreserve ==
    ASSUME MeansInv, [Next]_allVars
    PROVE  DocShape' /\ MeansAreBetween'
<1> USE DEF MeansInv
<1>1. ASSUME doc'.bench = doc.bench PROVE MeansAreBetween'
  BY <1>1 DEF MeansAreBetween
<1>2. ASSUME NEW r, Ends(r) PROVE DocShape' /\ doc'.bench = doc.bench
  BY <1>2 DEF Ends, DocShape
<1>3. CASE Collect
  <2>1. CASE doc' = [doc EXCEPT !.bench = BenchDoc] /\ g.state = "complete"
    <3> HIDE DEF MeansInv
    <3>1. DocShape' /\ doc'.bench = BenchDoc
      BY <2>1 DEF MeansInv, DocShape
    <3>2. \A l \in Loops :
            LET s == BenchDoc.stats[l] IN
            100 * s.min <= BenchDoc.means[l] /\ BenchDoc.means[l] <= 100 * s.max
      BY <2>1, CollectedMeans DEF MeansInv
    <3> QED
      BY <3>1, <3>2 DEF MeansAreBetween
  <2> QED
    BY <1>1, <1>2, <1>3, <2>1 DEF Collect, Fails
<1>4. CASE Provenance \/ Build \/ Discover \/ Flash
  <2>1. DocShape' /\ doc'.bench = doc.bench
    BY <1>2, <1>4 DEF Provenance, Build, Discover, Flash, Fails, DocShape
  <2> QED
    BY <1>1, <2>1
<1>5. CASE Validate
  BY <1>1, <1>2, <1>5 DEF Validate
<1>6. CASE NextRun
  <2>1. doc' = NoDoc
    BY <1>6 DEF NextRun
  <2> QED
    BY <2>1 DEF DocShape, MeansAreBetween, NoDoc, NoBench, Zeroed
<1>7. CASE UNCHANGED doc
  BY <1>1, <1>7 DEF DocShape
<1> QED
  BY <1>3, <1>4, <1>5, <1>6, <1>7 DEF Next, ReportStep, allVars, reportVars

\* So the numbers of the report are right throughout.
LEMMA MeansInvariant == Spec => []MeansInv
<1>1. Init => MeansInv
  <2> SUFFICES ASSUME Init PROVE MeansInv
    OBVIOUS
  <2>1. /\ BenchInv /\ g = NoResult /\ stats = NoStats /\ at = "reset" /\ doc = NoDoc
        /\ stack = {} /\ deepest = 0
    BY InitEstablishes DEF Init, BenchInit, NoHistory
  <2>2. Marked
    BY <2>1, BenchAssumption DEF Marked, NoResult, BeforeLoops, Loops
  <2> QED
    BY <2>1, <2>2 DEF MeansInv, Emptied, NoResult, DocShape, MeansAreBetween, NoDoc, NoBench,
       Zeroed, BeforeLoops, Loops
<1>2. MeansInv /\ [Next]_allVars => MeansInv'
  <2> SUFFICES ASSUME MeansInv, [Next]_allVars PROVE MeansInv'
    OBVIOUS
  <2>1. BenchStep \/ BenchReset \/ UNCHANGED vars
    BY DEF Next, ReportStep, Provenance, Build, Discover, Flash, Collect, Validate, NextRun, allVars
  <2>2. BenchInv' /\ Marked' /\ Emptied'
    BY <2>1, StepPreserves, MarkedPreserves, EmptiedPreserves DEF MeansInv
  <2> QED
    BY <2>2, MeansPreserve DEF MeansInv
<1> QED
  BY <1>1, <1>2, PTL DEF Spec

\* The reported watermark covers every word of the stack that was overwritten and
\* claims no more than the benchmark's depth or the guard, for every stack size and
\* whatever earlier programs have left there: Reset_Handler's paint covers it all.
THEOREM WatermarkCovers == Spec => []WatermarkCoversStack
<1>1. MeansInv => WatermarkCoversStack
  <2> SUFFICES ASSUME MeansInv, g.count > 0
               PROVE  /\ \A w \in stack : g.watermark >= StackWords + 1 - w
                      /\ g.watermark <= deepest \/ g.watermark <= GuardWords
    BY DEF WatermarkCoversStack
  <2>0. StackWords \in Nat /\ GuardWords \in 0 .. StackWords
    BY BenchAssumption
  <2>1. /\ stack \in SUBSET Words /\ deepest \in 0 .. StackWords
        /\ g.watermark = Watermark(stack) /\ stack \subseteq Guard \cup Used(deepest)
    BY DEF MeansInv, Marked
  <2>2. Guard \cup Used(deepest) \subseteq Used(deepest) \/ Guard \cup Used(deepest) \subseteq Used(GuardWords)
    BY <2>0, <2>1 DEF Guard, Used, Words
  <2>3. stack \subseteq Used(deepest) \/ stack \subseteq Used(GuardWords)
    BY <2>1, <2>2
  <2> QED
    BY <2>0, <2>1, <2>3, ScanCovers
<1> QED
  BY MeansInvariant, <1>1, PTL

\* Every mean the runner reports is between its loop's extremes, for every number
\* of iterations, benchmarks that stopped before their loops included.
THEOREM MeansBetween == Spec => []MeansAreBetween
<1>1. MeansInv => MeansAreBetween
  BY DEF MeansInv
<1> QED
  BY MeansInvariant, <1>1, PTL
----------------------------------------------------------------------------
(* The baud rate register *)

\* What the multiplication by 25 leaves of a clock.
Scaled(c) == (c * 25) % UartWord

\* The register holds mantissa and fraction side by side: sixteen times the one
\* plus the other, a fraction of sixteen carried.
LEMMA RegisterIsSixteenths ==
    ASSUME NEW c \in Nat, NEW b \in Nat \ {0}, Scaled(c) \in Nat
    PROVE  LET x100 == Scaled(c) \div (4 * b)
               rest == x100 - (x100 \div 100) * 100
           IN Brr(c, b) = 16 * (x100 \div 100) + (rest * 16 + 50) \div 100
<1> DEFINE x100 == Scaled(c) \div (4 * b)
           mantissa == x100 \div 100
           rest == x100 - mantissa * 100
           fraction == (rest * 16 + 50) \div 100
<1>1. 4 * b \in Nat \ {0}
  OBVIOUS
<1>2. x100 \in Nat
  BY <1>1, Quotient
<1>3. Brr(c, b) = IF fraction >= 16 THEN Packed(mantissa + 1, fraction - 16)
                  ELSE Packed(mantissa, fraction)
  BY DEF Brr, Scaled
<1> HIDE DEF x100
<1>4. mantissa \in Nat /\ rest \in 0 .. 99
  BY <1>2
<1> HIDE DEF mantissa, rest
<1>5. fraction \in 0 .. 16
  BY <1>4
<1> HIDE DEF fraction
<1>6. Brr(c, b) = 16 * mantissa + fraction
  BY <1>3, <1>4, <1>5 DEF Packed
<1> QED
  BY <1>6 DEF x100, mantissa, rest, fraction

\* Dividing by the baud rate loses at most one hundredth of a unit of the mantissa,
\* rounding half a unit of the fraction.
LEMMA RegisterIsNear ==
    ASSUME NEW c \in Nat, NEW b \in Nat \ {0}, Scaled(c) \in Nat
    PROVE  /\ Brr(c, b) * b \in Nat
           /\ 50 * (Brr(c, b) * b) <= 2 * Scaled(c) + 25 * b
           /\ 2 * Scaled(c) <= 50 * (Brr(c, b) * b) + 33 * b
<1> DEFINE p == Scaled(c)
           x100 == p \div (4 * b)
           mantissa == x100 \div 100
           rest == x100 - mantissa * 100
           brr == Brr(c, b)
<1>1. brr = 16 * mantissa + (rest * 16 + 50) \div 100
  BY RegisterIsSixteenths
<1>2. p \in Nat /\ 4 * b \in Nat \ {0}
  OBVIOUS
<1>3. /\ x100 \in Nat
      /\ (4 * b) * x100 <= p /\ p < (4 * b) * x100 + 4 * b
  <2> HIDE DEF p
  <2> QED
    BY <1>2, Quotient
<1> HIDE DEF brr, x100, p
<1>4. /\ brr \in Nat
      /\ 100 * brr <= 16 * x100 + 50
      /\ 16 * x100 <= 100 * brr + 50
  BY <1>1, <1>3
<1>5. /\ b * (100 * brr) <= b * (16 * x100 + 50)
      /\ b * (16 * x100) <= b * (100 * brr + 50)
  BY <1>4, <1>3, ProductOrder
<1>6. /\ b * (100 * brr) = 100 * (brr * b) /\ b * (100 * brr + 50) = 100 * (brr * b) + 50 * b
      /\ b * (16 * x100) = 16 * (b * x100) /\ b * (16 * x100 + 50) = 16 * (b * x100) + 50 * b
      /\ (4 * b) * x100 = 4 * (b * x100)
      /\ b * x100 \in Nat /\ brr * b \in Nat
  BY <1>3, <1>4
<1>7. /\ 100 * (brr * b) <= 4 * p + 50 * b
      /\ 4 * p <= 100 * (brr * b) + 66 * b
  BY <1>2, <1>3, <1>5, <1>6
<1> QED
  BY <1>2, <1>6, <1>7 DEF brr, p

\* A product that fits stays what it is; one that does not loses a whole word.
LEMMA ProductWraps ==
    ASSUME NEW x \in Nat, NEW w \in Nat \ {0}
    PROVE  x % w \in Nat /\ (x < w => x % w = x) /\ (x >= w => (x % w) + w <= x)
<1>1. x % w \in 0 .. w - 1
  OBVIOUS
<1>2. x < w => x % w = x
  OBVIOUS
<1>3. x = w * (x \div w) + (x % w) /\ x \div w \in Nat
  OBVIOUS
<1>4. ASSUME x >= w PROVE (x % w) + w <= x
  <2>1. x \div w >= 1
    BY <1>1, <1>3, <1>4
  <2>2. w * 1 <= w * (x \div w)
    BY <1>3, <2>1, ProductOrder
  <2> QED
    BY <1>1, <1>3, <2>2
<1> QED
  BY <1>1, <1>2, <1>4

\* UART_BRR is within two thirds of a unit of clock / baud for every clock whose
\* product with 25 a uint32_t holds, and for no other: not just at the 16 MHz and
\* 115200 of this board, but not up to the 180 MHz of its ceiling either.
THEOREM BaudIsClose == Spec => []BaudRateIsClose
<1>1. BaudRateIsClose
  <2> SUFFICES ASSUME NEW c \in Clocks, NEW b \in Bauds
               PROVE  Close(c, b) <=> 25 * c < UartWord
    BY DEF BaudRateIsClose
  <2>0. c \in Nat /\ b \in Nat \ {0} /\ UartWord \in Nat \ {0} /\ 50 * b < UartWord /\ c * 25 \in Nat
    BY BenchAssumption
  <2>1. /\ Scaled(c) \in Nat
        /\ 25 * c < UartWord => Scaled(c) = 25 * c
        /\ 25 * c >= UartWord => Scaled(c) + UartWord <= 25 * c
    BY <2>0, ProductWraps DEF Scaled
  <2> DEFINE y == Brr(c, b) * b
  <2>2. y \in Nat /\ 50 * y <= 2 * Scaled(c) + 25 * b /\ 2 * Scaled(c) <= 50 * y + 33 * b
    BY <2>0, <2>1, RegisterIsNear
  <2>3. Close(c, b) <=> 3 * (y - c) <= 2 * b /\ -3 * (y - c) <= 2 * b
    BY DEF Close
  <2> HIDE DEF y
  <2>4. CASE 25 * c < UartWord
    BY <2>0, <2>1, <2>2, <2>3, <2>4
  <2>5. CASE 25 * c >= UartWord
    BY <2>0, <2>1, <2>2, <2>3, <2>5
  <2> QED
    BY <2>0, <2>4, <2>5
<1> QED
  BY <1>1, PTL
----------------------------------------------------------------------------
(* The median of the overhead *)

\* Where a sample is in the static buffer, and what the buffer may hold.
Indices == 0 .. Samples - 1
Buffers == [Indices -> Overheads]

\* The first k + 1 samples of the buffer are in order.
Ascending(u, k) == \A a, b \in 0 .. k : a <= b => u[a] <= u[b]

\* q tells where in u each of v's samples is: none is lost, no two share a place.
Moves(q, v, u) ==
    /\ q \in [Indices -> Indices]
    /\ \A a, b \in Indices : q[a] = q[b] => a = b
    /\ \A a \in Indices : u[q[a]] = v[a]
Rearranged(v, u) == \E q : Moves(q, v, u)

\* What a sample is.
LEMMA Natural == ASSUME NEW v \in Buffers, NEW n \in Indices PROVE v[n] \in Overheads /\ v[n] \in Nat
<1>1. Overheads \subseteq Nat
  BY BenchAssumption
<1> QED
  BY <1>1 DEF Buffers

\* Rearranging twice is rearranging.
LEMMA RearrangedTwice ==
    ASSUME NEW v, NEW u, NEW w, Rearranged(v, u), Rearranged(u, w)
    PROVE  Rearranged(v, w)
<1>1. PICK p : Moves(p, v, u)
  BY DEF Rearranged
<1>2. PICK q : Moves(q, u, w)
  BY DEF Rearranged
<1> DEFINE r == [a \in Indices |-> q[p[a]]]
<1>3. Moves(r, v, w)
  BY <1>1, <1>2 DEF Moves
<1> QED
  BY <1>3 DEF Rearranged

\* The loop that moves the k-th sample down ends somewhere: below it nothing is
\* greater, above it everything is.
LEMMA InsertionEnds ==
    ASSUME NEW v \in Buffers, NEW k \in 1 .. Samples - 1
    PROVE  \E m \in 0 .. k : (\A n \in m .. k - 1 : v[n] > v[k]) /\ (m = 0 \/ v[m - 1] <= v[k])
<1>0. Samples \in Nat \ {0} /\ Overheads \subseteq Nat
  BY BenchAssumption
<1> DEFINE ends == {m \in 0 .. k : \A n \in m .. k - 1 : v[n] > v[k]}
<1>1. k \in ends /\ ends \subseteq Nat
  BY <1>0
<1>2. PICK m \in ends : \A l \in ends : m <= l
  BY <1>1, Least
<1>3. ASSUME m # 0, ~ (v[m - 1] <= v[k]) PROVE FALSE
  <2>1. m - 1 \in 0 .. k - 1 /\ m - 1 \in Indices /\ k \in Indices
    BY <1>0, <1>3 DEF Indices
  <2>2. v[m - 1] > v[k]
    BY <1>0, <1>3, <2>1, Natural
  <2>3. \A n \in m - 1 .. k - 1 : n = m - 1 \/ n \in m .. k - 1
    BY <2>1
  <2>4. m - 1 \in ends
    BY <2>1, <2>2, <2>3
  <2> QED
    BY <1>0, <1>2, <2>1, <2>4
<1> QED
  BY <1>2, <1>3

\* One round of the sort loses no sample, and its first k + 1 are in order after it.
LEMMA InsertedAscends ==
    ASSUME NEW v \in Buffers, NEW k \in 1 .. Samples - 1, Ascending(v, k - 1)
    PROVE  /\ Inserted(v, k) \in Buffers
           /\ Ascending(Inserted(v, k), k)
           /\ Rearranged(v, Inserted(v, k))
<1>0. Samples \in Nat \ {0} /\ Overheads \subseteq Nat
  BY BenchAssumption
<1> DEFINE StopsAt(m) == (\A n \in m .. k - 1 : v[n] > v[k]) /\ (m = 0 \/ v[m - 1] <= v[k])
           j == CHOOSE m \in 0 .. k : StopsAt(m)
           u == [n \in DOMAIN v |-> IF n < j \/ n > k THEN v[n]
                                    ELSE IF n = j THEN v[k] ELSE v[n - 1]]
<1>1. Inserted(v, k) = u
  BY DEF Inserted
<1>2. \E m \in 0 .. k : StopsAt(m)
  BY InsertionEnds
<1>3. j \in 0 .. k /\ StopsAt(j)
  BY <1>2
<1> HIDE DEF j
<1>4. DOMAIN v = Indices /\ (\A n \in Indices : v[n] \in Overheads /\ v[n] \in Nat)
  BY <1>0 DEF Buffers
<1>5. u = [n \in Indices |-> IF n < j \/ n > k THEN v[n] ELSE IF n = j THEN v[k] ELSE v[n - 1]]
  BY <1>4
<1> HIDE DEF u
<1>6. \A n \in Indices : u[n] = IF n < j \/ n > k THEN v[n] ELSE IF n = j THEN v[k] ELSE v[n - 1]
  BY <1>5
<1>7. j \in Indices /\ k \in Indices /\ Indices \subseteq Nat
      /\ \A n \in Indices : n > j => n - 1 \in Indices
  BY <1>0, <1>3 DEF Indices
<1>8. u \in Buffers
  <2>1. \A n \in Indices : u[n] \in Overheads
    BY <1>4, <1>6, <1>7
  <2> QED
    BY <1>5, <2>1 DEF Buffers
<1>9. Ascending(u, k)
  <2> SUFFICES ASSUME NEW a \in 0 .. k, NEW b \in 0 .. k, a < b
               PROVE  u[a] <= u[b]
    <3>1. \A a \in 0 .. k : a \in Indices
      BY <1>0 DEF Indices
    <3>2. \A a \in 0 .. k : u[a] \in Nat
      BY <1>8, <3>1, Natural
    <3> QED
      BY <3>2 DEF Ascending
  <2>1. a \in Indices /\ b \in Indices /\ b > 0
    BY <1>0 DEF Indices
  <2>2. \A x, y \in 0 .. k - 1 : x <= y => v[x] <= v[y]
    BY DEF Ascending
  <2>3. CASE b < j
    BY <1>3, <1>6, <2>1, <2>2, <2>3
  <2>4. CASE b = j
    <3>1. u[b] = v[k] /\ u[a] = v[a] /\ j # 0
      BY <1>3, <1>6, <2>1, <2>4
    <3>2. v[j - 1] <= v[k] /\ a \in 0 .. k - 1 /\ j - 1 \in 0 .. k - 1 /\ a <= j - 1
      BY <1>3, <2>4, <3>1
    <3>3. v[a] <= v[j - 1] /\ v[a] \in Nat /\ v[j - 1] \in Nat /\ v[k] \in Nat
      BY <1>0, <1>4, <1>7, <2>1, <2>2, <3>2 DEF Indices
    <3> QED
      BY <3>1, <3>2, <3>3
  <2>5. CASE b > j
    <3>1. u[b] = v[b - 1] /\ b - 1 \in j .. k - 1 /\ b - 1 \in 0 .. k - 1 /\ b - 1 \in Indices
      BY <1>3, <1>6, <1>7, <2>1, <2>5
    <3>2. CASE a < j
      BY <1>3, <1>6, <2>1, <2>2, <3>1, <3>2
    <3>3. CASE a = j
      <4>1. u[a] = v[k] /\ v[b - 1] > v[k]
        BY <1>3, <1>6, <2>1, <3>1, <3>3
      <4> QED
        BY <1>4, <1>7, <3>1, <4>1
    <3>4. CASE a > j
      BY <1>3, <1>6, <2>1, <2>2, <3>1, <3>4
    <3> QED
      BY <1>3, <3>2, <3>3, <3>4
  <2> QED
    BY <1>3, <2>3, <2>4, <2>5
<1>10. Rearranged(v, u)
  <2> DEFINE q == [n \in Indices |-> IF n < j \/ n > k THEN n ELSE IF n = k THEN j ELSE n + 1]
  <2>1. \A n \in Indices : n >= j /\ n < k => n + 1 \in Indices
    BY <1>0, <1>3 DEF Indices
  <2>2. q \in [Indices -> Indices]
    BY <1>3, <1>7, <2>1
  <2>3. \A a, b \in Indices : q[a] = q[b] => a = b
    BY <1>3, <1>7
  <2>4. ASSUME NEW a \in Indices PROVE u[q[a]] = v[a]
    BY <1>3, <1>6, <1>7, <2>1
  <2> QED
    BY <2>2, <2>3, <2>4 DEF Rearranged, Moves
<1> QED
  BY <1>1, <1>8, <1>9, <1>10

\* What the k-th round starts from and leaves, for a table of the rounds up to n.
IsRounds(f, v, n) == f = [k \in 0 .. n |-> IF k = 0 THEN v ELSE Inserted(f[k - 1], k)]

\* The rounds are what their recursive definition says.
LEMMA RoundsExist ==
    ASSUME NEW v, NEW n \in Nat
    PROVE  \E f : IsRounds(f, v, n)
<1> DEFINE without == {m \in Nat : ~ \E f : IsRounds(f, v, m)}
<1>1. ASSUME without # {} PROVE FALSE
  <2>1. PICK m \in without : \A l \in without : m <= l
    BY <1>1, Least
  <2>2. CASE m = 0
    <3> DEFINE f == [k \in 0 .. 0 |-> v]
    <3>1. \A k \in 0 .. 0 : k = 0
      OBVIOUS
    <3>2. IsRounds(f, v, 0)
      BY <3>1 DEF IsRounds
    <3> QED
      BY <2>1, <2>2, <3>2
  <2>3. CASE m # 0
    <3>1. m - 1 \in Nat /\ m - 1 \notin without
      BY <2>1, <2>3
    <3>2. PICK f : IsRounds(f, v, m - 1)
      BY <3>1
    <3> DEFINE h == [k \in 0 .. m |-> IF k = m THEN Inserted(f[m - 1], m) ELSE f[k]]
    <3>3. \A k \in 0 .. m - 1 : f[k] = IF k = 0 THEN v ELSE Inserted(f[k - 1], k)
      BY <3>2 DEF IsRounds
    <3>4. \A k \in 0 .. m : k # 0 => h[k - 1] = f[k - 1]
      BY <3>1
    <3>5. \A k \in 0 .. m : h[k] = IF k = 0 THEN v ELSE Inserted(h[k - 1], k)
      <4> TAKE k \in 0 .. m
      <4>1. CASE k = m
        <5>1. h[k] = Inserted(f[m - 1], m) /\ h[k - 1] = f[m - 1]
          BY <2>3, <3>4, <4>1
        <5> QED
          BY <2>3, <4>1, <5>1
      <4>2. CASE k # m
        <5>1. k \in 0 .. m - 1 /\ h[k] = f[k]
          BY <4>2
        <5> HIDE DEF h
        <5> QED
          BY <3>3, <3>4, <5>1
      <4> QED
        BY <4>1, <4>2
    <3>6. h = [k \in 0 .. m |-> h[k]]
      OBVIOUS
    <3> HIDE DEF h
    <3>7. IsRounds(h, v, m)
      BY <3>5, <3>6 DEF IsRounds
    <3> QED
      BY <2>1, <3>7
  <2> QED
    BY <2>2, <2>3
<1> QED
  BY <1>1

\* sort_u32 sorts, and keeps every sample.
LEMMA SortedAscends ==
    ASSUME NEW v \in Buffers
    PROVE  /\ Sorted(v) \in Buffers
           /\ Ascending(Sorted(v), Samples - 1)
           /\ Rearranged(v, Sorted(v))
<1>0. Samples \in Nat \ {0} /\ Overheads \subseteq Nat
  BY BenchAssumption
<1> DEFINE r == CHOOSE f : IsRounds(f, v, Samples - 1)
           Done(k) == r[k] \in Buffers /\ Ascending(r[k], k) /\ Rearranged(v, r[k])
<1>1. Sorted(v) = r[Samples - 1]
  BY DEF Sorted, IsRounds
<1>2. IsRounds(r, v, Samples - 1)
  BY <1>0, RoundsExist
<1> HIDE DEF r
<1>3. \A k \in 0 .. Samples - 1 : r[k] = IF k = 0 THEN v ELSE Inserted(r[k - 1], k)
  BY <1>2 DEF IsRounds
<1>4. Done(0)
  <2>1. r[0] = v
    BY <1>0, <1>3
  <2>2. Ascending(v, 0)
    <3>1. v[0] \in Nat
      <4>1. 0 \in Indices
        BY <1>0 DEF Indices
      <4> QED
        BY <4>1, Natural
    <3>2. \A a \in 0 .. 0 : a = 0
      OBVIOUS
    <3> QED
      BY <3>1, <3>2 DEF Ascending
  <2>3. Moves([a \in Indices |-> a], v, v)
    BY DEF Moves
  <2> QED
    BY <2>1, <2>2, <2>3 DEF Rearranged
<1>5. ASSUME NEW k \in 1 .. Samples - 1, Done(k - 1) PROVE Done(k)
  <2>1. r[k] = Inserted(r[k - 1], k)
    BY <1>0, <1>3
  <2>2. /\ r[k] \in Buffers /\ Ascending(r[k], k) /\ Rearranged(r[k - 1], r[k])
    BY <1>5, <2>1, InsertedAscends
  <2> QED
    BY <1>5, <2>2, RearrangedTwice
<1> DEFINE undone == {k \in 0 .. Samples - 1 : ~ Done(k)}
<1> HIDE DEF Done
<1>6. ASSUME undone # {} PROVE FALSE
  <2>1. undone \in SUBSET Nat
    OBVIOUS
  <2>2. PICK k \in undone : \A l \in undone : k <= l
    BY <1>6, <2>1, Least
  <2>3. k \in 1 .. Samples - 1
    BY <1>0, <1>4, <2>2
  <2>4. k - 1 \in 0 .. Samples - 1 /\ k - 1 \notin undone
    BY <1>0, <2>2, <2>3
  <2> QED
    BY <1>5, <2>2, <2>3, <2>4
<1>7. Done(Samples - 1)
  BY <1>0, <1>6
<1> QED
  BY <1>1, <1>7 DEF Done

\* In an ascending order at most half of the samples are below the middle one, and
\* fewer than half above it.
LEMMA MiddleIsMedian ==
    ASSUME NEW v \in Buffers
    PROVE  /\ Median(v) \in Overheads
           /\ 2 * Cardinality({k \in DOMAIN v : v[k] < Median(v)}) <= Samples
           /\ 2 * Cardinality({k \in DOMAIN v : v[k] > Median(v)}) < Samples
<1> DEFINE u == Sorted(v)
           h == Samples \div 2
           below == {k \in DOMAIN v : v[k] < u[h]}
           above == {k \in DOMAIN v : v[k] > u[h]}
<1>0. Samples \in Nat \ {0}
  BY BenchAssumption
<1>1. Median(v) = u[h] /\ DOMAIN v = Indices
  BY DEF Median, Buffers
<1>2. u \in Buffers /\ Ascending(u, Samples - 1) /\ Rearranged(v, u)
  BY SortedAscends
<1> HIDE DEF u
<1>3. h \in Nat /\ 2 * h <= Samples /\ Samples < 2 * h + 2
  BY <1>0, Quotient
<1> HIDE DEF h
<1>4. h \in Indices
  BY <1>0, <1>3 DEF Indices
<1>5. PICK q : Moves(q, v, u)
  BY <1>2 DEF Rearranged
<1>6. \A a, b \in Indices : a <= b => u[a] <= u[b]
  BY <1>2 DEF Ascending, Indices
<1>7. \A a \in Indices : u[a] \in Nat /\ a \in 0 .. Samples - 1
  BY <1>2, Natural DEF Indices
<1>8. ASSUME NEW S \in SUBSET Indices, NEW lo \in Nat, NEW hi \in Int,
             \A a \in S : q[a] \in lo .. hi
      PROVE  Cardinality(S) <= Cardinality(lo .. hi)
             /\ Cardinality(S) \in Nat
  <2> DEFINE f == [a \in S |-> q[a]]
  <2>1. f \in Injection(S, lo .. hi)
    BY <1>5, <1>8 DEF Moves, Injection, IsInjective
  <2>2. IsFiniteSet(lo .. hi)
    BY FS_Interval
  <2> QED
    BY <2>1, <2>2, FS_Injection, FS_CardinalityType
<1>9. 2 * Cardinality(below) <= Samples
  <2>1. ASSUME NEW a \in below PROVE q[a] \in 0 .. h - 1
    <3>1. a \in Indices /\ v[a] < u[h]
      BY <1>1
    <3>2. q[a] \in Indices /\ u[q[a]] < u[h]
      BY <1>5, <3>1 DEF Moves
    <3>3. u[h] \in Nat /\ u[q[a]] \in Nat /\ q[a] \in 0 .. Samples - 1
      BY <1>4, <1>7, <3>2
    <3>4. h <= q[a] => u[h] <= u[q[a]]
      BY <1>4, <1>6, <3>2
    <3> QED
      BY <1>0, <1>3, <3>2, <3>3, <3>4
  <2>2. Cardinality(0 .. h - 1) = h
    BY <1>3, FS_Interval
  <2>3. below \in SUBSET Indices
    BY <1>1
  <2> HIDE DEF below
  <2>4. Cardinality(below) <= h /\ Cardinality(below) \in Nat
    <3>1. 0 \in Nat /\ h - 1 \in Int
      BY <1>3
    <3> QED
      BY <1>8, <2>1, <2>2, <2>3, <3>1
  <2> QED
    BY <1>0, <1>3, <2>4
<1>10. 2 * Cardinality(above) < Samples
  <2>1. ASSUME NEW a \in above PROVE q[a] \in h + 1 .. Samples - 1
    <3>1. a \in Indices /\ v[a] > u[h]
      BY <1>1
    <3>2. q[a] \in Indices /\ u[q[a]] > u[h]
      BY <1>5, <3>1 DEF Moves
    <3>3. u[h] \in Nat /\ u[q[a]] \in Nat /\ q[a] \in 0 .. Samples - 1
      BY <1>4, <1>7, <3>2
    <3>4. q[a] <= h => u[q[a]] <= u[h]
      BY <1>4, <1>6, <3>2
    <3> QED
      BY <1>0, <1>3, <3>2, <3>3, <3>4
  <2>2. Cardinality(h + 1 .. Samples - 1) = Samples - 1 - h
    BY <1>0, <1>3, <1>4, FS_Interval DEF Indices
  <2>3. above \in SUBSET Indices
    BY <1>1
  <2> HIDE DEF above
  <2>4. Cardinality(above) <= Samples - 1 - h /\ Cardinality(above) \in Nat
    <3>1. h + 1 \in Nat /\ Samples - 1 \in Int
      BY <1>0, <1>3
    <3> QED
      BY <1>8, <2>1, <2>2, <2>3, <3>1
  <2> QED
    BY <1>0, <1>3, <2>4
<1> QED
  BY <1>1, <1>2, <1>4, <1>9, <1>10, Natural

\* The overhead in the result is that of the samples for as long as they are there;
\* a reset of the board may leave both as they are.
Sampled ==
    raw # <<>> =>
        /\ at \in {"proof", "reset"}
        /\ raw \in Buffers
        /\ g.overhead = Median(raw)

\* Nothing is measured before the samples are sorted or after they are forgotten.
LEMMA SampledPreserves ==
    ASSUME GShape, Sampled, BenchStep \/ BenchReset \/ UNCHANGED vars
    PROVE  Sampled'
<1> USE DEF Sampled
<1>1. CASE Boot \/ Proof
  BY <1>1 DEF Boot, Proof, ClearHistory
<1>2. CASE MeasureOverhead
  <2>1. PICK v \in Buffers : raw' = v /\ g' = [g EXCEPT !.overhead = Median(v)] /\ at' = "proof"
    BY <1>2 DEF MeasureOverhead, Buffers, Indices
  <2>2. g'.overhead = Median(v)
    <3> HIDE DEF Median
    <3> QED
      BY <2>1 DEF GShape
  <2> QED
    BY <2>1, <2>2
<1>3. ASSUME at \notin {"proof", "reset"}, raw' = raw PROVE Sampled'
  BY <1>3
<1>4. CASE TestStarted \/ NoDwt \/ Judge \/ Complete \/ Report \/ (\E l \in Loops : StartLoop(l))
  BY <1>3, <1>4 DEF TestStarted, NoDwt, Judge, Complete, Report, StartLoop, Before, Loops, history
<1>5. CASE EncodeOnce \/ DecodeOnce \/ RoundtripOnce
  BY <1>3, <1>5 DEF EncodeOnce, DecodeOnce, RoundtripOnce, Running, Timed
<1>6. CASE BenchReset \/ UNCHANGED vars
  BY <1>6 DEF BenchReset, vars, history
<1> QED
  BY <1>1, <1>2, <1>4, <1>5, <1>6 DEF BenchStep

----------------------------------------------------------------------------
(* Types *)

\* Failures are counted call by call, in each loop after those of the one before.
Counted ==
    /\ g.failures <= 3 * Iterations
    /\ at \in BeforeLoops => g.failures = 0
    /\ at = "encode" => g.failures <= i
    /\ at = "decode" => g.failures <= Iterations + i
    /\ at = "roundtrip" => g.failures <= 2 * Iterations + i

\* What the benchmark's invariant leaves open of its types.
Ranged ==
    /\ g.state \in {"init", "started", "complete"}
    /\ g.overhead \in 0 .. Word - 1
    /\ g.watermark \in 0 .. StackWords
    /\ slips \subseteq Slips

\* The fields of the report.
Filed ==
    /\ step \in {"provenance", "build", "discover", "flash", "collect", "validate", "written"}
    /\ doc.result \in {"UNKNOWN", "PASS", "TESTFAILURE", "INFRASTRUCTUREERROR",
                       "RECOVERYREQUIRED", "INFRASTRUCTURE_ERROR"}
    /\ doc.blocks \subseteq Blocks
    /\ doc.sizes \in {"none", "null", "int"}

\* No more failures than calls: 3 * Iterations in all.
LEMMA CountedPreserves ==
    ASSUME Types, Counted, BenchStep \/ BenchReset \/ UNCHANGED vars
    PROVE  Counted'
<1> USE DEF Counted, BeforeLoops
<1>0. Iterations \in Nat /\ GShape /\ g.failures \in Nat /\ i \in 0 .. Iterations
  BY BenchAssumption DEF Types, GShape
<1>1. CASE Boot
  BY <1>0, <1>1 DEF Boot, NoResult
<1>2. CASE TestStarted
  BY <1>0, <1>2 DEF TestStarted, GShape
<1>3. CASE MeasureOverhead
  <2>1. g'.failures = g.failures /\ at' = "proof" /\ at = "dwt"
    BY <1>0, <1>3 DEF MeasureOverhead, GShape
  <2> QED
    BY <1>0, <2>1
<1>4. CASE NoDwt \/ Proof
  <2>1. g'.failures = g.failures /\ at' \in {"concluded", "proved"} /\ at \in {"dwt", "proof"}
    BY <1>0, <1>4 DEF NoDwt, Proof, Conclude, GShape
  <2> QED
    BY <1>0, <2>1
<1>5. CASE \E l \in Loops : StartLoop(l)
  <2>1. PICK l \in Loops : Before(l) /\ at' = l /\ i' = 0 /\ g' = g
    BY <1>5 DEF StartLoop
  <2>2. \/ at = "proved" /\ at' = "encode"
        \/ at = "encode" /\ i = Iterations /\ at' = "decode"
        \/ at = "decode" /\ i = Iterations /\ at' = "roundtrip"
    BY <2>1 DEF Before, Loops
  <2> QED
    BY <1>0, <2>1, <2>2
<1>6. ASSUME NEW l \in Loops, NEW failed, Running(l), Timed(l, failed) PROVE Counted'
  <2>1. at = l /\ at' = l /\ i < Iterations /\ i' = i + 1
    BY <1>6 DEF Running, Timed
  <2>2. g'.failures = g.failures + (IF failed THEN 1 ELSE 0)
    BY <1>0, <1>6 DEF Timed, GShape
  <2>3. g'.failures \in Nat /\ g'.failures <= g.failures + 1
    BY <1>0, <2>2
  <2> QED
    BY <1>0, <2>1, <2>3 DEF Loops
<1>7. CASE EncodeOnce \/ DecodeOnce \/ RoundtripOnce
  BY <1>6, <1>7 DEF EncodeOnce, DecodeOnce, RoundtripOnce, Loops
<1>8. CASE Judge \/ Complete
  <2>1. g'.failures = g.failures /\ at' \in {"concluded", "begin"}
    BY <1>0, <1>8 DEF Judge, Complete, GShape
  <2> QED
    BY <1>0, <2>1
<1>9. CASE Report \/ BenchReset \/ UNCHANGED vars
  BY <1>0, <1>9 DEF Report, BenchReset, vars
<1> QED
  BY <1>1, <1>2, <1>3, <1>4, <1>5, <1>7, <1>8, <1>9 DEF BenchStep

\* A median is one of the samples; a watermark is what a scan of the stack finds.
LEMMA RangedPreserves ==
    ASSUME Types, Ranged, Marked', BenchStep \/ BenchReset \/ UNCHANGED vars
    PROVE  Ranged'
<1> USE DEF Ranged
<1>0. /\ Word \in Nat \ {0} /\ StackWords \in Nat /\ Overheads \subseteq 0 .. Word - 1 /\ GShape
  BY BenchAssumption DEF Types
<1>1. CASE Boot
  BY <1>0, <1>1 DEF Boot, NoResult, ClearHistory
<1>2. CASE TestStarted \/ NoDwt \/ Proof \/ Complete
  BY <1>0, <1>2 DEF TestStarted, NoDwt, Proof, Complete, Conclude, GShape, history
<1>3. CASE MeasureOverhead
  <2>1. PICK v \in Buffers : g' = [g EXCEPT !.overhead = Median(v)]
    BY <1>3 DEF MeasureOverhead, Buffers, Indices
  <2>2. Median(v) \in 0 .. Word - 1
    BY <1>0, MiddleIsMedian
  <2> HIDE DEF Median
  <2>3. g'.state = g.state /\ g'.overhead = Median(v) /\ g'.watermark = g.watermark
    BY <1>0, <2>1 DEF GShape
  <2> QED
    BY <1>3, <2>2, <2>3 DEF MeasureOverhead
<1>4. CASE Report \/ BenchReset \/ UNCHANGED vars \/ (\E l \in Loops : StartLoop(l))
  BY <1>4 DEF Report, BenchReset, vars, StartLoop, history
<1>5. ASSUME NEW l, NEW failed, Timed(l, failed), slips' \subseteq Slips
      PROVE  Ranged'
  <2>1. g'.state = g.state /\ g'.overhead = g.overhead /\ g'.watermark = g.watermark
    BY <1>0, <1>5 DEF Timed, GShape
  <2> QED
    BY <1>5, <2>1
<1>6. CASE EncodeOnce \/ DecodeOnce \/ RoundtripOnce
  BY <1>5, <1>6 DEF EncodeOnce, DecodeOnce, RoundtripOnce, Slips
<1>7. CASE Judge
  <2>1. PICK m, c : m = Watermark(stack') /\ g' = [g EXCEPT !.count = Iterations, !.watermark = m, !.code = c]
    BY <1>7 DEF Judge
  <2>2. Watermark(stack') \in 0 .. StackWords
    BY ScanCovers DEF Marked
  <2>3. g'.state = g.state /\ g'.overhead = g.overhead /\ g'.watermark = Watermark(stack')
    BY <1>0, <2>1 DEF GShape
  <2> QED
    BY <1>7, <2>2, <2>3 DEF Judge
<1> QED
  BY <1>1, <1>2, <1>3, <1>4, <1>6, <1>7 DEF BenchStep

\* The runner's statements, and how a run ends.
LEMMA FiledPreserves == ASSUME DocShape, Filed, [Next]_allVars PROVE Filed'
<1> USE DEF Filed
<1>1. ASSUME NEW r \in {"PASS", "TESTFAILURE", "INFRASTRUCTUREERROR", "RECOVERYREQUIRED",
                        "INFRASTRUCTURE_ERROR"}, Ends(r)
      PROVE  Filed'
  BY <1>1 DEF Ends, DocShape
<1>2. CASE Fails \/ Ends("RECOVERYREQUIRED") \/ Validate
  BY <1>1, <1>2 DEF Fails, Validate
<1>3. ASSUME step' \in {"build", "discover", "flash"},
             NEW B \in SUBSET Blocks, NEW s \in {"null", "int"},
             \/ doc' = [doc EXCEPT !.blocks = @ \cup B]
             \/ doc' = [doc EXCEPT !.blocks = @ \cup B, !.sizes = s]
      PROVE  Filed'
  BY <1>3 DEF DocShape
<1>4. CASE ReportStep
  <2>1. CASE Provenance
    <3>1. {"quarry"} \in SUBSET Blocks
      BY DEF Blocks
    <3> QED
      BY <1>2, <1>3, <2>1, <3>1 DEF Provenance
  <2>2. CASE Build
    <3>1. {"firmware", "toolchain"} \in SUBSET Blocks
      BY DEF Blocks
    <3> QED
      BY <1>2, <1>3, <2>2, <3>1 DEF Build
  <2>3. CASE Discover
    <3>1. {"target"} \in SUBSET Blocks
      BY DEF Blocks
    <3> QED
      BY <1>2, <1>3, <2>3, <3>1 DEF Discover
  <2>5. CASE Flash
    BY <1>2, <2>5 DEF Flash
  <2>4. CASE Collect
    <3>1. CASE doc' = [doc EXCEPT !.bench = BenchDoc] /\ step' = "validate"
      <4>1. doc'.result = doc.result /\ doc'.blocks = doc.blocks /\ doc'.sizes = doc.sizes
        BY <3>1 DEF DocShape
      <4> QED
        BY <3>1, <4>1
    <3> QED
      BY <1>2, <2>4, <3>1 DEF Collect
  <2> QED
    BY <1>2, <1>4, <2>1, <2>2, <2>3, <2>4, <2>5 DEF ReportStep
<1>5. CASE NextRun
  BY <1>5 DEF NextRun, NoDoc
<1>6. CASE UNCHANGED reportVars
  BY <1>6 DEF reportVars
<1> QED
  BY <1>4, <1>5, <1>6 DEF Next, allVars

\* All the invariants of the report and the benchmark together.
RangesInv == MeansInv /\ Sampled /\ Counted /\ Ranged /\ Filed

\* So every number has its range throughout.
LEMMA RangesInvariant == Spec => []RangesInv
<1>1. Init => Sampled /\ Counted /\ Ranged /\ Filed
  <2> SUFFICES ASSUME Init PROVE Sampled /\ Counted /\ Ranged /\ Filed
    OBVIOUS
  <2>1. /\ g = NoResult /\ at = "reset" /\ raw = <<>> /\ slips = {}
        /\ step = "provenance" /\ doc = NoDoc
    BY DEF Init, BenchInit, NoHistory
  <2>2. Iterations \in Nat /\ Word \in Nat \ {0} /\ StackWords \in Nat
    BY BenchAssumption
  <2> QED
    BY <2>1, <2>2 DEF Sampled, Counted, Ranged, Filed, NoResult, NoDoc, BeforeLoops
<1>2. MeansInv' /\ RangesInv /\ [Next]_allVars => Sampled' /\ Counted' /\ Ranged' /\ Filed'
  <2> SUFFICES ASSUME MeansInv', RangesInv, [Next]_allVars PROVE Sampled' /\ Counted' /\ Ranged' /\ Filed'
    OBVIOUS
  <2>1. BenchStep \/ BenchReset \/ UNCHANGED vars
    BY DEF Next, ReportStep, Provenance, Build, Discover, Flash, Collect, Validate, NextRun, allVars
  <2>2. Types /\ GShape /\ DocShape /\ Sampled /\ Counted /\ Ranged /\ Filed /\ Marked'
    BY DEF RangesInv, MeansInv, BenchInv, Types
  <2> QED
    BY <2>1, <2>2, SampledPreserves, CountedPreserves, RangedPreserves, FiledPreserves
<1>3. MeansInv /\ Sampled /\ Counted /\ Ranged /\ Filed => RangesInv
  BY DEF RangesInv
<1>4. RangesInv => MeansInv /\ Sampled /\ Counted /\ Ranged /\ Filed
  BY DEF RangesInv
<1> QED
  BY MeansInvariant, <1>1, <1>2, <1>3, <1>4, PTL DEF Spec

\* measure_timer_overhead reports the upper median of its samples, however many they
\* are: the insertion sort over the static buffer loses none and puts each in its place.
THEOREM OverheadMedian == Spec => []OverheadIsMedian
<1>1. RangesInv => OverheadIsMedian
  BY MiddleIsMedian DEF RangesInv, Sampled, OverheadIsMedian
<1> QED
  BY RangesInvariant, <1>1, PTL

\* The report's types and the benchmark's: no field of g_result leaves its range, the
\* failures, counted in a word of their own, not exceeding the calls of three loops.
THEOREM ReportTypes == Spec => []TypeOK
<1>1. RangesInv => TypeOK
  <2> SUFFICES ASSUME RangesInv PROVE TypeOK
    OBVIOUS
  <2>1. Types /\ Counted /\ Ranged /\ Filed /\ Marked
    BY DEF RangesInv, MeansInv, BenchInv
  <2>2. g \in GResults
    BY <2>1, BenchAssumption DEF Types, GShape, Counted, Ranged, GResults
  <2>3. buf \in BOOLEAN
    BY <2>1, Zenon DEF Types
  <2>4. BenchTypeOK
    BY <2>1, <2>2, <2>3 DEF Types, Ranged, Marked, BenchTypeOK
  <2> QED
    BY <2>1, <2>4 DEF Filed, TypeOK
<1> QED
  BY RangesInvariant, <1>1, PTL
=============================================================================
