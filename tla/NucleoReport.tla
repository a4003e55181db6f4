---------------------------- MODULE NucleoReport ----------------------------
(***************************************************************************)
(* The NUCLEO runner's report: how run_nucleo_hil.py fills result.json     *)
(* block by block, with the benchmark's numbers (NucleoBench) taken over   *)
(* and their means computed, and what infrastructure/schema says of it.    *)
(*                                                                         *)
(* A block is there or not; of its fields only those that may fail the     *)
(* validator on this runner's output are kept.                             *)
(***************************************************************************)
EXTENDS NucleoBench

CONSTANT MaxSamples   \* QUARRY_BENCH_MAX_SAMPLES

ASSUME ReportAssumption == MaxSamples \in Nat /\ Iterations <= MaxSamples

VARIABLES
    step,  \* what main does next
    doc    \* result_doc

reportVars == <<step, doc>>
allVars == <<vars, reportVars>>

Blocks == {"quarry", "firmware", "toolchain", "target"}
NoBench == [iterations |-> 0, failures |-> 0, code |-> "none", means |-> [l \in Loops |-> 0],
            stats |-> [l \in Loops |-> Zeroed]]
NoDoc == [result |-> "UNKNOWN", blocks |-> {}, sizes |-> "none", bench |-> NoBench]

TypeOK ==
    /\ BenchTypeOK
    /\ step \in {"provenance", "build", "discover", "flash", "collect", "validate", "written"}
    /\ doc.result \in {"UNKNOWN", "PASS", "TESTFAILURE", "INFRASTRUCTUREERROR",
                       "RECOVERYREQUIRED", "INFRASTRUCTURE_ERROR"}
    /\ doc.blocks \subseteq Blocks
    /\ doc.sizes \in {"none", "null", "int"}

Init == BenchInit /\ step = "provenance" /\ doc = NoDoc

Ends(result) == step' = "written" /\ doc' = [doc EXCEPT !.result = result]

\* A failed call raises InfrastructureError; one that outlasts its timeout, or a
\* parse that trips over its output, is caught as an unexpected exception.
Fails == Ends("INFRASTRUCTUREERROR") \/ Ends("INFRASTRUCTURE_ERROR")

Provenance ==
    /\ step = "provenance"
    /\ \/ step' = "build" /\ doc' = [doc EXCEPT !.blocks = @ \cup {"quarry"}]
       \/ Fails
    /\ UNCHANGED vars

\* Mutant: the toolchain block is forgotten.
BuildNoToolchain ==
    /\ step = "build"
    /\ \/ /\ step' = "discover"
          /\ \E s \in {"int", "null"} :
                doc' = [doc EXCEPT !.blocks = @ \cup {"firmware"}, !.sizes = s]
       \/ Fails
    /\ UNCHANGED vars

\* arm-none-eabi-size may fail without failing the build: the sizes stay None.
Build ==
    /\ step = "build"
    /\ \/ /\ step' = "discover"
          /\ \E s \in {"int", "null"} :
                doc' = [doc EXCEPT !.blocks = @ \cup {"firmware", "toolchain"}, !.sizes = s]
       \/ Fails
    /\ UNCHANGED vars

\* require_st_flash, discover_console_device.
Discover ==
    /\ step = "discover"
    /\ \/ step' = "flash" /\ doc' = [doc EXCEPT !.blocks = @ \cup {"target"}]
       \/ Fails
    /\ UNCHANGED vars

\* The link, flash_firmware and reset_target; a reset that fails or outlasts its
\* timeout may have reset the core.
Flash ==
    /\ step = "flash"
    /\ \/ step' = "collect" /\ UNCHANGED doc /\ BenchReset
       \/ Fails /\ (UNCHANGED vars \/ BenchReset)

----------------------------------------------------------------------------
(* collect_result, build_benchmark_doc, validate_result *)

\* stats_for's mean, in hundredths, rounded.
Mean(l, n) == IF n = 0 THEN 0 ELSE (200 * stats[l].sum + n) \div (2 * n)

BenchDoc ==
    LET n == IF g.count > MaxSamples THEN MaxSamples ELSE g.count IN
    [iterations |-> n, failures |-> g.failures, code |-> g.code,
     means |-> [l \in Loops |-> Mean(l, n)], stats |-> stats]

\* Over UART after the whole frame, over SWD as soon as the state is complete.
Collect ==
    /\ step = "collect"
    /\ \/ /\ g.state = "complete"
          /\ step' = "validate"
          /\ doc' = [doc EXCEPT !.bench = BenchDoc]
       \/ Fails \/ Ends("RECOVERYREQUIRED")
    /\ UNCHANGED vars

Validate ==
    /\ step = "validate"
    /\ IF doc.bench.code = "pass" /\ doc.bench.failures = 0
       THEN Ends("PASS") ELSE Ends("TESTFAILURE")
    /\ UNCHANGED vars

NextRun ==
    /\ step = "written"
    /\ step' = "provenance"
    /\ doc' = NoDoc
    /\ BenchReset

ReportStep == Provenance \/ Build \/ Discover \/ Flash \/ Collect \/ Validate

Next == ReportStep \/ NextRun \/ (step = "collect" /\ BenchStep /\ UNCHANGED reportVars)

Spec == Init /\ [][Next]_allVars

----------------------------------------------------------------------------

\* validate_hil_result: the required blocks, a known result, integer sizes; every
\* field it asks of a benchmark is in build_benchmark_doc's.
Valid(d) ==
    /\ Blocks \subseteq d.blocks
    /\ d.result \in {"PASS", "TEST_FAILURE", "INFRASTRUCTURE_ERROR", "RECOVERY_REQUIRED"}
    /\ d.sizes = "int"

\* The report of a PASS has every required block, a known result and the numbers of
\* a whole measurement without failures: the shared schema accepts it but for sizes
\* that the size tool did not deliver, for which the runner writes None and passes.
PassFollowsSchema ==
    doc.result = "PASS" =>
        /\ Valid([doc EXCEPT !.sizes = "int"])
        /\ doc.sizes \in {"int", "null"}
        /\ doc.bench.iterations = Iterations
        /\ doc.bench.failures = 0

\* In every report, a benchmark's included that stopped early and measured
\* nothing, the mean of a loop lies between its minimum and its maximum.
MeansAreBetween ==
    \A l \in Loops :
        LET s == doc.bench.stats[l] IN
        100 * s.min <= doc.bench.means[l] /\ doc.bench.means[l] <= 100 * s.max
=============================================================================
