----------------------------- MODULE NucleoHil -----------------------------
(***************************************************************************)
(* boards/nucleo-f446re/run_nucleo_hil.py: build, flash, reset, wait for   *)
(* the frame, fall back to reading RAM over SWD, validate, report; one     *)
(* action per call, `pc' names the call about to be made.  After a run the *)
(* next one starts on the bench it left behind, which someone may have     *)
(* replugged and whose host may have rebooted.                             *)
(*                                                                         *)
(* In a timely run a wait gives up only on a core that has nothing left to *)
(* send, and the build outlasts the benchmark of a core found running; in  *)
(* any other run a wait gives up whenever it likes.                        *)
(***************************************************************************)
EXTENDS NucleoFirmware

VARIABLES
    pc,       \* the call about to be made
    built,    \* the image this run built
    out,      \* result.json, and the exit code
    tries,    \* history: hardware sequences started
    timely    \* is this a timely run

runVars == <<pc, built, out, tries, timely>>
vars == <<benchVars, runVars>>

NoExit == -1
BoardPcs == {"flash", "reset", "collect", "silent", "nm", "swd"}
Pcs == BoardPcs \cup {"provenance", "build", "tools", "discover", "open", "validate",
                      "finally", "exited"}

Exceptions == {"TestFailure", "InfrastructureError", "RecoveryRequired", "Other"}

----------------------------------------------------------------------------
(* How the runner stops *)

\* type(e).__name__.upper() for a RunnerError, a constant for anything else.
ResultName(e) ==
    CASE e = "TestFailure"         -> "TESTFAILURE"
      [] e = "InfrastructureError" -> "INFRASTRUCTUREERROR"
      [] e = "RecoveryRequired"    -> "RECOVERYREQUIRED"
      [] e = "Other"               -> "INFRASTRUCTURE_ERROR"

ExitCode(e) ==
    CASE e = "TestFailure"         -> 1
      [] e = "InfrastructureError" -> 2
      [] e = "RecoveryRequired"    -> 3
      [] e = "Other"               -> 2

Raise(e) ==
    /\ pc' = "finally"
    /\ out' = [out EXCEPT !.result = ResultName(e), !.exit = ExitCode(e)]
    /\ UNCHANGED <<built, tries, timely>>

Goto(l) == pc' = l /\ UNCHANGED <<built, out, tries, timely>>

\* A tool that fails is an InfrastructureError; one that is missing or outlasts
\* its timeout is no RunnerError.
ToolFails == Raise("InfrastructureError") \/ Raise("Other")

CoreQuiet == core \notin Executing

\* Mutant: the timeouts are shorter than the benchmark.
TimeUpEarly == TRUE

TimeUp == timely => CoreQuiet

----------------------------------------------------------------------------
(* main up to the open link *)

Provenance ==
    /\ pc = "provenance"
    /\ Goto("build") \/ ToolFails
    /\ UNCHANGED benchVars

Build ==
    /\ pc = "build"
    /\ \/ pc' = "tools" /\ built' \in Images /\ UNCHANGED <<out, tries, timely>>
       \/ ToolFails
    /\ UNCHANGED benchVars

RequireStFlash ==
    /\ pc = "tools"
    /\ Goto("discover") \/ Raise("InfrastructureError")
    /\ UNCHANGED benchVars

Discover ==
    /\ pc = "discover"
    /\ Goto("open") \/ Raise("InfrastructureError")
    /\ UNCHANGED benchVars

\* SerialLink(...) and clear_buffer: what the firmware sent before is gone, what
\* it sends from here on is not.
OpenLink ==
    /\ pc = "open"
    /\ \/ /\ timely => CoreQuiet
          /\ link' = TRUE
          /\ rx' = <<>>
          /\ tries' = tries + 1
          /\ pc' = "flash"
          /\ UNCHANGED <<built, out, timely>>
       \/ Raise("Other") /\ UNCHANGED <<link, rx>>
    /\ UNCHANGED <<chipVars, vcp, swd, faults>>

----------------------------------------------------------------------------
(* flash_firmware, reset_target *)

\* Mutant: the exit status and the "flash written and verified" line are not
\* looked at.
FlashUnverified ==
    /\ pc = "flash"
    /\ \/ WriteFlash(built) /\ Goto("reset")
       \/ Goto("reset") /\ UNCHANGED benchVars

Flash ==
    /\ pc = "flash"
    /\ \/ WriteFlash(built) /\ Goto("reset")
       \/ ToolFails /\ (UNCHANGED benchVars \/ \E i \in {built, NoImage} : WriteFlash(i))

Reset ==
    /\ pc = "reset"
    /\ \/ ResetCore /\ Goto("collect")
       \/ ToolFails /\ (UNCHANGED benchVars \/ ResetCore)

----------------------------------------------------------------------------
(* collect_result *)

\* Where RESULT_PATTERN can match: two markers with hex digits, and nothing
\* else, between them.
Matches == {i \in 1 .. Len(rx) - 2 : /\ rx[i].part = "begin"
                                     /\ rx[i + 1].part \in {"hex", "short"}
                                     /\ rx[i + 2].part = "end"}

First == CHOOSE i \in Matches : \A j \in Matches : i <= j

Take(r) ==
    /\ pc' = "validate"
    /\ out' = [out EXCEPT !.bench = r]
    /\ UNCHANGED <<built, tries, timely>>

CollectFrame ==
    /\ pc = "collect"
    /\ Matches # {}
    /\ IF rx[First + 1].part = "hex" THEN Take(rx[First + 1].res) ELSE Raise("InfrastructureError")
    /\ UNCHANGED benchVars

WaitExpires ==
    /\ pc = "collect"
    /\ Matches = {}
    /\ TimeUp
    /\ Goto("silent")
    /\ UNCHANGED benchVars

\* Mutants: no fallback to SWD; the hardware is tried again instead.
SilentGivesUp == pc = "silent" /\ Raise("RecoveryRequired") /\ UNCHANGED benchVars
SilentRetries == pc = "silent" /\ Goto("open") /\ UNCHANGED benchVars

\* The look at the buffer that decides on the fallback is a new one: what came
\* after wait_for's last look counts as noise.
Silent ==
    /\ pc = "silent"
    /\ IF rx # <<>> THEN Raise("RecoveryRequired") ELSE Goto("nm")
    /\ UNCHANGED benchVars

FindResult ==
    /\ pc = "nm"
    /\ Goto("swd") \/ ToolFails
    /\ UNCHANGED benchVars

\* Mutant: the poll has no deadline.
ReadOverSwdForever ==
    /\ pc = "swd"
    /\ \/ swd = "dead" /\ ToolFails
       \/ swd = "ok" /\ gres.state = "complete" /\ Take(gres)
    /\ UNCHANGED benchVars

\* One poll of g_result; until it is complete the loop goes on.
ReadOverSwd ==
    /\ pc = "swd"
    /\ \/ swd = "dead" /\ ToolFails
       \/ swd = "ok" /\ gres.state = "complete" /\ Take(gres)
       \/ swd = "ok" /\ gres.state # "complete" /\ TimeUp /\ Raise("RecoveryRequired")
    /\ UNCHANGED benchVars

\* One st-flash read fails, or reads short, on a debug side that works.
PollFails ==
    /\ pc = "swd"
    /\ swd = "ok"
    /\ Fault
    /\ ToolFails
    /\ UNCHANGED <<chipVars, wireVars>>

----------------------------------------------------------------------------
(* validate_result and the end of the run *)

Validate ==
    /\ pc = "validate"
    /\ IF out.bench.state = "complete" /\ out.bench.code = "pass"
       THEN /\ pc' = "finally"
            /\ out' = [out EXCEPT !.result = "PASS", !.exit = 0]
            /\ UNCHANGED <<built, tries, timely>>
       ELSE Raise("TestFailure")
    /\ UNCHANGED benchVars

\* With exit_code unbound the last log line raises: status 1.
Finally ==
    /\ pc = "finally"
    /\ link' = FALSE
    /\ rx' = <<>>
    /\ out' = [out EXCEPT !.exit = IF @ = NoExit THEN 1 ELSE @]
    /\ pc' = "exited"
    /\ UNCHANGED <<chipVars, vcp, swd, faults, built, tries, timely>>

Interrupt == pc \notin {"finally", "exited"} /\ Goto("finally") /\ UNCHANGED benchVars

FreshOut == [result |-> "UNKNOWN", exit |-> NoExit, bench |-> NoResult]

\* What may happen to the bench between two runs.
Replug ==
    /\ vcp' = "ok"
    /\ swd' = "ok"
    /\ core' = "reset"
    /\ gres' = NoResult
    /\ UNCHANGED <<flash, cleared>>

HostReboot == vcp' = "stuck" /\ swd' \in {swd, "dead"} /\ UNCHANGED chipVars

NextRun ==
    /\ pc = "exited"
    /\ Replug \/ HostReboot \/ UNCHANGED <<chipVars, vcp, swd>>
    /\ faults' = 0
    /\ pc' = "provenance"
    /\ built' = NoImage
    /\ out' = FreshOut
    /\ tries' = 0
    /\ timely' \in BOOLEAN
    /\ UNCHANGED <<link, rx>>

----------------------------------------------------------------------------

Init ==
    /\ BenchInit
    /\ pc = "provenance"
    /\ built = NoImage
    /\ out = FreshOut
    /\ tries = 0
    /\ timely \in BOOLEAN

Prepare == Provenance \/ Build \/ RequireStFlash \/ Discover \/ OpenLink
Collect == CollectFrame \/ WaitExpires \/ Silent \/ FindResult \/ ReadOverSwd
RunnerStep == Prepare \/ Flash \/ Reset \/ Collect \/ PollFails \/ Validate \/ Finally

Next ==
    \/ RunnerStep \/ Interrupt \/ NextRun
    \/ (FirmwareStep \/ FaultStep) /\ UNCHANGED runVars

Spec == Init /\ [][Next]_vars

\* The runner goes on, and so does a core that executes.
FairSpec == Spec /\ WF_vars(RunnerStep) /\ WF_vars(FirmwareStep /\ UNCHANGED runVars)

----------------------------------------------------------------------------
(* Safety *)

TypeOK ==
    /\ BenchTypeOK
    /\ pc \in Pcs
    /\ built \in Slots
    /\ out \in [result : {"UNKNOWN", "PASS"} \cup {ResultName(e) : e \in Exceptions},
                exit : 0 .. 3 \cup {NoExit}, bench : Results]
    /\ tries \in {0, 1}
    /\ timely \in BOOLEAN

\* A PASS of a timely run is the result of the image it built.  The frame does
\* not say which image sent it, g_result outlives a reset, and neither is
\* cleared by the host: the one way out is a core that never gets to the
\* Reset_Handler that clears it.
PassMeansThisImageRan ==
    out.result = "PASS" /\ timely => out.bench.img = built \/ ~cleared

\* No verdict is taken from a result the firmware has not finished writing,
\* though SWD may read RAM at any moment of the benchmark.
NoHalfResult ==
    pc = "validate" => out.bench.state = "complete" /\ out.bench.code # "pending"

\* Exit 3 sends a human to the board: with nothing going wrong during the run,
\* not even a bridge found stuck leads to it.
HealthyBoardIsLeftAlone ==
    out.exit = 3 /\ timely => faults > 0

\* nucleo-hil.yml asks for a replug on every result read over SWD: with nothing
\* going wrong during the run the bridge is then really stuck.
FallbackMeansStuckBridge ==
    pc \in {"nm", "swd"} /\ timely /\ faults = 0 => vcp = "stuck"

----------------------------------------------------------------------------
(* Refinement of the runner's contract *)

Stage ==
    CASE pc \in BoardPcs   -> "trying"
      [] pc = "validate"   -> "judging"
      [] pc = "finally"    -> "closing"
      [] pc = "exited"     -> "done"
      [] OTHER             -> "preparing"

Verdict ==
    CASE out.result = "PASS"                          -> "PASS"
      [] out.result = ResultName("TestFailure")       -> "TestFailure"
      [] out.result = ResultName("RecoveryRequired")  -> "RecoveryRequired"
      [] out.result \in {ResultName("InfrastructureError"), ResultName("Other")}
                                                      -> "InfrastructureError"
      [] OTHER                                        -> "none"

\* This runner never tries again.
Contract == INSTANCE RunContract
            WITH MaxTries <- 1, stage <- Stage, verdict <- Verdict

\* Every run of this runner is a run the contract allows.
KeepsContract == Contract!ContractSpec

----------------------------------------------------------------------------
(* Liveness *)

\* A run always ends, polling g_result over SWD included.
RunFinishes == pc # "exited" ~> pc = "exited"
=============================================================================
