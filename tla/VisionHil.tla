----------------------------- MODULE VisionHil -----------------------------
(***************************************************************************)
(* boards/visioncb-8m-std/run_visioncb_hil.py: the runner's main(), its    *)
(* hardware sequence and its recovery paths, driving the bench of          *)
(* VisionBoard.  One action per call that types at the console, looks at   *)
(* the buffer, or switches power; `pc' names the statement about to run.   *)
(* After a run exits the next one starts on the bench it left behind.      *)
(*                                                                         *)
(* Time is abstract: a bounded wait may give up whenever the evidence is   *)
(* not on the screen.  With Timely it gives up only when the board has     *)
(* nothing left to print, which is what the timeouts are sized for.        *)
(***************************************************************************)
EXTENDS VisionBoard

CONSTANTS
    AcquireAttempts,   \* acquire_console_via_power_cycle's attempts
    ProbeAttempts,     \* power_cycle_attempts of discover_device, recover_probe
    Timely,            \* timeouts are long enough for a board that answers
    AllowInterrupt     \* the run may be interrupted from the keyboard

ASSUME HilAssumption ==
    /\ AcquireAttempts \in Nat \ {0}
    /\ ProbeAttempts \in Nat \ {0}
    /\ Timely \in BOOLEAN
    /\ AllowInterrupt \in BOOLEAN

VARIABLES
    pc,        \* the statement about to run
    seqNo,     \* run_hardware_sequence calls so far
    phase,     \* which Linux boot of the sequence: 1 before, 2 after the M4
    attempt,   \* relay power cycles in acquire_console_via_power_cycle
    probeTry,  \* hub port power cycles in recover_probe
    built,     \* the image this run built
    out,       \* result.json, and the exit code
    cycles     \* history: relay and hub port power cycles in this run

runVars == <<pc, seqNo, phase, attempt, probeTry, built, out, cycles>>
vars == <<envVars, runVars>>

NoExit == -1

AcquirePcs == {"acquire", "power_on", "catch"}
ResumePcs == {"image", "image_wait", "dtb", "dtb_wait", "setenv", "booti", "login_wait"}
LoginPcs == {"login", "shell_wait"}
SafetyPcs == {"findmnt", "findmnt_check", "mounts", "mounts_check", "umount",
              "recheck", "recheck_check"}
TransferPcs == {"sha", "sha_check", "transfer", "verify", "verify_wait"}
ReaderPcs == {"marker", "marker_check", "source", "compile", "compile_wait", "mark"}
M4Pcs == {"reboot", "reboot_catch", "m4_load", "m4_check", "m4_copy", "bootaux",
          "bootaux_check"}
CollectPcs == {"begin", "reader", "end", "collect"}
SequencePcs == AcquirePcs \cup ResumePcs \cup LoginPcs \cup SafetyPcs \cup TransferPcs
               \cup ReaderPcs \cup M4Pcs \cup CollectPcs
CatchPcs == {"catch", "reboot_catch"}
Pcs == SequencePcs \cup
       {"provenance", "build", "elf", "discover", "hub_off", "hub_on", "poll", "open",
        "retry", "validate", "finally", "exited"}

Fields == {"quarry", "firmware", "toolchain", "target", "benchmark", "error"}
Exceptions == {"TestFailure", "InfrastructureError", "RecoveryRequired", "Other"}

----------------------------------------------------------------------------
(* How the runner stops *)

\* type(e).__name__.upper() for a RunnerError, a constant for anything else.
ResultName(e) ==
    CASE e = "TestFailure"         -> "TESTFAILURE"
      [] e = "InfrastructureError" -> "INFRASTRUCTUREERROR"
      [] e = "RecoveryRequired"    -> "RECOVERYREQUIRED"
      [] e = "Other"               -> "INFRASTRUCTURE_ERROR"

ExitCode(e) ==
    CASE e = "TestFailure"         -> 1
      [] e = "InfrastructureError" -> 2
      [] e = "RecoveryRequired"    -> 3
      [] e = "Other"               -> 2

\* Mutants: the retry is offered again to its own failure; it is never offered.
RetriedAlways(e) == e = "RecoveryRequired" /\ pc \in SequencePcs
RetriedNever(e) == e # e

\* Is the exception one that main() answers with its single retry?
Retried(e) == e = "RecoveryRequired" /\ pc \in SequencePcs /\ seqNo = 1

Raise(e) ==
    /\ pc' = IF Retried(e) THEN "retry" ELSE "finally"
    /\ out' = IF Retried(e) THEN out
              ELSE [out EXCEPT !.result = ResultName(e), !.exit = ExitCode(e),
                               !.fields = @ \cup {"error"}]
    /\ UNCHANGED <<seqNo, phase, attempt, probeTry, built, cycles>>

Goto(l) == pc' = l /\ UNCHANGED <<seqNo, phase, attempt, probeTry, built, out, cycles>>

TimeUp == ~Timely \/ Settled

----------------------------------------------------------------------------
(* The three ways the sequence uses the console *)

\* send_line: `base' is the screen before it, blank if clear_buffer was called.
\* Writing to a device that is gone raises OSError.
Send(at, c, base, next) ==
    /\ pc = at
    /\ IF link = "dead"
       THEN Raise("Other") /\ UNCHANGED <<input, screen>>
       ELSE Goto(next) /\ input' = Typed(c, built) /\ screen' = Echo(c, base)
    /\ UNCHANGED <<power, os, mem, m4, sd, emmc, touched, probe, link, faults>>

\* The evidence is there: go on.
Found(at, ok, next) == pc = at /\ ok /\ Goto(next) /\ UNCHANGED envVars

\* The settle time or the timeout has passed without it.
Missing(at, ok, e) == pc = at /\ ~ok /\ TimeUp /\ Raise(e) /\ UNCHANGED envVars

Seen(t) == t \in screen.seen

----------------------------------------------------------------------------
(* main: provenance, build, discovery *)

Provenance ==
    /\ pc = "provenance"
    /\ \/ /\ pc' = "build"
          /\ out' = [out EXCEPT !.fields = @ \cup {"quarry"}]
          /\ UNCHANGED <<seqNo, phase, attempt, probeTry, built, cycles>>
       \/ Raise("InfrastructureError")
       \/ Raise("Other")      \* git or a tool outlasts its timeout or is missing
    /\ UNCHANGED envVars

Build ==
    /\ pc = "build"
    /\ \/ /\ built' \in Images
          /\ out' = [out EXCEPT !.fields = @ \cup {"firmware", "toolchain"}]
          /\ pc' = "elf"
          /\ UNCHANGED <<seqNo, phase, attempt, probeTry, cycles>>
       \/ Raise("InfrastructureError")
       \/ Raise("Other")      \* build.sh outlasts its timeout
    /\ UNCHANGED envVars

\* The stack top and entry point the bootaux banner will be compared with.
ReadElf ==
    /\ pc = "elf"
    /\ \/ Goto("discover")
       \/ Raise("InfrastructureError")
       \/ Raise("Other")      \* nm or readelf outlasts its timeout or is missing
    /\ UNCHANGED envVars

Resolvable == probe \in {"ok", "wedged"}

Discover ==
    /\ pc = "discover"
    /\ Goto(IF Resolvable THEN "open" ELSE "hub_off")
    /\ UNCHANGED envVars

HubOff ==
    /\ pc = "hub_off"
    /\ \/ /\ PortOff
          /\ pc' = "hub_on"
          /\ probeTry' = probeTry + 1
          /\ cycles' = [cycles EXCEPT !.hub = @ + 1]
          /\ UNCHANGED <<seqNo, phase, attempt, built, out, faults>>
       \/ Fault /\ Raise("Other") /\ (PortOff \/ UNCHANGED <<probe, link>>)     \* UsbPortError
    /\ UNCHANGED <<boardVars, screen>>

HubOn ==
    /\ pc = "hub_on"
    /\ \/ PortOn /\ Goto("poll") /\ UNCHANGED faults
       \/ Fault /\ Raise("Other") /\ (PortOn \/ UNCHANGED <<probe, link>>)      \* UsbPortError
    /\ UNCHANGED <<boardVars, screen>>

\* Mutant: the attempt count is off by one.
PollOffByOne ==
    /\ pc = "poll"
    /\ \/ Resolvable /\ Goto("open")
       \/ /\ ~Resolvable
          /\ Timely => probe # "starting"
          /\ IF probeTry <= ProbeAttempts THEN Goto("hub_off") ELSE Raise("RecoveryRequired")
    /\ UNCHANGED envVars

Poll ==
    /\ pc = "poll"
    /\ \/ Resolvable /\ Goto("open")
       \/ /\ ~Resolvable
          /\ Timely => probe # "starting"
          /\ IF probeTry < ProbeAttempts THEN Goto("hub_off") ELSE Raise("RecoveryRequired")
    /\ UNCHANGED envVars

\* The probe can vanish between being resolved and being opened.
OpenLink ==
    /\ pc = "open"
    /\ LET named == [out EXCEPT !.fields = @ \cup {"target"}] IN
       IF Resolvable
       THEN /\ link' = "open"
            /\ screen' = BlankScreen
            /\ pc' = "acquire"
            /\ seqNo' = seqNo + 1
            /\ attempt' = 0
            /\ phase' = 1
            /\ out' = named
       ELSE /\ pc' = "finally"
            /\ out' = [named EXCEPT !.result = ResultName("Other"),
                                    !.exit = ExitCode("Other"),
                                    !.fields = @ \cup {"error"}]
            /\ UNCHANGED <<link, screen, seqNo, attempt, phase>>
    /\ UNCHANGED <<boardVars, probe, faults, probeTry, built, cycles>>

----------------------------------------------------------------------------
(* acquire_console_via_power_cycle *)

PowerOff ==
    /\ pc = "acquire"
    /\ \/ /\ CutPower
          /\ pc' = "power_on"
          /\ attempt' = attempt + 1
          /\ cycles' = [cycles EXCEPT !.board = @ + 1]
          /\ UNCHANGED <<seqNo, phase, probeTry, built, out, faults>>
       \/ Fault /\ Raise("Other") /\ (CutPower \/ UNCHANGED boardVars)   \* RelayError
    /\ UNCHANGED consoleVars

\* Mutant: a relay that fails is taken for a board that does not answer.
PowerOnRetried ==
    /\ pc = "power_on"
    /\ \/ RestorePower /\ Goto("catch") /\ screen' = BlankScreen /\ UNCHANGED faults
       \/ /\ Fault /\ Raise("RecoveryRequired")
          /\ (RestorePower \/ UNCHANGED boardVars)
          /\ UNCHANGED screen
    /\ UNCHANGED <<probe, link>>

PowerOn ==
    /\ pc = "power_on"
    /\ \/ RestorePower /\ Goto("catch") /\ screen' = BlankScreen /\ UNCHANGED faults
       \/ /\ Fault /\ Raise("Other")                                     \* RelayError
          /\ (RestorePower \/ UNCHANGED boardVars)
          /\ UNCHANGED screen
    /\ UNCHANGED <<probe, link>>

\* catch_uboot_prompt types CR/LF until the prompt shows or its deadline passes.
CatchKey ==
    /\ pc \in CatchPcs
    /\ AnswerKey
    /\ UNCHANGED runVars

\* The autoboot race: keys typed every 120 ms win it if anyone reads them.
AutobootWins ==
    /\ Timely => ~(Listening /\ pc \in CatchPcs)
    /\ Autoboot
    /\ UNCHANGED runVars

CatchBroken == pc \in CatchPcs /\ link = "dead" /\ Raise("Other") /\ UNCHANGED envVars

\* Mutant: the keypress loop has no deadline.
CatchNeverOver == pc = "exited"

CatchOver == ~Seen("prompt") /\ (Timely => ~(Listening /\ os \in {"countdown", "uboot"}))

\* Mutant: the attempt count is off by one.
CatchOffByOne ==
    \/ Found("catch", Seen("prompt"), "image")
    \/ /\ pc = "catch" /\ link # "dead" /\ CatchOver /\ TimeUp
       /\ IF attempt <= AcquireAttempts THEN Goto("acquire") ELSE Raise("RecoveryRequired")
       /\ UNCHANGED envVars

Catch ==
    \/ Found("catch", Seen("prompt"), "image")
    \/ /\ pc = "catch" /\ link # "dead" /\ CatchOver /\ TimeUp
       /\ IF attempt < AcquireAttempts THEN Goto("acquire") ELSE Raise("RecoveryRequired")
       /\ UNCHANGED envVars

----------------------------------------------------------------------------
(* uboot_resume_linux and login *)

LoadImage ==
    \/ Send("image", "image", BlankScreen, "image_wait")
    \/ Found("image_wait", Seen("loaded"), "dtb")
    \/ Missing("image_wait", Seen("loaded"), "RecoveryRequired")

LoadDtb ==
    \/ Send("dtb", "dtb", BlankScreen, "dtb_wait")
    \/ Found("dtb_wait", Seen("loaded"), "setenv")
    \/ Missing("dtb_wait", Seen("loaded"), "RecoveryRequired")

BootLinux ==
    \/ Send("setenv", "setenv", screen, "booti")
    \/ Send("booti", "booti", BlankScreen, "login_wait")

\* The OS marker is looked for anywhere in the text since booti.
CheckBanner ==
    /\ pc = "login_wait"
    /\ Seen("login")
    /\ IF Seen("kirkstone") THEN Goto("login") ELSE Raise("InfrastructureError")
    /\ UNCHANGED envVars

WaitForLinux ==
    \/ CheckBanner
    \/ Missing("login_wait", Seen("login"), "RecoveryRequired")

Login ==
    \/ Send("login", "root", BlankScreen, "shell_wait")
    \/ Found("shell_wait", Seen("shell"), "findmnt")
    \/ Missing("shell_wait", Seen("shell"), "InfrastructureError")

----------------------------------------------------------------------------
(* verify_sd_root_and_unmount_emmc: fixed settle times, then one look *)

\* Mutant: findmnt's output is logged but not acted on.
CheckSdRootIgnored ==
    \/ Send("findmnt", "findmnt", BlankScreen, "findmnt_check")
    \/ Found("findmnt_check", TRUE, "mounts")

CheckSdRoot ==
    \/ Send("findmnt", "findmnt", BlankScreen, "findmnt_check")
    \/ Found("findmnt_check", Seen("sdroot"), "mounts")
    \/ Missing("findmnt_check", Seen("sdroot"), "InfrastructureError")

CheckMounts ==
    \/ Send("mounts", "mounts", BlankScreen, "mounts_check")
    \/ Found("mounts_check", Seen("emmc"), "umount")
    \/ Found("mounts_check", ~Seen("emmc") /\ TimeUp, "recheck")

UmountEmmc == Send("umount", "umount", BlankScreen, "recheck")

AfterSafety == IF phase = 1 THEN "sha" ELSE "begin"

Recheck ==
    \/ Send("recheck", "mounts", BlankScreen, "recheck_check")
    \/ Found("recheck_check", ~Seen("emmc") /\ TimeUp, AfterSafety)
    \/ pc = "recheck_check" /\ Seen("emmc") /\ Raise("InfrastructureError") /\ UNCHANGED envVars

----------------------------------------------------------------------------
(* transfer_firmware *)

\* Mutant: any checksum line will do.
ShaPrinted == screen.sha # {}

ShaMatches == built \in screen.sha

CheckPresent ==
    \/ Send("sha", "sha", BlankScreen, "sha_check")
    \/ Found("sha_check", ShaMatches, "marker")
    \/ Found("sha_check", ~ShaMatches /\ TimeUp, "transfer")

\* Mutant: the transferred file is not checked.
TransferUnverified == Send("transfer", "transfer", BlankScreen, "marker")

Transfer == Send("transfer", "transfer", BlankScreen, "verify")

VerifyTransfer ==
    \/ Send("verify", "sha", BlankScreen, "verify_wait")
    \/ Found("verify_wait", ShaMatches, "marker")
    \/ Missing("verify_wait", ShaMatches, "InfrastructureError")

----------------------------------------------------------------------------
(* ensure_reader_on_target *)

CheckReader ==
    \/ Send("marker", "marker", BlankScreen, "marker_check")
    \/ Found("marker_check", Seen("reader_sha"), "reboot")
    \/ Found("marker_check", ~Seen("reader_sha") /\ TimeUp, "source")

SendSource == Send("source", "source", BlankScreen, "compile")

CompileReader ==
    \/ Send("compile", "compile", BlankScreen, "compile_wait")
    \/ Found("compile_wait", Seen("compiled"), "mark")
    \/ Missing("compile_wait", Seen("compiled"), "InfrastructureError")

MarkReader == Send("mark", "mark", screen, "reboot")

----------------------------------------------------------------------------
(* reboot, uboot_load_and_start_m4 *)

EnterUboot ==
    \/ Send("reboot", "reboot", BlankScreen, "reboot_catch")
    \/ Found("reboot_catch", Seen("prompt"), "m4_load")
    \/ /\ link # "dead" /\ CatchOver
       /\ Missing("reboot_catch", Seen("prompt"), "RecoveryRequired")

LoadFirmware ==
    \/ Send("m4_load", "m4_load", BlankScreen, "m4_check")
    \/ Found("m4_check", Seen("loaded"), "m4_copy")
    \/ Missing("m4_check", Seen("loaded"), "InfrastructureError")

CopyFirmware == Send("m4_copy", "m4_copy", screen, "bootaux")

StartM4 == Send("bootaux", "bootaux", BlankScreen, "bootaux_check")

BannerMatches == screen.entry = Entry[built]

CheckStart ==
    /\ pc = "bootaux_check"
    /\ \/ /\ BannerMatches
          /\ pc' = "image"
          /\ phase' = 2
          /\ UNCHANGED <<seqNo, attempt, probeTry, built, out, cycles>>
       \/ screen.entry # NoEntry /\ ~BannerMatches /\ Raise("TestFailure")
       \/ screen.entry = NoEntry /\ TimeUp /\ Raise("InfrastructureError")
    /\ UNCHANGED envVars

----------------------------------------------------------------------------
(* collect_result and validate_result *)

AskResult ==
    \/ Send("begin", "begin", BlankScreen, "reader")
    \/ Send("reader", "reader", screen, "end")
    \/ Send("end", "end", screen, "collect")

\* Between the first begin marker and the first end marker.
ParseResult ==
    /\ pc = "collect"
    /\ Seen("end")
    /\ IF {"begin", "json"} \subseteq screen.seen
       THEN /\ pc' = "validate"
            /\ out' = [out EXCEPT !.bench = screen.json, !.fields = @ \cup {"benchmark"}]
            /\ UNCHANGED <<seqNo, phase, attempt, probeTry, built, cycles>>
       ELSE Raise("InfrastructureError")
    /\ UNCHANGED envVars

CollectResult ==
    \/ ParseResult
    \/ Missing("collect", Seen("end"), "InfrastructureError")

Validate ==
    /\ pc = "validate"
    /\ IF out.bench.state = "complete" /\ out.bench.good
       THEN /\ pc' = "finally"
            /\ out' = [out EXCEPT !.result = "PASS", !.exit = 0]
            /\ UNCHANGED <<seqNo, phase, attempt, probeTry, built, cycles>>
       ELSE Raise("TestFailure")
    /\ UNCHANGED envVars

----------------------------------------------------------------------------
(* main: the single retry, the end of the run *)

\* Mutant: only the board is power-cycled before the second sequence.
RetryBoardOnly ==
    /\ pc = "retry"
    /\ link' = "none"
    /\ probeTry' = 0
    /\ pc' = "open"
    /\ UNCHANGED <<boardVars, probe, screen, faults, seqNo, phase, attempt, built, out, cycles>>

Retry ==
    /\ pc = "retry"
    /\ link' = "none"
    /\ probeTry' = 0
    /\ pc' = "hub_off"
    /\ UNCHANGED <<boardVars, probe, screen, faults, seqNo, phase, attempt, built, out, cycles>>

\* `finally' leaves exit_code unbound when no except clause ran; its own log
\* line then raises and the interpreter exits with status 1.
Finally ==
    /\ pc = "finally"
    /\ link' = "none"
    /\ out' = [out EXCEPT !.written = TRUE, !.exit = IF @ = NoExit THEN 1 ELSE @]
    /\ pc' = "exited"
    /\ UNCHANGED <<boardVars, probe, screen, faults, seqNo, phase, attempt, probeTry,
                   built, cycles>>

\* KeyboardInterrupt is no Exception: neither except clause sees it.
Interrupt ==
    /\ AllowInterrupt
    /\ pc \notin {"finally", "exited"}
    /\ Goto("finally")
    /\ UNCHANGED envVars

FreshOut == [result |-> "UNKNOWN", exit |-> NoExit, fields |-> {}, bench |-> NoResult,
             written |-> FALSE]

StartRun ==
    /\ pc' = "provenance"
    /\ seqNo' = 0
    /\ phase' = 1
    /\ attempt' = 0
    /\ probeTry' = 0
    /\ built' = NoImage
    /\ out' = FreshOut
    /\ cycles' = [board |-> 0, hub |-> 0]

NextRun ==
    /\ pc = "exited"
    /\ StartRun
    /\ faults' = FoundFaults
    /\ touched' = [root |-> {}, emmc |-> FALSE]
    /\ screen' = BlankScreen
    /\ UNCHANGED <<power, os, input, mem, m4, sd, emmc, probe, link>>

----------------------------------------------------------------------------

Init ==
    /\ BoardInit
    /\ pc = "provenance"
    /\ seqNo = 0
    /\ phase = 1
    /\ attempt = 0
    /\ probeTry = 0
    /\ built = NoImage
    /\ out = FreshOut
    /\ cycles = [board |-> 0, hub |-> 0]

Prepare == Provenance \/ Build \/ ReadElf \/ Discover \/ HubOff \/ HubOn \/ Poll \/ OpenLink
Acquire == PowerOff \/ PowerOn \/ Catch \/ CatchBroken
Resume == LoadImage \/ LoadDtb \/ BootLinux \/ WaitForLinux \/ Login
Safety == CheckSdRoot \/ CheckMounts \/ UmountEmmc \/ Recheck
Deploy == CheckPresent \/ Transfer \/ VerifyTransfer
          \/ CheckReader \/ SendSource \/ CompileReader \/ MarkReader
Measure == EnterUboot \/ LoadFirmware \/ CopyFirmware \/ StartM4 \/ CheckStart
           \/ AskResult \/ CollectResult \/ Validate
RunnerStep == Prepare \/ Acquire \/ Resume \/ Safety \/ Deploy \/ Measure \/ Retry \/ Finally

Next ==
    \/ RunnerStep \/ CatchKey \/ AutobootWins \/ Interrupt \/ NextRun
    \/ (BoardStep \/ FaultStep) /\ UNCHANGED runVars

Spec == Init /\ [][Next]_vars

\* The runner's own steps never stop being taken: every wait has a deadline.
FairSpec == Spec /\ WF_vars(RunnerStep)

----------------------------------------------------------------------------
(* Safety *)

TypeOK ==
    /\ BoardTypeOK
    /\ pc \in Pcs
    /\ seqNo \in 0 .. 2
    /\ phase \in {1, 2}
    /\ attempt \in 0 .. AcquireAttempts
    /\ probeTry \in 0 .. ProbeAttempts
    /\ built \in Slots
    /\ out \in [result : {"UNKNOWN", "PASS"} \cup {ResultName(e) : e \in Exceptions},
                exit : 0 .. 3 \cup {NoExit}, fields : SUBSET Fields,
                bench : Results, written : BOOLEAN]
    /\ cycles \in [board : Nat, hub : Nat]

\* A PASS is the result of the image this run built, although the card, DTCM
\* and the reader outlive a run and every image has the same bootaux banner.
PassMeansThisBuildRan ==
    out.result = "PASS" => out.bench.img = built /\ built \in Images

\* Once transfer_firmware is done, the card holds this run's image until the
\* reboot that loads it (nothing later in the sequence writes or loses it).
VerifiedImageStays ==
    pc \in ReaderPcs \cup {"reboot"} => sd.fw = built

\* README: "eMMC is never written": no line the runner types to make, write or
\* compile a file is read by the factory system, in whatever order boots, resets
\* and logins happen.  (root's own login there is hil_claim_login's.)
NoEmmcWrite == ~touched.emmc

\* README: "not an unbounded retry loop".  However the run goes, the board is
\* power-cycled at most twice AcquireAttempts times and the probe's port at
\* most twice ProbeAttempts times.
BoundedRecovery ==
    /\ cycles.board <= 2 * AcquireAttempts
    /\ cycles.hub <= 2 * ProbeAttempts

\* README's meaning of exit code 3: the board stayed unresponsive through a
\* relay and a probe power cycle, or the probe through all of its own.
RecoveryIsLastResort ==
    out.exit = 3 =>
        \/ seqNo = 2 /\ cycles.board > 1 /\ cycles.hub > 0
        \/ probeTry = ProbeAttempts

\* A run that cycled the board leaves it powered, whatever its verdict, unless the
\* step that ended it came at one of the relay's two commands: RelayError, or an
\* interrupt between off and on.  No error the runner itself raises leaves it off.
BoardLeftPowered ==
    [][pc' \in {"finally", "exited"} /\ cycles'.board > 0 /\ ~power' =>
          /\ pc \in {"acquire", "power_on"} \/ (pc \in {"finally", "exited"} /\ ~power)
          /\ out'.result \in {"UNKNOWN", ResultName("Other")}]_vars

\* When the timeouts are long enough, one thing going wrong never calls for a
\* human: the probe and board power cycles of the single retry heal it.
OneFaultIsHealed == out.exit = 3 => faults > 1

----------------------------------------------------------------------------
(* Refinement of the runner's contract *)

Stage ==
    CASE pc \in SequencePcs -> "trying"
      [] pc = "validate"    -> "judging"
      [] pc = "finally"     -> "closing"
      [] pc = "exited"      -> "done"
      [] OTHER              -> IF seqNo = 0 THEN "preparing" ELSE "recovering"

Verdict ==
    CASE out.result = "PASS"                          -> "PASS"
      [] out.result = ResultName("TestFailure")       -> "TestFailure"
      [] out.result = ResultName("RecoveryRequired")  -> "RecoveryRequired"
      [] out.result \in {ResultName("InfrastructureError"), ResultName("Other")}
                                                      -> "InfrastructureError"
      [] OTHER                                        -> "none"

\* main() runs the sequence, and runs it again once.
Contract == INSTANCE RunContract
            WITH MaxTries <- 2, stage <- Stage, tries <- seqNo, verdict <- Verdict

\* Every run of this runner is a run the contract allows.
KeepsContract == Contract!ContractSpec

----------------------------------------------------------------------------
(* Liveness *)

\* A run always ends, its result.json written: no wait lacks a deadline, the
\* retry loops are bounded, and no way out passes `finally' by.
RunFinishes == pc # "exited" ~> pc = "exited" /\ out.written
=============================================================================
