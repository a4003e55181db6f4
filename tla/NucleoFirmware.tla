--------------------------- MODULE NucleoFirmware ---------------------------
(***************************************************************************)
(* boards/nucleo-f446re/firmware: the benchmark on the NUCLEO's one core,  *)
(* from Reset_Handler to the frame it streams once over USART2, and what   *)
(* its bench does to it: the ST-LINK's VCP bridge that carries the frame,  *)
(* its SWD side, and the console buffer of the runner's open SerialLink.   *)
(*                                                                         *)
(* The result structure is abstracted to the image that wrote it, its      *)
(* `state' and its `result_code'; a frame to its three parts.              *)
(***************************************************************************)
EXTENDS Integers, Sequences

CONSTANTS
    Images,       \* firmware images a build can produce
    NoImage,      \* a flash that holds none, or part of one
    MaxFaults     \* bound: faults in one run of the runner

ASSUME FirmwareAssumption == NoImage \notin Images /\ MaxFaults \in Nat

VARIABLES
    flash,   \* the image in flash
    core,    \* where its execution is
    gres,    \* g_result in RAM
    cleared, \* history: has the image in flash zeroed g_result since it was written
    vcp,     \* the ST-LINK's UART bridge
    swd,     \* its debug side
    link,    \* is the runner's SerialLink open
    rx,      \* SerialLink._buf
    faults   \* faults this run has met

chipVars == <<flash, core, gres, cleared>>
wireVars == <<vcp, swd, link, rx>>
benchVars == <<chipVars, wireVars, faults>>

Slots == Images \cup {NoImage}
States == {"init", "started", "complete"}
Codes == {"pending", "pass", "fail"}
Results == [img : Slots, state : States, code : Codes]
NoResult == [img |-> NoImage, state |-> "init", code |-> "pending"]

Executing == {"reset", "start", "bench", "concluded", "begin", "hex", "end"}
Cores == Executing \cup {"beat", "hung", "halted"}

Parts == {"begin", "hex", "short", "end", "noise"}

\* Bound: the firmware found running, the one st-flash may leave running and the
\* one the runner resets can each send the three parts of a frame.
MaxParts == 9

BenchTypeOK ==
    /\ flash \in Slots
    /\ core \in Cores
    /\ gres \in Results
    /\ cleared \in BOOLEAN
    /\ vcp \in {"ok", "stuck"}
    /\ swd \in {"ok", "dead"}
    /\ link \in BOOLEAN
    /\ rx \in Seq([part : Parts, res : Results]) /\ Len(rx) <= MaxParts
    /\ faults \in 0 .. MaxFaults

\* A bench left by earlier sessions, its firmware wherever it got to.
BenchInit ==
    /\ flash \in Slots
    /\ core \in {"beat", "hung", "begin"}
    /\ gres = IF flash = NoImage \/ core = "hung" THEN NoResult
              ELSE [img |-> flash, state |-> "complete", code |-> "pass"]
    /\ flash = NoImage => core = "hung"
    /\ cleared = TRUE
    /\ vcp \in {"ok", "stuck"}
    /\ swd \in {"ok", "dead"}
    /\ link = FALSE
    /\ rx = <<>>
    /\ faults = 0

Fault == faults < MaxFaults /\ faults' = faults + 1

----------------------------------------------------------------------------
(* startup.c and main.c *)

\* Reset_Handler: the stack is painted, .bss, g_result with it, is zeroed.
Boot ==
    /\ core = "reset"
    /\ IF flash \in Images
       THEN core' = "start" /\ gres' = NoResult /\ cleared' = TRUE
       ELSE core' = "hung" /\ UNCHANGED <<gres, cleared>>
    /\ UNCHANGED <<flash, wireVars, faults>>

TestStarted ==
    /\ core = "start"
    /\ gres' = [gres EXCEPT !.img = flash, !.state = "started"]
    /\ core' = "bench"
    /\ UNCHANGED <<flash, cleared, wireVars, faults>>

\* Mutant: the state is set before the result code.
ConcludeSwapped ==
    /\ \/ /\ core = "bench"
          /\ gres' = [gres EXCEPT !.state = "complete"]
          /\ core' = "concluded"
       \/ /\ core = "concluded"
          /\ \E c \in {"pass", "fail"} : gres' = [gres EXCEPT !.code = c]
          /\ core' = "begin"
    /\ UNCHANGED <<flash, cleared, wireVars, faults>>

\* run_benchmark's exits (no DWT, a failed proof pass, the loops' verdict) all
\* store result_code, then state; g_result is volatile, so RAM sees that order.
Conclude ==
    /\ \/ /\ core = "bench"
          /\ \E c \in {"pass", "fail"} : gres' = [gres EXCEPT !.code = c]
          /\ core' = "concluded"
       \/ /\ core = "concluded"
          /\ gres' = [gres EXCEPT !.state = "complete"]
          /\ core' = "begin"
    /\ UNCHANGED <<flash, cleared, wireVars, faults>>

\* The runner's buffer after the firmware sends a part of its frame.
Received(part) ==
    IF link /\ vcp = "ok" THEN Append(rx, [part |-> part, res |-> gres]) ELSE rx

\* The link has no flow control: a part may arrive damaged or truncated.
Send(at, part, damaged, next) ==
    /\ core = at
    /\ \/ rx' = Received(part) /\ UNCHANGED faults
       \/ Fault /\ rx' = Received(damaged)
    /\ core' = next
    /\ UNCHANGED <<flash, gres, cleared, vcp, swd, link>>

SendBegin == Send("begin", "begin", "noise", "hex")
SendHex == Send("hex", "hex", "short", "end")

\* Mutant: the firmware reports again and again.
SendEndAndRepeat == Send("end", "end", "noise", "begin")

\* After its one report the core only counts its heartbeat.
SendEnd == Send("end", "end", "noise", "beat")

FirmwareStep == Boot \/ TestStarted \/ Conclude \/ SendBegin \/ SendHex \/ SendEnd

----------------------------------------------------------------------------
(* st-flash *)

\* write: the core is halted and its RAM borrowed for the flash loader; it may
\* be left running the new image.
WriteFlash(i) ==
    /\ swd = "ok"
    /\ flash' = i
    /\ core' \in {"halted", "reset"}
    /\ gres' \in {gres, NoResult}
    /\ cleared' = FALSE
    /\ UNCHANGED <<wireVars, faults>>

ResetCore ==
    /\ swd = "ok"
    /\ core' = "reset"
    /\ UNCHANGED <<flash, gres, cleared, wireVars, faults>>

----------------------------------------------------------------------------
(* Faults: each one, damage to a frame too, is reported by the README or a  *)
(* comment as seen on this bench                                           *)

\* "bridge forwarded nothing until the USB cable was physically replugged"
BridgeSticks ==
    /\ Fault
    /\ vcp = "ok"
    /\ vcp' = "stuck"
    /\ UNCHANGED <<chipVars, swd, link, rx>>

\* "unreachable over SWD until the cable is physically replugged"
SwdLost ==
    /\ Fault
    /\ swd = "ok"
    /\ swd' = "dead"
    /\ UNCHANGED <<chipVars, vcp, link, rx>>

\* The core hangs: Default_Handler, or it never comes out of reset.
CoreHangs ==
    /\ Fault
    /\ core \in Executing
    /\ core' = "hung"
    /\ UNCHANGED <<flash, gres, cleared, wireVars>>

FaultStep == BridgeSticks \/ SwdLost \/ CoreHangs
=============================================================================
