---------------------------- MODULE VisionBoard ----------------------------
(***************************************************************************)
(* The VisionCB bench as run_visioncb_hil.py depends on it: board power,   *)
(* the A53 side (boot countdown, U-Boot, Linux from SD or from the factory *)
(* eMMC), the SD card, the M4 with its two memories, the J-Link probe that *)
(* carries the console, and the console buffer of the open SerialLink.     *)
(* None of this is code of the repository; each action is what the         *)
(* runner's commands, waits and comments assume of the device.             *)
(*                                                                         *)
(* Console text is abstracted to the evidence the runner looks for; a line *)
(* the runner types waits in `input' until the board gets to it, which may *)
(* be after the runner stopped waiting and typed something else.           *)
(***************************************************************************)
EXTENDS Integers, Sequences

CONSTANTS
    Images,       \* firmware images a build can produce
    NoImage,      \* no image, or bytes that are no image
    Entry,        \* the (stack, pc) pair an image's vector table starts with
    NoEntry,      \* no bootaux banner on the console
    InputCap,     \* bound: typed lines the board has not read yet
    MaxFaults     \* bound: environment faults in one run of the runner

ASSUME BoardAssumption ==
    /\ NoImage \notin Images
    /\ NoEntry \notin {Entry[i] : i \in Images \cup {NoImage}}
    /\ Entry = [i \in Images \cup {NoImage} |-> Entry[i]]
    /\ InputCap \in Nat \ {0}
    /\ MaxFaults \in Nat

VARIABLES
    power,    \* does the relay feed the board
    os,       \* what the A53 is running
    input,    \* lines typed at the console and not yet read by the board
    mem,      \* what U-Boot has placed in memory
    m4,       \* the M4's result structure in DTCM
    sd,       \* the SD card: firmware, reader and reader checksum marker
    emmc,     \* are eMMC partitions mounted in the running Linux
    probe,    \* the J-Link probe
    link,     \* the runner's SerialLink: closed, open, or open on a lost device
    screen,   \* evidence in SerialLink._buf
    faults,   \* faults this run has met, a probe found wedged included
    touched   \* history: where "root" was sent and whether eMMC was written

boardVars == <<power, os, input, mem, m4, sd, emmc, touched>>
consoleVars == <<probe, link, screen>>
envVars == <<boardVars, consoleVars, faults>>

Slots == Images \cup {NoImage}
Entries == {Entry[i] : i \in Slots}

Shells == {"sd_shell", "emmc_shell"}
Booting == {"countdown", "sd_boot", "emmc_boot"}
Alive == Shells \cup Booting \cup {"uboot", "sd_login", "emmc_login"}

Commands ==
    {"image", "dtb", "setenv", "booti", "root", "findmnt", "mounts", "umount",
     "sha", "transfer", "marker", "source", "compile", "mark", "reboot",
     "m4_load", "m4_copy", "bootaux", "begin", "reader", "end"}

Evidence ==
    {"prompt", "loaded", "kirkstone", "login", "shell", "sdroot", "emmc",
     "reader_sha", "compiled", "begin", "json", "end"}

Results == [img : Slots, state : {"none", "running", "complete"}, good : BOOLEAN]
NoResult == [img |-> NoImage, state |-> "none", good |-> FALSE]

BlankScreen == [seen |-> {}, sha |-> {}, entry |-> NoEntry, json |-> NoResult]
BlankMem == [boot |-> {}, ram |-> NoImage, tcm |-> NoImage]

BoardTypeOK ==
    /\ power \in BOOLEAN
    /\ os \in Alive \cup {"off", "hung"}
    /\ input \in Seq([cmd : Commands, img : Slots])
    /\ mem \in [boot : SUBSET {"image", "dtb", "setenv"}, ram : Slots, tcm : Slots]
    /\ m4 \in Results
    /\ sd \in [fw : Slots, source : BOOLEAN, reader : BOOLEAN,
               marker : BOOLEAN, dirty : BOOLEAN]
    /\ emmc \in BOOLEAN
    /\ probe \in {"ok", "wedged", "gone", "starting"}
    /\ link \in {"none", "open", "dead"}
    /\ screen \in [seen : SUBSET Evidence, sha : SUBSET Images,
                   entry : Entries \cup {NoEntry}, json : Results]
    /\ faults \in 0 .. MaxFaults
    /\ touched \in [root : SUBSET {"sd_login", "emmc_login"}, emmc : BOOLEAN]

\* A probe left wedged by what happened before the run counts against it.
FoundFaults == IF probe = "wedged" /\ MaxFaults > 0 THEN 1 ELSE 0

\* A bench found by the first run: powered, whatever it was left doing.
BoardInit ==
    /\ power = TRUE
    /\ os \in {"uboot", "sd_shell", "emmc_login"}
    /\ input = <<>>
    /\ mem = BlankMem
    /\ m4 = NoResult
    /\ \E fw \in Slots :
          sd = [fw |-> fw, source |-> FALSE, reader |-> FALSE,
                marker |-> FALSE, dirty |-> FALSE]
    /\ emmc = (os = "sd_shell")
    /\ probe \in {"ok", "wedged", "gone"}
    /\ link = "none"
    /\ screen = BlankScreen
    /\ faults = FoundFaults
    /\ touched = [root |-> {}, emmc |-> FALSE]

----------------------------------------------------------------------------
(* The console *)

Listening == link = "open" /\ probe = "ok"

\* The screen after the board prints `tokens'.
With(tokens, s) == IF Listening THEN [s EXCEPT !.seen = @ \cup tokens] ELSE s

\* A Linux tty echoes what is typed at a live shell before it is run, so the
\* text of these three commands is itself a match for the later wait.
EchoOf(c) ==
    CASE c = "begin"   -> {"begin"}
      [] c = "end"     -> {"end"}
      [] c = "compile" -> {"compiled"}
      [] OTHER         -> {}

Echo(c, s) == IF os \in Shells THEN With(EchoOf(c), s) ELSE s

\* The board's input after the runner types the line.
Typed(c, i) ==
    IF Listening /\ os \in Alive /\ Len(input) < InputCap
    THEN Append(input, [cmd |-> c, img |-> i])
    ELSE input

Reads(c) == input # <<>> /\ Head(input).cmd = c /\ input' = Tail(input)

\* Nothing further will be printed unless something is typed or fails.
Settled == ~Listening \/ os \notin Alive \/ (input = <<>> /\ os \notin Booting)

----------------------------------------------------------------------------
(* Power, used by the runner's relay and hub steps *)

CutPower ==
    /\ power' = FALSE
    /\ os' = "off"
    /\ input' = <<>>
    /\ mem' = BlankMem
    /\ m4' = NoResult
    /\ emmc' = FALSE
    /\ \E lost \in IF sd.dirty THEN BOOLEAN ELSE {FALSE} :
          sd' = [sd EXCEPT !.fw = IF lost THEN NoImage ELSE @,
                           !.reader = @ /\ ~lost,
                           !.dirty = FALSE]
    /\ UNCHANGED touched

RestorePower ==
    /\ power' = TRUE
    /\ os' = IF power THEN os ELSE "countdown"
    /\ UNCHANGED <<input, mem, m4, sd, emmc, touched>>

----------------------------------------------------------------------------
(* U-Boot *)

\* A key pressed during the countdown stops autoboot; at the prompt it brings
\* another prompt.
AnswerKey ==
    /\ Listening
    /\ os \in {"countdown", "uboot"}
    /\ os' = "uboot"
    /\ screen' = With({"prompt"}, screen)
    /\ UNCHANGED <<power, input, mem, m4, sd, emmc, touched, probe, link, faults>>

Autoboot ==
    /\ os = "countdown"
    /\ os' = "emmc_boot"
    /\ UNCHANGED <<power, input, mem, m4, sd, emmc, touched, consoleVars, faults>>

LoadForLinux ==
    /\ os = "uboot"
    /\ \E c \in {"image", "dtb", "setenv"} :
          /\ Reads(c)
          /\ mem' = [mem EXCEPT !.boot = @ \cup {c}]
          /\ screen' = IF c = "setenv" THEN screen ELSE With({"loaded"}, screen)
    /\ UNCHANGED <<power, os, m4, sd, emmc, touched, probe, link, faults>>

\* booti without the device tree returns to the prompt; without the bootargs
\* the kernel finds no root or the factory one.
Booti ==
    /\ os = "uboot"
    /\ Reads("booti")
    /\ os' \in IF {"image", "dtb"} \subseteq mem.boot
               THEN IF "setenv" \in mem.boot THEN {"sd_boot"} ELSE {"hung", "emmc_boot"}
               ELSE {"uboot"}
    /\ mem' = [mem EXCEPT !.boot = {}]
    /\ UNCHANGED <<power, m4, sd, emmc, touched, consoleVars, faults>>

LoadM4 ==
    /\ os = "uboot"
    /\ Reads("m4_load")
    /\ mem' = [mem EXCEPT !.ram = sd.fw]
    /\ screen' = With({"loaded"}, screen)
    /\ UNCHANGED <<power, os, m4, sd, emmc, touched, probe, link, faults>>

CopyM4 ==
    /\ os = "uboot"
    /\ Reads("m4_copy")
    /\ mem' = [mem EXCEPT !.tcm = mem.ram]
    /\ UNCHANGED <<power, os, m4, sd, emmc, touched, consoleVars, faults>>

\* bootaux prints the stack and pc it finds in TCM and releases the M4.
Bootaux ==
    /\ os = "uboot"
    /\ Reads("bootaux")
    /\ screen' = IF Listening THEN [screen EXCEPT !.entry = Entry[mem.tcm]] ELSE screen
    /\ m4' = IF mem.tcm = NoImage THEN m4
             ELSE [img |-> mem.tcm, state |-> "running", good |-> FALSE]
    /\ UNCHANGED <<power, os, mem, sd, emmc, touched, probe, link, faults>>

\* The benchmark ends; whether its round trips were correct is up to it.
M4Complete ==
    /\ m4.state = "running"
    /\ \E ok \in BOOLEAN : m4' = [m4 EXCEPT !.state = "complete", !.good = ok]
    /\ UNCHANGED <<power, os, input, mem, sd, emmc, touched, consoleVars, faults>>

----------------------------------------------------------------------------
(* Linux *)

\* The kernel's welcome line already carries the OS marker.
Welcome ==
    /\ os = "sd_boot"
    /\ screen' = With({"kirkstone"}, screen)
    /\ UNCHANGED <<boardVars, probe, link, faults>>

\* The stock SD image auto-mounts the eMMC partitions on the way up.
SdUp ==
    /\ os = "sd_boot"
    /\ os' = "sd_login"
    /\ emmc' = TRUE
    /\ screen' = With({"kirkstone", "login"}, screen)
    /\ UNCHANGED <<power, input, mem, m4, sd, touched, probe, link, faults>>

EmmcUp ==
    /\ os = "emmc_boot"
    /\ os' = "emmc_login"
    /\ screen' = With({"login"}, screen)
    /\ UNCHANGED <<power, input, mem, m4, sd, emmc, touched, probe, link, faults>>

LoginRoot ==
    /\ os \in {"sd_login", "emmc_login"}
    /\ Reads("root")
    /\ touched' = [touched EXCEPT !.root = @ \cup {os}]
    /\ os' = IF os = "sd_login" THEN "sd_shell" ELSE "emmc_shell"
    /\ screen' = With({"shell"}, screen)
    /\ UNCHANGED <<power, mem, m4, sd, emmc, probe, link, faults>>

\* Commands that only print.
ShellPrint ==
    /\ os \in Shells
    /\ \/ Reads("findmnt") /\ screen' = With(IF os = "sd_shell" THEN {"sdroot"} ELSE {}, screen)
       \/ Reads("mounts") /\ screen' = With(IF emmc THEN {"emmc"} ELSE {}, screen)
       \/ Reads("begin") /\ screen' = With({"begin"}, screen)
       \/ Reads("end") /\ screen' = With({"end"}, screen)
       \/ Reads("sha") /\ screen' = IF Listening
                                    THEN [screen EXCEPT !.sha = @ \cup ({sd.fw} \ {NoImage})]
                                    ELSE screen
    /\ UNCHANGED <<power, os, mem, m4, sd, emmc, touched, probe, link, faults>>

Umount ==
    /\ os \in Shells
    /\ Reads("umount")
    /\ emmc' \in {FALSE, emmc}      \* a busy partition stays
    /\ UNCHANGED <<power, os, mem, m4, sd, touched, consoleVars, faults>>

\* Commands that write to the running system's root, or, a transfer, to the
\* card's boot partition.  The look for the marker makes its directory first.
ShellWrite ==
    /\ os \in Shells
    /\ \/ /\ \E i \in Slots : Reads("transfer") /\ i \in {Head(input).img, NoImage}
                              /\ sd' = [sd EXCEPT !.fw = i, !.dirty = TRUE]
          /\ UNCHANGED screen
       \/ /\ Reads("source")
          /\ \E ok \in BOOLEAN : sd' = [sd EXCEPT !.source = ok, !.dirty = TRUE]
          /\ UNCHANGED screen
       \/ /\ Reads("compile")
          /\ sd' = [sd EXCEPT !.reader = sd.source \/ @, !.dirty = TRUE]
          /\ screen' = With(IF sd.source THEN {"compiled"} ELSE {}, screen)
       \/ /\ Reads("mark")
          /\ sd' = [sd EXCEPT !.marker = TRUE, !.dirty = TRUE]
          /\ UNCHANGED screen
       \/ /\ Reads("marker")
          /\ screen' = With(IF sd.marker THEN {"reader_sha"} ELSE {}, screen)
          /\ UNCHANGED sd
    /\ touched' = [touched EXCEPT !.emmc = @ \/ (os = "emmc_shell" /\ Head(input).cmd # "transfer")]
    /\ UNCHANGED <<power, os, mem, m4, emmc, probe, link, faults>>

\* The on-target reader dumps DTCM as JSON; after the end marker nobody reads it.
RunReader ==
    /\ os \in Shells
    /\ Reads("reader")
    /\ screen' = IF Listening /\ sd.reader /\ "end" \notin screen.seen
                 THEN [screen EXCEPT !.seen = @ \cup {"json"}, !.json = m4]
                 ELSE screen
    /\ UNCHANGED <<power, os, mem, m4, sd, emmc, touched, probe, link, faults>>

\* A clean shutdown writes everything back; DTCM outlives the warm reset.
Reboot ==
    /\ os \in Shells
    /\ Reads("reboot")
    /\ os' = "countdown"
    /\ emmc' = FALSE
    /\ mem' = BlankMem
    /\ sd' = [sd EXCEPT !.dirty = FALSE]
    /\ UNCHANGED <<power, m4, touched, consoleVars, faults>>

----------------------------------------------------------------------------
(* The probe *)

Enumerate ==
    /\ probe = "starting"
    /\ probe' = "ok"
    /\ UNCHANGED <<boardVars, link, screen, faults>>

PortOff == probe' = "gone" /\ link' = (IF link = "none" THEN "none" ELSE "dead")
PortOn == probe' = "starting" /\ UNCHANGED link

----------------------------------------------------------------------------
(* Faults: each one the code's comments say was seen on this bench *)

Fault == faults < MaxFaults /\ faults' = faults + 1

\* The A53 stops answering.
Hang ==
    /\ Fault
    /\ os \in Alive
    /\ os' = "hung"
    /\ UNCHANGED <<power, input, mem, m4, sd, emmc, touched, consoleVars>>

\* The A53 resets while resuming Linux ("Synchronous Abort"), before or after
\* the kernel's welcome line, and counts down to autoboot again.
AbortReset ==
    /\ Fault
    /\ os = "sd_boot"
    /\ os' = "countdown"
    /\ input' = <<>>
    /\ mem' = [mem EXCEPT !.boot = {}]
    /\ UNCHANGED <<power, m4, sd, emmc, touched, consoleVars>>

\* A stray byte lands in a typed line, or U-Boot drops it: it does nothing.
LineLost ==
    /\ Fault
    /\ input # <<>>
    /\ input' = Tail(input)
    /\ UNCHANGED <<power, os, mem, m4, sd, emmc, touched, consoleVars>>

\* The probe drops off the USB bus; an open descriptor is then useless.
ProbeDrop ==
    /\ Fault
    /\ probe # "gone"
    /\ probe' = "gone"
    /\ link' = IF link = "none" THEN "none" ELSE "dead"
    /\ UNCHANGED <<boardVars, screen>>

\* The probe stays enumerated and carries no bytes.
ProbeWedge ==
    /\ Fault
    /\ probe = "ok"
    /\ probe' = "wedged"
    /\ UNCHANGED <<boardVars, link, screen>>

BoardStep ==
    \/ LoadForLinux \/ Booti \/ LoadM4 \/ CopyM4 \/ Bootaux \/ M4Complete
    \/ Welcome \/ SdUp \/ EmmcUp \/ LoginRoot \/ ShellPrint \/ Umount \/ ShellWrite
    \/ RunReader \/ Reboot \/ Enumerate

FaultStep == Hang \/ AbortReset \/ LineLost \/ ProbeDrop \/ ProbeWedge
=============================================================================
