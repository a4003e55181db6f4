------------------------ MODULE VisionRecovery_proofs ------------------------
(***************************************************************************)
(* What the VisionCB runner's single retry is worth: when its timeouts are *)
(* long enough for a board that answers, a run that ends with "manual      *)
(* recovery required" has met more than one fault, however the board, the  *)
(* probe and the typed lines interleave.                                   *)
(*                                                                         *)
(* Until a fault happens, and again after the retry has cycled the probe's *)
(* port and until a second one happens, the invariant says statement by    *)
(* statement where the board is and which typed lines it has yet to read.  *)
(* A wait that ends in RecoveryRequired cannot give up in any of those     *)
(* states, so the exception is charged to a fault.                         *)
(***************************************************************************)
EXTENDS VisionBench_proofs

----------------------------------------------------------------------------
(* The inductive invariant *)

\* main()'s single retry is under way: the probe's port is cycled and the
\* console opened again, or the second sequence runs.
Healing == seqNo = 2 \/ (seqNo = 1 /\ pc \in HubPcs \cup {"retry", "open"})
\* No fault has happened since the one the retry is there for.
Quiet == IF Healing THEN faults <= 1 ELSE faults = 0
\* The environment has met its budget of none, or used some of it.
Charged == MaxFaults = 0 \/ faults >= 1

\* The board's unread lines: none, one, two.
Idle == input = <<>>
One(c) == Len(input) = 1 /\ input[1].cmd = c
Two(c, d) == Len(input) = 2 /\ input[1].cmd = c /\ input[2].cmd = d

\* U-Boot's prompt, the count-down to it, and the prompt the runner has seen.
AtPrompt == os = "uboot" /\ Idle
Resetting == os = "countdown" /\ Idle /\ ~Seen("prompt")
Prompted == AtPrompt /\ Seen("prompt")
\* U-Boot is about to load the file, or has.
Loading(c) ==
    /\ os = "uboot"
    /\ \/ One(c) /\ ~Seen("loaded")
       \/ Idle /\ c \in mem.boot /\ Seen("loaded")
\* The boot arguments are about to be set, or are.
SetsArgs == os = "uboot" /\ (One("setenv") \/ (Idle /\ "setenv" \in mem.boot))
\* U-Boot has the kernel and is to start it, or it is on its way to the login.
BootsCard ==
    \/ /\ os = "uboot" /\ {"image", "dtb"} \subseteq mem.boot /\ ~Seen("login")
       /\ Two("setenv", "booti") \/ (One("booti") /\ "setenv" \in mem.boot)
    \/ (os = "sd_boot" /\ Idle /\ ~Seen("login"))
    \/ (os = "sd_login" /\ Idle /\ Seen("login"))
\* The login is about to be read, or the shell is there.
LogsIn ==
    \/ os = "sd_login" /\ One("root") /\ ~Seen("shell")
    \/ os = "sd_shell" /\ Idle
\* A reboot is the last line, and only the last line, to be read.
RebootLast ==
    /\ Len(input) > 0 /\ input[Len(input)].cmd = "reboot"
    /\ \A i \in 1 .. Len(input) : input[i].cmd = "reboot" => i = Len(input)
\* The reboot the runner typed, and whose prompt it will wait for.
WillReboot == os = "sd_shell" /\ RebootLast /\ ~Seen("prompt")
\* Back in U-Boot, with the lines that start the M4 core typed or read.
StartsM4 ==
    /\ os = "uboot"
    /\ \/ Idle
       \/ screen.entry = NoEntry /\ (Two("m4_copy", "bootaux") \/ One("bootaux"))

\* Statements at the card's shell, and the lines it may not have read by then.
ShellPcs == SafetyPcs \cup TransferPcs \cup ReaderPcs \cup {"reboot"}
\* How many typed lines the shell may still have before it at statement l.
Backlog(l) ==
    CASE l \in {"findmnt", "sha", "transfer", "source"} -> 0
      [] l \in {"findmnt_check", "mounts", "sha_check", "verify", "compile"} -> 1
      [] l \in {"mounts_check", "umount", "verify_wait", "marker", "compile_wait", "mark"} -> 2
      [] l \in {"recheck", "marker_check", "reboot"} -> 3
      [] OTHER -> 4
\* None of them ends the shell.
NoReboot == \A q \in Queued : q.cmd # "reboot"
Shell(l) == os = "sd_shell" /\ Len(input) <= Backlog(l) /\ NoReboot

\* Where the board is, and what it has still to read, at each statement of a
\* sequence that nothing has gone wrong in.
Healthy ==
    /\ pc = "power_on" => ~power /\ os = "off" /\ Idle
    /\ pc = "catch" => Resetting \/ Prompted
    /\ pc \in {"image", "m4_load", "m4_copy"} => AtPrompt
    /\ pc = "image_wait" => Loading("image")
    /\ pc = "dtb" => AtPrompt /\ "image" \in mem.boot
    /\ pc = "dtb_wait" => Loading("dtb") /\ "image" \in mem.boot
    /\ pc = "setenv" => AtPrompt /\ {"image", "dtb"} \subseteq mem.boot
    /\ pc = "booti" => SetsArgs /\ {"image", "dtb"} \subseteq mem.boot
    /\ pc = "login_wait" => BootsCard
    /\ pc = "login" => os = "sd_login" /\ Idle
    /\ pc = "shell_wait" => LogsIn
    /\ pc \in ShellPcs => Shell(pc)
    /\ pc = "reboot_catch" => WillReboot \/ Resetting \/ Prompted
    /\ pc = "m4_check" => os = "uboot" /\ ((One("m4_load") /\ ~Seen("loaded")) \/ Idle)
    /\ pc = "bootaux" => os = "uboot" /\ (One("m4_copy") \/ Idle)
    /\ pc = "bootaux_check" => StartsM4

\* Nothing has gone wrong in the sequence that is running.
Fine == probe = "ok" /\ link = "open" /\ Healthy

\* What a fault is good for.  Whatever leads to a retry or a second port cycle has been
\* charged to one (Charged, the counts of probeTry); a first try without a fault, and a
\* second one after a single fault, are where they should be (Fine); and so nothing
\* gives up that a single fault leaves to be tried (OneFaultIsHealed).
HealInv ==
    /\ Healing => Charged
    /\ probe = "wedged" => Charged
    /\ Healing /\ Quiet /\ pc \notin {"retry", "hub_off"} => probe # "wedged"
    /\ pc = "hub_off" => probeTry <= faults
    /\ pc \in {"hub_on", "poll"} => probeTry <= faults + 1
    /\ pc = "poll" /\ probe = "gone" => probeTry <= faults
    /\ pc \in SequencePcs /\ Quiet /\ probe # "wedged" => Fine
    /\ OneFaultIsHealed

\* Timeouts long enough for a board that answers, a console that takes the four
\* lines the runner may type ahead of the board (source, compile, mark, reboot),
\* and a second port cycle for a probe that is lost during the first.
Generous == Timely /\ InputCap >= 4 /\ ProbeAttempts >= 2

----------------------------------------------------------------------------
(* Faults, failures and what is left of the invariant *)

\* What the other invariants say of the counters.
LEMMA Counters ==
    ASSUME DataOK, RecoveryInv
    PROVE  /\ MaxFaults \in Nat /\ faults \in Nat /\ probeTry \in Nat /\ seqNo \in 0 .. 2
           /\ pc \in Pcs
           /\ pc \in SequencePcs \cup {"validate"} => seqNo \in {1, 2}
           /\ pc \in HubPcs \cup {"open"} => seqNo < 2
           /\ pc = "retry" => seqNo = 1
           /\ pc \in {"provenance", "build", "elf", "discover"} => seqNo = 0 /\ probeTry = 0
           /\ pc \notin {"finally", "exited"} => out.exit # 3
<1>1. MaxFaults \in Nat /\ ProbeAttempts \in Nat
  BY BoardAssumption, HilAssumption
<1>2. faults \in 0 .. MaxFaults
  BY DEF DataOK, BoardTypeOK
<1>3. probeTry \in 0 .. ProbeAttempts
  BY DEF RecoveryInv, HubCount
<1>4. pc \notin {"finally", "exited"} => out.exit = -1
  BY DEF RecoveryInv, VerdictLast, NoExit
<1> QED
  BY <1>1, <1>2, <1>3, <1>4 DEF RecoveryInv, Order

\* Which statements belong to a sequence.
LEMMA Statements ==
    /\ SequencePcs \cap (HubPcs \cup {"retry", "open", "finally", "exited", "validate",
                                     "provenance", "build", "elf", "discover"}) = {}
BY DEF SequencePcs, AcquirePcs, ResumePcs, LoginPcs, SafetyPcs, TransferPcs, ReaderPcs, M4Pcs,
       CollectPcs, HubPcs

\* A fault uses up what the retry was there for.
LEMMA FaultHeals ==
    ASSUME DataOK, RecoveryInv, HealInv, Fault,
           UNCHANGED <<seqNo, probeTry>>, pc' = pc \/ pc' = "finally",
           out'.exit = 3 => out.exit = 3
    PROVE  HealInv'
<1>1. faults' = faults + 1 /\ Charged'
  BY Counters DEF Fault, Charged
<1>2. Healing' => Healing
  BY DEF Healing, HubPcs
<1>3. Healing => faults >= 1
  BY Counters DEF HealInv, Charged, Fault
<1>4. ~Quiet'
  BY <1>1, <1>2, <1>3, Counters DEF Quiet
<1>5. OneFaultIsHealed'
  BY <1>1, Counters DEF HealInv, OneFaultIsHealed
<1> QED
  BY <1>1, <1>4, <1>5, Counters DEF HealInv

\* A sequence that goes on does not change what it may blame.
LEMMA GoHeals ==
    ASSUME DataOK, RecoveryInv, HealInv, pc \in SequencePcs, pc' \in SequencePcs,
           UNCHANGED <<seqNo, probeTry, out, probe, faults>>, Fine => Fine'
    PROVE  HealInv'
<1>1. (Healing <=> Healing') /\ (Quiet <=> Quiet') /\ (Charged <=> Charged')
  BY Statements DEF Healing, Quiet, Charged
<1>2. pc \notin {"retry", "hub_off"} /\ pc' \notin {"retry", "hub_off", "hub_on", "poll"}
  BY Statements DEF HubPcs
<1> QED
  BY <1>1, <1>2 DEF HealInv, OneFaultIsHealed

\* Leaving the sequences, the probe and the board as they are.
LEMMA LeaveHeals ==
    ASSUME DataOK, RecoveryInv, HealInv, pc' \in {"finally", "exited", "validate"},
           UNCHANGED <<seqNo, probe, faults>>, out'.exit = 3 => out.exit = 3
    PROVE  HealInv'
<1>1. Healing' => seqNo = 2 /\ Healing /\ pc \notin {"retry", "hub_off"}
  BY Counters DEF Healing, HubPcs
<1>2. (Healing' => (Quiet <=> Quiet')) /\ (Charged <=> Charged')
  BY <1>1 DEF Quiet, Charged
<1>3. pc' \notin SequencePcs \cup {"hub_off", "hub_on", "poll"}
  BY Statements
<1> QED
  BY <1>1, <1>2, <1>3 DEF HealInv, OneFaultIsHealed

\* An exception ends the run, or the first sequence, and blames the board only
\* where something went wrong.
LEMMA RaiseHeals ==
    ASSUME DataOK, RecoveryInv, HealInv, NEW e \in Exceptions, Raise(e),
           pc \in SequencePcs, UNCHANGED <<probe, faults>>,
           e = "RecoveryRequired" => ~Fine
    PROVE  HealInv'
<1>1. seqNo \in {1, 2} /\ seqNo' = seqNo /\ probeTry' = probeTry /\ faults \in Nat
  BY Counters DEF Raise
<1>2. e = "RecoveryRequired" => Charged /\ (seqNo = 2 => faults > 1)
  <2>1. ASSUME e = "RecoveryRequired" PROVE ~Quiet \/ probe = "wedged"
    BY <2>1 DEF HealInv
  <2>2. ~Quiet => Charged /\ (seqNo = 2 => faults > 1)
    BY <1>1 DEF Quiet, Charged, Healing
  <2>3. seqNo = 2 /\ Quiet => probe # "wedged"
    BY Statements DEF HealInv, Healing, HubPcs
  <2> QED
    BY <2>1, <2>2, <2>3 DEF HealInv
<1>3. CASE Retried(e)
  <2>1. e = "RecoveryRequired" /\ seqNo = 1 /\ pc' = "retry" /\ out' = out
    BY <1>3 DEF Retried, Raise
  <2>2. Charged' /\ pc' \notin SequencePcs
    BY <1>2, <2>1, Statements DEF Charged
  <2> QED
    BY <2>1, <2>2 DEF HealInv, OneFaultIsHealed
<1>4. CASE ~Retried(e)
  <2>1. pc' = "finally" /\ out'.exit = ExitCode(e)
    BY <1>4 DEF Raise, RecoveryInv, Shaped
  <2>2. CASE e # "RecoveryRequired"
    <3>1. out'.exit # 3
      BY <2>1, <2>2 DEF ExitCode, Exceptions
    <3> QED
      BY <1>1, <2>1, <3>1, LeaveHeals
  <2>3. CASE e = "RecoveryRequired"
    <3>1. seqNo = 2 /\ faults > 1
      BY <1>1, <1>2, <1>4, <2>3 DEF Retried
    <3>2. Healing' /\ ~Quiet' /\ Charged' /\ pc' \notin SequencePcs
      BY <1>1, <2>1, <3>1, Statements DEF Healing, Quiet, Charged
    <3> QED
      BY <1>1, <2>1, <3>1, <3>2 DEF HealInv, OneFaultIsHealed
  <2> QED
    BY <2>2, <2>3
<1> QED
  BY <1>3, <1>4

----------------------------------------------------------------------------
(* The lines the board has not read, one by one *)

\* The board reads them in order.
LEMMA ReadsNext ==
    ASSUME input \in Seq(Lines), NEW c, Reads(c)
    PROVE  /\ ~Idle
           /\ \A d : One(d) => c = d /\ Idle'
           /\ \A d, e : Two(d, e) => c = d /\ One(e)'
           /\ Len(input') < Len(input)
           /\ NoReboot => NoReboot'
           /\ RebootLast => IF c = "reboot" THEN Idle' ELSE RebootLast'
<1>1. /\ Len(input) \in Nat \ {0} /\ input[1].cmd = c
      /\ input' \in Seq(Lines) /\ Len(input') = Len(input) - 1
      /\ \A i \in 1 .. Len(input') : input'[i] = input[i + 1]
  BY HeadTailProperties, LenProperties, EmptySeq DEF Reads
<1>2. Len(input') = 0 => Idle'
  BY <1>1, EmptySeq DEF Idle
<1>3. ~Idle
  BY DEF Reads, Idle
<1>4. ASSUME NEW d, One(d) PROVE c = d /\ Idle'
  BY <1>1, <1>2, <1>4 DEF One
<1>5. ASSUME NEW d, NEW e, Two(d, e) PROVE c = d /\ One(e)'
  <2>1. Len(input') = 1 /\ input'[1] = input[2] /\ c = d
    BY <1>1, <1>5 DEF Two
  <2> QED
    BY <2>1, <1>5 DEF Two, One
<1>6. NoReboot => NoReboot'
  BY ReadsQueue DEF NoReboot
<1>7. ASSUME RebootLast, c = "reboot" PROVE Idle'
  BY <1>1, <1>2, <1>7 DEF RebootLast
<1>8. ASSUME RebootLast, c # "reboot" PROVE RebootLast'
  <2>1. Len(input) \in Nat /\ Len(input) > 1
    BY <1>1, <1>8 DEF RebootLast
  <2>2. input'[Len(input')] = input[Len(input)]
    BY <1>1, <2>1
  <2>3. ASSUME NEW i \in 1 .. Len(input'), input'[i].cmd = "reboot" PROVE i = Len(input')
    <3>1. input[i + 1].cmd = "reboot" /\ i + 1 \in 1 .. Len(input)
      BY <1>1, <2>1, <2>3
    <3> QED
      BY <1>1, <2>1, <3>1, <1>8 DEF RebootLast
  <2> QED
    BY <1>1, <1>8, <2>1, <2>2, <2>3 DEF RebootLast
<1> QED
  BY <1>1, <1>3, <1>4, <1>5, <1>6, <1>7, <1>8

\* What the runner types comes last; nothing is dropped while there is room.
LEMMA TypesNext ==
    ASSUME input \in Seq(Lines), built \in Slots, NEW c \in Commands,
           input' = Typed(c, built), InputCap >= 4
    PROVE  /\ Len(input) \in Nat /\ Len(input') <= Len(input) + 1
           /\ NoReboot /\ c # "reboot" => NoReboot'
           /\ Listening /\ os \in Alive =>
                 /\ Idle => One(c)'
                 /\ \A d : One(d) => Two(d, c)'
                 /\ NoReboot /\ c = "reboot" /\ Len(input) < 4 => RebootLast'
<1> DEFINE line == [cmd |-> c, img |-> built]
<1>0. line \in Lines /\ line.cmd = c /\ Len(input) \in Nat /\ InputCap \in Nat
  BY LenProperties, BoardAssumption DEF Lines
<1>1. NoReboot /\ c # "reboot" => NoReboot'
  BY TypedQueue DEF NoReboot
<1>2. CASE ~(Listening /\ os \in Alive /\ Len(input) < InputCap)
  <2>1. input' = input /\ (Listening /\ os \in Alive => ~(Len(input) < 4))
    BY <1>0, <1>2 DEF Typed
  <2>2. Len(input') <= Len(input) + 1
    BY <1>0, <2>1
  <2>3. ~(Len(input) < 4) => ~Idle
    BY EmptySeq DEF Idle
  <2>4. ASSUME NEW d, One(d) PROVE Len(input) < 4
    <3>1. Len(input) = 1
      BY <2>4 DEF One
    <3> QED
      BY <3>1
  <2> HIDE DEF line
  <2>5. CASE Len(input) < 4
    BY <1>0, <1>1, <2>1, <2>2, <2>5
  <2>6. CASE ~(Len(input) < 4)
    BY <1>0, <1>1, <2>2, <2>3, <2>4, <2>6
  <2> QED
    BY <2>5, <2>6
<1>3. CASE Listening /\ os \in Alive /\ Len(input) < InputCap
  <2>1. input' = Append(input, line)
    BY <1>3 DEF Typed
  <2>2. /\ Len(input') = Len(input) + 1
        /\ \A i \in 1 .. Len(input) : input'[i] = input[i]
        /\ input'[Len(input) + 1].cmd = c
    BY <1>0, <2>1, AppendProperties
  <2> HIDE DEF line
  <2>3. Idle => One(c)'
    BY <2>2, EmptySeq DEF Idle, One
  <2>4. ASSUME NEW d, One(d) PROVE Two(d, c)'
    BY <2>2, <2>4 DEF One, Two
  <2>5. ASSUME NoReboot, c = "reboot" PROVE RebootLast'
    <3>1. \A i \in 1 .. Len(input) : input[i].cmd # "reboot"
      BY <2>5 DEF NoReboot, Queued
    <3> QED
      BY <1>0, <2>2, <2>5, <3>1 DEF RebootLast
  <2> QED
    BY <1>0, <1>1, <2>2, <2>3, <2>4, <2>5
<1> QED
  BY <1>2, <1>3

----------------------------------------------------------------------------
(* What the board does on its own, system by system *)

\* U-Boot runs one line, or nothing moves that the runner can tell.
UbootTurn ==
    \/ UNCHANGED <<os, input, mem, screen>>
    \/ /\ os' = os
       /\ \E c \in {"image", "dtb", "setenv"} :
             /\ Reads(c)
             /\ mem'.boot = mem.boot \cup {c}
             /\ IF c = "setenv" THEN screen' = screen
                                ELSE screen'.seen = screen.seen \cup {"loaded"}
    \/ /\ Reads("booti") /\ screen' = screen
       /\ {"image", "dtb", "setenv"} \subseteq mem.boot => os' = "sd_boot"
    \/ Reads("m4_load") /\ os' = os /\ screen'.seen = screen.seen \cup {"loaded"}
    \/ Reads("m4_copy") /\ os' = os /\ screen' = screen
    \/ Reads("bootaux") /\ os' = os

\* What With shows to a runner that listens.
LEMMA Shows ==
    ASSUME Listening, screen \in Screens, NEW t, screen' = With(t, screen)
    PROVE  screen'.seen = screen.seen \cup t /\ screen'.entry = screen.entry
BY DEF With, Screens

\* The board at U-Boot's prompt.
LEMMA UbootTurns ==
    ASSUME DataOK, BoardStep, Listening, os = "uboot"
    PROVE  UbootTurn /\ power' = power
<1>0. /\ screen \in Screens
      /\ mem \in [boot : SUBSET {"image", "dtb", "setenv"}, ram : Slots, tcm : Slots]
  BY DEF DataOK, BoardTypeOK, Screens
<1>1. CASE LoadForLinux
  <2>1. PICK c \in {"image", "dtb", "setenv"} :
           /\ Reads(c)
           /\ mem' = [mem EXCEPT !.boot = @ \cup {c}]
           /\ screen' = IF c = "setenv" THEN screen ELSE With({"loaded"}, screen)
    BY <1>1 DEF LoadForLinux
  <2>2. mem'.boot = mem.boot \cup {c}
    BY <1>0, <2>1
  <2>3. IF c = "setenv" THEN screen' = screen
                        ELSE screen'.seen = screen.seen \cup {"loaded"}
    BY <1>0, <2>1, Shows
  <2> QED
    BY <1>1, <2>1, <2>2, <2>3 DEF LoadForLinux, UbootTurn
<1>2. CASE Booti
  <2>1. {"image", "dtb", "setenv"} \subseteq mem.boot => os' = "sd_boot"
    BY <1>2 DEF Booti
  <2> QED
    BY <1>2, <2>1 DEF Booti, consoleVars, UbootTurn
<1>3. CASE LoadM4
  <2>1. screen'.seen = screen.seen \cup {"loaded"}
    BY <1>0, <1>3, Shows DEF LoadM4
  <2> QED
    BY <1>3, <2>1 DEF LoadM4, UbootTurn
<1>4. CASE CopyM4
  BY <1>4 DEF CopyM4, consoleVars, UbootTurn
<1>5. CASE Bootaux
  BY <1>5 DEF Bootaux, UbootTurn
<1>6. CASE M4Complete
  BY <1>6 DEF M4Complete, consoleVars, UbootTurn
<1>7. ~(Welcome \/ SdUp \/ EmmcUp \/ LoginRoot \/ ShellPrint \/ Umount \/ ShellWrite
        \/ RunReader \/ Reboot \/ Enumerate)
  BY DEF Welcome, SdUp, EmmcUp, LoginRoot, ShellPrint, Umount, ShellWrite, RunReader, Reboot,
         Enumerate, Shells, Listening
<1> QED
  BY <1>1, <1>2, <1>3, <1>4, <1>5, <1>6, <1>7 DEF BoardStep

\* The board switched off, or counting down: nothing moves.
LEMMA SilentTurns ==
    ASSUME BoardStep, Listening, os \in {"off", "countdown"}
    PROVE  UNCHANGED <<power, os, input, mem, screen>>
<1>1. CASE M4Complete
  BY <1>1 DEF M4Complete, consoleVars
<1>2. ~(LoadForLinux \/ Booti \/ LoadM4 \/ CopyM4 \/ Bootaux \/ Welcome \/ SdUp \/ EmmcUp
        \/ LoginRoot \/ ShellPrint \/ Umount \/ ShellWrite \/ RunReader \/ Reboot \/ Enumerate)
  BY DEF LoadForLinux, Booti, LoadM4, CopyM4, Bootaux, Welcome, SdUp, EmmcUp, LoginRoot,
         ShellPrint, Umount, ShellWrite, RunReader, Reboot, Enumerate, Shells, Listening
<1> QED
  BY <1>1, <1>2 DEF BoardStep

\* The card's kernel on its way to the login prompt, and at it.
LEMMA CardTurns ==
    ASSUME DataOK, BoardStep, Listening, os \in {"sd_boot", "sd_login"}
    PROVE  \/ UNCHANGED <<os, input, screen>>
           \/ /\ os = "sd_boot" /\ os' = os /\ input' = input
              /\ screen'.seen = screen.seen \cup {"kirkstone"}
           \/ /\ os = "sd_boot" /\ os' = "sd_login" /\ input' = input
              /\ screen'.seen = screen.seen \cup {"kirkstone", "login"}
           \/ os = "sd_login" /\ Reads("root") /\ os' = "sd_shell"
<1>0. screen \in Screens
  BY DEF DataOK, BoardTypeOK, Screens
<1>1. CASE M4Complete
  BY <1>1 DEF M4Complete, consoleVars
<1>2. CASE Welcome
  <2>1. screen'.seen = screen.seen \cup {"kirkstone"}
    BY <1>0, <1>2, Shows DEF Welcome
  <2> QED
    BY <1>2, <2>1 DEF Welcome, boardVars
<1>3. CASE SdUp
  <2>1. screen'.seen = screen.seen \cup {"kirkstone", "login"}
    BY <1>0, <1>3, Shows DEF SdUp
  <2> QED
    BY <1>3, <2>1 DEF SdUp
<1>4. CASE LoginRoot
  BY <1>4 DEF LoginRoot
<1>5. ~(LoadForLinux \/ Booti \/ LoadM4 \/ CopyM4 \/ Bootaux \/ EmmcUp
        \/ ShellPrint \/ Umount \/ ShellWrite \/ RunReader \/ Reboot \/ Enumerate)
  BY DEF LoadForLinux, Booti, LoadM4, CopyM4, Bootaux, EmmcUp,
         ShellPrint, Umount, ShellWrite, RunReader, Reboot, Enumerate, Shells, Listening
<1> QED
  BY <1>1, <1>2, <1>3, <1>4, <1>5 DEF BoardStep

\* The card's shell runs one line; only the reboot leaves it, and none of its
\* lines looks like U-Boot's prompt.
ShellTurn ==
    \/ UNCHANGED <<os, input, screen>>
    \/ \E c \in Commands \ {"reboot"} :
          Reads(c) /\ os' = os /\ ("prompt" \in screen'.seen => Seen("prompt"))
    \/ Reads("reboot") /\ os' = "countdown" /\ screen' = screen

\* ... and of the statements at the card's shell.
LEMMA ShellTurns ==
    ASSUME DataOK, BoardStep, Listening, os = "sd_shell"
    PROVE  ShellTurn
<1>0. screen \in Screens
  BY DEF DataOK, BoardTypeOK, Screens
<1>1. CASE M4Complete
  BY <1>1 DEF M4Complete, consoleVars, ShellTurn
<1>2. CASE ShellPrint
  <2>1. ASSUME NEW t \in SUBSET (Evidence \ {"prompt"}), screen' = With(t, screen)
        PROVE  "prompt" \in screen'.seen => Seen("prompt")
    BY <1>0, <2>1, Shows DEF Seen
  <2>2. /\ (IF os = "sd_shell" THEN {"sdroot"} ELSE {}) \in SUBSET (Evidence \ {"prompt"})
        /\ (IF emmc THEN {"emmc"} ELSE {}) \in SUBSET (Evidence \ {"prompt"})
        /\ {"begin"} \in SUBSET (Evidence \ {"prompt"})
        /\ {"end"} \in SUBSET (Evidence \ {"prompt"})
    BY DEF Evidence
  <2>3. CASE Reads("sha") /\ screen' = IF Listening
                                       THEN [screen EXCEPT !.sha = @ \cup ({sd.fw} \ {NoImage})]
                                       ELSE screen
    <3>1. screen'.seen = screen.seen
      BY <1>0, <2>3 DEF Screens
    <3> QED
      BY <1>2, <2>3, <3>1 DEF ShellPrint, ShellTurn, Commands, Seen
  <2>4. CASE \E c \in {"findmnt", "mounts", "begin", "end"} :
                Reads(c) /\ ("prompt" \in screen'.seen => Seen("prompt"))
    BY <1>2, <2>4 DEF ShellPrint, ShellTurn, Commands
  <2> QED
    BY <1>2, <2>1, <2>2, <2>3, <2>4 DEF ShellPrint
<1>3. CASE Umount
  BY <1>3 DEF Umount, consoleVars, ShellTurn, Commands, Seen
<1>4. CASE ShellWrite
  <2>1. \E c \in {"transfer", "source", "compile", "mark", "marker"} : Reads(c)
    BY <1>4 DEF ShellWrite
  <2>2. \/ screen' = screen
        \/ screen' = With(IF sd.source THEN {"compiled"} ELSE {}, screen)
        \/ screen' = With(IF sd.marker THEN {"reader_sha"} ELSE {}, screen)
    BY <1>4 DEF ShellWrite
  <2>3. "prompt" \in screen'.seen => Seen("prompt")
    BY <1>0, <2>2, Shows DEF Seen
  <2> QED
    BY <1>4, <2>1, <2>3 DEF ShellWrite, ShellTurn, Commands
<1>5. CASE RunReader
  <2>1. screen'.seen \in {screen.seen, screen.seen \cup {"json"}}
    BY <1>0, <1>5 DEF RunReader, Screens
  <2> QED
    BY <1>5, <2>1 DEF RunReader, ShellTurn, Commands, Seen
<1>6. CASE Reboot
  BY <1>6 DEF Reboot, consoleVars, ShellTurn
<1>7. ~(LoadForLinux \/ Booti \/ LoadM4 \/ CopyM4 \/ Bootaux \/ Welcome \/ SdUp \/ EmmcUp
        \/ LoginRoot \/ Enumerate)
  BY DEF LoadForLinux, Booti, LoadM4, CopyM4, Bootaux, Welcome, SdUp, EmmcUp, LoginRoot,
         Enumerate, Listening
<1> QED
  BY <1>1, <1>2, <1>3, <1>4, <1>5, <1>6, <1>7 DEF BoardStep

----------------------------------------------------------------------------
(* The board's own steps keep a healthy sequence healthy *)

\* The same board, lines and screen.
LEMMA HealthySame ==
    ASSUME UNCHANGED <<pc, power, os, input, mem, screen>>, Healthy
    PROVE  Healthy'
BY DEF Healthy, Idle, One, Two, AtPrompt, Resetting, Prompted, Loading, SetsArgs, BootsCard, LogsIn,
       RebootLast, WillReboot, StartsM4, NoReboot, Queued, Shell, Seen

\* A healthy board in U-Boot is not at a statement for another system.
LEMMA WhereUboot ==
    ASSUME Healthy, os = "uboot"
    PROVE  pc \notin ShellPcs \cup LoginPcs \cup {"power_on"}
BY DEF Healthy, Shell, LogsIn, LoginPcs

\* U-Boot reads the next line.
LEMMA UbootHealthy ==
    ASSUME DataOK, BoardStep, Listening, os = "uboot", pc' = pc, Healthy
    PROVE  Healthy'
<1>0. input \in Seq(Lines) /\ UbootTurn /\ power' = power
  BY UbootTurns DEF DataOK, BoardTypeOK, Lines
<1>1. CASE UNCHANGED <<os, input, mem, screen>>
  BY <1>0, <1>1, HealthySame
<1>2. ASSUME NEW c, Reads(c)
      PROVE  /\ ~Idle /\ ~AtPrompt /\ ~Prompted
             /\ \A d : One(d) => c = d /\ Idle'
             /\ \A d, e : Two(d, e) => c = d /\ One(e)'
  BY <1>0, <1>2, ReadsNext DEF AtPrompt, Prompted
<1>3. /\ pc \notin ShellPcs \cup LoginPcs \cup {"power_on"}
      /\ ~Resetting /\ ~LogsIn /\ ~WillReboot
  BY WhereUboot DEF Resetting, LogsIn, WillReboot
<1>4. ASSUME os' = os, NEW c \in {"image", "dtb", "setenv"}, Reads(c),
             mem'.boot = mem.boot \cup {c},
             IF c = "setenv" THEN screen' = screen
                             ELSE screen'.seen = screen.seen \cup {"loaded"}
      PROVE  Healthy'
  <2>1. pc \in {"image_wait", "dtb_wait"} => Healthy'
    BY <1>2, <1>4 DEF Healthy, Loading, Seen, ShellPcs, SafetyPcs, TransferPcs, ReaderPcs
  <2>2. pc \in {"booti", "login_wait"} => Healthy'
    BY <1>2, <1>4 DEF Healthy, SetsArgs, BootsCard, Seen, ShellPcs, SafetyPcs, TransferPcs, ReaderPcs
  <2>3. pc \notin {"catch", "image", "m4_load", "m4_copy", "dtb", "setenv", "reboot_catch", "m4_check",
                   "bootaux", "bootaux_check", "login", "shell_wait", "power_on"}
    BY <1>2, <1>3, <1>4 DEF Healthy, StartsM4, LoginPcs
  <2> QED
    BY <1>3, <2>1, <2>2, <2>3 DEF Healthy
<1>5. ASSUME Reads("booti"), screen' = screen,
             {"image", "dtb", "setenv"} \subseteq mem.boot => os' = "sd_boot"
      PROVE  Healthy'
  <2>1. pc = "login_wait" => Healthy'
    BY <1>2, <1>5 DEF Healthy, BootsCard, Seen, ShellPcs, SafetyPcs, TransferPcs, ReaderPcs
  <2>2. pc \notin {"catch", "image", "m4_load", "m4_copy", "dtb", "setenv", "reboot_catch", "m4_check",
                   "bootaux", "bootaux_check", "login", "shell_wait", "power_on",
                   "image_wait", "dtb_wait", "booti"}
    BY <1>2, <1>3, <1>5 DEF Healthy, StartsM4, Loading, SetsArgs, LoginPcs
  <2> QED
    BY <1>3, <2>1, <2>2 DEF Healthy
<1>6. ASSUME NEW c \in {"m4_load", "m4_copy", "bootaux"}, Reads(c), os' = os,
             c = "m4_copy" => screen' = screen
      PROVE  Healthy'
  <2>1. pc \in {"m4_check", "bootaux", "bootaux_check"} => Healthy'
    BY <1>2, <1>6 DEF Healthy, StartsM4, ShellPcs, SafetyPcs, TransferPcs, ReaderPcs
  <2>2. pc \notin {"catch", "image", "m4_load", "m4_copy", "dtb", "setenv", "reboot_catch",
                   "login_wait", "login", "shell_wait", "power_on",
                   "image_wait", "dtb_wait", "booti"}
    BY <1>2, <1>3, <1>6 DEF Healthy, BootsCard, Loading, SetsArgs, LoginPcs
  <2> QED
    BY <1>3, <2>1, <2>2 DEF Healthy
<1> QED
  BY <1>0, <1>1, <1>4, <1>5, <1>6 DEF UbootTurn

\* The card's system starts and logs in.
LEMMA CardHealthy ==
    ASSUME DataOK, BoardStep, Listening, os \in {"sd_boot", "sd_login"}, pc' = pc, Healthy
    PROVE  Healthy'
<1>0. input \in Seq(Lines)
  BY DEF DataOK, BoardTypeOK, Lines
<1>1. ASSUME NEW c, Reads(c)
      PROVE  ~Idle /\ \A d : One(d) => c = d /\ Idle'
  BY <1>0, <1>1, ReadsNext
<1>2. pc \notin {"power_on", "catch", "image", "m4_load", "m4_copy", "image_wait", "dtb", "dtb_wait",
                 "setenv", "booti", "reboot_catch", "m4_check", "bootaux", "bootaux_check"}
      /\ pc \notin ShellPcs
  BY DEF Healthy, Resetting, Prompted, AtPrompt, Loading, SetsArgs, WillReboot, StartsM4, Shell
<1>3. \/ UNCHANGED <<os, input, screen>>
      \/ /\ os = "sd_boot" /\ os' = os /\ input' = input
         /\ screen'.seen = screen.seen \cup {"kirkstone"}
      \/ /\ os = "sd_boot" /\ os' = "sd_login" /\ input' = input
         /\ screen'.seen = screen.seen \cup {"kirkstone", "login"}
      \/ os = "sd_login" /\ Reads("root") /\ os' = "sd_shell"
  BY CardTurns
<1>4. pc = "login_wait" => BootsCard'
  <2>1. input' = input => (Idle => Idle')
    BY DEF Idle
  <2> QED
    BY <1>1, <1>3, <2>1 DEF Healthy, BootsCard, Seen
<1>5. pc = "login" => os' = "sd_login" /\ Idle'
  BY <1>1, <1>3 DEF Healthy, Idle
<1>6. pc = "shell_wait" => LogsIn'
  <2>1. input' = input => (One("root") => One("root")')
    BY DEF One
  <2> QED
    BY <1>1, <1>3, <2>1 DEF Healthy, LogsIn, Seen
<1> QED
  BY <1>2, <1>4, <1>5, <1>6 DEF Healthy

\* The card's shell reads the next line.
LEMMA ShellHealthy ==
    ASSUME DataOK, BoardStep, Listening, os = "sd_shell", pc' = pc, Healthy
    PROVE  Healthy'
<1>0. input \in Seq(Lines) /\ ShellTurn
  BY ShellTurns DEF DataOK, BoardTypeOK, Lines
<1>1. pc \notin {"power_on", "catch", "image", "m4_load", "m4_copy", "image_wait", "dtb", "dtb_wait",
                 "setenv", "booti", "login_wait", "login", "m4_check", "bootaux", "bootaux_check"}
  BY DEF Healthy, Resetting, Prompted, AtPrompt, Loading, SetsArgs, BootsCard, StartsM4
<1>2. Len(input) \in Nat
  BY <1>0, LenProperties
<1>3. CASE UNCHANGED <<os, input, screen>>
  <2>1. pc \in ShellPcs => Shell(pc)'
    BY <1>3 DEF Healthy, Shell, NoReboot, Queued
  <2>2. pc = "shell_wait" => LogsIn'
    BY <1>3 DEF Healthy, LogsIn, One, Idle, Seen
  <2>3. pc = "reboot_catch" => WillReboot'
    BY <1>3 DEF Healthy, WillReboot, RebootLast, Resetting, Prompted, AtPrompt, Seen
  <2> QED
    BY <1>1, <2>1, <2>2, <2>3 DEF Healthy
<1>4. ASSUME NEW c \in Commands \ {"reboot"}, Reads(c), os' = os,
             "prompt" \in screen'.seen => Seen("prompt")
      PROVE  Healthy'
  <2>1. /\ ~Idle /\ Len(input') < Len(input) /\ (NoReboot => NoReboot')
        /\ RebootLast => RebootLast'
    BY <1>0, <1>4, ReadsNext
  <2>2. input' \in Seq(Lines) /\ Len(input') \in Nat
    BY <1>0, <1>4, HeadTailProperties, LenProperties DEF Reads
  <2>3. pc \in ShellPcs => Shell(pc)'
    <3>1. \A l : Backlog(l) \in 0 .. 4
      BY DEF Backlog
    <3> QED
      BY <1>2, <1>4, <2>1, <2>2, <3>1 DEF Healthy, Shell
  <2>4. pc # "shell_wait"
    BY <2>1 DEF Healthy, LogsIn
  <2>5. pc = "reboot_catch" => WillReboot'
    BY <1>4, <2>1 DEF Healthy, WillReboot, Resetting, Prompted, AtPrompt, Seen
  <2> QED
    BY <1>1, <2>3, <2>4, <2>5 DEF Healthy
<1>5. ASSUME Reads("reboot"), os' = "countdown", screen' = screen
      PROVE  Healthy'
  <2>1. ~Idle /\ (RebootLast => Idle') /\ ~NoReboot
    BY <1>0, <1>5, ReadsNext, ReadsQueue DEF NoReboot
  <2>2. pc \notin ShellPcs \cup {"shell_wait"}
    BY <2>1 DEF Healthy, Shell, LogsIn
  <2>3. pc = "reboot_catch" => Resetting'
    BY <1>5, <2>1 DEF Healthy, WillReboot, Resetting, Prompted, AtPrompt, Seen
  <2> QED
    BY <1>1, <2>2, <2>3 DEF Healthy
<1> QED
  BY <1>0, <1>3, <1>4, <1>5 DEF ShellTurn

\* The probe and the descriptor are the faults' and the hub's.
LEMMA BoardKeepsProbe ==
    ASSUME BoardStep
    PROVE  /\ UNCHANGED <<link, faults>>
           /\ probe' = probe \/ (probe = "starting" /\ probe' = "ok")
BY DEF BoardStep, LoadForLinux, Booti, LoadM4, CopyM4, Bootaux, M4Complete, Welcome, SdUp, EmmcUp,
       LoginRoot, ShellPrint, Umount, ShellWrite, RunReader, Reboot, Enumerate, consoleVars

\* A board that is healthy stays so on its own.
LEMMA BoardHealthy ==
    ASSUME DataOK, BoardStep, pc' = pc, Fine
    PROVE  Fine'
<1>1. Listening /\ Healthy /\ UNCHANGED <<probe, link>>
  BY BoardKeepsProbe DEF Fine, Listening
<1>2. CASE os \in {"off", "countdown"}
  BY <1>1, <1>2, SilentTurns, HealthySame DEF Fine
<1>3. CASE os = "uboot"
  BY <1>1, <1>3, UbootHealthy DEF Fine
<1>4. CASE os \in {"sd_boot", "sd_login"}
  BY <1>1, <1>4, CardHealthy DEF Fine
<1>5. CASE os = "sd_shell"
  BY <1>1, <1>5, ShellHealthy DEF Fine
<1>6. CASE os \notin {"off", "countdown", "uboot", "sd_boot", "sd_login", "sd_shell"}
  <2>1. pc \notin {"power_on", "catch", "image", "m4_load", "m4_copy", "image_wait", "dtb",
                   "dtb_wait", "setenv", "booti", "login_wait", "login", "shell_wait",
                   "reboot_catch", "m4_check", "bootaux", "bootaux_check"}
        /\ pc \notin ShellPcs
    BY <1>1, <1>6 DEF Healthy, Resetting, Prompted, AtPrompt, Loading, SetsArgs, BootsCard, LogsIn,
       Shell, WillReboot, StartsM4
  <2>2. Healthy'
    BY <2>1 DEF Healthy
  <2> QED
    BY <1>1, <2>2 DEF Fine
<1> QED
  BY <1>2, <1>3, <1>4, <1>5, <1>6

\* A step of the environment that is no fault: what it may change is the board,
\* the screen, and a probe that enumerates.
LEMMA CalmHeals ==
    ASSUME DataOK, RecoveryInv, HealInv, UNCHANGED <<runVars, faults>>,
           probe' = probe \/ (probe = "starting" /\ probe' = "ok"),
           Fine => Fine'
    PROVE  HealInv'
<1>1. UNCHANGED <<pc, seqNo, probeTry, out>>
  BY DEF runVars
<1>2. (Healing <=> Healing') /\ (Quiet <=> Quiet') /\ (Charged <=> Charged')
  BY <1>1 DEF Healing, Quiet, Charged
<1>3. pc \in SequencePcs /\ Quiet /\ probe # "wedged" => probe' = probe
  BY DEF HealInv, Fine
<1> QED
  BY <1>1, <1>2, <1>3 DEF HealInv, OneFaultIsHealed

\* The board, its keys and its countdown.
LEMMA EnvironmentHeals ==
    ASSUME DataOK, RecoveryInv, HealInv, Timely,
           (BoardStep /\ UNCHANGED runVars) \/ CatchKey \/ AutobootWins
    PROVE  HealInv'
<1>1. CASE BoardStep /\ UNCHANGED runVars
  <2>1. pc' = pc /\ faults' = faults
    BY <1>1, BoardKeepsProbe DEF runVars
  <2>2. Fine => Fine'
    BY <1>1, <2>1, BoardHealthy
  <2> QED
    BY <1>1, <2>1, <2>2, BoardKeepsProbe, CalmHeals
<1>2. CASE CatchKey
  <2>1. /\ UNCHANGED <<runVars, faults, probe, link, input, power, mem>> /\ pc \in CatchPcs
        /\ os \in {"countdown", "uboot"} /\ os' = "uboot" /\ Listening
        /\ screen' = With({"prompt"}, screen)
    BY <1>2 DEF CatchKey, AnswerKey
  <2>2. "prompt" \in screen'.seen
    BY <2>1, Shows DEF DataOK, BoardTypeOK, Screens
  <2>3. ASSUME Fine PROVE Fine'
    <3>1. Idle
      BY <2>1, <2>3 DEF Fine, Healthy, CatchPcs, Resetting, Prompted, AtPrompt, WillReboot
    <3>2. Prompted'
      BY <2>1, <2>2, <3>1 DEF Prompted, AtPrompt, Idle, Seen
    <3>3. pc' \in {"catch", "reboot_catch"}
      BY <2>1 DEF CatchPcs, runVars
    <3>4. Healthy'
      BY <3>2, <3>3 DEF Healthy, ShellPcs, SafetyPcs, TransferPcs, ReaderPcs
    <3> QED
      BY <2>1, <2>3, <3>4 DEF Fine
  <2> QED
    BY <2>1, <2>3, CalmHeals
<1>3. CASE AutobootWins
  <2>1. /\ UNCHANGED <<runVars, faults, probe, link, input, power, mem>> /\ os = "countdown"
        /\ ~(Listening /\ pc \in CatchPcs)
    BY <1>3 DEF AutobootWins, Autoboot, consoleVars
  <2>2. ASSUME Fine PROVE Fine'
    <3>1. pc \notin {"power_on", "catch", "image", "m4_load", "m4_copy", "image_wait", "dtb",
                     "dtb_wait", "setenv", "booti", "login_wait", "login", "shell_wait",
                     "reboot_catch", "m4_check", "bootaux", "bootaux_check"}
          /\ pc \notin ShellPcs
      BY <2>1, <2>2 DEF Fine, Healthy, AtPrompt, Loading, SetsArgs, BootsCard, LogsIn,
         Shell, StartsM4, Listening, CatchPcs
    <3>2. Healthy'
      BY <2>1, <3>1 DEF Healthy, runVars
    <3> QED
      BY <2>1, <2>2, <3>2 DEF Fine
  <2> QED
    BY <2>1, <2>2, CalmHeals
<1> QED
  BY <1>1, <1>2, <1>3

\* Whatever goes wrong on the bench.
LEMMA FaultStepHeals ==
    ASSUME DataOK, RecoveryInv, HealInv, FaultStep, UNCHANGED runVars
    PROVE  HealInv'
<1>1. Fault
  BY DEF FaultStep, Hang, AbortReset, LineLost, ProbeDrop, ProbeWedge
<1> QED
  BY <1>1, FaultHeals DEF runVars

----------------------------------------------------------------------------
(* The three ways the runner uses the console *)

\* A line sent to a console that answers.
Sent(c, base, next) ==
    /\ pc' = next
    /\ input' = Typed(c, built)
    /\ screen' = Echo(c, base)
    /\ UNCHANGED <<power, os, mem, probe, link>>

\* What the board then has to read, and what is on the screen.
LEMMA SentLine ==
    ASSUME DataOK, Generous, Fine, NEW c \in Commands, NEW base \in Screens, NEW next,
           Sent(c, base, next)
    PROVE  /\ os \in Alive => (Idle => One(c)') /\ \A d : One(d) => Two(d, c)'
           /\ Len(input) \in Nat /\ Len(input') \in Nat /\ Len(input') <= Len(input) + 1
           /\ NoReboot /\ c # "reboot" => NoReboot'
           /\ os \in Alive /\ NoReboot /\ c = "reboot" /\ Len(input) < 4 => RebootLast'
           /\ os \notin Shells => screen' = base
           /\ \A t : t \notin base.seen /\ c = "reboot" => t \notin screen'.seen
<1>1. input \in Seq(Lines) /\ built \in Slots /\ input' = Typed(c, built) /\ InputCap >= 4
  BY DEF DataOK, BoardTypeOK, Lines, Sent, Generous
<1>2. Listening
  BY DEF Fine, Listening
<1>3. Len(input') \in Nat
  BY <1>1, TypedIsLines, LenProperties
<1>4. os \notin Shells => screen' = base
  BY DEF Sent, Echo
<1>5. \A t : t \notin base.seen /\ c = "reboot" => t \notin screen'.seen
  <2>1. c = "reboot" => EchoOf(c) = {}
    BY DEF EchoOf
  <2> QED
    BY <2>1, WithShows DEF Sent, Echo
<1> QED
  BY <1>1, <1>2, <1>3, <1>4, <1>5, TypesNext

\* Forgotten lines and a cleared screen leave nothing to be found on it.
LEMMA NothingSeen == \A t : screen' = BlankScreen => t \notin screen'.seen
BY DEF BlankScreen

\* send_line inside a sequence.
LEMMA SendHeals ==
    ASSUME DataOK, RecoveryInv, HealInv, NEW at \in SequencePcs, NEW next \in SequencePcs,
           NEW c, NEW base, Send(at, c, base, next),
           Fine /\ pc = at /\ Sent(c, base, next) => Healthy'
    PROVE  HealInv'
<1>1. pc = at /\ UNCHANGED <<power, os, mem, probe, link, faults>>
  BY DEF Send
<1>2. CASE link = "dead"
  <2>1. Raise("Other") /\ "Other" \in Exceptions
    BY <1>2 DEF Send, Exceptions
  <2> QED
    BY <1>1, <2>1, RaiseHeals
<1>3. CASE link # "dead"
  <2>1. Goto(next) /\ Sent(c, base, next)
    BY <1>3 DEF Send, Sent, Goto
  <2>2. Fine => Fine'
    BY <1>1, <2>1 DEF Fine
  <2> QED
    BY <1>1, <2>1, <2>2, GoHeals DEF Goto
<1> QED
  BY <1>2, <1>3

\* Looking changes nothing on the bench.
SameBoard == UNCHANGED <<power, os, input, mem, screen>>

\* A look that finds what it looks for.
LEMMA FoundHeals ==
    ASSUME DataOK, RecoveryInv, HealInv, NEW at \in SequencePcs, NEW next \in SequencePcs,
           NEW ok, Found(at, ok, next),
           Fine /\ pc = at /\ pc' = next /\ SameBoard => Healthy'
    PROVE  HealInv'
<1>1. pc = at /\ ok /\ Goto(next)
      /\ SameBoard /\ UNCHANGED <<probe, link, faults>>
  BY DEF Found, envVars, boardVars, consoleVars, SameBoard
<1>2. Fine => Fine'
  BY <1>1 DEF Fine, Goto
<1> QED
  BY <1>1, <1>2, GoHeals DEF Goto

\* A wait that gives up, which blames the board only where it cannot be healthy.
LEMMA MissingHeals ==
    ASSUME DataOK, RecoveryInv, HealInv, NEW at \in SequencePcs, NEW e \in Exceptions, NEW ok,
           Missing(at, ok, e),
           e = "RecoveryRequired" => ~(Fine /\ pc = at /\ ~ok)
    PROVE  HealInv'
BY RaiseHeals DEF Missing, envVars, consoleVars

\* A healthy board with nothing more to print has read everything.
LEMMA SettledBoard ==
    ASSUME Fine, Generous, TimeUp
    PROVE  os \notin Alive \/ (Idle /\ os \notin Booting)
BY DEF Fine, Generous, TimeUp, Settled, Listening, Idle

----------------------------------------------------------------------------
(* uboot_resume_linux and login *)

LEMMA ResumeHeals ==
    ASSUME DataOK, RecoveryInv, HealInv, Generous, Resume
    PROVE  HealInv'
<1>0. BlankScreen \in Screens /\ screen \in Screens
  BY BlankIsScreen DEF DataOK, BoardTypeOK, Screens
<1>1. {"image", "image_wait", "dtb", "dtb_wait", "setenv", "booti", "login_wait", "login",
       "shell_wait", "findmnt"} \subseteq SequencePcs
  BY DEF SequencePcs, ResumePcs, LoginPcs, SafetyPcs
<1>2. {"RecoveryRequired", "InfrastructureError"} \subseteq Exceptions
      /\ {"image", "dtb", "setenv", "booti", "root"} \subseteq Commands
  BY DEF Exceptions, Commands
<1>3. {"uboot", "sd_login", "sd_boot", "sd_shell"} \subseteq Alive
      /\ "uboot" \notin Shells /\ "sd_login" \notin Shells
      /\ "uboot" \notin Booting /\ "sd_login" \notin Booting /\ "sd_boot" \in Booting
  BY DEF Alive, Shells, Booting
<1> USE DEF ShellPcs, SafetyPcs, TransferPcs, ReaderPcs
<1>4. CASE LoadImage
  <2>1. ASSUME Send("image", "image", BlankScreen, "image_wait") PROVE HealInv'
    <3>1. ASSUME Fine, pc = "image", Sent("image", BlankScreen, "image_wait") PROVE Healthy'
      <4>1. os = "uboot" /\ os' = os /\ Idle /\ pc' = "image_wait"
        BY <3>1 DEF Fine, Healthy, AtPrompt, Sent
      <4>2. One("image")' /\ "loaded" \notin screen'.seen
        BY <1>0, <1>2, <1>3, <3>1, <4>1, SentLine, NothingSeen
      <4> QED
        BY <4>1, <4>2 DEF Healthy, Loading, Seen
    <3> QED
      BY <1>1, <2>1, <3>1, SendHeals
  <2>2. ASSUME Found("image_wait", Seen("loaded"), "dtb") PROVE HealInv'
    <3>1. ASSUME Fine, pc = "image_wait", pc' = "dtb", SameBoard PROVE Healthy'
      BY <2>2, <3>1 DEF Found, SameBoard, Fine, Healthy, Loading, AtPrompt, Idle
    <3> QED
      BY <1>1, <2>2, <3>1, FoundHeals
  <2>3. ASSUME Missing("image_wait", Seen("loaded"), "RecoveryRequired") PROVE HealInv'
    <3>1. ASSUME Fine, pc = "image_wait", ~Seen("loaded") PROVE FALSE
      BY <1>3, <2>3, <3>1, SettledBoard DEF Missing, Fine, Healthy, Loading, Idle, One
    <3> QED
      BY <1>1, <1>2, <2>3, <3>1, MissingHeals
  <2> QED
    BY <1>4, <2>1, <2>2, <2>3 DEF LoadImage
<1>5. CASE LoadDtb
  <2>1. ASSUME Send("dtb", "dtb", BlankScreen, "dtb_wait") PROVE HealInv'
    <3>1. ASSUME Fine, pc = "dtb", Sent("dtb", BlankScreen, "dtb_wait") PROVE Healthy'
      <4>1. os = "uboot" /\ os' = os /\ Idle /\ pc' = "dtb_wait" /\ "image" \in mem'.boot
        BY <3>1 DEF Fine, Healthy, AtPrompt, Sent
      <4>2. One("dtb")' /\ "loaded" \notin screen'.seen
        BY <1>0, <1>2, <1>3, <3>1, <4>1, SentLine, NothingSeen
      <4> QED
        BY <4>1, <4>2 DEF Healthy, Loading, Seen
    <3> QED
      BY <1>1, <2>1, <3>1, SendHeals
  <2>2. ASSUME Found("dtb_wait", Seen("loaded"), "setenv") PROVE HealInv'
    <3>1. ASSUME Fine, pc = "dtb_wait", pc' = "setenv", SameBoard PROVE Healthy'
      BY <2>2, <3>1 DEF Found, SameBoard, Fine, Healthy, Loading, AtPrompt, Idle
    <3> QED
      BY <1>1, <2>2, <3>1, FoundHeals
  <2>3. ASSUME Missing("dtb_wait", Seen("loaded"), "RecoveryRequired") PROVE HealInv'
    <3>1. ASSUME Fine, pc = "dtb_wait", ~Seen("loaded") PROVE FALSE
      BY <1>3, <2>3, <3>1, SettledBoard DEF Missing, Fine, Healthy, Loading, Idle, One
    <3> QED
      BY <1>1, <1>2, <2>3, <3>1, MissingHeals
  <2> QED
    BY <1>5, <2>1, <2>2, <2>3 DEF LoadDtb
<1>6. CASE BootLinux
  <2>1. ASSUME Send("setenv", "setenv", screen, "booti") PROVE HealInv'
    <3>1. ASSUME Fine, pc = "setenv", Sent("setenv", screen, "booti") PROVE Healthy'
      <4>1. /\ os = "uboot" /\ os' = os /\ Idle /\ pc' = "booti"
            /\ {"image", "dtb"} \subseteq mem'.boot
        BY <3>1 DEF Fine, Healthy, AtPrompt, Sent
      <4>2. One("setenv")'
        BY <1>0, <1>2, <1>3, <3>1, <4>1, SentLine
      <4> QED
        BY <4>1, <4>2 DEF Healthy, SetsArgs
    <3> QED
      BY <1>1, <2>1, <3>1, SendHeals
  <2>2. ASSUME Send("booti", "booti", BlankScreen, "login_wait") PROVE HealInv'
    <3>1. ASSUME Fine, pc = "booti", Sent("booti", BlankScreen, "login_wait") PROVE Healthy'
      <4>1. /\ os = "uboot" /\ os' = os /\ pc' = "login_wait" /\ mem' = mem
            /\ {"image", "dtb"} \subseteq mem.boot
            /\ One("setenv") \/ (Idle /\ "setenv" \in mem.boot)
        BY <3>1 DEF Fine, Healthy, SetsArgs, Sent
      <4>2. /\ Idle => One("booti")'
            /\ One("setenv") => Two("setenv", "booti")'
            /\ "login" \notin screen'.seen
        BY <1>0, <1>2, <1>3, <3>1, <4>1, SentLine, NothingSeen
      <4> QED
        BY <4>1, <4>2 DEF Healthy, BootsCard, Seen
    <3> QED
      BY <1>1, <2>2, <3>1, SendHeals
  <2> QED
    BY <1>6, <2>1, <2>2 DEF BootLinux
<1>7. CASE WaitForLinux
  <2>1. ASSUME CheckBanner, Seen("kirkstone") PROVE HealInv'
    <3>1. Found("login_wait", Seen("login"), "login")
      BY <2>1 DEF CheckBanner, Found
    <3>2. ASSUME Fine, pc = "login_wait", pc' = "login", SameBoard PROVE Healthy'
      BY <3>1, <3>2 DEF Found, SameBoard, Fine, Healthy, BootsCard, Idle
    <3> QED
      BY <1>1, <3>1, <3>2, FoundHeals
  <2>2. ASSUME CheckBanner, ~Seen("kirkstone") PROVE HealInv'
    <3>1. Raise("InfrastructureError") /\ UNCHANGED <<probe, faults>> /\ pc = "login_wait"
      BY <2>2 DEF CheckBanner, envVars, consoleVars
    <3> QED
      BY <1>1, <1>2, <3>1, RaiseHeals
  <2>3. ASSUME Missing("login_wait", Seen("login"), "RecoveryRequired") PROVE HealInv'
    <3>1. ASSUME Fine, pc = "login_wait", ~Seen("login") PROVE FALSE
      BY <1>3, <2>3, <3>1, SettledBoard DEF Missing, Fine, Healthy, BootsCard, Idle, One, Two
    <3> QED
      BY <1>1, <1>2, <2>3, <3>1, MissingHeals
  <2> QED
    BY <1>7, <2>1, <2>2, <2>3 DEF WaitForLinux
<1>8. CASE Login
  <2>1. ASSUME Send("login", "root", BlankScreen, "shell_wait") PROVE HealInv'
    <3>1. ASSUME Fine, pc = "login", Sent("root", BlankScreen, "shell_wait") PROVE Healthy'
      <4>1. os = "sd_login" /\ os' = os /\ Idle /\ pc' = "shell_wait"
        BY <3>1 DEF Fine, Healthy, Sent
      <4>2. One("root")' /\ "shell" \notin screen'.seen
        BY <1>0, <1>2, <1>3, <3>1, <4>1, SentLine, NothingSeen
      <4> QED
        BY <4>1, <4>2 DEF Healthy, LogsIn, Seen
    <3> QED
      BY <1>1, <2>1, <3>1, SendHeals
  <2>2. ASSUME Found("shell_wait", Seen("shell"), "findmnt") PROVE HealInv'
    <3>1. ASSUME Fine, pc = "shell_wait", pc' = "findmnt", SameBoard PROVE Healthy'
      <4>1. os' = "sd_shell" /\ input' = <<>>
        BY <2>2, <3>1 DEF Found, SameBoard, Fine, Healthy, LogsIn, Idle
      <4>2. Shell("findmnt")'
        BY <4>1, EmptySeq DEF Shell, NoReboot, Queued, Backlog
      <4> QED
        BY <3>1, <4>2 DEF Healthy
    <3> QED
      BY <1>1, <2>2, <3>1, FoundHeals
  <2>3. ASSUME Missing("shell_wait", Seen("shell"), "InfrastructureError") PROVE HealInv'
    BY <1>1, <1>2, <2>3, MissingHeals
  <2> QED
    BY <1>8, <2>1, <2>2, <2>3 DEF Login
<1> QED
  BY <1>4, <1>5, <1>6, <1>7, <1>8 DEF Resume

----------------------------------------------------------------------------
(* The card's shell *)

\* At a shell statement nothing but the shell's state matters.
LEMMA ShellIsEnough ==
    ASSUME pc' \in ShellPcs, Shell(pc)'
    PROVE  Healthy'
BY DEF Healthy, ShellPcs, SafetyPcs, TransferPcs, ReaderPcs

\* A line typed at the shell waits behind the others.
LEMMA ShellSends ==
    ASSUME DataOK, RecoveryInv, HealInv, Generous, NEW at \in ShellPcs, NEW next \in ShellPcs,
           NEW c \in Commands \ {"reboot"}, NEW base \in Screens, Send(at, c, base, next),
           Backlog(at) + 1 <= Backlog(next)
    PROVE  HealInv'
<1>1. ASSUME Fine, pc = at, Sent(c, base, next) PROVE Healthy'
  <2>1. os = "sd_shell" /\ Len(input) <= Backlog(at) /\ NoReboot /\ os' = os /\ pc' = next
    BY <1>1 DEF Fine, Healthy, Shell, Sent
  <2>2. /\ NoReboot' /\ Len(input) \in Nat /\ Len(input') \in Nat
        /\ Len(input') <= Len(input) + 1
    BY <1>1, <2>1, SentLine
  <2>3. Backlog(at) \in 0 .. 4 /\ Backlog(next) \in 0 .. 4
    BY DEF Backlog
  <2>4. Len(input') <= Backlog(next)
    BY <2>1, <2>2, <2>3
  <2> QED
    BY <2>1, <2>2, <2>4, ShellIsEnough DEF Shell
<1>2. at \in SequencePcs /\ next \in SequencePcs
  BY DEF ShellPcs, SequencePcs, M4Pcs
<1> QED
  BY <1>1, <1>2, SendHeals

\* A look at the shell's output; what is behind a settle time has been read.
LEMMA ShellLooks ==
    ASSUME DataOK, RecoveryInv, HealInv, Generous, NEW at \in ShellPcs, NEW next \in ShellPcs,
           NEW ok, Found(at, ok, next), Backlog(at) <= Backlog(next) \/ TimeUp
    PROVE  HealInv'
<1>1. ASSUME Fine, pc = at, pc' = next, SameBoard PROVE Healthy'
  <2>1. os' = "sd_shell" /\ os = os' /\ Len(input) <= Backlog(at) /\ NoReboot /\ input' = input
    BY <1>1 DEF Fine, Healthy, Shell, SameBoard
  <2>2. NoReboot'
    BY <2>1 DEF NoReboot, Queued
  <2>3. Backlog(at) \in 0 .. 4 /\ Backlog(next) \in 0 .. 4
    BY DEF Backlog
  <2>4. Len(input) \in Nat
    BY LenProperties DEF DataOK, BoardTypeOK
  <2>5. TimeUp => Len(input) = 0
    BY <1>1, <2>1, SettledBoard, EmptySeq DEF Idle, Alive, Shells
  <2>6. Len(input') <= Backlog(next)
    BY <2>1, <2>3, <2>4, <2>5
  <2> QED
    BY <1>1, <2>1, <2>2, <2>6, ShellIsEnough DEF Shell
<1>2. at \in SequencePcs /\ next \in SequencePcs
  BY DEF ShellPcs, SequencePcs, M4Pcs
<1> QED
  BY <1>1, <1>2, FoundHeals

\* The bounds the two lemmas compare.
LEMMA Backlogs ==
    /\ \A l \in {"findmnt", "sha", "transfer", "source"} : Backlog(l) = 0
    /\ \A l \in {"findmnt_check", "mounts", "sha_check", "verify", "compile"} : Backlog(l) = 1
    /\ \A l \in {"mounts_check", "umount", "verify_wait", "marker", "compile_wait", "mark"} :
          Backlog(l) = 2
    /\ \A l \in {"recheck", "marker_check", "reboot"} : Backlog(l) = 3
    /\ Backlog("recheck_check") = 4
BY DEF Backlog

\* verify_sd_root_and_unmount_emmc.
LEMMA SafetyHeals ==
    ASSUME DataOK, RecoveryInv, HealInv, Generous, Safety
    PROVE  HealInv'
<1>0. BlankScreen \in Screens /\ "InfrastructureError" \in Exceptions
      /\ {"findmnt", "mounts", "umount"} \subseteq Commands \ {"reboot"}
  BY BlankIsScreen DEF Exceptions, Commands
<1>1. SafetyPcs \cup {"sha"} \subseteq ShellPcs /\ ShellPcs \cup {"begin"} \subseteq SequencePcs
  BY DEF ShellPcs, TransferPcs, SequencePcs, M4Pcs, CollectPcs
<1> USE DEF SafetyPcs
<1>2. CASE CheckSdRoot
  BY <1>0, <1>1, <1>2, Backlogs, ShellSends, ShellLooks, MissingHeals DEF CheckSdRoot
<1>3. CASE CheckMounts
  <2>1. Found("mounts_check", ~Seen("emmc") /\ TimeUp, "recheck") => HealInv'
    BY <1>1, Backlogs, ShellLooks
  <2> QED
    BY <1>0, <1>1, <1>3, <2>1, Backlogs, ShellSends, ShellLooks DEF CheckMounts
<1>4. CASE UmountEmmc
  BY <1>0, <1>1, <1>4, Backlogs, ShellSends DEF UmountEmmc
<1>5. CASE Recheck
  <2>1. Send("recheck", "mounts", BlankScreen, "recheck_check") => HealInv'
    BY <1>0, <1>1, Backlogs, ShellSends
  <2>2. ASSUME Found("recheck_check", ~Seen("emmc") /\ TimeUp, AfterSafety) PROVE HealInv'
    <3>1. CASE AfterSafety = "sha"
      <4>1. TimeUp
        BY <2>2 DEF Found
      <4> QED
        BY <1>1, <2>2, <3>1, <4>1, ShellLooks
    <3>2. CASE AfterSafety = "begin"
      <4>1. ASSUME pc' = "begin" PROVE Healthy'
        BY <4>1 DEF Healthy, ShellPcs, TransferPcs, ReaderPcs
      <4> QED
        BY <1>1, <2>2, <3>2, <4>1, FoundHeals
    <3> QED
      BY <3>1, <3>2 DEF AfterSafety
  <2>3. ASSUME pc = "recheck_check", Raise("InfrastructureError"), UNCHANGED envVars
        PROVE  HealInv'
    BY <1>0, <1>1, <2>3, RaiseHeals DEF envVars, consoleVars
  <2> QED
    BY <1>5, <2>1, <2>2, <2>3 DEF Recheck
<1> QED
  BY <1>2, <1>3, <1>4, <1>5 DEF Safety

\* transfer_firmware and ensure_reader_on_target.
LEMMA DeployHeals ==
    ASSUME DataOK, RecoveryInv, HealInv, Generous, Deploy
    PROVE  HealInv'
<1>0. BlankScreen \in Screens /\ screen \in Screens /\ "InfrastructureError" \in Exceptions
      /\ {"sha", "transfer", "marker", "source", "compile", "mark"} \subseteq Commands \ {"reboot"}
  BY BlankIsScreen DEF Exceptions, Commands, DataOK, BoardTypeOK, Screens
<1>1. TransferPcs \cup ReaderPcs \cup {"reboot"} \subseteq ShellPcs /\ ShellPcs \subseteq SequencePcs
  BY DEF ShellPcs, SequencePcs, M4Pcs
<1> USE DEF TransferPcs, ReaderPcs
<1>2. CASE CheckPresent
  <2>1. ASSUME Found("sha_check", ~ShaMatches /\ TimeUp, "transfer") PROVE HealInv'
    <3>1. TimeUp
      BY <2>1 DEF Found
    <3> QED
      BY <1>1, <2>1, <3>1, ShellLooks
  <2> QED
    BY <1>0, <1>1, <1>2, <2>1, Backlogs, ShellSends, ShellLooks DEF CheckPresent
<1>3. CASE Transfer
  BY <1>0, <1>1, <1>3, Backlogs, ShellSends DEF Transfer
<1>4. CASE VerifyTransfer
  BY <1>0, <1>1, <1>4, Backlogs, ShellSends, ShellLooks, MissingHeals DEF VerifyTransfer
<1>5. CASE CheckReader
  <2>1. ASSUME Found("marker_check", ~Seen("reader_sha") /\ TimeUp, "source") PROVE HealInv'
    <3>1. TimeUp
      BY <2>1 DEF Found
    <3> QED
      BY <1>1, <2>1, <3>1, ShellLooks
  <2> QED
    BY <1>0, <1>1, <1>5, <2>1, Backlogs, ShellSends, ShellLooks DEF CheckReader
<1>6. CASE SendSource \/ MarkReader
  BY <1>0, <1>1, <1>6, Backlogs, ShellSends DEF SendSource, MarkReader
<1>7. CASE CompileReader
  BY <1>0, <1>1, <1>7, Backlogs, ShellSends, ShellLooks, MissingHeals DEF CompileReader
<1> QED
  BY <1>2, <1>3, <1>4, <1>5, <1>6, <1>7 DEF Deploy

----------------------------------------------------------------------------
(* The reboot, the M4's start, the result *)

\* catch_uboot_prompt after the warm reset, and uboot_load_and_start_m4.
LEMMA RebootHeals ==
    ASSUME DataOK, RecoveryInv, HealInv, Generous,
           EnterUboot \/ LoadFirmware \/ CopyFirmware \/ StartM4
    PROVE  HealInv'
<1>0. BlankScreen \in Screens /\ screen \in Screens
      /\ {"RecoveryRequired", "InfrastructureError"} \subseteq Exceptions
      /\ {"reboot", "m4_load", "m4_copy", "bootaux"} \subseteq Commands
  BY BlankIsScreen DEF Exceptions, Commands, DataOK, BoardTypeOK, Screens
<1>1. M4Pcs \subseteq SequencePcs
  BY DEF SequencePcs
<1>2. {"uboot", "sd_shell", "countdown"} \subseteq Alive /\ "uboot" \notin Shells
      /\ "countdown" \in Booting /\ "sd_shell" \notin Booting /\ "uboot" \notin Booting
  BY DEF Alive, Shells, Booting
<1> USE DEF M4Pcs, ShellPcs, SafetyPcs, TransferPcs, ReaderPcs
<1>3. CASE EnterUboot
  <2>1. ASSUME Send("reboot", "reboot", BlankScreen, "reboot_catch") PROVE HealInv'
    <3>1. ASSUME Fine, pc = "reboot", Sent("reboot", BlankScreen, "reboot_catch") PROVE Healthy'
      <4>1. os = "sd_shell" /\ Len(input) <= Backlog("reboot") /\ NoReboot /\ os' = os
            /\ pc' = "reboot_catch"
        BY <3>1 DEF Fine, Healthy, Shell, Sent
      <4>2. Backlog("reboot") = 3
        BY DEF Backlog
      <4>3. Len(input) \in Nat /\ (Len(input) < 4 => RebootLast')
        BY <1>0, <1>2, <3>1, <4>1, SentLine
      <4>4. "prompt" \notin screen'.seen
        BY <1>0, <3>1, SentLine DEF BlankScreen
      <4>5. WillReboot'
        BY <4>1, <4>2, <4>3, <4>4 DEF WillReboot, Seen
      <4> QED
        BY <4>1, <4>5 DEF Healthy
    <3> QED
      BY <1>1, <2>1, <3>1, SendHeals
  <2>2. ASSUME Found("reboot_catch", Seen("prompt"), "m4_load") PROVE HealInv'
    <3>1. ASSUME Fine, pc = "reboot_catch", pc' = "m4_load", SameBoard PROVE Healthy'
      BY <2>2, <3>1 DEF Found, SameBoard, Fine, Healthy, WillReboot, Resetting, Prompted, AtPrompt, Idle
    <3> QED
      BY <1>1, <2>2, <3>1, FoundHeals
  <2>3. ASSUME CatchOver, Missing("reboot_catch", Seen("prompt"), "RecoveryRequired")
        PROVE  HealInv'
    <3>1. ASSUME Fine, pc = "reboot_catch", ~Seen("prompt") PROVE FALSE
      <4>1. RebootLast => ~Idle
        BY EmptySeq DEF RebootLast, Idle
      <4>2. os \notin Alive \/ (Idle /\ os \notin Booting)
        BY <2>3, <3>1, SettledBoard DEF Missing
      <4> QED
        BY <1>2, <3>1, <4>1, <4>2 DEF Fine, Healthy, WillReboot, Resetting, Prompted, AtPrompt
    <3> QED
      BY <1>0, <1>1, <2>3, <3>1, MissingHeals
  <2> QED
    BY <1>3, <2>1, <2>2, <2>3 DEF EnterUboot
<1>4. CASE LoadFirmware
  <2>1. ASSUME Send("m4_load", "m4_load", BlankScreen, "m4_check") PROVE HealInv'
    <3>1. ASSUME Fine, pc = "m4_load", Sent("m4_load", BlankScreen, "m4_check") PROVE Healthy'
      <4>1. os = "uboot" /\ os' = os /\ Idle /\ pc' = "m4_check"
        BY <3>1 DEF Fine, Healthy, AtPrompt, Sent
      <4>2. One("m4_load")' /\ "loaded" \notin screen'.seen
        BY <1>0, <1>2, <3>1, <4>1, SentLine, NothingSeen
      <4> QED
        BY <4>1, <4>2 DEF Healthy, Seen
    <3> QED
      BY <1>1, <2>1, <3>1, SendHeals
  <2>2. ASSUME Found("m4_check", Seen("loaded"), "m4_copy") PROVE HealInv'
    <3>1. ASSUME Fine, pc = "m4_check", pc' = "m4_copy", SameBoard PROVE Healthy'
      BY <2>2, <3>1 DEF Found, SameBoard, Fine, Healthy, AtPrompt, Idle
    <3> QED
      BY <1>1, <2>2, <3>1, FoundHeals
  <2> QED
    BY <1>0, <1>1, <1>4, <2>1, <2>2, MissingHeals DEF LoadFirmware
<1>5. CASE CopyFirmware
  <2>1. ASSUME Fine, pc = "m4_copy", Sent("m4_copy", screen, "bootaux") PROVE Healthy'
    <3>1. os = "uboot" /\ os' = os /\ Idle /\ pc' = "bootaux"
      BY <2>1 DEF Fine, Healthy, AtPrompt, Sent
    <3>2. One("m4_copy")'
      BY <1>0, <1>2, <2>1, <3>1, SentLine
    <3> QED
      BY <3>1, <3>2 DEF Healthy
  <2> QED
    BY <1>1, <1>5, <2>1, SendHeals DEF CopyFirmware
<1>6. CASE StartM4
  <2>1. ASSUME Fine, pc = "bootaux", Sent("bootaux", BlankScreen, "bootaux_check") PROVE Healthy'
    <3>1. os = "uboot" /\ os' = os /\ pc' = "bootaux_check" /\ (Idle \/ One("m4_copy"))
      BY <2>1 DEF Fine, Healthy, AtPrompt, Sent
    <3>2. (Idle => One("bootaux")') /\ (One("m4_copy") => Two("m4_copy", "bootaux")')
          /\ screen' = BlankScreen
      BY <1>0, <1>2, <2>1, <3>1, SentLine
    <3> QED
      BY <3>1, <3>2 DEF Healthy, StartsM4, BlankScreen
  <2> QED
    BY <1>1, <1>6, <2>1, SendHeals DEF StartM4
<1> QED
  BY <1>3, <1>4, <1>5, <1>6

\* The banner on the screen means that bootaux was read, and with it every line.
LEMMA StartHeals ==
    ASSUME DataOK, RecoveryInv, HealInv, CheckStart
    PROVE  HealInv'
<1>1. /\ pc = "bootaux_check" /\ {"bootaux_check", "image"} \subseteq SequencePcs
      /\ UNCHANGED <<power, os, input, mem, screen, probe, link, faults>>
      /\ {"TestFailure", "InfrastructureError"} \subseteq Exceptions
  BY DEF CheckStart, envVars, boardVars, consoleVars, SequencePcs, M4Pcs, ResumePcs, Exceptions
<1>2. ASSUME BannerMatches, pc' = "image", UNCHANGED <<seqNo, probeTry, out>>
      PROVE  HealInv'
  <2>1. screen.entry # NoEntry
    BY <1>2, BoardAssumption DEF BannerMatches, DataOK, Slots
  <2>2. ASSUME Fine PROVE Fine'
    <3>1. os' = "uboot" /\ input' = <<>>
      BY <1>1, <2>1, <2>2 DEF Fine, Healthy, StartsM4, Idle
    <3>2. Healthy'
      BY <1>2, <3>1 DEF Healthy, AtPrompt, Idle, ShellPcs, SafetyPcs, TransferPcs, ReaderPcs
    <3> QED
      BY <1>1, <2>2, <3>2 DEF Fine
  <2> QED
    BY <1>1, <1>2, <2>2, GoHeals
<1>3. ASSUME Raise("TestFailure") \/ Raise("InfrastructureError") PROVE HealInv'
  BY <1>1, <1>3, RaiseHeals
<1> QED
  BY <1>2, <1>3 DEF CheckStart

\* collect_result asks nothing of the board's health, and blames nobody.
LEMMA CollectHeals ==
    ASSUME DataOK, RecoveryInv, HealInv, AskResult \/ CollectResult
    PROVE  HealInv'
<1>1. CollectPcs \subseteq SequencePcs /\ "InfrastructureError" \in Exceptions
  BY DEF SequencePcs, Exceptions
<1>2. pc' \in CollectPcs => Healthy'
  BY DEF Healthy, CollectPcs, ShellPcs, SafetyPcs, TransferPcs, ReaderPcs
<1> USE DEF CollectPcs
<1>3. CASE AskResult
  BY <1>1, <1>2, <1>3, SendHeals DEF AskResult, Sent
<1>4. CASE ParseResult
  <2>1. CASE Raise("InfrastructureError")
    BY <1>1, <1>4, <2>1, RaiseHeals DEF ParseResult, envVars, consoleVars
  <2>2. CASE pc' = "validate" /\ seqNo' = seqNo
             /\ out' = [out EXCEPT !.bench = screen.json, !.fields = @ \cup {"benchmark"}]
    <3>1. out'.exit = out.exit
      BY <2>2 DEF RecoveryInv, Shaped
    <3> QED
      BY <1>4, <2>2, <3>1, LeaveHeals DEF ParseResult, envVars, consoleVars
  <2> QED
    BY <1>4, <2>1, <2>2 DEF ParseResult
<1>5. CASE Missing("collect", Seen("end"), "InfrastructureError")
  BY <1>1, <1>5, MissingHeals
<1> QED
  BY <1>3, <1>4, <1>5 DEF CollectResult

\* validate_result passes the run or fails the test.
LEMMA ValidateHeals ==
    ASSUME DataOK, RecoveryInv, HealInv, Validate
    PROVE  HealInv'
<1>1. pc = "validate" /\ UNCHANGED <<probe, faults>>
  BY DEF Validate, envVars, consoleVars
<1>2. pc' = "finally" /\ seqNo' = seqNo /\ out'.exit # 3
  <2>1. CASE Raise("TestFailure")
    <3>1. ~Retried("TestFailure")
      BY DEF Retried
    <3>2. out'.exit = ExitCode("TestFailure") /\ pc' = "finally" /\ seqNo' = seqNo
      BY <2>1, <3>1 DEF Raise, RecoveryInv, Shaped
    <3> QED
      BY <3>2 DEF ExitCode
  <2>2. CASE /\ pc' = "finally"
             /\ out' = [out EXCEPT !.result = "PASS", !.exit = 0]
             /\ UNCHANGED <<seqNo, phase, attempt, probeTry, built, cycles>>
    <3>1. out'.exit = 0
      BY <2>2 DEF RecoveryInv, Shaped
    <3> QED
      BY <2>2, <3>1
  <2> QED
    BY <2>1, <2>2 DEF Validate
<1> QED
  BY <1>1, <1>2, LeaveHeals

----------------------------------------------------------------------------
(* acquire_console_via_power_cycle *)

\* An error of the relay, the hub or the console ends the run with exit code 2.
LEMMA OtherEnds ==
    ASSUME RecoveryInv, Raise("Other")
    PROVE  pc' = "finally" /\ out'.exit = 2 /\ UNCHANGED <<seqNo, probeTry>>
<1>1. ~Retried("Other")
  BY DEF Retried
<1>2. ExitCode("Other") = 2
  BY DEF ExitCode
<1> QED
  BY <1>1, <1>2 DEF Raise, RecoveryInv, Shaped

\* The relay and the catch of the prompt.
LEMMA AcquireHeals ==
    ASSUME DataOK, RecoveryInv, HealInv, Generous, Acquire
    PROVE  HealInv'
<1>0. {"RecoveryRequired", "Other"} \subseteq Exceptions
      /\ CatchPcs \cup {"acquire", "power_on", "catch", "image"} \subseteq SequencePcs
  BY DEF Exceptions, CatchPcs, SequencePcs, AcquirePcs, ResumePcs, M4Pcs
<1> USE DEF ShellPcs, SafetyPcs, TransferPcs, ReaderPcs
<1>1. CASE PowerOff
  <2>1. CASE Fault /\ Raise("Other")
    BY <2>1, OtherEnds, FaultHeals
  <2>2. CASE CutPower /\ pc' = "power_on" /\ UNCHANGED <<seqNo, probeTry, out, faults>>
    <3>1. UNCHANGED <<probe, link>> /\ power' = FALSE /\ os' = "off" /\ input' = <<>>
      BY <1>1, <2>2 DEF PowerOff, CutPower, consoleVars
    <3>2. Healthy'
      BY <2>2, <3>1 DEF Healthy, Idle
    <3> QED
      BY <1>0, <1>1, <2>2, <3>1, <3>2, GoHeals DEF PowerOff, Fine
  <2> QED
    BY <1>1, <2>1, <2>2 DEF PowerOff
<1>2. CASE PowerOn
  <2>1. CASE Fault /\ Raise("Other")
    BY <2>1, OtherEnds, FaultHeals
  <2>2. CASE RestorePower /\ Goto("catch") /\ screen' = BlankScreen /\ UNCHANGED faults
    <3>1. ASSUME Fine PROVE Fine'
      <4>1. os' = "countdown" /\ input' = <<>> /\ "prompt" \notin screen'.seen
        BY <1>2, <2>2, <3>1 DEF PowerOn, RestorePower, Fine, Healthy, Idle, BlankScreen
      <4>2. Healthy'
        BY <2>2, <4>1 DEF Goto, Healthy, Resetting, Idle, Seen
      <4> QED
        BY <1>2, <3>1, <4>2 DEF PowerOn, Fine
    <3> QED
      BY <1>0, <1>2, <2>2, <3>1, GoHeals DEF PowerOn, Goto
  <2> QED
    BY <1>2, <2>1, <2>2 DEF PowerOn
<1>3. CASE Catch
  <2>1. ASSUME Found("catch", Seen("prompt"), "image") PROVE HealInv'
    <3>1. ASSUME Fine, pc = "catch", pc' = "image", SameBoard PROVE Healthy'
      BY <2>1, <3>1 DEF Found, SameBoard, Fine, Healthy, Resetting, Prompted, AtPrompt, Idle
    <3> QED
      BY <1>0, <2>1, <3>1, FoundHeals
  <2>2. ASSUME pc = "catch", CatchOver, UNCHANGED envVars,
               Goto("acquire") \/ Raise("RecoveryRequired")
        PROVE  HealInv'
    <3>1. UNCHANGED <<probe, link, faults>>
      BY <2>2 DEF envVars, consoleVars
    <3>2. ~Fine
      BY <2>2 DEF CatchOver, Generous, Fine, Healthy, Resetting, Prompted, AtPrompt, Listening
    <3>3. CASE Goto("acquire")
      BY <1>0, <2>2, <3>1, <3>2, <3>3, GoHeals DEF Goto
    <3>4. CASE Raise("RecoveryRequired")
      BY <1>0, <2>2, <3>1, <3>2, <3>4, RaiseHeals
    <3> QED
      BY <2>2, <3>3, <3>4
  <2> QED
    BY <1>3, <2>1, <2>2 DEF Catch
<1>4. CASE CatchBroken
  BY <1>0, <1>4, RaiseHeals DEF CatchBroken, envVars, consoleVars
<1> QED
  BY <1>1, <1>2, <1>3, <1>4 DEF Acquire

----------------------------------------------------------------------------
(* Around the sequences *)

\* Before the first sequence: the build, and the probe looked up.
LEMMA EarlyHeals ==
    ASSUME DataOK, RecoveryInv, HealInv, Provenance \/ Build \/ ReadElf \/ Discover
    PROVE  HealInv'
<1>1. /\ pc \in {"provenance", "build", "elf", "discover"} /\ seqNo = 0 /\ probeTry = 0
      /\ UNCHANGED <<seqNo, probeTry, probe, faults>>
  BY Counters DEF Provenance, Build, ReadElf, Discover, Raise, Goto, envVars, consoleVars
<1>2. \/ \E e \in Exceptions \ {"RecoveryRequired"} : Raise(e)
      \/ pc' \in {"build", "elf", "discover", "open", "hub_off"} /\ out'.exit = out.exit
  <2>1. CASE Provenance
    BY <2>1 DEF Provenance, Exceptions, RecoveryInv, Shaped
  <2>2. CASE Build
    BY <2>2 DEF Build, Exceptions, RecoveryInv, Shaped
  <2>3. CASE ReadElf \/ Discover
    BY <2>3 DEF ReadElf, Discover, Goto, Exceptions
  <2> QED
    BY <2>1, <2>2, <2>3
<1>3. ASSUME NEW e \in Exceptions \ {"RecoveryRequired"}, Raise(e) PROVE HealInv'
  <2>1. ~Retried(e)
    BY DEF Retried
  <2>2. pc' = "finally" /\ out'.exit = ExitCode(e)
    BY <1>3, <2>1 DEF Raise, RecoveryInv, Shaped
  <2>3. ExitCode(e) # 3
    BY DEF ExitCode, Exceptions
  <2> QED
    BY <1>1, <2>2, <2>3, LeaveHeals
<1>4. ASSUME pc' \in {"build", "elf", "discover", "open", "hub_off"}, out'.exit = out.exit
      PROVE  HealInv'
  <2>1. ~Healing' /\ (Charged <=> Charged') /\ pc' \notin SequencePcs
    BY <1>1, <1>4, Statements DEF Healing, Charged, HubPcs
  <2>2. probeTry' <= faults'
    BY <1>1, Counters
  <2> QED
    BY <1>1, <1>4, <2>1, <2>2 DEF HealInv, OneFaultIsHealed
<1> QED
  BY <1>2, <1>3, <1>4

\* recover_probe: a port cycle that leaves no probe cost a fault.
LEMMA HubHeals ==
    ASSUME DataOK, RecoveryInv, HealInv, Generous, HubOff \/ HubOn \/ Poll
    PROVE  HealInv'
<1>0. pc \in HubPcs /\ seqNo \in {0, 1} /\ probeTry \in Nat /\ faults \in Nat /\ out.exit # 3
  BY Counters DEF HubOff, HubOn, Poll, HubPcs
<1>1. CASE HubOff
  <2>1. CASE Fault /\ Raise("Other")
    BY <2>1, OtherEnds, FaultHeals
  <2>2. CASE /\ PortOff /\ pc' = "hub_on" /\ probeTry' = probeTry + 1
             /\ UNCHANGED <<seqNo, out, faults>>
    <3>1. (Healing <=> Healing') /\ (Charged <=> Charged') /\ pc' \notin SequencePcs
      BY <1>0, <2>2, Statements DEF Healing, Charged, HubPcs
    <3>2. probe' = "gone" /\ probeTry' <= faults' + 1
      BY <1>0, <1>1, <2>2 DEF HubOff, PortOff, HealInv
    <3> QED
      BY <1>0, <2>2, <3>1, <3>2 DEF HealInv, OneFaultIsHealed
  <2> QED
    BY <1>1, <2>1, <2>2 DEF HubOff
<1>2. CASE HubOn
  <2>1. CASE Fault /\ Raise("Other")
    BY <2>1, OtherEnds, FaultHeals
  <2>2. CASE PortOn /\ Goto("poll") /\ UNCHANGED faults
    <3>1. UNCHANGED <<seqNo, probeTry, out>> /\ pc' = "poll" /\ probe' = "starting"
      BY <2>2 DEF Goto, PortOn
    <3>2. (Healing <=> Healing') /\ (Charged <=> Charged') /\ pc' \notin SequencePcs
      BY <1>0, <2>2, <3>1, Statements DEF Healing, Charged, HubPcs
    <3>3. probeTry' <= faults' + 1
      BY <1>2, <2>2, <3>1 DEF HubOn, HealInv
    <3> QED
      BY <1>0, <2>2, <3>1, <3>2, <3>3 DEF HealInv, OneFaultIsHealed
  <2> QED
    BY <1>2, <2>1, <2>2 DEF HubOn
<1>3. CASE Poll
  <2>0. pc = "poll" /\ UNCHANGED <<probe, faults>>
    BY <1>3 DEF Poll, envVars, consoleVars
  <2>1. CASE Goto("open")
    <3>1. UNCHANGED <<seqNo, probeTry, out>> /\ pc' = "open" /\ pc' \notin SequencePcs
      BY <2>1, Statements DEF Goto
    <3>2. (Healing <=> Healing') /\ (Quiet <=> Quiet') /\ (Charged <=> Charged')
      BY <1>0, <2>0, <3>1 DEF Healing, Quiet, Charged, HubPcs
    <3> QED
      BY <2>0, <3>1, <3>2 DEF HealInv, OneFaultIsHealed
  <2>2. CASE ~Resolvable
    <3>1. probe = "gone" /\ probeTry <= faults
      BY <1>3, <2>0, <2>2 DEF Poll, Generous, Resolvable, HealInv, DataOK, BoardTypeOK
    <3>2. CASE probeTry < ProbeAttempts /\ Goto("hub_off")
      <4>1. UNCHANGED <<seqNo, probeTry, out>> /\ pc' = "hub_off" /\ pc' \notin SequencePcs
        BY <3>2, Statements DEF Goto, HubPcs
      <4>2. (Healing <=> Healing') /\ (Charged <=> Charged')
        BY <1>0, <2>0, <4>1 DEF Healing, Charged, HubPcs
      <4> QED
        BY <2>0, <3>1, <4>1, <4>2 DEF HealInv, OneFaultIsHealed
    <3>3. CASE ~(probeTry < ProbeAttempts) /\ Raise("RecoveryRequired")
      <4>1. faults > 1
        BY <1>0, <3>1, <3>3, HilAssumption DEF Generous
      <4>2. pc' = "finally" /\ UNCHANGED <<seqNo, probeTry>>
        BY <2>0, <3>3, Statements DEF Raise, Retried, HubPcs
      <4>3. ~Healing' /\ (Charged <=> Charged') /\ pc' \notin SequencePcs
        BY <1>0, <2>0, <4>2, Statements DEF Healing, Charged, HubPcs
      <4> QED
        BY <2>0, <4>1, <4>2, <4>3 DEF HealInv, OneFaultIsHealed
    <3> QED
      BY <1>3, <2>2, <3>2, <3>3 DEF Poll, Resolvable
  <2> QED
    BY <1>3, <2>1, <2>2 DEF Poll
<1> QED
  BY <1>1, <1>2, <1>3

\* A console is opened on a probe that was found: wedged only if that is why
\* faults are counted.
LEMMA OpenHeals ==
    ASSUME DataOK, RecoveryInv, HealInv, OpenLink
    PROVE  HealInv'
<1>1. pc = "open" /\ seqNo \in {0, 1} /\ UNCHANGED <<probe, faults>> /\ faults \in Nat
      /\ out.exit # 3
  BY Counters DEF OpenLink
<1>2. CASE Resolvable
  <2>1. link' = "open" /\ pc' = "acquire" /\ seqNo' = seqNo + 1 /\ out'.exit = out.exit
        /\ probe \in {"ok", "wedged"}
    BY <1>2 DEF OpenLink, Resolvable, RecoveryInv, Shaped
  <2>2. (Healing' <=> seqNo = 1) /\ (seqNo = 1 => Healing)
    BY <1>1, <2>1 DEF Healing, HubPcs
  <2>3. (seqNo = 1 => (Quiet' <=> Quiet)) /\ (Charged' <=> Charged)
    BY <1>1, <2>2 DEF Quiet, Charged
  <2>4. Healthy'
    BY <2>1 DEF Healthy, ShellPcs, SafetyPcs, TransferPcs, ReaderPcs
  <2> QED
    BY <1>1, <2>1, <2>2, <2>3, <2>4 DEF HealInv, Fine, OneFaultIsHealed
<1>3. CASE ~Resolvable
  <2>1. ExitCode("Other") = 2
    BY DEF ExitCode
  <2>2. pc' = "finally" /\ UNCHANGED seqNo /\ out'.exit = 2
    BY <1>3, <2>1 DEF OpenLink, RecoveryInv, Shaped
  <2> QED
    BY <1>1, <2>2, LeaveHeals
<1> QED
  BY <1>2, <1>3

\* A run that finds the probe wedged counts that as a fault.
LEMMA FoundWedged == probe = "wedged" => MaxFaults = 0 \/ FoundFaults = 1
<1>1. MaxFaults \in Nat
  BY BoardAssumption
<1>2. MaxFaults = 0 \/ MaxFaults > 0
  BY <1>1
<1> QED
  BY <1>2, Zenon DEF FoundFaults

\* The retry, the end of a run and the next one.
LEMMA EndHeals ==
    ASSUME DataOK, RecoveryInv, HealInv, Retry \/ Finally \/ Interrupt \/ NextRun
    PROVE  HealInv'
<1>1. CASE Retry
  <2>1. /\ pc = "retry" /\ pc' = "hub_off" /\ probeTry' = 0 /\ seqNo = 1
        /\ UNCHANGED <<seqNo, probe, faults, out>> /\ faults \in Nat /\ pc' \notin SequencePcs
    BY <1>1, Counters, Statements DEF Retry, HubPcs
  <2>2. (Healing <=> Healing') /\ (Charged <=> Charged')
    BY <2>1 DEF Healing, Charged, HubPcs
  <2> QED
    BY <2>1, <2>2 DEF HealInv, OneFaultIsHealed
<1>2. CASE Finally
  <2>1. out'.exit = IF out.exit = NoExit THEN 1 ELSE out.exit
    BY <1>2 DEF Finally, RecoveryInv, Shaped
  <2> QED
    BY <1>2, <2>1, LeaveHeals DEF Finally
<1>3. CASE Interrupt
  BY <1>3, LeaveHeals DEF Interrupt, Goto, envVars, consoleVars
<1>4. CASE NextRun
  <2>1. /\ pc' = "provenance" /\ seqNo' = 0 /\ out' = FreshOut /\ faults' = FoundFaults
        /\ probe' = probe /\ pc' \notin SequencePcs
    BY <1>4, Statements DEF NextRun, StartRun
  <2>2. probe = "wedged" => Charged'
    BY <2>1, FoundWedged DEF Charged
  <2>3. ~Healing' /\ out'.exit = -1
    BY <2>1 DEF Healing, FreshOut, NoExit
  <2> QED
    BY <2>1, <2>2, <2>3 DEF HealInv, OneFaultIsHealed
<1> QED
  BY <1>1, <1>2, <1>3, <1>4

\* A bench found with its probe wedged is charged for it.
LEMMA HealInit == Init => HealInv
<1> SUFFICES ASSUME Init PROVE HealInv
  OBVIOUS
<1>1. pc = "provenance" /\ seqNo = 0 /\ out.exit = -1 /\ faults = FoundFaults /\ pc \notin SequencePcs
  BY Statements DEF Init, BoardInit, FreshOut, NoExit
<1>2. probe = "wedged" => Charged
  BY <1>1, FoundWedged DEF Charged
<1> QED
  BY <1>1, <1>2 DEF HealInv, Healing, OneFaultIsHealed

\* Every step of a behaviour keeps the books of its faults.
LEMMA HealStep ==
    ASSUME Generous, DataOK, RecoveryInv, HealInv, [Next]_vars
    PROVE  HealInv'
<1>1. CASE RunnerStep
  BY <1>1, AcquireHeals, ResumeHeals, SafetyHeals, DeployHeals, RebootHeals, StartHeals,
     CollectHeals, ValidateHeals, EarlyHeals, HubHeals, OpenHeals, EndHeals
     DEF RunnerStep, Prepare, Measure
<1>2. CASE (BoardStep /\ UNCHANGED runVars) \/ CatchKey \/ AutobootWins
  BY <1>2, EnvironmentHeals DEF Generous
<1>3. CASE FaultStep /\ UNCHANGED runVars
  BY <1>3, FaultStepHeals
<1>4. CASE Interrupt \/ NextRun
  BY <1>4, EndHeals
<1>5. CASE UNCHANGED vars
  <2>1. UNCHANGED <<runVars, faults, probe, link, power, os, input, mem, screen>>
    BY <1>5 DEF vars, envVars, boardVars, consoleVars
  <2>2. Fine => Fine'
    BY <2>1, HealthySame DEF Fine, runVars
  <2> QED
    BY <2>1, <2>2, CalmHeals
<1> QED
  BY <1>1, <1>2, <1>3, <1>4, <1>5 DEF Next

\* The single retry heals one fault, whatever it is and whenever it strikes: a
\* run that ends with exit code 3, RecoveryRequired, has met two.  The bounds
\* are the ones the code works with: two port cycles (discover_device,
\* recover_probe) and a console that takes the lines typed ahead of the board.
THEOREM OneFaultHeals == Generous => (Spec => []OneFaultIsHealed)
<1> SUFFICES ASSUME Generous PROVE Spec => []OneFaultIsHealed
  OBVIOUS
<1>1. Init => HealInv
  BY HealInit
<1>2. DataOK /\ RecoveryInv /\ HealInv /\ [Next]_vars => HealInv'
  BY HealStep
<1>3. HealInv => OneFaultIsHealed
  BY DEF HealInv
<1> QED
  BY <1>1, <1>2, <1>3, BenchInvariant, RecoveryInvariant, PTL DEF Spec
=============================================================================
