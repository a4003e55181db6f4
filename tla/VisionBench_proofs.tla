------------------------- MODULE VisionBench_proofs -------------------------
(***************************************************************************)
(* What a run does to its bench, for every image set, fault budget and     *)
(* bound of the recovery: nothing of it is written to the eMMC, a pass is  *)
(* of the image this run built, no run that could go on leaves the board   *)
(* off, and, where every timeout is long enough, a verified card stays     *)
(* verified.  Each is a fact about lines that were typed and not yet read, *)
(* so the invariants speak of the input queue: what is in it, in which     *)
(* order, and which system will read it.                                   *)
(***************************************************************************)
EXTENDS VisionHil_proofs

\* The commands that write to the root file system of whoever reads them.
Writes == {"marker", "source", "compile", "mark"}
\* The lines typed and not read yet.
Queued == {input[i] : i \in 1 .. Len(input)}
\* The card's system reads the next line, or, hung, nobody does.
OnCard == os \in {"sd_shell", "hung"}

\* No line of B is queued behind one of a.
NoneBehind(a, B) ==
    \A i, j \in 1 .. Len(input) : i < j /\ input[i].cmd = a => input[j].cmd \notin B

\* A reboot may end in the eMMC's system: no write waits behind one.
InOrder == NoneBehind("reboot", Writes)
\* A checksum queued before a transfer would be of what is overwritten.
ShaLast == NoneBehind("sha", {"transfer"})

\* The statements of a try up to the reboot of its deployed card,
BeforeReboot ==
    {"power_on", "catch"} \cup ResumePcs \cup LoginPcs \cup SafetyPcs
    \cup TransferPcs \cup ReaderPcs \cup {"reboot"}
\* and those of them that follow the check that the root is the card.
OnCardPcs ==
    (SafetyPcs \ {"findmnt", "findmnt_check"}) \cup TransferPcs \cup ReaderPcs \cup {"reboot"}

\* Writes are queued only while the card's system runs, or hangs, and reads
\* them; it runs from the check of its root to the reboot the runner types.
EmmcInv ==
    /\ ~power => os = "off"
    /\ InOrder
    /\ \A l \in Queued : l.cmd \in Writes => OnCard
    /\ phase = 1 /\ pc \in BeforeReboot => \A l \in Queued : l.cmd # "reboot"
    /\ phase = 1 /\ pc \in OnCardPcs => OnCard
    /\ phase = 1 /\ pc = "findmnt_check" /\ Seen("sdroot") => OnCard
    /\ pc \in TransferPcs \cup ReaderPcs => phase = 1
    /\ NoEmmcWrite

\* A result of this run's image, or none.
Own(r) == r.state # "none" => r.img = built
\* The card holds nothing but this run's image.
OwnOnCard == sd.fw \in {built, NoImage}
\* The statements that follow the check of the card's checksum.
Verified == phase = 2 \/ pc \in ReaderPcs \cup M4Pcs

\* From the power cut of a try on, whatever could end in its report is of the
\* image of this run: lines, memories, M4, screen, and the card once verified.
BuildInv ==
    /\ pc \notin {"provenance", "build", "finally", "exited"} => built \in Images
    /\ pc \in AcquirePcs => phase = 1
    /\ pc \in SequencePcs \ {"acquire"} =>
          /\ \A l \in Queued : l.img = built
          /\ mem.ram \in {built, NoImage} /\ mem.tcm \in {built, NoImage}
          /\ Own(m4)
          /\ Verified \/ (\E l \in Queued : l.cmd = "m4_load") => OwnOnCard
    /\ pc \in SequencePcs \ {"acquire", "power_on"} =>
          Own(screen.json) /\ (built \in screen.sha => OwnOnCard)
    /\ pc = "validate" => Own(out.bench)
    /\ PassMeansThisBuildRan


----------------------------------------------------------------------------
(* The lines the board has not read *)

\* Taking the first line leaves the others, in their order.
LEMMA TailOrder ==
    ASSUME input \in Seq(Lines), input # <<>>, input' = Tail(input), NEW a, NEW B, NoneBehind(a, B)
    PROVE  /\ NoneBehind(a, B)'
           /\ Head(input).cmd = a => \A l \in Queued' : l.cmd \notin B
<1>1. /\ Len(input) \in Nat \ {0} /\ Head(input) = input[1]
      /\ Len(input') = Len(input) - 1
      /\ \A i \in 1 .. Len(input') : input'[i] = input[i + 1] /\ i + 1 \in 1 .. Len(input)
  BY HeadTailProperties, LenProperties, EmptySeq
<1>2. NoneBehind(a, B)'
  <2> SUFFICES ASSUME NEW i \in 1 .. Len(input'), NEW j \in 1 .. Len(input'),
                      i < j, input'[i].cmd = a
               PROVE  input'[j].cmd \notin B
    BY DEF NoneBehind
  <2>1. i + 1 < j + 1 /\ i + 1 \in 1 .. Len(input) /\ j + 1 \in 1 .. Len(input)
    BY <1>1
  <2> QED
    BY <1>1, <2>1 DEF NoneBehind
<1>3. ASSUME Head(input).cmd = a, NEW l \in Queued'
      PROVE  l.cmd \notin B
  <2>1. PICK j \in 1 .. Len(input') : l = input'[j]
    BY <1>3 DEF Queued
  <2>2. l = input[j + 1] /\ 1 < j + 1 /\ 1 \in 1 .. Len(input) /\ j + 1 \in 1 .. Len(input)
    BY <1>1, <2>1
  <2> QED
    BY <1>1, <1>3, <2>2 DEF NoneBehind
<1> QED
  BY <1>2, <1>3

\* What TailOrder says of the two orders the invariants need.
LEMMA TailQueue ==
    ASSUME input \in Seq(Lines), input # <<>>, input' = Tail(input)
    PROVE  /\ Head(input) \in Queued
           /\ Queued' \subseteq Queued
           /\ InOrder => InOrder'
           /\ InOrder /\ Head(input).cmd = "reboot" => \A l \in Queued' : l.cmd \notin Writes
           /\ ShaLast => ShaLast'
           /\ ShaLast /\ Head(input).cmd = "sha" => \A l \in Queued' : l.cmd # "transfer"
<1>1. /\ Len(input) \in Nat \ {0} /\ Head(input) = input[1]
      /\ Len(input') = Len(input) - 1
      /\ \A i \in 1 .. Len(input') : input'[i] = input[i + 1] /\ i + 1 \in 1 .. Len(input)
  BY HeadTailProperties, LenProperties, EmptySeq
<1>2. Head(input) \in Queued /\ Queued' \subseteq Queued
  BY <1>1 DEF Queued
<1>3. InOrder => InOrder' /\ (Head(input).cmd = "reboot" => \A l \in Queued' : l.cmd \notin Writes)
  BY TailOrder DEF InOrder, Writes
<1>4. ShaLast => ShaLast' /\ (Head(input).cmd = "sha" => \A l \in Queued' : l.cmd # "transfer")
  BY TailOrder DEF ShaLast
<1> QED
  BY <1>2, <1>3, <1>4

\* What the board reads was queued.
LEMMA ReadsQueue ==
    ASSUME input \in Seq(Lines), NEW c, Reads(c)
    PROVE  /\ Head(input) \in Queued /\ Head(input).cmd = c
           /\ Queued' \subseteq Queued
           /\ InOrder => InOrder'
           /\ InOrder /\ c = "reboot" => \A l \in Queued' : l.cmd \notin Writes
           /\ ShaLast => ShaLast'
           /\ ShaLast /\ c = "sha" => \A l \in Queued' : l.cmd # "transfer"
BY TailQueue DEF Reads

\* An empty queue.
LEMMA NoQueue ==
    ASSUME input' = <<>>
    PROVE  Queued' = {} /\ InOrder' /\ ShaLast'
<1>1. 1 .. Len(input') = {}
  BY EmptySeq
<1> QED
  BY <1>1 DEF Queued, InOrder, ShaLast, NoneBehind

\* The same queue.
LEMMA SameQueue ==
    ASSUME input' = input
    PROVE  Queued' = Queued /\ (InOrder => InOrder') /\ (ShaLast => ShaLast')
BY DEF Queued, InOrder, ShaLast, NoneBehind, Writes

\* A typed line comes last.
LEMMA TypedOrder ==
    ASSUME input \in Seq(Lines), NEW line \in Lines, input' = Append(input, line),
           NEW a, NEW B, NoneBehind(a, B), line.cmd \in B => \A l \in Queued : l.cmd # a
    PROVE  NoneBehind(a, B)'
<1>1. /\ Len(input) \in Nat /\ Len(input') = Len(input) + 1
      /\ \A i \in 1 .. Len(input) : input'[i] = input[i]
      /\ input'[Len(input) + 1] = line
  BY AppendProperties, LenProperties
<1> SUFFICES ASSUME NEW i \in 1 .. Len(input'), NEW j \in 1 .. Len(input'),
                    i < j, input'[i].cmd = a
             PROVE  input'[j].cmd \notin B
  BY DEF NoneBehind
<1>2. i \in 1 .. Len(input) /\ input[i].cmd = a /\ input[i] \in Queued
  BY <1>1 DEF Queued
<1>3. CASE j \in 1 .. Len(input)
  BY <1>1, <1>2, <1>3 DEF NoneBehind
<1>4. CASE j = Len(input) + 1
  BY <1>1, <1>2, <1>4
<1> QED
  BY <1>1, <1>3, <1>4

\* A line typed is the last of the queue; a dead or hung board gets none.
LEMMA TypedQueue ==
    ASSUME input \in Seq(Lines), built \in Slots, NEW c \in Commands,
           input' = input \/ input' = Typed(c, built)
    PROVE  /\ Queued' \subseteq Queued \cup {[cmd |-> c, img |-> built]}
           /\ os \notin Alive => Queued' = Queued
           /\ InOrder /\ (c \in Writes => \A l \in Queued : l.cmd # "reboot") => InOrder'
           /\ ShaLast /\ (c = "transfer" => \A l \in Queued : l.cmd # "sha") => ShaLast'
<1> DEFINE line == [cmd |-> c, img |-> built]
<1>1. CASE input' = input
  BY <1>1, SameQueue
<1>2. CASE input' = Append(input, line) /\ os \in Alive
  <2>1. line \in Lines /\ line.cmd = c
    BY DEF Lines
  <2>2. /\ Len(input) \in Nat /\ Len(input') = Len(input) + 1
        /\ \A i \in 1 .. Len(input) : input'[i] = input[i]
        /\ input'[Len(input) + 1] = line
    BY <1>2, <2>1, AppendProperties, LenProperties
  <2>3. \A i \in 1 .. Len(input') : i \in 1 .. Len(input) \/ i = Len(input) + 1
    BY <2>2
  <2>4. Queued' \subseteq Queued \cup {line}
    BY <2>2, <2>3 DEF Queued
  <2> HIDE DEF line
  <2>5. InOrder /\ (c \in Writes => \A l \in Queued : l.cmd # "reboot") => InOrder'
    BY <1>2, <2>1, TypedOrder DEF InOrder, Writes
  <2>6. ShaLast /\ (c = "transfer" => \A l \in Queued : l.cmd # "sha") => ShaLast'
    BY <1>2, <2>1, TypedOrder DEF ShaLast
  <2> QED
    BY <1>2, <2>4, <2>5, <2>6 DEF line
<1> QED
  BY <1>1, <1>2 DEF Typed

----------------------------------------------------------------------------
(* What the bench does on its own *)

\* The two ways a line shows on the screen.
LEMMA WithShows ==
    ASSUME NEW s \in Screens, NEW t
    PROVE  /\ With(t, s).json = s.json /\ With(t, s).sha = s.sha
           /\ With(t, s).seen \subseteq s.seen \cup t
BY DEF With, Screens

\* The echo of a command is neither a result, a checksum nor a root.
LEMMA EchoShows ==
    ASSUME NEW s \in Screens, NEW c
    PROVE  /\ Echo(c, s).json = s.json /\ Echo(c, s).sha = s.sha
           /\ "sdroot" \in Echo(c, s).seen => "sdroot" \in s.seen
<1>1. "sdroot" \notin EchoOf(c)
  BY DEF EchoOf
<1> QED
  BY <1>1, WithShows DEF Echo

\* A step of the bench: it takes lines off the queue and does no more than they
\* say.
Storage ==
    /\ power' = power
    /\ os = "off" => os' = "off"
    /\ OnCard => \/ OnCard'
                 \/ /\ \E l \in Queued : l.cmd = "reboot"
                    /\ InOrder => \A l \in Queued' : l.cmd \notin Writes
    /\ touched'.emmc => touched.emmc \/ (~OnCard /\ \E l \in Queued : l.cmd \in Writes)
    /\ "sdroot" \in screen'.seen => "sdroot" \in screen.seen \/ OnCard'

\* Where an image on the card, in a memory or in a result can come from.
Firmware ==
    /\ sd'.fw \in {sd.fw, NoImage} \cup {l.img : l \in Queued}
    /\ \/ mem'.ram \in {mem.ram, NoImage}
       \/ mem'.ram = sd.fw /\ \E l \in Queued : l.cmd = "m4_load"
    /\ mem'.tcm \in {mem.tcm, mem.ram, NoImage}
    /\ \/ m4' = m4
       \/ m4.state # "none" /\ m4'.img = m4.img
       \/ m4'.img = mem.tcm /\ mem.tcm # NoImage
    /\ screen'.json \in {screen.json, m4}
    /\ \/ screen'.sha \subseteq screen.sha
       \/ screen'.sha \subseteq screen.sha \cup {sd.fw} /\ sd' = sd

\* The bench reads the queue from its front and adds nothing.
Taken == Queued' \subseteq Queued /\ (InOrder => InOrder')

\* All a step of the bench does to what the invariants speak of.
BenchMoves == Taken /\ Storage /\ Firmware

\* U-Boot's commands.
LEMMA UbootMoves ==
    ASSUME DataOK, LoadForLinux \/ Booti \/ LoadM4 \/ CopyM4 \/ Bootaux \/ AnswerKey \/ Autoboot
    PROVE  BenchMoves
<1>0. input \in Seq(Lines) /\ screen \in Screens
      /\ mem \in [boot : SUBSET {"image", "dtb", "setenv"}, ram : Slots, tcm : Slots]
  BY DEF DataOK, BoardTypeOK, Lines, Screens
<1> USE DEF OnCard
<1>1. CASE LoadForLinux
  <2>1. PICK c \in {"image", "dtb", "setenv"} :
           /\ Reads(c)
           /\ mem' = [mem EXCEPT !.boot = @ \cup {c}]
           /\ screen' = IF c = "setenv" THEN screen ELSE With({"loaded"}, screen)
    BY <1>1 DEF LoadForLinux
  <2>2. Taken
    BY <1>0, <2>1, ReadsQueue DEF Taken
  <2>3. /\ screen'.json = screen.json /\ screen'.sha = screen.sha
        /\ "sdroot" \in screen'.seen => "sdroot" \in screen.seen
    BY <1>0, <2>1, WithShows
  <2> QED
    BY <1>0, <1>1, <2>1, <2>2, <2>3 DEF LoadForLinux, BenchMoves, Storage, Firmware
<1>2. CASE Booti
  <2>1. Taken
    BY <1>0, <1>2, ReadsQueue DEF Taken, Booti
  <2> QED
    BY <1>0, <1>2, <2>1 DEF Booti, BenchMoves, Storage, Firmware, consoleVars
<1>3. CASE LoadM4
  <2>1. Taken /\ \E l \in Queued : l.cmd = "m4_load"
    BY <1>0, <1>3, ReadsQueue DEF Taken, LoadM4
  <2>2. /\ screen'.json = screen.json /\ screen'.sha = screen.sha
        /\ "sdroot" \in screen'.seen => "sdroot" \in screen.seen
    BY <1>0, <1>3, WithShows DEF LoadM4
  <2> QED
    BY <1>0, <1>3, <2>1, <2>2 DEF LoadM4, BenchMoves, Storage, Firmware
<1>4. CASE CopyM4
  <2>1. Taken
    BY <1>0, <1>4, ReadsQueue DEF Taken, CopyM4
  <2> QED
    BY <1>0, <1>4, <2>1 DEF CopyM4, BenchMoves, Storage, Firmware, consoleVars
<1>5. CASE Bootaux
  <2>1. Taken
    BY <1>0, <1>5, ReadsQueue DEF Taken, Bootaux
  <2>2. screen'.json = screen.json /\ screen'.sha = screen.sha /\ screen'.seen = screen.seen
    BY <1>0, <1>5 DEF Bootaux, Screens
  <2> QED
    BY <1>0, <1>5, <2>1, <2>2 DEF Bootaux, BenchMoves, Storage, Firmware
<1>6. CASE AnswerKey
  <2>1. Taken
    BY <1>6, SameQueue DEF Taken, AnswerKey
  <2>2. /\ screen'.json = screen.json /\ screen'.sha = screen.sha
        /\ "sdroot" \in screen'.seen => "sdroot" \in screen.seen
    BY <1>0, <1>6, WithShows DEF AnswerKey
  <2> QED
    BY <1>6, <2>1, <2>2 DEF AnswerKey, BenchMoves, Storage, Firmware
<1>7. CASE Autoboot
  <2>1. Taken
    BY <1>7, SameQueue DEF Taken, Autoboot
  <2> QED
    BY <1>7, <2>1 DEF Autoboot, BenchMoves, Storage, Firmware, consoleVars
<1> QED
  BY <1>1, <1>2, <1>3, <1>4, <1>5, <1>6, <1>7

\* Linux, the M4 and the probe.
LEMMA LinuxMoves ==
    ASSUME DataOK, \/ M4Complete \/ Welcome \/ SdUp \/ EmmcUp \/ LoginRoot \/ ShellPrint
                   \/ Umount \/ ShellWrite \/ RunReader \/ Reboot \/ Enumerate
    PROVE  BenchMoves
<1>0. /\ input \in Seq(Lines) /\ screen \in Screens /\ m4 \in Results
      /\ mem \in [boot : SUBSET {"image", "dtb", "setenv"}, ram : Slots, tcm : Slots]
      /\ sd \in [fw : Slots, source : BOOLEAN, reader : BOOLEAN, marker : BOOLEAN, dirty : BOOLEAN]
      /\ touched \in [root : SUBSET {"sd_login", "emmc_login"}, emmc : BOOLEAN]
  BY DEF DataOK, BoardTypeOK, Lines, Screens
<1> USE DEF OnCard
<1>1. CASE M4Complete
  <2>1. m4'.img = m4.img /\ m4.state # "none"
    BY <1>0, <1>1 DEF M4Complete, Results
  <2>2. Taken
    BY <1>1, SameQueue DEF Taken, M4Complete
  <2> QED
    BY <1>1, <2>1, <2>2 DEF M4Complete, BenchMoves, Storage, Firmware, consoleVars
<1>2. CASE Welcome \/ SdUp \/ EmmcUp
  <2>1. Taken
    BY <1>2, SameQueue DEF Taken, Welcome, SdUp, EmmcUp, boardVars
  <2>2. /\ screen'.json = screen.json /\ screen'.sha = screen.sha
        /\ "sdroot" \in screen'.seen => "sdroot" \in screen.seen
    BY <1>0, <1>2, WithShows DEF Welcome, SdUp, EmmcUp
  <2> QED
    BY <1>2, <2>1, <2>2 DEF Welcome, SdUp, EmmcUp, BenchMoves, Storage, Firmware, boardVars
<1>3. CASE LoginRoot
  <2>1. Taken
    BY <1>0, <1>3, ReadsQueue DEF Taken, LoginRoot
  <2>2. /\ screen'.json = screen.json /\ screen'.sha = screen.sha
        /\ "sdroot" \in screen'.seen => "sdroot" \in screen.seen
    BY <1>0, <1>3, WithShows DEF LoginRoot
  <2>3. touched'.emmc = touched.emmc
    BY <1>0, <1>3 DEF LoginRoot
  <2> QED
    BY <1>3, <2>1, <2>2, <2>3 DEF LoginRoot, BenchMoves, Storage, Firmware
<1>4. CASE ShellPrint
  <2>1. Taken
    BY <1>0, <1>4, ReadsQueue DEF Taken, ShellPrint
  <2>2. /\ screen'.json = screen.json
        /\ screen'.sha \subseteq screen.sha \cup {sd.fw}
        /\ "sdroot" \in screen'.seen => "sdroot" \in screen.seen \/ os = "sd_shell"
    <3>1. CASE Reads("sha")
      <4>1. screen' = screen \/ screen' = [screen EXCEPT !.sha = @ \cup ({sd.fw} \ {NoImage})]
        BY <1>4, <3>1 DEF ShellPrint, Reads
      <4> QED
        BY <1>0, <4>1 DEF Screens
    <3>2. CASE ~Reads("sha")
      BY <1>0, <1>4, <3>2, WithShows DEF ShellPrint
    <3> QED
      BY <3>1, <3>2
  <2> QED
    BY <1>4, <2>1, <2>2 DEF ShellPrint, BenchMoves, Storage, Firmware
<1>5. CASE Umount
  <2>1. Taken
    BY <1>0, <1>5, ReadsQueue DEF Taken, Umount
  <2> QED
    BY <1>5, <2>1 DEF Umount, BenchMoves, Storage, Firmware, consoleVars
<1>6. CASE ShellWrite
  <2>1. Taken /\ Head(input) \in Queued /\ Head(input).cmd \in Writes \cup {"transfer"}
    BY <1>0, <1>6, ReadsQueue DEF Taken, ShellWrite, Writes
  <2>2. /\ screen'.json = screen.json /\ screen'.sha = screen.sha
        /\ "sdroot" \in screen'.seen => "sdroot" \in screen.seen
    <3>1. \/ screen' = screen
          \/ screen' = With(IF sd.source THEN {"compiled"} ELSE {}, screen)
          \/ screen' = With(IF sd.marker THEN {"reader_sha"} ELSE {}, screen)
      BY <1>6 DEF ShellWrite
    <3> QED
      BY <1>0, <3>1, WithShows
  <2>3. sd'.fw \in {sd.fw, NoImage} \cup {l.img : l \in Queued}
    <3>1. \/ \E i \in {Head(input).img, NoImage} : sd' = [sd EXCEPT !.fw = i, !.dirty = TRUE]
          \/ \E ok \in BOOLEAN : sd' = [sd EXCEPT !.source = ok, !.dirty = TRUE]
          \/ sd' = [sd EXCEPT !.reader = sd.source \/ sd.reader, !.dirty = TRUE]
          \/ sd' = [sd EXCEPT !.marker = TRUE, !.dirty = TRUE]
          \/ sd' = sd
      <4>1. CASE \E i \in Slots : /\ Reads("transfer") /\ i \in {Head(input).img, NoImage}
                                 /\ sd' = [sd EXCEPT !.fw = i, !.dirty = TRUE]
        BY <4>1
      <4> QED
        BY <1>6, <4>1, Zenon DEF ShellWrite
    <3>2. CASE \E i \in {Head(input).img, NoImage} : sd' = [sd EXCEPT !.fw = i, !.dirty = TRUE]
      BY <1>0, <2>1, <3>2
    <3> QED
      BY <1>0, <3>1, <3>2
  <2>4. touched'.emmc => touched.emmc \/ (os = "emmc_shell" /\ Head(input).cmd # "transfer")
    BY <1>0, <1>6 DEF ShellWrite
  <2> QED
    BY <1>6, <2>1, <2>2, <2>3, <2>4 DEF ShellWrite, BenchMoves, Storage, Firmware
<1>7. CASE RunReader
  <2>1. Taken
    BY <1>0, <1>7, ReadsQueue DEF Taken, RunReader
  <2>2. /\ screen'.json \in {screen.json, m4} /\ screen'.sha = screen.sha
        /\ "sdroot" \in screen'.seen => "sdroot" \in screen.seen
    BY <1>0, <1>7 DEF RunReader, Screens
  <2> QED
    BY <1>7, <2>1, <2>2 DEF RunReader, BenchMoves, Storage, Firmware
<1>8. CASE Reboot
  <2>1. /\ Taken /\ \E l \in Queued : l.cmd = "reboot"
        /\ InOrder => \A l \in Queued' : l.cmd \notin Writes
    BY <1>0, <1>8, ReadsQueue DEF Taken, Reboot
  <2>2. sd'.fw = sd.fw /\ mem'.ram = NoImage /\ mem'.tcm = NoImage
    BY <1>0, <1>8 DEF Reboot, BlankMem
  <2> QED
    BY <1>8, <2>1, <2>2 DEF Reboot, BenchMoves, Storage, Firmware, Shells, consoleVars
<1>9. CASE Enumerate
  <2>1. Taken
    BY <1>9, SameQueue DEF Taken, Enumerate, boardVars
  <2> QED
    BY <1>9, <2>1 DEF Enumerate, BenchMoves, Storage, Firmware, boardVars
<1> QED
  BY <1>1, <1>2, <1>3, <1>4, <1>5, <1>6, <1>7, <1>8, <1>9

\* Every fault.
LEMMA FaultMoves ==
    ASSUME DataOK, FaultStep
    PROVE  BenchMoves
<1>0. /\ input \in Seq(Lines)
      /\ mem \in [boot : SUBSET {"image", "dtb", "setenv"}, ram : Slots, tcm : Slots]
  BY DEF DataOK, BoardTypeOK, Lines
<1> USE DEF OnCard
<1>1. Taken
  BY <1>0, SameQueue, NoQueue, TailQueue
     DEF FaultStep, Hang, AbortReset, LineLost, ProbeDrop, ProbeWedge, boardVars, Taken
<1> QED
  BY <1>0, <1>1 DEF FaultStep, Hang, AbortReset, LineLost, ProbeDrop, ProbeWedge, Alive,
     Shells, Booting, boardVars, consoleVars, BenchMoves, Storage, Firmware

\* The bench's own steps, the runner waiting.
LEMMA BenchKeepsEmmc ==
    ASSUME EmmcInv, BenchMoves, UNCHANGED <<pc, phase>>
    PROVE  EmmcInv'
<1> USE DEF EmmcInv, BenchMoves, Taken, Storage, NoEmmcWrite
<1>1. phase = 1 /\ pc \in BeforeReboot => (OnCard => OnCard')
  OBVIOUS
<1>2. /\ ~power' => os' = "off"
      /\ InOrder'
      /\ \A l \in Queued' : l.cmd \in Writes => OnCard'
      /\ phase' = 1 /\ pc' \in BeforeReboot => \A l \in Queued' : l.cmd # "reboot"
      /\ pc' \in TransferPcs \cup ReaderPcs => phase' = 1
      /\ ~touched'.emmc
  OBVIOUS
<1>3. phase' = 1 /\ pc' \in OnCardPcs => OnCard'
  BY <1>1 DEF OnCardPcs, BeforeReboot
<1>4. phase' = 1 /\ pc' = "findmnt_check" /\ "sdroot" \in screen'.seen => OnCard'
  BY <1>1 DEF Seen, BeforeReboot, SafetyPcs
<1> QED
  BY <1>2, <1>3, <1>4 DEF Seen

\* Nothing the bench does on its own brings an image of another run in.
LEMMA BenchKeepsBuild ==
    ASSUME BuildInv, DataOK, BenchMoves, UNCHANGED runVars
    PROVE  BuildInv'
<1> USE DEF BuildInv, BenchMoves, Taken, Firmware, runVars
<1>0. m4.state # "none" => m4.state \in {"running", "complete"}
  BY DEF DataOK, BoardTypeOK, Results
<1>1. ASSUME pc \in SequencePcs \ {"acquire"}
      PROVE  /\ \A l \in Queued' : l.img = built
             /\ mem'.ram \in {built, NoImage} /\ mem'.tcm \in {built, NoImage}
             /\ Own(m4)'
             /\ Verified \/ (\E l \in Queued' : l.cmd = "m4_load") => OwnOnCard'
  BY <1>1 DEF Own, OwnOnCard, Verified
<1>2. ASSUME pc \in SequencePcs \ {"acquire", "power_on"}
      PROVE  Own(screen.json)' /\ (built \in screen'.sha => OwnOnCard')
  <2>1. Own(screen.json)'
    BY <1>2 DEF Own
  <2>2. built \in screen.sha => OwnOnCard'
    BY <1>2 DEF OwnOnCard
  <2> QED
    BY <1>2, <2>1, <2>2 DEF OwnOnCard
<1> QED
  BY <1>1, <1>2 DEF Verified, Own, OwnOnCard, PassMeansThisBuildRan

----------------------------------------------------------------------------
(* What the runner types and reads *)

\* A statement that types line `c' over the screen `base'.
Types(at, c, base, next) ==
    /\ {at, next} \subseteq ConsolePcs /\ next # "catch"
    /\ c \in Commands /\ base \in {BlankScreen, screen}
    /\ next \in BeforeReboot => at \in BeforeReboot /\ c # "reboot"
    /\ next \in OnCardPcs => at \in OnCardPcs
    /\ next = "findmnt_check" => base = BlankScreen
    /\ c \in Writes => at \in ReaderPcs
    /\ next \in TransferPcs \cup ReaderPcs => at \in TransferPcs \cup ReaderPcs
    /\ next \in ReaderPcs \cup M4Pcs => at \in ReaderPcs \cup M4Pcs
    /\ c = "m4_load" => at \in M4Pcs

\* A statement that goes on with what it finds on the screen.
GoesOn(l) ==
    /\ {pc, l} \subseteq ConsolePcs /\ l \notin {"catch", "findmnt_check"}
    /\ l \in BeforeReboot => pc \in BeforeReboot
    /\ l \in OnCardPcs => pc \in OnCardPcs \/ (pc = "findmnt_check" /\ Seen("sdroot"))
    /\ l \in TransferPcs \cup ReaderPcs => pc \in TransferPcs \cup ReaderPcs \/ phase = 1
    /\ l \in ReaderPcs \cup M4Pcs => pc \in ReaderPcs \cup M4Pcs \/ ShaMatches
    /\ Goto(l)
    /\ UNCHANGED envVars

\* A statement that raises.
LEMMA StopKeeps ==
    ASSUME DataOK, RecoveryInv, EmmcInv, BuildInv, NEW e \in Exceptions, Raise(e),
           pc \notin {"finally", "exited"}, UNCHANGED envVars
    PROVE  EmmcInv' /\ BuildInv'
<1>1. /\ pc' \in {"retry", "finally"} /\ phase' = phase /\ built' = built
      /\ out'.result # "PASS"
      /\ pc' = "retry" => pc \in SequencePcs
  BY DEF Raise, Retried, RecoveryInv, VerdictLast, Exceptions, ResultName, DataOK, Reports
<1>2. Queued' = Queued /\ (InOrder => InOrder') /\ UNCHANGED <<power, os, screen, touched>>
  BY SameQueue DEF envVars, boardVars, consoleVars
<1>3. EmmcInv'
  BY <1>1, <1>2 DEF EmmcInv, NoEmmcWrite, OnCard, BeforeReboot, OnCardPcs, AcquirePcs, ResumePcs,
     LoginPcs, SafetyPcs, TransferPcs, ReaderPcs
<1>4. BuildInv'
  BY <1>1 DEF BuildInv, PassMeansThisBuildRan, SequencePcs, AcquirePcs, ResumePcs, LoginPcs,
     SafetyPcs, TransferPcs, ReaderPcs, M4Pcs, CollectPcs
<1> QED
  BY <1>3, <1>4

\* A typed line.
LEMMA TypingKeeps ==
    ASSUME DataOK, RecoveryInv, EmmcInv, BuildInv,
           NEW at, NEW c, NEW base, NEW next, Types(at, c, base, next), Send(at, c, base, next)
    PROVE  EmmcInv' /\ BuildInv'
<1>0. /\ pc = at /\ pc \notin {"finally", "exited"}
      /\ input \in Seq(Lines) /\ built \in Slots /\ base \in Screens
  BY BlankIsScreen DEF Types, Send, ConsolePcs, SequencePcs, AcquirePcs, ResumePcs, LoginPcs, SafetyPcs,
     TransferPcs, ReaderPcs, M4Pcs, CollectPcs, DataOK, BoardTypeOK, Lines, Screens
<1>1. CASE link = "dead"
  <2>1. Raise("Other") /\ UNCHANGED envVars /\ "Other" \in Exceptions
    BY <1>1 DEF Send, Exceptions, envVars, boardVars, consoleVars
  <2> QED
    BY <1>0, <2>1, StopKeeps
<1>2. CASE link # "dead"
  <2>1. /\ Goto(next) /\ input' = Typed(c, built) /\ screen' = Echo(c, base)
        /\ UNCHANGED <<power, os, mem, m4, sd, emmc, touched, probe, link, faults>>
    BY <1>2 DEF Send
  <2>2. /\ Queued' \subseteq Queued \cup {[cmd |-> c, img |-> built]}
        /\ os \notin Alive => Queued' = Queued
        /\ InOrder /\ (c \in Writes => \A l \in Queued : l.cmd # "reboot") => InOrder'
    BY <1>0, <2>1, TypedQueue DEF Types
  <2>3. /\ screen'.json = base.json /\ screen'.sha = base.sha
        /\ "sdroot" \in screen'.seen => "sdroot" \in base.seen
    BY <1>0, <2>1, EchoShows
  <2>4. base = screen \/ (base.seen = {} /\ base.sha = {} /\ base.json.state = "none")
    BY DEF Types, BlankScreen, NoResult
  <2>5. c \in Writes => OnCard /\ \A l \in Queued : l.cmd # "reboot"
    BY <1>0 DEF Types, EmmcInv, ReaderPcs, BeforeReboot, OnCardPcs
  <2>6. EmmcInv'
    <3>1. InOrder' /\ (~power' => os' = "off") /\ ~touched'.emmc
      BY <2>1, <2>2, <2>5 DEF EmmcInv, NoEmmcWrite
    <3>2. \A l \in Queued' : l.cmd \in Writes => OnCard'
      BY <2>1, <2>2, <2>5 DEF EmmcInv, OnCard
    <3>3. phase' = 1 /\ pc' \in BeforeReboot => \A l \in Queued' : l.cmd # "reboot"
      BY <1>0, <2>1, <2>2 DEF EmmcInv, Types, Goto
    <3>4. phase' = 1 /\ pc' \in OnCardPcs => OnCard'
      BY <1>0, <2>1 DEF EmmcInv, Types, Goto, OnCard
    <3>5. ~(pc' = "findmnt_check" /\ Seen("sdroot")')
      BY <2>1, <2>3 DEF Types, Goto, Seen, BlankScreen
    <3>6. pc' \in TransferPcs \cup ReaderPcs => phase' = 1
      BY <1>0, <2>1 DEF EmmcInv, Types, Goto
    <3> QED
      BY <3>1, <3>2, <3>3, <3>4, <3>5, <3>6 DEF EmmcInv, NoEmmcWrite
  <2>7. BuildInv'
    <3>0. /\ pc' = next /\ UNCHANGED <<phase, built, out, mem, m4, sd>>
          /\ pc \in ConsolePcs /\ pc' \in ConsolePcs
      BY <1>0, <2>1 DEF Goto, Types
    <3>1. /\ pc \notin {"provenance", "build", "finally", "exited", "validate"}
          /\ pc' \notin {"provenance", "build", "finally", "exited", "validate"}
          /\ pc' \notin AcquirePcs
      BY <3>0 DEF Types, ConsolePcs, SequencePcs, AcquirePcs, ResumePcs, LoginPcs, SafetyPcs,
         TransferPcs, ReaderPcs, M4Pcs, CollectPcs
    <3>2. (\E l \in Queued' : l.cmd = "m4_load") => Verified \/ \E l \in Queued : l.cmd = "m4_load"
      BY <1>0, <2>2 DEF Types, Verified
    <3>3. Verified' => Verified
      BY <1>0, <3>0 DEF Types, Verified
    <3>4. \A l \in Queued' : l.img = built
      BY <2>2, <3>0 DEF BuildInv, ConsolePcs
    <3>5. Own(m4)' /\ Own(screen.json)' /\ (built \in screen'.sha => OwnOnCard')
      BY <2>3, <2>4, <3>0 DEF BuildInv, Own, OwnOnCard, ConsolePcs
    <3> QED
      BY <3>0, <3>1, <3>2, <3>3, <3>4, <3>5 DEF BuildInv, OwnOnCard, PassMeansThisBuildRan, ConsolePcs
  <2> QED
    BY <2>6, <2>7
<1> QED
  BY <1>1, <1>2

\* A look at the screen.
LEMMA LookKeeps ==
    ASSUME DataOK, RecoveryInv, EmmcInv, BuildInv, NEW l, GoesOn(l)
    PROVE  EmmcInv' /\ BuildInv'
<1>1. Queued' = Queued /\ (InOrder => InOrder')
      /\ UNCHANGED <<power, os, screen, touched, mem, m4, sd, phase, built, out>> /\ pc' = l
  BY SameQueue DEF GoesOn, Goto, envVars, boardVars, consoleVars
<1>2. EmmcInv'
  BY <1>1 DEF EmmcInv, GoesOn, NoEmmcWrite, OnCard, Seen
<1>3. BuildInv'
  <2>0. pc \in ConsolePcs /\ pc' \in ConsolePcs
    BY <1>1 DEF GoesOn
  <2>1. /\ pc \notin {"provenance", "build", "finally", "exited", "validate"}
        /\ pc' \notin {"provenance", "build", "finally", "exited", "validate"} \cup AcquirePcs
    BY <1>1, <2>0 DEF GoesOn, ConsolePcs, SequencePcs, AcquirePcs, ResumePcs, LoginPcs, SafetyPcs,
       TransferPcs, ReaderPcs, M4Pcs, CollectPcs
  <2>2. Verified' => OwnOnCard
    BY <1>1, <2>0 DEF BuildInv, Verified, GoesOn, ShaMatches, ConsolePcs
  <2> QED
    BY <1>1, <2>0, <2>1, <2>2 DEF BuildInv, Own, OwnOnCard, PassMeansThisBuildRan, ConsolePcs
<1> QED
  BY <1>2, <1>3

\* Every look: what it finds, and where it goes on.
LEMMA FoundKeeps ==
    ASSUME DataOK, RecoveryInv, EmmcInv, BuildInv, NEW at, NEW ok, NEW l, Found(at, ok, l),
           {at, l} \subseteq ConsolePcs, l \notin {"catch", "findmnt_check"},
           l \in BeforeReboot => at \in BeforeReboot,
           l \in OnCardPcs => at \in OnCardPcs \/ (at = "findmnt_check" /\ Seen("sdroot")),
           l \in TransferPcs \cup ReaderPcs => at \in TransferPcs \cup ReaderPcs \/ phase = 1,
           l \in ReaderPcs \cup M4Pcs => at \in ReaderPcs \cup M4Pcs \/ ShaMatches
    PROVE  EmmcInv' /\ BuildInv'
BY LookKeeps DEF Found, GoesOn

\* A wait that gives up.
LEMMA MissingKeeps ==
    ASSUME DataOK, RecoveryInv, EmmcInv, BuildInv, NEW at \in ConsolePcs, NEW ok,
           NEW e \in Exceptions, Missing(at, ok, e)
    PROVE  EmmcInv' /\ BuildInv'
<1>1. pc \notin {"finally", "exited"}
  BY DEF Missing, ConsolePcs, SequencePcs, AcquirePcs, ResumePcs, LoginPcs, SafetyPcs, TransferPcs,
     ReaderPcs, M4Pcs, CollectPcs
<1> QED
  BY <1>1, StopKeeps DEF Missing

\* Linux's start and login.
LEMMA ResumeBench ==
    ASSUME DataOK, RecoveryInv, EmmcInv, BuildInv, Resume
    PROVE  EmmcInv' /\ BuildInv'
<1> USE DEF ConsolePcs, SequencePcs, AcquirePcs, ResumePcs, LoginPcs, SafetyPcs, TransferPcs,
        ReaderPcs, M4Pcs, CollectPcs, BeforeReboot, OnCardPcs, Exceptions
<1>1. /\ Types("image", "image", BlankScreen, "image_wait")
      /\ Types("dtb", "dtb", BlankScreen, "dtb_wait")
      /\ Types("setenv", "setenv", screen, "booti")
      /\ Types("booti", "booti", BlankScreen, "login_wait")
      /\ Types("login", "root", BlankScreen, "shell_wait")
  BY DEF Types, Commands, Writes
<1>2. CASE LoadImage
  BY <1>1, <1>2, TypingKeeps, FoundKeeps, MissingKeeps DEF LoadImage
<1>3. CASE LoadDtb
  BY <1>1, <1>3, TypingKeeps, FoundKeeps, MissingKeeps DEF LoadDtb
<1>4. CASE BootLinux
  BY <1>1, <1>4, TypingKeeps DEF BootLinux
<1>5. CASE CheckBanner
  <2>1. CASE Goto("login")
    BY <1>5, <2>1, LookKeeps DEF CheckBanner, GoesOn
  <2>2. CASE Raise("InfrastructureError")
    BY <1>5, <2>2, StopKeeps DEF CheckBanner
  <2> QED
    BY <1>5, <2>1, <2>2 DEF CheckBanner
<1>6. CASE Missing("login_wait", Seen("login"), "RecoveryRequired")
  BY <1>6, MissingKeeps
<1>7. CASE Login
  BY <1>1, <1>7, TypingKeeps, FoundKeeps, MissingKeeps DEF Login
<1> QED
  BY <1>2, <1>3, <1>4, <1>5, <1>6, <1>7 DEF Resume, WaitForLinux

\* The storage check.
LEMMA SafetyBench ==
    ASSUME DataOK, RecoveryInv, EmmcInv, BuildInv, Safety
    PROVE  EmmcInv' /\ BuildInv'
<1> USE DEF ConsolePcs, SequencePcs, AcquirePcs, ResumePcs, LoginPcs, SafetyPcs, TransferPcs,
        ReaderPcs, M4Pcs, CollectPcs, BeforeReboot, OnCardPcs, Exceptions
<1>1. /\ Types("findmnt", "findmnt", BlankScreen, "findmnt_check")
      /\ Types("mounts", "mounts", BlankScreen, "mounts_check")
      /\ Types("umount", "umount", BlankScreen, "recheck")
      /\ Types("recheck", "mounts", BlankScreen, "recheck_check")
  BY DEF Types, Commands, Writes
<1>2. CASE CheckSdRoot
  BY <1>1, <1>2, TypingKeeps, FoundKeeps, MissingKeeps DEF CheckSdRoot, Found
<1>3. CASE CheckMounts
  BY <1>1, <1>3, TypingKeeps, FoundKeeps DEF CheckMounts
<1>4. CASE UmountEmmc
  BY <1>1, <1>4, TypingKeeps DEF UmountEmmc
<1>5. CASE Recheck
  <2>1. CASE Send("recheck", "mounts", BlankScreen, "recheck_check")
    BY <1>1, <2>1, TypingKeeps
  <2>2. CASE Found("recheck_check", ~Seen("emmc") /\ TimeUp, AfterSafety)
    BY <2>2, FoundKeeps DEF AfterSafety
  <2>3. CASE pc = "recheck_check" /\ Raise("InfrastructureError") /\ UNCHANGED envVars
    BY <2>3, StopKeeps
  <2> QED
    BY <1>5, <2>1, <2>2, <2>3 DEF Recheck
<1> QED
  BY <1>2, <1>3, <1>4, <1>5 DEF Safety

\* The transfer and the reader's installation.
LEMMA DeployBench ==
    ASSUME DataOK, RecoveryInv, EmmcInv, BuildInv, Deploy
    PROVE  EmmcInv' /\ BuildInv'
<1> USE DEF ConsolePcs, SequencePcs, AcquirePcs, ResumePcs, LoginPcs, SafetyPcs, TransferPcs,
        ReaderPcs, M4Pcs, CollectPcs, BeforeReboot, OnCardPcs, Exceptions
<1>1. /\ Types("sha", "sha", BlankScreen, "sha_check")
      /\ Types("transfer", "transfer", BlankScreen, "verify")
      /\ Types("verify", "sha", BlankScreen, "verify_wait")
      /\ Types("marker", "marker", BlankScreen, "marker_check")
      /\ Types("source", "source", BlankScreen, "compile")
      /\ Types("compile", "compile", BlankScreen, "compile_wait")
      /\ Types("mark", "mark", screen, "reboot")
  BY DEF Types, Commands, Writes
<1>2. CASE CheckPresent
  <2>1. CASE Found("sha_check", ShaMatches, "marker")
    BY <2>1, FoundKeeps DEF Found
  <2>2. CASE Found("sha_check", ~ShaMatches /\ TimeUp, "transfer")
    BY <2>2, FoundKeeps
  <2> QED
    BY <1>1, <1>2, <2>1, <2>2, TypingKeeps DEF CheckPresent
<1>3. CASE Transfer \/ SendSource \/ MarkReader
  BY <1>1, <1>3, TypingKeeps DEF Transfer, SendSource, MarkReader
<1>4. CASE VerifyTransfer
  <2>1. CASE Found("verify_wait", ShaMatches, "marker")
    BY <2>1, FoundKeeps DEF Found
  <2> QED
    BY <1>1, <1>4, <2>1, TypingKeeps, MissingKeeps DEF VerifyTransfer
<1>5. CASE CheckReader
  BY <1>1, <1>5, TypingKeeps, FoundKeeps DEF CheckReader
<1>6. CASE CompileReader
  BY <1>1, <1>6, TypingKeeps, FoundKeeps, MissingKeeps DEF CompileReader
<1> QED
  BY <1>2, <1>3, <1>4, <1>5, <1>6 DEF Deploy

\* The M4's start, the collection and the validation.
LEMMA MeasureBench ==
    ASSUME DataOK, RecoveryInv, EmmcInv, BuildInv, Measure
    PROVE  EmmcInv' /\ BuildInv'
<1> USE DEF ConsolePcs, SequencePcs, AcquirePcs, ResumePcs, LoginPcs, SafetyPcs, TransferPcs,
        ReaderPcs, M4Pcs, CollectPcs, BeforeReboot, OnCardPcs, Exceptions
<1>1. /\ Types("reboot", "reboot", BlankScreen, "reboot_catch")
      /\ Types("m4_load", "m4_load", BlankScreen, "m4_check")
      /\ Types("m4_copy", "m4_copy", screen, "bootaux")
      /\ Types("bootaux", "bootaux", BlankScreen, "bootaux_check")
      /\ Types("begin", "begin", BlankScreen, "reader")
      /\ Types("reader", "reader", screen, "end")
      /\ Types("end", "end", screen, "collect")
  BY DEF Types, Commands, Writes
<1>2. CASE EnterUboot
  BY <1>1, <1>2, TypingKeeps, FoundKeeps, MissingKeeps DEF EnterUboot
<1>3. CASE LoadFirmware
  BY <1>1, <1>3, TypingKeeps, FoundKeeps, MissingKeeps DEF LoadFirmware
<1>4. CASE CopyFirmware \/ StartM4 \/ AskResult
  BY <1>1, <1>4, TypingKeeps DEF CopyFirmware, StartM4, AskResult
<1>5. CASE CheckStart
  <2>1. CASE \E e \in Exceptions : Raise(e)
    BY <1>5, <2>1, StopKeeps DEF CheckStart
  <2>2. CASE pc' = "image" /\ phase' = 2 /\ UNCHANGED <<built, out>>
    <3>1. pc = "bootaux_check" /\ UNCHANGED envVars /\ Queued' = Queued /\ (InOrder => InOrder')
      BY <1>5, SameQueue DEF CheckStart, envVars, boardVars
    <3>2. UNCHANGED <<power, os, screen, touched, mem, m4, sd>>
      BY <3>1 DEF envVars, boardVars, consoleVars
    <3>3. EmmcInv'
      BY <2>2, <3>1, <3>2 DEF EmmcInv, NoEmmcWrite, OnCard
    <3>4. BuildInv'
      BY <2>2, <3>1, <3>2 DEF BuildInv, Own, OwnOnCard, Verified, PassMeansThisBuildRan
    <3> QED
      BY <3>3, <3>4
  <2> QED
    BY <1>5, <2>1, <2>2 DEF CheckStart
<1>6. CASE ParseResult
  <2>1. CASE Raise("InfrastructureError")
    BY <1>6, <2>1, StopKeeps DEF ParseResult
  <2>2. CASE /\ pc' = "validate"
             /\ out' = [out EXCEPT !.bench = screen.json, !.fields = @ \cup {"benchmark"}]
             /\ UNCHANGED <<phase, built>>
    <3>1. pc = "collect" /\ UNCHANGED envVars /\ Queued' = Queued /\ (InOrder => InOrder')
      BY <1>6, SameQueue DEF ParseResult, envVars, boardVars
    <3>2. UNCHANGED <<power, os, screen, touched, mem, m4, sd>>
      BY <3>1 DEF envVars, boardVars, consoleVars
    <3>3. EmmcInv'
      BY <2>2, <3>1, <3>2 DEF EmmcInv, NoEmmcWrite, OnCard
    <3>4. out'.bench = screen.json /\ out'.result = "UNKNOWN"
      BY <2>2, <3>1 DEF DataOK, Reports, RecoveryInv, VerdictLast
    <3>5. BuildInv'
      BY <2>2, <3>1, <3>2, <3>4 DEF BuildInv, Own, PassMeansThisBuildRan
    <3> QED
      BY <3>3, <3>5
  <2> QED
    BY <1>6, <2>1, <2>2 DEF ParseResult
<1>7. CASE Missing("collect", Seen("end"), "InfrastructureError")
  BY <1>7, MissingKeeps
<1>8. CASE Validate
  <2>1. CASE Raise("TestFailure")
    BY <1>8, <2>1, StopKeeps DEF Validate
  <2>2. CASE /\ out.bench.state = "complete"
             /\ pc' = "finally"
             /\ out' = [out EXCEPT !.result = "PASS", !.exit = 0]
             /\ UNCHANGED <<phase, built>>
    <3>1. pc = "validate" /\ UNCHANGED envVars /\ Queued' = Queued /\ (InOrder => InOrder')
      BY <1>8, SameQueue DEF Validate, envVars, boardVars
    <3>2. UNCHANGED <<power, os, screen, touched, mem, m4, sd>>
      BY <3>1 DEF envVars, boardVars, consoleVars
    <3>3. EmmcInv'
      BY <2>2, <3>1, <3>2 DEF EmmcInv, NoEmmcWrite, OnCard
    <3>4. out'.bench = out.bench
      BY <2>2 DEF DataOK, Reports
    <3>5. BuildInv'
      BY <2>2, <3>1, <3>2, <3>4 DEF BuildInv, Own, PassMeansThisBuildRan
    <3> QED
      BY <3>3, <3>5
  <2> QED
    BY <1>8, <2>1, <2>2 DEF Validate
<1> QED
  BY <1>2, <1>3, <1>4, <1>5, <1>6, <1>7, <1>8 DEF Measure, CollectResult

\* The relay, and the wait for U-Boot.
LEMMA AcquireBench ==
    ASSUME DataOK, RecoveryInv, EmmcInv, BuildInv, Acquire
    PROVE  EmmcInv' /\ BuildInv'
<1> USE DEF ConsolePcs, SequencePcs, AcquirePcs, ResumePcs, LoginPcs, SafetyPcs, TransferPcs,
        ReaderPcs, M4Pcs, CollectPcs, BeforeReboot, OnCardPcs, Exceptions
<1>1. CASE PowerOff
  <2>1. CASE CutPower
    <3>1. /\ ~power' /\ os' = "off" /\ Queued' = {} /\ InOrder' /\ mem' = BlankMem /\ m4' = NoResult
          /\ UNCHANGED <<touched, screen>>
      BY <1>1, <2>1, NoQueue DEF CutPower, PowerOff, consoleVars
    <3>2. CASE pc' = "power_on" /\ UNCHANGED <<phase, built, out>>
      <4>1. EmmcInv'
        BY <3>1, <3>2 DEF EmmcInv, NoEmmcWrite
      <4>2. Own(m4)' /\ ~Verified'
        BY <1>1, <3>1, <3>2 DEF Own, NoResult, Verified, BuildInv, PowerOff
      <4>3. BuildInv'
        BY <1>1, <3>1, <3>2, <4>2 DEF BuildInv, BlankMem, PassMeansThisBuildRan, PowerOff
      <4> QED
        BY <4>1, <4>3
    <3>3. CASE Raise("Other")
      <4>1. pc' = "finally" /\ phase' = phase /\ built' = built /\ out'.result # "PASS"
        BY <3>3 DEF Raise, Retried, DataOK, Reports, ResultName
      <4> QED
        BY <3>1, <4>1 DEF EmmcInv, NoEmmcWrite, BuildInv, PassMeansThisBuildRan
    <3> QED
      BY <1>1, <3>2, <3>3 DEF PowerOff
  <2>2. CASE Raise("Other") /\ UNCHANGED <<boardVars, consoleVars>>
    <3>1. pc = "acquire" /\ pc' = "finally" /\ phase' = phase /\ built' = built /\ out'.result # "PASS"
      BY <1>1, <2>2 DEF Raise, Retried, DataOK, Reports, ResultName, PowerOff
    <3>2. Queued' = Queued /\ (InOrder => InOrder') /\ UNCHANGED <<power, os, screen, touched>>
      BY <2>2, SameQueue DEF boardVars, consoleVars
    <3> QED
      BY <3>1, <3>2 DEF EmmcInv, NoEmmcWrite, OnCard, BuildInv, PassMeansThisBuildRan
  <2> QED
    BY <1>1, <2>1, <2>2 DEF PowerOff
<1>2. CASE PowerOn
  <2>1. /\ pc = "power_on" /\ Queued' = Queued /\ (InOrder => InOrder')
        /\ UNCHANGED <<mem, m4, sd, touched>>
        /\ \/ power' /\ os' = IF power THEN os ELSE "countdown"
           \/ UNCHANGED <<power, os>>
    BY <1>2, SameQueue DEF PowerOn, RestorePower, boardVars
  <2>2. (\A l \in Queued : l.cmd \in Writes => OnCard') /\ (~power' => os' = "off")
    BY <2>1 DEF EmmcInv, OnCard
  <2>3. CASE Goto("catch") /\ screen' = BlankScreen
    <3>1. EmmcInv'
      BY <2>1, <2>2, <2>3 DEF EmmcInv, NoEmmcWrite, Goto
    <3>2. Own(screen.json)' /\ built' \notin screen'.sha
      BY <2>3 DEF BlankScreen, NoResult, Own
    <3>3. BuildInv'
      BY <2>1, <2>3, <3>2 DEF BuildInv, Own, OwnOnCard, Verified, Goto, PassMeansThisBuildRan
    <3> QED
      BY <3>1, <3>3
  <2>4. CASE Raise("Other")
    <3>1. pc' = "finally" /\ phase' = phase /\ built' = built /\ out'.result # "PASS"
      BY <2>4 DEF Raise, Retried, DataOK, Reports, ResultName
    <3> QED
      BY <2>1, <2>2, <3>1 DEF EmmcInv, NoEmmcWrite, BuildInv, PassMeansThisBuildRan
  <2> QED
    BY <1>2, <2>3, <2>4 DEF PowerOn
<1>3. CASE Catch
  <2>1. CASE Found("catch", Seen("prompt"), "image")
    BY <2>1, FoundKeeps
  <2>2. CASE Raise("RecoveryRequired") /\ pc = "catch" /\ UNCHANGED envVars
    BY <2>2, StopKeeps
  <2>3. CASE pc = "catch" /\ Goto("acquire") /\ UNCHANGED envVars
    <3>1. Queued' = Queued /\ (InOrder => InOrder') /\ UNCHANGED <<power, os, screen, touched>>
      BY <2>3, SameQueue DEF envVars, boardVars, consoleVars
    <3> QED
      BY <2>3, <3>1 DEF EmmcInv, NoEmmcWrite, OnCard, BuildInv, PassMeansThisBuildRan, Goto
  <2> QED
    BY <1>3, <2>1, <2>2, <2>3 DEF Catch
<1>4. CASE CatchBroken
  BY <1>4, StopKeeps DEF CatchBroken, CatchPcs
<1> QED
  BY <1>1, <1>2, <1>3, <1>4 DEF Acquire

\* Before the sequence, between the two, and at the end: nothing is known of
\* the bench there, and nothing is done to it but to the probe.
LEMMA OutsideKeeps ==
    ASSUME EmmcInv, BuildInv, Queued' = Queued, InOrder => InOrder', UNCHANGED <<power, os>>,
           touched'.emmc => touched.emmc,
           pc' \notin BeforeReboot \cup (SequencePcs \ {"acquire"}) \cup {"validate"},
           pc' = "acquire" => phase' = 1,
           pc' \notin {"provenance", "build", "finally", "exited"} => built' \in Images,
           PassMeansThisBuildRan'
    PROVE  EmmcInv' /\ BuildInv'
<1> USE DEF SequencePcs, AcquirePcs, ResumePcs, LoginPcs, SafetyPcs, TransferPcs,
        ReaderPcs, M4Pcs, CollectPcs, BeforeReboot, OnCardPcs
<1>1. EmmcInv'
  BY DEF EmmcInv, NoEmmcWrite, OnCard
<1>2. BuildInv'
  BY DEF BuildInv
<1> QED
  BY <1>1, <1>2

\* The statements outside a try leave both invariants alone.
LEMMA OutsideBench ==
    ASSUME DataOK, RecoveryInv, EmmcInv, BuildInv, Prepare \/ Retry \/ Finally \/ Interrupt \/ NextRun
    PROVE  EmmcInv' /\ BuildInv'
<1> USE DEF SequencePcs, AcquirePcs, ResumePcs, LoginPcs, SafetyPcs, TransferPcs,
        ReaderPcs, M4Pcs, CollectPcs, BeforeReboot, Exceptions
<1>1. Queued' = Queued /\ (InOrder => InOrder')
  BY SameQueue DEF Prepare, Provenance, Build, ReadElf, Discover, HubOff, HubOn, Poll, OpenLink,
     Retry, Finally, Interrupt, NextRun, envVars, boardVars
<1>2. UNCHANGED <<power, os>> /\ (touched'.emmc => touched.emmc)
  BY DEF Prepare, Provenance, Build, ReadElf, Discover, HubOff, HubOn, Poll, OpenLink,
     Retry, Finally, Interrupt, NextRun, envVars, boardVars
<1>3. ASSUME NEW e \in Exceptions, Raise(e), pc \notin SequencePcs
      PROVE  pc' = "finally" /\ out'.result # "PASS"
  BY <1>3 DEF Raise, Retried, DataOK, Reports, ResultName
<1>4. /\ pc' \notin BeforeReboot \cup (SequencePcs \ {"acquire"}) \cup {"validate"}
      /\ pc' = "acquire" => phase' = 1
      /\ pc' \notin {"provenance", "build", "finally", "exited"} => built' \in Images
  <2>1. CASE Provenance \/ Build \/ ReadElf \/ Discover \/ HubOff
    BY <1>3, <2>1 DEF Provenance, Build, ReadElf, Discover, HubOff, Goto, BuildInv
  <2>2. CASE HubOn \/ Poll
    BY <1>3, <2>2 DEF HubOn, Poll, Goto, BuildInv
  <2>3. CASE OpenLink
    BY <2>3 DEF OpenLink, BuildInv
  <2>4. CASE Retry \/ Finally \/ Interrupt \/ NextRun
    BY <2>4 DEF Retry, Finally, Interrupt, NextRun, StartRun, Goto, BuildInv
  <2> QED
    BY <2>1, <2>2, <2>3, <2>4 DEF Prepare
<1>5. PassMeansThisBuildRan'
  <2>1. CASE Finally
    <3>1. out'.result = out.result /\ out'.bench = out.bench /\ built' = built
      BY <2>1 DEF Finally, DataOK, Reports
    <3> QED
      BY <3>1 DEF BuildInv, PassMeansThisBuildRan
  <2>2. CASE NextRun
    BY <2>2 DEF NextRun, StartRun, FreshOut, PassMeansThisBuildRan
  <2>3. CASE Retry \/ Interrupt
    BY <2>3 DEF Retry, Interrupt, Goto, BuildInv, PassMeansThisBuildRan
  <2>4. CASE Prepare
    <3>1. pc \notin SequencePcs \cup {"finally", "exited"}
      BY <2>4 DEF Prepare, Provenance, Build, ReadElf, Discover, HubOff, HubOn, Poll, OpenLink
    <3>2. out.result = "UNKNOWN"
      BY <3>1 DEF RecoveryInv, VerdictLast
    <3>3. out'.result # "PASS"
      <4>1. CASE \E e \in Exceptions : Raise(e)
        BY <1>3, <3>1, <4>1
      <4>2. CASE Provenance \/ Build
        BY <1>3, <3>1, <3>2, <4>2 DEF Provenance, Build, DataOK, Reports
      <4>3. CASE OpenLink
        BY <3>2, <4>3 DEF OpenLink, DataOK, Reports, ResultName
      <4>4. CASE ReadElf \/ Discover \/ HubOff \/ HubOn \/ Poll
        BY <1>3, <3>1, <3>2, <4>4 DEF ReadElf, Discover, HubOff, HubOn, Poll, Goto
      <4> QED
        BY <2>4, <4>1, <4>2, <4>3, <4>4 DEF Prepare
    <3> QED
      BY <3>3 DEF PassMeansThisBuildRan
  <2> QED
    BY <2>1, <2>2, <2>3, <2>4
<1> QED
  BY <1>1, <1>2, <1>4, <1>5, OutsideKeeps

\* Every step.
LEMMA BenchStep ==
    ASSUME DataOK, RecoveryInv, EmmcInv, BuildInv, [Next]_vars
    PROVE  EmmcInv' /\ BuildInv'
<1>1. CASE RunnerStep
  BY <1>1, ResumeBench, SafetyBench, DeployBench, MeasureBench, AcquireBench, OutsideBench
     DEF RunnerStep
<1>2. CASE CatchKey \/ AutobootWins \/ ((BoardStep \/ FaultStep) /\ UNCHANGED runVars)
  <2>1. BenchMoves /\ UNCHANGED runVars
    BY <1>2, UbootMoves, LinuxMoves, FaultMoves DEF CatchKey, AutobootWins, BoardStep
  <2> QED
    BY <2>1, BenchKeepsEmmc, BenchKeepsBuild DEF runVars
<1>3. CASE Interrupt \/ NextRun
  BY <1>3, OutsideBench
<1>4. CASE UNCHANGED vars
  <2>1. Queued' = Queued /\ (InOrder => InOrder')
    BY <1>4, SameQueue DEF vars, envVars, boardVars
  <2>2. /\ UNCHANGED <<power, os, screen, touched, mem, m4, sd>>
        /\ UNCHANGED <<pc, phase, built, out>>
    BY <1>4 DEF vars, envVars, boardVars, consoleVars, runVars
  <2>3. EmmcInv'
    BY <2>1, <2>2 DEF EmmcInv, NoEmmcWrite, OnCard, Seen
  <2>4. BuildInv'
    BY <2>1, <2>2 DEF BuildInv, Own, OwnOnCard, Verified, PassMeansThisBuildRan
  <2> QED
    BY <2>3, <2>4
<1> QED
  BY <1>1, <1>2, <1>3, <1>4 DEF Next

\* Both invariants hold of a fresh run on a powered board.
LEMMA BenchInit == Init => EmmcInv /\ BuildInv
<1> SUFFICES ASSUME Init PROVE EmmcInv /\ BuildInv
  OBVIOUS
<1>1. input = <<>> /\ power /\ ~touched.emmc /\ pc = "provenance" /\ out.result = "UNKNOWN"
  BY DEF Init, BoardInit, FreshOut
<1>2. 1 .. Len(input) = {}
  BY <1>1, EmptySeq
<1>3. Queued = {} /\ InOrder
  BY <1>2 DEF Queued, InOrder, NoneBehind
<1> QED
  BY <1>1, <1>3 DEF EmmcInv, NoEmmcWrite, BuildInv, PassMeansThisBuildRan, SequencePcs, AcquirePcs,
     ResumePcs, LoginPcs, SafetyPcs, TransferPcs, ReaderPcs, M4Pcs, CollectPcs, BeforeReboot, OnCardPcs

\* The types of the run and of the bench stay with the two invariants.
LEMMA BenchInvariant == Spec => [](DataOK /\ EmmcInv /\ BuildInv)
<1>1. Init => DataOK /\ EmmcInv /\ BuildInv
  BY DataInit, BenchInit
<1>2. DataOK /\ RecoveryInv /\ EmmcInv /\ BuildInv /\ [Next]_vars => (DataOK /\ EmmcInv /\ BuildInv)'
  BY DataStep, BenchStep
<1> QED
  BY <1>1, <1>2, RecoveryInvariant, PTL DEF Spec

\* The factory eMMC is never written, for every image, bound and number of faults.
THEOREM EmmcIsNeverWritten == Spec => []NoEmmcWrite
<1>1. EmmcInv => NoEmmcWrite
  BY DEF EmmcInv
<1> QED
  BY <1>1, BenchInvariant, PTL

\* A PASS is the result of the image this run built.
THEOREM PassIsThisBuild == Spec => []PassMeansThisBuildRan
<1>1. BuildInv => PassMeansThisBuildRan
  BY DEF BuildInv
<1> QED
  BY <1>1, BenchInvariant, PTL

----------------------------------------------------------------------------
(* The relay *)

\* Off and on are two statements, and nothing comes between them but the end of
\* the run, by the relay's own error or from the keyboard.
PowerInv ==
    cycles.board > 0 /\ ~power =>
        \/ pc = "power_on"
        \/ pc \in {"finally", "exited"} /\ out.result \in {"UNKNOWN", ResultName("Other")}

\* Only three statements of a run have to do with power, or come after a verdict.
LEMMA PowerUntouched ==
    ASSUME Prepare \/ Catch \/ CatchBroken \/ Resume \/ Safety \/ Deploy \/ Measure \/ Retry
    PROVE  UNCHANGED power /\ pc \notin {"power_on", "finally", "exited"}
<1>1. CASE Prepare
  BY <1>1 DEF Prepare, Provenance, Build, ReadElf, Discover, HubOff, HubOn, Poll, OpenLink,
     envVars, boardVars
<1>2. CASE Catch \/ CatchBroken \/ Retry
  BY <1>2 DEF Catch, CatchBroken, Found, Retry, CatchPcs, envVars, boardVars
<1>3. CASE Resume
  BY <1>3 DEF Resume, LoadImage, LoadDtb, BootLinux, WaitForLinux, CheckBanner, Login, Send, Found,
     Missing, envVars, boardVars
<1>4. CASE Safety
  BY <1>4 DEF Safety, CheckSdRoot, CheckMounts, UmountEmmc, Recheck, Send, Found, Missing,
     envVars, boardVars
<1>5. CASE Deploy
  BY <1>5 DEF Deploy, CheckPresent, Transfer, VerifyTransfer, CheckReader, SendSource,
     CompileReader, MarkReader, Send, Found, Missing, envVars, boardVars
<1>6. CASE Measure
  BY <1>6 DEF Measure, EnterUboot, LoadFirmware, CopyFirmware, StartM4, CheckStart, AskResult,
     CollectResult, ParseResult, Validate, Send, Found, Missing, envVars, boardVars
<1> QED
  BY <1>1, <1>2, <1>3, <1>4, <1>5, <1>6

\* Nor do they count a cycle of the board's power.
LEMMA CyclesUncounted ==
    ASSUME RecoveryInv, Prepare \/ Catch \/ CatchBroken \/ Resume \/ Safety \/ Deploy \/ Measure \/ Retry
    PROVE  cycles'.board = cycles.board
<1>1. CASE Prepare
  BY <1>1 DEF Prepare, Provenance, Build, ReadElf, Discover, HubOff, HubOn, Poll, OpenLink, Goto,
     Raise, RecoveryInv, Shaped
<1>2. CASE Catch \/ CatchBroken \/ Retry
  BY <1>2 DEF Catch, CatchBroken, Found, Retry, Goto, Raise
<1>3. CASE Resume \/ Safety \/ Deploy
  BY <1>3, ResumeShape, SafetyShape, DeployShape DEF Step, Throw, Goto, Raise
<1>4. CASE Measure
  BY <1>4, MeasureShape DEF Step, Throw, SecondBoot, Parsed, Passed, Failed, Goto, Raise
<1> QED
  BY <1>1, <1>2, <1>3, <1>4

\* Every step keeps the power invariant.
LEMMA PowerStep ==
    ASSUME DataOK, RecoveryInv, PowerInv, [Next]_vars
    PROVE  PowerInv'
<1> USE DEF PowerInv
<1>1. CASE Prepare \/ Catch \/ CatchBroken \/ Resume \/ Safety \/ Deploy \/ Measure \/ Retry
  BY <1>1, PowerUntouched, CyclesUncounted
<1>2. CASE PowerOff \/ PowerOn
  <2>1. CASE PowerOff /\ pc' = "power_on"
    BY <2>1
  <2>2. CASE PowerOn /\ RestorePower
    BY <2>2 DEF RestorePower
  <2>3. CASE Raise("Other") /\ pc \in {"acquire", "power_on"}
    <3>1. pc' = "finally" /\ out'.result = ResultName("Other")
      BY <2>3 DEF Raise, Retried, DataOK, Reports
    <3> QED
      BY <3>1
  <2> QED
    BY <1>2, <2>1, <2>2, <2>3 DEF PowerOff, PowerOn
<1>3. CASE Finally
  <2>1. out'.result = out.result /\ pc' = "exited" /\ UNCHANGED <<power, cycles>> /\ pc = "finally"
    BY <1>3 DEF Finally, DataOK, Reports, boardVars
  <2> QED
    BY <2>1
<1>4. CASE Interrupt
  <2>1. out.result = "UNKNOWN" /\ pc' = "finally" /\ UNCHANGED <<out, power, cycles>>
    BY <1>4 DEF Interrupt, Goto, RecoveryInv, VerdictLast, envVars, boardVars
  <2> QED
    BY <2>1
<1>5. CASE NextRun
  BY <1>5 DEF NextRun, StartRun
<1>6. CASE UNCHANGED runVars /\ power' = power
  BY <1>6 DEF runVars
<1>7. CASE CatchKey \/ AutobootWins \/ ((BoardStep \/ FaultStep) /\ UNCHANGED runVars)
  <2>1. BenchMoves /\ UNCHANGED runVars
    BY <1>7, UbootMoves, LinuxMoves, FaultMoves DEF CatchKey, AutobootWins, BoardStep
  <2> QED
    BY <1>6, <2>1 DEF BenchMoves, Storage
<1> QED
  BY <1>1, <1>2, <1>3, <1>4, <1>5, <1>6, <1>7 DEF Next, RunnerStep, Acquire, vars, envVars, boardVars

\* Only the relay's two statements switch the board off or count a cycle.
LEMMA OffAtRelay ==
    ASSUME DataOK, RecoveryInv, [Next]_vars, ~power', cycles'.board > 0
    PROVE  pc \in {"acquire", "power_on"} \/ (~power /\ cycles.board > 0)
<1>1. CASE Prepare \/ Catch \/ CatchBroken \/ Resume \/ Safety \/ Deploy \/ Measure \/ Retry
  BY <1>1, PowerUntouched, CyclesUncounted
<1>2. CASE PowerOff \/ PowerOn
  BY <1>2 DEF PowerOff, PowerOn
<1>3. CASE Finally \/ Interrupt
  BY <1>3 DEF Finally, Interrupt, Goto, envVars, boardVars
<1>4. CASE NextRun
  BY <1>4 DEF NextRun, StartRun
<1>5. CASE CatchKey \/ AutobootWins \/ ((BoardStep \/ FaultStep) /\ UNCHANGED runVars)
  <2>1. BenchMoves /\ UNCHANGED runVars
    BY <1>5, UbootMoves, LinuxMoves, FaultMoves DEF CatchKey, AutobootWins, BoardStep
  <2> QED
    BY <2>1 DEF BenchMoves, Storage, runVars
<1>6. CASE UNCHANGED vars
  BY <1>6 DEF vars, envVars, boardVars, runVars
<1> QED
  BY <1>1, <1>2, <1>3, <1>4, <1>5, <1>6 DEF Next, RunnerStep, Acquire

\* A run that cycled its board leaves it powered, whatever it met and however
\* many attempts it was given, unless the relay's own error or an interrupt ended
\* it at one of the relay's two commands.
THEOREM BoardStaysPowered == Spec => BoardLeftPowered
<1> DEFINE Leaves ==
      pc' \in {"finally", "exited"} /\ cycles'.board > 0 /\ ~power' =>
          /\ pc \in {"acquire", "power_on"} \/ (pc \in {"finally", "exited"} /\ ~power)
          /\ out'.result \in {"UNKNOWN", ResultName("Other")}
<1>1. Init => DataOK /\ PowerInv
  BY DataInit DEF Init, PowerInv
<1>2. DataOK /\ RecoveryInv /\ PowerInv /\ [Next]_vars => (DataOK /\ PowerInv)'
  BY DataStep, PowerStep
<1>3. DataOK /\ RecoveryInv /\ PowerInv /\ [Next]_vars => [Leaves]_vars
  <2> SUFFICES ASSUME DataOK, RecoveryInv, PowerInv, [Next]_vars,
                      pc' \in {"finally", "exited"}, cycles'.board > 0, ~power'
               PROVE  /\ pc \in {"acquire", "power_on"} \/ (pc \in {"finally", "exited"} /\ ~power)
                      /\ out'.result \in {"UNKNOWN", ResultName("Other")}
    OBVIOUS
  <2>1. pc \in {"acquire", "power_on"} \/ (~power /\ cycles.board > 0)
    BY OffAtRelay
  <2>2. PowerInv'
    BY PowerStep
  <2> QED
    BY <2>1, <2>2 DEF PowerInv
<1> QED
  BY <1>1, <1>2, <1>3, RecoveryInvariant, PTL DEF Spec, BoardLeftPowered

----------------------------------------------------------------------------
(* The card, when the timeouts are long enough *)

\* Nothing the board does now reaches the screen.
Mute == ~Listening \/ os \notin Alive
\* No transfer is waiting to be read.
NoTransfer == \A l \in Queued : l.cmd # "transfer"
\* The statements of a try that precede its transfer.
BeforeTransfer ==
    {"power_on", "catch"} \cup ResumePcs \cup LoginPcs \cup SafetyPcs
    \cup {"sha", "sha_check", "transfer"}

\* A checksum on the screen is of what stays on the card: a transfer is typed
\* when nothing is queued before it, and the checksum after it is read after it.
CardInv ==
    /\ pc \in SequencePcs => probe # "starting"
    /\ pc \in BeforeTransfer /\ phase = 1 => NoTransfer
    /\ pc \in {"sha_check", "verify", "verify_wait"} /\ built \in screen.sha =>
          sd.fw = built /\ NoTransfer
    /\ pc = "transfer" => Mute \/ Queued = {}
    /\ pc \in {"verify", "verify_wait"} => Mute \/ ShaLast
    /\ pc \in ReaderPcs \cup {"reboot"} => sd.fw = built /\ NoTransfer

\* All a step of the bench does to the card and the checksums on the screen.
CardMoves ==
    /\ Queued' \subseteq Queued
    /\ ShaLast => ShaLast'
    /\ probe # "starting" => probe' # "starting" /\ (Mute => Mute')
    /\ NoTransfer => sd'.fw = sd.fw
    /\ \/ screen'.sha \subseteq screen.sha
       \/ /\ screen'.sha \subseteq screen.sha \cup {sd.fw} /\ sd' = sd
          /\ ~Mute /\ (ShaLast => NoTransfer')

\* U-Boot's commands.
LEMMA UbootCard ==
    ASSUME DataOK, LoadForLinux \/ Booti \/ LoadM4 \/ CopyM4 \/ Bootaux \/ AnswerKey \/ Autoboot
    PROVE  CardMoves
<1>0. input \in Seq(Lines) /\ screen \in Screens
  BY DEF DataOK, BoardTypeOK, Lines, Screens
<1>1. Queued' \subseteq Queued /\ (ShaLast => ShaLast')
  BY <1>0, SameQueue, ReadsQueue
     DEF LoadForLinux, Booti, LoadM4, CopyM4, Bootaux, AnswerKey, Autoboot
<1>2. screen'.sha = screen.sha
  <2>1. CASE Booti \/ CopyM4 \/ Autoboot
    BY <2>1 DEF Booti, CopyM4, Autoboot, consoleVars
  <2>2. CASE LoadForLinux \/ LoadM4 \/ AnswerKey
    BY <1>0, <2>2, WithShows DEF LoadForLinux, LoadM4, AnswerKey
  <2>3. CASE Bootaux
    BY <1>0, <2>3 DEF Bootaux, Screens
  <2> QED
    BY <2>1, <2>2, <2>3
<1>3. UNCHANGED <<probe, link, sd>> /\ os \in Alive
  BY DEF LoadForLinux, Booti, LoadM4, CopyM4, Bootaux, AnswerKey, Autoboot, consoleVars, Alive, Booting
<1> QED
  BY <1>1, <1>2, <1>3 DEF CardMoves, Mute, Listening

\* Linux's commands.
LEMMA LinuxCard ==
    ASSUME DataOK, \/ M4Complete \/ Welcome \/ SdUp \/ EmmcUp \/ LoginRoot \/ ShellPrint
                   \/ Umount \/ ShellWrite \/ RunReader \/ Reboot \/ Enumerate
    PROVE  CardMoves
<1>0. /\ input \in Seq(Lines) /\ screen \in Screens
      /\ sd \in [fw : Slots, source : BOOLEAN, reader : BOOLEAN, marker : BOOLEAN, dirty : BOOLEAN]
  BY DEF DataOK, BoardTypeOK, Lines, Screens
<1>1. Queued' \subseteq Queued /\ (ShaLast => ShaLast')
  <2>1. CASE M4Complete \/ Welcome \/ SdUp \/ EmmcUp \/ Enumerate
    BY <2>1, SameQueue DEF M4Complete, Welcome, SdUp, EmmcUp, Enumerate, boardVars
  <2>2. CASE LoginRoot \/ ShellPrint \/ Umount \/ ShellWrite \/ RunReader \/ Reboot
    BY <1>0, <2>2, ReadsQueue DEF LoginRoot, ShellPrint, Umount, ShellWrite, RunReader, Reboot
  <2> QED
    BY <2>1, <2>2
<1>2. probe # "starting" => UNCHANGED <<probe, link>> /\ (os \notin Alive => os' \notin Alive)
  BY DEF M4Complete, Welcome, SdUp, EmmcUp, LoginRoot, ShellPrint, Umount, ShellWrite, RunReader,
     Reboot, Enumerate, consoleVars, boardVars, Alive, Booting, Shells
<1>3. NoTransfer => sd'.fw = sd.fw
  <2>1. CASE ShellWrite
    <3>1. CASE \E i \in Slots : /\ Reads("transfer") /\ i \in {Head(input).img, NoImage}
                               /\ sd' = [sd EXCEPT !.fw = i, !.dirty = TRUE]
      BY <1>0, <3>1, ReadsQueue DEF NoTransfer
    <3>2. CASE \/ \E ok \in BOOLEAN : sd' = [sd EXCEPT !.source = ok, !.dirty = TRUE]
               \/ sd' = [sd EXCEPT !.reader = sd.source \/ sd.reader, !.dirty = TRUE]
               \/ sd' = [sd EXCEPT !.marker = TRUE, !.dirty = TRUE]
               \/ sd' = sd
      BY <1>0, <3>2
    <3> QED
      BY <2>1, <3>1, <3>2, Zenon DEF ShellWrite
  <2>2. CASE ~ShellWrite
    BY <1>0, <2>2 DEF M4Complete, Welcome, SdUp, EmmcUp, LoginRoot, ShellPrint, Umount, RunReader,
       Reboot, Enumerate, boardVars
  <2> QED
    BY <2>1, <2>2
<1>4. \/ screen'.sha \subseteq screen.sha
      \/ /\ screen'.sha \subseteq screen.sha \cup {sd.fw} /\ sd' = sd
         /\ ~Mute /\ (ShaLast => NoTransfer')
  <2>1. CASE M4Complete \/ Umount \/ Reboot \/ Enumerate
    BY <2>1 DEF M4Complete, Umount, Reboot, Enumerate, consoleVars
  <2>2. CASE Welcome \/ SdUp \/ EmmcUp \/ LoginRoot
    BY <1>0, <2>2, WithShows DEF Welcome, SdUp, EmmcUp, LoginRoot
  <2>3. CASE ShellWrite
    <3>1. \/ screen' = screen
          \/ screen' = With(IF sd.source THEN {"compiled"} ELSE {}, screen)
          \/ screen' = With(IF sd.marker THEN {"reader_sha"} ELSE {}, screen)
      BY <2>3 DEF ShellWrite
    <3> QED
      BY <1>0, <3>1, WithShows
  <2>4. CASE RunReader
    BY <1>0, <2>4 DEF RunReader, Screens
  <2>5. CASE ShellPrint
    <3>1. CASE Reads("sha")
      <4>1. screen' = IF Listening
                      THEN [screen EXCEPT !.sha = @ \cup ({sd.fw} \ {NoImage})]
                      ELSE screen
        BY <2>5, <3>1 DEF ShellPrint, Reads
      <4>2. ShaLast => NoTransfer'
        BY <1>0, <3>1, ReadsQueue DEF NoTransfer
      <4>3. os \in Alive /\ sd' = sd
        BY <2>5 DEF ShellPrint, Alive
      <4> QED
        BY <1>0, <4>1, <4>2, <4>3 DEF Screens, Mute
    <3>2. CASE ~Reads("sha")
      BY <1>0, <2>5, <3>2, WithShows DEF ShellPrint
    <3> QED
      BY <3>1, <3>2
  <2> QED
    BY <2>1, <2>2, <2>3, <2>4, <2>5
<1> QED
  BY <1>1, <1>2, <1>3, <1>4 DEF CardMoves, Mute, Listening

\* The faults.
LEMMA FaultCard ==
    ASSUME DataOK, FaultStep
    PROVE  CardMoves
<1>0. input \in Seq(Lines)
  BY DEF DataOK, BoardTypeOK, Lines
<1>1. Queued' \subseteq Queued /\ (ShaLast => ShaLast')
  BY <1>0, SameQueue, NoQueue, TailQueue
     DEF FaultStep, Hang, AbortReset, LineLost, ProbeDrop, ProbeWedge, boardVars
<1> QED
  BY <1>1 DEF FaultStep, Hang, AbortReset, LineLost, ProbeDrop, ProbeWedge, Alive, Shells,
     Booting, boardVars, consoleVars, CardMoves, Mute, Listening

\* The bench's own steps.
LEMMA BenchKeepsCard ==
    ASSUME CardInv, CardMoves, EmmcInv, UNCHANGED runVars
    PROVE  CardInv'
<1> USE DEF CardInv, CardMoves, runVars
<1>1. NoTransfer => NoTransfer'
  BY DEF NoTransfer
<1>2. ASSUME pc \in {"sha_check", "verify", "verify_wait"}, built \in screen'.sha
      PROVE  sd'.fw = built /\ NoTransfer'
  <2>1. CASE built \in screen.sha
    BY <1>1, <1>2, <2>1
  <2>2. CASE built \notin screen.sha
    <3>1. sd.fw = built /\ sd' = sd /\ ~Mute /\ (ShaLast => NoTransfer')
      BY <1>2, <2>2
    <3>2. CASE pc = "sha_check"
      BY <1>1, <3>1, <3>2 DEF BeforeTransfer, EmmcInv, TransferPcs
    <3>3. CASE pc # "sha_check"
      BY <1>2, <3>1, <3>3
    <3> QED
      BY <3>2, <3>3
  <2> QED
    BY <2>1, <2>2
<1>3. pc \in SequencePcs => probe # "starting" /\ probe' # "starting" /\ (Mute => Mute')
  OBVIOUS
<1>4. {"transfer", "verify", "verify_wait"} \subseteq SequencePcs
  BY DEF SequencePcs, TransferPcs
<1>5. /\ pc = "transfer" => Mute' \/ Queued' = {}
      /\ pc \in {"verify", "verify_wait"} => Mute' \/ ShaLast'
  BY <1>3, <1>4
<1> QED
  BY <1>1, <1>2, <1>3, <1>5

\* A statement that leaves the sequence.
LEMMA CardOutside ==
    ASSUME pc' \notin SequencePcs
    PROVE  CardInv'
BY DEF CardInv, BeforeTransfer, SequencePcs, AcquirePcs, ResumePcs, LoginPcs, SafetyPcs, TransferPcs,
        ReaderPcs, M4Pcs, CollectPcs

\* A typed line: what it may be where.
TypesOnCard(at, c, base, next) ==
    /\ {at, next} \subseteq ConsolePcs /\ c \in Commands /\ base \in {BlankScreen, screen}
    /\ next # "transfer" /\ (c = "transfer" => at = "transfer")
    /\ next \in BeforeTransfer => at \in BeforeTransfer /\ c # "transfer"
    /\ next \in {"sha_check", "verify", "verify_wait"} => base = BlankScreen
    /\ next = "verify" => at = "transfer"
    /\ next = "verify_wait" => at = "verify" /\ c # "transfer"
    /\ next \in ReaderPcs \cup {"reboot"} => at \in ReaderPcs \cup {"reboot"} /\ c # "transfer"

\* A statement that types a line and may type it there keeps the invariant.
LEMMA TypingOnCard ==
    ASSUME DataOK, CardInv,
           NEW at, NEW c, NEW base, NEW next, TypesOnCard(at, c, base, next), Send(at, c, base, next)
    PROVE  CardInv'
<1>0. /\ pc = at /\ input \in Seq(Lines) /\ built \in Slots /\ base \in Screens
  BY BlankIsScreen DEF TypesOnCard, Send, DataOK, BoardTypeOK, Lines, Screens
<1>1. CASE link = "dead"
  <2>1. pc' = "finally"
    BY <1>1 DEF Send, Raise, Retried
  <2> QED
    BY <2>1, CardOutside DEF SequencePcs, AcquirePcs, ResumePcs, LoginPcs, SafetyPcs, TransferPcs,
        ReaderPcs, M4Pcs, CollectPcs
<1>2. CASE link # "dead"
  <2>1. /\ pc' = next /\ phase' = phase /\ built' = built
        /\ input' = Typed(c, built) /\ screen' = Echo(c, base)
        /\ UNCHANGED <<os, sd, probe, link>>
    BY <1>2 DEF Send, Goto
  <2>2. /\ Queued' \subseteq Queued \cup {[cmd |-> c, img |-> built]}
        /\ ShaLast /\ (c = "transfer" => \A l \in Queued : l.cmd # "sha") => ShaLast'
    BY <1>0, <2>1, TypedQueue DEF TypesOnCard
  <2>3. screen'.sha = base.sha
    BY <1>0, <2>1, EchoShows
  <2>4. c # "transfer" /\ NoTransfer => NoTransfer'
    BY <2>2 DEF NoTransfer
  <2>5. Queued = {} => ShaLast
    BY DEF Queued, ShaLast, NoneBehind
  <2>6. Mute => Mute'
    BY <2>1 DEF Mute, Listening
  <2>7. pc \in SequencePcs /\ pc' \in SequencePcs
    BY <1>0, <2>1 DEF TypesOnCard, ConsolePcs
  <2>8. next \in {"sha_check", "verify", "verify_wait"} => built \notin screen'.sha
    BY <2>3 DEF TypesOnCard, BlankScreen
  <2>9. next \in {"verify", "verify_wait"} => Mute' \/ ShaLast'
    <3>1. CASE next = "verify"
      BY <1>0, <2>2, <2>5, <2>6, <3>1 DEF TypesOnCard, CardInv
    <3>2. CASE next = "verify_wait"
      BY <1>0, <2>2, <2>6, <3>2 DEF TypesOnCard, CardInv
    <3> QED
      BY <3>1, <3>2
  <2>10. probe' # "starting"
    BY <2>1, <2>7 DEF CardInv
  <2>11. next \in BeforeTransfer /\ phase = 1 => NoTransfer'
    BY <1>0, <2>4 DEF TypesOnCard, CardInv
  <2>12. next \in ReaderPcs \cup {"reboot"} => sd.fw = built /\ NoTransfer'
    BY <1>0, <2>4 DEF TypesOnCard, CardInv
  <2> QED
    BY <2>1, <2>8, <2>9, <2>10, <2>11, <2>12 DEF CardInv, TypesOnCard
<1> QED
  BY <1>1, <1>2

\* A look at the screen: where it may go on, given what it saw.
LEMMA LookOnCard ==
    ASSUME DataOK, CardInv, NEW at, NEW ok, NEW l, Found(at, ok, l),
           {at, l} \subseteq ConsolePcs,
           l \notin {"sha_check", "verify", "verify_wait"},
           l \in BeforeTransfer => at \in BeforeTransfer,
           l = "transfer" => Mute \/ Queued = {},
           l \in ReaderPcs \cup {"reboot"} =>
               \/ at \in ReaderPcs \cup {"reboot"}
               \/ at \in {"sha_check", "verify_wait"} /\ ShaMatches
    PROVE  CardInv'
<1>1. /\ pc = at /\ pc' = l /\ UNCHANGED <<phase, built, sd, screen, probe, link, os, input>>
  BY DEF Found, Goto, envVars, boardVars, consoleVars
<1>2. Queued' = Queued /\ (NoTransfer => NoTransfer') /\ (Mute => Mute')
  BY <1>1, SameQueue DEF NoTransfer, Mute, Listening
<1>3. pc \in SequencePcs
  BY <1>1 DEF ConsolePcs
<1> QED
  BY <1>1, <1>2, <1>3 DEF CardInv, ShaMatches

\* A wait that ends with nothing left to read is over for good.
LEMMA QuietWait ==
    ASSUME Timely, TimeUp
    PROVE  Mute \/ Queued = {}
<1>1. Mute \/ input = <<>>
  BY DEF TimeUp, Settled, Mute
<1>2. input = <<>> => 1 .. Len(input) = {}
  BY EmptySeq
<1> QED
  BY <1>1, <1>2 DEF Queued

\* An exception leaves the try.
LEMMA RaiseLeaves ==
    ASSUME NEW e, Raise(e)
    PROVE  CardInv'
<1>1. pc' \in {"retry", "finally"}
  BY DEF Raise
<1> QED
  BY <1>1, CardOutside DEF SequencePcs, AcquirePcs, ResumePcs, LoginPcs, SafetyPcs, TransferPcs,
        ReaderPcs, M4Pcs, CollectPcs

\* The runner's statements up to the storage check.
LEMMA ResumeCard ==
    ASSUME DataOK, CardInv, Resume \/ Safety
    PROVE  CardInv'
<1> USE DEF ConsolePcs, SequencePcs, AcquirePcs, ResumePcs, LoginPcs, SafetyPcs, TransferPcs,
        ReaderPcs, M4Pcs, CollectPcs, BeforeTransfer
<1>1. /\ TypesOnCard("image", "image", BlankScreen, "image_wait")
      /\ TypesOnCard("dtb", "dtb", BlankScreen, "dtb_wait")
      /\ TypesOnCard("setenv", "setenv", screen, "booti")
      /\ TypesOnCard("booti", "booti", BlankScreen, "login_wait")
      /\ TypesOnCard("login", "root", BlankScreen, "shell_wait")
      /\ TypesOnCard("findmnt", "findmnt", BlankScreen, "findmnt_check")
      /\ TypesOnCard("mounts", "mounts", BlankScreen, "mounts_check")
      /\ TypesOnCard("umount", "umount", BlankScreen, "recheck")
      /\ TypesOnCard("recheck", "mounts", BlankScreen, "recheck_check")
  BY DEF TypesOnCard, Commands
<1>2. CASE LoadImage \/ LoadDtb \/ BootLinux \/ Login
  BY <1>1, <1>2, TypingOnCard, LookOnCard, RaiseLeaves
     DEF LoadImage, LoadDtb, BootLinux, Login, Missing
<1>3. CASE WaitForLinux
  <2>1. CASE Found("login_wait", TRUE, "login")
    BY <2>1, LookOnCard
  <2> QED
    BY <1>3, <2>1, RaiseLeaves DEF WaitForLinux, CheckBanner, Missing, Found
<1>4. CASE CheckSdRoot \/ CheckMounts \/ UmountEmmc
  BY <1>1, <1>4, TypingOnCard, LookOnCard, RaiseLeaves
     DEF CheckSdRoot, CheckMounts, UmountEmmc, Missing
<1>5. CASE Recheck
  <2>1. CASE Found("recheck_check", ~Seen("emmc") /\ TimeUp, AfterSafety)
    BY <2>1, LookOnCard DEF AfterSafety
  <2> QED
    BY <1>1, <1>5, <2>1, TypingOnCard, RaiseLeaves DEF Recheck
<1> QED
  BY <1>2, <1>3, <1>4, <1>5 DEF Resume, Safety

\* The transfer and the reader's installation: the only statements that need
\* the waits to be long enough.
LEMMA DeployCard ==
    ASSUME Timely, DataOK, CardInv, Deploy
    PROVE  CardInv'
<1> USE DEF ConsolePcs, SequencePcs, AcquirePcs, ResumePcs, LoginPcs, SafetyPcs, TransferPcs,
        ReaderPcs, M4Pcs, CollectPcs, BeforeTransfer
<1>1. /\ TypesOnCard("sha", "sha", BlankScreen, "sha_check")
      /\ TypesOnCard("transfer", "transfer", BlankScreen, "verify")
      /\ TypesOnCard("verify", "sha", BlankScreen, "verify_wait")
      /\ TypesOnCard("marker", "marker", BlankScreen, "marker_check")
      /\ TypesOnCard("source", "source", BlankScreen, "compile")
      /\ TypesOnCard("compile", "compile", BlankScreen, "compile_wait")
      /\ TypesOnCard("mark", "mark", screen, "reboot")
  BY DEF TypesOnCard, Commands
<1>2. CASE CheckPresent
  <2>1. CASE Found("sha_check", ShaMatches, "marker")
    BY <2>1, LookOnCard DEF Found
  <2>2. CASE Found("sha_check", ~ShaMatches /\ TimeUp, "transfer")
    BY <2>2, LookOnCard, QuietWait DEF Found
  <2> QED
    BY <1>1, <1>2, <2>1, <2>2, TypingOnCard DEF CheckPresent
<1>3. CASE Transfer \/ SendSource \/ MarkReader
  BY <1>1, <1>3, TypingOnCard DEF Transfer, SendSource, MarkReader
<1>4. CASE VerifyTransfer
  <2>1. CASE Found("verify_wait", ShaMatches, "marker")
    BY <2>1, LookOnCard DEF Found
  <2> QED
    BY <1>1, <1>4, <2>1, TypingOnCard, RaiseLeaves DEF VerifyTransfer, Missing
<1>5. CASE CheckReader \/ CompileReader
  BY <1>1, <1>5, TypingOnCard, LookOnCard, RaiseLeaves DEF CheckReader, CompileReader, Missing
<1> QED
  BY <1>2, <1>3, <1>4, <1>5 DEF Deploy

\* From the reboot to the verdict.
LEMMA MeasureCard ==
    ASSUME DataOK, CardInv, Measure
    PROVE  CardInv'
<1> USE DEF ConsolePcs, SequencePcs, AcquirePcs, ResumePcs, LoginPcs, SafetyPcs, TransferPcs,
        ReaderPcs, M4Pcs, CollectPcs, BeforeTransfer
<1>1. /\ TypesOnCard("reboot", "reboot", BlankScreen, "reboot_catch")
      /\ TypesOnCard("m4_load", "m4_load", BlankScreen, "m4_check")
      /\ TypesOnCard("m4_copy", "m4_copy", screen, "bootaux")
      /\ TypesOnCard("bootaux", "bootaux", BlankScreen, "bootaux_check")
      /\ TypesOnCard("begin", "begin", BlankScreen, "reader")
      /\ TypesOnCard("reader", "reader", screen, "end")
      /\ TypesOnCard("end", "end", screen, "collect")
  BY DEF TypesOnCard, Commands
<1>2. CASE EnterUboot \/ LoadFirmware
  BY <1>1, <1>2, TypingOnCard, LookOnCard, RaiseLeaves DEF EnterUboot, LoadFirmware, Missing
<1>3. CASE CopyFirmware \/ StartM4 \/ AskResult
  BY <1>1, <1>3, TypingOnCard DEF CopyFirmware, StartM4, AskResult
<1>4. CASE CheckStart
  <2>1. CASE pc = "bootaux_check" /\ pc' = "image" /\ phase' = 2 /\ UNCHANGED envVars
    BY <2>1 DEF CardInv, envVars, consoleVars
  <2> QED
    BY <1>4, <2>1, RaiseLeaves DEF CheckStart
<1>5. CASE CollectResult \/ Validate
  <2>1. CASE pc' \in {"validate", "finally"}
    BY <2>1, CardOutside
  <2> QED
    BY <1>5, <2>1, RaiseLeaves DEF CollectResult, ParseResult, Missing, Validate
<1> QED
  BY <1>2, <1>3, <1>4, <1>5 DEF Measure

\* The relay and the wait for U-Boot.
LEMMA AcquireCard ==
    ASSUME DataOK, CardInv, Acquire
    PROVE  CardInv'
<1> USE DEF ConsolePcs, SequencePcs, AcquirePcs, ResumePcs, LoginPcs, SafetyPcs, TransferPcs,
        ReaderPcs, M4Pcs, CollectPcs, BeforeTransfer
<1>1. CASE PowerOff
  <2>1. CASE CutPower /\ pc' = "power_on"
    BY <1>1, <2>1, NoQueue DEF CutPower, PowerOff, CardInv, NoTransfer, consoleVars
  <2> QED
    BY <1>1, <2>1, RaiseLeaves DEF PowerOff
<1>2. CASE PowerOn
  <2>1. CASE RestorePower /\ Goto("catch")
    BY <1>2, <2>1, SameQueue DEF RestorePower, PowerOn, Goto, CardInv, NoTransfer
  <2> QED
    BY <1>2, <2>1, RaiseLeaves DEF PowerOn
<1>3. CASE Catch
  <2>1. CASE Goto("acquire") /\ pc = "catch" /\ UNCHANGED envVars
    BY <2>1 DEF Goto, CardInv, envVars, consoleVars
  <2> QED
    BY <1>3, <2>1, LookOnCard, RaiseLeaves DEF Catch
<1>4. CASE CatchBroken
  BY <1>4, RaiseLeaves DEF CatchBroken
<1> QED
  BY <1>1, <1>2, <1>3, <1>4 DEF Acquire

\* The statements outside the sequence.
LEMMA OutsideCard ==
    ASSUME CardInv, Prepare \/ Retry \/ Finally \/ Interrupt \/ NextRun
    PROVE  CardInv'
<1> USE DEF SequencePcs, AcquirePcs, ResumePcs, LoginPcs, SafetyPcs, TransferPcs,
        ReaderPcs, M4Pcs, CollectPcs, BeforeTransfer
<1>1. CASE OpenLink /\ Resolvable
  BY <1>1 DEF OpenLink, Resolvable, CardInv
<1>2. CASE pc' \notin SequencePcs
  BY <1>2, CardOutside
<1>3. CASE \E e \in Exceptions : Raise(e)
  BY <1>3, RaiseLeaves
<1>4. CASE Provenance \/ Build \/ ReadElf \/ Discover \/ HubOff \/ HubOn \/ Poll
  BY <1>2, <1>4, RaiseLeaves DEF Provenance, Build, ReadElf, Discover, HubOff, HubOn, Poll, Goto
<1>5. CASE (OpenLink /\ ~Resolvable) \/ Retry \/ Finally \/ Interrupt \/ NextRun
  BY <1>2, <1>5 DEF OpenLink, Retry, Finally, Interrupt, NextRun, StartRun, Goto
<1> QED
  BY <1>1, <1>4, <1>5 DEF Prepare

\* Every step keeps the invariant of the card, the timeouts long enough.
LEMMA CardStep ==
    ASSUME Timely, DataOK, EmmcInv, CardInv, [Next]_vars
    PROVE  CardInv'
<1>1. CASE RunnerStep
  BY <1>1, ResumeCard, DeployCard, MeasureCard, AcquireCard, OutsideCard DEF RunnerStep
<1>2. CASE CatchKey \/ AutobootWins \/ ((BoardStep \/ FaultStep) /\ UNCHANGED runVars)
  <2>1. CardMoves /\ UNCHANGED runVars
    BY <1>2, UbootCard, LinuxCard, FaultCard DEF CatchKey, AutobootWins, BoardStep
  <2> QED
    BY <2>1, BenchKeepsCard
<1>3. CASE Interrupt \/ NextRun
  BY <1>3, OutsideCard
<1>4. CASE UNCHANGED vars
  <2>1. Queued' = Queued /\ (ShaLast => ShaLast')
    BY <1>4, SameQueue DEF vars, envVars, boardVars
  <2> QED
    BY <1>4, <2>1 DEF vars, envVars, boardVars, consoleVars, runVars, CardInv, NoTransfer, Mute, Listening
<1> QED
  BY <1>1, <1>2, <1>3, <1>4 DEF Next

\* When the waits are long enough, the card holds this run's image from the
\* moment its checksum was accepted to the reboot that loads it: nothing typed
\* before or after writes it again.
THEOREM VerifiedImageHolds == Timely => (Spec => []VerifiedImageStays)
<1> SUFFICES ASSUME Timely PROVE Spec => []VerifiedImageStays
  OBVIOUS
<1>1. Init => CardInv
  BY CardOutside DEF Init, CardInv, BeforeTransfer, SequencePcs, AcquirePcs, ResumePcs, LoginPcs,
     SafetyPcs, TransferPcs, ReaderPcs, M4Pcs, CollectPcs
<1>2. DataOK /\ EmmcInv /\ CardInv /\ [Next]_vars => CardInv'
  BY CardStep
<1>3. CardInv => VerifiedImageStays
  BY DEF CardInv, VerifiedImageStays
<1> QED
  BY <1>1, <1>2, <1>3, BenchInvariant, PTL DEF Spec
=============================================================================
