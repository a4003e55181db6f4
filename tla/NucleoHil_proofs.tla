-------------------------- MODULE NucleoHil_proofs --------------------------
(***************************************************************************)
(* The NUCLEO runner and its firmware, for every set of images and every   *)
(* number of faults: types, with the bound on what a buffer can hold, and  *)
(* that no half-written result is judged.  BenchInv ties what is in the    *)
(* buffer to what the firmware may still send (Held, Left) and what is in  *)
(* RAM and in a frame to where the core is (Finished).                     *)
(***************************************************************************)
EXTENDS NucleoHil, WellFoundedInduction, TLAPS

\* The parts of its frame a core has yet to send.
Left ==
    IF core \in {"reset", "start", "bench", "concluded", "begin"} THEN 3
    ELSE IF core = "hex" THEN 2
    ELSE IF core = "end" THEN 1
    ELSE 0

\* Every result_doc and exit code.
Reports == [result : {"UNKNOWN", "PASS"} \cup {ResultName(e) : e \in Exceptions},
            exit : 0 .. 3 \cup {NoExit}, bench : Results]

\* TypeOK without the length of the buffer.
Typed ==
    /\ flash \in Slots
    /\ core \in Cores
    /\ gres \in Results
    /\ cleared \in BOOLEAN
    /\ vcp \in {"ok", "stuck"}
    /\ swd \in {"ok", "dead"}
    /\ link \in BOOLEAN
    /\ rx \in Seq([part : Parts, res : Results])
    /\ faults \in 0 .. MaxFaults
    /\ pc \in Pcs
    /\ built \in Slots
    /\ out \in Reports
    /\ tries \in {0, 1}
    /\ timely \in BOOLEAN

\* A link is open only while the hardware is tried; the flash and the reset can
\* each start one more frame.
Held ==
    /\ link => pc \in BoardPcs \cup {"validate", "finally"}
    /\ ~link => rx = <<>>
    /\ pc = "flash" => Len(rx) + Left <= 3
    /\ pc = "reset" => Len(rx) + Left <= 6
    /\ link => Len(rx) + Left <= MaxParts

\* A result the firmware has finished.
Final(r) == r.state = "complete" /\ r.code # "pending"

\* The code is stored before the state, and the state before the frame is sent.
Finished ==
    /\ gres.state = "complete" => gres.code # "pending"
    /\ core = "concluded" => gres.code # "pending"
    /\ core \in {"begin", "hex", "end"} => Final(gres)
    /\ \A i \in 1 .. Len(rx) : rx[i].part = "hex" => Final(rx[i].res)
    /\ pc = "validate" => Final(out.bench)

\* Before the flash, on the bench an earlier run has left.
EarlyPcs == {"provenance", "build", "tools", "discover", "open"}

\* Where in a run its one try stands, and that the verdict comes last.
Ordered ==
    /\ pc \in EarlyPcs => tries = 0
    /\ pc \in BoardPcs \cup {"validate"} => tries = 1
    /\ pc \notin {"finally", "exited"} => out.result = "UNKNOWN"

\* The inductive invariant.
NucleoInv == Typed /\ Held /\ Finished /\ Ordered

----------------------------------------------------------------------------

\* The bench and the runner start within the invariant.
LEMMA NucleoInitially == Init => NucleoInv
<1> SUFFICES ASSUME Init PROVE NucleoInv
  OBVIOUS
<1> USE DEF Init, BenchInit, FreshOut, NoResult
<1>1. gres \in Results /\ NoResult \in Results
  BY DEF Results, Slots, States, Codes
<1>5. out \in Reports
  BY <1>1 DEF Reports
<1>2. Typed
  <2>1. core \in Cores /\ pc \in Pcs /\ built \in Slots /\ flash \in Slots
    BY DEF Slots, Cores, Executing, Pcs, BoardPcs
  <2>2. rx \in Seq([part : Parts, res : Results]) /\ faults \in 0 .. MaxFaults
    BY FirmwareAssumption
  <2> QED
    BY <1>1, <1>5, <2>1, <2>2 DEF Typed
<1>3. Held
  BY DEF Held
<1>4. Finished
  BY DEF Finished, Final
<1>6. Ordered
  BY DEF Ordered, BoardPcs
<1> QED
  BY <1>2, <1>3, <1>4, <1>6 DEF NucleoInv

\* There is a first match among the positions where the pattern matches.
LEMMA FirstMatches ==
    ASSUME Typed, Matches # {}
    PROVE  First \in Matches
<1>1. Matches \subseteq Nat
  BY DEF Matches, Typed
<1>2. PICK i \in Matches : \A j \in Matches : ~ (<<j, i>> \in OpToRel(<, Nat))
  BY <1>1, NatLessThanWellFounded, WFMin
<1>3. \A j \in Matches : ~ (j < i)
  BY <1>1, <1>2, Zenon DEF OpToRel
<1>4. \A j \in Matches : i <= j
  BY <1>1, <1>3
<1> QED
  BY <1>2, <1>4 DEF First

----------------------------------------------------------------------------
(* Types *)

\* The four exceptions and their exit codes.
LEMMA Pairs ==
    /\ \A e \in Exceptions : ExitCode(e) \in 0 .. 3
    /\ "TestFailure" \in Exceptions /\ "InfrastructureError" \in Exceptions
    /\ "RecoveryRequired" \in Exceptions /\ "Other" \in Exceptions
BY DEF Exceptions, ExitCode

\* Raising an exception keeps the runner's variables typed.
LEMMA RaiseTyped ==
    ASSUME Typed, NEW e \in Exceptions, Raise(e)
    PROVE  out' \in Reports /\ pc' = "finally" /\ UNCHANGED <<built, tries, timely>>
<1>1. ResultName(e) \in {"UNKNOWN", "PASS"} \cup {ResultName(x) : x \in Exceptions}
  OBVIOUS
<1>2. ExitCode(e) \in 0 .. 3 \cup {NoExit}
  BY Pairs
<1> QED
  BY <1>1, <1>2 DEF Typed, Reports, Raise

\* What the runner's own variables do in its steps.
LEMMA RunTyped ==
    ASSUME Typed, \/ \E l \in Pcs : Goto(l)
                  \/ \E e \in Exceptions : Raise(e)
                  \/ \E r \in Results : Take(r)
                  \/ UNCHANGED runVars
    PROVE  pc' \in Pcs /\ built' \in Slots /\ out' \in Reports /\ tries' \in {0, 1}
           /\ timely' \in BOOLEAN
<1>1. CASE \E l \in Pcs : Goto(l)
  BY <1>1 DEF Goto, Typed
<1>2. CASE \E e \in Exceptions : Raise(e)
  BY <1>2, RaiseTyped DEF Typed, Pcs
<1>3. CASE \E r \in Results : Take(r)
  BY <1>3 DEF Take, Typed, Reports, Pcs
<1>4. CASE UNCHANGED runVars
  BY <1>4 DEF runVars, Typed
<1> QED
  BY <1>1, <1>2, <1>3, <1>4

ChipTyped == /\ flash \in Slots /\ core \in Cores /\ gres \in Results /\ cleared \in BOOLEAN
             /\ vcp \in {"ok", "stuck"} /\ swd \in {"ok", "dead"}
WireTyped == link \in BOOLEAN /\ rx \in Seq([part : Parts, res : Results])
             /\ faults \in 0 .. MaxFaults
RunnerTyped == pc \in Pcs /\ built \in Slots /\ out \in Reports /\ tries \in {0, 1}
               /\ timely \in BOOLEAN

\* Typed, by owner.
LEMMA TypedParts == Typed <=> ChipTyped /\ WireTyped /\ RunnerTyped
BY DEF Typed, ChipTyped, WireTyped, RunnerTyped

\* Sequences of parts, kept apart from what a part is.
LEMMA Buffers ==
    ASSUME NEW S
    PROVE  /\ <<>> \in Seq(S)
           /\ \A b \in Seq(S) : \A i \in 1 .. Len(b) : b[i] \in S
OBVIOUS

\* What arrives keeps its place in the buffer, one part longer at most.
LEMMA ReceivedTyped ==
    ASSUME Typed, NEW part \in Parts
    PROVE  Received(part) \in Seq([part : Parts, res : Results])
<1> DEFINE S == [part : Parts, res : Results]
<1>1. [part |-> part, res |-> gres] \in S
  BY DEF Typed
<1>2. rx \in Seq(S)
  BY DEF Typed
<1> HIDE DEF S
<1>3. Append(rx, [part |-> part, res |-> gres]) \in Seq(S)
  BY <1>1, <1>2
<1>4. Received(part) \in Seq(S)
  BY <1>2, <1>3 DEF Received
<1> QED
  BY <1>4 DEF S

\* Sending a part keeps chip and wire typed.
LEMMA SendTyped ==
    ASSUME Typed, NEW at, NEW part \in Parts, NEW damaged \in Parts, NEW next \in Cores,
           Send(at, part, damaged, next)
    PROVE  ChipTyped' /\ WireTyped'
<1>3. rx' \in Seq([part : Parts, res : Results])
  BY ReceivedTyped DEF Send
<1>4. faults' \in 0 .. MaxFaults
  BY FirmwareAssumption DEF Send, Fault, Typed
<1> QED
  BY <1>3, <1>4 DEF Send, Typed, ChipTyped, WireTyped

\* So does every step of the firmware.
LEMMA FirmwareTyped ==
    ASSUME Typed, FirmwareStep
    PROVE  ChipTyped' /\ WireTyped'
<1> USE DEF Typed, ChipTyped, WireTyped, wireVars, Cores, Executing
<1>1. CASE Boot
  <2>1. NoResult \in Results
    BY DEF NoResult, Results, Slots, States, Codes
  <2> QED
    BY <1>1, <2>1 DEF Boot
<1>2. CASE TestStarted
  BY <1>2 DEF TestStarted, Results, States
<1>3. CASE Conclude
  BY <1>3 DEF Conclude, Results, States, Codes
<1>4. CASE SendBegin
  BY <1>4, SendTyped DEF SendBegin, Parts
<1>5. CASE SendHex
  BY <1>5, SendTyped DEF SendHex, Parts
<1>6. CASE SendEnd
  BY <1>6, SendTyped DEF SendEnd, Parts
<1> QED
  BY <1>1, <1>2, <1>3, <1>4, <1>5, <1>6 DEF FirmwareStep

\* So does every fault.
LEMMA FaultTyped ==
    ASSUME Typed, FaultStep
    PROVE  ChipTyped' /\ WireTyped'
BY FirmwareAssumption DEF Typed, ChipTyped, WireTyped, FaultStep, BridgeSticks, SwdLost,
   CoreHangs, Fault, chipVars, wireVars, Cores

\* So does leaving the bench alone.
LEMMA BenchTyped ==
    ASSUME Typed, UNCHANGED benchVars
    PROVE  ChipTyped' /\ WireTyped'
BY DEF Typed, ChipTyped, WireTyped, benchVars, chipVars, wireVars

\* What st-flash does to the chip.
LEMMA StFlashTyped ==
    ASSUME Typed, NEW i \in Slots, WriteFlash(i) \/ ResetCore
    PROVE  ChipTyped' /\ WireTyped'
<1>1. NoResult \in Results
  BY DEF NoResult, Results, Slots, States, Codes
<1> QED
  BY <1>1 DEF Typed, ChipTyped, WireTyped, WriteFlash, ResetCore, wireVars, Cores, Executing

\* The steps of the runner that leave the bench alone.
Looking == Provenance \/ RequireStFlash \/ Discover \/ Collect \/ Interrupt

\* The blob of the first match is a result.
LEMMA FrameTyped ==
    ASSUME Typed, Matches # {}
    PROVE  rx[First + 1].res \in Results
<1>1. First + 1 \in 1 .. Len(rx)
  BY FirstMatches DEF Matches, Typed
<1>2. rx[First + 1] \in [part : Parts, res : Results]
  BY <1>1, Buffers DEF Typed
<1> QED
  BY <1>2

\* They go on, raise, or take a result.
LEMMA LookingRuns ==
    ASSUME Typed, Looking
    PROVE  /\ UNCHANGED benchVars
           /\ \/ \E l \in Pcs \ {"flash", "reset", "validate"} : Goto(l)
              \/ \E e \in Exceptions : Raise(e)
              \/ \E r \in Results : Take(r)
<1> USE Pairs DEF Pcs, BoardPcs
<1>1. CASE Provenance \/ RequireStFlash \/ Discover \/ Interrupt
  BY <1>1 DEF Provenance, RequireStFlash, Discover, Interrupt, ToolFails
<1>2. CASE CollectFrame
  BY <1>2, FrameTyped DEF CollectFrame
<1>3. CASE WaitExpires \/ Silent \/ FindResult
  BY <1>3 DEF WaitExpires, Silent, FindResult, ToolFails
<1>4. CASE ReadOverSwd
  BY <1>4 DEF ReadOverSwd, ToolFails, Typed
<1> QED
  BY <1>1, <1>2, <1>3, <1>4 DEF Looking, Collect

\* A failed poll of g_result ends the run on the bench as it was.
LEMMA PollEnds ==
    ASSUME Typed, PollFails
    PROVE  /\ \E e \in {"InfrastructureError", "Other"} : Raise(e)
           /\ pc = "swd" /\ pc' = "finally" /\ UNCHANGED <<chipVars, wireVars, built, tries, timely>>
           /\ faults' \in 1 .. MaxFaults
           /\ out'.result # "PASS" /\ out'.exit = 2
<1>1. PICK e \in {"InfrastructureError", "Other"} : Raise(e)
  BY DEF PollFails, ToolFails
<1>2. /\ pc' = "finally" /\ UNCHANGED <<built, tries, timely>>
      /\ out'.result = ResultName(e) /\ out'.exit = ExitCode(e)
  BY <1>1 DEF Raise, Typed, Reports
<1>3. ResultName(e) # "PASS" /\ ExitCode(e) = 2
  BY DEF ResultName, ExitCode
<1>4. faults' \in 1 .. MaxFaults
  BY FirmwareAssumption DEF PollFails, Fault, Typed
<1> QED
  BY <1>1, <1>2, <1>3, <1>4 DEF PollFails

\* Every step keeps the types.
LEMMA TypedStep ==
    ASSUME Typed, Ordered, [Next]_vars
    PROVE  Typed'
<1> SUFFICES ChipTyped' /\ WireTyped' /\ RunnerTyped'
  BY DEF Typed, ChipTyped, WireTyped, RunnerTyped
<1> USE Pairs
<1>1. CASE Looking
  <2>1. ChipTyped' /\ WireTyped'
    BY <1>1, LookingRuns, BenchTyped
  <2>2. RunnerTyped'
    BY <1>1, LookingRuns, RunTyped DEF RunnerTyped
  <2> QED
    BY <2>1, <2>2
<1>2. CASE Build
  <2>1. ChipTyped' /\ WireTyped'
    BY <1>2, BenchTyped DEF Build
  <2>2. CASE ToolFails
    BY <2>1, <2>2, RunTyped DEF ToolFails, RunnerTyped
  <2> QED
    BY <1>2, <2>1, <2>2 DEF Build, RunnerTyped, Typed, Pcs, Slots
<1>3. CASE OpenLink
  <2>1. ChipTyped' /\ WireTyped'
    <3>1. ChipTyped' /\ link' \in BOOLEAN /\ faults' = faults
      BY <1>3 DEF OpenLink, ChipTyped, Typed, chipVars
    <3>2. rx' \in Seq([part : Parts, res : Results])
      <4>1. rx' = <<>> \/ rx' = rx
        BY <1>3 DEF OpenLink
      <4>2. rx \in Seq([part : Parts, res : Results])
        BY DEF Typed
      <4> QED
        BY <4>1, <4>2, Buffers
    <3> QED
      BY <3>1, <3>2 DEF WireTyped, Typed
  <2>2. CASE Raise("Other")
    BY <2>1, <2>2, RunTyped DEF RunnerTyped
  <2>3. CASE ~ Raise("Other")
    <3>1. pc' = "flash" /\ tries' = tries + 1 /\ UNCHANGED <<built, out, timely>>
      BY <1>3, <2>3 DEF OpenLink
    <3>2. tries = 0
      BY <1>3 DEF OpenLink, Ordered, EarlyPcs
    <3> QED
      BY <2>1, <3>1, <3>2 DEF RunnerTyped, Typed, Pcs, BoardPcs
  <2> QED
    BY <2>2, <2>3
<1>4. CASE Flash
  <2>1. ChipTyped' /\ WireTyped'
    BY <1>4, BenchTyped, StFlashTyped DEF Flash, Typed, Slots
  <2>2. RunnerTyped'
    BY <1>4, RunTyped DEF Flash, ToolFails, RunnerTyped, Pcs, BoardPcs
  <2> QED
    BY <2>1, <2>2
<1>5. CASE Reset
  <2>1. ChipTyped' /\ WireTyped'
    BY <1>5, BenchTyped, StFlashTyped DEF Reset, Typed
  <2>2. RunnerTyped'
    BY <1>5, RunTyped DEF Reset, ToolFails, RunnerTyped, Pcs, BoardPcs
  <2> QED
    BY <2>1, <2>2
<1>6. CASE Validate
  <2>1. ChipTyped' /\ WireTyped'
    BY <1>6, BenchTyped DEF Validate
  <2>2. CASE Raise("TestFailure")
    BY <2>1, <2>2, RunTyped DEF RunnerTyped
  <2>3. CASE ~ Raise("TestFailure")
    <3>1. pc' = "finally" /\ UNCHANGED <<built, tries, timely>>
      BY <1>6, <2>3 DEF Validate
    <3>2. 0 \in 0 .. 3 \cup {NoExit}
      OBVIOUS
    <3>3. out' = [out EXCEPT !.result = "PASS", !.exit = 0]
      BY <1>6, <2>3 DEF Validate
    <3>4. out' \in Reports
      BY <3>2, <3>3 DEF Typed, Reports
    <3> QED
      BY <2>1, <3>1, <3>4 DEF RunnerTyped, Typed, Pcs
  <2> QED
    BY <2>2, <2>3
<1>7. CASE Finally
  <2>1. ChipTyped' /\ WireTyped'
    <3>1. rx' \in Seq([part : Parts, res : Results])
      BY <1>7, Buffers DEF Finally
    <3> QED
      BY <1>7, <3>1 DEF Finally, ChipTyped, WireTyped, Typed, chipVars
  <2>2. (IF out.exit = NoExit THEN 1 ELSE out.exit) \in 0 .. 3 \cup {NoExit}
    BY DEF Typed, Reports
  <2>3. out' \in Reports
    BY <1>7, <2>2 DEF Finally, Typed, Reports
  <2> QED
    BY <1>7, <2>1, <2>3 DEF Finally, RunnerTyped, Typed, Pcs
<1>8. CASE NextRun
  <2>1. NoResult \in Results
    BY DEF NoResult, Results, Slots, States, Codes
  <2>2. ChipTyped' /\ WireTyped'
    BY <1>8, <2>1, FirmwareAssumption DEF NextRun, Replug, HostReboot, ChipTyped, WireTyped,
       Typed, chipVars, Cores, Executing
  <2>3. out' \in Reports
    BY <1>8, <2>1 DEF NextRun, FreshOut, Reports
  <2> QED
    BY <1>8, <2>2, <2>3 DEF NextRun, RunnerTyped, Pcs, Slots
<1>9. CASE (FirmwareStep \/ FaultStep) /\ UNCHANGED runVars
  BY <1>9, FirmwareTyped, FaultTyped, RunTyped DEF RunnerTyped
<1>10. CASE UNCHANGED vars
  BY <1>10, BenchTyped, RunTyped DEF vars, RunnerTyped
<1>11. CASE PollFails
  <2>1. ChipTyped' /\ WireTyped'
    BY <1>11, PollEnds DEF ChipTyped, WireTyped, Typed, chipVars, wireVars
  <2> QED
    BY <1>11, <2>1, PollEnds, RunTyped DEF RunnerTyped
<1> QED
  BY <1>1, <1>2, <1>3, <1>4, <1>5, <1>6, <1>7, <1>8, <1>9, <1>10, <1>11
     DEF Next, RunnerStep, Prepare, Looking

----------------------------------------------------------------------------
(* Where in a run *)

\* Every step keeps the run's order.
LEMMA OrderedStep ==
    ASSUME Typed, Ordered, [Next]_vars
    PROVE  Ordered'
<1> USE DEF Ordered, BoardPcs, EarlyPcs
<1>1. CASE \E e \in Exceptions : Raise(e)
  BY <1>1 DEF Raise
<1>2. CASE Interrupt
  BY <1>2 DEF Interrupt, Goto
<1>3. CASE Provenance \/ Build \/ RequireStFlash \/ Discover
  BY <1>1, <1>3, Pairs DEF Provenance, Build, RequireStFlash, Discover, Goto, ToolFails
<1>4. CASE OpenLink
  BY <1>1, <1>4, Pairs DEF OpenLink
<1>5. CASE Flash \/ Reset
  BY <1>1, <1>5, Pairs DEF Flash, Reset, ToolFails, Goto
<1>6. CASE CollectFrame
  BY <1>1, <1>6, Pairs DEF CollectFrame, Take, Typed, Reports
<1>7. CASE WaitExpires \/ Silent \/ FindResult
  BY <1>1, <1>7, Pairs DEF WaitExpires, Silent, FindResult, ToolFails, Goto
<1>8. CASE ReadOverSwd
  BY <1>1, <1>8, Pairs DEF ReadOverSwd, ToolFails, Take, Typed, Reports
<1>9. CASE Validate
  BY <1>1, <1>9, Pairs DEF Validate
<1>10. CASE Finally
  BY <1>10 DEF Finally
<1>11. CASE NextRun
  BY <1>11 DEF NextRun, FreshOut
<1>12. CASE UNCHANGED runVars
  BY <1>12 DEF runVars
<1>13. CASE PollFails
  BY <1>1, <1>13, PollEnds, Pairs
<1> QED
  BY <1>13, <1>2, <1>3, <1>4, <1>5, <1>6, <1>7, <1>8, <1>9, <1>10, <1>11, <1>12
     DEF Next, RunnerStep, Prepare, Collect, vars

----------------------------------------------------------------------------
(* The buffer and the result *)

\* A step that leaves the bench alone and starts no flash and no reset.
LEMMA QuietKeeps ==
    ASSUME NucleoInv, UNCHANGED benchVars, pc' \notin {"flash", "reset"},
           link => pc' \in BoardPcs \cup {"validate", "finally"},
           pc' = "validate" => Final(out'.bench)
    PROVE  Held' /\ Finished'
<1>1. Left' = Left
  BY DEF Left, benchVars, chipVars
<1>2. Held'
  BY <1>1 DEF NucleoInv, Held, benchVars, wireVars
<1>3. Finished'
  BY DEF NucleoInv, Finished, Final, benchVars, chipVars, wireVars
<1> QED
  BY <1>2, <1>3

\* What CollectFrame and ReadOverSwd take is final.
LEMMA LookingKeeps ==
    ASSUME NucleoInv, Looking
    PROVE  Held' /\ Finished'
<1> USE Pairs DEF NucleoInv
<1>1. UNCHANGED benchVars /\ pc' \notin {"flash", "reset"}
  BY LookingRuns, RaiseTyped DEF Goto, Take
<1>2. link => pc' \in BoardPcs \cup {"validate", "finally"}
  <2>1. CASE Provenance \/ RequireStFlash \/ Discover \/ Interrupt
    BY <2>1, RaiseTyped DEF Held, BoardPcs, Provenance, RequireStFlash, Discover, Interrupt, Goto,
       ToolFails
  <2>2. CASE Collect
    BY <2>2, RaiseTyped DEF BoardPcs, Collect, CollectFrame, WaitExpires, Silent, FindResult,
       ReadOverSwd, ToolFails, Goto, Take
  <2> QED
    BY <2>1, <2>2 DEF Looking
<1>3. ASSUME pc' = "validate" PROVE Final(out'.bench)
  <2>1. CASE CollectFrame
    <3>1. First \in Matches /\ First + 1 \in 1 .. Len(rx)
      BY <2>1, FirstMatches DEF CollectFrame, Matches, Typed
    <3>2. rx[First + 1].part = "hex" /\ Take(rx[First + 1].res)
      BY <1>3, <2>1, RaiseTyped DEF CollectFrame
    <3> QED
      BY <3>1, <3>2 DEF Take, Typed, Reports, Finished
  <2>2. CASE ReadOverSwd
    <3>1. gres.state = "complete" /\ Take(gres)
      BY <1>3, <2>2, RaiseTyped DEF ReadOverSwd, ToolFails
    <3> QED
      BY <3>1 DEF Take, Typed, Reports, Finished, Final
  <2>3. CASE ~ CollectFrame /\ ~ ReadOverSwd
    BY <1>3, <2>3, RaiseTyped DEF Looking, Provenance, RequireStFlash, Discover, Collect,
       WaitExpires, Silent, FindResult, ToolFails, Interrupt, Goto
  <2> QED
    BY <2>1, <2>2, <2>3
<1> QED
  BY <1>1, <1>2, <1>3, QuietKeeps

\* st-flash may start the firmware once more: three more parts.
LEMMA StFlashKeeps ==
    ASSUME NucleoInv, NEW i \in Slots, WriteFlash(i) \/ ResetCore,
           \/ pc = "flash" /\ pc' = "reset"
           \/ pc \in {"flash", "reset"} /\ pc' \in {"collect", "finally"}
    PROVE  Held' /\ Finished'
<1> USE DEF NucleoInv
<1>1. Left \in 0 .. 3 /\ Left' \in 0 .. 3 /\ Len(rx) \in Nat
  BY DEF Left, Typed
<1>2. rx' = rx /\ link' = link
  BY DEF WriteFlash, ResetCore, wireVars
<1>3. Held'
  BY <1>1, <1>2 DEF Held, BoardPcs, MaxParts
<1>4. Finished'
  BY <1>2 DEF Finished, Final, WriteFlash, ResetCore, NoResult
<1> QED
  BY <1>3, <1>4

\* Sending takes a part from what is left and adds at most one to the buffer.
LEMMA SendKeeps ==
    ASSUME NucleoInv, NEW part \in Parts, NEW damaged \in Parts, UNCHANGED runVars,
           part = "hex" \/ damaged = "hex" => core = "hex",
           \/ Send("begin", part, damaged, "hex")
           \/ Send("hex", part, damaged, "end")
           \/ Send("end", part, damaged, "beat")
    PROVE  Held' /\ Finished'
<1> USE DEF NucleoInv
<1>1. \/ core = "begin" /\ core' = "hex" /\ Left = 3 /\ Left' = 2
      \/ core = "hex" /\ core' = "end" /\ Left = 2 /\ Left' = 1
      \/ core = "end" /\ core' = "beat" /\ Left = 1 /\ Left' = 0
  BY DEF Send, Left
<1>2. gres' = gres /\ link' = link /\ pc' = pc /\ out' = out
  BY DEF Send, runVars
<1>3. PICK q \in {part, damaged} : rx' = Received(q)
  BY DEF Send
<1>4. \/ rx' = rx
      \/ link /\ rx' = Append(rx, [part |-> q, res |-> gres])
  BY <1>3 DEF Received
<1>5. Len(rx) \in Nat /\ Len(rx') \in Nat /\ Len(rx') <= Len(rx) + 1 /\ (~ link => rx' = rx)
  BY <1>4 DEF Typed
<1>6. Held'
  BY <1>1, <1>2, <1>5 DEF Held, MaxParts
<1>7. \A j \in 1 .. Len(rx') : rx'[j].part = "hex" => Final(rx'[j].res)
  <2>1. CASE rx' = rx
    BY <2>1 DEF Finished
  <2>2. CASE rx' = Append(rx, [part |-> q, res |-> gres])
    <3> SUFFICES ASSUME NEW j \in 1 .. Len(rx'), rx'[j].part = "hex"
                 PROVE  Final(rx'[j].res)
      OBVIOUS
    <3>1. CASE j \in 1 .. Len(rx)
      <4>1. rx'[j] = rx[j]
        BY <2>2, <3>1 DEF Typed
      <4> QED
        BY <3>1, <4>1 DEF Finished
    <3>2. CASE j \notin 1 .. Len(rx)
      <4>1. rx'[j] = [part |-> q, res |-> gres]
        BY <2>2, <3>2 DEF Typed
      <4> QED
        BY <4>1, <1>1 DEF Finished
    <3> QED
      BY <3>1, <3>2
  <2> QED
    BY <1>4, <2>1, <2>2
<1>8. Finished'
  BY <1>1, <1>2, <1>7 DEF Finished, Final
<1> QED
  BY <1>6, <1>8

\* The firmware sends what is left, after it has stored the verdict.
LEMMA FirmwareKeeps ==
    ASSUME NucleoInv, FirmwareStep, UNCHANGED runVars
    PROVE  Held' /\ Finished'
<1> USE DEF NucleoInv
<1>1. CASE Boot \/ TestStarted \/ Conclude
  <2>1. rx' = rx /\ link' = link /\ pc' = pc /\ out' = out
    BY <1>1 DEF Boot, TestStarted, Conclude, wireVars, runVars
  <2>2. Left' \in {Left, 0} /\ Left \in Nat /\ Len(rx) \in Nat
    BY <1>1 DEF Boot, TestStarted, Conclude, Left, Typed
  <2>3. Held'
    BY <2>1, <2>2 DEF Held, MaxParts
  <2>4. gres \in Results
    BY DEF Typed
  <2>5. Finished'
    <3>1. CASE Boot
      BY <2>1, <3>1 DEF Boot, Finished, Final, NoResult
    <3>2. CASE TestStarted
      BY <2>1, <2>4, <3>2 DEF TestStarted, Finished, Final, Results
    <3>3. CASE Conclude
      BY <2>1, <2>4, <3>3 DEF Conclude, Finished, Final, Results
    <3> QED
      BY <1>1, <3>1, <3>2, <3>3
  <2> QED
    BY <2>3, <2>5
<1>2. CASE SendBegin
  BY <1>2, SendKeeps DEF SendBegin, Parts
<1>3. CASE SendHex
  <2>1. core = "hex"
    BY <1>3 DEF SendHex, Send
  <2> QED
    BY <1>3, <2>1, SendKeeps DEF SendHex, Parts
<1>4. CASE SendEnd
  BY <1>4, SendKeeps DEF SendEnd, Parts
<1> QED
  BY <1>1, <1>2, <1>3, <1>4 DEF FirmwareStep

\* A fault sends nothing and writes nothing to RAM.
LEMMA FaultKeeps ==
    ASSUME NucleoInv, FaultStep, UNCHANGED runVars
    PROVE  Held' /\ Finished'
<1> USE DEF NucleoInv
<1>1. rx' = rx /\ link' = link /\ gres' = gres /\ pc' = pc /\ out' = out
      /\ core' \in {core, "hung"}
  BY DEF FaultStep, BridgeSticks, SwdLost, CoreHangs, chipVars, wireVars, runVars
<1>2. Left' \in {Left, 0} /\ Left \in Nat /\ Len(rx) \in Nat
  BY <1>1 DEF Left, Typed
<1>3. Held'
  BY <1>1, <1>2 DEF Held, MaxParts
<1>4. Finished'
  BY <1>1 DEF Finished, Final
<1> QED
  BY <1>3, <1>4

\* Every step keeps the invariant.
LEMMA NucleoStep ==
    ASSUME NucleoInv, [Next]_vars
    PROVE  NucleoInv'
<1> SUFFICES Held' /\ Finished'
  BY TypedStep, OrderedStep DEF NucleoInv
<1> USE Pairs
<1>1. CASE Looking
  BY <1>1, LookingKeeps
<1>2. CASE Build
  <2>1. pc' \in {"tools", "finally"} /\ ~ link /\ UNCHANGED benchVars
    BY <1>2 DEF Build, ToolFails, Raise, NucleoInv, Held, BoardPcs
  <2> QED
    BY <2>1, QuietKeeps
<1>3. CASE OpenLink
  <2>1. CASE Raise("Other") /\ UNCHANGED <<link, rx>>
    <3>1. pc' = "finally" /\ UNCHANGED benchVars
      BY <1>3, <2>1 DEF OpenLink, Raise, benchVars, wireVars
    <3> QED
      BY <3>1, QuietKeeps
  <2>2. CASE pc' = "flash" /\ rx' = <<>> /\ UNCHANGED chipVars /\ link' = TRUE
    <3>1. Left' = Left /\ Left \in 0 .. 3
      BY <2>2 DEF Left, chipVars
    <3>2. Held'
      BY <2>2, <3>1 DEF Held, BoardPcs, MaxParts
    <3>3. Finished'
      BY <2>2 DEF NucleoInv, Finished, Final, chipVars
    <3> QED
      BY <3>2, <3>3
  <2> QED
    BY <1>3, <2>1, <2>2 DEF OpenLink
<1>4. CASE Flash
  <2>1. pc = "flash" /\ pc' \in {"reset", "finally"}
    BY <1>4 DEF Flash, Goto, ToolFails, Raise
  <2>2. CASE ToolFails /\ UNCHANGED benchVars
    BY <2>2, QuietKeeps DEF ToolFails, Raise
  <2>3. CASE \E i \in Slots : WriteFlash(i)
    BY <2>1, <2>3, StFlashKeeps
  <2>4. built \in Slots /\ NoImage \in Slots
    BY DEF NucleoInv, Typed, Slots
  <2> QED
    BY <1>4, <2>2, <2>3, <2>4 DEF Flash
<1>5. CASE Reset
  <2>1. pc = "reset" /\ pc' \in {"collect", "finally"}
    BY <1>5 DEF Reset, Goto, ToolFails, Raise
  <2>2. CASE UNCHANGED benchVars
    BY <2>1, <2>2, QuietKeeps DEF BoardPcs
  <2>3. CASE ResetCore
    BY <2>1, <2>3, StFlashKeeps DEF NucleoInv, Typed
  <2> QED
    BY <1>5, <2>2, <2>3 DEF Reset
<1>6. CASE Validate
  <2>1. pc' = "finally" /\ UNCHANGED benchVars
    BY <1>6 DEF Validate, Raise
  <2> QED
    BY <2>1, QuietKeeps
<1>7. CASE Finally
  <2>1. pc' = "exited" /\ rx' = <<>> /\ link' = FALSE /\ gres' = gres /\ core' = core
    BY <1>7 DEF Finally, chipVars
  <2> QED
    BY <2>1 DEF NucleoInv, Held, Finished, Final, BoardPcs
<1>8. CASE NextRun
  <2>1. pc = "exited" /\ pc' = "provenance" /\ rx' = rx /\ link' = link
    BY <1>8 DEF NextRun
  <2>2. rx = <<>> /\ link = FALSE
    BY <2>1 DEF NucleoInv, Typed, Held, BoardPcs
  <2>3. \/ core' = "reset" /\ gres' = NoResult
        \/ core' = core /\ gres' = gres
    BY <1>8 DEF NextRun, Replug, HostReboot, chipVars
  <2> QED
    BY <2>1, <2>2, <2>3 DEF NucleoInv, Held, Finished, Final, BoardPcs, NoResult
<1>9. CASE (FirmwareStep \/ FaultStep) /\ UNCHANGED runVars
  BY <1>9, FirmwareKeeps, FaultKeeps
<1>10. CASE UNCHANGED vars
  <2>1. Left' = Left
    BY <1>10 DEF vars, benchVars, chipVars, Left
  <2> QED
    BY <1>10, <2>1 DEF NucleoInv, Held, Finished, Final, vars, benchVars, chipVars, wireVars,
       runVars
<1>11. CASE PollFails
  <2>1. pc = "swd" /\ pc' = "finally" /\ UNCHANGED <<chipVars, wireVars>>
    BY <1>11, PollEnds DEF NucleoInv
  <2>2. Left' = Left
    BY <2>1 DEF Left, chipVars
  <2> QED
    BY <2>1, <2>2 DEF NucleoInv, Held, Finished, Final, chipVars, wireVars, BoardPcs
<1> QED
  BY <1>1, <1>2, <1>3, <1>4, <1>5, <1>6, <1>7, <1>8, <1>9, <1>10, <1>11
     DEF Next, RunnerStep, Prepare, Looking

\* The inductive invariant of the NUCLEO runner and its firmware.
THEOREM NucleoInvariant == Spec => []NucleoInv
BY NucleoInitially, NucleoStep, PTL DEF Spec

\* Types, and no buffer ever holds more than the three frames a run can see.
THEOREM NucleoTypeCorrect == Spec => []TypeOK
<1>1. NucleoInv => TypeOK
  <2> SUFFICES ASSUME NucleoInv PROVE TypeOK
    OBVIOUS
  <2>1. Len(rx) <= MaxParts
    <3>1. Left \in 0 .. 3 /\ Len(rx) \in Nat
      BY DEF NucleoInv, Typed, Left
    <3>2. ~ link => Len(rx) = 0
      BY DEF NucleoInv, Held
    <3>3. link \in BOOLEAN
      BY DEF NucleoInv, Typed
    <3> QED
      BY <3>1, <3>2, <3>3 DEF NucleoInv, Held, MaxParts
  <2>2. out \in [result : {"UNKNOWN", "PASS"} \cup {ResultName(e) : e \in Exceptions},
                 exit : 0 .. 3 \cup {NoExit}, bench : Results]
    BY DEF NucleoInv, Typed, Reports
  <2> QED
    BY <2>1, <2>2 DEF NucleoInv, Typed, TypeOK, BenchTypeOK
<1> QED
  BY <1>1, NucleoInvariant, PTL

\* Neither transport hands the validation a result the firmware has not
\* finished, wherever SWD reads and whatever the bench does.
THEOREM NoHalfResultJudged == Spec => []NoHalfResult
<1>1. NucleoInv => NoHalfResult
  BY DEF NucleoInv, Finished, Final, NoHalfResult
<1> QED
  BY <1>1, NucleoInvariant, PTL

----------------------------------------------------------------------------
(* The contract *)

ContractMove == [Contract!ContractNext]_(Contract!contractVars)

\* The first state of a run is a first state of the contract.
LEMMA NucleoStartMaps == Init => Contract!ContractInit
BY DEF Init, FreshOut, Contract!ContractInit, Stage, Verdict, ResultName, BoardPcs

\* The contract's view of a state.
LEMMA StageOf ==
    /\ pc \in EarlyPcs => Stage = "preparing"
    /\ pc \in BoardPcs => Stage = "trying"
    /\ pc = "validate" => Stage = "judging"
    /\ pc = "finally" => Stage = "closing"
    /\ pc = "exited" => Stage = "done"
BY DEF Stage, BoardPcs, EarlyPcs

\* The verdict that a result stands for.
LEMMA VerdictOf ==
    /\ out.result = "UNKNOWN" => Verdict = "none"
    /\ out.result = "PASS" => Verdict = "PASS"
    /\ \A e \in Exceptions : out.result = ResultName(e) =>
          Verdict = IF e = "Other" THEN "InfrastructureError" ELSE e
BY DEF Verdict, ResultName, Exceptions

\* The same of the next state.
LEMMA ViewAfter ==
    /\ pc' \in EarlyPcs => Stage' = "preparing"
    /\ pc' \in BoardPcs => Stage' = "trying"
    /\ pc' = "validate" => Stage' = "judging"
    /\ pc' = "finally" => Stage' = "closing"
    /\ pc' = "exited" => Stage' = "done"
    /\ out'.result = "UNKNOWN" => Verdict' = "none"
    /\ out'.result = "PASS" => Verdict' = "PASS"
    /\ \A e \in Exceptions : out'.result = ResultName(e) =>
          Verdict' = IF e = "Other" THEN "InfrastructureError" ELSE e
BY DEF Stage, BoardPcs, EarlyPcs, Verdict, ResultName, Exceptions

\* A raise ends the run; RECOVERY_REQUIRED comes from its one try.
LEMMA RaiseMaps ==
    ASSUME Typed, Ordered, NEW e \in Exceptions, Raise(e),
           pc \in EarlyPcs \cup BoardPcs \cup {"validate"},
           pc = "validate" <=> e = "TestFailure",
           e = "RecoveryRequired" => pc \in BoardPcs
    PROVE  ContractMove
<1>1. Stage' = "closing" /\ tries' = tries
  BY ViewAfter DEF Raise
<1>2. out'.result = ResultName(e)
  BY DEF Raise, Typed, Reports
<1>3. Verdict' = IF e = "Other" THEN "InfrastructureError" ELSE e
  BY <1>2, ViewAfter
<1>4. CASE pc = "validate"
  BY <1>1, <1>3, <1>4, StageOf DEF ContractMove, Contract!ContractNext, Contract!Judge
<1>5. CASE pc \in EarlyPcs
  BY <1>1, <1>3, <1>5, StageOf
     DEF ContractMove, Contract!ContractNext, Contract!GiveUp, Exceptions, EarlyPcs, BoardPcs
<1>6. CASE pc \in BoardPcs
  <2>1. Stage = "trying" /\ tries = 1
    BY <1>6, StageOf DEF Ordered
  <2> QED
    BY <1>1, <1>3, <1>6, <2>1
       DEF ContractMove, Contract!ContractNext, Contract!GiveUp, Exceptions, BoardPcs
<1> QED
  BY <1>4, <1>5, <1>6

\* Steps that stay within a stage.
LEMMA QuietMaps ==
    ASSUME tries' = tries, out'.result = out.result,
           \/ pc \in EarlyPcs /\ pc' \in EarlyPcs
           \/ pc \in BoardPcs /\ pc' \in BoardPcs
           \/ pc' = pc
    PROVE  ContractMove
<1>1. Verdict' = Verdict
  BY DEF Verdict
<1>2. Stage' = Stage
  BY DEF Stage, EarlyPcs, BoardPcs
<1> QED
  BY <1>1, <1>2 DEF ContractMove, Contract!contractVars

\* Taking a result is the contract's Measure.
LEMMA TakeMaps ==
    ASSUME Typed, pc \in BoardPcs, NEW r \in Results, Take(r)
    PROVE  ContractMove
<1>1. Stage = "trying" /\ Stage' = "judging" /\ tries' = tries
  BY StageOf, ViewAfter DEF Take
<1>2. Verdict' = Verdict
  BY DEF Take, Typed, Reports, Verdict
<1> QED
  BY <1>1, <1>2 DEF ContractMove, Contract!ContractNext, Contract!Measure

\* Every step of the runner is a step of the contract or leaves it alone.
LEMMA NucleoStepMaps ==
    ASSUME Typed, Ordered, [Next]_vars
    PROVE  ContractMove
<1> USE Pairs DEF EarlyPcs, BoardPcs
<1>1. CASE Provenance \/ Build \/ RequireStFlash \/ Discover
  BY <1>1, RaiseMaps, QuietMaps DEF Provenance, Build, RequireStFlash, Discover, ToolFails, Goto
<1>2. CASE OpenLink
  <2>1. CASE Raise("Other")
    BY <1>2, <2>1, RaiseMaps DEF OpenLink
  <2>2. CASE ~ Raise("Other")
    <3>1. pc = "open" /\ pc' = "flash" /\ tries' = tries + 1 /\ out' = out
      BY <1>2, <2>2 DEF OpenLink
    <3>2. Stage = "preparing" /\ Stage' = "trying" /\ Verdict' = Verdict
      BY <3>1, StageOf, ViewAfter DEF Verdict
    <3> QED
      BY <3>1, <3>2 DEF ContractMove, Contract!ContractNext, Contract!Try
  <2> QED
    BY <2>1, <2>2
<1>3. CASE Flash \/ Reset
  BY <1>3, RaiseMaps, QuietMaps DEF Flash, Reset, ToolFails, Goto
<1>4. CASE Collect
  <2>1. pc \in BoardPcs
    BY <1>4 DEF Collect, CollectFrame, WaitExpires, Silent, FindResult, ReadOverSwd
  <2>2. CASE \E r \in Results : Take(r)
    BY <2>1, <2>2, TakeMaps
  <2>3. CASE Raise("InfrastructureError") \/ Raise("Other") \/ Raise("RecoveryRequired")
    BY <2>1, <2>3, RaiseMaps
  <2>4. CASE \E l \in BoardPcs : Goto(l)
    BY <2>1, <2>4, QuietMaps DEF Goto
  <2>5. CASE CollectFrame
    BY <2>2, <2>3, <2>5, FrameTyped DEF CollectFrame
  <2>6. CASE WaitExpires \/ Silent \/ FindResult
    BY <2>3, <2>4, <2>6 DEF WaitExpires, Silent, FindResult, ToolFails
  <2>7. CASE ReadOverSwd
    BY <2>2, <2>3, <2>7 DEF ReadOverSwd, ToolFails, Typed
  <2> QED
    BY <1>4, <2>5, <2>6, <2>7 DEF Collect
<1>5. CASE Validate
  <2>1. CASE Raise("TestFailure")
    BY <1>5, <2>1, RaiseMaps DEF Validate
  <2>2. CASE ~ Raise("TestFailure")
    <3>1. pc = "validate" /\ pc' = "finally" /\ tries' = tries /\ out'.result = "PASS"
      BY <1>5, <2>2 DEF Validate, Typed, Reports
    <3>2. Stage = "judging" /\ Stage' = "closing" /\ Verdict' = "PASS"
      BY <3>1, StageOf, ViewAfter
    <3> QED
      BY <3>1, <3>2 DEF ContractMove, Contract!ContractNext, Contract!Judge
  <2> QED
    BY <2>1, <2>2
<1>6. CASE Finally
  <2>1. Stage = "closing" /\ Stage' = "done"
    BY <1>6, StageOf, ViewAfter DEF Finally
  <2>2. tries' = tries /\ Verdict' = Verdict
    BY <1>6 DEF Finally, Typed, Reports, Verdict
  <2> QED
    BY <2>1, <2>2 DEF ContractMove, Contract!ContractNext, Contract!Report
<1>7. CASE Interrupt
  <2>1. Stage \in {"preparing", "trying", "judging"} /\ Stage' = "closing"
    BY <1>7, StageOf, ViewAfter DEF Interrupt, Goto, Typed, Pcs
  <2>2. tries' = tries /\ Verdict' = Verdict
    BY <1>7 DEF Interrupt, Goto, Verdict
  <2> QED
    BY <2>1, <2>2 DEF ContractMove, Contract!ContractNext, Contract!Interrupted
<1>8. CASE NextRun
  <2>1. pc = "exited" /\ pc' = "provenance" /\ tries' = 0 /\ out'.result = "UNKNOWN"
    BY <1>8 DEF NextRun, FreshOut
  <2>2. Stage = "done" /\ Stage' = "preparing" /\ Verdict' = "none"
    BY <2>1, StageOf, ViewAfter
  <2> QED
    BY <2>1, <2>2 DEF ContractMove, Contract!ContractNext, Contract!Again
<1>9. CASE UNCHANGED runVars
  BY <1>9, QuietMaps DEF runVars
<1>10. CASE PollFails
  BY <1>10, PollEnds, RaiseMaps
<1> QED
  BY <1>1, <1>2, <1>3, <1>4, <1>5, <1>6, <1>7, <1>8, <1>9, <1>10
     DEF Next, RunnerStep, Prepare, vars

\* The NUCLEO runner keeps the contract of RunContract with a single try.
THEOREM NucleoKeepsContract == Spec => KeepsContract
<1>1. NucleoInv /\ [Next]_vars => [Contract!ContractNext]_(Contract!contractVars)
  BY NucleoStepMaps DEF NucleoInv, ContractMove
<1> QED
  BY <1>1, NucleoStartMaps, NucleoInvariant, PTL
     DEF Spec, KeepsContract, Contract!ContractSpec

----------------------------------------------------------------------------
(***************************************************************************)
(* A PASS is the result of the image the run built.  Neither the frame nor *)
(* g_result names its image; what does is the order of the steps: the core *)
(* that is found has fallen silent before the port is opened, what it does *)
(* from the flash on it does with the new image, and RAM is read over SWD  *)
(* only when the core has stopped.  The last section is about runs in      *)
(* which nothing goes wrong: they read over SWD only for want of a bridge. *)
(***************************************************************************)

Writing == {"bench", "concluded", "begin", "hex", "end"}

\* Past a flash that succeeded.
FlashedPcs == {"reset", "collect", "silent", "nm", "swd", "validate"}

\* What the verdict rests on: this image's result, or a core that stopped before
\* Reset_Handler cleared another one's.
Sound == out.bench.img = built \/ (CoreQuiet /\ ~ cleared)

\* The image of what RAM holds, whoever looks.
RamTraced ==
    /\ core \in Writing => gres.img = flash
    /\ cleared /\ gres.state = "complete" => gres.img = flash

\* Every frame in the buffer is of the image the run built.
FramesTraced == \A i \in 1 .. Len(rx) : rx[i].part = "hex" => rx[i].res.img = built

\* Whose result it is at each statement of a timely run.
RunTraced ==
    timely =>
       /\ pc = "flash" => CoreQuiet /\ rx = <<>>
       /\ pc \in FlashedPcs => flash = built /\ FramesTraced
       /\ pc \in {"silent", "nm", "swd"} => CoreQuiet
       /\ pc = "validate" \/ out.result = "PASS" => Sound

\* The invariant behind PassMeansThisImageRan.
Traced == RamTraced /\ RunTraced

\* The bench a first run finds.
LEMMA TracedInitially == Init => Traced
BY DEF Init, BenchInit, NoResult, FreshOut, Traced, RamTraced, RunTraced, Writing, FlashedPcs

\* The firmware writes its own image into RAM, and a core that has stopped does
\* not start.
LEMMA FirmwareTraces ==
    ASSUME NucleoInv, Traced, FirmwareStep, UNCHANGED runVars
    PROVE  Traced'
<1> USE DEF NucleoInv, Traced
<1>1. gres \in Results /\ flash' = flash /\ ~ CoreQuiet
  BY DEF Typed, FirmwareStep, Boot, TestStarted, Conclude, SendBegin, SendHex, SendEnd, Send,
     CoreQuiet, Executing
<1>2. RamTraced'
  <2>1. CASE Boot
    BY <2>1 DEF Boot, RamTraced, Writing, NoResult
  <2>2. CASE TestStarted
    BY <1>1, <2>2 DEF TestStarted, RamTraced, Writing, Results
  <2>3. CASE Conclude
    BY <1>1, <2>3 DEF Conclude, RamTraced, Writing, Results
  <2>4. CASE SendBegin \/ SendHex \/ SendEnd
    BY <2>4 DEF SendBegin, SendHex, SendEnd, Send, RamTraced, Writing
  <2> QED
    BY <2>1, <2>2, <2>3, <2>4 DEF FirmwareStep
<1>3. ASSUME timely, pc \in FlashedPcs PROVE FramesTraced'
  <2>1. FramesTraced /\ flash = built /\ built' = built
    BY <1>3 DEF RunTraced, runVars
  <2>2. CASE rx' = rx
    BY <2>1, <2>2 DEF FramesTraced
  <2>3. CASE rx' # rx
    <3>1. core \in Writing
      BY <2>3 DEF FirmwareStep, Boot, TestStarted, Conclude, SendBegin, SendHex, SendEnd, Send,
         Writing, wireVars
    <3>2. \E q \in Parts : rx' = Append(rx, [part |-> q, res |-> gres])
      BY <2>3 DEF FirmwareStep, Boot, TestStarted, Conclude, SendBegin, SendHex, SendEnd, Send,
         Received, Parts, wireVars
    <3>3. PICK q \in Parts : rx' = Append(rx, [part |-> q, res |-> gres])
      BY <3>2
    <3>4. gres.img = built
      BY <2>1, <3>1 DEF RamTraced
    <3> SUFFICES ASSUME NEW i \in 1 .. Len(rx'), rx'[i].part = "hex"
                 PROVE  rx'[i].res.img = built
      BY <2>1 DEF FramesTraced
    <3>5. CASE i \in 1 .. Len(rx)
      <4>1. rx'[i] = rx[i]
        BY <3>3, <3>5 DEF Typed
      <4> QED
        BY <2>1, <3>5, <4>1 DEF FramesTraced
    <3>6. CASE i \notin 1 .. Len(rx)
      <4>1. rx'[i] = [part |-> q, res |-> gres]
        BY <3>3, <3>6 DEF Typed
      <4> QED
        BY <3>4, <4>1
    <3> QED
      BY <3>5, <3>6
  <2> QED
    BY <2>2, <2>3
<1>4. RunTraced'
  <2> SUFFICES ASSUME timely PROVE RunTraced'
    BY DEF RunTraced, runVars
  <2>1. pc' = pc /\ built' = built /\ out' = out
    BY DEF runVars
  <2>2. pc # "flash" /\ pc \notin {"silent", "nm", "swd"}
    BY <1>1 DEF RunTraced
  <2>3. pc = "validate" \/ out.result = "PASS" => out.bench.img = built
    BY <1>1 DEF RunTraced, Sound
  <2>4. pc \in FlashedPcs => flash' = built /\ FramesTraced'
    BY <1>1, <1>3 DEF RunTraced
  <2> QED
    BY <2>1, <2>2, <2>3, <2>4 DEF RunTraced, Sound
<1> QED
  BY <1>2, <1>4

\* A fault can stop a core and nothing else that matters here.
LEMMA FaultTraces ==
    ASSUME NucleoInv, Traced, FaultStep, UNCHANGED runVars
    PROVE  Traced'
<1> USE DEF NucleoInv, Traced
<1>1. rx' = rx /\ flash' = flash /\ gres' = gres /\ cleared' = cleared
      /\ core' \in {core, "hung"}
  BY DEF FaultStep, BridgeSticks, SwdLost, CoreHangs, chipVars, wireVars
<1>2. RamTraced' /\ (CoreQuiet => CoreQuiet')
  BY <1>1 DEF RamTraced, Writing, CoreQuiet, Executing
<1>3. FramesTraced' = FramesTraced /\ (Sound => Sound')
  BY <1>1, <1>2 DEF FramesTraced, Sound, runVars
<1>4. RunTraced'
  BY <1>1, <1>2, <1>3 DEF RunTraced, runVars
<1> QED
  BY <1>2, <1>4

\* A step that leaves the bench alone, apart from those that start or judge.
LEMMA QuietTraces ==
    ASSUME NucleoInv, Traced, UNCHANGED <<benchVars, built, timely>>,
           pc' # "flash", pc' \in FlashedPcs => pc \in FlashedPcs,
           timely /\ pc' \in {"silent", "nm", "swd"} => CoreQuiet,
           timely /\ (pc' = "validate" \/ out'.result = "PASS") =>
              out'.bench.img = built \/ (CoreQuiet /\ ~ cleared)
    PROVE  Traced'
<1>1. CoreQuiet' = CoreQuiet /\ RamTraced' /\ FramesTraced' = FramesTraced
  BY DEF CoreQuiet, RamTraced, FramesTraced, Traced, benchVars, chipVars, wireVars
<1>2. RunTraced'
  BY <1>1 DEF RunTraced, Traced, Sound, benchVars, chipVars, wireVars
<1> QED
  BY <1>1, <1>2 DEF Traced

\* A run that gives up passes nothing.
LEMMA RaiseTraces ==
    ASSUME NucleoInv, Traced, NEW e \in Exceptions, Raise(e), UNCHANGED benchVars
    PROVE  Traced'
<1>1. out'.result # "PASS" /\ pc' = "finally" /\ UNCHANGED <<built, timely>>
  BY DEF Raise, ResultName, Exceptions, NucleoInv, Typed, Reports
<1> QED
  BY <1>1, QuietTraces DEF FlashedPcs

\* Going on to the next call, no verdict is there yet.
LEMMA GotoTraces ==
    ASSUME NucleoInv, Traced, NEW l, Goto(l), UNCHANGED benchVars,
           l \notin {"flash", "validate"}, pc \notin {"validate", "finally", "exited"},
           l \in FlashedPcs => pc \in FlashedPcs,
           timely /\ l \in {"silent", "nm", "swd"} => CoreQuiet
    PROVE  Traced'
<1>1. pc' = l /\ UNCHANGED <<built, timely, out>> /\ out.result = "UNKNOWN"
  BY DEF Goto, NucleoInv, Ordered
<1> QED
  BY <1>1, QuietTraces

\* An interrupt keeps what is known of the result, and no verdict is there yet.
LEMMA InterruptTraces ==
    ASSUME NucleoInv, Traced, Interrupt
    PROVE  Traced'
<1>1. pc' = "finally" /\ UNCHANGED <<benchVars, built, timely, out>> /\ out.result = "UNKNOWN"
  BY DEF Interrupt, Goto, NucleoInv, Ordered
<1> QED
  BY <1>1, QuietTraces DEF FlashedPcs

\* Before the flash.
LEMMA PrepareTraces ==
    ASSUME NucleoInv, Traced, Prepare
    PROVE  Traced'
<1> USE Pairs DEF FlashedPcs
<1>1. CASE Provenance \/ RequireStFlash \/ Discover
  BY <1>1, RaiseTraces, GotoTraces DEF Provenance, RequireStFlash, Discover, ToolFails
<1>2. CASE Build
  <2>1. CASE ToolFails
    BY <1>2, <2>1, RaiseTraces DEF Build, ToolFails
  <2>2. CASE ~ ToolFails
    <3>1. pc = "build" /\ pc' = "tools" /\ UNCHANGED <<benchVars, out, timely>>
      BY <1>2, <2>2 DEF Build
    <3>2. out'.result = "UNKNOWN"
      BY <3>1 DEF NucleoInv, Ordered
    <3> QED
      BY <3>1, <3>2 DEF Traced, RamTraced, RunTraced, benchVars, chipVars
  <2> QED
    BY <2>1, <2>2
<1>3. CASE OpenLink
  <2>1. CASE Raise("Other") /\ UNCHANGED <<link, rx>>
    BY <1>3, <2>1, RaiseTraces DEF OpenLink, benchVars, wireVars
  <2>2. CASE /\ pc' = "flash" /\ rx' = <<>> /\ UNCHANGED <<chipVars, out, timely>>
             /\ timely => CoreQuiet
    <3>1. out'.result = "UNKNOWN"
      BY <1>3, <2>2 DEF OpenLink, NucleoInv, Ordered
    <3>2. timely' => CoreQuiet'
      BY <2>2 DEF CoreQuiet, chipVars
    <3> QED
      BY <2>2, <3>1, <3>2 DEF Traced, RamTraced, RunTraced, chipVars
  <2> QED
    BY <1>3, <2>1, <2>2 DEF OpenLink
<1> QED
  BY <1>1, <1>2, <1>3 DEF Prepare

\* A flash that succeeds in a timely run meets a silent core and an empty buffer.
LEMMA FlashTraces ==
    ASSUME NucleoInv, Traced, Flash
    PROVE  Traced'
<1> USE Pairs DEF Traced
<1>1. pc = "flash" /\ out.result = "UNKNOWN" /\ UNCHANGED <<built, timely>>
  BY DEF Flash, NucleoInv, Ordered, Goto, ToolFails, Raise
<1>2. ASSUME NEW i \in Slots, WriteFlash(i) PROVE RamTraced'
  BY <1>2 DEF WriteFlash, RamTraced, Writing
<1>3. CASE WriteFlash(built) /\ Goto("reset")
  <2>1. built \in Slots
    BY DEF NucleoInv, Typed
  <2>2. pc' = "reset" /\ out' = out /\ flash' = built /\ rx' = rx
    BY <1>3 DEF Goto, WriteFlash, wireVars
  <2>3. timely => FramesTraced'
    BY <1>1, <2>2 DEF RunTraced, FramesTraced
  <2>4. RunTraced'
    BY <1>1, <2>2, <2>3 DEF RunTraced
  <2> QED
    BY <1>2, <1>3, <2>1, <2>4
<1>4. CASE ToolFails /\ UNCHANGED benchVars
  BY <1>4, RaiseTraces DEF ToolFails
<1>5. CASE ToolFails /\ \E i \in {built, NoImage} : WriteFlash(i)
  <2>1. built \in Slots /\ NoImage \in Slots
    BY DEF NucleoInv, Typed, Slots
  <2>2. pc' = "finally" /\ out'.result # "PASS"
    BY <1>5 DEF ToolFails, Raise, ResultName, NucleoInv, Typed, Reports
  <2>3. RunTraced'
    BY <2>2 DEF RunTraced, FlashedPcs
  <2> QED
    BY <1>2, <1>5, <2>1, <2>3
<1> QED
  BY <1>3, <1>4, <1>5 DEF Flash

\* A reset changes neither the image nor what was received.
LEMMA ResetTraces ==
    ASSUME NucleoInv, Traced, Reset
    PROVE  Traced'
<1> USE Pairs DEF Traced
<1>1. pc = "reset" /\ out.result = "UNKNOWN" /\ UNCHANGED <<built, timely>>
  BY DEF Reset, NucleoInv, Ordered, Goto, ToolFails, Raise
<1>2. CASE ToolFails /\ UNCHANGED benchVars
  BY <1>2, RaiseTraces DEF ToolFails
<1>3. CASE ResetCore
  <2>1. RamTraced' /\ flash' = flash /\ rx' = rx
    BY <1>3 DEF ResetCore, RamTraced, Writing, wireVars
  <2>2. pc' \in {"collect", "finally"} /\ out'.result # "PASS"
    BY <1>1 DEF Reset, Goto, ToolFails, Raise, ResultName, NucleoInv, Typed, Reports
  <2>3. FramesTraced' = FramesTraced
    BY <1>1, <2>1 DEF FramesTraced
  <2>4. RunTraced'
    BY <1>1, <2>1, <2>2, <2>3 DEF RunTraced, FlashedPcs
  <2> QED
    BY <2>1, <2>4
<1> QED
  BY <1>2, <1>3 DEF Reset, Goto

\* The two transports.
LEMMA CollectTraces ==
    ASSUME NucleoInv, Traced, Collect
    PROVE  Traced'
<1> USE Pairs DEF FlashedPcs, BoardPcs
<1>1. CASE CollectFrame
  <2>1. CASE Raise("InfrastructureError")
    BY <1>1, <2>1, RaiseTraces DEF CollectFrame
  <2>2. CASE rx[First + 1].part = "hex" /\ Take(rx[First + 1].res)
    <3>1. First + 1 \in 1 .. Len(rx)
      BY <1>1, FirstMatches DEF CollectFrame, Matches, NucleoInv, Typed
    <3>2. timely => rx[First + 1].res.img = built
      BY <1>1, <2>2, <3>1 DEF CollectFrame, Traced, RunTraced, FramesTraced
    <3>3. /\ pc' = "validate" /\ UNCHANGED <<benchVars, built, timely>>
          /\ out'.bench = rx[First + 1].res
      BY <1>1, <2>2 DEF CollectFrame, Take, NucleoInv, Typed, Reports
    <3> QED
      BY <1>1, <3>2, <3>3, QuietTraces DEF CollectFrame
  <2> QED
    BY <1>1, <2>1, <2>2 DEF CollectFrame
<1>2. CASE WaitExpires
  BY <1>2, GotoTraces DEF WaitExpires, TimeUp
<1>3. CASE Silent \/ FindResult
  <2>1. timely => CoreQuiet
    BY <1>3 DEF Silent, FindResult, Traced, RunTraced
  <2> QED
    BY <1>3, <2>1, RaiseTraces, GotoTraces DEF Silent, FindResult, ToolFails
<1>4. CASE ReadOverSwd
  <2>1. CASE gres.state = "complete" /\ Take(gres)
    <3>1. timely => CoreQuiet /\ (gres.img = built \/ ~ cleared)
      BY <1>4, <2>1 DEF ReadOverSwd, Traced, RunTraced, RamTraced
    <3>2. /\ pc' = "validate" /\ UNCHANGED <<benchVars, built, timely>>
          /\ out'.bench = gres
      BY <1>4, <2>1 DEF ReadOverSwd, Take, NucleoInv, Typed, Reports
    <3> QED
      BY <1>4, <3>1, <3>2, QuietTraces DEF ReadOverSwd
  <2> QED
    BY <1>4, <2>1, RaiseTraces DEF ReadOverSwd, ToolFails
<1> QED
  BY <1>1, <1>2, <1>3, <1>4 DEF Collect

\* The verdict and what follows it.
LEMMA EndTraces ==
    ASSUME NucleoInv, Traced, Validate \/ Finally \/ NextRun
    PROVE  Traced'
<1> USE Pairs DEF FlashedPcs
<1>1. CASE Validate
  <2>1. CASE Raise("TestFailure")
    BY <1>1, <2>1, RaiseTraces DEF Validate
  <2>2. CASE ~ Raise("TestFailure")
    <3>1. /\ pc = "validate" /\ pc' = "finally" /\ UNCHANGED <<benchVars, built, timely>>
          /\ out'.bench = out.bench
      BY <1>1, <2>2 DEF Validate, NucleoInv, Typed, Reports
    <3>2. timely => Sound
      BY <3>1 DEF Traced, RunTraced
    <3> QED
      BY <3>1, <3>2, QuietTraces DEF Sound
  <2> QED
    BY <2>1, <2>2
<1>2. CASE Finally
  <2>1. /\ pc' = "exited" /\ UNCHANGED <<chipVars, built, timely>>
        /\ out'.bench = out.bench /\ out'.result = out.result
    BY <1>2 DEF Finally, NucleoInv, Typed, Reports
  <2>2. CoreQuiet' = CoreQuiet /\ (Sound => Sound')
    BY <2>1 DEF CoreQuiet, Sound, chipVars
  <2> QED
    BY <2>1, <2>2 DEF Traced, RamTraced, RunTraced, chipVars
<1>3. CASE NextRun
  <2>1. pc' = "provenance" /\ out'.result = "UNKNOWN"
    BY <1>3 DEF NextRun, FreshOut
  <2>2. RamTraced'
    BY <1>3 DEF NextRun, Replug, HostReboot, Traced, RamTraced, Writing, NoResult, chipVars
  <2> QED
    BY <2>1, <2>2 DEF Traced, RunTraced
<1> QED
  BY <1>1, <1>2, <1>3

\* A poll that fails passes nothing.
LEMMA PollTraces ==
    ASSUME NucleoInv, Traced, PollFails
    PROVE  Traced'
<1>1. /\ pc' = "finally" /\ UNCHANGED <<chipVars, wireVars, built, timely>> /\ out'.result # "PASS"
      /\ pc = "swd"
  BY PollEnds DEF NucleoInv
<1>2. CoreQuiet' = CoreQuiet /\ RamTraced' /\ FramesTraced' = FramesTraced
  BY <1>1 DEF CoreQuiet, RamTraced, FramesTraced, Traced, chipVars, wireVars
<1>3. RunTraced'
  BY <1>1, <1>2 DEF RunTraced, Traced, Sound, FlashedPcs, chipVars, wireVars
<1> QED
  BY <1>2, <1>3 DEF Traced

\* Every step keeps the trace of the image.
LEMMA TracedStep ==
    ASSUME NucleoInv, Traced, [Next]_vars
    PROVE  Traced'
<1>1. CASE UNCHANGED vars
  <2>1. CoreQuiet' = CoreQuiet /\ FramesTraced' = FramesTraced /\ Sound' = Sound
    BY <1>1 DEF vars, benchVars, chipVars, wireVars, runVars, CoreQuiet, FramesTraced, Sound
  <2> QED
    BY <1>1, <2>1 DEF vars, benchVars, chipVars, wireVars, runVars, Traced, RamTraced, RunTraced
<1> QED
  BY <1>1, FirmwareTraces, FaultTraces, InterruptTraces, PrepareTraces, FlashTraces,
     ResetTraces, CollectTraces, PollTraces, EndTraces DEF Next, RunnerStep

\* A timely run that passes reports the result of the image it built, for every
\* set of images and every number of faults; a core that hangs on its way to
\* Reset_Handler is the one exception.
THEOREM PassIsThisImage == Spec => []PassMeansThisImageRan
<1>1. NucleoInv /\ Traced => PassMeansThisImageRan
  BY DEF Traced, RunTraced, Sound, PassMeansThisImageRan
<1>2. Init => Traced
  BY TracedInitially
<1>3. NucleoInv /\ NucleoInv' /\ Traced /\ [Next]_vars => Traced'
  BY TracedStep
<1> QED
  BY <1>1, <1>2, <1>3, NucleoInvariant, PTL DEF Spec

----------------------------------------------------------------------------
(* The fallback, and exit 3: with nothing going wrong during the run, the    *)
(* bridge carries the whole of the last frame or has carried nothing at all. *)

Calm == timely /\ faults = 0

WaitPcs == {"collect", "silent", "nm", "swd"}

Part(i, p) == i \in 1 .. Len(rx) /\ rx[i].part = p

\* The end of the buffer is what the core has sent of its frame.
Framed ==
    /\ core = "hex" => Part(Len(rx), "begin")
    /\ core = "end" => Part(Len(rx) - 1, "begin") /\ Part(Len(rx), "hex")
    /\ core = "beat" => Len(rx) - 2 \in Matches

Equipped ==
    /\ pc \in {"tools", "discover", "open"} \cup BoardPcs => built \in Images
    /\ pc \in BoardPcs => link

\* Nothing arrives over a stuck bridge.
Muted == Calm /\ vcp = "stuck" /\ pc \in BoardPcs => rx = <<>>

Framing ==
    Calm /\ pc \in WaitPcs =>
       /\ core \in Executing \cup {"beat"}
       /\ core = "beat" => gres.state = "complete"
       /\ vcp = "ok" => Framed

\* Past the wait for the frame only a stuck bridge remains.
Fallen == Calm /\ pc \in WaitPcs \ {"collect"} => vcp = "stuck"

\* Exit 3 is charged to a fault.
Blamed == timely /\ out.exit = 3 => faults > 0

\* The invariant behind the fallback.
Heard == Equipped /\ Muted /\ Framing /\ Fallen /\ Blamed

\* The first run has heard nothing.
LEMMA HeardInitially == Init => Heard
BY DEF Init, BenchInit, FreshOut, Heard, Equipped, Muted, Framing, Fallen, Blamed, BoardPcs,
   WaitPcs, NoExit

\* One more part at the end of the buffer.
LEMMA Appended ==
    ASSUME NucleoInv, link, vcp = "ok", NEW p, rx' = Received(p)
    PROVE  /\ Len(rx) \in Nat /\ Len(rx') = Len(rx) + 1
           /\ \A j \in 1 .. Len(rx) : rx'[j] = rx[j]
           /\ rx'[Len(rx')].part = p
<1>1. rx' = Append(rx, [part |-> p, res |-> gres])
  BY DEF Received
<1> DEFINE r == [part |-> p, res |-> gres]
<1>2. rx \in Seq([part : Parts, res : Results]) /\ r.part = p
  BY DEF NucleoInv, Typed
<1> HIDE DEF r
<1>3. /\ Len(rx) \in Nat /\ Len(rx') = Len(rx) + 1
      /\ \A j \in 1 .. Len(rx) : rx'[j] = rx[j]
      /\ rx'[Len(rx) + 1] = r
  BY <1>1, <1>2 DEF r
<1> QED
  BY <1>2, <1>3

\* A core of the new image gets on with its frame; a bridge that is stuck lets
\* none of it through.
LEMMA FirmwareHears ==
    ASSUME NucleoInv, Traced, Heard, FirmwareStep, UNCHANGED runVars
    PROVE  Heard'
<1> USE DEF Heard
<1>1. /\ faults \in Nat /\ faults' \in {faults, faults + 1} /\ vcp' = vcp /\ link' = link
      /\ pc' = pc /\ built' = built /\ out' = out /\ timely' = timely
  BY FirmwareAssumption DEF NucleoInv, Typed, FirmwareStep, Boot, TestStarted, Conclude,
     SendBegin, SendHex, SendEnd, Send, Fault, wireVars, runVars
<1>2. Equipped' /\ Blamed'
  BY <1>1 DEF Equipped, Blamed
<1>3. CASE ~ Calm'
  BY <1>2, <1>3 DEF Muted, Framing, Fallen
<1>4. CASE Calm'
  <2>1. Calm /\ faults' = faults
    BY <1>1, <1>4 DEF Calm
  <2>2. Fallen'
    BY <1>1, <2>1 DEF Fallen
  <2>3. Muted'
    <3>1. vcp = "stuck" => rx' = rx
      BY DEF FirmwareStep, Boot, TestStarted, Conclude, SendBegin, SendHex, SendEnd, Send,
         Received, wireVars
    <3> QED
      BY <1>1, <2>1, <3>1 DEF Muted
  <2>4. Framing'
    <3> SUFFICES ASSUME pc \in WaitPcs
                 PROVE  /\ core' \in Executing \cup {"beat"}
                        /\ core' = "beat" => gres'.state = "complete"
                        /\ vcp = "ok" => Framed'
      BY <1>1 DEF Framing
    <3>1. flash \in Images /\ link
      BY <2>1 DEF Equipped, Traced, RunTraced, FlashedPcs, WaitPcs, BoardPcs, Calm
    <3>2. vcp = "ok" => Framed
      BY <2>1 DEF Framing
    <3>3. CASE Boot \/ TestStarted \/ Conclude
      <4>1. core' \in {"start", "bench", "concluded", "begin"}
        BY <3>1, <3>3 DEF Boot, TestStarted, Conclude
      <4> QED
        BY <4>1 DEF Framed, Executing
    <3>4. CASE SendBegin
      <4>1. core' = "hex" /\ rx' = Received("begin")
        BY <2>1, <3>4, <1>1 DEF SendBegin, Send, Fault
      <4>2. vcp = "ok" => Part(Len(rx), "begin")'
        BY <3>1, <4>1, Appended DEF Part
      <4> QED
        BY <4>1, <4>2 DEF Framed, Executing
    <3>5. CASE SendHex
      <4>1. core = "hex" /\ core' = "end" /\ rx' = Received("hex")
        BY <2>1, <3>5, <1>1 DEF SendHex, Send, Fault
      <4>2. vcp = "ok" => Part(Len(rx) - 1, "begin")' /\ Part(Len(rx), "hex")'
        BY <3>1, <3>2, <4>1, Appended DEF Part, Framed
      <4> QED
        BY <4>1, <4>2 DEF Framed, Executing
    <3>6. CASE SendEnd
      <4>1. core = "end" /\ core' = "beat" /\ gres' = gres /\ rx' = Received("end")
        BY <2>1, <3>6, <1>1 DEF SendEnd, Send, Fault
      <4>2. gres.state = "complete"
        BY <4>1 DEF NucleoInv, Finished, Final
      <4>3. ASSUME vcp = "ok" PROVE (Len(rx) - 2 \in Matches)'
        <5>1. /\ Len(rx) \in Nat /\ Len(rx') = Len(rx) + 1
              /\ rx'[Len(rx) - 1].part = "begin" /\ rx'[Len(rx)].part = "hex"
              /\ rx'[Len(rx) + 1].part = "end" /\ Len(rx) - 1 \in 1 .. Len(rx)
          BY <3>1, <3>2, <4>1, <4>3, Appended DEF Part, Framed
        <5> DEFINE i == Len(rx) - 1
        <5>2. /\ i \in 1 .. Len(rx') - 2 /\ Len(rx') - 2 = i
              /\ i + 1 = Len(rx) /\ i + 2 = Len(rx) + 1
          BY <5>1
        <5>3. rx'[i].part = "begin" /\ rx'[i + 1].part = "hex" /\ rx'[i + 2].part = "end"
          BY <5>1, <5>2
        <5> HIDE DEF i
        <5>4. i \in Matches'
          BY <5>2, <5>3 DEF Matches
        <5> QED
          BY <5>2, <5>4
      <4> QED
        BY <4>1, <4>2, <4>3 DEF Framed
    <3> QED
      BY <3>3, <3>4, <3>5, <3>6 DEF FirmwareStep
  <2> QED
    BY <1>2, <2>2, <2>3, <2>4
<1> QED
  BY <1>3, <1>4

\* After a fault there is nothing left to promise.
LEMMA FaultHears ==
    ASSUME NucleoInv, Heard, FaultStep, UNCHANGED runVars
    PROVE  Heard'
<1>1. faults' > 0 /\ link' = link
  BY FirmwareAssumption DEF NucleoInv, Typed, FaultStep, BridgeSticks, SwdLost, CoreHangs, Fault,
     wireVars
<1>2. ~ Calm' /\ Equipped'
  BY <1>1 DEF Calm, Heard, Equipped, runVars
<1> QED
  BY <1>1, <1>2 DEF Heard, Muted, Framing, Fallen, Blamed

\* A step that leaves the bench alone.
LEMMA QuietHears ==
    ASSUME Heard, UNCHANGED <<benchVars, built, timely>>,
           pc' \in {"tools", "discover", "open"} =>
              pc \in {"tools", "discover", "open"} \cup BoardPcs,
           pc' \in BoardPcs => pc \in BoardPcs,
           pc' \in WaitPcs => pc \in WaitPcs,
           Calm /\ pc' \in WaitPcs \ {"collect"} => vcp = "stuck",
           timely /\ out'.exit = 3 => faults > 0
    PROVE  Heard'
<1>1. Calm' = Calm /\ Framed' = Framed
  BY DEF Calm, Framed, Part, Matches, benchVars, chipVars, wireVars
<1>2. Equipped' /\ Muted' /\ Fallen' /\ Blamed'
  BY <1>1 DEF Heard, Equipped, Muted, Fallen, Blamed, benchVars, chipVars, wireVars
<1>3. Framing'
  BY <1>1 DEF Heard, Framing, benchVars, chipVars, wireVars
<1> QED
  BY <1>2, <1>3 DEF Heard

\* Only RecoveryRequired exits with 3.
LEMMA RaiseHears ==
    ASSUME NucleoInv, Heard, NEW e \in Exceptions, Raise(e), UNCHANGED benchVars,
           e = "RecoveryRequired" => ~ Calm
    PROVE  Heard'
<1>1. pc' = "finally" /\ UNCHANGED <<built, timely>> /\ out'.exit = ExitCode(e)
  BY DEF Raise, NucleoInv, Typed, Reports
<1>2. ExitCode(e) = 3 => e = "RecoveryRequired"
  BY DEF ExitCode, Exceptions
<1>3. timely /\ out'.exit = 3 => faults > 0
  BY <1>1, <1>2, FirmwareAssumption DEF Calm, NucleoInv, Typed
<1> QED
  BY <1>1, <1>3, QuietHears DEF BoardPcs, WaitPcs

\* Before the flash, and the interrupt.
LEMMA PrepareHears ==
    ASSUME NucleoInv, Heard, Prepare \/ Interrupt
    PROVE  Heard'
<1> USE Pairs DEF BoardPcs, WaitPcs
<1>1. CASE Provenance \/ RequireStFlash \/ Discover
  <2>1. CASE ToolFails
    BY <1>1, <2>1, RaiseHears DEF Provenance, RequireStFlash, Discover, ToolFails
  <2>2. CASE \E l \in {"build", "discover", "open"} : Goto(l)
    <3>1. /\ UNCHANGED <<benchVars, built, timely, out>>
          /\ pc' \in {"build", "discover", "open"}
          /\ pc' \in {"discover", "open"} => pc \in {"tools", "discover"}
      BY <1>1, <2>2 DEF Provenance, RequireStFlash, Discover, Goto, ToolFails, Raise
    <3>2. timely /\ out'.exit = 3 => faults > 0
      BY <3>1 DEF Heard, Blamed
    <3> QED
      BY <3>1, <3>2, QuietHears
  <2> QED
    BY <1>1, <2>1, <2>2 DEF Provenance, RequireStFlash, Discover, ToolFails
<1>2. CASE Build
  <2>1. CASE ToolFails
    BY <1>2, <2>1, RaiseHears DEF Build, ToolFails
  <2>2. CASE ~ ToolFails
    <3>1. /\ pc' = "tools" /\ built' \in Images /\ UNCHANGED <<benchVars, out, timely>>
      BY <1>2, <2>2 DEF Build
    <3> QED
      BY <3>1 DEF Heard, Equipped, Muted, Framing, Fallen, Blamed, benchVars
  <2> QED
    BY <2>1, <2>2
<1>3. CASE OpenLink
  <2>1. CASE Raise("Other") /\ UNCHANGED <<link, rx>>
    BY <1>3, <2>1, RaiseHears DEF OpenLink, benchVars, wireVars
  <2>2. CASE ~ (Raise("Other") /\ UNCHANGED <<link, rx>>)
    <3>1. /\ pc = "open" /\ pc' = "flash" /\ link' = TRUE /\ rx' = <<>>
          /\ UNCHANGED <<built, out, timely, faults>>
      BY <1>3, <2>2 DEF OpenLink
    <3> QED
      BY <3>1 DEF Heard, Equipped, Muted, Framing, Fallen, Blamed
  <2> QED
    BY <2>1, <2>2
<1>4. CASE Interrupt
  <2>1. pc' = "finally" /\ UNCHANGED <<benchVars, built, timely, out>>
    BY <1>4 DEF Interrupt, Goto
  <2>2. timely /\ out'.exit = 3 => faults > 0
    BY <2>1 DEF Heard, Blamed
  <2> QED
    BY <2>1, <2>2, QuietHears
<1> QED
  BY <1>1, <1>2, <1>3, <1>4 DEF Prepare

\* The flash and the reset leave the wire alone; after the reset the core is at
\* its beginning.
LEMMA StFlashHears ==
    ASSUME NucleoInv, Heard, Flash \/ Reset
    PROVE  Heard'
<1> USE Pairs DEF BoardPcs, WaitPcs
<1>1. UNCHANGED <<vcp, link, rx, faults, built, timely>> /\ pc \in {"flash", "reset"}
  BY DEF Flash, Reset, WriteFlash, ResetCore, Goto, ToolFails, Raise, benchVars, wireVars
<1>2. CASE ToolFails
  <2>1. pc' = "finally" /\ out'.exit = 2
    BY <1>2 DEF ToolFails, Raise, ExitCode, NucleoInv, Typed, Reports
  <2> QED
    BY <1>1, <2>1 DEF Heard, Equipped, Muted, Framing, Fallen, Blamed
<1>3. CASE Flash /\ Goto("reset")
  BY <1>1, <1>3 DEF Goto, Calm, Heard, Equipped, Muted, Framing, Fallen, Blamed
<1>4. CASE Reset /\ ResetCore /\ Goto("collect")
  <2>1. pc' = "collect" /\ core' = "reset" /\ out' = out
    BY <1>4 DEF Goto, ResetCore
  <2>2. Framed'
    BY <2>1 DEF Framed
  <2> QED
    BY <1>1, <2>1, <2>2 DEF Calm, Heard, Equipped, Muted, Framing, Fallen, Blamed, Executing
<1> QED
  BY <1>2, <1>3, <1>4 DEF Flash, Reset

\* In a calm run only a stuck bridge lets the wait expire, and a core read over
\* SWD has finished.
LEMMA CollectHears ==
    ASSUME NucleoInv, Traced, Heard, Collect
    PROVE  Heard'
<1> USE Pairs DEF BoardPcs, WaitPcs
<1>1. ASSUME pc \in WaitPcs, NEW r \in Results, Take(r), UNCHANGED benchVars PROVE Heard'
  <2>1. /\ pc' = "validate" /\ UNCHANGED <<benchVars, built, timely>>
        /\ out'.exit = out.exit
    BY <1>1 DEF Take, NucleoInv, Typed, Reports
  <2>2. timely /\ out'.exit = 3 => faults > 0
    BY <2>1 DEF Heard, Blamed
  <2> QED
    BY <2>1, <2>2, QuietHears
<1>2. ASSUME pc \in WaitPcs, NEW l \in {"silent", "nm", "swd"}, Goto(l), UNCHANGED benchVars,
             Calm => vcp = "stuck"
      PROVE  Heard'
  <2>1. pc' = l /\ UNCHANGED <<built, timely, out>>
    BY <1>2 DEF Goto
  <2>2. timely /\ out'.exit = 3 => faults > 0
    BY <2>1 DEF Heard, Blamed
  <2> QED
    BY <1>2, <2>1, <2>2, QuietHears
<1>3. CASE CollectFrame
  <2>1. rx[First + 1].res \in Results
    BY <1>3, FrameTyped DEF CollectFrame, NucleoInv
  <2> QED
    BY <1>1, <1>3, <2>1, RaiseHears DEF CollectFrame
<1>4. CASE WaitExpires
  <2>1. ASSUME Calm PROVE vcp = "stuck"
    <3>1. core = "beat"
      BY <1>4, <2>1 DEF WaitExpires, TimeUp, CoreQuiet, Calm, Heard, Framing
    <3>2. ~ Framed
      BY <1>4, <3>1 DEF WaitExpires, Framed
    <3> QED
      BY <1>4, <2>1, <3>2 DEF WaitExpires, Heard, Framing, NucleoInv, Typed
  <2> QED
    BY <1>2, <1>4, <2>1 DEF WaitExpires
<1>5. CASE Silent
  <2>1. Calm => vcp = "stuck" /\ rx = <<>>
    BY <1>5 DEF Silent, Heard, Fallen, Muted
  <2> QED
    BY <1>2, <1>5, <2>1, RaiseHears DEF Silent
<1>6. CASE FindResult
  <2>1. Calm => vcp = "stuck"
    BY <1>6 DEF FindResult, Heard, Fallen
  <2> QED
    BY <1>2, <1>6, <2>1, RaiseHears DEF FindResult, ToolFails
<1>7. CASE ReadOverSwd
  <2>1. ASSUME Calm PROVE gres.state = "complete"
    <3>1. CoreQuiet
      BY <1>7, <2>1 DEF ReadOverSwd, Calm, Traced, RunTraced
    <3> QED
      BY <1>7, <2>1, <3>1 DEF ReadOverSwd, CoreQuiet, Heard, Framing
  <2>2. gres \in Results
    BY DEF NucleoInv, Typed
  <2> QED
    BY <1>1, <1>7, <2>1, <2>2, RaiseHears DEF ReadOverSwd, ToolFails
<1> QED
  BY <1>3, <1>4, <1>5, <1>6, <1>7 DEF Collect

\* The verdict, the report and the next run.
LEMMA EndHears ==
    ASSUME NucleoInv, Heard, Validate \/ Finally \/ NextRun
    PROVE  Heard'
<1> USE Pairs DEF BoardPcs, WaitPcs
<1>1. CASE Validate
  <2>1. CASE Raise("TestFailure")
    BY <1>1, <2>1, RaiseHears DEF Validate
  <2>2. CASE ~ Raise("TestFailure")
    <3>1. /\ pc' = "finally" /\ UNCHANGED <<benchVars, built, timely>> /\ out'.exit = 0
      BY <1>1, <2>2 DEF Validate, NucleoInv, Typed, Reports
    <3> QED
      BY <3>1, QuietHears
  <2> QED
    BY <2>1, <2>2
<1>2. CASE Finally
  <2>1. pc' = "exited" /\ UNCHANGED <<faults, timely>> /\ (out'.exit = 3 => out.exit = 3)
    BY <1>2 DEF Finally, NucleoInv, Typed, Reports
  <2> QED
    BY <2>1 DEF Heard, Equipped, Muted, Framing, Fallen, Blamed
<1>3. CASE NextRun
  <2>1. pc' = "provenance" /\ out'.exit = NoExit
    BY <1>3 DEF NextRun, FreshOut
  <2> QED
    BY <2>1 DEF Heard, Equipped, Muted, Framing, Fallen, Blamed, NoExit
<1> QED
  BY <1>1, <1>2, <1>3

\* A poll that fails is a fault.
LEMMA PollHears ==
    ASSUME NucleoInv, Heard, PollFails
    PROVE  Heard'
<1>1. /\ pc' = "finally" /\ faults' \in 1 .. MaxFaults /\ out'.exit = 2
  BY PollEnds DEF NucleoInv
<1>2. faults' # 0 /\ pc' \notin BoardPcs /\ pc' \notin {"tools", "discover", "open"}
  BY <1>1, FirmwareAssumption DEF BoardPcs
<1> QED
  BY <1>1, <1>2 DEF Heard, Equipped, Muted, Framing, Fallen, Blamed, Calm, WaitPcs, BoardPcs

\* Every step keeps what was heard.
LEMMA HeardStep ==
    ASSUME NucleoInv, Traced, Heard, [Next]_vars
    PROVE  Heard'
<1>1. CASE UNCHANGED vars
  <2>1. UNCHANGED <<benchVars, built, timely, pc, out>>
    BY <1>1 DEF vars, runVars
  <2>2. timely /\ out'.exit = 3 => faults > 0
    BY <2>1 DEF Heard, Blamed
  <2>3. Calm /\ pc' \in WaitPcs \ {"collect"} => vcp = "stuck"
    BY <2>1 DEF Heard, Fallen
  <2> QED
    BY <2>1, <2>2, <2>3, QuietHears
<1> QED
  BY <1>1, FirmwareHears, FaultHears, PrepareHears, StFlashHears, CollectHears,
     PollHears, EndHears
     DEF Next, RunnerStep

\* The image's trace and what was heard, together.
LEMMA HeardAlways == Spec => [](NucleoInv /\ Traced /\ Heard)
<1>1. Init => Traced /\ Heard
  BY TracedInitially, HeardInitially
<1>2. NucleoInv /\ NucleoInv' /\ Traced /\ Heard /\ [Next]_vars => Traced' /\ Heard'
  BY TracedStep, HeardStep
<1> QED
  BY <1>1, <1>2, NucleoInvariant, PTL DEF Spec

\* A result is read over SWD only from behind a bridge that is really stuck,
\* which is what nucleo-hil.yml's request for a replug says.
THEOREM FallbackIsForStuckBridges == Spec => []FallbackMeansStuckBridge
<1>1. Heard => FallbackMeansStuckBridge
  BY DEF Heard, Fallen, FallbackMeansStuckBridge, Calm, WaitPcs
<1> QED
  BY <1>1, HeardAlways, PTL

\* A timely run without faults never exits with 3, whatever bench it was left.
THEOREM HealthyBoardsAreLeftAlone == Spec => []HealthyBoardIsLeftAlone
<1>1. Heard => HealthyBoardIsLeftAlone
  BY DEF Heard, Blamed, HealthyBoardIsLeftAlone
<1> QED
  BY <1>1, HeardAlways, PTL
=============================================================================
