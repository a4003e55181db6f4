-------------------------- MODULE VisionHil_proofs --------------------------
(***************************************************************************)
(* What holds of the VisionCB runner for every number of attempts, every   *)
(* set of images and every bound of the bench.                             *)
(*                                                                         *)
(* The recovery properties depend on the runner's own variables alone, so  *)
(* each step of Next is first reduced to one of a few shapes of a runner   *)
(* step (Shapes below); the inductive invariant is then checked shape by   *)
(* shape.                                                                  *)
(***************************************************************************)
EXTENDS VisionHil, SequenceTheorems, TLAPS

ConsolePcs == SequencePcs \ {"acquire", "power_on"}
HubPcs == {"hub_off", "hub_on", "poll"}

\* A statement of the sequence that goes on to another, without touching power.
Step == pc \in SequencePcs \ {"acquire"} /\ \E l \in ConsolePcs : Goto(l)

\* A statement of the sequence that raises.
Throw == pc \in ConsolePcs /\ \E e \in Exceptions : Raise(e)

\* The relay could not be switched.
RelayFails == pc \in {"acquire", "power_on"} /\ Raise("Other")

RelayOff ==
    /\ pc = "acquire"
    /\ pc' = "power_on"
    /\ attempt' = attempt + 1
    /\ cycles' = [cycles EXCEPT !.board = @ + 1]
    /\ UNCHANGED <<seqNo, phase, probeTry, built, out>>

Again == pc = "catch" /\ attempt < AcquireAttempts /\ Goto("acquire")

SecondBoot ==
    /\ pc = "bootaux_check"
    /\ pc' = "image"
    /\ UNCHANGED <<seqNo, attempt, probeTry, built, out, cycles>>

Parsed ==
    /\ pc = "collect"
    /\ pc' = "validate"
    /\ out' = [out EXCEPT !.bench = screen.json, !.fields = @ \cup {"benchmark"}]
    /\ UNCHANGED <<seqNo, phase, attempt, probeTry, built, cycles>>

Passed ==
    /\ pc = "validate"
    /\ pc' = "finally"
    /\ out' = [out EXCEPT !.result = "PASS", !.exit = 0]
    /\ UNCHANGED <<seqNo, phase, attempt, probeTry, built, cycles>>

Failed == pc = "validate" /\ Raise("TestFailure")

\* run_hardware_sequence: everything between the relay and the parsed result.
Sequence == Step \/ Throw \/ RelayFails \/ RelayOff \/ Again \/ SecondBoot \/ Parsed

\* The shapes of uboot_resume_linux and login.
LEMMA ResumeShape == Resume => Step \/ Throw
<1>1. LoadImage => Step \/ Throw
  BY DEF LoadImage, Send, Found, Missing, Step, Throw, ConsolePcs, SequencePcs, AcquirePcs,
         ResumePcs, Exceptions
<1>2. LoadDtb => Step \/ Throw
  BY DEF LoadDtb, Send, Found, Missing, Step, Throw, ConsolePcs, SequencePcs, AcquirePcs,
         ResumePcs, Exceptions
<1>3. BootLinux => Step \/ Throw
  BY DEF BootLinux, Send, Step, Throw, ConsolePcs, SequencePcs, AcquirePcs,
         ResumePcs, Exceptions
<1>4. WaitForLinux => Step \/ Throw
  BY DEF WaitForLinux, CheckBanner, Missing, Step, Throw, ConsolePcs, SequencePcs,
         AcquirePcs, ResumePcs, LoginPcs, Exceptions
<1>5. Login => Step \/ Throw
  BY DEF Login, Send, Found, Missing, Step, Throw, ConsolePcs, SequencePcs, AcquirePcs,
         LoginPcs, SafetyPcs, Exceptions
<1> QED
  BY <1>1, <1>2, <1>3, <1>4, <1>5 DEF Resume

\* The shapes of the storage check.
LEMMA SafetyShape == Safety => Step \/ Throw
<1>1. CheckSdRoot \/ CheckMounts => Step \/ Throw
  BY DEF CheckSdRoot, CheckMounts, Send, Found, Missing, Step, Throw, ConsolePcs,
         SequencePcs, AcquirePcs, SafetyPcs, Exceptions
<1>2. UmountEmmc \/ Recheck => Step \/ Throw
  BY DEF UmountEmmc, Recheck, AfterSafety, Send, Found, Step, Throw, ConsolePcs,
         SequencePcs, AcquirePcs, SafetyPcs, TransferPcs, CollectPcs, Exceptions
<1> QED
  BY <1>1, <1>2 DEF Safety

\* The shapes of the transfer and of the reader's installation.
LEMMA DeployShape == Deploy => Step \/ Throw
<1>1. CheckPresent \/ Transfer \/ VerifyTransfer => Step \/ Throw
  BY DEF CheckPresent, Transfer, VerifyTransfer, Send, Found, Missing, Step, Throw,
         ConsolePcs, SequencePcs, AcquirePcs, TransferPcs, ReaderPcs, Exceptions
<1>2. CheckReader \/ SendSource \/ CompileReader \/ MarkReader => Step \/ Throw
  BY DEF CheckReader, SendSource, CompileReader, MarkReader, Send, Found, Missing, Step,
         Throw, ConsolePcs, SequencePcs, AcquirePcs, ReaderPcs, M4Pcs, Exceptions
<1> QED
  BY <1>1, <1>2 DEF Deploy

\* The shapes of the M4's start, the collection and the validation.
LEMMA MeasureShape == Measure => Step \/ Throw \/ SecondBoot \/ Parsed \/ Passed \/ Failed
<1>1. EnterUboot \/ LoadFirmware \/ CopyFirmware \/ StartM4 => Step \/ Throw
  BY DEF EnterUboot, LoadFirmware, CopyFirmware, StartM4, Send, Found, Missing, Step,
         Throw, ConsolePcs, SequencePcs, AcquirePcs, M4Pcs, Exceptions
<1>2. CheckStart => Throw \/ SecondBoot
  BY DEF CheckStart, Throw, SecondBoot, ConsolePcs, SequencePcs, AcquirePcs, M4Pcs, Exceptions
<1>3. AskResult \/ CollectResult => Step \/ Throw \/ Parsed
  BY DEF AskResult, CollectResult, ParseResult, Send, Found, Missing, Step, Throw, Parsed,
         ConsolePcs, SequencePcs, AcquirePcs, CollectPcs, Exceptions
<1>4. Validate => Passed \/ Failed
  BY DEF Validate, Passed, Failed
<1> QED
  BY <1>1, <1>2, <1>3, <1>4 DEF Measure

\* The shapes of acquire_console_via_power_cycle.
LEMMA AcquireShape == Acquire => Step \/ Throw \/ RelayFails \/ RelayOff \/ Again
<1>1. PowerOff => RelayOff \/ RelayFails
  BY DEF PowerOff, RelayOff, RelayFails
<1>2. PowerOn => Step \/ RelayFails
  BY DEF PowerOn, Step, RelayFails, ConsolePcs, SequencePcs, AcquirePcs
<1>3. Catch => Step \/ Throw \/ Again
  BY DEF Catch, Found, Step, Throw, Again, ConsolePcs, SequencePcs, AcquirePcs, ResumePcs,
         Exceptions
<1>4. CatchBroken => Throw
  BY DEF CatchBroken, Throw, CatchPcs, ConsolePcs, SequencePcs, AcquirePcs, M4Pcs, Exceptions
<1> QED
  BY <1>1, <1>2, <1>3, <1>4 DEF Acquire

\* Every step of a behaviour is a preparation step, a sequence step, the end of
\* a run or none of the runner's business.
LEMMA Shapes ==
    ASSUME [Next]_vars
    PROVE  \/ Prepare \/ Sequence \/ Passed \/ Failed
           \/ Retry \/ Finally \/ Interrupt \/ NextRun \/ UNCHANGED runVars
<1>1. CASE RunnerStep
  BY <1>1, ResumeShape, SafetyShape, DeployShape, MeasureShape, AcquireShape
     DEF RunnerStep, Sequence
<1>2. CASE CatchKey \/ AutobootWins \/ ((BoardStep \/ FaultStep) /\ UNCHANGED runVars)
  BY <1>2 DEF CatchKey, AutobootWins
<1>3. CASE UNCHANGED vars
  BY <1>3 DEF vars, runVars
<1> QED
  BY <1>1, <1>2, <1>3 DEF Next

----------------------------------------------------------------------------
(* Recovery is bounded and is the last resort *)

\* Early in a run nothing has been cycled and no sequence was started; the hub
\* recovery comes before the first sequence or between the two; the sequence
\* counts as started while it runs.
Order ==
    /\ pc \in Pcs
    /\ seqNo \in 0 .. 2
    /\ pc \in {"provenance", "build", "elf", "discover"} => seqNo = 0 /\ probeTry = 0
    /\ pc \in HubPcs \cup {"open"} => seqNo < 2
    /\ pc \in SequencePcs \cup {"validate"} => seqNo > 0
    /\ pc = "retry" => seqNo = 1

\* Board power cycles: at most the attempts of the sequences before this one,
\* plus this one's own.
BoardCount ==
    /\ attempt \in 0 .. AcquireAttempts
    /\ cycles.board \in Nat
    /\ pc = "acquire" => attempt < AcquireAttempts
    /\ seqNo < 2 => cycles.board <= attempt
    /\ seqNo = 0 => cycles.board = 0
    /\ cycles.board <= AcquireAttempts + attempt
    /\ seqNo = 1 /\ pc \in (SequencePcs \ {"acquire"}) \cup HubPcs \cup {"retry", "open"}
          => cycles.board > 0
    /\ seqNo = 2 => cycles.board > 0
    /\ seqNo = 2 /\ pc \in SequencePcs \ {"acquire"} => cycles.board > 1

\* Hub port power cycles: at most one round in discovery and one in the retry.
HubCount ==
    /\ probeTry \in 0 .. ProbeAttempts
    /\ cycles.hub \in Nat
    /\ pc = "hub_off" => probeTry < ProbeAttempts
    /\ seqNo = 0 => cycles.hub <= probeTry
    /\ seqNo = 1 /\ pc \in SequencePcs \cup {"retry"} => cycles.hub <= ProbeAttempts
    /\ cycles.hub <= ProbeAttempts + probeTry
    /\ seqNo = 1 /\ pc \in {"hub_on", "poll", "open"} => cycles.hub > 0
    /\ seqNo = 2 => cycles.hub > 0

Shaped ==
    /\ cycles = [board |-> cycles.board, hub |-> cycles.hub]
    /\ out = [result |-> out.result, exit |-> out.exit, fields |-> out.fields,
              bench |-> out.bench, written |-> out.written]

\* A verdict is only set when the run is on its way out.
VerdictLast ==
    pc \notin {"finally", "exited"} => out.exit = NoExit /\ out.result = "UNKNOWN"

RecoveryInv ==
    /\ Order /\ BoardCount /\ HubCount /\ Shaped /\ VerdictLast
    /\ RecoveryIsLastResort

\* A run starts with nothing cycled.
LEMMA RecoveryInit == Init => RecoveryInv
BY HilAssumption
   DEF Init, FreshOut, NoExit, RecoveryInv, Order, BoardCount, HubCount, Shaped, VerdictLast,
       RecoveryIsLastResort, Pcs, SequencePcs, AcquirePcs, ResumePcs, LoginPcs, SafetyPcs,
       TransferPcs, ReaderPcs, M4Pcs, CollectPcs, HubPcs

\* The two ways a step of the sequence changes control, on the invariant.
LEMMA RaiseKeeps ==
    ASSUME RecoveryInv, NEW e \in Exceptions, Raise(e),
           pc \notin {"finally", "exited"},
           e = "RecoveryRequired" => \/ pc \in ConsolePcs
                                     \/ pc = "poll" /\ probeTry = ProbeAttempts
    PROVE  RecoveryInv'
<1> USE HilAssumption DEF RecoveryInv, Raise, Retried, ResultName, ExitCode, Exceptions, NoExit
<1>1. Order'
  BY DEF Order, Pcs, HubPcs, SequencePcs, AcquirePcs, ResumePcs, LoginPcs, SafetyPcs,
         TransferPcs, ReaderPcs, M4Pcs, CollectPcs
<1>2. BoardCount'
  BY DEF Order, BoardCount, HubPcs, SequencePcs, AcquirePcs, ResumePcs, LoginPcs, SafetyPcs,
         TransferPcs, ReaderPcs, M4Pcs, CollectPcs, ConsolePcs
<1>3. HubCount'
  BY DEF Order, HubCount, SequencePcs, AcquirePcs, ResumePcs, LoginPcs, SafetyPcs,
         TransferPcs, ReaderPcs, M4Pcs, CollectPcs
<1>4. Shaped'
  BY DEF Shaped
<1>5. VerdictLast'
  BY DEF VerdictLast
<1>6. RecoveryIsLastResort'
  BY DEF Shaped, VerdictLast, RecoveryIsLastResort, Order, BoardCount, HubCount, ConsolePcs
<1> QED
  BY <1>1, <1>2, <1>3, <1>4, <1>5, <1>6

\* Going on to the next statement of the sequence.
LEMMA StepKeeps ==
    ASSUME RecoveryInv, Step
    PROVE  RecoveryInv'
<1> USE DEF RecoveryInv, Step, Goto, ConsolePcs
<1>1. Order'
  BY DEF Order, Pcs, HubPcs, SequencePcs, AcquirePcs, ResumePcs, LoginPcs, SafetyPcs,
         TransferPcs, ReaderPcs, M4Pcs, CollectPcs
<1>2. BoardCount'
  BY DEF Order, BoardCount, HubPcs, SequencePcs, AcquirePcs, ResumePcs, LoginPcs, SafetyPcs,
         TransferPcs, ReaderPcs, M4Pcs, CollectPcs
<1>3. HubCount'
  BY DEF Order, HubCount, SequencePcs, AcquirePcs, ResumePcs, LoginPcs, SafetyPcs,
         TransferPcs, ReaderPcs, M4Pcs, CollectPcs
<1>4. Shaped'
  BY DEF Shaped
<1>5. VerdictLast'
  BY DEF VerdictLast, SequencePcs, AcquirePcs, ResumePcs, LoginPcs, SafetyPcs,
         TransferPcs, ReaderPcs, M4Pcs, CollectPcs
<1>6. RecoveryIsLastResort'
  BY DEF RecoveryIsLastResort
<1> QED
  BY <1>1, <1>2, <1>3, <1>4, <1>5, <1>6

\* Every shape of the hardware sequence.
LEMMA SequenceKeeps ==
    ASSUME RecoveryInv, Sequence
    PROVE  RecoveryInv'
<1> USE DEF RecoveryInv
<1>1. CASE Step
  BY <1>1, StepKeeps
<1>2. CASE Throw
  BY <1>2, RaiseKeeps DEF Throw, ConsolePcs, SequencePcs, AcquirePcs, ResumePcs, LoginPcs,
         SafetyPcs, TransferPcs, ReaderPcs, M4Pcs, CollectPcs
<1>3. CASE RelayFails
  BY <1>3, RaiseKeeps DEF RelayFails, Exceptions
<1>4. CASE RelayOff
  <2> USE <1>4 DEF RelayOff
  <2>1. Order'
    BY DEF Order, Pcs, HubPcs, SequencePcs, AcquirePcs
  <2>2. BoardCount'
    BY HilAssumption DEF Order, BoardCount, Shaped, HubPcs, SequencePcs, AcquirePcs
  <2>3. HubCount'
    BY DEF Order, HubCount, Shaped, SequencePcs, AcquirePcs
  <2>4. Shaped'
    BY DEF Shaped
  <2>5. VerdictLast'
    BY DEF VerdictLast
  <2>6. RecoveryIsLastResort'
    BY DEF RecoveryIsLastResort, VerdictLast, NoExit
  <2> QED
    BY <2>1, <2>2, <2>3, <2>4, <2>5, <2>6
<1>5. CASE Again
  <2> USE <1>5 DEF Again, Goto
  <2>1. Order' /\ HubCount'
    BY DEF Order, HubCount, Pcs, HubPcs, SequencePcs, AcquirePcs
  <2>2. BoardCount'
    BY DEF Order, BoardCount, HubPcs, SequencePcs, AcquirePcs
  <2>3. Shaped' /\ VerdictLast' /\ RecoveryIsLastResort'
    BY DEF Shaped, VerdictLast, RecoveryIsLastResort
  <2> QED
    BY <2>1, <2>2, <2>3
<1>6. CASE SecondBoot
  <2> USE <1>6 DEF SecondBoot
  <2>1. Order' /\ HubCount'
    BY DEF Order, HubCount, Pcs, HubPcs, SequencePcs, AcquirePcs, ResumePcs, M4Pcs
  <2>2. BoardCount'
    BY DEF Order, BoardCount, HubPcs, SequencePcs, AcquirePcs, ResumePcs, M4Pcs
  <2>3. Shaped' /\ VerdictLast' /\ RecoveryIsLastResort'
    BY DEF Shaped, VerdictLast, RecoveryIsLastResort
  <2> QED
    BY <2>1, <2>2, <2>3
<1>7. CASE Parsed
  <2> USE <1>7 DEF Parsed
  <2>1. Order' /\ HubCount'
    BY DEF Order, HubCount, Pcs, HubPcs, SequencePcs, AcquirePcs, ResumePcs, LoginPcs,
           SafetyPcs, TransferPcs, ReaderPcs, M4Pcs, CollectPcs
  <2>2. BoardCount'
    BY DEF Order, BoardCount, HubPcs, SequencePcs, AcquirePcs, ResumePcs, LoginPcs,
           SafetyPcs, TransferPcs, ReaderPcs, M4Pcs, CollectPcs
  <2>3. Shaped' /\ VerdictLast' /\ RecoveryIsLastResort'
    BY DEF Shaped, VerdictLast, RecoveryIsLastResort, NoExit
  <2> QED
    BY <2>1, <2>2, <2>3
<1> QED
  BY <1>1, <1>2, <1>3, <1>4, <1>5, <1>6, <1>7 DEF Sequence

\* Before the hardware sequence, the probe's recovery included.
LEMMA PrepareKeeps ==
    ASSUME RecoveryInv, Prepare
    PROVE  RecoveryInv'
<1> USE HilAssumption DEF RecoveryInv, Goto
<1>1. CASE Provenance
  <2>1. CASE Raise("InfrastructureError") \/ Raise("Other")
    BY <2>1, <1>1, RaiseKeeps DEF Provenance, Exceptions
  <2>2. CASE ~(Raise("InfrastructureError") \/ Raise("Other"))
    BY <2>2, <1>1 DEF Provenance, Order, BoardCount, HubCount, Shaped, VerdictLast,
       RecoveryIsLastResort, Pcs, HubPcs, SequencePcs, AcquirePcs, ResumePcs, LoginPcs,
       SafetyPcs, TransferPcs, ReaderPcs, M4Pcs, CollectPcs, NoExit
  <2> QED
    BY <2>1, <2>2
<1>2. CASE Build
  <2>1. CASE Raise("InfrastructureError") \/ Raise("Other")
    BY <2>1, <1>2, RaiseKeeps DEF Build, Exceptions
  <2>2. CASE ~(Raise("InfrastructureError") \/ Raise("Other"))
    BY <2>2, <1>2 DEF Build, Order, BoardCount, HubCount, Shaped, VerdictLast,
       RecoveryIsLastResort, Pcs, HubPcs, SequencePcs, AcquirePcs, ResumePcs, LoginPcs,
       SafetyPcs, TransferPcs, ReaderPcs, M4Pcs, CollectPcs, NoExit
  <2> QED
    BY <2>1, <2>2
<1>3. CASE ReadElf
  <2>1. CASE Raise("InfrastructureError") \/ Raise("Other")
    BY <2>1, <1>3, RaiseKeeps DEF ReadElf, Exceptions
  <2>2. CASE Goto("discover")
    BY <2>2, <1>3 DEF ReadElf, Order, BoardCount, HubCount, Shaped, VerdictLast,
       RecoveryIsLastResort, Pcs, HubPcs, SequencePcs, AcquirePcs, ResumePcs, LoginPcs,
       SafetyPcs, TransferPcs, ReaderPcs, M4Pcs, CollectPcs
  <2> QED
    BY <2>1, <2>2, <1>3 DEF ReadElf
<1>4. CASE Discover
  BY <1>4 DEF Discover, Order, BoardCount, HubCount, Shaped, VerdictLast,
     RecoveryIsLastResort, Pcs, HubPcs, SequencePcs, AcquirePcs, ResumePcs, LoginPcs,
     SafetyPcs, TransferPcs, ReaderPcs, M4Pcs, CollectPcs
<1>5. CASE HubOff
  <2>1. CASE Raise("Other")
    BY <2>1, <1>5, RaiseKeeps DEF HubOff, Exceptions
  <2>2. CASE ~Raise("Other")
    BY <2>2, <1>5 DEF HubOff, Order, BoardCount, HubCount, Shaped, VerdictLast,
       RecoveryIsLastResort, Pcs, HubPcs, SequencePcs, AcquirePcs, ResumePcs, LoginPcs,
       SafetyPcs, TransferPcs, ReaderPcs, M4Pcs, CollectPcs, NoExit
  <2> QED
    BY <2>1, <2>2
<1>6. CASE HubOn
  <2>1. CASE Raise("Other")
    BY <2>1, <1>6, RaiseKeeps DEF HubOn, Exceptions
  <2>2. CASE Goto("poll")
    BY <2>2, <1>6 DEF HubOn, Order, BoardCount, HubCount, Shaped, VerdictLast,
       RecoveryIsLastResort, Pcs, HubPcs, SequencePcs, AcquirePcs, ResumePcs, LoginPcs,
       SafetyPcs, TransferPcs, ReaderPcs, M4Pcs, CollectPcs
  <2> QED
    BY <2>1, <2>2, <1>6 DEF HubOn
<1>7. CASE Poll
  <2>1. CASE Raise("RecoveryRequired") /\ ~(probeTry < ProbeAttempts)
    <3>1. probeTry = ProbeAttempts
      BY <2>1 DEF HubCount
    <3> QED
      BY <2>1, <3>1, <1>7, RaiseKeeps DEF Poll, Exceptions
  <2>2. CASE Goto("open") \/ (Goto("hub_off") /\ probeTry < ProbeAttempts)
    BY <2>2, <1>7 DEF Poll, Order, BoardCount, HubCount, Shaped, VerdictLast,
       RecoveryIsLastResort, Pcs, HubPcs, SequencePcs, AcquirePcs, ResumePcs, LoginPcs,
       SafetyPcs, TransferPcs, ReaderPcs, M4Pcs, CollectPcs
  <2> QED
    BY <2>1, <2>2, <1>7 DEF Poll
<1>8. CASE OpenLink
  <2>1. CASE Resolvable
    BY <2>1, <1>8 DEF OpenLink, Order, BoardCount, HubCount, Shaped, VerdictLast,
       RecoveryIsLastResort, Pcs, HubPcs, SequencePcs, AcquirePcs, NoExit
  <2>2. CASE ~Resolvable
    <3>1. out'.exit = 2 /\ Shaped'
      BY <2>2, <1>8 DEF OpenLink, Shaped, ExitCode
    <3> QED
      BY <3>1, <2>2, <1>8 DEF OpenLink, Order, BoardCount, HubCount, VerdictLast, RecoveryIsLastResort, Pcs, HubPcs,
           SequencePcs, AcquirePcs, ResumePcs, LoginPcs, SafetyPcs, TransferPcs, ReaderPcs,
           M4Pcs, CollectPcs, NoExit
  <2> QED
    BY <2>1, <2>2
<1> QED
  BY <1>1, <1>2, <1>3, <1>4, <1>5, <1>6, <1>7, <1>8 DEF Prepare

\* Every step keeps the invariant.
LEMMA RecoveryStep ==
    ASSUME RecoveryInv, [Next]_vars
    PROVE  RecoveryInv'
<1> USE DEF RecoveryInv
<1>1. CASE Prepare
  BY <1>1, PrepareKeeps
<1>2. CASE Sequence
  BY <1>2, SequenceKeeps
<1>3. CASE Passed
  <2>1. out'.exit = 0 /\ Shaped'
    BY <1>3 DEF Passed, Shaped
  <2> QED
    BY <2>1, <1>3 DEF Passed, Order, BoardCount, HubCount, VerdictLast, RecoveryIsLastResort, Pcs, HubPcs,
           SequencePcs, AcquirePcs, ResumePcs, LoginPcs, SafetyPcs, TransferPcs, ReaderPcs,
           M4Pcs, CollectPcs, NoExit
<1>4. CASE Failed
  BY <1>4, RaiseKeeps DEF Failed, Exceptions
<1>5. CASE Retry
  BY <1>5, HilAssumption DEF Retry, Order, BoardCount, HubCount, Shaped, VerdictLast,
     RecoveryIsLastResort, Pcs, HubPcs, SequencePcs, AcquirePcs, ResumePcs, LoginPcs,
     SafetyPcs, TransferPcs, ReaderPcs, M4Pcs, CollectPcs, NoExit
<1>6. CASE Finally
  <2>1. out'.exit = (IF out.exit = NoExit THEN 1 ELSE out.exit) /\ Shaped'
    BY <1>6 DEF Finally, Shaped
  <2> QED
    BY <2>1, <1>6 DEF Finally, Order, BoardCount, HubCount, VerdictLast, RecoveryIsLastResort, Pcs, HubPcs,
           SequencePcs, AcquirePcs, ResumePcs, LoginPcs, SafetyPcs, TransferPcs, ReaderPcs,
           M4Pcs, CollectPcs, NoExit
<1>7. CASE Interrupt
  BY <1>7 DEF Interrupt, Goto, Order, BoardCount, HubCount, Shaped, VerdictLast,
     RecoveryIsLastResort, Pcs, HubPcs, SequencePcs, AcquirePcs, ResumePcs, LoginPcs,
     SafetyPcs, TransferPcs, ReaderPcs, M4Pcs, CollectPcs, NoExit
<1>8. CASE NextRun
  BY <1>8, HilAssumption DEF NextRun, StartRun, FreshOut, Order, BoardCount, HubCount,
     Shaped, VerdictLast, RecoveryIsLastResort, Pcs, HubPcs, SequencePcs, AcquirePcs,
     ResumePcs, LoginPcs, SafetyPcs, TransferPcs, ReaderPcs, M4Pcs, CollectPcs, NoExit
<1>9. CASE UNCHANGED runVars
  BY <1>9 DEF runVars, Order, BoardCount, HubCount, Shaped, VerdictLast,
     RecoveryIsLastResort
<1> QED
  BY <1>1, <1>2, <1>3, <1>4, <1>5, <1>6, <1>7, <1>8, <1>9, Shapes

\* Where a run stands bounds the power cycles it has made and has yet to make.
THEOREM RecoveryInvariant == Spec => []RecoveryInv
BY RecoveryInit, RecoveryStep, PTL DEF Spec

\* However many attempts are configured, a run cycles the board's power and the
\* probe's port a bounded number of times (the "no unbounded retry loop" of the
\* README, of main's single retry and the two attempt loops).
THEOREM RecoveryIsBounded == Spec => []BoundedRecovery
<1>1. RecoveryInv => BoundedRecovery
  BY HilAssumption DEF RecoveryInv, BoardCount, HubCount, BoundedRecovery
<1> QED
  BY <1>1, RecoveryInvariant, PTL

\* Exit code 3 is only given after both kinds of power cycle were tried, or
\* when the probe stayed away through all of its own.
THEOREM ExitThreeIsLast == Spec => []RecoveryIsLastResort
<1>1. RecoveryInv => RecoveryIsLastResort
  BY DEF RecoveryInv
<1> QED
  BY <1>1, RecoveryInvariant, PTL

----------------------------------------------------------------------------
(* The runner implements RunContract: under the mapping Stage, seqNo,       *)
(* Verdict of VisionHil each step is a step of the contract or leaves the   *)
(* contract's state alone.  The only facts needed beside the step itself    *)
(* are parts of RecoveryInv: where in a run each statement stands (Order)   *)
(* and that a verdict is only set on the way out (VerdictLast).             *)

ContractMove == [Contract!ContractNext]_(Contract!contractVars)

\* The first state of a run is a first state of the contract.
LEMMA StartMaps == Init => Contract!ContractInit
BY DEF Init, FreshOut, Contract!ContractInit, Stage, Verdict, ResultName, SequencePcs,
       AcquirePcs, ResumePcs, LoginPcs, SafetyPcs, TransferPcs, ReaderPcs, M4Pcs, CollectPcs

\* What the four results an exception can leave in result.json mean.
LEMMA VerdictOf ==
    /\ out.result = "UNKNOWN" => Verdict = "none"
    /\ out.result = "PASS" => Verdict = "PASS"
    /\ out.result = ResultName("TestFailure") => Verdict = "TestFailure"
    /\ out.result = ResultName("InfrastructureError") => Verdict = "InfrastructureError"
    /\ out.result = ResultName("Other") => Verdict = "InfrastructureError"
    /\ out.result = ResultName("RecoveryRequired") => Verdict = "RecoveryRequired"
BY DEF Verdict, ResultName

\* The stage that a statement belongs to.
LEMMA StageOf ==
    /\ pc \in SequencePcs => Stage = "trying"
    /\ pc = "validate" => Stage = "judging"
    /\ pc = "finally" => Stage = "closing"
    /\ pc = "exited" => Stage = "done"
    /\ pc \in HubPcs \cup {"provenance", "build", "elf", "discover", "open", "retry"} =>
          Stage = IF seqNo = 0 THEN "preparing" ELSE "recovering"
BY DEF Stage, HubPcs, SequencePcs, AcquirePcs, ResumePcs, LoginPcs, SafetyPcs, TransferPcs,
       ReaderPcs, M4Pcs, CollectPcs

\* A raise is a loss of the first try or the end of the run, whichever statement
\* of the run it comes from.
LEMMA RaiseMaps ==
    ASSUME RecoveryInv, NEW e \in Exceptions, Raise(e), pc \notin {"finally", "exited"},
           e = "RecoveryRequired" => pc \in SequencePcs \cup {"poll"},
           e = "TestFailure" => pc \in SequencePcs \cup {"validate"},
           pc = "validate" => e = "TestFailure"
    PROVE  ContractMove
<1>1. pc \in Pcs /\ seqNo' = seqNo /\ Verdict = "none"
  BY VerdictOf DEF RecoveryInv, Order, VerdictLast, Raise
<1>2. CASE Retried(e)
  <2>1. pc' = "retry" /\ seqNo = 1 /\ Stage = "trying" /\ out' = out
    BY <1>2, StageOf DEF Raise, Retried
  <2>2. Stage' = "recovering" /\ Verdict' = Verdict
    BY <2>1, <1>1 DEF Stage, Verdict, SequencePcs, AcquirePcs, ResumePcs, LoginPcs,
       SafetyPcs, TransferPcs, ReaderPcs, M4Pcs, CollectPcs
  <2> QED
    BY <1>1, <2>1, <2>2 DEF ContractMove, Contract!ContractNext, Contract!Lose
<1>3. CASE ~Retried(e)
  <2>1. pc' = "finally" /\ out'.result = ResultName(e)
    BY <1>3 DEF Raise, RecoveryInv, Shaped
  <2>2. Stage' = "closing"
    BY <2>1 DEF Stage, SequencePcs, AcquirePcs, ResumePcs, LoginPcs, SafetyPcs,
       TransferPcs, ReaderPcs, M4Pcs, CollectPcs
  <2>3. Verdict' = IF e = "Other" THEN "InfrastructureError" ELSE e
    BY <2>1 DEF Verdict, ResultName, Exceptions
  <2>4. CASE pc \in SequencePcs
    <3>1. Stage = "trying" /\ (e = "RecoveryRequired" => seqNo = 2)
      BY <2>4, <1>3, StageOf DEF Retried, RecoveryInv, Order
    <3> QED
      BY <1>1, <2>2, <2>3, <3>1
         DEF ContractMove, Contract!ContractNext, Contract!GiveUp, Exceptions
  <2>5. CASE pc = "validate"
    BY <1>1, <2>2, <2>3, <2>5, StageOf
       DEF ContractMove, Contract!ContractNext, Contract!Judge, Exceptions
  <2>6. CASE pc \notin SequencePcs \cup {"validate"}
    <3>1. Stage \in {"preparing", "recovering"}
      BY <2>6, <1>1, StageOf DEF Pcs, HubPcs
    <3> QED
      BY <1>1, <2>2, <2>3, <2>6, <3>1
         DEF ContractMove, Contract!ContractNext, Contract!GiveUp, Exceptions
  <2> QED
    BY <2>4, <2>5, <2>6
<1> QED
  BY <1>2, <1>3

\* Steps the contract does not see.
LEMMA StutterMaps ==
    ASSUME Stage' = Stage, seqNo' = seqNo, Verdict' = Verdict
    PROVE  ContractMove
BY DEF ContractMove, Contract!contractVars

\* Steps that stay on one side of the contract's stages.
LEMMA QuietMaps ==
    ASSUME seqNo' = seqNo, out'.result = out.result,
           \/ pc \in SequencePcs /\ pc' \in SequencePcs
           \/ /\ pc \in HubPcs \cup {"provenance", "build", "elf", "discover", "retry"}
              /\ pc' \in HubPcs \cup {"build", "elf", "discover", "open"}
           \/ pc' = pc
    PROVE  ContractMove
<1>1. Verdict' = Verdict
  BY DEF Verdict
<1>2. Stage' = Stage
  BY DEF Stage, HubPcs, SequencePcs, AcquirePcs, ResumePcs, LoginPcs, SafetyPcs, TransferPcs,
     ReaderPcs, M4Pcs, CollectPcs
<1> QED
  BY <1>1, <1>2, StutterMaps

\* Before the hardware sequence, and between the two.
LEMMA PrepareMaps ==
    ASSUME RecoveryInv, Prepare
    PROVE  ContractMove
<1> USE DEF RecoveryInv
<1>1. CASE Provenance
  <2>1. CASE Raise("InfrastructureError") \/ Raise("Other")
    BY <2>1, <1>1, RaiseMaps DEF Provenance, Exceptions
  <2>2. CASE ~(Raise("InfrastructureError") \/ Raise("Other"))
    BY <2>2, <1>1, QuietMaps DEF Provenance, Shaped
  <2> QED
    BY <2>1, <2>2
<1>2. CASE Build
  <2>1. CASE Raise("InfrastructureError") \/ Raise("Other")
    BY <2>1, <1>2, RaiseMaps DEF Build, Exceptions
  <2>2. CASE ~(Raise("InfrastructureError") \/ Raise("Other"))
    BY <2>2, <1>2, QuietMaps DEF Build, Shaped
  <2> QED
    BY <2>1, <2>2
<1>3. CASE ReadElf
  BY <1>3, RaiseMaps, QuietMaps DEF ReadElf, Goto, Exceptions
<1>4. CASE Discover
  BY <1>4, QuietMaps DEF Discover, Goto, HubPcs
<1>5. CASE HubOff
  <2>1. CASE Raise("Other")
    BY <2>1, <1>5, RaiseMaps DEF HubOff, Exceptions
  <2>2. CASE ~Raise("Other")
    BY <2>2, <1>5, QuietMaps DEF HubOff, HubPcs
  <2> QED
    BY <2>1, <2>2
<1>6. CASE HubOn
  BY <1>6, RaiseMaps, QuietMaps DEF HubOn, Goto, HubPcs, Exceptions
<1>7. CASE Poll
  BY <1>7, RaiseMaps, QuietMaps DEF Poll, Goto, HubPcs, Exceptions
<1>8. CASE OpenLink
  <2> DEFINE before == IF seqNo = 0 THEN "preparing" ELSE "recovering"
  <2>1. pc = "open" /\ seqNo \in {0, 1} /\ Stage = before /\ Verdict = "none"
    BY <1>8, StageOf, VerdictOf DEF OpenLink, Order, VerdictLast, HubPcs
  <2>2. CASE Resolvable
    <3>1. pc' = "acquire" /\ seqNo' = seqNo + 1 /\ out'.result = out.result
      BY <2>2, <1>8 DEF OpenLink, Shaped
    <3>2. Stage' = "trying" /\ Verdict' = Verdict
      BY <3>1 DEF Stage, Verdict, SequencePcs, AcquirePcs
    <3> QED
      BY <2>1, <3>1, <3>2 DEF ContractMove, Contract!ContractNext, Contract!Try
  <2>3. CASE ~Resolvable
    <3>1. pc' = "finally" /\ seqNo' = seqNo /\ out'.result = ResultName("Other")
      BY <2>3, <1>8 DEF OpenLink, Shaped
    <3>2. Stage' = "closing" /\ Verdict' = "InfrastructureError"
      BY <3>1 DEF Stage, Verdict, ResultName, SequencePcs, AcquirePcs, ResumePcs, LoginPcs,
         SafetyPcs, TransferPcs, ReaderPcs, M4Pcs, CollectPcs
    <3> QED
      BY <2>1, <3>1, <3>2 DEF ContractMove, Contract!ContractNext, Contract!GiveUp
  <2> QED
    BY <2>2, <2>3
<1> QED
  BY <1>1, <1>2, <1>3, <1>4, <1>5, <1>6, <1>7, <1>8 DEF Prepare

\* The hardware sequence.
LEMMA SequenceMaps ==
    ASSUME RecoveryInv, Sequence
    PROVE  ContractMove
<1> USE DEF RecoveryInv
<1>1. CASE Step
  BY <1>1, QuietMaps DEF Step, Goto, ConsolePcs
<1>2. CASE Throw
  BY <1>2, RaiseMaps DEF Throw, ConsolePcs, SequencePcs, AcquirePcs, ResumePcs, LoginPcs,
     SafetyPcs, TransferPcs, ReaderPcs, M4Pcs, CollectPcs
<1>3. CASE RelayFails
  BY <1>3, RaiseMaps DEF RelayFails, Exceptions
<1>4. CASE RelayOff \/ Again
  BY <1>4, QuietMaps DEF RelayOff, Again, Goto, SequencePcs, AcquirePcs
<1>5. CASE SecondBoot
  BY <1>5, QuietMaps DEF SecondBoot, SequencePcs, ResumePcs, M4Pcs
<1>6. CASE Parsed
  <2>1. Stage = "trying" /\ Stage' = "judging"
    BY <1>6 DEF Parsed, Stage, SequencePcs, AcquirePcs, ResumePcs, LoginPcs, SafetyPcs,
       TransferPcs, ReaderPcs, M4Pcs, CollectPcs
  <2>2. seqNo' = seqNo /\ Verdict' = Verdict
    BY <1>6 DEF Parsed, Verdict, Shaped
  <2> QED
    BY <2>1, <2>2 DEF ContractMove, Contract!ContractNext, Contract!Measure
<1> QED
  BY <1>1, <1>2, <1>3, <1>4, <1>5, <1>6 DEF Sequence

\* From the validation to the next run.
LEMMA EndMaps ==
    ASSUME RecoveryInv, Passed \/ Failed \/ Retry \/ Finally \/ Interrupt \/ NextRun
    PROVE  ContractMove
<1> USE DEF RecoveryInv
<1>1. CASE Passed
  <2>1. out'.result = "PASS" /\ pc' = "finally" /\ seqNo' = seqNo
    BY <1>1 DEF Passed, Shaped
  <2>3. Stage = "judging"
    BY <1>1, StageOf DEF Passed
  <2>4. Stage' = "closing"
    BY <2>1 DEF Stage, SequencePcs, AcquirePcs, ResumePcs, LoginPcs, SafetyPcs, TransferPcs,
       ReaderPcs, M4Pcs, CollectPcs
  <2>5. Verdict' = "PASS"
    BY <2>1 DEF Verdict, ResultName
  <2> QED
    BY <2>1, <2>3, <2>4, <2>5 DEF ContractMove, Contract!ContractNext, Contract!Judge
<1>2. CASE Failed
  BY <1>2, RaiseMaps DEF Failed, Exceptions
<1>3. CASE Retry
  BY <1>3, QuietMaps DEF Retry, HubPcs
<1>4. CASE Finally
  <2>1. Stage = "closing" /\ Stage' = "done"
    BY <1>4 DEF Finally, Stage, SequencePcs, AcquirePcs, ResumePcs, LoginPcs, SafetyPcs,
       TransferPcs, ReaderPcs, M4Pcs, CollectPcs
  <2>2. seqNo' = seqNo /\ Verdict' = Verdict
    BY <1>4 DEF Finally, Verdict, Shaped
  <2> QED
    BY <2>1, <2>2 DEF ContractMove, Contract!ContractNext, Contract!Report
<1>5. CASE Interrupt
  <2> DEFINE Early == HubPcs \cup {"provenance", "build", "elf", "discover", "open", "retry"}
  <2>3. pc \in SequencePcs \cup {"validate"} \cup Early
    BY <1>5 DEF Interrupt, Order, Pcs, HubPcs
  <2>4. Stage \in {"trying", "judging", "preparing", "recovering"}
    BY <2>3, StageOf
  <2>5. pc' = "finally"
    BY <1>5 DEF Interrupt, Goto
  <2>6. Stage' = "closing"
    BY <2>5 DEF Stage, SequencePcs, AcquirePcs, ResumePcs, LoginPcs, SafetyPcs,
       TransferPcs, ReaderPcs, M4Pcs, CollectPcs
  <2>1. Stage \notin {"closing", "done"} /\ Stage' = "closing"
    BY <2>4, <2>6
  <2>2. seqNo' = seqNo /\ Verdict' = Verdict
    BY <1>5 DEF Interrupt, Goto, Verdict
  <2> QED
    BY <2>1, <2>2 DEF ContractMove, Contract!ContractNext, Contract!Interrupted
<1>6. CASE NextRun
  <2>1. pc = "exited" /\ pc' = "provenance" /\ seqNo' = 0 /\ out'.result = "UNKNOWN"
    BY <1>6 DEF NextRun, StartRun, FreshOut
  <2>2. Stage = "done" /\ Stage' = "preparing" /\ Verdict' = "none"
    BY <2>1 DEF Stage, Verdict, ResultName, SequencePcs, AcquirePcs, ResumePcs, LoginPcs,
       SafetyPcs, TransferPcs, ReaderPcs, M4Pcs, CollectPcs
  <2> QED
    BY <2>1, <2>2 DEF ContractMove, Contract!ContractNext, Contract!Again
<1> QED
  BY <1>1, <1>2, <1>3, <1>4, <1>5, <1>6

\* Every step of the runner is a step of the contract or leaves it alone.
LEMMA ContractStep ==
    ASSUME RecoveryInv, [Next]_vars
    PROVE  ContractMove
<1>1. CASE UNCHANGED runVars
  BY <1>1, QuietMaps DEF runVars
<1> QED
  BY <1>1, Shapes, PrepareMaps, SequenceMaps, EndMaps

\* The runner keeps the contract of RunContract: the README's exit codes and its
\* promise of exactly one retry, as a refinement.
THEOREM RunnerKeepsContract == Spec => KeepsContract
<1>1. RecoveryInv /\ [Next]_vars => [Contract!ContractNext]_(Contract!contractVars)
  BY ContractStep DEF ContractMove
<1> QED
  BY <1>1, StartMaps, RecoveryInvariant, PTL
     DEF Spec, KeepsContract, Contract!ContractSpec
----------------------------------------------------------------------------
(* Type correctness of the runner and its bench.  The runner's control      *)
(* variables get their bounds from RecoveryInvariant; what is left is the   *)
(* data that moves between the board, the screen and the report.            *)

Lines == [cmd : Commands, img : Slots]

Screens == [seen : SUBSET Evidence, sha : SUBSET Images,
            entry : Entries \cup {NoEntry}, json : Results]
Reports == [result : {"UNKNOWN", "PASS"} \cup {ResultName(e) : e \in Exceptions},
            exit : 0 .. 3 \cup {NoExit}, fields : SUBSET Fields,
            bench : Results, written : BOOLEAN]

DataOK ==
    /\ BoardTypeOK
    /\ phase \in {1, 2}
    /\ built \in Slots
    /\ out \in Reports

\* An empty buffer is a screen.
LEMMA BlankIsScreen == BlankScreen \in Screens
BY DEF BlankScreen, Screens, Results, NoResult, Slots

\* A probe found wedged is within the fault budget.
LEMMA FoundFaultsBounded == FoundFaults \in 0 .. MaxFaults
<1>1. MaxFaults \in Nat
  BY BoardAssumption
<1>2. CASE probe = "wedged" /\ MaxFaults > 0
  <2>1. FoundFaults = 1
    BY <1>2, Zenon DEF FoundFaults
  <2> QED
    BY <1>1, <1>2, <2>1
<1>3. CASE ~(probe = "wedged" /\ MaxFaults > 0)
  <2>1. FoundFaults = 0
    BY <1>3, Zenon DEF FoundFaults
  <2> QED
    BY <1>1, <2>1
<1> QED
  BY <1>2, <1>3

\* The first run's bench is typed.
LEMMA DataInit == Init => DataOK
<1> SUFFICES ASSUME Init PROVE DataOK
  OBVIOUS
<1>1. input \in Seq(Lines)
  BY EmptySeq DEF Init, BoardInit
<1>9. power \in BOOLEAN /\ emmc \in BOOLEAN
  BY DEF Init, BoardInit
<1>2. os \in Alive \cup {"off", "hung"}
  BY DEF Init, BoardInit, Alive, Shells, Booting
<1>10. probe \in {"ok", "wedged", "gone", "starting"} /\ link \in {"none", "open", "dead"}
  BY DEF Init, BoardInit
<1>11. faults \in 0 .. MaxFaults
  BY FoundFaultsBounded DEF Init, BoardInit
<1>3. mem \in [boot : SUBSET {"image", "dtb", "setenv"}, ram : Slots, tcm : Slots]
  BY DEF Init, BoardInit, BlankMem, Slots
<1>4. sd \in [fw : Slots, source : BOOLEAN, reader : BOOLEAN, marker : BOOLEAN, dirty : BOOLEAN]
  BY DEF Init, BoardInit
<1>5. touched \in [root : SUBSET {"sd_login", "emmc_login"}, emmc : BOOLEAN]
  BY DEF Init, BoardInit
<1>6. m4 \in Results /\ screen \in Screens
  BY BlankIsScreen DEF Init, BoardInit, NoResult, Results, Slots
<1>7. phase \in {1, 2} /\ built \in Slots
  BY DEF Init, Slots
<1>8. out \in Reports
  BY DEF Init, FreshOut, Reports, NoResult, Results, Slots, NoExit
<1> QED
  BY <1>1, <1>2, <1>3, <1>4, <1>5, <1>6, <1>7, <1>8, <1>9, <1>10, <1>11 DEF DataOK, BoardTypeOK, Lines, Screens

\* Reading a line leaves lines in the input.
LEMMA ReadsKeepsLines ==
    ASSUME input \in Seq(Lines), NEW c, Reads(c)
    PROVE  /\ input' \in Seq(Lines)
           /\ Head(input) \in Lines
           /\ Head(input).cmd = c
BY HeadTailProperties DEF Reads

\* So does typing one.
LEMMA TypedIsLines ==
    ASSUME input \in Seq(Lines), NEW c \in Commands, NEW i \in Slots
    PROVE  Typed(c, i) \in Seq(Lines)
<1>1. [cmd |-> c, img |-> i] \in Lines
  BY DEF Lines
<1> QED
  BY <1>1, AppendProperties DEF Typed

\* Printed evidence makes a screen of a screen.
LEMMA WithIsScreen ==
    ASSUME NEW s \in Screens, NEW t \in SUBSET Evidence
    PROVE  With(t, s) \in Screens
BY DEF With, Screens

\* So does the echo of a typed line.
LEMMA EchoIsScreen ==
    ASSUME NEW s \in Screens, NEW c
    PROVE  Echo(c, s) \in Screens
<1>1. EchoOf(c) \in SUBSET Evidence
  BY DEF EchoOf, Evidence
<1> QED
  BY <1>1, WithIsScreen DEF Echo


----------------------------------------------------------------------------
(* The board's steps *)

\* The A53's boot, in U-Boot and up to its login prompts.
LEMMA UbootTypes ==
    ASSUME BoardTypeOK, LoadForLinux \/ Booti \/ LoadM4 \/ CopyM4 \/ Bootaux
    PROVE  BoardTypeOK'
<1> USE DEF BoardTypeOK
<1>0. input \in Seq(Lines) /\ screen \in Screens
  BY DEF Lines, Screens
<1>1. CASE LoadForLinux
  <2>1. PICK c \in {"image", "dtb", "setenv"} :
           /\ Reads(c)
           /\ mem' = [mem EXCEPT !.boot = @ \cup {c}]
           /\ screen' = IF c = "setenv" THEN screen ELSE With({"loaded"}, screen)
    BY <1>1 DEF LoadForLinux
  <2>2. input' \in Seq(Lines)
    BY <1>0, <2>1, ReadsKeepsLines
  <2>3. screen' \in Screens
    BY <1>0, <2>1, WithIsScreen DEF Evidence
  <2> QED
    BY <1>1, <2>1, <2>2, <2>3 DEF LoadForLinux, Lines, Screens
<1>2. CASE Booti
  <2>1. input' \in Seq(Lines)
    BY <1>0, <1>2, ReadsKeepsLines DEF Booti
  <2>2. os' \in Alive \cup {"off", "hung"}
    BY <1>2 DEF Booti, Alive, Shells, Booting
  <2> QED
    BY <1>2, <2>1, <2>2 DEF Booti, Lines, consoleVars
<1>3. CASE LoadM4
  <2>1. input' \in Seq(Lines)
    BY <1>0, <1>3, ReadsKeepsLines DEF LoadM4
  <2>2. screen' \in Screens
    BY <1>0, <1>3, WithIsScreen DEF LoadM4, Evidence
  <2> QED
    BY <1>3, <2>1, <2>2 DEF LoadM4, Lines, Screens
<1>4. CASE CopyM4
  <2>1. input' \in Seq(Lines)
    BY <1>0, <1>4, ReadsKeepsLines DEF CopyM4
  <2> QED
    BY <1>4, <2>1 DEF CopyM4, Lines, consoleVars
<1>5. CASE Bootaux
  <2>1. input' \in Seq(Lines)
    BY <1>0, <1>5, ReadsKeepsLines DEF Bootaux
  <2>2. screen' \in Screens
    <3>1. Entry[mem.tcm] \in Entries
      BY DEF Entries
    <3> QED
      BY <1>0, <1>5, <3>1 DEF Bootaux, Screens
  <2>3. m4' \in Results
    BY <1>5 DEF Bootaux, Results
  <2> QED
    BY <1>5, <2>1, <2>2, <2>3 DEF Bootaux, Lines, Screens
<1> QED
  BY <1>1, <1>2, <1>3, <1>4, <1>5

\* The A53 in Linux, and the probe's return.
LEMMA LinuxTypes ==
    ASSUME BoardTypeOK, \/ M4Complete \/ Welcome \/ SdUp \/ EmmcUp \/ LoginRoot \/ ShellPrint
                        \/ Umount \/ ShellWrite \/ RunReader \/ Reboot \/ Enumerate
    PROVE  BoardTypeOK'
<1> USE DEF BoardTypeOK
<1>0. input \in Seq(Lines) /\ screen \in Screens
  BY DEF Lines, Screens
<1>1. CASE M4Complete
  <2>1. PICK ok \in BOOLEAN : m4' = [m4 EXCEPT !.state = "complete", !.good = ok]
    BY <1>1 DEF M4Complete
  <2>2. m4' \in Results
    BY <2>1 DEF Results
  <2>3. UNCHANGED <<power, os, input, mem, sd, emmc, touched, probe, link, screen, faults>>
    BY <1>1 DEF M4Complete, consoleVars
  <2> QED
    BY <2>2, <2>3
<1>2. CASE Welcome
  <2>1. screen' \in Screens
    BY <1>0, <1>2, WithIsScreen DEF Welcome, Evidence
  <2> QED
    BY <1>2, <2>1 DEF Welcome, Screens, boardVars
<1>3. CASE SdUp
  <2>1. screen' \in Screens
    BY <1>0, <1>3, WithIsScreen DEF SdUp, Evidence
  <2> QED
    BY <1>3, <2>1 DEF SdUp, Screens, Alive
<1>4. CASE EmmcUp
  <2>1. screen' \in Screens
    BY <1>0, <1>4, WithIsScreen DEF EmmcUp, Evidence
  <2> QED
    BY <1>4, <2>1 DEF EmmcUp, Screens, Alive
<1>5. CASE LoginRoot
  <2>1. screen' \in Screens /\ input' \in Seq(Lines)
    BY <1>0, <1>5, WithIsScreen, ReadsKeepsLines DEF LoginRoot, Evidence
  <2>2. os' \in Alive /\ touched' \in [root : SUBSET {"sd_login", "emmc_login"}, emmc : BOOLEAN]
    BY <1>5 DEF LoginRoot, Alive, Shells
  <2> QED
    BY <1>5, <2>1, <2>2 DEF LoginRoot, Screens, Lines
<1>6. CASE ShellPrint
  <2>1. input' \in Seq(Lines)
    BY <1>0, <1>6, ReadsKeepsLines DEF ShellPrint
  <2>2. screen' \in Screens
    <3>1. CASE Reads("sha")
      <4>1. {sd.fw} \ {NoImage} \in SUBSET Images
        BY DEF Slots
      <4>2. screen' = screen \/ screen' = [screen EXCEPT !.sha = @ \cup ({sd.fw} \ {NoImage})]
        BY <1>6, <3>1 DEF ShellPrint, Reads
      <4> QED
        BY <1>0, <4>1, <4>2 DEF Screens
    <3>2. CASE ~Reads("sha")
      BY <1>0, <1>6, <3>2, WithIsScreen DEF ShellPrint, Evidence
    <3> QED
      BY <3>1, <3>2
  <2> QED
    BY <1>6, <2>1, <2>2 DEF ShellPrint, Screens, Lines
<1>7. CASE Umount
  <2>1. input' \in Seq(Lines)
    BY <1>0, <1>7, ReadsKeepsLines DEF Umount
  <2>2. emmc' \in BOOLEAN
    BY <1>7, Zenon DEF Umount
  <2> QED
    BY <1>7, <2>1, <2>2 DEF Umount, Lines, consoleVars
<1>8. CASE ShellWrite
  <2>1. input' \in Seq(Lines)
    BY <1>0, <1>8, ReadsKeepsLines DEF ShellWrite
  <2>2. screen' \in Screens
    <3>1. /\ (IF sd.source THEN {"compiled"} ELSE {}) \in SUBSET Evidence
          /\ (IF sd.marker THEN {"reader_sha"} ELSE {}) \in SUBSET Evidence
      BY DEF Evidence
    <3>2. \/ screen' = screen
          \/ screen' = With(IF sd.source THEN {"compiled"} ELSE {}, screen)
          \/ screen' = With(IF sd.marker THEN {"reader_sha"} ELSE {}, screen)
      BY <1>8 DEF ShellWrite
    <3> QED
      BY <1>0, <3>1, <3>2, WithIsScreen
  <2>3. sd' \in [fw : Slots, source : BOOLEAN, reader : BOOLEAN, marker : BOOLEAN, dirty : BOOLEAN]
    <3>1. sd.source \in BOOLEAN /\ sd.reader \in BOOLEAN
      OBVIOUS
    <3>2. \/ \E i \in Slots : sd' = [sd EXCEPT !.fw = i, !.dirty = TRUE]
          \/ \E ok \in BOOLEAN : sd' = [sd EXCEPT !.source = ok, !.dirty = TRUE]
          \/ sd' = [sd EXCEPT !.reader = sd.source \/ sd.reader, !.dirty = TRUE]
          \/ sd' = [sd EXCEPT !.marker = TRUE, !.dirty = TRUE]
          \/ sd' = sd
      BY <1>8, Zenon DEF ShellWrite
    <3>3. CASE sd' = [sd EXCEPT !.reader = sd.source \/ sd.reader, !.dirty = TRUE]
      <4>1. (sd.source \/ sd.reader) \in BOOLEAN
        BY <3>1
      <4> QED
        BY <3>3, <4>1
    <3> QED
      BY <3>2, <3>3
  <2>4. touched' \in [root : SUBSET {"sd_login", "emmc_login"}, emmc : BOOLEAN]
    BY <1>8 DEF ShellWrite
  <2> QED
    BY <1>8, <2>1, <2>2, <2>3, <2>4 DEF ShellWrite, Screens, Lines
<1>9. CASE RunReader
  <2>1. input' \in Seq(Lines)
    BY <1>0, <1>9, ReadsKeepsLines DEF RunReader
  <2>2. screen' \in Screens
    BY <1>0, <1>9 DEF RunReader, Screens, Evidence
  <2> QED
    BY <1>9, <2>1, <2>2 DEF RunReader, Screens, Lines
<1>10. CASE Reboot
  <2>1. input' \in Seq(Lines)
    BY <1>0, <1>10, ReadsKeepsLines DEF Reboot
  <2>2. mem' \in [boot : SUBSET {"image", "dtb", "setenv"}, ram : Slots, tcm : Slots]
    BY <1>10 DEF Reboot, BlankMem, Slots
  <2> QED
    BY <1>10, <2>1, <2>2 DEF Reboot, Alive, Booting, Lines, consoleVars
<1>11. CASE Enumerate
  BY <1>11 DEF Enumerate, boardVars
<1> QED
  BY <1>1, <1>2, <1>3, <1>4, <1>5, <1>6, <1>7, <1>8, <1>9, <1>10, <1>11

\* Every fault.
LEMMA FaultTypes ==
    ASSUME BoardTypeOK, FaultStep
    PROVE  BoardTypeOK'
<1> USE BoardAssumption DEF BoardTypeOK, Fault
<1>1. faults' \in 0 .. MaxFaults
  BY DEF FaultStep, Hang, AbortReset, LineLost, ProbeDrop, ProbeWedge
<1>2. CASE Hang
  BY <1>1, <1>2 DEF Hang, consoleVars
<1>3. CASE AbortReset
  <2>1. input' \in Seq(Lines)
    BY <1>3, EmptySeq DEF AbortReset
  <2>2. mem' \in [boot : SUBSET {"image", "dtb", "setenv"}, ram : Slots, tcm : Slots]
    BY <1>3 DEF AbortReset
  <2>3. os' \in Alive
    BY <1>3 DEF AbortReset, Alive, Booting
  <2> QED
    BY <1>1, <1>3, <2>1, <2>2, <2>3 DEF AbortReset, Lines, consoleVars
<1>4. CASE LineLost
  BY <1>1, <1>4, HeadTailProperties DEF LineLost, consoleVars
<1>5. CASE ProbeDrop
  BY <1>1, <1>5 DEF ProbeDrop, boardVars
<1>6. CASE ProbeWedge
  BY <1>1, <1>6 DEF ProbeWedge, boardVars
<1> QED
  BY <1>2, <1>3, <1>4, <1>5, <1>6 DEF FaultStep

\* The relay's and the hub's two switches.
LEMMA CutPowerTypes ==
    ASSUME BoardTypeOK, CutPower, UNCHANGED <<consoleVars>>, faults' \in 0 .. MaxFaults
    PROVE  BoardTypeOK'
<1> USE DEF BoardTypeOK, CutPower, consoleVars
<1>1. input' \in Seq(Lines)
  BY EmptySeq
<1>2. sd' \in [fw : Slots, source : BOOLEAN, reader : BOOLEAN, marker : BOOLEAN, dirty : BOOLEAN]
  <2>1. PICK lost \in BOOLEAN :
           sd' = [sd EXCEPT !.fw = IF lost THEN NoImage ELSE @,
                            !.reader = @ /\ ~lost,
                            !.dirty = FALSE]
    OBVIOUS
  <2>2. (IF lost THEN NoImage ELSE sd.fw) \in Slots
    BY DEF Slots
  <2> QED
    BY <2>1, <2>2
<1>3. mem' \in [boot : SUBSET {"image", "dtb", "setenv"}, ram : Slots, tcm : Slots]
  BY DEF BlankMem, Slots
<1>4. m4' \in Results
  BY DEF NoResult, Results, Slots
<1> QED
  BY <1>1, <1>2, <1>3, <1>4 DEF Lines

\* The relay closing the supply.
LEMMA RestorePowerTypes ==
    ASSUME BoardTypeOK, RestorePower, UNCHANGED <<probe, link>>, screen' \in Screens,
           faults' \in 0 .. MaxFaults
    PROVE  BoardTypeOK'
BY DEF BoardTypeOK, RestorePower, Screens, Alive, Booting

\* The hub port's two commands.
LEMMA PortTypes ==
    ASSUME BoardTypeOK, PortOff \/ PortOn \/ UNCHANGED <<probe, link>>,
           UNCHANGED <<boardVars, screen>>, faults' \in 0 .. MaxFaults
    PROVE  BoardTypeOK'
BY DEF BoardTypeOK, PortOff, PortOn, boardVars

\* Leaving the bench alone.
LEMMA EnvSame ==
    ASSUME BoardTypeOK, UNCHANGED envVars
    PROVE  BoardTypeOK'
BY DEF BoardTypeOK, envVars, boardVars, consoleVars

----------------------------------------------------------------------------
(* The runner's steps *)

RunOK == phase \in {1, 2} /\ built \in Slots /\ out \in Reports

\* Raising an exception.
LEMMA RaiseTypes ==
    ASSUME RunOK, NEW e \in Exceptions, Raise(e)
    PROVE  RunOK'
<1>1. ResultName(e) \in {ResultName(f) : f \in Exceptions}
  OBVIOUS
<1>2. ExitCode(e) \in 0 .. 3
  BY DEF ExitCode, Exceptions
<1>3. out' \in Reports
  BY <1>1, <1>2 DEF RunOK, Raise, Reports, Fields
<1> QED
  BY <1>3 DEF RunOK, Raise

\* Going on to the next statement.
LEMMA GotoTypes ==
    ASSUME RunOK, NEW l, Goto(l)
    PROVE  RunOK'
BY DEF RunOK, Goto

\* Typing a line.
LEMMA SendTypes ==
    ASSUME DataOK, NEW at, NEW c \in Commands, NEW base \in Screens, NEW next,
           Send(at, c, base, next)
    PROVE  DataOK'
<1>1. RunOK'
  BY RaiseTypes, GotoTypes DEF Send, RunOK, DataOK, Exceptions
<1>2. input' \in Seq(Lines)
  <2>1. input \in Seq(Lines) /\ built \in Slots
    BY DEF DataOK, BoardTypeOK, Lines
  <2>2. input' = input \/ input' = Typed(c, built)
    BY DEF Send
  <2> QED
    BY <2>1, <2>2, TypedIsLines
<1>3. screen' \in Screens
  BY EchoIsScreen DEF Send, DataOK, BoardTypeOK, Screens
<1> QED
  BY <1>1, <1>2, <1>3 DEF Send, DataOK, BoardTypeOK, RunOK, Lines, Screens

\* A look at the console that changes nothing but where the runner goes next.
LEMMA LookTypes ==
    ASSUME DataOK, UNCHANGED envVars,
           (\E l : Goto(l)) \/ (\E e \in Exceptions : Raise(e))
    PROVE  DataOK'
BY EnvSame, RaiseTypes, GotoTypes DEF DataOK, RunOK

\* Before the hardware sequence.
LEMMA PrepareTypes ==
    ASSUME DataOK, RecoveryInv, Prepare
    PROVE  DataOK'
<1>0. RunOK /\ BoardTypeOK /\ screen \in Screens
  BY DEF DataOK, RunOK, BoardTypeOK, Screens
<1>1. CASE Provenance
  <2>1. RunOK'
    BY <1>0, <1>1, RaiseTypes DEF Provenance, RunOK, Reports, Fields, Exceptions
  <2> QED
    BY <1>0, <1>1, <2>1, EnvSame DEF Provenance, DataOK, RunOK
<1>2. CASE Build
  <2>1. RunOK'
    BY <1>0, <1>2, RaiseTypes DEF Build, RunOK, Reports, Fields, Exceptions, Slots
  <2> QED
    BY <1>0, <1>2, <2>1, EnvSame DEF Build, DataOK, RunOK
<1>3. CASE ReadElf \/ Discover \/ Poll
  BY <1>3, LookTypes DEF ReadElf, Discover, Poll, Exceptions
<1>4. CASE HubOff
  <2>1. RunOK' /\ faults' \in 0 .. MaxFaults
    BY <1>0, <1>4, RaiseTypes, BoardAssumption
       DEF HubOff, RunOK, Fault, BoardTypeOK, Exceptions
  <2> QED
    BY <1>0, <1>4, <2>1, PortTypes DEF HubOff, DataOK, RunOK
<1>5. CASE HubOn
  <2>1. RunOK' /\ faults' \in 0 .. MaxFaults
    BY <1>0, <1>5, RaiseTypes, GotoTypes, BoardAssumption
       DEF HubOn, RunOK, Fault, BoardTypeOK, Exceptions
  <2> QED
    BY <1>0, <1>5, <2>1, PortTypes DEF HubOn, DataOK, RunOK
<1>6. CASE OpenLink
  <2>1. out' \in Reports
    <3>1. ResultName("Other") \in {ResultName(e) : e \in Exceptions} /\ ExitCode("Other") \in 0 .. 3
      BY DEF Exceptions, ExitCode
    <3>2. CASE out' = [out EXCEPT !.fields = @ \cup {"target"}]
      BY <1>0, <3>2 DEF RunOK, Reports, Fields
    <3>3. CASE out' = [[out EXCEPT !.fields = @ \cup {"target"}] EXCEPT
                          !.result = ResultName("Other"), !.exit = ExitCode("Other"),
                          !.fields = @ \cup {"error"}]
      BY <1>0, <3>1, <3>3 DEF RunOK, Reports, Fields
    <3> QED
      BY <1>6, <3>2, <3>3 DEF OpenLink
  <2>2. screen' \in Screens /\ link' \in {"none", "open", "dead"}
    BY <1>0, <1>6, BlankIsScreen DEF OpenLink, BoardTypeOK
  <2>3. BoardTypeOK'
    BY <1>0, <1>6, <2>2 DEF OpenLink, BoardTypeOK, boardVars, Screens
  <2> QED
    BY <1>0, <1>6, <2>1, <2>3 DEF OpenLink, DataOK, RunOK
<1> QED
  BY <1>1, <1>2, <1>3, <1>4, <1>5, <1>6 DEF Prepare

\* Acquiring the console.
LEMMA AcquireTypes ==
    ASSUME DataOK, Acquire \/ CatchKey \/ AutobootWins
    PROVE  DataOK'
<1>0. RunOK /\ BoardTypeOK /\ screen \in Screens
  BY DEF DataOK, RunOK, BoardTypeOK, Screens
<1>1. CASE PowerOff
  <2>1. RunOK' /\ faults' \in 0 .. MaxFaults
    BY <1>0, <1>1, RaiseTypes, BoardAssumption
       DEF PowerOff, RunOK, Fault, BoardTypeOK, Exceptions
  <2>2. BoardTypeOK'
    <3>1. CASE CutPower
      BY <1>0, <1>1, <2>1, <3>1, CutPowerTypes DEF PowerOff
    <3>2. CASE UNCHANGED boardVars
      BY <1>0, <1>1, <2>1, <3>2 DEF PowerOff, BoardTypeOK, boardVars, consoleVars
    <3> QED
      BY <1>1, <3>1, <3>2 DEF PowerOff
  <2> QED
    BY <2>1, <2>2 DEF DataOK, RunOK
<1>2. CASE PowerOn
  <2>1. RunOK' /\ faults' \in 0 .. MaxFaults
    BY <1>0, <1>2, RaiseTypes, GotoTypes, BoardAssumption
       DEF PowerOn, RunOK, Fault, BoardTypeOK, Exceptions
  <2>2. screen' \in Screens
    BY <1>0, <1>2, BlankIsScreen DEF PowerOn
  <2>3. BoardTypeOK'
    <3>1. CASE RestorePower
      BY <1>0, <1>2, <2>1, <2>2, <3>1, RestorePowerTypes DEF PowerOn
    <3>2. CASE UNCHANGED boardVars
      BY <1>0, <1>2, <2>1, <2>2, <3>2 DEF PowerOn, BoardTypeOK, boardVars, Screens
    <3> QED
      BY <1>2, <3>1, <3>2 DEF PowerOn
  <2> QED
    BY <2>1, <2>3 DEF DataOK, RunOK
<1>3. CASE Catch \/ CatchBroken
  BY <1>3, LookTypes DEF Catch, Found, CatchBroken, Exceptions
<1>4. CASE CatchKey
  <2>1. screen' \in Screens
    BY <1>0, <1>4, WithIsScreen DEF CatchKey, AnswerKey, Evidence
  <2>2. BoardTypeOK'
    BY <1>0, <1>4, <2>1 DEF CatchKey, AnswerKey, BoardTypeOK, Screens, Alive
  <2> QED
    BY <1>0, <1>4, <2>2 DEF CatchKey, runVars, DataOK, RunOK
<1>5. CASE AutobootWins
  <2>1. BoardTypeOK'
    BY <1>0, <1>5 DEF AutobootWins, Autoboot, BoardTypeOK, Alive, Booting, consoleVars
  <2> QED
    BY <1>0, <1>5, <2>1 DEF AutobootWins, runVars, DataOK, RunOK
<1> QED
  BY <1>1, <1>2, <1>3, <1>4, <1>5 DEF Acquire

\* Everything typed at and read from the console.
LEMMA ConsoleTypes ==
    ASSUME DataOK, Resume \/ Safety \/ Deploy
    PROVE  DataOK'
<1> USE BlankIsScreen DEF Found, Missing, Commands, Exceptions
<1>0. screen \in Screens
  BY DEF DataOK, BoardTypeOK, Screens
<1>1. CASE Resume
  BY <1>0, <1>1, SendTypes, LookTypes
     DEF Resume, LoadImage, LoadDtb, BootLinux, WaitForLinux, CheckBanner, Login
<1>2. CASE Safety
  BY <1>0, <1>2, SendTypes, LookTypes
     DEF Safety, CheckSdRoot, CheckMounts, UmountEmmc, Recheck
<1>3. CASE Deploy
  BY <1>0, <1>3, SendTypes, LookTypes
     DEF Deploy, CheckPresent, Transfer, VerifyTransfer, CheckReader, SendSource,
         CompileReader, MarkReader
<1> QED
  BY <1>1, <1>2, <1>3

\* The M4's start, its result and the validation.
LEMMA MeasureTypes ==
    ASSUME DataOK, Measure
    PROVE  DataOK'
<1>0. RunOK /\ BoardTypeOK /\ screen \in Screens
  BY DEF DataOK, RunOK, BoardTypeOK, Screens
<1>1. CASE EnterUboot \/ LoadFirmware \/ CopyFirmware \/ StartM4 \/ AskResult
  BY <1>0, <1>1, SendTypes, LookTypes, BlankIsScreen
     DEF EnterUboot, LoadFirmware, CopyFirmware, StartM4, AskResult, Found, Missing,
         Commands, Exceptions
<1>2. CASE CheckStart
  <2>1. RunOK'
    BY <1>0, <1>2, RaiseTypes DEF CheckStart, RunOK, Exceptions
  <2> QED
    BY <1>0, <1>2, <2>1, EnvSame DEF CheckStart, DataOK, RunOK
<1>3. CASE ParseResult
  <2>1. RunOK'
    <3>1. CASE out' = [out EXCEPT !.bench = screen.json, !.fields = @ \cup {"benchmark"}]
      <4>1. screen.json \in Results
        BY <1>0 DEF Screens
      <4>2. out' \in Reports
        BY <1>0, <3>1, <4>1 DEF RunOK, Reports, Fields
      <4> QED
        BY <1>0, <1>3, <3>1, <4>2, RaiseTypes DEF ParseResult, RunOK, Exceptions
    <3>2. CASE Raise("InfrastructureError")
      BY <1>0, <3>2, RaiseTypes DEF Exceptions
    <3> QED
      BY <1>3, <3>1, <3>2 DEF ParseResult
  <2> QED
    BY <1>0, <1>3, <2>1, EnvSame DEF ParseResult, DataOK, RunOK
<1>4. CASE CollectResult /\ ~ParseResult
  BY <1>4, LookTypes DEF CollectResult, Missing, Exceptions
<1>5. CASE Validate
  <2>1. RunOK'
    <3>1. CASE out' = [out EXCEPT !.result = "PASS", !.exit = 0] /\ UNCHANGED <<phase, built>>
      <4>1. out' \in Reports
        <5>1. "PASS" \in {"UNKNOWN", "PASS"} \cup {ResultName(e) : e \in Exceptions}
          OBVIOUS
        <5>2. 0 \in 0 .. 3 \cup {NoExit}
          OBVIOUS
        <5> QED
          BY <1>0, <3>1, <5>1, <5>2 DEF RunOK, Reports
      <4> QED
        BY <1>0, <3>1, <4>1 DEF RunOK
    <3>2. CASE Raise("TestFailure")
      BY <1>0, <3>2, RaiseTypes DEF Exceptions
    <3> QED
      BY <1>5, <3>1, <3>2 DEF Validate
  <2> QED
    BY <1>0, <1>5, <2>1, EnvSame DEF Validate, DataOK, RunOK
<1> QED
  BY <1>1, <1>2, <1>3, <1>4, <1>5 DEF Measure

\* The end of a run and the next one.
LEMMA EndTypes ==
    ASSUME DataOK, Retry \/ Finally \/ Interrupt \/ NextRun
    PROVE  DataOK'
<1>0. RunOK /\ BoardTypeOK /\ screen \in Screens
  BY DEF DataOK, RunOK, BoardTypeOK, Screens
<1>1. CASE Retry
  <2>1. BoardTypeOK'
    BY <1>0, <1>1 DEF Retry, BoardTypeOK, boardVars
  <2> QED
    BY <1>0, <1>1, <2>1 DEF Retry, DataOK, RunOK
<1>2. CASE Finally
  <2>1. BoardTypeOK'
    BY <1>0, <1>2 DEF Finally, BoardTypeOK, boardVars
  <2>2. out' \in Reports
    <3>1. (IF out.exit = NoExit THEN 1 ELSE out.exit) \in 0 .. 3 \cup {NoExit}
      BY <1>0 DEF RunOK, Reports
    <3>2. out' = [out EXCEPT !.written = TRUE, !.exit = IF out.exit = NoExit THEN 1 ELSE out.exit]
      BY <1>0, <1>2 DEF Finally, RunOK, Reports
    <3> QED
      BY <1>0, <3>1, <3>2 DEF RunOK, Reports
  <2> QED
    BY <1>0, <1>2, <2>1, <2>2 DEF Finally, DataOK, RunOK
<1>3. CASE Interrupt
  BY <1>3, LookTypes DEF Interrupt
<1>4. CASE NextRun
  <2>1. faults' \in 0 .. MaxFaults
    BY <1>4, FoundFaultsBounded DEF NextRun
  <2>2. screen' \in Screens
    BY <1>4, BlankIsScreen DEF NextRun
  <2>3. BoardTypeOK'
    BY <1>0, <1>4, <2>1, <2>2 DEF NextRun, BoardTypeOK, Screens
  <2>4. out' \in Reports
    BY <1>4 DEF NextRun, StartRun, FreshOut, Reports, NoResult, Results, Slots, NoExit
  <2> QED
    BY <1>4, <2>3, <2>4 DEF NextRun, StartRun, DataOK, Slots
<1> QED
  BY <1>1, <1>2, <1>3, <1>4

\* Every step keeps the types.
LEMMA DataStep ==
    ASSUME DataOK, RecoveryInv, [Next]_vars
    PROVE  DataOK'
<1>1. CASE RunnerStep
  BY <1>1, PrepareTypes, AcquireTypes, ConsoleTypes, MeasureTypes, EndTypes DEF RunnerStep
<1>2. CASE CatchKey \/ AutobootWins
  BY <1>2, AcquireTypes
<1>3. CASE Interrupt \/ NextRun
  BY <1>3, EndTypes
<1>4. CASE (BoardStep \/ FaultStep) /\ UNCHANGED runVars
  <2>1. BoardTypeOK'
    BY <1>4, UbootTypes, LinuxTypes, FaultTypes DEF BoardStep, DataOK
  <2> QED
    BY <1>4, <2>1 DEF runVars, DataOK
<1>5. CASE UNCHANGED vars
  <2>1. BoardTypeOK'
    BY <1>5, EnvSame DEF vars, DataOK
  <2> QED
    BY <1>5, <2>1 DEF vars, runVars, DataOK
<1> QED
  BY <1>1, <1>2, <1>3, <1>4, <1>5 DEF Next

\* The types of the runner and of the bench, whatever the constants.
THEOREM TypeCorrect == Spec => []TypeOK
<1>1. Init => DataOK
  BY DataInit
<1>2. DataOK /\ RecoveryInv /\ [Next]_vars => DataOK'
  BY DataStep
<1>3. DataOK /\ RecoveryInv => TypeOK
  BY DEF DataOK, Reports, RecoveryInv, Order, BoardCount, HubCount, Shaped, TypeOK
<1> QED
  BY <1>1, <1>2, <1>3, RecoveryInvariant, PTL DEF Spec
=============================================================================
