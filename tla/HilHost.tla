------------------------------ MODULE HilHost ------------------------------
(***************************************************************************)
(* The host of the bench: the two HIL jobs (CiJobs) and the relay that a   *)
(* VisionCB job's script power-cycles its board with (PowerRelay), from    *)
(* job to job.  The scripts themselves are VisionHil and NucleoHil; here   *)
(* they end with any exit status, a VisionCB script after at least one     *)
(* power cycle that returned.                                              *)
(***************************************************************************)
EXTENDS CiJobs, PowerRelay

CONSTANTS
    VisionCB,    \* the workflow whose script uses the relay
    MaxCycles    \* power cycles of one VisionCB script

ASSUME HostAssumption == VisionCB \in Workflows /\ MaxCycles \in Nat \ {0}

VARIABLE cycles  \* power cycles begun by the running script

vars == <<ciVars, relayVars, cycles>>

TypeOK == CiTypeOK /\ RelayTypeOK /\ cycles \in 0 .. MaxCycles

Init == CiInit /\ RelayInit /\ cycles = 0

Scripting == At(VisionCB, "hardware")

\* Mutant: one retry after another.
PowerCycleUnbounded ==
    /\ Scripting
    /\ Begin
    /\ cycles' = cycles + 1
    /\ UNCHANGED ciVars

\* acquire_console_via_power_cycle, once per attempt.
PowerCycle ==
    /\ Scripting
    /\ cycles < MaxCycles
    /\ Begin
    /\ cycles' = cycles + 1
    /\ UNCHANGED ciVars

CycleOn == Scripting /\ CycleStep /\ UNCHANGED <<ciVars, cycles>>

\* A RelayError is no RunnerError, and ends the script with exit 2; a board that
\* has answered has its supply.  What is found before the first cycle (no probe,
\* no build) is no verdict on the firmware.
FinishVision ==
    /\ \/ call = "error" /\ Finish(VisionCB, 2)
       \/ call = "ok" /\ \E code \in Exits : /\ code = 0 => on[Ours]
                                             /\ Finish(VisionCB, code)
       \/ call = "none" /\ \E code \in {2, 3} : Finish(VisionCB, code)
    /\ UNCHANGED <<relayVars, cycles>>

FinishOther(w) ==
    /\ w # VisionCB
    /\ \E code \in Exits : Finish(w, code)
    /\ UNCHANGED <<relayVars, cycles>>

\* Killing the script stops a power cycle where it is.
CancelJob(w) ==
    /\ Cancel(w)
    /\ IF w = VisionCB THEN Forget ELSE UNCHANGED relayVars
    /\ UNCHANGED cycles

LeaveJob(w) ==
    /\ Leave(w)
    /\ Forget
    /\ cycles' = 0

Orchestrate(w) == OrchestrationStep(w) /\ UNCHANGED <<relayVars, cycles>>
TriggerJob(w) == Trigger(w) /\ UNCHANGED <<relayVars, cycles>>

JobStep ==
    \/ PowerCycle \/ CycleOn \/ FinishVision
    \/ \E w \in Workflows : Orchestrate(w) \/ FinishOther(w)

Next ==
    \/ JobStep
    \/ \E w \in Workflows : TriggerJob(w) \/ CancelJob(w) \/ LeaveJob(w)
    \/ Push /\ UNCHANGED <<relayVars, cycles>>
    \/ BusStep /\ UNCHANGED <<ciVars, cycles>>

Spec == Init /\ [][Next]_vars

\* Every call of a script and every step of a job has a time limit.
FairSpec == Spec /\ WF_vars(JobStep)

----------------------------------------------------------------------------

\* Every job that has started comes to its verdict.
JobEnds == \A w \in Workflows : At(w, "checkout") ~> At(w, "over")
=============================================================================
