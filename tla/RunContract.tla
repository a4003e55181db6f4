---------------------------- MODULE RunContract ----------------------------
(***************************************************************************)
(* What a HIL runner promises whoever starts it, whatever the board: the   *)
(* exit-code table of README.md and its "Boot recovery" section.  A run    *)
(* tries the hardware a bounded number of times, again only because the    *)
(* try before left the board unresponsive; it passes only on a result that *)
(* was measured; the verdict, once reached, is reported and final.         *)
(***************************************************************************)
EXTENDS Naturals, TLAPS

CONSTANT
    MaxTries    \* hardware sequences a run may start

VARIABLES
    stage,    \* where the run is
    tries,    \* hardware sequences started in this run
    verdict   \* the reason the run ended, "none" until it has one

contractVars == <<stage, tries, verdict>>

Verdicts == {"none", "PASS", "TestFailure", "InfrastructureError", "RecoveryRequired"}

ContractTypeOK ==
    /\ stage \in {"preparing", "trying", "recovering", "judging", "closing", "done"}
    /\ tries \in 0 .. MaxTries
    /\ verdict \in Verdicts

ContractInit == stage = "preparing" /\ tries = 0 /\ verdict = "none"

Try ==
    /\ stage \in {"preparing", "recovering"}
    /\ stage' = "trying"
    /\ tries' = tries + 1
    /\ UNCHANGED verdict

\* The board went silent: all but the last try may be repeated.
Lose ==
    /\ stage = "trying"
    /\ tries < MaxTries
    /\ stage' = "recovering"
    /\ UNCHANGED <<tries, verdict>>

Measure ==
    /\ stage = "trying"
    /\ stage' = "judging"
    /\ UNCHANGED <<tries, verdict>>

Judge ==
    /\ stage = "judging"
    /\ stage' = "closing"
    /\ verdict' \in {"PASS", "TestFailure"}
    /\ UNCHANGED tries

\* The run cannot go on.  RECOVERY_REQUIRED is not the answer to a loss that
\* may be retried, and a firmware that was never started fails no test.
GiveUp ==
    /\ \/ stage \in {"preparing", "trying", "recovering"} /\ verdict' = "InfrastructureError"
       \/ stage \in {"preparing", "recovering"} /\ verdict' = "RecoveryRequired"
       \/ stage = "trying" /\ tries = MaxTries /\ verdict' = "RecoveryRequired"
       \/ stage = "trying" /\ verdict' = "TestFailure"
    /\ stage' = "closing"
    /\ UNCHANGED tries

\* The operator interrupts the run.
Interrupted ==
    /\ stage \notin {"closing", "done"}
    /\ stage' = "closing"
    /\ UNCHANGED <<tries, verdict>>

Report == stage = "closing" /\ stage' = "done" /\ UNCHANGED <<tries, verdict>>

Again ==
    /\ stage = "done"
    /\ stage' = "preparing"
    /\ tries' = 0
    /\ verdict' = "none"

ContractNext == Try \/ Lose \/ Measure \/ Judge \/ GiveUp \/ Interrupted \/ Report \/ Again

ContractSpec == ContractInit /\ [][ContractNext]_contractVars

----------------------------------------------------------------------------

\* The table's three meanings: a pass was measured, and a board is declared in
\* need of hands only after the last try or when none could be started.
ContractSafe ==
    /\ verdict = "PASS" => stage \in {"closing", "done"} /\ tries > 0
    /\ stage = "recovering" => tries \in 1 .. MaxTries - 1
    /\ verdict # "none" => stage \in {"closing", "done"}

----------------------------------------------------------------------------
(* The contract keeps its own promise for every number of tries; a runner  *)
(* that refines it inherits the result through its refinement.             *)

\* Between the try that a stage belongs to and the number of tries there is a
\* fixed relation; ContractSafe alone does not say that a try is under way.
ContractInv ==
    /\ ContractTypeOK
    /\ ContractSafe
    /\ stage = "preparing" => tries = 0
    /\ stage \in {"trying", "judging"} => tries > 0

\* The contract starts with no verdict and no try.
LEMMA ContractInitially ==
    ASSUME MaxTries \in Nat \ {0}, ContractInit
    PROVE  ContractInv
BY DEF ContractInit, ContractInv, ContractTypeOK, ContractSafe, Verdicts

\* Every action of the contract keeps its invariant.
LEMMA ContractPreserved ==
    ASSUME MaxTries \in Nat \ {0}, ContractInv, [ContractNext]_contractVars
    PROVE  ContractInv'
<1> USE DEF ContractInv, ContractTypeOK, ContractSafe, Verdicts
<1>1. CASE Try
  BY <1>1 DEF Try
<1>2. CASE Lose
  BY <1>2 DEF Lose
<1>3. CASE Measure
  BY <1>3 DEF Measure
<1>4. CASE Judge
  BY <1>4 DEF Judge
<1>5. CASE GiveUp
  BY <1>5 DEF GiveUp
<1>6. CASE Interrupted
  BY <1>6 DEF Interrupted
<1>7. CASE Report
  BY <1>7 DEF Report
<1>8. CASE Again
  BY <1>8 DEF Again
<1>9. CASE UNCHANGED contractVars
  BY <1>9 DEF contractVars
<1> QED
  BY <1>1, <1>2, <1>3, <1>4, <1>5, <1>6, <1>7, <1>8, <1>9 DEF ContractNext

\* A pass was measured by a try of this run, no run is repeated after its last
\* try, and a verdict is reached once: for every number of tries allowed.
THEOREM ContractIsSafe ==
    MaxTries \in Nat \ {0} => (ContractSpec => [](ContractTypeOK /\ ContractSafe))
<1> SUFFICES ASSUME MaxTries \in Nat \ {0}
             PROVE  ContractSpec => [](ContractTypeOK /\ ContractSafe)
  OBVIOUS
<1>1. ContractInit => ContractInv
  BY ContractInitially
<1>2. ContractInv /\ [ContractNext]_contractVars => ContractInv'
  BY ContractPreserved
<1>3. ContractInv => ContractTypeOK /\ ContractSafe
  BY DEF ContractInv
<1> QED
  BY <1>1, <1>2, <1>3, PTL DEF ContractSpec
=============================================================================
