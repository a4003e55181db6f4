------------------------------- MODULE CiJobs -------------------------------
(***************************************************************************)
(* .github/workflows/visioncb-hil.yml and nucleo-hil.yml: the steps of the *)
(* two HIL jobs on the one self-hosted runner, around the board's runner   *)
(* script.  They share a clone of Quarry and a workspace, the run          *)
(* directories of both boards in it.                                       *)
(*                                                                         *)
(* A job is abstracted to its step, the commits its `ref' goes through and *)
(* whose report it publishes; a run directory to whether this job made it. *)
(***************************************************************************)
EXTENDS Integers

CONSTANTS
    Workflows,   \* one per board
    MaxCommits   \* bound: commits main goes through

ASSUME CiAssumption == MaxCommits \in Nat \ {0}

VARIABLES
    main,    \* the commit main is at on GitHub
    clone,   \* QUARRY_CI_CHECKOUT: origin/main as last fetched, and HEAD
    job,     \* each workflow's job
    dirs     \* each board's newest run directory in the workspace

ciVars == <<main, clone, job, dirs>>

Commits == 1 .. MaxCommits
NoCommit == 0
NoExit == -1
Exits == {0, 1, 2, 3}

\* main when the clone was made: its local branch stays there, and so does the tag.
FirstCommit == 1

Steps == {"none", "checkout", "fetch", "switch", "hil", "provenance", "hardware",
          "rundir", "summary", "upload", "verdict", "over"}
HilSteps == {"hil", "provenance", "hardware"}

\* "bare": made by this job, its result.json not written yet.
Dirs == {"none", "old", "bare", "own"}

\* meant: history, what the ref designates on GitHub when it is fetched.
Jobs == [step : Steps, ref : {"main", "tag"}, meant : Commits \cup {NoCommit},
         resolved : Commits \cup {NoCommit}, recorded : Commits \cup {NoCommit},
         exit : Exits \cup {NoExit}, rundir : Dirs, published : Dirs,
         clean : BOOLEAN, ok : BOOLEAN]

NoJob == [step |-> "none", ref |-> "main", meant |-> NoCommit, resolved |-> NoCommit,
          recorded |-> NoCommit, exit |-> NoExit, rundir |-> "none",
          published |-> "none", clean |-> FALSE, ok |-> TRUE]

CiTypeOK ==
    /\ main \in Commits
    /\ clone \in [origin : Commits, head : Commits]
    /\ job \in [Workflows -> Jobs]
    /\ dirs \in [Workflows -> Dirs]

CiInit ==
    /\ main = FirstCommit
    /\ clone = [origin |-> FirstCommit, head |-> FirstCommit]
    /\ job = [w \in Workflows |-> NoJob]
    /\ dirs \in [Workflows -> {"none", "old"}]

----------------------------------------------------------------------------

At(w, step) == job[w].step = step
Update(w, new) == job' = [job EXCEPT ![w] = new]
Advance(w, step) == Update(w, [job[w] EXCEPT !.step = step])

\* After a failed step only the `if: always()' steps are left.
Fail(w) == Update(w, [job[w] EXCEPT !.step = "rundir", !.ok = FALSE])

Push ==
    /\ main < MaxCommits
    /\ main' = main + 1
    /\ UNCHANGED <<clone, job, dirs>>

\* workflow_dispatch, or the nightly on main; one job at a time on one runner.
Trigger(w) ==
    /\ \A v \in Workflows : At(v, "none")
    /\ \E r \in {"main", "tag"} : Update(w, [NoJob EXCEPT !.step = "checkout", !.ref = r])
    /\ dirs' = [dirs EXCEPT ![w] = IF @ = "none" THEN "none" ELSE "old"]
    /\ UNCHANGED <<main, clone>>

\* Mutant: the workspace is not cleaned.
CheckoutUnclean(w) ==
    /\ At(w, "checkout")
    /\ \/ Update(w, [job[w] EXCEPT !.step = "fetch", !.clean = TRUE])
       \/ Fail(w)
    /\ UNCHANGED <<main, clone, dirs>>

\* actions/checkout removes what git does not track, both boards' runs/ with it;
\* one that fails may have done so.
Checkout(w) ==
    /\ At(w, "checkout")
    /\ \/ /\ Update(w, [job[w] EXCEPT !.step = "fetch", !.clean = TRUE])
          /\ dirs' = [v \in Workflows |-> "none"]
       \/ Fail(w) /\ (UNCHANGED dirs \/ dirs' = [v \in Workflows |-> "none"])
    /\ UNCHANGED <<main, clone>>

Fetch(w) ==
    /\ At(w, "fetch")
    /\ \/ /\ Update(w, [job[w] EXCEPT !.step = "switch",
                            !.meant = IF job[w].ref = "main" THEN main ELSE FirstCommit])
          /\ clone' = [clone EXCEPT !.origin = main]
       \/ Fail(w) /\ UNCHANGED clone
    /\ UNCHANGED <<main, dirs>>

\* Mutant: the ref is taken as the clone has it.
ResolvedLocally(r) == FirstCommit

\* origin/$REF if there is one: the clone's own main is never moved.
Resolved(r) == IF r = "main" THEN clone.origin ELSE FirstCommit

Switch(w) ==
    /\ At(w, "switch")
    /\ \/ /\ Update(w, [job[w] EXCEPT !.step = "hil", !.resolved = Resolved(job[w].ref)])
          /\ clone' = [clone EXCEPT !.head = Resolved(job[w].ref)]
       \/ Fail(w) /\ UNCHANGED clone
    /\ UNCHANGED <<main, dirs>>

----------------------------------------------------------------------------
(* The step that runs the board's script: set +e, and its exit status noted *)

Exit(w, code) == Update(w, [job[w] EXCEPT !.step = "rundir", !.exit = code])

\* The script makes its run directory, or does not get so far.
Launch(w) ==
    /\ At(w, "hil")
    /\ \/ Advance(w, "provenance") /\ dirs' = [dirs EXCEPT ![w] = "bare"]
       \/ Exit(w, 1) /\ UNCHANGED dirs
    /\ UNCHANGED <<main, clone>>

\* capture_quarry_provenance(--quarry-dir).
Provenance(w) ==
    /\ At(w, "provenance")
    /\ \/ /\ Update(w, [job[w] EXCEPT !.step = "hardware", !.recorded = clone.head])
          /\ UNCHANGED dirs
       \/ Exit(w, 2) /\ dirs' = [dirs EXCEPT ![w] = "own"]
    /\ UNCHANGED <<main, clone>>

\* However the hardware run ends, `finally' has written result.json.
Finish(w, code) ==
    /\ At(w, "hardware")
    /\ Exit(w, code)
    /\ dirs' = [dirs EXCEPT ![w] = "own"]
    /\ UNCHANGED <<main, clone>>

\* timeout-minutes, or someone cancels: the script is interrupted where it is, and
\* may or may not come to write its result.json before it is killed.
Cancel(w) ==
    /\ job[w].step \in {"checkout", "fetch", "switch"} \cup HilSteps
    /\ Fail(w)
    /\ \/ UNCHANGED dirs
       \/ job[w].step \in {"provenance", "hardware"} /\ dirs' = [dirs EXCEPT ![w] = "own"]
    /\ UNCHANGED <<main, clone>>

----------------------------------------------------------------------------
(* The `if: always()' steps *)

\* ls -td runs/*/ | head -1, under pipefail.
LocateRunDir(w) ==
    /\ At(w, "rundir")
    /\ Update(w, [job[w] EXCEPT !.step = "summary", !.rundir = dirs[w],
                                !.ok = @ /\ dirs[w] # "none"])
    /\ UNCHANGED <<main, clone, dirs>>

\* An older directory may or may not hold a result.json.
Summarize(w) ==
    /\ At(w, "summary")
    /\ \E readable \in BOOLEAN :
          /\ job[w].rundir = "own" => readable
          /\ job[w].rundir \in {"none", "bare"} => ~readable
          /\ Update(w, [job[w] EXCEPT !.step = "upload", !.ok = @ /\ readable])
    /\ UNCHANGED <<main, clone, dirs>>

Upload(w) ==
    /\ At(w, "upload")
    /\ \/ Update(w, [job[w] EXCEPT !.step = "verdict", !.published = job[w].rundir])
       \/ Update(w, [job[w] EXCEPT !.step = "verdict", !.ok = FALSE])
    /\ UNCHANGED <<main, clone, dirs>>

Verdict(w) ==
    /\ At(w, "verdict")
    /\ Update(w, [job[w] EXCEPT !.step = "over", !.ok = @ /\ job[w].exit = 0])
    /\ UNCHANGED <<main, clone, dirs>>

Leave(w) ==
    /\ At(w, "over")
    /\ Update(w, NoJob)
    /\ UNCHANGED <<main, clone, dirs>>

OrchestrationStep(w) ==
    \/ Checkout(w) \/ Fetch(w) \/ Switch(w) \/ Launch(w) \/ Provenance(w)
    \/ LocateRunDir(w) \/ Summarize(w) \/ Upload(w) \/ Verdict(w)

----------------------------------------------------------------------------
(* What a job promises whoever looks at it *)

Green(w) == At(w, "over") /\ job[w].ok

\* A green job publishes the report of its own run, which passed, and the Quarry
\* commit recorded in it is the one the requested ref designated on GitHub when
\* the job fetched it: not a stale local branch, not what the other board's
\* workflow has checked out in the clone they share.
GreenIsTheRequestedRef ==
    \A w \in Workflows : Green(w) =>
        /\ job[w].exit = 0
        /\ job[w].published = "own"
        /\ job[w].recorded = job[w].meant
        /\ job[w].meant \in Commits

\* An earlier job's report is never published as this job's, however this one
\* fails, once its checkout has succeeded: the newest directory by time is this
\* run's or there is none.
NoStaleReport ==
    \A w \in Workflows : job[w].clean => job[w].published # "old"
=============================================================================
