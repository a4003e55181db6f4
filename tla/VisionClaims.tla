---------------------------- MODULE VisionClaims ----------------------------
(***************************************************************************)
(* What the README, docstrings and comments say of the VisionCB runner and *)
(* its code does not do.  Each claim is checked in a run of its own that   *)
(* ends in a counterexample; README.md tells each one's story.             *)
(***************************************************************************)
EXTENDS MCVisionHil

\* result_schema.py: every runner's result.json has one of four results and the
\* build's and target's metadata.
ReportFollowsSchema ==
    pc = "exited" =>
        /\ out.result \in {"PASS", "TEST_FAILURE", "INFRASTRUCTURE_ERROR", "RECOVERY_REQUIRED"}
        /\ {"quarry", "firmware", "toolchain", "target"} \subseteq out.fields

ExitOf(o) == o.exit

\* run_hardware_sequence's docstring: a board that stopped answering at any step
\* raises RecoveryRequired, which on the first sequence means the retry.
GivesUpOnSilence ==
    /\ pc \in SequencePcs \ AcquirePcs
    /\ pc' = "finally"
    /\ seqNo = 1
    /\ os = "hung"             \* and stays so: only a power cycle helps
    /\ link = "open"

SilentBoardNeedsRecovery == [][GivesUpOnSilence => ExitOf(out') = 3]_vars

\* README: no mmcblk2 partition is mounted once the storage check has passed; not
\* even while the console, the check's only eye, still carries every answer.
EmmcUnmountedAfterCheck ==
    os = "sd_shell" /\ Listening /\ pc \in TransferPcs \cup ReaderPcs \cup CollectPcs => ~emmc

\* "reader compiled and marker written": the checksum marker that lets later
\* runs reuse the reader is only there if the reader is.
MarkerMeansCompiled == sd.marker => sd.reader

\* README: the login banner is confirmed before credentials are sent.
RootOnlyToSdImage == touched.root \subseteq {"sd_login"}
=============================================================================
