------------------------------ MODULE Resource ------------------------------
(***************************************************************************)
(* The vocabulary every resource shares (internal/resource/resource.go) and *)
(* the mapping of a run's results to the process exit code                  *)
(* (internal/engine/report.go).  A run's results are a function from the    *)
(* position of a resource in the run's ordered list to its Status; names    *)
(* and detail strings are left out.                                         *)
(***************************************************************************)
EXTENDS Integers, FiniteSets

StatusUnchanged      == "unchanged"
StatusWouldChange    == "would_change"
StatusChanged        == "changed"
StatusFailed         == "failed"
StatusSkipped        == "skipped"
StatusRebootRequired == "reboot_required"

Status == {StatusUnchanged, StatusWouldChange, StatusChanged, StatusFailed,
           StatusSkipped, StatusRebootRequired}

\* engine.Mode
ModeApply == "apply"
ModeCheck == "check"
Mode      == {ModeApply, ModeCheck}

\* Status.Changed: a live or a pending mutation
Changed(s) == s \in {StatusChanged, StatusWouldChange}

\* Mutant: the exit code counts what failed or is pending
ExitCodeCounts(results, mode) ==
    Cardinality({i \in DOMAIN results :
                   results[i] \in {StatusFailed, StatusWouldChange}})

\* Mutant: a pending reboot counts as a failure
ExitCodeReboot(results, mode) ==
    IF \E i \in DOMAIN results :
         results[i] \in {StatusFailed, StatusRebootRequired} THEN 1
    ELSE IF mode = ModeCheck /\ \E i \in DOMAIN results : Changed(results[i])
         THEN 2 ELSE 0

\* A failure wins over pending changes; only check mode answers 2
ExitCode(results, mode) ==
    IF \E i \in DOMAIN results : results[i] = StatusFailed THEN 1
    ELSE IF mode = ModeCheck /\ \E i \in DOMAIN results : Changed(results[i])
         THEN 2 ELSE 0
=============================================================================
