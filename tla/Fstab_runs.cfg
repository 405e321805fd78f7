SPECIFICATION Spec
CONSTANTS
    Procs = {p1, p2}
    Lines = {root}
    FstabUnit = "fstab.swap"
    NativeUnits = {}
    MaxFaults = 2
    MaxEdits = 1
    MaxReboots = 1
    MaxRuns = 2
SYMMETRY ProcSymmetry
INVARIANTS TypeOK AppliedMeansDone DoneSurvivesReboot AtMostOneBpfLine
    BackupIsUntouched BackupBeforeEdit
PROPERTY OperatorLinesKept
CHECK_DEADLOCK FALSE
