SPECIFICATION Spec
CONSTANTS
    Procs = {"unit", "cli"}
    UnitProc = "unit"
    Settings = {"ok", "fallback", "factory"}
    Factory = "factory"
    Profiles <- MCProfiles
    Configs <- MCConfigs
    CliArgs <- MCCliArgs
    InitHosts <- MCInitHosts
    Disturbable = {"irq-affinity"}
    MaxFaults = 1
    MaxDisturbs = 1
    MaxCliRuns = 1
    MaxReboots = 0
INVARIANTS TypeOK  EveryResourceReported
PROPERTY OnlyPermittedChanges
CHECK_DEADLOCK FALSE
